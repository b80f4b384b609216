------------------------ MODULE CharacterStoreProofs ------------------------
(***************************************************************************)
(* Theorems about CharacterStore for any number of sessions, accounts,      *)
(* fields, characters and queued writes.                                    *)
(***************************************************************************)
EXTENDS CharacterStore, FiniteSetTheorems, SequenceTheorems, NaturalsInduction,
        WellFoundedInduction, TLAPS

-----------------------------------------------------------------------------
(* The inductive invariant, in named parts.                                  *)

TypeInv ==
  /\ TypeOK
  /\ place \in [Sessions -> Groups]
  /\ account \in [Sessions -> Accounts \cup {None}]
  /\ infos \in [Sessions -> [Slots -> Info]]
  /\ count \in [Sessions -> 0 .. MaxCharacters]
  /\ curIndex \in [Sessions -> Slots]
  /\ playing \in [Sessions -> Levels \cup {None}]

(* A slot that something filled has its own number, and one that nothing filled *)
(* has none; a player plays in a field, and one who plays a slot that nothing   *)
(* filled has put id 0 and the first slot's account on record.                 *)
SlotsInv ==
  \A s \in Sessions :
    /\ \A i \in Slots :
         /\ infos[s][i].owner # None => infos[s][i].idx = i
         /\ infos[s][i].owner = None => infos[s][i].idx = 0 /\ infos[s][i].id = 0
    /\ playing[s] # None => place[s] \in Fields
    /\ playing[s] # None /\ Cur(s).owner = None =>
         0 \in shared /\ infos[s][0].owner \in stale \cup {None}

(* Two sessions with something of an account, or two slots with an id, are on  *)
(* record.                                                                    *)
HistoryInv ==
  /\ \A s, t \in Sessions : \A a \in Accounts :
       s # t /\ Holds(s, a) /\ Holds(t, a) => a \in stale
  /\ \A s \in Sessions : \A i, j \in Slots :
       /\ i # j /\ infos[s][i].owner # None /\ infos[s][j].owner # None
       /\ infos[s][i].id = infos[s][j].id
       => infos[s][i].id \in shared

(* An insert will succeed; an update finds its row, or the insert comes first. *)
JobsInv ==
  \A i \in DOMAIN jobs :
    /\ jobs[i].op = "insert" => jobs[i].player \in Accounts
    /\ jobs[i].op = "insert" /\ jobs[i].id \notin shared =>
         /\ rows[jobs[i].id] = None
         /\ \A k \in DOMAIN jobs : jobs[k].op = "insert" /\ jobs[k].id = jobs[i].id => k = i
    /\ jobs[i].op = "update" /\ jobs[i].id \notin shared =>
         \/ rows[jobs[i].id] # None /\ rows[jobs[i].id].player = jobs[i].player
         \/ \E k \in DOMAIN jobs : /\ k < i /\ jobs[k].op = "insert"
                                   /\ jobs[k].id = jobs[i].id /\ jobs[k].player = jobs[i].player

(* The row, the queued writes in their order, the slot and what is played of   *)
(* a character: none is behind the one before it.                             *)
JobLevels ==
  \A i \in DOMAIN jobs : Safe(jobs[i].id, jobs[i].player) =>
    /\ rows[jobs[i].id] # None => rows[jobs[i].id].level <= jobs[i].level
    /\ \A k \in DOMAIN jobs : i < k /\ jobs[k].id = jobs[i].id => jobs[i].level <= jobs[k].level

InfoLevels ==
  \A s \in Sessions : \A i \in Slots :
    infos[s][i].owner # None /\ Safe(infos[s][i].id, infos[s][i].owner) =>
      /\ rows[infos[s][i].id] # None => rows[infos[s][i].id].level <= infos[s][i].level
      /\ \A k \in DOMAIN jobs : jobs[k].id = infos[s][i].id => jobs[k].level <= infos[s][i].level

PlayLevels ==
  \A s \in Sessions : playing[s] # None => Cur(s).level <= playing[s]

LevelsInv == JobLevels /\ InfoLevels /\ PlayLevels

IInv ==
  /\ TypeInv /\ SlotsInv /\ HistoryInv /\ JobsInv /\ LevelsInv
  /\ CharactersAreStored /\ WriterIsWoken

-----------------------------------------------------------------------------
(* The facts about the constants the proofs use. *)
LEMMA Constants ==
  /\ MaxId \in Nat \ {0} /\ MaxCharacters \in Nat \ {0} /\ MaxLevel \in Nat \ {0}
  /\ MaxLogins \in Nat \ {0} /\ Fresh \subseteq 0 .. MaxCharacters /\ Fresh # {}
  /\ None \notin Accounts /\ None \notin Int /\ None \notin Row
  /\ Login \notin Fields /\ Lobby \notin Fields /\ Login # Lobby
  /\ Groups = {Login, Lobby} \cup Fields
  /\ Ids \subseteq Int /\ 0 \in Ids
  /\ Slots \subseteq Nat /\ Slots \subseteq 0 .. MaxCharacters /\ 0 \in Slots
  /\ Levels = 0 .. MaxLevel /\ Levels \subseteq Nat /\ 0 \in Levels /\ None \notin Levels
<1>1. /\ MaxId \in Nat \ {0} /\ MaxCharacters \in Nat \ {0} /\ MaxLevel \in Nat \ {0}
      /\ MaxLogins \in Nat \ {0}
      /\ None \notin Accounts /\ None \notin Int
      /\ None \notin [player : Accounts, idx : Nat, level : Nat]
      /\ "login" \notin Fields /\ "lobby" \notin Fields
  BY StoreAssumption
<1>2. Row \subseteq [player : Accounts, idx : Nat, level : Nat]
  BY <1>1 DEF Row, Slots, Levels
<1>3. "login" # "lobby"
  OBVIOUS
<1> QED BY <1>1, <1>2, <1>3, StoreAssumption DEF Login, Lobby, Groups, Ids, Slots, Levels

(* What an empty queue and players nobody has logged in to say.               *)
LEMMA EmptyIInv ==
  ASSUME jobs = <<>>, signalling = {}, writer = "wait", signalled = FALSE,
         rows \in [Ids -> Row \cup {None}], logins \in 0 .. MaxLogins,
         place = Entrance, account = Nobody, infos = NoInfos,
         count \in [Sessions -> Fresh], curIndex = NoIndex, playing = Nobody,
         shared = {}, stale = {}, holed \subseteq Accounts
  PROVE  IInv
<1>1. /\ DOMAIN jobs = {}
      /\ \A s \in Sessions : /\ place[s] = Login /\ account[s] = None /\ playing[s] = None
                             /\ \A i \in Slots : infos[s][i] = Unset
  BY DEF Entrance, Nobody, NoInfos
<1>2. Unset \in Info /\ Unset.owner = None /\ Unset.idx = 0 /\ Unset.id = 0
  BY Constants DEF Unset, Info
<1>3. TypeInv
  <2>1. jobs \in Seq(Job)
    BY EmptySeq
  <2>2. /\ place \in [Sessions -> Groups] /\ account \in [Sessions -> Accounts \cup {None}]
        /\ curIndex \in [Sessions -> Slots] /\ playing \in [Sessions -> Levels \cup {None}]
        /\ count \in [Sessions -> 0 .. MaxCharacters]
    BY Constants DEF Entrance, Nobody, NoIndex
  <2>3. infos \in [Sessions -> [Slots -> Info]]
    BY <1>2 DEF NoInfos
  <2> QED BY <2>1, <2>2, <2>3 DEF TypeInv, TypeOK
<1>4. SlotsInv /\ JobsInv /\ LevelsInv /\ WriterIsWoken
  BY <1>1, <1>2 DEF SlotsInv, JobsInv, LevelsInv, JobLevels, InfoLevels, PlayLevels, WriterIsWoken
<1>5. HistoryInv /\ CharactersAreStored
  BY <1>1, <1>2, Constants DEF HistoryInv, Holds, CharactersAreStored
<1> QED BY <1>3, <1>4, <1>5 DEF IInv

(* Nobody is connected and nothing is queued.                                 *)
LEMMA InitIInv == Init => IInv
<1> SUFFICES ASSUME Init PROVE IInv
  OBVIOUS
<1>1. rows \in [Ids -> Row \cup {None}] /\ logins \in 0 .. MaxLogins
  BY Constants DEF Init
<1>2. /\ jobs = <<>> /\ signalling = {} /\ writer = "wait" /\ signalled = FALSE
      /\ place = Entrance /\ account = Nobody /\ infos = NoInfos
      /\ count \in [Sessions -> Fresh] /\ curIndex = NoIndex /\ playing = Nobody
      /\ shared = {} /\ stale = {} /\ holed \subseteq Accounts
  BY DEF Init
<1> QED BY <1>1, <1>2, EmptyIInv

(* The process ends and starts again: the rows are all there is.               *)
LEMMA CrashStep ==
  ASSUME IInv, Crash
  PROVE  IInv'
<1>1. /\ (rows \in [Ids -> Row \cup {None}])' /\ (logins \in 0 .. MaxLogins)'
      /\ (holed \subseteq Accounts)'
  BY DEF Crash, IInv, TypeInv, TypeOK
<1>2. /\ (jobs = <<>>)' /\ (signalling = {})' /\ (writer = "wait")' /\ (signalled = FALSE)'
      /\ (place = Entrance)' /\ (account = Nobody)' /\ (infos = NoInfos)'
      /\ (count \in [Sessions -> Fresh])' /\ (curIndex = NoIndex)' /\ (playing = Nobody)'
      /\ (shared = {})' /\ (stale = {})'
  BY DEF Crash, Nobody, Entrance, NoInfos, NoIndex
<1> QED BY <1>1, <1>2, EmptyIInv, PTL

(* The queue's bookkeeping moves no job, row or player.                        *)
LEMMA QueueStep ==
  ASSUME IInv, UNCHANGED <<rows, jobs, playerVars, historyVars>>,
         signalled' \in BOOLEAN, writer' \in {"wait", "drain"},
         signalling' \subseteq Groups, WriterIsWoken'
  PROVE  IInv'
<1>1. UNCHANGED <<rows, jobs, place, logins, account, infos, count, curIndex, playing,
                  shared, stale, holed>>
  BY DEF playerVars, historyVars
<1>2. TypeInv'
  BY <1>1 DEF IInv, TypeInv, TypeOK
<1>3. SlotsInv' /\ HistoryInv' /\ JobsInv' /\ LevelsInv' /\ CharactersAreStored'
  BY <1>1 DEF IInv, SlotsInv, Cur, HistoryInv, Holds, JobsInv, LevelsInv, JobLevels, InfoLevels,
     PlayLevels, Safe, CharactersAreStored, Pending
<1> QED BY <1>2, <1>3 DEF IInv

(* The event is set by the group that pushed, or will be.                     *)
LEMMA SetEventStep ==
  ASSUME IInv, NEW g \in Groups, SetEvent(g)
  PROVE  IInv'
<1>1. UNCHANGED <<rows, jobs, playerVars, historyVars, writer>> /\ signalled' = TRUE
      /\ signalling' \subseteq Groups
  BY DEF SetEvent, IInv, TypeInv, TypeOK
<1>2. writer' \in {"wait", "drain"} /\ WriterIsWoken'
  BY <1>1 DEF WriterIsWoken, IInv, TypeInv, TypeOK
<1> QED BY <1>1, <1>2, QueueStep

(* The writer that wakes has yet to look at the queue.                        *)
LEMMA WakeStep ==
  ASSUME IInv, Wake
  PROVE  IInv'
<1>1. /\ UNCHANGED <<rows, jobs, playerVars, historyVars, signalling>>
      /\ signalled' = FALSE /\ writer' = "drain" /\ signalling' \subseteq Groups
  BY DEF Wake, IInv, TypeInv, TypeOK
<1>2. WriterIsWoken'
  BY <1>1 DEF WriterIsWoken
<1> QED BY <1>1, <1>2, QueueStep

(* The writer goes to sleep over an empty queue only.                         *)
LEMMA DrainedStep ==
  ASSUME IInv, Drained
  PROVE  IInv'
<1>1. /\ UNCHANGED <<rows, jobs, playerVars, historyVars, signalling, signalled>>
      /\ writer' = "wait" /\ jobs = <<>>
      /\ signalling' \subseteq Groups /\ signalled' \in BOOLEAN
  BY DEF Drained, IInv, TypeInv, TypeOK
<1>2. WriterIsWoken'
  BY <1>1 DEF WriterIsWoken
<1> QED BY <1>1, <1>2, QueueStep

(* A queue without its first job, and with one job more.                       *)
LEMMA QueueTail ==
  ASSUME NEW T, NEW q \in Seq(T), q # <<>>
  PROVE  /\ Tail(q) \in Seq(T) /\ Head(q) = q[1] /\ 1 \in DOMAIN q /\ q[1] \in T
         /\ DOMAIN q \subseteq Nat \ {0}
         /\ \A i \in DOMAIN q : q[i] \in T
         /\ \A i \in DOMAIN Tail(q) : i \in Nat \ {0} /\ i + 1 \in DOMAIN q /\ Tail(q)[i] = q[i + 1]
         /\ \A i \in DOMAIN q : i # 1 => i - 1 \in DOMAIN Tail(q) /\ q[i] = Tail(q)[i - 1]
<1>1. /\ Tail(q) \in Seq(T) /\ Head(q) = q[1] /\ Len(q) \in Nat \ {0} /\ Len(Tail(q)) = Len(q) - 1
      /\ DOMAIN q = 1 .. Len(q) /\ DOMAIN Tail(q) = 1 .. Len(q) - 1
      /\ \A i \in 1 .. Len(q) - 1 : Tail(q)[i] = q[i + 1]
  BY HeadTailProperties, EmptySeq, LenProperties
<1>2. \A i \in DOMAIN q : q[i] \in T
  BY <1>1, ElementOfSeq
<1> QED BY <1>1, <1>2

(* A queue with one job more.                                                 *)
LEMMA QueueAppend ==
  ASSUME NEW T, NEW q \in Seq(T), NEW j \in T
  PROVE  /\ Append(q, j) \in Seq(T) /\ Append(q, j) # <<>>
         /\ Len(q) \in Nat /\ DOMAIN q = 1 .. Len(q) /\ DOMAIN Append(q, j) = 1 .. Len(q) + 1
         /\ \A i \in DOMAIN q : i < Len(q) + 1 /\ Append(q, j)[i] = q[i] /\ q[i] \in T
         /\ Append(q, j)[Len(q) + 1] = j
BY AppendProperties, LenProperties, ElementOfSeq

(* The set of queued writes.                                                  *)
LEMMA PendingJobs ==
  ASSUME jobs \in Seq(Job)
  PROVE  Pending = {jobs[i] : i \in DOMAIN jobs}
BY LenProperties DEF Pending, ToSet


(* Who has a character, now or when the insert is written; at most one account *)
(* unless the id is on record.                                                *)
Owned(c, a) ==
  \/ rows[c] # None /\ rows[c].player = a
  \/ \E j \in DOMAIN jobs : jobs[j].op = "insert" /\ jobs[j].id = c /\ jobs[j].player = a

(* The owner of an id not on record is one, and every job for the id is his.   *)
LEMMA OneOwner ==
  ASSUME IInv, NEW c \in Ids, c \notin shared
  PROVE  /\ \A a, b : Owned(c, a) /\ Owned(c, b) => a = b
         /\ \A i \in DOMAIN jobs : jobs[i].id = c => Owned(c, jobs[i].player)
<1>1. \A i \in DOMAIN jobs : jobs[i] \in Job
  BY ElementOfSeq, LenProperties DEF IInv, TypeInv, TypeOK
<1>2. \A i \in DOMAIN jobs : jobs[i].op \in {"insert", "update"}
  BY <1>1 DEF Job
<1> QED BY <1>2 DEF IInv, JobsInv, Owned

(* What the types say of a session's slots.                                   *)
LEMMA Slotted ==
  ASSUME IInv, NEW s \in Sessions, NEW i \in Slots
  PROVE  /\ infos[s][i] \in Info /\ infos[s][i].id \in Ids /\ infos[s][i].level \in Levels
         /\ infos[s][i].owner \in Accounts \cup {None}
         /\ infos[s][i].owner # None => infos[s][i].idx = i
         /\ infos[s][i].owner = None => infos[s][i].idx = 0 /\ infos[s][i].id = 0
<1>1. infos[s][i] \in Info
  BY DEF IInv, TypeInv
<1> QED BY <1>1 DEF IInv, SlotsInv, Info

(* CharactersAreStored, in these words: the slot's number goes with the owner. *)
LEMMA StoredIsOwned ==
  ASSUME IInv, NEW s \in Sessions, NEW i \in Slots,
         infos[s][i].owner # None, infos[s][i].id \notin shared
  PROVE  /\ Owned(infos[s][i].id, infos[s][i].owner)
         /\ rows[infos[s][i].id] # None => rows[infos[s][i].id].idx = i
<1>1. jobs \in Seq(Job)
  BY DEF IInv, TypeInv, TypeOK
<1>3. Pending = {jobs[k] : k \in DOMAIN jobs}
  BY <1>1, PendingJobs
<1> DEFINE c == infos[s][i].id
           a == infos[s][i].owner
<1>4. \/ rows[c] # None /\ rows[c].player = a /\ rows[c].idx = i
      \/ \E j \in Pending : j.op = "insert" /\ j.id = c /\ j.player = a
  BY DEF IInv, CharactersAreStored
<1> HIDE DEF c, a
<1>5. Owned(c, a)
  BY <1>3, <1>4 DEF Owned
<1>6. CASE rows[c] # None /\ rows[c].player = a /\ rows[c].idx = i
  BY <1>5, <1>6 DEF c, a
<1>7. CASE \E j \in Pending : j.op = "insert" /\ j.id = c /\ j.player = a
  <2>1. PICK k \in DOMAIN jobs : jobs[k].op = "insert" /\ jobs[k].id = c
    BY <1>3, <1>7
  <2>2. rows[c] = None
    BY <2>1 DEF IInv, JobsInv, c
  <2> QED BY <1>5, <2>2 DEF c, a
<1> QED BY <1>4, <1>6, <1>7

(* One job is written: a row comes up that was pending, or follows what was   *)
(* played.                                                                    *)
LEMMA Writing ==
  ASSUME IInv, Execute
  PROVE  LET j == jobs[1] IN
         /\ j \in Job /\ rows' \in [Ids -> Row \cup {None}]
         /\ \A c \in Ids \ {j.id} : rows'[c] = rows[c]
         /\ \A c \in Ids : rows[c] # None => /\ rows'[c] # None /\ rows'[c].player = rows[c].player
                                             /\ rows'[c].idx = rows[c].idx
         /\ j.op = "insert" /\ rows[j.id] = None =>
              /\ rows'[j.id] # None /\ rows'[j.id].player = j.player
              /\ rows'[j.id].idx = j.idx /\ rows'[j.id].level = j.level
         /\ j.op = "insert" /\ rows[j.id] # None => rows'[j.id] = rows[j.id]
         /\ j.op = "update" /\ rows[j.id] # None => rows'[j.id].level = j.level
         /\ j.op = "update" /\ rows[j.id] = None => rows'[j.id] = None
<1> DEFINE j == jobs[1]
<1>1. jobs # <<>> /\ rows' = Written(Head(jobs)) /\ jobs \in Seq(Job) /\ rows \in [Ids -> Row \cup {None}]
  BY DEF Execute, IInv, TypeInv, TypeOK
<1>2. j \in Job /\ Head(jobs) = j /\ 1 \in DOMAIN jobs
  BY <1>1, QueueTail
<1>3. /\ j.id \in Ids /\ j.op \in {"insert", "update"} /\ j.idx \in Slots /\ j.level \in Levels
      /\ j.op = "insert" => j.player \in Accounts
  BY <1>2 DEF Job, IInv, JobsInv
<1> DEFINE new == [player |-> j.player, idx |-> j.idx, level |-> j.level]
           saved == [rows[j.id] EXCEPT !.level = j.level]
<1>4. j.op = "insert" => new \in Row /\ new # None
  BY <1>3, Constants DEF Row
<1>5. rows[j.id] # None =>
        /\ saved \in Row /\ saved # None /\ saved.player = rows[j.id].player
        /\ saved.idx = rows[j.id].idx /\ saved.level = j.level
  BY <1>1, <1>3, Constants DEF Row
<1>6. rows' = CASE j.op = "insert" /\ rows[j.id] = None -> [rows EXCEPT ![j.id] = new]
                [] j.op = "update" /\ rows[j.id] # None -> [rows EXCEPT ![j.id] = saved]
                [] OTHER -> rows
  BY <1>1, <1>2 DEF Written
<1>7. new.player = j.player /\ new.idx = j.idx /\ new.level = j.level
  OBVIOUS
<1> HIDE DEF j, new, saved
<1>9. \/ j.op = "insert" /\ rows[j.id] = None /\ rows' = [rows EXCEPT ![j.id] = new]
      \/ j.op = "update" /\ rows[j.id] # None /\ rows' = [rows EXCEPT ![j.id] = saved]
      \/ /\ (j.op = "insert" /\ rows[j.id] # None) \/ (j.op = "update" /\ rows[j.id] = None)
         /\ rows' = rows
  BY <1>3, <1>6
<1>10. rows' \in [Ids -> Row \cup {None}]
  BY <1>1, <1>3, <1>4, <1>5, <1>9
<1>11. /\ \A c \in Ids \ {j.id} : rows'[c] = rows[c]
       /\ \A c \in Ids : rows[c] # None => /\ rows'[c] # None /\ rows'[c].player = rows[c].player
                                           /\ rows'[c].idx = rows[c].idx
       /\ j.op = "insert" /\ rows[j.id] = None =>
            /\ rows'[j.id] # None /\ rows'[j.id].player = j.player
            /\ rows'[j.id].idx = j.idx /\ rows'[j.id].level = j.level
       /\ j.op = "insert" /\ rows[j.id] # None => rows'[j.id] = rows[j.id]
       /\ j.op = "update" /\ rows[j.id] # None => rows'[j.id].level = j.level
       /\ j.op = "update" /\ rows[j.id] = None => rows'[j.id] = None
  BY <1>1, <1>3, <1>4, <1>5, <1>7, <1>9
<1> QED BY <1>2, <1>10, <1>11 DEF j

(* DBWriter's thread writes the first job of its queue.                       *)
LEMMA ExecuteStep ==
  ASSUME IInv, Execute
  PROVE  IInv'
<1> DEFINE j == jobs[1]
<1>1. /\ jobs # <<>> /\ jobs' = Tail(jobs) /\ writer = "drain" /\ jobs \in Seq(Job)
      /\ UNCHANGED <<signalled, writer, signalling, playerVars, historyVars>>
  BY DEF Execute, IInv, TypeInv, TypeOK
<1>2. UNCHANGED <<signalled, writer, signalling, place, logins, account, infos, count, curIndex, playing,
                  shared, stale, holed>>
  BY <1>1 DEF playerVars, historyVars
<1>3. /\ jobs' \in Seq(Job) /\ 1 \in DOMAIN jobs /\ j \in Job /\ DOMAIN jobs \subseteq Nat \ {0}
      /\ \A i \in DOMAIN jobs : jobs[i] \in Job
      /\ \A i \in DOMAIN jobs' : i \in Nat \ {0} /\ i + 1 \in DOMAIN jobs /\ jobs'[i] = jobs[i + 1]
      /\ \A i \in DOMAIN jobs : i # 1 => i - 1 \in DOMAIN jobs' /\ jobs[i] = jobs'[i - 1]
  BY <1>1, QueueTail
<1>4. TypeInv'
  BY <1>2, <1>3, Writing DEF IInv, TypeInv, TypeOK
<1>5. SlotsInv' /\ HistoryInv' /\ WriterIsWoken'
  BY <1>1, <1>2 DEF IInv, SlotsInv, Cur, HistoryInv, Holds, WriterIsWoken
<1>6. \A i \in DOMAIN jobs : /\ jobs[i].id \in Ids /\ jobs[i].op \in {"insert", "update"}
                             /\ jobs[i].level \in Levels
  BY <1>3 DEF Job
<1>7. CharactersAreStored'
  <2> SUFFICES ASSUME NEW s \in Sessions, NEW i \in Slots, infos[s][i].owner # None,
                      infos[s][i].id \notin shared
               PROVE  LET c == infos[s][i].id IN
                      \/ rows'[c] # None /\ rows'[c].player = infos[s][i].owner /\ rows'[c].idx = i
                      \/ \E k \in Pending' : /\ k.op = "insert" /\ k.id = c
                                             /\ k.player = infos[s][i].owner /\ k.idx = i
    BY <1>2 DEF CharactersAreStored
  <2> DEFINE c == infos[s][i].id
             a == infos[s][i].owner
  <2>1. c \in Ids
    BY Slotted
  <2>2. Pending' = {jobs'[k] : k \in DOMAIN jobs'} /\ Pending = {jobs[k] : k \in DOMAIN jobs}
    BY <1>1, <1>3, PendingJobs DEF Pending, ToSet
  <2>3. CASE rows[c] # None /\ rows[c].player = a /\ rows[c].idx = i
    BY <2>1, <2>3, Writing
  <2>4. ASSUME NEW k \in DOMAIN jobs, jobs[k].op = "insert", jobs[k].id = c, jobs[k].player = a,
               jobs[k].idx = i
        PROVE  \/ rows'[c] # None /\ rows'[c].player = a /\ rows'[c].idx = i
               \/ \E l \in Pending' : l.op = "insert" /\ l.id = c /\ l.player = a /\ l.idx = i
    <3>1. CASE k = 1
      <4>1. rows[c] = None
        BY <2>4 DEF IInv, JobsInv
      <4> QED BY <2>4, <3>1, <4>1, Writing
    <3>2. CASE k # 1
      BY <1>3, <2>2, <2>4, <3>2
    <3> QED BY <3>1, <3>2
  <2>5. \/ rows[c] # None /\ rows[c].player = a /\ rows[c].idx = i
        \/ \E l \in Pending : l.op = "insert" /\ l.id = c /\ l.player = a /\ l.idx = i
    BY DEF IInv, CharactersAreStored
  <2> HIDE DEF c, a
  <2> QED BY <2>2, <2>3, <2>4, <2>5 DEF c, a
<1>8. JobsInv'
  <2>0. \A i \in DOMAIN jobs' : jobs'[i].op = "insert" => jobs'[i].player \in Accounts
    BY <1>3 DEF IInv, JobsInv
  <2> SUFFICES ASSUME NEW i \in DOMAIN jobs', jobs'[i].id \notin shared
               PROVE  /\ jobs'[i].op = "insert" =>
                           /\ rows'[jobs'[i].id] = None
                           /\ \A k \in DOMAIN jobs' :
                                jobs'[k].op = "insert" /\ jobs'[k].id = jobs'[i].id => k = i
                      /\ jobs'[i].op = "update" =>
                           \/ rows'[jobs'[i].id] # None /\ rows'[jobs'[i].id].player = jobs'[i].player
                           \/ \E k \in DOMAIN jobs' :
                                /\ k < i /\ jobs'[k].op = "insert"
                                /\ jobs'[k].id = jobs'[i].id /\ jobs'[k].player = jobs'[i].player
    BY <1>2, <2>0 DEF JobsInv
  <2> DEFINE u == jobs[i + 1]
  <2>1. /\ i + 1 \in DOMAIN jobs /\ jobs'[i] = u /\ u.id \in Ids /\ i + 1 # 1 /\ i \in Nat \ {0}
        /\ u.id \notin shared
    BY <1>3, <1>6
  <2>2. ASSUME u.op = "insert"
        PROVE  /\ rows'[u.id] = None
               /\ \A k \in DOMAIN jobs' : jobs'[k].op = "insert" /\ jobs'[k].id = u.id => k = i
    <3>1. rows[u.id] = None /\ ~(j.op = "insert" /\ j.id = u.id)
      BY <1>3, <2>1, <2>2 DEF IInv, JobsInv
    <3>2. rows'[u.id] = None
      BY <1>3, <1>6, <2>1, <3>1, Writing
    <3>3. ASSUME NEW k \in DOMAIN jobs', jobs'[k].op = "insert", jobs'[k].id = u.id PROVE k = i
      <4>1. k + 1 \in DOMAIN jobs /\ jobs[k + 1] = jobs'[k] /\ k \in Nat
        BY <1>3
      <4>2. k + 1 = i + 1
        BY <2>1, <2>2, <3>3, <4>1 DEF IInv, JobsInv
      <4> QED BY <2>1, <4>1, <4>2
    <3> QED BY <3>2, <3>3
  <2>3. ASSUME u.op = "update"
        PROVE  \/ rows'[u.id] # None /\ rows'[u.id].player = u.player
               \/ \E k \in DOMAIN jobs' : /\ k < i /\ jobs'[k].op = "insert"
                                          /\ jobs'[k].id = u.id /\ jobs'[k].player = u.player
    <3>1. CASE rows[u.id] # None /\ rows[u.id].player = u.player
      BY <2>1, <3>1, Writing
    <3>2. ASSUME NEW k \in DOMAIN jobs, k < i + 1, jobs[k].op = "insert", jobs[k].id = u.id,
                 jobs[k].player = u.player
          PROVE  \/ rows'[u.id] # None /\ rows'[u.id].player = u.player
                 \/ \E l \in DOMAIN jobs' : /\ l < i /\ jobs'[l].op = "insert"
                                            /\ jobs'[l].id = u.id /\ jobs'[l].player = u.player
      <4>1. CASE k = 1
        <5>1. rows[u.id] = None
          BY <2>1, <3>2 DEF IInv, JobsInv
        <5> QED BY <3>2, <4>1, <5>1, Writing
      <4>2. CASE k # 1
        <5>1. k - 1 \in DOMAIN jobs' /\ jobs'[k - 1] = jobs[k] /\ k \in Nat
          BY <1>3, <4>2
        <5>2. k - 1 < i
          BY <2>1, <3>2, <5>1
        <5> QED BY <3>2, <5>1, <5>2
      <4> QED BY <4>1, <4>2
    <3>3. \/ rows[u.id] # None /\ rows[u.id].player = u.player
          \/ \E k \in DOMAIN jobs : /\ k < i + 1 /\ jobs[k].op = "insert"
                                    /\ jobs[k].id = u.id /\ jobs[k].player = u.player
      BY <2>1, <2>3 DEF IInv, JobsInv
    <3> QED BY <3>1, <3>2, <3>3
  <2> HIDE DEF u
  <2> QED BY <2>1, <2>2, <2>3
<1>9. LevelsInv'
  <2>1. ASSUME NEW i \in DOMAIN jobs', Safe(jobs'[i].id, jobs'[i].player)
        PROVE  /\ rows'[jobs'[i].id] # None => rows'[jobs'[i].id].level <= jobs'[i].level
               /\ \A k \in DOMAIN jobs' :
                    i < k /\ jobs'[k].id = jobs'[i].id => jobs'[i].level <= jobs'[k].level
    <3> DEFINE u == jobs[i + 1]
    <3>1. /\ i + 1 \in DOMAIN jobs /\ jobs'[i] = u /\ u.id \in Ids /\ i \in Nat \ {0}
          /\ u.id \notin shared /\ u.player \notin stale
      BY <1>3, <1>6, <2>1 DEF Safe
    <3>2. ASSUME rows'[u.id] # None PROVE rows'[u.id].level <= u.level
      <4>1. CASE u.id # j.id
        BY <3>1, <3>2, <4>1, Writing DEF IInv, LevelsInv, JobLevels, Safe
      <4>2. CASE u.id = j.id /\ (j.op = "insert" => rows[u.id] = None)
        <5>1. j.player = u.player
          BY <1>3, <3>1, <4>2, OneOwner
        <5>2. j.level <= u.level
          <6>1. 1 < i + 1 /\ j.id \notin shared /\ j.player \notin stale /\ u.id = j.id
            BY <3>1, <4>2, <5>1
          <6>2. \A k \in DOMAIN jobs : 1 < k /\ jobs[k].id = j.id => j.level <= jobs[k].level
            BY <1>3, <6>1 DEF IInv, LevelsInv, JobLevels, Safe
          <6> QED BY <3>1, <6>1, <6>2
        <5>3. rows'[u.id].level = j.level
          BY <1>3, <1>6, <3>2, <4>2, Writing
        <5> QED BY <5>2, <5>3
      <4>3. CASE u.id = j.id /\ j.op = "insert" /\ rows[u.id] # None
        BY <1>3, <3>1, <4>3 DEF IInv, JobsInv
      <4> QED BY <4>1, <4>2, <4>3
    <3>3. ASSUME NEW k \in DOMAIN jobs', i < k, jobs'[k].id = u.id PROVE u.level <= jobs'[k].level
      <4>1. k + 1 \in DOMAIN jobs /\ jobs[k + 1] = jobs'[k] /\ k \in Nat /\ i + 1 < k + 1
        BY <1>3, <3>1, <3>3
      <4> QED BY <3>1, <3>3, <4>1 DEF IInv, LevelsInv, JobLevels, Safe
    <3> QED BY <3>1, <3>2, <3>3
  <2>2. ASSUME NEW s \in Sessions, NEW i \in Slots, infos[s][i].owner # None,
               Safe(infos[s][i].id, infos[s][i].owner)
        PROVE  /\ rows'[infos[s][i].id] # None => rows'[infos[s][i].id].level <= infos[s][i].level
               /\ \A k \in DOMAIN jobs' :
                    jobs'[k].id = infos[s][i].id => jobs'[k].level <= infos[s][i].level
    <3> DEFINE c == infos[s][i].id
    <3>1. c \in Ids
      BY Slotted
    <3>2. /\ rows[c] # None => rows[c].level <= infos[s][i].level
          /\ \A k \in DOMAIN jobs : jobs[k].id = c => jobs[k].level <= infos[s][i].level
      BY <2>2 DEF IInv, LevelsInv, InfoLevels
    <3>3. ASSUME rows'[c] # None PROVE rows'[c].level <= infos[s][i].level
      BY <1>3, <1>6, <3>1, <3>2, <3>3, Writing
    <3>4. \A k \in DOMAIN jobs' : jobs'[k].id = c => jobs'[k].level <= infos[s][i].level
      BY <1>3, <3>2
    <3> QED BY <3>3, <3>4
  <2> QED BY <1>2, <2>1, <2>2 DEF LevelsInv, JobLevels, InfoLevels, PlayLevels, Cur, Safe, IInv
<1> QED BY <1>4, <1>5, <1>7, <1>8, <1>9 DEF IInv


(* A player who plays is in a field.                                          *)
LEMMA Players ==
  ASSUME IInv, NEW s \in Sessions
  PROVE  /\ infos[s] \in [Slots -> Info] /\ curIndex[s] \in Slots
         /\ account[s] \in Accounts \cup {None} /\ count[s] \in 0 .. MaxCharacters
         /\ Cur(s) = infos[s][curIndex[s]] /\ Cur(s).idx \in Slots
         /\ Cur(s).owner # None => Cur(s).idx = curIndex[s]
         /\ Cur(s).owner = None => Cur(s).idx = 0 /\ Cur(s).id = 0
         /\ playing[s] # None => place[s] \in Fields /\ playing[s] \in Levels
<1>1. /\ infos[s] \in [Slots -> Info] /\ curIndex[s] \in Slots
      /\ account[s] \in Accounts \cup {None} /\ count[s] \in 0 .. MaxCharacters
      /\ playing[s] # None => place[s] \in Fields /\ playing[s] \in Levels
  BY DEF IInv, TypeInv, SlotsInv
<1> QED BY <1>1, Slotted, Constants DEF Cur

(* Write: a queue with a job of its own group's, about to be announced.        *)
LEMMA Queued ==
  ASSUME IInv, NEW g \in Groups, NEW u \in Job, Write(g, u)
  PROVE  /\ jobs \in Seq(Job) /\ jobs' \in Seq(Job) /\ Len(jobs) \in Nat
         /\ signalling' \subseteq Groups /\ WriterIsWoken'
         /\ DOMAIN jobs = 1 .. Len(jobs) /\ DOMAIN jobs' = 1 .. Len(jobs) + 1
         /\ \A i \in DOMAIN jobs : jobs'[i] = jobs[i] /\ jobs[i] \in Job
         /\ jobs'[Len(jobs) + 1] = u
         /\ Pending \subseteq Pending' /\ u \in Pending'
<1>1. jobs' = Append(jobs, u) /\ signalling' = signalling \cup {g} /\ jobs \in Seq(Job)
  BY DEF Write, IInv, TypeInv, TypeOK
<1>2. /\ jobs' \in Seq(Job) /\ Len(jobs) \in Nat
      /\ DOMAIN jobs = 1 .. Len(jobs) /\ DOMAIN jobs' = 1 .. Len(jobs) + 1
      /\ \A i \in DOMAIN jobs : jobs'[i] = jobs[i] /\ jobs[i] \in Job
      /\ jobs'[Len(jobs) + 1] = u
  BY <1>1, QueueAppend
<1>3. /\ Pending = {jobs[k] : k \in DOMAIN jobs}
      /\ Pending' = {jobs'[k] : k \in DOMAIN jobs'}
  BY <1>1, <1>2 DEF Pending, ToSet
<1>4. Pending \subseteq Pending' /\ u \in Pending'
  <2>1. Len(jobs) + 1 \in DOMAIN jobs' /\ DOMAIN jobs \subseteq DOMAIN jobs'
    BY <1>2
  <2> QED BY <1>2, <1>3, <2>1
<1> QED BY <1>1, <1>2, <1>4 DEF WriterIsWoken, IInv, TypeInv, TypeOK

(* What OnPlayerLeave does to the queue: the save follows what was queued      *)
(* before, and no other slot has the character.                               *)
LEMMA Saving ==
  ASSUME IInv, NEW s \in Sessions, Save(s)
  PROVE  LET c == Cur(s).id
             a == Cur(s).owner
             u == [op |-> "update", id |-> c, player |-> a, idx |-> 0, level |-> playing[s]]
         IN  /\ playing[s] # None /\ place[s] \in Fields /\ u \in Job /\ Write(place[s], u)
             /\ playing' = [playing EXCEPT ![s] = None]
             /\ UNCHANGED <<rows, signalled, writer, shared, stale, holed>>
             /\ a = None => c \in shared
             /\ JobsInv' /\ JobLevels'
             /\ \A t \in Sessions : \A i \in Slots :
                  infos[t][i].owner # None /\ infos[t][i].id = c /\ ~(t = s /\ i = curIndex[s])
                  => ~Safe(c, infos[t][i].owner)
<1> DEFINE a == Cur(s).owner
           n == curIndex[s]
           c == Cur(s).id
           u == [op |-> "update", id |-> c, player |-> a, idx |-> 0, level |-> playing[s]]
<1>1. /\ playing[s] # None /\ Write(place[s], u)
      /\ playing' = [playing EXCEPT ![s] = None]
      /\ UNCHANGED <<rows, signalled, writer, shared, stale, holed>>
  BY DEF Save, historyVars
<1>2. /\ place[s] \in Fields /\ n \in Slots /\ playing[s] \in Levels
      /\ a \in Accounts \cup {None} /\ c \in Ids /\ Cur(s).level \in Levels
      /\ infos[s][n].id = c /\ infos[s][n].owner = a /\ infos[s][n] = Cur(s)
      /\ a = None => c = 0
  BY <1>1, Players, Slotted
<1>3. u \in Job /\ u.op = "update" /\ u.id = c /\ u.player = a /\ u.level = playing[s]
  BY <1>2, Constants DEF Job
<1>u. a = None => c \in shared
  BY <1>1, <1>2 DEF IInv, SlotsInv
<1>4. c \notin shared => Owned(c, a) /\ a \in Accounts
  BY <1>2, <1>u, StoredIsOwned
<1>5. Cur(s).level <= playing[s]
  BY <1>1 DEF IInv, LevelsInv, PlayLevels
<1>6. ASSUME c \notin shared, a \notin stale
      PROVE  /\ rows[c] # None => rows[c].level <= playing[s]
             /\ \A k \in DOMAIN jobs : jobs[k].id = c => jobs[k].level <= playing[s]
  <2>1. /\ rows[c] # None => rows[c].level <= Cur(s).level
        /\ \A k \in DOMAIN jobs : jobs[k].id = c => jobs[k].level <= Cur(s).level
    BY <1>2, <1>u, <1>6 DEF IInv, LevelsInv, InfoLevels, Safe
  <2>2. \A k \in DOMAIN jobs : jobs[k].level \in Levels
    <3>1. \A k \in DOMAIN jobs : jobs[k] \in Job
      BY ElementOfSeq, LenProperties DEF IInv, TypeInv, TypeOK
    <3> QED BY <3>1 DEF Job
  <2>3. rows[c] # None => rows[c].level \in Levels
    BY <1>2 DEF IInv, TypeInv, TypeOK, Row
  <2>4. Levels \subseteq Nat
    BY Constants
  <2>5. /\ playing[s] \in Nat /\ Cur(s).level \in Nat /\ \A k \in DOMAIN jobs : jobs[k].level \in Nat
        /\ rows[c] # None => rows[c].level \in Nat
    BY <1>2, <2>2, <2>3, <2>4
  <2> HIDE DEF c, n
  <2> QED BY <1>5, <2>1, <2>5
<1> HIDE DEF u, c, n, a
<1>7. /\ jobs \in Seq(Job) /\ Len(jobs) \in Nat
      /\ DOMAIN jobs = 1 .. Len(jobs) /\ DOMAIN jobs' = 1 .. Len(jobs) + 1
      /\ \A i \in DOMAIN jobs : jobs'[i] = jobs[i] /\ jobs[i] \in Job
      /\ jobs'[Len(jobs) + 1] = u
  BY <1>1, <1>2, <1>3, Queued, Constants
<1> DEFINE e == Len(jobs) + 1
<1>8. /\ \A i \in DOMAIN jobs' : i = e \/ i \in DOMAIN jobs
      /\ \A i \in DOMAIN jobs : i < e /\ ~(e < i) /\ i # e /\ i \in DOMAIN jobs'
      /\ e \in DOMAIN jobs' /\ e \in Nat
  BY <1>7
<1>9. jobs'[e] = u
  BY <1>7
<1> HIDE DEF e
<1>10. JobsInv'
  <2>0. \A i \in DOMAIN jobs' : jobs'[i].op = "insert" => jobs'[i].player \in Accounts
    BY <1>3, <1>7, <1>8, <1>9 DEF IInv, JobsInv
  <2> SUFFICES ASSUME NEW i \in DOMAIN jobs', jobs'[i].id \notin shared
               PROVE  /\ jobs'[i].op = "insert" =>
                           /\ rows[jobs'[i].id] = None
                           /\ \A k \in DOMAIN jobs' :
                                jobs'[k].op = "insert" /\ jobs'[k].id = jobs'[i].id => k = i
                      /\ jobs'[i].op = "update" =>
                           \/ rows[jobs'[i].id] # None /\ rows[jobs'[i].id].player = jobs'[i].player
                           \/ \E k \in DOMAIN jobs' :
                                /\ k < i /\ jobs'[k].op = "insert"
                                /\ jobs'[k].id = jobs'[i].id /\ jobs'[k].player = jobs'[i].player
    BY <1>1, <2>0 DEF JobsInv
  <2>1. CASE i \in DOMAIN jobs
    BY <1>3, <1>7, <1>8, <1>9, <2>1 DEF IInv, JobsInv
  <2>2. CASE i = e
    BY <1>3, <1>4, <1>7, <1>8, <1>9, <2>2 DEF Owned
  <2> QED BY <1>8, <2>1, <2>2
<1>11. JobLevels'
  <2> SUFFICES ASSUME NEW i \in DOMAIN jobs', jobs'[i].id \notin shared, jobs'[i].player \notin stale
               PROVE  /\ rows[jobs'[i].id] # None => rows[jobs'[i].id].level <= jobs'[i].level
                      /\ \A k \in DOMAIN jobs' :
                           i < k /\ jobs'[k].id = jobs'[i].id => jobs'[i].level <= jobs'[k].level
    BY <1>1 DEF JobLevels, Safe
  <2>1. CASE i \in DOMAIN jobs
    <3>1. jobs[i].id = c => a = jobs[i].player
      <4>1. jobs[i].id = c => c \notin shared /\ Owned(c, jobs[i].player)
        BY <1>2, <1>7, <2>1, OneOwner
      <4> QED BY <1>2, <1>4, <4>1, OneOwner
    <3>2. jobs[i].id = c => jobs[i].level <= playing[s]
      BY <1>6, <1>7, <2>1, <3>1
    <3> QED BY <1>3, <1>7, <1>8, <1>9, <2>1, <3>2 DEF IInv, LevelsInv, JobLevels, Safe
  <2>2. CASE i = e
    <3>1. \A k \in DOMAIN jobs' : ~(e < k)
      BY <1>8
    <3> QED BY <1>3, <1>6, <1>9, <2>2, <3>1
  <2> QED BY <1>8, <2>1, <2>2
<1>12. ASSUME NEW t \in Sessions, NEW i \in Slots, infos[t][i].owner # None, infos[t][i].id = c,
              ~(t = s /\ i = n), c \notin shared
       PROVE  infos[t][i].owner \in stale
  <2>1. a \in Accounts /\ infos[t][i].owner = a
    BY <1>2, <1>4, <1>12, StoredIsOwned, OneOwner
  <2>2. t # s
    BY <1>2, <1>12, <2>1, Constants DEF IInv, HistoryInv
  <2>3. Holds(s, a) /\ Holds(t, a)
    BY <1>2, <2>1 DEF Holds
  <2> QED BY <2>1, <2>2, <2>3 DEF IInv, HistoryInv
<1> QED BY <1>1, <1>2, <1>3, <1>u, <1>10, <1>11, <1>12 DEF a, n, c, u, Safe

(* OnPlayerLeave in a move: the slot the character's idx names takes over what *)
(* was played.                                                                *)
LEMMA MoveFieldStep ==
  ASSUME IInv, NEW s \in Sessions, NEW g \in Groups, MoveField(s, g)
  PROVE  IInv'
<1> DEFINE n == Cur(s).idx
           c == Cur(s).id
           u == [op |-> "update", id |-> c, player |-> Cur(s).owner, idx |-> 0, level |-> playing[s]]
<1>1. /\ Save(s)
      /\ infos' = [infos EXCEPT ![s][n].level = playing[s]]
      /\ place' = [place EXCEPT ![s] = g]
      /\ UNCHANGED <<logins, account, count, curIndex>>
  BY DEF MoveField
<1>2. /\ playing[s] # None /\ place[s] \in Fields /\ u \in Job /\ Write(place[s], u)
      /\ playing' = [playing EXCEPT ![s] = None]
      /\ UNCHANGED <<rows, signalled, writer, shared, stale, holed>>
      /\ Cur(s).owner = None => c \in shared
      /\ JobsInv' /\ JobLevels'
      /\ \A t \in Sessions : \A i \in Slots :
           infos[t][i].owner # None /\ infos[t][i].id = c /\ ~(t = s /\ i = curIndex[s])
           => ~Safe(c, infos[t][i].owner)
  BY <1>1, Saving
<1>3. /\ n \in Slots /\ playing[s] \in Levels /\ infos[s] \in [Slots -> Info]
      /\ Cur(s) = infos[s][curIndex[s]]
      /\ Cur(s).owner # None => n = curIndex[s]
      /\ Cur(s).owner = None => n = 0 /\ c = 0
  BY <1>2, Players
<1> DEFINE new == [infos[s][n] EXCEPT !.level = playing[s]]
<1>4. /\ new \in Info /\ new.id = infos[s][n].id /\ new.idx = infos[s][n].idx
      /\ new.owner = infos[s][n].owner /\ new.level = playing[s]
  BY <1>3 DEF Info
<1>5. infos' = [infos EXCEPT ![s] = [@ EXCEPT ![n] = new]]
  BY <1>1
<1> HIDE DEF new, n
<1>7. infos' \in [Sessions -> [Slots -> Info]]
  BY <1>3, <1>4, <1>5 DEF IInv, TypeInv
<1>8. /\ \A t \in Sessions : \A i \in Slots : ~(t = s /\ i = n) => infos'[t][i] = infos[t][i]
      /\ infos'[s][n] = new
  BY <1>3, <1>5 DEF IInv, TypeInv
<1>9. /\ \A t \in Sessions : \A i \in Slots :
           /\ infos'[t][i].id = infos[t][i].id /\ infos'[t][i].idx = infos[t][i].idx
           /\ infos'[t][i].owner = infos[t][i].owner
      /\ infos'[s][n].level = playing[s]
  BY <1>4, <1>8
<1>10. /\ place' \in [Sessions -> Groups] /\ place'[s] = g
       /\ \A t \in Sessions : t # s => place'[t] = place[t]
       /\ playing' \in [Sessions -> Levels \cup {None}] /\ playing'[s] = None
       /\ \A t \in Sessions : t # s => playing'[t] = playing[t]
  BY <1>1, <1>2 DEF IInv, TypeInv
<1> HIDE DEF u
<1>11. /\ jobs \in Seq(Job) /\ jobs' \in Seq(Job)
       /\ signalling' \subseteq Groups /\ WriterIsWoken'
       /\ Len(jobs) \in Nat /\ DOMAIN jobs = 1 .. Len(jobs) /\ DOMAIN jobs' = 1 .. Len(jobs) + 1
       /\ \A i \in DOMAIN jobs : jobs'[i] = jobs[i] /\ jobs[i] \in Job
       /\ jobs'[Len(jobs) + 1] = u
       /\ Pending \subseteq Pending'
  BY <1>2, Queued, Constants
<1>12. TypeInv'
  BY <1>1, <1>2, <1>7, <1>10, <1>11 DEF IInv, TypeInv, TypeOK
<1>c. \A t \in Sessions : t # s => Cur(t)' = Cur(t)
  BY <1>1, <1>8, Players DEF Cur
<1>13. SlotsInv'
  <2>1. \A t \in Sessions \ {s} : playing[t] # None /\ Cur(t).owner = None =>
           0 \in shared /\ infos'[t][0].owner \in stale \cup {None}
    BY <1>9, Constants DEF IInv, SlotsInv
  <2> SUFFICES ASSUME NEW t \in Sessions
               PROVE  /\ \A i \in Slots :
                           /\ infos'[t][i].owner # None => infos'[t][i].idx = i
                           /\ infos'[t][i].owner = None => infos'[t][i].idx = 0 /\ infos'[t][i].id = 0
                      /\ playing'[t] # None => place'[t] \in Fields
                      /\ playing'[t] # None /\ Cur(t)'.owner = None =>
                           0 \in shared /\ infos'[t][0].owner \in stale \cup {None}
    BY <1>2 DEF SlotsInv
  <2> QED BY <1>9, <1>10, <1>c, <2>1 DEF IInv, SlotsInv
<1>14. HistoryInv' /\ CharactersAreStored'
  <2>1. \A t \in Sessions, a \in Accounts : Holds(t, a)' <=> Holds(t, a)
    BY <1>1, <1>9 DEF Holds
  <2>2. CharactersAreStored'
    BY <1>2, <1>9, <1>11 DEF IInv, CharactersAreStored
  <2> QED BY <1>2, <1>9, <2>1, <2>2 DEF IInv, HistoryInv
<1>15. InfoLevels'
  <2> SUFFICES ASSUME NEW t \in Sessions, NEW i \in Slots, infos[t][i].owner # None,
                      Safe(infos[t][i].id, infos[t][i].owner)
               PROVE  LET d == infos[t][i].id IN
                      /\ rows[d] # None => rows[d].level <= infos'[t][i].level
                      /\ \A k \in DOMAIN jobs' : jobs'[k].id = d => jobs'[k].level <= infos'[t][i].level
    BY <1>2, <1>9 DEF InfoLevels, Safe
  <2> DEFINE d == infos[t][i].id
  <2>1. /\ rows[d] # None => rows[d].level <= infos[t][i].level
        /\ \A k \in DOMAIN jobs : jobs[k].id = d => jobs[k].level <= infos[t][i].level
    BY DEF IInv, LevelsInv, InfoLevels
  <2>2. /\ \A k \in DOMAIN jobs' : k = Len(jobs) + 1 \/ k \in DOMAIN jobs
        /\ jobs'[Len(jobs) + 1].id = c /\ jobs'[Len(jobs) + 1].level = playing[s]
    BY <1>11 DEF u
  <2>3. CASE t = s /\ i = n
    <3>0. Cur(s).owner # None /\ infos[s][n] = Cur(s)
      <4>1. Cur(s).owner = None => infos[s][0].owner \in stale \cup {None}
        BY <1>2 DEF IInv, SlotsInv
      <4>2. Cur(s).owner # None
        BY <1>3, <2>3, <4>1 DEF Safe
      <4> QED BY <1>3, <4>2
    <3>1. infos[s][n].level <= playing[s]
      BY <1>2, <3>0 DEF IInv, LevelsInv, PlayLevels
    <3>2. /\ \A k \in DOMAIN jobs : jobs[k].level \in Nat
          /\ rows[d] # None => rows[d].level \in Nat
          /\ infos[s][n].level \in Nat /\ playing[s] \in Nat
      <4>1. \A k \in DOMAIN jobs : jobs[k].level \in Levels
        BY <1>11 DEF Job
      <4>2. rows[d] # None => rows[d].level \in Levels
        <5>1. d \in Ids
          BY Slotted
        <5> QED BY <5>1 DEF IInv, TypeInv, TypeOK, Row
      <4>3. infos[s][n].level \in Levels
        BY <1>3, Slotted
      <4>4. Levels \subseteq Nat
        BY Constants
      <4> HIDE DEF d
      <4> QED BY <1>3, <4>1, <4>2, <4>3, <4>4
    <3>3. infos'[t][i].level = playing[s]
      BY <1>9, <2>3
    <3> HIDE DEF d, c
    <3>4. rows[d] # None => rows[d].level <= playing[s]
      BY <2>1, <2>3, <3>1, <3>2
    <3>5. \A k \in DOMAIN jobs' : jobs'[k].id = d => jobs'[k].level <= playing[s]
      BY <1>11, <2>1, <2>2, <2>3, <3>1, <3>2
    <3> QED BY <3>3, <3>4, <3>5 DEF d
  <2>4. CASE ~(t = s /\ i = n)
    <3>1. d # c
      <4>1. CASE ~(t = s /\ i = curIndex[s])
        BY <1>2, <4>1
      <4>2. CASE t = s /\ i = curIndex[s]
        BY <1>3, <2>4, <4>2
      <4> QED BY <4>1, <4>2
    <3>2. infos'[t][i].level = infos[t][i].level
      BY <1>8, <2>4
    <3> QED BY <1>11, <2>1, <2>2, <3>1, <3>2
  <2> QED BY <2>3, <2>4
<1>16. PlayLevels'
  BY <1>10, <1>c DEF IInv, LevelsInv, PlayLevels
<1> QED BY <1>2, <1>11, <1>12, <1>13, <1>14, <1>15, <1>16 DEF IInv, LevelsInv

(* A session that goes takes its slots along.                                  *)
LEMMA Removing ==
  ASSUME IInv, NEW s \in Sessions, RemoveHost(s), playing'[s] = None,
         \A t \in Sessions : t # s => playing'[t] = playing[t],
         shared' = shared, stale' = stale, rows' = rows, Pending \subseteq Pending',
         \A t \in Sessions \ {s} : \A i \in Slots :
           infos[t][i].owner # None /\ Safe(infos[t][i].id, infos[t][i].owner) =>
             \A k \in DOMAIN jobs' : jobs'[k].id = infos[t][i].id => jobs'[k].level <= infos[t][i].level
  PROVE  /\ place' \in [Sessions -> Groups] /\ account' \in [Sessions -> Accounts \cup {None}]
         /\ infos' \in [Sessions -> [Slots -> Info]] /\ curIndex' \in [Sessions -> Slots]
         /\ count' \in [Sessions -> 0 .. MaxCharacters]
         /\ SlotsInv' /\ HistoryInv' /\ InfoLevels' /\ PlayLevels' /\ CharactersAreStored'
<1> DEFINE empty == [i \in Slots |-> Unset]
<1>1. /\ place' = [place EXCEPT ![s] = Login]
      /\ account' = [account EXCEPT ![s] = None]
      /\ infos' = [infos EXCEPT ![s] = empty]
      /\ curIndex' = [curIndex EXCEPT ![s] = 0]
      /\ \E n \in Fresh : count' = [count EXCEPT ![s] = n]
  BY DEF RemoveHost
<1>2. /\ Unset \in Info /\ Unset.owner = None /\ Unset.idx = 0 /\ Unset.id = 0
      /\ empty \in [Slots -> Info] /\ \A i \in Slots : empty[i] = Unset
  <2>1. Unset \in Info /\ Unset.owner = None /\ Unset.idx = 0 /\ Unset.id = 0
    BY Constants DEF Unset, Info
  <2> QED BY <2>1
<1> HIDE DEF empty
<1>3. /\ place' \in [Sessions -> Groups] /\ account' \in [Sessions -> Accounts \cup {None}]
      /\ infos' \in [Sessions -> [Slots -> Info]] /\ curIndex' \in [Sessions -> Slots]
      /\ count' \in [Sessions -> 0 .. MaxCharacters]
  BY <1>1, <1>2, Constants DEF IInv, TypeInv
<1>4. /\ account'[s] = None /\ \A i \in Slots : infos'[s][i] = Unset
      /\ \A t \in Sessions : t # s => /\ place'[t] = place[t] /\ account'[t] = account[t]
                                      /\ infos'[t] = infos[t] /\ curIndex'[t] = curIndex[t]
  BY <1>1, <1>2 DEF IInv, TypeInv
<1>5. \A t \in Sessions : t # s => Cur(t)' = Cur(t)
  BY <1>4 DEF Cur
<1>6. SlotsInv'
  BY <1>2, <1>4, <1>5 DEF IInv, SlotsInv
<1>7. HistoryInv'
  <2>1. \A a \in Accounts : ~Holds(s, a)' /\ \A t \in Sessions : t # s => (Holds(t, a)' <=> Holds(t, a))
    BY <1>2, <1>4, Constants DEF Holds
  <2> QED BY <1>2, <1>4, <2>1 DEF IInv, HistoryInv
<1>8. InfoLevels'
  BY <1>2, <1>4 DEF IInv, LevelsInv, InfoLevels, Safe
<1>9. PlayLevels'
  BY <1>4, <1>5 DEF IInv, LevelsInv, PlayLevels
<1>10. CharactersAreStored'
  BY <1>2, <1>4 DEF IInv, CharactersAreStored
<1> QED BY <1>3, <1>6, <1>7, <1>8, <1>9, <1>10

(* The Leave job of a closed session: what was played is queued before the    *)
(* player goes.                                                               *)
LEMMA LeaveStep ==
  ASSUME IInv, NEW s \in Sessions, Leave(s)
  PROVE  IInv'
<1> DEFINE c == Cur(s).id
           u == [op |-> "update", id |-> c, player |-> Cur(s).owner, idx |-> 0, level |-> playing[s]]
<1>1. Save(s) /\ RemoveHost(s) /\ logins' = logins
  BY DEF Leave
<1>2. /\ playing[s] # None /\ place[s] \in Fields /\ u \in Job /\ Write(place[s], u)
      /\ playing' = [playing EXCEPT ![s] = None]
      /\ UNCHANGED <<rows, signalled, writer, shared, stale, holed>>
      /\ JobsInv' /\ JobLevels'
      /\ \A t \in Sessions : \A i \in Slots :
           infos[t][i].owner # None /\ infos[t][i].id = c /\ ~(t = s /\ i = curIndex[s])
           => ~Safe(c, infos[t][i].owner)
  BY <1>1, Saving
<1>3. /\ playing' \in [Sessions -> Levels \cup {None}] /\ playing'[s] = None
      /\ \A t \in Sessions : t # s => playing'[t] = playing[t]
  BY <1>2 DEF IInv, TypeInv
<1>4. u.id = c
  OBVIOUS
<1> HIDE DEF u
<1>5. /\ jobs' \in Seq(Job) /\ signalling' \subseteq Groups /\ WriterIsWoken'
      /\ Len(jobs) \in Nat /\ DOMAIN jobs = 1 .. Len(jobs) /\ DOMAIN jobs' = 1 .. Len(jobs) + 1
      /\ \A i \in DOMAIN jobs : jobs'[i] = jobs[i]
      /\ jobs'[Len(jobs) + 1] = u
      /\ Pending \subseteq Pending'
  BY <1>2, Queued, Constants
<1>6. \A t \in Sessions \ {s} : \A i \in Slots :
           infos[t][i].owner # None /\ Safe(infos[t][i].id, infos[t][i].owner) =>
             \A k \in DOMAIN jobs' : jobs'[k].id = infos[t][i].id => jobs'[k].level <= infos[t][i].level
  BY <1>2, <1>4, <1>5 DEF IInv, LevelsInv, InfoLevels
<1>7. /\ place' \in [Sessions -> Groups] /\ account' \in [Sessions -> Accounts \cup {None}]
      /\ infos' \in [Sessions -> [Slots -> Info]] /\ curIndex' \in [Sessions -> Slots]
      /\ count' \in [Sessions -> 0 .. MaxCharacters]
      /\ SlotsInv' /\ HistoryInv' /\ InfoLevels' /\ PlayLevels' /\ CharactersAreStored'
  BY <1>1, <1>2, <1>3, <1>5, <1>6, Removing
<1>8. TypeInv'
  BY <1>1, <1>2, <1>3, <1>5, <1>7 DEF IInv, TypeInv, TypeOK
<1> QED BY <1>2, <1>5, <1>7, <1>8 DEF IInv, LevelsInv

(* A connection ends outside the fields.                                      *)
LEMMA CloseStep ==
  ASSUME IInv, NEW s \in Sessions, Close(s)
  PROVE  IInv'
<1>1. /\ UNCHANGED <<rows, jobs, signalled, writer, signalling, logins, playing, shared, stale, holed>>
      /\ RemoveHost(s) /\ playing[s] = None
  BY DEF Close, tableVars, historyVars
<1>2. Pending' = Pending
  BY <1>1 DEF Pending
<1>3. \A t \in Sessions \ {s} : \A i \in Slots :
           infos[t][i].owner # None /\ Safe(infos[t][i].id, infos[t][i].owner) =>
             \A k \in DOMAIN jobs : jobs[k].id = infos[t][i].id => jobs[k].level <= infos[t][i].level
  BY DEF IInv, LevelsInv, InfoLevels
<1>4. /\ place' \in [Sessions -> Groups] /\ account' \in [Sessions -> Accounts \cup {None}]
      /\ infos' \in [Sessions -> [Slots -> Info]] /\ curIndex' \in [Sessions -> Slots]
      /\ count' \in [Sessions -> 0 .. MaxCharacters]
      /\ SlotsInv' /\ HistoryInv' /\ InfoLevels' /\ PlayLevels' /\ CharactersAreStored'
  BY <1>1, <1>2, <1>3, Removing
<1>5. TypeInv'
  BY <1>1, <1>4 DEF IInv, TypeInv, TypeOK
<1>6. JobsInv' /\ JobLevels' /\ WriterIsWoken'
  BY <1>1 DEF IInv, JobsInv, LevelsInv, JobLevels, WriterIsWoken, Safe
<1> QED BY <1>4, <1>5, <1>6 DEF IInv, LevelsInv

(* The lobby hands a player over to a field, with any slot.                   *)
LEMMA GameEnterStep ==
  ASSUME IInv, NEW s \in Sessions, NEW i \in Slots, NEW f \in Fields, GameEnter(s, i, f)
  PROVE  IInv'
<1>1. /\ place[s] = Lobby
      /\ curIndex' = [curIndex EXCEPT ![s] = i]
      /\ place' = [place EXCEPT ![s] = f]
      /\ UNCHANGED <<rows, jobs, signalled, writer, signalling, logins, account, infos, count, playing,
                     shared, stale, holed>>
  BY DEF GameEnter, tableVars, historyVars
<1>2. /\ place' \in [Sessions -> Groups] /\ curIndex' \in [Sessions -> Slots]
      /\ \A t \in Sessions : t # s => place'[t] = place[t] /\ curIndex'[t] = curIndex[t]
  BY <1>1, Constants DEF IInv, TypeInv, TypeOK
<1>3. TypeInv'
  BY <1>1, <1>2 DEF IInv, TypeInv, TypeOK
<1>4. playing[s] = None
  BY <1>1, Players, Constants
<1>c. \A t \in Sessions : t # s => Cur(t)' = Cur(t)
  BY <1>1, <1>2 DEF Cur
<1>5. SlotsInv'
  BY <1>1, <1>2, <1>4, <1>c DEF IInv, SlotsInv
<1>6. HistoryInv' /\ JobsInv' /\ JobLevels' /\ InfoLevels' /\ CharactersAreStored' /\ WriterIsWoken'
  BY <1>1 DEF IInv, HistoryInv, Holds, JobsInv, LevelsInv, JobLevels, InfoLevels, Safe,
     CharactersAreStored, Pending, WriterIsWoken
<1>7. PlayLevels'
  BY <1>1, <1>4, <1>c DEF IInv, LevelsInv, PlayLevels
<1> QED BY <1>3, <1>5, <1>6, <1>7 DEF IInv, LevelsInv

(* A longer record of what is shared or stale excuses no less.                *)
LEMMA OnRecord ==
  ASSUME IInv, shared \subseteq shared', stale \subseteq stale',
         UNCHANGED <<rows, jobs, place, account, infos, curIndex>>
  PROVE  HistoryInv' /\ JobsInv' /\ JobLevels' /\ InfoLevels' /\ CharactersAreStored'
<1>1. HistoryInv'
  BY DEF IInv, HistoryInv, Holds
<1>2. JobsInv' /\ JobLevels' /\ InfoLevels'
  BY DEF IInv, JobsInv, LevelsInv, JobLevels, InfoLevels, Safe
<1>3. CharactersAreStored'
  BY DEF IInv, CharactersAreStored, Pending
<1> QED BY <1>1, <1>2, <1>3

(* A character starts as its slot says.                                       *)
LEMMA EnterFieldStep ==
  ASSUME IInv, NEW s \in Sessions, EnterField(s)
  PROVE  IInv'
<1>1. /\ place[s] \in Fields
      /\ playing' = [playing EXCEPT ![s] = Cur(s).level]
      /\ shared' = IF Cur(s).owner = None THEN shared \cup {0} ELSE shared
      /\ stale' = IF Cur(s).owner = None THEN stale \cup ({infos[s][0].owner} \ {None}) ELSE stale
      /\ UNCHANGED <<rows, jobs, signalled, writer, signalling, place, logins, account, infos, count,
                     curIndex, holed>>
  BY DEF EnterField, tableVars
<1>2. Cur(s).level \in Levels /\ infos[s][0].owner \in Accounts \cup {None}
  <2>1. Cur(s).level \in Levels
    BY Players, Slotted
  <2>2. infos[s][0].owner \in Accounts \cup {None}
    BY Slotted, Constants
  <2> QED BY <2>1, <2>2
<1>3. /\ playing' \in [Sessions -> Levels \cup {None}] /\ playing'[s] = Cur(s).level
      /\ \A t \in Sessions : t # s => playing'[t] = playing[t]
      /\ shared' \subseteq Ids /\ stale' \subseteq Accounts
      /\ shared \subseteq shared' /\ stale \subseteq stale'
  BY <1>1, <1>2, Constants DEF IInv, TypeInv, TypeOK
<1>4. TypeInv'
  BY <1>1, <1>3 DEF IInv, TypeInv, TypeOK
<1>c. \A t \in Sessions : Cur(t)' = Cur(t)
  BY <1>1 DEF Cur
<1>5. SlotsInv'
  <2> SUFFICES ASSUME NEW t \in Sessions
               PROVE  /\ \A i \in Slots :
                           /\ infos[t][i].owner # None => infos[t][i].idx = i
                           /\ infos[t][i].owner = None => infos[t][i].idx = 0 /\ infos[t][i].id = 0
                      /\ playing'[t] # None => place[t] \in Fields
                      /\ playing'[t] # None /\ Cur(t).owner = None =>
                           0 \in shared' /\ infos[t][0].owner \in stale' \cup {None}
    BY <1>1, <1>c DEF SlotsInv
  <2>1. CASE t = s
    BY <1>1, <1>2, <2>1 DEF IInv, SlotsInv
  <2>2. CASE t # s
    BY <1>3, <2>2 DEF IInv, SlotsInv
  <2> QED BY <2>1, <2>2
<1>6. HistoryInv' /\ JobsInv' /\ JobLevels' /\ InfoLevels' /\ CharactersAreStored'
  BY <1>1, <1>3, OnRecord
<1>7. PlayLevels' /\ WriterIsWoken'
  <2>1. Cur(s).level <= Cur(s).level
    BY <1>2, Constants
  <2> QED BY <1>1, <1>3, <1>c, <2>1 DEF IInv, LevelsInv, PlayLevels, WriterIsWoken
<1> QED BY <1>4, <1>5, <1>6, <1>7 DEF IInv, LevelsInv

(* A character only gains.                                                    *)
LEMMA ProgressStep ==
  ASSUME IInv, NEW s \in Sessions, Progress(s)
  PROVE  IInv'
<1>1. /\ playing' = [playing EXCEPT ![s] = @ + 1] /\ playing[s] # None /\ playing[s] < MaxLevel
      /\ UNCHANGED <<rows, jobs, signalled, writer, signalling, place, logins, account, infos, count,
                     curIndex, shared, stale, holed>>
  BY DEF Progress, tableVars, historyVars
<1>2. /\ playing[s] \in Levels /\ Cur(s).level \in Levels /\ Cur(s).level <= playing[s]
      /\ place[s] \in Fields
  BY <1>1, Players, Slotted DEF IInv, LevelsInv, PlayLevels
<1> DEFINE new == playing[s] + 1
           old == Cur(s).level
<1>3. new \in Levels /\ old <= new
  <2> HIDE DEF old
  <2>1. playing[s] \in 0 .. MaxLevel /\ old \in 0 .. MaxLevel /\ MaxLevel \in Nat /\ old <= playing[s]
    BY <1>2, Constants DEF old
  <2>2. new \in 0 .. MaxLevel /\ old <= new
    BY <1>1, <2>1
  <2> QED BY <2>2, Constants
<1>4. /\ playing' \in [Sessions -> Levels \cup {None}] /\ playing'[s] = new
      /\ \A t \in Sessions : t # s => playing'[t] = playing[t]
  BY <1>1, <1>3 DEF IInv, TypeInv
<1> HIDE DEF new
<1>5. TypeInv'
  BY <1>1, <1>4 DEF IInv, TypeInv, TypeOK
<1>c. \A t \in Sessions : Cur(t)' = Cur(t)
  BY <1>1 DEF Cur
<1>6. SlotsInv'
  BY <1>1, <1>2, <1>4, <1>c DEF IInv, SlotsInv
<1>7. HistoryInv' /\ JobsInv' /\ JobLevels' /\ InfoLevels' /\ CharactersAreStored'
  BY <1>1, OnRecord
<1>8. PlayLevels' /\ WriterIsWoken'
  BY <1>1, <1>3, <1>4, <1>c DEF IInv, LevelsInv, PlayLevels, WriterIsWoken
<1> QED BY <1>5, <1>6, <1>7, <1>8 DEF IInv, LevelsInv

(* Every set of numbers has a least one.                                      *)
LEMMA Least ==
  ASSUME NEW T \in SUBSET Nat, T # {}
  PROVE  \E x \in T : \A y \in T : x <= y
<1> DEFINE R == {ss \in Nat \X Nat : ss[1] < ss[2]}
<1>1. IsWellFoundedOn(R, Nat)
  <2>1. R = OpToRel(<, Nat)
    BY DEF OpToRel
  <2> QED BY <2>1, NatLessThanWellFounded
<1>2. PICK x \in T : \A y \in T : <<y, x>> \notin R
  <2> HIDE DEF R
  <2> QED BY <1>1, WFMin
<1>3. ASSUME NEW y \in T PROVE ~ (y < x)
  <2>1. <<y, x>> \in Nat \X Nat
    OBVIOUS
  <2> QED BY <1>2, <2>1
<1> QED BY <1>3

(* A bounded set of numbers has a greatest one.                               *)
LEMMA MaxOfBounded ==
  ASSUME NEW n \in Nat, NEW S \in SUBSET (-1 .. n), S # {}
  PROVE  Max(S) \in S /\ \A y \in S : Max(S) >= y
<1> DEFINE T == {n - x : x \in S}
<1>1. PICK m \in T : \A y \in T : m <= y
  <2>1. T \in SUBSET Nat /\ T # {}
    <3>1. \A x \in S : n - x \in Nat
      OBVIOUS
    <3> QED BY <3>1
  <2> HIDE DEF T
  <2> QED BY <2>1, Least
<1>2. PICK x \in S : m = n - x
  BY <1>1
<1>3. ASSUME NEW y \in S PROVE x >= y
  <2>1. m <= n - y
    BY <1>1
  <2> QED BY <1>2, <2>1
<1> QED BY <1>3 DEF Max

(* MAX(id) + 1 is no row's id.                                                *)
LEMMA NextIdIsFree ==
  ASSUME NextId \in Ids
  PROVE  rows[NextId] = None
<1> DEFINE S == {-1} \cup {c \in Ids : rows[c] # None}
<1>1. S \in SUBSET (-1 .. MaxId) /\ S # {} /\ MaxId \in Nat
  <2>1. MaxId \in Nat /\ Ids = 0 .. MaxId
    BY Constants DEF Ids
  <2> QED BY <2>1
<1>2. Max(S) \in S /\ \A y \in S : Max(S) >= y
  <2> HIDE DEF S
  <2> QED BY <1>1, MaxOfBounded
<1>3. NextId = Max(S) + 1
  BY DEF NextId
<1>4. NextId \notin S
  <2>1. Max(S) \in Int
    BY <1>1, <1>2
  <2> HIDE DEF S
  <2> QED BY <1>2, <1>3, <2>1
<1> QED BY <1>4

(* A new character has an id of its own, or the id is on record.               *)
LEMMA CreateStep ==
  ASSUME IInv, NEW s \in Sessions, CreateCharacter(s)
  PROVE  IInv'
<1> DEFINE c == NextId
           a == account[s]
           n == count[s]
           new == [id |-> c, idx |-> n, level |-> 0, owner |-> a]
           u == [op |-> "insert", id |-> c, player |-> a, idx |-> n, level |-> 0]
<1>1. /\ place[s] = Lobby /\ a # None /\ c \in Ids /\ n \in Slots
      /\ infos' = [infos EXCEPT ![s][n] = new] /\ count' = [count EXCEPT ![s] = n + 1]
      /\ Write(Lobby, u)
      /\ shared' = IF \E j \in Pending : j.op = "insert" /\ j.id = c THEN shared \cup {c} ELSE shared
      /\ UNCHANGED <<rows, signalled, writer, place, logins, account, curIndex, playing, stale>>
  BY DEF CreateCharacter
<1>h. holed' \subseteq Accounts
  <2>1. a \in Accounts /\ holed \subseteq Accounts
    BY <1>1, Players DEF IInv, TypeInv, TypeOK
  <2>2. holed' = holed \cup {a} \/ holed' = holed
    BY DEF CreateCharacter
  <2> QED BY <2>1, <2>2
<1>2. rows[c] = None
  BY <1>1, NextIdIsFree
<1>3. /\ a \in Accounts /\ 0 \in Levels
      /\ infos' = [infos EXCEPT ![s] = [@ EXCEPT ![n] = new]]
      /\ playing[s] = None
  BY <1>1, Players, Constants
<1>k. count' \in [Sessions -> 0 .. MaxCharacters]
  <2>1. n \in 0 .. MaxCharacters - 1 /\ MaxCharacters \in Nat
    BY <1>1, Constants DEF Slots
  <2>2. n + 1 \in 0 .. MaxCharacters
    BY <2>1
  <2> QED BY <1>1, <2>2 DEF IInv, TypeInv
<1>4. /\ u \in Job /\ u.op = "insert" /\ u.id = c /\ u.player = a /\ u.idx = n /\ u.level = 0
      /\ new \in Info /\ new.id = c /\ new.level = 0 /\ new.owner = a /\ new.idx = n
  BY <1>1, <1>3 DEF Job, Info
<1> HIDE DEF u, c, new, n, a
<1>5. /\ jobs \in Seq(Job) /\ jobs' \in Seq(Job) /\ Len(jobs) \in Nat
      /\ signalling' \subseteq Groups /\ WriterIsWoken'
      /\ DOMAIN jobs = 1 .. Len(jobs) /\ DOMAIN jobs' = 1 .. Len(jobs) + 1
      /\ \A i \in DOMAIN jobs : jobs'[i] = jobs[i] /\ jobs[i] \in Job
      /\ jobs'[Len(jobs) + 1] = u
      /\ Pending \subseteq Pending' /\ u \in Pending'
  BY <1>1, <1>4, Queued, Constants
<1> DEFINE e == Len(jobs) + 1
<1>6. /\ \A i \in DOMAIN jobs' : i = e \/ i \in DOMAIN jobs
      /\ \A i \in DOMAIN jobs : i < e /\ ~(e < i) /\ i # e /\ i \in DOMAIN jobs'
      /\ e \in DOMAIN jobs' /\ jobs'[e] = u /\ ~(e < e)
  BY <1>5
<1> HIDE DEF e
<1>7. shared \subseteq shared' /\ shared' \subseteq shared \cup {c} /\ stale' = stale
  BY <1>1
<1>8. ASSUME c \notin shared'
      PROVE  /\ \A i \in DOMAIN jobs : jobs[i].id # c
             /\ \A t \in Sessions : \A i \in Slots : infos[t][i].owner # None => infos[t][i].id # c
  <2>1. \A i \in DOMAIN jobs : ~(jobs[i].op = "insert" /\ jobs[i].id = c)
    <3>1. Pending = {jobs[i] : i \in DOMAIN jobs}
      BY <1>5, PendingJobs
    <3> QED BY <1>1, <1>8, <3>1
  <2>2. \A b : ~Owned(c, b)
    BY <1>2, <2>1 DEF Owned
  <2>3. c \notin shared
    BY <1>7, <1>8
  <2>4. \A i \in DOMAIN jobs : jobs[i].id # c
    BY <1>1, <2>2, <2>3, OneOwner
  <2>5. \A t \in Sessions : \A i \in Slots : infos[t][i].owner # None => infos[t][i].id # c
    BY <2>2, <2>3, StoredIsOwned
  <2> QED BY <2>4, <2>5
<1>9. /\ infos' \in [Sessions -> [Slots -> Info]]
      /\ \A t \in Sessions : t # s => infos'[t] = infos[t]
      /\ \A i \in Slots : i # n => infos'[s][i] = infos[s][i]
      /\ infos'[s][n] = new
  BY <1>1, <1>3, <1>4 DEF IInv, TypeInv
<1>10. \A t \in Sessions : \A i \in Slots :
         \/ ~(t = s /\ i = n) /\ infos'[t][i] = infos[t][i]
         \/ t = s /\ i = n /\ infos'[t][i] = new
  BY <1>9
<1>12. TypeInv'
  <2>1. shared' \subseteq Ids
    BY <1>1, <1>7 DEF IInv, TypeInv, TypeOK
  <2> QED BY <1>1, <1>5, <1>9, <1>h, <1>k, <2>1 DEF IInv, TypeInv, TypeOK
<1>c. \A t \in Sessions : t # s => Cur(t)' = Cur(t)
  BY <1>1, <1>9 DEF Cur
<1>13. SlotsInv'
  <2> SUFFICES ASSUME NEW t \in Sessions
               PROVE  /\ \A i \in Slots :
                           /\ infos'[t][i].owner # None => infos'[t][i].idx = i
                           /\ infos'[t][i].owner = None => infos'[t][i].idx = 0 /\ infos'[t][i].id = 0
                      /\ playing[t] # None => place[t] \in Fields
                      /\ playing[t] # None /\ Cur(t)'.owner = None =>
                           0 \in shared' /\ infos'[t][0].owner \in stale \cup {None}
    BY <1>1, <1>7 DEF SlotsInv
  <2>1. \A i \in Slots : /\ infos'[t][i].owner # None => infos'[t][i].idx = i
                         /\ infos'[t][i].owner = None => infos'[t][i].idx = 0 /\ infos'[t][i].id = 0
    BY <1>3, <1>4, <1>10, Constants DEF IInv, SlotsInv
  <2>2. CASE t = s
    BY <1>3, <2>1, <2>2
  <2>3. CASE t # s
    BY <1>7, <1>9, <1>c, <2>1, <2>3 DEF IInv, SlotsInv
  <2> QED BY <2>2, <2>3
<1>14. HistoryInv'
  <2>1. ASSUME NEW t \in Sessions, NEW i \in Slots, NEW k \in Slots, i # k,
               infos'[t][i].owner # None, infos'[t][k].owner # None,
               infos'[t][i].id = infos'[t][k].id, infos'[t][i].id \notin shared'
        PROVE  FALSE
    BY <1>4, <1>7, <1>8, <1>10, <2>1 DEF IInv, HistoryInv
  <2>2. \A t \in Sessions, b \in Accounts : Holds(t, b)' => Holds(t, b)
    BY <1>1, <1>4, <1>10 DEF Holds, a
  <2> QED BY <1>7, <2>1, <2>2 DEF IInv, HistoryInv
<1>15. JobsInv'
  <2>0. \A i \in DOMAIN jobs' : jobs'[i].op = "insert" => jobs'[i].player \in Accounts
    BY <1>3, <1>4, <1>5, <1>6 DEF IInv, JobsInv
  <2> SUFFICES ASSUME NEW i \in DOMAIN jobs', jobs'[i].id \notin shared'
               PROVE  /\ jobs'[i].op = "insert" =>
                           /\ rows[jobs'[i].id] = None
                           /\ \A k \in DOMAIN jobs' :
                                jobs'[k].op = "insert" /\ jobs'[k].id = jobs'[i].id => k = i
                      /\ jobs'[i].op = "update" =>
                           \/ rows[jobs'[i].id] # None /\ rows[jobs'[i].id].player = jobs'[i].player
                           \/ \E k \in DOMAIN jobs' :
                                /\ k < i /\ jobs'[k].op = "insert"
                                /\ jobs'[k].id = jobs'[i].id /\ jobs'[k].player = jobs'[i].player
    BY <1>1, <2>0 DEF JobsInv
  <2>1. CASE i \in DOMAIN jobs
    BY <1>4, <1>5, <1>6, <1>7, <1>8, <2>1 DEF IInv, JobsInv
  <2>2. CASE i = e
    BY <1>2, <1>4, <1>5, <1>6, <1>8, <2>2
  <2> QED BY <1>6, <2>1, <2>2
<1>16. JobLevels'
  <2> SUFFICES ASSUME NEW i \in DOMAIN jobs', jobs'[i].id \notin shared', jobs'[i].player \notin stale
               PROVE  /\ rows[jobs'[i].id] # None => rows[jobs'[i].id].level <= jobs'[i].level
                      /\ \A k \in DOMAIN jobs' :
                           i < k /\ jobs'[k].id = jobs'[i].id => jobs'[i].level <= jobs'[k].level
    BY <1>1 DEF JobLevels, Safe
  <2>1. CASE i \in DOMAIN jobs
    BY <1>4, <1>5, <1>6, <1>7, <1>8, <2>1 DEF IInv, LevelsInv, JobLevels, Safe
  <2>2. CASE i = e
    BY <1>2, <1>4, <1>5, <1>6, <1>8, <2>2
  <2> QED BY <1>6, <2>1, <2>2
<1>17. InfoLevels'
  <2> SUFFICES ASSUME NEW t \in Sessions, NEW i \in Slots, infos'[t][i].owner # None,
                      infos'[t][i].id \notin shared', infos'[t][i].owner \notin stale
               PROVE  LET d == infos'[t][i].id IN
                      /\ rows[d] # None => rows[d].level <= infos'[t][i].level
                      /\ \A k \in DOMAIN jobs' : jobs'[k].id = d => jobs'[k].level <= infos'[t][i].level
    BY <1>1 DEF InfoLevels, Safe
  <2>1. CASE infos'[t][i] = infos[t][i]
    BY <1>4, <1>5, <1>6, <1>7, <1>8, <2>1 DEF IInv, LevelsInv, InfoLevels, Safe
  <2>2. CASE infos'[t][i] = new
    <3>1. \A k \in DOMAIN jobs' : jobs'[k].id = c => k = e
      BY <1>4, <1>5, <1>6, <1>8, <2>2
    <3> QED BY <1>2, <1>4, <1>6, <2>2, <3>1
  <2> QED BY <1>10, <2>1, <2>2
<1>18. PlayLevels'
  BY <1>1, <1>3, <1>c DEF IInv, LevelsInv, PlayLevels
<1>19. CharactersAreStored'
  <2> SUFFICES ASSUME NEW t \in Sessions, NEW i \in Slots, infos'[t][i].owner # None,
                      infos'[t][i].id \notin shared'
               PROVE  LET d == infos'[t][i].id
                          o == infos'[t][i].owner IN
                      \/ rows[d] # None /\ rows[d].player = o /\ rows[d].idx = i
                      \/ \E j \in Pending' : j.op = "insert" /\ j.id = d /\ j.player = o /\ j.idx = i
    BY <1>1 DEF CharactersAreStored
  <2>1. CASE infos'[t][i] = infos[t][i]
    BY <1>5, <1>7, <2>1 DEF IInv, CharactersAreStored
  <2>2. CASE t = s /\ i = n /\ infos'[t][i] = new
    BY <1>4, <1>5, <2>2
  <2> QED BY <1>10, <2>1, <2>2
<1> QED BY <1>5, <1>12, <1>13, <1>14, <1>15, <1>16, <1>17, <1>18, <1>19 DEF IInv, LevelsInv

(* What a login puts into the slots: rows of the account with their idx, and   *)
(* what was in the slots no row names.                                        *)
LEMMA Reading ==
  ASSUME IInv, NEW s \in Sessions, NEW a \in Accounts, GameLogin(s, a)
  PROVE  /\ infos' \in [Sessions -> [Slots -> Info]]
         /\ \A t \in Sessions : t # s => infos'[t] = infos[t]
         /\ \A i \in Slots :
              \/ RowsAt(a, i) = {} /\ infos'[s][i] = infos[s][i]
              \/ \E c \in RowsAt(a, i) : infos'[s][i] = ReadRow(c)
         /\ \A i \in Slots : \A c \in RowsAt(a, i) :
              /\ c \in Ids /\ rows[c] # None /\ rows[c].player = a /\ rows[c].idx = i
              /\ rows[c].level \in Levels
              /\ ReadRow(c).id = c /\ ReadRow(c).idx = i /\ ReadRow(c).owner = a
              /\ ReadRow(c).level = rows[c].level
<1>1. PICK last \in [Slots -> Ids] :
        /\ \A i \in Slots : RowsAt(a, i) # {} => last[i] \in RowsAt(a, i)
        /\ infos' = [infos EXCEPT ![s] =
             [i \in Slots |-> IF RowsAt(a, i) = {} THEN infos[s][i] ELSE ReadRow(last[i])]]
  BY DEF GameLogin
<1>2. \A i \in Slots : \A c \in RowsAt(a, i) :
         /\ c \in Ids /\ rows[c] # None /\ rows[c].player = a /\ rows[c].idx = i
         /\ rows[c] \in Row
  BY DEF RowsAt, RowsOf, IInv, TypeInv, TypeOK
<1>3. \A i \in Slots : \A c \in RowsAt(a, i) :
         /\ rows[c].level \in Levels
         /\ ReadRow(c).id = c /\ ReadRow(c).idx = i /\ ReadRow(c).owner = a
         /\ ReadRow(c).level = rows[c].level
         /\ ReadRow(c) \in Info
  BY <1>2 DEF ReadRow, Row, Info
<1> DEFINE new == [i \in Slots |-> IF RowsAt(a, i) = {} THEN infos[s][i] ELSE ReadRow(last[i])]
<1>4. \A i \in Slots : \/ RowsAt(a, i) = {} /\ new[i] = infos[s][i]
                       \/ \E c \in RowsAt(a, i) : new[i] = ReadRow(c)
  BY <1>1
<1>5. new \in [Slots -> Info]
  <2>1. \A i \in Slots : new[i] \in Info
    BY <1>3, <1>4, Slotted
  <2> HIDE DEF new
  <2>2. new = [i \in Slots |-> new[i]]
    BY DEF new
  <2> QED BY <2>1, <2>2
<1>6. infos' = [infos EXCEPT ![s] = new]
  BY <1>1
<1> HIDE DEF new
<1>7. /\ infos' \in [Sessions -> [Slots -> Info]] /\ infos'[s] = new
      /\ \A t \in Sessions : t # s => infos'[t] = infos[t]
  BY <1>5, <1>6 DEF IInv, TypeInv
<1> QED BY <1>2, <1>3, <1>4, <1>7

(* Counted is at most MaxCharacters.                                          *)
LEMMA Counted ==
  ASSUME NEW n \in Nat
  PROVE  AtMost(n) \in 0 .. MaxCharacters
BY Constants DEF AtMost

(* A login: what it reads is the newest there is, or the account is on        *)
(* record.                                                                    *)
LEMMA GameLoginStep ==
  ASSUME IInv, NEW s \in Sessions, NEW a \in Accounts, GameLogin(s, a)
  PROVE  IInv'
<1> DEFINE behind == \/ \E t \in Sessions \ {s} : Holds(t, a)
                     \/ \E j \in Pending : j.player = a
<1>1. /\ place[s] = Login /\ place' = [place EXCEPT ![s] = Lobby]
      /\ logins < MaxLogins /\ logins' = logins + 1
      /\ account' = [account EXCEPT ![s] = a]
      /\ count' = [count EXCEPT ![s] = AtMost(@ + Cardinality(RowsOf(a)))]
      /\ stale' = IF behind THEN stale \cup {a} ELSE stale
      /\ holed' = IF behind \/ count[s] # 0 THEN holed \cup {a} ELSE holed
      /\ UNCHANGED <<rows, jobs, signalled, writer, signalling, curIndex, playing, shared>>
  BY DEF GameLogin, tableVars
<1>2. /\ infos' \in [Sessions -> [Slots -> Info]]
      /\ \A t \in Sessions : t # s => infos'[t] = infos[t]
      /\ \A i \in Slots :
           \/ RowsAt(a, i) = {} /\ infos'[s][i] = infos[s][i]
           \/ \E c \in RowsAt(a, i) : infos'[s][i] = ReadRow(c)
      /\ \A i \in Slots : \A c \in RowsAt(a, i) :
           /\ c \in Ids /\ rows[c] # None /\ rows[c].player = a /\ rows[c].idx = i
           /\ rows[c].level \in Levels
           /\ ReadRow(c).id = c /\ ReadRow(c).idx = i /\ ReadRow(c).owner = a
           /\ ReadRow(c).level = rows[c].level
  BY Reading
<1>3. stale \subseteq stale' /\ stale' \subseteq stale \cup {a}
  BY <1>1
<1>4. ASSUME a \notin stale'
      PROVE  /\ \A t \in Sessions \ {s} : ~Holds(t, a)
             /\ \A i \in DOMAIN jobs : jobs[i].player # a
  <2>1. Pending = {jobs[i] : i \in DOMAIN jobs}
    BY PendingJobs DEF IInv, TypeInv, TypeOK
  <2> QED BY <1>1, <1>4, <2>1
<1> HIDE DEF behind
<1>5. /\ place' \in [Sessions -> Groups]
      /\ account' \in [Sessions -> Accounts \cup {None}] /\ account'[s] = a
      /\ \A t \in Sessions : t # s => place'[t] = place[t] /\ account'[t] = account[t]
      /\ logins' \in 0 .. MaxLogins
  <2>1. logins \in 0 .. MaxLogins /\ MaxLogins \in Nat
    BY Constants DEF IInv, TypeInv, TypeOK
  <2>2. logins' \in 0 .. MaxLogins
    BY <1>1, <2>1
  <2> QED BY <1>1, <2>2, Constants DEF IInv, TypeInv
<1>6. playing[s] = None /\ a # None
  BY <1>1, Players, Constants
<1>7. TypeInv'
  <2>1. count' \in [Sessions -> 0 .. MaxCharacters]
    <3>1. IsFiniteSet(RowsOf(a))
      <4>1. IsFiniteSet(Ids)
        BY Constants, FS_Interval DEF Ids
      <4> QED BY <4>1, FS_Subset DEF RowsOf
    <3>2. Cardinality(RowsOf(a)) \in Nat
      BY <3>1, FS_CardinalityType
    <3>3. count[s] \in Nat /\ count \in [Sessions -> 0 .. MaxCharacters]
      BY Constants DEF IInv, TypeInv
    <3>4. AtMost(count[s] + Cardinality(RowsOf(a))) \in 0 .. MaxCharacters
      BY <3>2, <3>3, Counted
    <3> QED BY <1>1, <3>3, <3>4
  <2>2. stale' \subseteq Accounts /\ holed' \subseteq Accounts
    BY <1>1 DEF IInv, TypeInv, TypeOK
  <2> QED BY <1>1, <1>2, <1>5, <2>1, <2>2 DEF IInv, TypeInv, TypeOK
<1>c. \A t \in Sessions : t # s => Cur(t)' = Cur(t)
  BY <1>1, <1>2 DEF Cur
<1>8. SlotsInv'
  <2> SUFFICES ASSUME NEW t \in Sessions
               PROVE  /\ \A i \in Slots :
                           /\ infos'[t][i].owner # None => infos'[t][i].idx = i
                           /\ infos'[t][i].owner = None => infos'[t][i].idx = 0 /\ infos'[t][i].id = 0
                      /\ playing[t] # None => place'[t] \in Fields
                      /\ playing[t] # None /\ Cur(t)'.owner = None =>
                           0 \in shared /\ infos'[t][0].owner \in stale' \cup {None}
    BY <1>1 DEF SlotsInv
  <2>1. CASE t = s
    BY <1>2, <1>6, <2>1, Slotted
  <2>2. CASE t # s
    BY <1>2, <1>3, <1>5, <1>c, <2>2 DEF IInv, SlotsInv
  <2> QED BY <2>1, <2>2
<1>9. HistoryInv'
  <2>1. \A t \in Sessions, b \in Accounts :
          /\ t # s => (Holds(t, b)' <=> Holds(t, b))
          /\ b # a => (Holds(s, b)' => Holds(s, b))
    BY <1>2, <1>5 DEF Holds
  <2>2. ASSUME NEW t \in Sessions, NEW r \in Sessions, NEW b \in Accounts, t # r,
               Holds(t, b)', Holds(r, b)', b \notin stale'
        PROVE  FALSE
    BY <1>3, <1>4, <2>1, <2>2 DEF IInv, HistoryInv
  <2>3. ASSUME NEW i \in Slots, NEW k \in Slots, i # k,
               infos'[s][i].owner # None, infos'[s][k].owner # None,
               infos'[s][i].id = infos'[s][k].id, infos'[s][i].id \notin shared
        PROVE  FALSE
    <3>1. \A m \in Slots : infos'[s][m].owner # None /\ infos'[s][m].id \notin shared
             /\ rows[infos'[s][m].id] # None => rows[infos'[s][m].id].idx = m
      BY <1>2, StoredIsOwned
    <3>2. rows[infos'[s][i].id] = None
      BY <2>3, <3>1
    <3>3. infos'[s][i] = infos[s][i] /\ infos'[s][k] = infos[s][k]
      BY <1>2, <2>3, <3>2
    <3> QED BY <2>3, <3>3 DEF IInv, HistoryInv
  <2>4. \A t \in Sessions \ {s} : \A i, j \in Slots :
       /\ i # j /\ infos'[t][i].owner # None /\ infos'[t][j].owner # None
       /\ infos'[t][i].id = infos'[t][j].id
       => infos'[t][i].id \in shared
    BY <1>2 DEF IInv, HistoryInv
  <2> QED BY <1>1, <2>2, <2>3, <2>4 DEF HistoryInv
<1>10. JobsInv' /\ WriterIsWoken'
  BY <1>1 DEF IInv, JobsInv, WriterIsWoken
<1>11. JobLevels'
  BY <1>1, <1>3 DEF IInv, LevelsInv, JobLevels, Safe
<1>12. InfoLevels'
  <2> SUFFICES ASSUME NEW t \in Sessions, NEW i \in Slots, infos'[t][i].owner # None,
                      infos'[t][i].id \notin shared, infos'[t][i].owner \notin stale'
               PROVE  LET d == infos'[t][i].id IN
                      /\ rows[d] # None => rows[d].level <= infos'[t][i].level
                      /\ \A k \in DOMAIN jobs : jobs[k].id = d => jobs[k].level <= infos'[t][i].level
    BY <1>1 DEF InfoLevels, Safe
  <2>1. CASE infos'[t][i] = infos[t][i]
    BY <1>3, <2>1 DEF IInv, LevelsInv, InfoLevels, Safe
  <2>2. CASE t = s /\ \E c \in RowsAt(a, i) : infos'[s][i] = ReadRow(c)
    <3>1. PICK d \in RowsAt(a, i) : infos'[s][i] = ReadRow(d)
      BY <2>2
    <3>2. /\ d \in Ids /\ rows[d] # None /\ rows[d].player = a /\ infos'[s][i].level = rows[d].level
          /\ infos'[s][i].id = d /\ infos'[s][i].owner = a /\ rows[d].level <= rows[d].level
      BY <1>2, <3>1, Constants
    <3>3. \A k \in DOMAIN jobs : jobs[k].id # d
      <4> SUFFICES ASSUME NEW k \in DOMAIN jobs, jobs[k].id = d PROVE FALSE
        OBVIOUS
      <4>1. Owned(d, a) /\ Owned(d, jobs[k].player)
        BY <2>2, <3>2, OneOwner DEF Owned
      <4>2. jobs[k].player = a
        BY <2>2, <3>2, <4>1, OneOwner
      <4> QED BY <1>4, <2>2, <3>2, <4>2
    <3> QED BY <2>2, <3>2, <3>3
  <2> QED BY <1>2, <2>1, <2>2
<1>13. PlayLevels'
  BY <1>1, <1>6, <1>c DEF IInv, LevelsInv, PlayLevels
<1>14. CharactersAreStored'
  <2>1. Pending' = Pending
    BY <1>1 DEF Pending
  <2> SUFFICES ASSUME NEW t \in Sessions, NEW i \in Slots, infos'[t][i].owner # None,
                      infos'[t][i].id \notin shared
               PROVE  LET d == infos'[t][i].id
                          o == infos'[t][i].owner IN
                      \/ rows[d] # None /\ rows[d].player = o /\ rows[d].idx = i
                      \/ \E j \in Pending : j.op = "insert" /\ j.id = d /\ j.player = o /\ j.idx = i
    BY <1>1, <2>1 DEF CharactersAreStored
  <2>2. CASE infos'[t][i] = infos[t][i]
    BY <2>2 DEF IInv, CharactersAreStored
  <2>3. CASE t = s /\ \E c \in RowsAt(a, i) : infos'[s][i] = ReadRow(c)
    BY <1>2, <2>3
  <2> QED BY <1>2, <2>2, <2>3
<1> QED BY <1>7, <1>8, <1>9, <1>10, <1>11, <1>12, <1>13, <1>14 DEF IInv, LevelsInv

-----------------------------------------------------------------------------
(* Every step preserves the invariant. *)
LEMMA InductiveStep == IInv /\ [Next]_vars => IInv'
<1>1. ASSUME IInv, Next PROVE IInv'
  BY <1>1, SetEventStep, WakeStep, ExecuteStep, DrainedStep, CrashStep, GameLoginStep, CreateStep,
     GameEnterStep, EnterFieldStep, ProgressStep, MoveFieldStep, CloseStep, LeaveStep DEF Next
<1>2. ASSUME IInv, UNCHANGED vars PROVE IInv'
  <2>1. UNCHANGED <<rows, jobs, playerVars, historyVars, signalled, writer, signalling>>
    BY <1>2 DEF vars, tableVars
  <2>2. /\ signalled' \in BOOLEAN /\ writer' \in {"wait", "drain"}
        /\ signalling' \subseteq Groups /\ WriterIsWoken'
    BY <1>2, <2>1 DEF IInv, TypeInv, TypeOK, WriterIsWoken
  <2> QED BY <1>2, <2>1, <2>2, QueueStep
<1> QED BY <1>1, <1>2

(* The inductive invariant holds throughout, whatever slots clients ask for    *)
(* and however often the process ends.                                        *)
THEOREM Inductive == Spec => []IInv
BY InitIInv, InductiveStep, PTL DEF Spec

(* Every variable has its type, at every step.                                *)
THEOREM Types == Spec => []TypeOK
<1>1. IInv => TypeOK
  BY DEF IInv, TypeInv
<1> QED BY <1>1, Inductive, PTL

(* A character a slot was filled with is its account's row with the slot's    *)
(* number, or its insert is queued, however sessions, logins and writes       *)
(* interleave: except for an id given out while its insert was queued, and    *)
(* for id 0 once a slot nothing filled was played.                            *)
THEOREM Stored == Spec => []CharactersAreStored
<1>1. IInv => CharactersAreStored
  BY DEF IInv
<1> QED BY <1>1, Inductive, PTL

(* DBWriter's thread does not sleep over a queued write.                      *)
THEOREM Woken == Spec => []WriterIsWoken
<1>1. IInv => WriterIsWoken
  BY DEF IInv
<1> QED BY <1>1, Inductive, PTL

(* What the database has of a character never goes back and never changes     *)
(* hands: except for accounts that logged in over another session or a write  *)
(* of their own, for ids given out twice, and for id 0 and the account that   *)
(* has the first slot once a client played a slot nothing filled.             *)
THEOREM Kept == Spec => ProgressIsKept
<1> DEFINE Keeps == \A c \in Ids :
             rows[c] # None /\ Safe(c, rows[c].player)
             => rows'[c].player = rows[c].player /\ rows'[c].level >= rows[c].level
<1>1. ASSUME IInv, [Next]_vars PROVE [Keeps]_vars
  <2> SUFFICES ASSUME NEW c \in Ids, rows[c] # None, Safe(c, rows[c].player)
               PROVE  rows'[c].player = rows[c].player /\ rows'[c].level >= rows[c].level
    OBVIOUS
  <2>1. rows[c].level \in Nat
    BY <1>1, Constants DEF IInv, TypeInv, TypeOK, Row
  <2>2. CASE Execute
    <3> DEFINE j == jobs[1]
    <3>1. 1 \in DOMAIN jobs /\ j \in Job
      BY <1>1, <2>2, QueueTail DEF Execute, IInv, TypeInv, TypeOK
    <3>2. CASE j.op = "update" /\ j.id = c
      <4>1. j.player = rows[c].player
        BY <1>1, <3>1, <3>2, OneOwner DEF Owned, Safe
      <4>2. rows[c].level <= j.level
        BY <1>1, <3>1, <3>2, <4>1 DEF IInv, LevelsInv, JobLevels
      <4>3. j.level \in Nat
        BY <3>1, Constants DEF Job
      <4>4. rows'[c].level = j.level /\ rows'[c].player = rows[c].player
        BY <1>1, <2>2, <3>2, Writing
      <4> HIDE DEF j
      <4> QED BY <2>1, <4>2, <4>3, <4>4
    <3>3. CASE j.id # c \/ j.op = "insert"
      <4>1. rows'[c] = rows[c]
        BY <1>1, <2>2, <3>3, Writing
      <4> QED BY <2>1, <4>1
    <3>4. j.op \in {"insert", "update"}
      BY <3>1 DEF Job
    <3> QED BY <3>2, <3>3, <3>4
  <2>3. CASE UNCHANGED rows
    BY <2>1, <2>3
  <2>4. Execute \/ UNCHANGED rows
    BY <1>1 DEF Next, vars, tableVars, SetEvent, Wake, Drained, GameLogin, CreateCharacter,
       GameEnter, EnterField, Progress, MoveField, Save, Close, Leave, Crash
  <2> QED BY <2>2, <2>3, <2>4
<1> QED BY <1>1, Inductive, PTL DEF Spec, ProgressIsKept

=============================================================================

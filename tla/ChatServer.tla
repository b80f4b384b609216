----------------------------- MODULE ChatServer ------------------------------
(***************************************************************************)
(* 02_ChatServer/ChatServer.cpp: workers handle packets, threads of the      *)
(* DBReadThreadPool run queries, and any of them may be the one that drops   *)
(* a session's last reference and runs OnDisconnect, in the middle of a      *)
(* SendPacket.  Player objects are recycled and have a lock each; so have    *)
(* the nicknames and every field (SRW locks, not recursive).                 *)
(*                                                                         *)
(* A session is open while somebody references it (SessionLife).  The        *)
(* player map's lock is never held across anything: it needs no variable.   *)
(* A lock held for one access to a table is one step that waits for it.      *)
(***************************************************************************)
EXTENDS Integers, Sequences, FiniteSets

CONSTANTS
  Workers, DbThreads, Acceptor,
  Players,     (* player objects of the pool                                 *)
  Names,       (* nicknames in the database                                  *)
  Fields,      (* indices of _playersOnField                                 *)
  MaxKey,      (* bound: sessions accepted                                   *)
  MaxCalls,    (* bound: packets received                                    *)
  None

ASSUME ChatAssumption ==
  /\ MaxKey \in Nat /\ MaxCalls \in Nat /\ Fields \subseteq Nat
  /\ Acceptor \notin Workers \cup DbThreads /\ Workers \cap DbThreads = {}
  /\ None \notin Workers \cup DbThreads \cup {Acceptor} \cup Players \cup Names

Threads == Workers \cup DbThreads \cup {Acceptor}
Id == 1 .. MaxKey
NoId == 0
NoField == -1

VARIABLES
  keys, calls,              \* sessions and packets so far
  open, io,                 \* open sessions; those referenced by a recv
  sid, nick, field,         \* Player: _sessionId, _nickname, _fieldId
  pool,                     \* players that are free
  players, names, onField,  \* _players, _nicknameToPlayer, _playersOnField
  plock, nlock, flock,      \* holders of the locks; flock: readers
  jobs, job,                \* DBReadThreadPool::_jobQueue; the job of a thread
  pc, sess, me, arg, todo,  \* a thread: session held, player, packet, receivers
  to, ret, gone, leaver     \* SendPacket's session; where OnDisconnect returns; its session, player

sessVars  == <<keys, calls, open, io>>
playerVars == <<sid, nick, field, pool>>
tableVars == <<players, names, onField>>
lockVars  == <<plock, nlock, flock>>
jobVars   == <<jobs, job>>
callVars  == <<sess, me, arg, todo>>
sendVars  == <<to, ret, gone, leaver>>
vars == <<sessVars, playerVars, tableVars, lockVars, jobVars, pc, callVars, sendVars>>

Init ==
  /\ keys = 0 /\ calls = 0 /\ open = {} /\ io = {}
  /\ sid = [p \in Players |-> NoId] /\ nick = [p \in Players |-> None]
  /\ field = [p \in Players |-> NoField] /\ pool = Players
  /\ players = [i \in Id |-> None] /\ names = [n \in Names |-> None]
  /\ onField = [f \in Fields |-> {}]
  /\ plock = [p \in Players |-> None] /\ nlock = None /\ flock = [f \in Fields |-> {}]
  /\ jobs = <<>> /\ job = [d \in DbThreads |-> None]
  /\ pc = [t \in Threads |-> "idle"] /\ sess = [t \in Threads |-> NoId]
  /\ me = [t \in Threads |-> None] /\ arg = [t \in Threads |-> None]
  /\ todo = [t \in Threads |-> {}]
  /\ to = [t \in Threads |-> NoId] /\ ret = [t \in Threads |-> "idle"]
  /\ gone = [t \in Threads |-> NoId] /\ leaver = [t \in Threads |-> None]

Step(t, from, next) == pc[t] = from /\ pc' = [pc EXCEPT ![t] = next]
Lock(t, p) == plock[p] = None /\ plock' = [plock EXCEPT ![p] = t]
Unlock(p) == plock' = [plock EXCEPT ![p] = None]

Shared_NoRecv(t, i) ==   \* mutant: a recv has no reference of its own
  \E u \in Threads \ {t} : sess[u] = i \/ to[u] = i

(* Does anybody but t reference session i?                                   *)
Shared(t, i) ==
  \/ i \in io
  \/ \E u \in Threads \ {t} : sess[u] = i \/ to[u] = i

(* t drops its reference to i; if that was the last, it runs OnDisconnect     *)
(* before it goes on.                                                        *)
DropReference(t, i, from, next) ==
  IF Shared(t, i)
  THEN Step(t, from, next) /\ UNCHANGED <<open, ret, gone>>
  ELSE /\ Step(t, from, "find") /\ open' = open \ {i}
       /\ ret' = [ret EXCEPT ![t] = next] /\ gone' = [gone EXCEPT ![t] = i]
-----------------------------------------------------------------------------
(* OnAccept: a recycled player, set up under its lock, then put in the map.   *)
Accept(p) ==
  /\ p \in pool /\ keys < MaxKey
  /\ Step(Acceptor, "idle", "init")
  /\ keys' = keys + 1 /\ open' = open \cup {keys'} /\ pool' = pool \ {p}
  /\ sess' = [sess EXCEPT ![Acceptor] = keys'] /\ me' = [me EXCEPT ![Acceptor] = p]
  /\ UNCHANGED <<calls, io, sid, nick, field, tableVars, lockVars, jobVars, arg, todo, sendVars>>

InitIf(free) ==
  LET p == me[Acceptor] IN
  /\ Step(Acceptor, "init", "release") /\ free
  /\ sid' = [sid EXCEPT ![p] = sess[Acceptor]]
  /\ field' = [field EXCEPT ![p] = NoField]
  /\ players' = [players EXCEPT ![sess[Acceptor]] = p]
  /\ me' = [me EXCEPT ![Acceptor] = None]
  /\ UNCHANGED <<sessVars, nick, pool, names, onField, lockVars, jobVars, sess, arg, todo, sendVars>>

InitPlayer_NoLock == InitIf(TRUE)   \* mutant: line 51 left out
InitPlayer == pc[Acceptor] = "init" /\ InitIf(plock[me[Acceptor]] = None)

(* The end of a handler, and of OnAccept: the next recv is posted, or the     *)
(* client is gone and the reference is dropped.                              *)
Repost(t) ==
  /\ Step(t, "release", "idle")
  /\ io' = io \cup {sess[t]} /\ sess' = [sess EXCEPT ![t] = NoId]
  /\ UNCHANGED <<keys, calls, open, playerVars, tableVars, lockVars, jobVars, me, arg, todo, sendVars>>

ClientGone(t, from) ==
  /\ DropReference(t, sess[t], from, "idle")
  /\ sess' = [sess EXCEPT ![t] = NoId]
  /\ UNCHANGED <<keys, calls, io, playerVars, tableVars, lockVars, jobVars, me, arg, todo, to, leaver>>
-----------------------------------------------------------------------------
(* OnRecv: the session's player, its lock, and the packet's handler.          *)
OnRecv(w, i) ==
  /\ i \in io /\ calls < MaxCalls
  /\ Step(w, "idle", "lock")
  /\ calls' = calls + 1 /\ io' = io \ {i}
  /\ sess' = [sess EXCEPT ![w] = i] /\ me' = [me EXCEPT ![w] = players[i]]
  /\ UNCHANGED <<keys, open, playerVars, tableVars, lockVars, jobVars, arg, todo, sendVars>>

(* A completion of zero bytes: the client has left.                          *)
OnLeft(w, i) ==
  /\ i \in io /\ Step(w, "idle", "left")
  /\ io' = io \ {i} /\ sess' = [sess EXCEPT ![w] = i]
  /\ UNCHANGED <<keys, calls, open, playerVars, tableVars, lockVars, jobVars, me, arg, todo, sendVars>>

LockPlayer(w) ==
  /\ pc[w] = "lock" /\ Lock(w, me[w])
  /\ Step(w, "lock", IF sid[me[w]] = sess[w] THEN "handle" ELSE "unlock")
  /\ UNCHANGED <<sessVars, playerVars, tableVars, nlock, flock, jobVars, callVars, sendVars>>

UnlockPlayer(w) ==
  /\ Step(w, "unlock", "release") /\ Unlock(me[w])
  /\ me' = [me EXCEPT ![w] = None] /\ arg' = [arg EXCEPT ![w] = None]
  /\ UNCHANGED <<sessVars, playerVars, tableVars, nlock, flock, jobVars, sess, todo, sendVars>>

(* C_CHAT_LOGIN with a wrong token and C_CHAT_LEAVE: an answer to a session   *)
(* the worker holds, at most.                                                *)
HandleOther(w) ==
  /\ Step(w, "handle", "unlock")
  /\ UNCHANGED <<sessVars, playerVars, tableVars, lockVars, jobVars, callVars, sendVars>>

(* C_CHAT_LOGIN (no name) and C_CHAT_ENTER: a job for the database threads.   *)
HandleQuery(w, n) ==
  /\ Step(w, "handle", "unlock")
  /\ jobs' = Append(jobs, [name |-> n, player |-> me[w], id |-> sess[w]])
  /\ UNCHANGED <<sessVars, playerVars, tableVars, lockVars, job, callVars, sendVars>>

(* C_CHAT_MOVE_FIELD: out of one field, into another.                        *)
HandleMove(w, f) ==
  /\ Step(w, "handle", IF field[me[w]] = f THEN "unlock" ELSE "moveOut")
  /\ arg' = [arg EXCEPT ![w] = f]
  /\ UNCHANGED <<sessVars, playerVars, tableVars, lockVars, jobVars, sess, me, todo, sendVars>>

LeaveField(p) ==
  IF field[p] = NoField THEN UNCHANGED onField
  ELSE /\ flock[field[p]] = {}
       /\ onField' = [onField EXCEPT ![field[p]] = @ \ {p}]

MoveOut(w) ==
  /\ Step(w, "moveOut", "moveIn") /\ LeaveField(me[w])
  /\ UNCHANGED <<sessVars, playerVars, players, names, lockVars, jobVars, callVars, sendVars>>

MoveIn(w) ==
  LET f == arg[w] IN
  /\ Step(w, "moveIn", "unlock") /\ flock[f] = {}
  /\ onField' = [onField EXCEPT ![f] = @ \cup {me[w]}]
  /\ field' = [field EXCEPT ![me[w]] = f]
  /\ UNCHANGED <<sessVars, sid, nick, pool, players, names, lockVars, jobVars, callVars, sendVars>>
-----------------------------------------------------------------------------
(* SendPacket: nothing for a closed session, else Acquire; Release may close. *)
Send(t, i, from, next) ==
  IF i \in open
  THEN Step(t, from, "send") /\ to' = [to EXCEPT ![t] = i] /\ ret' = [ret EXCEPT ![t] = next]
  ELSE Step(t, from, next) /\ UNCHANGED <<to, ret>>

SendRelease(t) ==
  /\ IF sess[t] = to[t] THEN Step(t, "send", ret[t]) /\ UNCHANGED <<open, ret, gone>>
                        ELSE DropReference(t, to[t], "send", ret[t])
  /\ to' = [to EXCEPT ![t] = NoId]
  /\ UNCHANGED <<keys, calls, io, playerVars, tableVars, lockVars, jobVars, callVars, leaver>>

(* C_CHAT to the player's field, under the field's read lock.                 *)
HandleChat(w) ==
  LET f == field[me[w]] IN
  /\ Step(w, "handle", "chat") /\ f # NoField
  /\ flock' = [flock EXCEPT ![f] = @ \cup {w}]
  /\ todo' = [todo EXCEPT ![w] = onField[f] \ {me[w]}]
  /\ UNCHANGED <<sessVars, playerVars, tableVars, plock, nlock, jobVars, sess, me, arg, sendVars>>

ChatTo(w, p) ==
  /\ p \in todo[w] /\ todo' = [todo EXCEPT ![w] = @ \ {p}]
  /\ Send(w, sid[p], "chat", "chat")
  /\ UNCHANGED <<sessVars, playerVars, tableVars, lockVars, jobVars, sess, me, arg, gone, leaver>>

ChatEnd(w) ==
  /\ todo[w] = {} /\ Step(w, "chat", "unlock")
  /\ flock' = [flock EXCEPT ![field[me[w]]] = @ \ {w}]
  /\ UNCHANGED <<sessVars, playerVars, tableVars, plock, nlock, jobVars, callVars, sendVars>>

(* C_WHISPER to a nickname, under the nicknames' lock.                        *)
HandleWhisper(w, n) ==
  /\ Step(w, "handle", "whisper") /\ arg' = [arg EXCEPT ![w] = n]
  /\ UNCHANGED <<sessVars, playerVars, tableVars, lockVars, jobVars, sess, me, todo, sendVars>>

Whisper(w) ==
  LET p == names[arg[w]] IN
  /\ pc[w] = "whisper" /\ nlock = None /\ nlock' = w
  /\ IF p = None THEN Step(w, "whisper", "whisperEnd") /\ UNCHANGED <<to, ret>>
                 ELSE Send(w, sid[p], "whisper", "whisperEnd")
  /\ UNCHANGED <<sessVars, playerVars, tableVars, plock, flock, jobVars, callVars, gone, leaver>>

WhisperEnd_NoUnlock(w) ==   \* mutant: the nicknames stay locked
  /\ Step(w, "whisperEnd", "unlock")
  /\ UNCHANGED <<sessVars, playerVars, tableVars, lockVars, jobVars, callVars, sendVars>>

WhisperEnd(w) ==
  /\ Step(w, "whisperEnd", "unlock") /\ nlock' = None
  /\ UNCHANGED <<sessVars, playerVars, tableVars, plock, flock, jobVars, callVars, sendVars>>
-----------------------------------------------------------------------------
(* A database thread runs the oldest job.                                    *)
TakeJob(d) ==
  /\ jobs # <<>> /\ Step(d, "idle", "jobLock") /\ jobs' = Tail(jobs)
  /\ me' = [me EXCEPT ![d] = Head(jobs).player] /\ job' = [job EXCEPT ![d] = Head(jobs)]
  /\ UNCHANGED <<sessVars, playerVars, tableVars, lockVars, sess, arg, todo, sendVars>>

(* The player is locked; it may be another session's by now.                 *)
JobLock(d) ==
  /\ pc[d] = "jobLock" /\ Lock(d, me[d])
  /\ Step(d, "jobLock", IF sid[me[d]] = job[d].id THEN "job" ELSE "jobUnlock")
  /\ UNCHANGED <<sessVars, playerVars, tableVars, nlock, flock, jobVars, callVars, sendVars>>

(* The query of C_CHAT_ENTER gives the player its nickname...                 *)
JobName(d) ==
  /\ Step(d, "job", "jobInsert") /\ job[d].name # None
  /\ nick' = [nick EXCEPT ![me[d]] = job[d].name]
  /\ UNCHANGED <<sessVars, sid, field, pool, tableVars, lockVars, jobVars, callVars, sendVars>>

(* ... which is entered unless there is an entry under it.                    *)
JobInsert(d) ==
  /\ nlock = None /\ Step(d, "jobInsert", "jobSend")
  /\ names' = [names EXCEPT ![nick[me[d]]] = IF @ = None THEN me[d] ELSE @]
  /\ UNCHANGED <<sessVars, playerVars, players, onField, lockVars, jobVars, callVars, sendVars>>

JobSend(d, from) ==
  /\ pc[d] = from /\ (from = "job" => job[d].name = None)
  /\ Send(d, sid[me[d]], from, "jobUnlock")
  /\ UNCHANGED <<sessVars, playerVars, tableVars, lockVars, jobVars, callVars, gone, leaver>>

JobUnlock(d) ==
  /\ Step(d, "jobUnlock", "idle") /\ Unlock(me[d])
  /\ me' = [me EXCEPT ![d] = None] /\ job' = [job EXCEPT ![d] = None]
  /\ UNCHANGED <<sessVars, playerVars, tableVars, nlock, flock, jobs, sess, arg, todo, sendVars>>
-----------------------------------------------------------------------------
(* OnDisconnect, by whichever thread closed the session.                     *)
DeletePlayer(t) ==
  /\ Step(t, "find", "goneLock")
  /\ leaver' = [leaver EXCEPT ![t] = players[gone[t]]]
  /\ players' = [players EXCEPT ![gone[t]] = None]
  /\ UNCHANGED <<sessVars, playerVars, names, onField, lockVars, jobVars, callVars, to, ret, gone>>

GoneLock(t) ==
  /\ Step(t, "goneLock", "goneName") /\ Lock(t, leaver[t])
  /\ UNCHANGED <<sessVars, playerVars, tableVars, nlock, flock, jobVars, callVars, sendVars>>

GoneName(t) ==
  LET n == nick[leaver[t]] IN
  /\ nlock = None /\ Step(t, "goneName", "goneField")
  /\ names' = IF n = None THEN names ELSE [names EXCEPT ![n] = None]
  /\ UNCHANGED <<sessVars, playerVars, players, onField, lockVars, jobVars, callVars, sendVars>>

GoneField_NoErase(t) ==   \* mutant: the field keeps the player
  /\ Step(t, "goneField", "goneFree")
  /\ UNCHANGED <<sessVars, playerVars, tableVars, lockVars, jobVars, callVars, sendVars>>

GoneField(t) ==
  /\ Step(t, "goneField", "goneFree") /\ LeaveField(leaver[t])
  /\ UNCHANGED <<sessVars, playerVars, players, names, lockVars, jobVars, callVars, sendVars>>

(* The player is freed while it is locked.                                   *)
GoneFree(t) ==
  /\ Step(t, "goneFree", "goneUnlock") /\ pool' = pool \cup {leaver[t]}
  /\ UNCHANGED <<sessVars, sid, nick, field, tableVars, lockVars, jobVars, callVars, sendVars>>

GoneUnlock(t) ==
  /\ Step(t, "goneUnlock", ret[t]) /\ Unlock(leaver[t])
  /\ gone' = [gone EXCEPT ![t] = NoId] /\ leaver' = [leaver EXCEPT ![t] = None]
  /\ ret' = [ret EXCEPT ![t] = "idle"]
  /\ UNCHANGED <<sessVars, playerVars, tableVars, nlock, flock, jobVars, callVars, to>>
-----------------------------------------------------------------------------
Handle(w) ==
  \/ HandleOther(w)
  \/ \E n \in Names \cup {None} : HandleQuery(w, n)
  \/ \E f \in Fields : HandleMove(w, f)
  \/ HandleChat(w)
  \/ \E n \in Names : HandleWhisper(w, n)

WorkerStep(w) ==
  \/ LockPlayer(w)
  \/ Handle(w)
  \/ MoveOut(w)
  \/ MoveIn(w)
  \/ \E p \in todo[w] : ChatTo(w, p)
  \/ ChatEnd(w)
  \/ Whisper(w)
  \/ WhisperEnd(w)
  \/ UnlockPlayer(w)

JobStep(d) ==
  \/ TakeJob(d)
  \/ JobLock(d)
  \/ JobName(d)
  \/ JobInsert(d)
  \/ \E from \in {"job", "jobSend"} : JobSend(d, from)
  \/ JobUnlock(d)

OnDisconnect(t) ==
  \/ DeletePlayer(t)
  \/ GoneLock(t)
  \/ GoneName(t)
  \/ GoneField(t)
  \/ GoneFree(t)
  \/ GoneUnlock(t)

Next ==
  \/ \E p \in Players : Accept(p)
  \/ InitPlayer
  \/ \E w \in Workers :
        \/ \E i \in io : OnRecv(w, i) \/ OnLeft(w, i)
        \/ WorkerStep(w)
  \/ \E d \in DbThreads : JobStep(d)
  \/ \E t \in Threads :
        \/ Repost(t)
        \/ \E from \in {"release", "left"} : ClientGone(t, from)
        \/ SendRelease(t)
        \/ OnDisconnect(t)

Spec == Init /\ [][Next]_vars
-----------------------------------------------------------------------------
Labels == {"idle", "init", "release", "left", "lock", "handle", "unlock", "moveOut", "moveIn",
           "chat", "whisper", "whisperEnd", "send", "jobLock", "job", "jobInsert", "jobSend",
           "jobUnlock", "find", "goneLock", "goneName", "goneField", "goneFree", "goneUnlock"}
Working == {"init", "lock", "handle", "unlock", "moveOut", "moveIn", "chat", "whisper",
            "whisperEnd", "jobLock", "job", "jobInsert", "jobSend", "jobUnlock"}
Jobs == [name : Names \cup {None}, player : Players, id : Id]

(* Every variable has its type, and what works on a player has one.           *)
TypeOK ==
  /\ keys \in 0 .. MaxKey /\ calls \in 0 .. MaxCalls /\ open \subseteq Id /\ io \subseteq Id
  /\ sid \in [Players -> Id \cup {NoId}] /\ nick \in [Players -> Names \cup {None}]
  /\ field \in [Players -> Fields \cup {NoField}] /\ pool \subseteq Players
  /\ players \in [Id -> Players \cup {None}] /\ names \in [Names -> Players \cup {None}]
  /\ onField \in [Fields -> SUBSET Players]
  /\ plock \in [Players -> Threads \cup {None}] /\ nlock \in Threads \cup {None}
  /\ flock \in [Fields -> SUBSET Workers] /\ jobs \in Seq(Jobs)
  /\ pc \in [Threads -> Labels] /\ sess \in [Threads -> Id \cup {NoId}]
  /\ me \in [Threads -> Players \cup {None}]
  /\ \A t \in Threads : pc[t] \in Working => me[t] \in Players
  /\ arg \in [Threads -> Names \cup Fields \cup {None}] /\ job \in [DbThreads -> Jobs \cup {None}]
  /\ todo \in [Threads -> SUBSET Players] /\ to \in [Threads -> Id \cup {NoId}]
  /\ ret \in [Threads -> Labels] /\ gone \in [Threads -> Id \cup {NoId}]
  /\ leaver \in [Threads -> Players \cup {None}]

(* OnRecv and OnDisconnect crash when the session has no player (lines 64 and *)
(* 138).  They never do: until it is closed and reported, a session that was  *)
(* accepted has its own player, whatever is recycled meanwhile.              *)
HandlersFindPlayer ==
  \A i \in io \cup {gone[t] : t \in {u \in Threads : pc[u] = "find"}} :
    players[i] \in Players \ pool /\ sid[players[i]] = i

(* Chat to a field reaches its players only: a player in a field's set is in  *)
(* use and has that _fieldId, and one that has it and is not being worked on  *)
(* is in the set.                                                            *)
FieldsMatchPlayers ==
  \A f \in Fields, p \in Players :
    /\ p \in onField[f] => p \notin pool /\ field[p] = f
    /\ sid[p] \in open /\ field[p] = f /\ plock[p] = None => p \in onField[f]

(* A player keeps the session a handler or a job was checked against, as     *)
(* long as that has the player's lock: recycling waits.                      *)
Checked == {"job", "jobInsert", "jobSend"}
LockKeepsSession ==
  \A t \in Threads :
    /\ pc[t] \in Checked => sid[me[t]] = job[t].id
    /\ pc[t] \in {"goneName", "goneField", "goneFree"} => sid[leaver[t]] = gone[t]

(* Whom a thread waits for: the holders of the lock it needs next.            *)
FieldHolders(p) == IF field[p] = NoField THEN {} ELSE flock[field[p]]
Holders(t) ==
  CASE pc[t] \in {"lock", "jobLock", "init"} -> {plock[me[t]]} \ {None}
    [] pc[t] = "goneLock" -> {plock[leaver[t]]} \ {None}
    [] pc[t] \in {"whisper", "jobInsert", "goneName"} -> {nlock} \ {None}
    [] pc[t] = "moveOut" -> FieldHolders(me[t])
    [] pc[t] = "moveIn" -> flock[arg[t]]
    [] pc[t] = "goneField" -> FieldHolders(leaver[t])
    [] OTHER -> {}
Stuck(S) == S # {} /\ \A t \in S : Holders(t) \cap S # {}

(* The locks themselves are taken in an order that cannot deadlock: whenever  *)
(* threads wait for each other, one of them is closing a session on its way   *)
(* out of SendPacket.  That does happen, and one thread is enough: OnDisconnect*)
(* takes the locks the sender holds (LoginServer.cpp 263 warns of it).        *)
StuckByClosingOnly ==
  \A S \in SUBSET Threads : Stuck(S) => \E t \in S : gone[t] # NoId /\ ret[t] # "idle"
=============================================================================

-------------------------- MODULE ChatServerProofs ---------------------------
(***************************************************************************)
(* Theorems about ChatServer for any number of threads, players, names,      *)
(* fields, sessions and packets.  What the inductive invariant says of a     *)
(* thread is said of the place it comes back to when it is in the middle of   *)
(* a SendPacket, or of the OnDisconnect that may follow.                     *)
(***************************************************************************)
EXTENDS ChatServer, SequenceTheorems, TLAPS

Leaving == {"goneLock", "goneName", "goneField", "goneFree"}
Locked  == {"goneName", "goneField", "goneFree", "goneUnlock"}
Closing == {"find", "goneUnlock"} \cup Leaving
Away    == {"send"} \cup Closing
At(t)   == IF pc[t] \in Away THEN ret[t] ELSE pc[t]

InHandler == {"handle", "unlock", "moveOut", "moveIn", "chat", "whisper", "whisperEnd"}
InJob     == {"job", "jobInsert", "jobSend", "jobUnlock"}
Serving   == {"init", "release", "left", "lock"} \cup InHandler
Starting  == pc[Acceptor] = "init"

-----------------------------------------------------------------------------
(* The inductive invariant, in named parts.                                  *)

(* What each kind of thread does, and what it has in hand.                    *)
KindAt(t) ==
  /\ t \in Workers => At(t) \in {"idle", "left", "release", "lock"} \cup InHandler
  /\ t \in DbThreads => At(t) \in {"idle", "jobLock"} \cup InJob
  /\ t = Acceptor => At(t) \in {"idle", "init", "release"}
  /\ pc[t] \in Away => ret[t] \in {"idle", "chat", "whisperEnd", "jobUnlock"}
  /\ At(t) \in {"moveOut", "moveIn"} => arg[t] \in Fields
  /\ At(t) = "whisper" => arg[t] \in Names
  /\ pc[t] \in {"jobLock"} \cup Checked => job[t] \in Jobs
KindInv == \A t \in Threads : KindAt(t)

(* Who references a session, and that a closed one is reported once.          *)
RefAt(t) ==
  /\ sess[t] # NoId <=> At(t) \in Serving
  /\ sess[t] # NoId => sess[t] \in open \ io /\ \A u \in Threads \ {t} : sess[u] # sess[t]
  /\ to[t] # NoId <=> pc[t] = "send"
  /\ to[t] # NoId => to[t] \in open
  /\ gone[t] # NoId <=> pc[t] \in Closing
  /\ gone[t] # NoId => gone[t] \in 1 .. keys \ open /\ \A u \in Threads \ {t} : gone[u] # gone[t]
RefInv == io \subseteq open /\ open \subseteq 1 .. keys /\ \A t \in Threads : RefAt(t)

(* Whose a player object is: a session's, the acceptor's, a leaving thread's.  *)
OwnInv ==
  /\ \A p \in Players : sid[p] <= keys
  /\ \A i \in Id : players[i] # None => players[i] \notin pool /\ sid[players[i]] = i
  /\ \A i \in open : players[i] # None \/ (Starting /\ sess[Acceptor] = i)
StartInv ==
  Starting => /\ sess[Acceptor] = keys /\ me[Acceptor] \in Players \ pool
              /\ \A p \in Players : sid[p] # keys
              /\ \A i \in Id : players[i] # me[Acceptor]
              /\ \A f \in Fields : me[Acceptor] \notin onField[f]
UseAt(t) ==
  /\ At(t) \in {"lock"} \cup InHandler => me[t] \in Players /\ players[sess[t]] = me[t]
  /\ At(t) \in {"jobLock"} \cup InJob => me[t] \in Players
  /\ pc[t] = "find" => players[gone[t]] # None
  /\ pc[t] \in Leaving => /\ leaver[t] \in Players \ pool /\ sid[leaver[t]] = gone[t]
                          /\ \A i \in Id : players[i] # leaver[t]
                          /\ Starting => leaver[t] # me[Acceptor]
  /\ pc[t] = "goneUnlock" => leaver[t] \in Players
UseInv == \A t \in Threads : UseAt(t)

(* Who has a lock, and that whoever has one is where it says.                 *)
HasPlayer(t, p) ==
  \/ At(t) \in InHandler \cup InJob /\ me[t] = p
  \/ pc[t] \in Locked /\ leaver[t] = p
LockAt(t) ==
  /\ \A p \in Players : HasPlayer(t, p) => plock[p] = t
  /\ At(t) \in InHandler \cup InJob /\ pc[t] \in Locked => me[t] # leaver[t]
  /\ pc[t] \in Checked => sid[me[t]] = job[t].id
LockInv ==
  /\ \A p \in Players : plock[p] # None => HasPlayer(plock[p], p)
  /\ nlock # None => At(nlock) = "whisperEnd"
  /\ \A f \in Fields : \A w \in flock[f] : At(w) = "chat" /\ field[me[w]] = f
  /\ \A t \in Threads : LockAt(t)

(* Which players the fields list.                                            *)
Moving(p) == \E w \in Workers : pc[w] = "moveIn" /\ me[w] = p
FieldInv ==
  /\ \A f \in Fields, p \in Players : p \in onField[f] => p \notin pool /\ field[p] = f
  /\ \A p \in Players : sid[p] \in open /\ field[p] # NoField => p \in onField[field[p]] \/ Moving(p)
  /\ \A f \in Fields, t \in Threads :
       /\ pc[t] = "moveIn" => me[t] \notin onField[f]
       /\ pc[t] = "goneFree" => leaver[t] \notin onField[f]

IInv ==
  TypeOK /\ KindInv /\ RefInv /\ OwnInv /\ StartInv /\ UseInv /\ LockInv /\ FieldInv
-----------------------------------------------------------------------------
(* The server starts with the inductive invariant.                            *)
LEMMA InitIInv == Init => IInv
<1> SUFFICES ASSUME Init PROVE IInv
  OBVIOUS
<1> USE ChatAssumption
<1>0. \A t \in Threads : At(t) = "idle" /\ pc[t] = "idle"
  BY DEF Init, At, Away, Closing, Leaving
<1>1. TypeOK
  <2>1. <<>> \in Seq(Jobs)
    BY EmptySeq
  <2> QED BY <2>1 DEF Init, TypeOK, Labels, Working, Id, NoId, NoField
<1>2. KindInv
  BY <1>0 DEF KindInv, KindAt, Away, Closing, Leaving, Checked
<1>3. RefInv
  BY <1>0 DEF Init, RefInv, RefAt, Serving, InHandler, Closing, Leaving
<1>4. OwnInv /\ StartInv
  BY <1>0 DEF Init, OwnInv, StartInv, Starting, Threads, NoId
<1>5. UseInv
  BY <1>0 DEF UseInv, UseAt, InHandler, InJob, Leaving
<1>6. LockInv
  BY <1>0 DEF Init, LockInv, LockAt, HasPlayer, InHandler, InJob, Locked, Checked
<1>7. FieldInv
  BY <1>0 DEF Init, FieldInv
<1> QED BY <1>1, <1>2, <1>3, <1>4, <1>5, <1>6, <1>7 DEF IInv

-----------------------------------------------------------------------------
(* What a step leaves alone keeps the part of the invariant about it.        *)

Rests(u) ==
  /\ pc'[u] = pc[u] /\ sess'[u] = sess[u] /\ me'[u] = me[u] /\ arg'[u] = arg[u]
  /\ to'[u] = to[u] /\ ret'[u] = ret[u] /\ gone'[u] = gone[u] /\ leaver'[u] = leaver[u]
  /\ job'[u] = job[u]

(* A thread that does nothing stays where it is, with the locks it has.       *)
LEMMA RestsAt ==
  ASSUME NEW u, Rests(u)
  PROVE  /\ At(u)' = At(u) /\ \A p : HasPlayer(u, p)' <=> HasPlayer(u, p)
  BY DEF Rests, At, HasPlayer

(* What the threads do, when all but one rest.                                *)
LEMMA KindOthers ==
  ASSUME KindInv, NEW t \in Threads, \A u \in Threads \ {t} : Rests(u), KindAt(t)'
  PROVE  KindInv'
<1>1. ASSUME NEW u \in Threads \ {t} PROVE KindAt(u)'
  BY RestsAt DEF KindInv, KindAt, Rests
<1> QED BY <1>1 DEF KindInv

(* A step that takes, drops and closes no session.                            *)
LEMMA RefKept ==
  ASSUME RefInv, NEW t \in Threads, \A u \in Threads \ {t} : Rests(u),
         UNCHANGED <<keys, open, io, sess, to, gone>>,
         At(t)' \in Serving <=> At(t) \in Serving,
         pc'[t] = "send" <=> pc[t] = "send", pc'[t] \in Closing <=> pc[t] \in Closing
  PROVE  RefInv'
<1>1. ASSUME NEW u \in Threads \ {t} PROVE RefAt(u)'
  BY RestsAt DEF RefInv, RefAt, Rests
<1>2. RefAt(t)'
  BY DEF RefInv, RefAt
<1> QED BY <1>1, <1>2 DEF RefInv

(* A step that gives no player to a session, and takes none away.             *)
LEMMA OwnKept ==
  ASSUME OwnInv, UNCHANGED <<keys, sid, players>>, pool' \subseteq pool, open' \subseteq open,
         Starting => Starting' /\ sess'[Acceptor] = sess[Acceptor]
  PROVE  OwnInv'
  BY DEF OwnInv

(* What the acceptor is preparing, in a step of another thread.               *)
LEMMA StartKept ==
  ASSUME StartInv, UNCHANGED <<keys, sid, players>>, pool' \subseteq pool,
         Starting' => /\ Starting /\ sess'[Acceptor] = sess[Acceptor] /\ me'[Acceptor] = me[Acceptor]
                      /\ \A f \in Fields : me[Acceptor] \notin onField'[f]
  PROVE  StartInv'
  BY DEF StartInv

(* The players in use, when all but one thread rest.                          *)
LEMMA UseOthers ==
  ASSUME UseInv, NEW t \in Threads, \A u \in Threads \ {t} : Rests(u), UseAt(t)',
         UNCHANGED <<sid, players>>, pool' \subseteq pool,
         Starting' => Starting /\ me'[Acceptor] = me[Acceptor]
  PROVE  UseInv'
<1>1. ASSUME NEW u \in Threads \ {t} PROVE UseAt(u)'
  BY RestsAt DEF UseInv, UseAt, Rests
<1> QED BY <1>1 DEF UseInv

(* The players' locks, in a step that neither takes nor leaves one.           *)
LEMMA PlockKept ==
  ASSUME LockInv, NEW t \in Threads, \A u \in Threads \ {t} : Rests(u),
         TypeOK, UNCHANGED <<plock, sid>>,
         me'[t] = me[t] \/ ~(At(t) \in InHandler \cup InJob \/ At(t)' \in InHandler \cup InJob),
         leaver'[t] = leaver[t] \/ ~(pc[t] \in Locked \/ pc'[t] \in Locked),
         At(t)' \in InHandler \cup InJob <=> At(t) \in InHandler \cup InJob,
         pc'[t] \in Locked <=> pc[t] \in Locked,
         pc'[t] \in Checked => pc[t] \in Checked /\ job'[t] = job[t]
  PROVE  /\ \A p \in Players : \A u : u = plock'[p] /\ u # None => HasPlayer(u, p)'
         /\ \A u \in Threads : LockAt(u)'
<1>1. \A u \in Threads \ {t} : At(u)' = At(u) /\ \A p : HasPlayer(u, p)' <=> HasPlayer(u, p)
  BY RestsAt
<1>2. \A p : HasPlayer(t, p)' <=> HasPlayer(t, p)
  BY DEF HasPlayer
<1>3. \A p \in Players : plock[p] # None => plock[p] \in Threads
  BY DEF TypeOK
<1>4. \A u \in Threads \ {t} : LockAt(u)'
  BY <1>1 DEF LockInv, LockAt, Rests
<1>5. LockAt(t)'
  <2>1. \A p \in Players : HasPlayer(t, p)' => plock'[p] = t
    BY <1>2 DEF LockInv, LockAt
  <2>2. At(t)' \in InHandler \cup InJob /\ pc'[t] \in Locked => me'[t] # leaver'[t]
    BY DEF LockInv, LockAt
  <2>3. pc'[t] \in Checked => sid'[me'[t]] = job'[t].id
    <3>1. pc[t] \in Checked => At(t) \in InHandler \cup InJob
      BY DEF Checked, InJob, At, Away, Closing, Leaving
    <3> QED BY <3>1 DEF LockInv, LockAt
  <2> QED BY <2>1, <2>2, <2>3 DEF LockAt
<1>6. \A p \in Players : \A u : u = plock'[p] /\ u # None => HasPlayer(u, p)'
  BY <1>1, <1>2, <1>3 DEF LockInv
<1> QED BY <1>4, <1>5, <1>6

(* All locks, in a step that neither takes nor leaves one.                    *)
LEMMA LockKept ==
  ASSUME LockInv, NEW t \in Threads, \A u \in Threads \ {t} : Rests(u),
         TypeOK, UNCHANGED <<plock, sid, nlock, flock>>,
         me'[t] = me[t] \/ ~(At(t) \in InHandler \cup InJob \/ At(t)' \in InHandler \cup InJob),
         leaver'[t] = leaver[t] \/ ~(pc[t] \in Locked \/ pc'[t] \in Locked),
         At(t)' \in InHandler \cup InJob <=> At(t) \in InHandler \cup InJob,
         pc'[t] \in Locked <=> pc[t] \in Locked,
         pc'[t] \in Checked => pc[t] \in Checked /\ job'[t] = job[t],
         At(t) \in {"whisperEnd", "chat"} => At(t)' = At(t),
         \A f \in Fields : \A u \in flock[f] : field'[me[u]] = field[me[u]]
  PROVE  LockInv'
<1>1. \A u \in Threads \ {t} : At(u)' = At(u)
  BY RestsAt
<1>2. /\ \A p \in Players : \A u : u = plock'[p] /\ u # None => HasPlayer(u, p)'
      /\ \A u \in Threads : LockAt(u)'
  BY PlockKept
<1>3. ASSUME NEW u, u = nlock, u # None PROVE At(u)' = "whisperEnd"
  BY <1>1, <1>3 DEF LockInv, TypeOK
<1>4. ASSUME NEW f \in Fields, NEW w \in flock[f] PROVE At(w)' = "chat" /\ field'[me'[w]] = f
  <2>1. w \in Threads /\ At(w) = "chat" /\ field[me[w]] = f
    BY DEF TypeOK, LockInv, Threads
  <2>2. At(w) \in InHandler
    BY <2>1 DEF InHandler
  <2>3. At(w)' = "chat" /\ me'[w] = me[w]
    BY <1>1, <2>1, <2>2 DEF Rests
  <2> QED BY <2>1, <2>3
<1> QED BY <1>2, <1>3, <1>4 DEF LockInv

(* How the players' locks change hands.                                       *)
LEMMA LockTaken ==
  ASSUME TypeOK, LockInv, NEW t \in Threads, \A u \in Threads \ {t} : Rests(u),
         NEW p \in Players, plock[p] = None, plock' = [plock EXCEPT ![p] = t],
         UNCHANGED <<nlock, flock, field, sid>>,
         \A q \in Players : HasPlayer(t, q)' <=> HasPlayer(t, q) \/ q = p,
         At(t) \in {"whisperEnd", "chat"} => At(t)' = At(t) /\ me'[t] = me[t],
         At(t)' \in InHandler \cup InJob /\ pc'[t] \in Locked => me'[t] # leaver'[t],
         pc'[t] \in Checked => sid[me'[t]] = job'[t].id
  PROVE  LockInv'
<1>1. \A u \in Threads \ {t} : At(u)' = At(u) /\ \A q : HasPlayer(u, q)' <=> HasPlayer(u, q)
  BY RestsAt
<1>2. /\ plock \in [Players -> Threads \cup {None}] /\ plock'[p] = t
      /\ \A q \in Players \ {p} : plock'[q] = plock[q]
      /\ None \notin Threads
  BY ChatAssumption DEF TypeOK, Threads
<1>3. ASSUME NEW u \in Threads \ {t} PROVE LockAt(u)'
  <2>1. /\ \A q \in Players : HasPlayer(u, q) => plock[q] = u /\ q # p
        /\ At(u) \in InHandler \cup InJob /\ pc[u] \in Locked => me[u] # leaver[u]
        /\ pc[u] \in Checked => sid[me[u]] = job[u].id
    BY <1>2 DEF LockInv, LockAt
  <2> QED BY <1>1, <1>2, <2>1 DEF LockAt, Rests
<1>4. LockAt(t)'
  <2>1. \A q \in Players : HasPlayer(t, q)' => plock'[q] = t
    BY <1>2 DEF LockInv, LockAt
  <2> QED BY <2>1 DEF LockAt
<1>5. ASSUME NEW q \in Players, NEW u, u = plock'[q], u # None PROVE HasPlayer(u, q)'
  BY <1>1, <1>2, <1>5 DEF LockInv
<1>6. ASSUME NEW u, u = nlock, u # None PROVE At(u)' = "whisperEnd"
  BY <1>1, <1>6 DEF LockInv, TypeOK
<1>7. ASSUME NEW f \in Fields, NEW u \in flock[f] PROVE At(u)' = "chat" /\ field'[me'[u]] = f
  BY <1>1 DEF LockInv, TypeOK, Threads, Rests
<1> QED BY <1>3, <1>4, <1>5, <1>6, <1>7 DEF LockInv

(* A thread leaves the lock of one player, and has no lock of it any more.    *)
LEMMA LockReleased ==
  ASSUME TypeOK, LockInv, NEW t \in Threads, \A u \in Threads \ {t} : Rests(u),
         NEW p \in Players, plock[p] = t, plock' = [plock EXCEPT ![p] = None],
         UNCHANGED <<nlock, flock, field, sid>>,
         \A q \in Players : HasPlayer(t, q)' <=> HasPlayer(t, q) /\ q # p,
         At(t) \in {"whisperEnd", "chat"} => At(t)' = At(t) /\ me'[t] = me[t],
         pc'[t] \notin Locked \cup Checked
  PROVE  LockInv'
<1>1. \A u \in Threads \ {t} : At(u)' = At(u) /\ \A q : HasPlayer(u, q)' <=> HasPlayer(u, q)
  BY RestsAt
<1>2. /\ plock \in [Players -> Threads \cup {None}] /\ plock'[p] = None
      /\ \A q \in Players \ {p} : plock'[q] = plock[q]
      /\ None \notin Threads
  BY ChatAssumption DEF TypeOK, Threads
<1>3. ASSUME NEW u \in Threads \ {t} PROVE LockAt(u)'
  <2>1. /\ \A q \in Players : HasPlayer(u, q) => plock[q] = u /\ q # p
        /\ At(u) \in InHandler \cup InJob /\ pc[u] \in Locked => me[u] # leaver[u]
        /\ pc[u] \in Checked => sid[me[u]] = job[u].id
    BY <1>2 DEF LockInv, LockAt
  <2> QED BY <1>1, <1>2, <2>1 DEF LockAt, Rests
<1>4. LockAt(t)'
  <2>1. \A q \in Players : HasPlayer(t, q)' => plock'[q] = t
    BY <1>2 DEF LockInv, LockAt
  <2> QED BY <2>1 DEF LockAt
<1>5. ASSUME NEW q \in Players, NEW u, u = plock'[q], u # None PROVE HasPlayer(u, q)'
  BY <1>1, <1>2, <1>5 DEF LockInv
<1>6. ASSUME NEW u, u = nlock, u # None PROVE At(u)' = "whisperEnd"
  BY <1>1, <1>6 DEF LockInv, TypeOK
<1>7. ASSUME NEW f \in Fields, NEW u \in flock[f] PROVE At(u)' = "chat" /\ field'[me'[u]] = f
  BY <1>1 DEF LockInv, TypeOK, Threads, Rests
<1> QED BY <1>3, <1>4, <1>5, <1>6, <1>7 DEF LockInv

(* The fields' lists, in a step of a thread that is not moving a player.      *)
LEMMA FieldKept ==
  ASSUME FieldInv, NEW t \in Threads, \A u \in Threads \ {t} : Rests(u),
         UNCHANGED <<sid, field, onField>>, pool' \subseteq pool, open' \subseteq open,
         pc[t] # "moveIn", pc'[t] # "moveIn", pc'[t] # "goneFree"
  PROVE  FieldInv'
<1>1. \A p : Moving(p) => Moving(p)'
  BY DEF Moving, Rests, Threads
<1>2. \A u \in Threads : pc'[u] \in {"moveIn", "goneFree"} =>
        pc'[u] = pc[u] /\ me'[u] = me[u] /\ leaver'[u] = leaver[u]
  BY DEF Rests
<1> QED BY <1>1, <1>2 DEF FieldInv

(* A step inside a handler, a job or a disconnection keeps the parts that are *)
(* not about locks and fields.                                                *)
LEMMA Quiet ==
  ASSUME IInv, NEW t \in Threads, \A u \in Threads \ {t} : Rests(u),
         UNCHANGED <<keys, open, io, sess, to, gone, sid, players, pool>>,
         At(t)' \in Serving <=> At(t) \in Serving,
         pc'[t] = "send" <=> pc[t] = "send", pc'[t] \in Closing <=> pc[t] \in Closing,
         pc[t] # "init", pc'[t] # "init", KindAt(t)', UseAt(t)',
         Starting => \A f \in Fields : me[Acceptor] \notin onField'[f]
  PROVE  KindInv' /\ RefInv' /\ OwnInv' /\ StartInv' /\ UseInv'
<1> USE DEF IInv
<1>1. Starting' => Starting /\ me'[Acceptor] = me[Acceptor]
  BY DEF Starting, Rests, Threads
<1>2. Starting => Starting'
  BY DEF Starting, Rests, Threads
<1>3. KindInv'
  BY KindOthers
<1>4. RefInv'
  BY RefKept
<1>5. OwnInv'
  BY <1>2, OwnKept
<1>6. StartInv'
  BY <1>1, StartKept
<1>7. UseInv'
  BY <1>1, UseOthers
<1> QED BY <1>3, <1>4, <1>5, <1>6, <1>7

-----------------------------------------------------------------------------
(* Steps of a handler, and of a job.                                         *)

(* What Step does to pc.                                                      *)
LEMMA Stepped ==
  ASSUME TypeOK, NEW t \in Threads, NEW from, NEW next \in Labels, Step(t, from, next)
  PROVE  /\ pc[t] = from /\ pc'[t] = next /\ pc' \in [Threads -> Labels]
         /\ \A u \in Threads \ {t} : pc'[u] = pc[u]
  BY DEF Step, TypeOK

(* The player of a session that is being served is in use, and that           *)
(* session's.                                                                 *)
LEMMA InUse ==
  ASSUME IInv, NEW w \in Threads, At(w) \in {"lock"} \cup InHandler
  PROVE  /\ me[w] \in Players \ pool /\ sid[me[w]] = sess[w] /\ sess[w] \in open
         /\ Starting => me[w] # me[Acceptor]
<1>1. /\ me[w] \in Players /\ players[sess[w]] = me[w]
      /\ sess[w] # NoId /\ sess[w] \in open /\ sess[w] \in Id
  BY DEF IInv, UseInv, UseAt, RefInv, RefAt, Serving, TypeOK
<1>2. me[w] # None
  BY <1>1, ChatAssumption
<1> QED BY <1>1, <1>2 DEF IInv, OwnInv, StartInv

(* OnRecv locks the player (line 64 on).                                      *)
LEMMA StepLockPlayer ==
  ASSUME IInv, NEW w \in Workers, LockPlayer(w)
  PROVE  IInv'
<1> USE ChatAssumption DEF IInv
<1>0. w \in Threads /\ w # Acceptor /\ w \notin DbThreads
  BY DEF Threads
<1>1. PICK next \in {"handle", "unlock"} : pc[w] = "lock" /\ Lock(w, me[w]) /\ Step(w, "lock", next)
  BY DEF LockPlayer
<1>2. /\ pc'[w] = next /\ pc' \in [Threads -> Labels] /\ \A u \in Threads \ {w} : pc'[u] = pc[u]
      /\ UNCHANGED <<sessVars, playerVars, tableVars, nlock, flock, jobVars, callVars, sendVars>>
  BY <1>0, <1>1, Stepped DEF LockPlayer, Labels
<1>3. At(w) = "lock" /\ At(w)' = next /\ \A u \in Threads \ {w} : Rests(u)
  BY <1>1, <1>2 DEF At, Away, Closing, Leaving, Rests, callVars, sendVars, jobVars
<1>4. me[w] \in Players /\ plock[me[w]] = None /\ plock' = [plock EXCEPT ![me[w]] = w]
  BY <1>0, <1>1, <1>3 DEF Lock, UseInv, UseAt
<1>5. TypeOK'
  BY <1>0, <1>2, <1>4, <1>1
     DEF TypeOK, sessVars, playerVars, tableVars, jobVars, callVars, sendVars, Working
<1>6. KindInv' /\ RefInv' /\ OwnInv' /\ StartInv' /\ UseInv'
  <2>1. KindAt(w)'
    BY <1>0, <1>2, <1>3 DEF KindAt, InHandler, Away, Closing, Leaving, Checked
  <2>2. UseAt(w)'
    BY <1>0, <1>2, <1>3 DEF UseInv, UseAt, InHandler, InJob, Leaving, callVars, tableVars
  <2>3. Starting => \A f \in Fields : me[Acceptor] \notin onField'[f]
    BY <1>2 DEF StartInv, tableVars
  <2>4. UNCHANGED <<keys, open, io, sess, to, gone, sid, players, pool>>
    BY <1>2 DEF sessVars, callVars, sendVars, playerVars, tableVars
  <2> QED BY <1>0, <1>1, <1>2, <1>3, <2>1, <2>2, <2>3, <2>4, Quiet
          DEF Serving, InHandler, Closing, Leaving
<1>7. LockInv'
  <2>1. /\ \A p : HasPlayer(w, p)' <=> p = me[w]
        /\ \A p : ~HasPlayer(w, p)
    BY <1>1, <1>2, <1>3 DEF HasPlayer, InHandler, InJob, Locked, callVars
  <2>2. UNCHANGED <<nlock, flock, field, sid>>
    BY <1>2 DEF playerVars
  <2> QED BY <1>0, <1>1, <1>2, <1>3, <1>4, <2>1, <2>2, LockTaken DEF Locked, Checked
<1>8. FieldInv'
  BY <1>0, <1>1, <1>2, <1>3, FieldKept DEF playerVars, tableVars, sessVars
<1> QED BY <1>5, <1>6, <1>7, <1>8

(* A step of a handler or a job that touches no lock, field list or session.  *)
LEMMA StepInside ==
  ASSUME IInv, NEW t \in Threads, NEW from, NEW next, Step(t, from, next), TypeOK', KindAt(t)',
         \/ from \in InHandler /\ next \in InHandler
         \/ from \in InJob /\ next \in InJob,
         from \notin {"moveIn", "whisperEnd", "chat"}, next # "moveIn",
         next \in Checked => from \in Checked,
         UNCHANGED <<keys, open, io, sid, field, pool, players, onField, lockVars, job, sess, me, sendVars>>,
         \A u \in Threads \ {t} : arg'[u] = arg[u]
  PROVE  IInv'
<1> USE ChatAssumption DEF IInv
<1>1. /\ pc[t] = from /\ pc'[t] = next /\ pc' \in [Threads -> Labels]
      /\ \A u \in Threads \ {t} : pc'[u] = pc[u]
  BY Stepped DEF Labels, InHandler, InJob
<1>2. At(t) = from /\ At(t)' = next /\ \A u \in Threads \ {t} : Rests(u)
  BY <1>1 DEF At, Away, Closing, Leaving, Rests, sendVars, InHandler, InJob
<1>3. pc[t] \notin Away \cup {"init"} /\ pc'[t] \notin Away \cup {"init"}
  BY <1>1 DEF Away, Closing, Leaving, InHandler, InJob
<1>4. KindInv' /\ RefInv' /\ OwnInv' /\ StartInv' /\ UseInv'
  <2>1. UseAt(t)'
    BY <1>1, <1>2, <1>3 DEF UseInv, UseAt, InHandler, InJob, Leaving, Away, Closing, Checked
  <2>2. Starting => \A f \in Fields : me[Acceptor] \notin onField'[f]
    BY DEF StartInv
  <2>3. next \in Serving <=> from \in Serving
    BY DEF Serving, InHandler, InJob
  <2>4. UNCHANGED <<to, gone>>
    BY DEF sendVars
  <2> QED BY <1>1, <1>2, <1>3, <2>1, <2>2, <2>3, <2>4, Quiet DEF Away
<1>5. LockInv'
  <2>1. UNCHANGED <<plock, nlock, flock, leaver>>
    BY DEF lockVars, sendVars
  <2>2. from \in InHandler \cup InJob /\ next \in InHandler \cup InJob
    OBVIOUS
  <2>3. pc[t] \notin Locked /\ pc'[t] \notin Locked
    BY <1>3 DEF Locked, Away, Closing, Leaving
  <2> QED BY <1>1, <1>2, <2>1, <2>2, <2>3, LockKept
<1>6. FieldInv'
  <2>1. pc'[t] # "goneFree"
    BY <1>3 DEF Away, Closing, Leaving
  <2> QED BY <1>1, <1>2, <2>1, FieldKept
<1> QED BY <1>4, <1>5, <1>6

(* An answer at most.                                                         *)
LEMMA StepHandleOther ==
  ASSUME IInv, NEW w \in Workers, HandleOther(w)
  PROVE  IInv'
<1>0. w \in Threads /\ w # Acceptor /\ w \notin DbThreads
  BY ChatAssumption DEF Threads
<1>1. /\ Step(w, "handle", "unlock")
      /\ UNCHANGED <<sessVars, playerVars, tableVars, lockVars, jobVars, callVars, sendVars>>
  BY DEF HandleOther
<1>2. /\ pc[w] = "handle" /\ pc'[w] = "unlock" /\ pc' \in [Threads -> Labels]
      /\ \A u \in Threads \ {w} : pc'[u] = pc[u]
  BY <1>0, <1>1, Stepped DEF IInv, Labels
<1>3. me[w] \in Players
  BY <1>0, <1>2 DEF IInv, TypeOK, Working
<1>4. TypeOK'
  BY <1>1, <1>2, <1>3 DEF IInv, TypeOK, sessVars, playerVars, tableVars, lockVars, jobVars, callVars, sendVars
<1>5. KindAt(w)'
  BY <1>0, <1>2 DEF KindAt, At, InHandler, Away, Closing, Leaving, Checked
<1> QED BY <1>0, <1>1, <1>4, <1>5, StepInside
        DEF InHandler, Checked, sessVars, playerVars, tableVars, jobVars, callVars

(* A job is queued, with the player and the session it is for.                *)
LEMMA StepHandleQuery ==
  ASSUME IInv, NEW w \in Workers, NEW n \in Names \cup {None}, HandleQuery(w, n)
  PROVE  IInv'
<1>0. w \in Threads /\ w # Acceptor /\ w \notin DbThreads
  BY ChatAssumption DEF Threads
<1>1. /\ Step(w, "handle", "unlock")
      /\ jobs' = Append(jobs, [name |-> n, player |-> me[w], id |-> sess[w]])
      /\ UNCHANGED <<sessVars, playerVars, tableVars, lockVars, job, callVars, sendVars>>
  BY DEF HandleQuery
<1>2. /\ pc[w] = "handle" /\ pc'[w] = "unlock" /\ pc' \in [Threads -> Labels]
      /\ \A u \in Threads \ {w} : pc'[u] = pc[u]
  BY <1>0, <1>1, Stepped DEF IInv, Labels
<1>3. me[w] \in Players /\ sess[w] \in Id
  BY <1>0, <1>2 DEF IInv, TypeOK, Working, RefInv, RefAt, At, Away, Closing, Leaving, Serving, InHandler
<1>4. jobs' \in Seq(Jobs)
  <2>1. [name |-> n, player |-> me[w], id |-> sess[w]] \in Jobs
    BY <1>3 DEF Jobs
  <2>2. jobs \in Seq(Jobs)
    BY DEF IInv, TypeOK
  <2> QED BY <1>1, <2>1, <2>2, AppendProperties
<1>5. TypeOK'
  BY <1>1, <1>2, <1>3, <1>4
     DEF IInv, TypeOK, sessVars, playerVars, tableVars, lockVars, callVars, sendVars
<1>6. KindAt(w)'
  BY <1>0, <1>2 DEF KindAt, At, InHandler, Away, Closing, Leaving, Checked
<1> QED BY <1>0, <1>1, <1>5, <1>6, StepInside
        DEF InHandler, Checked, sessVars, playerVars, tableVars, callVars

(* C_CHAT_MOVE_FIELD begins.                                                  *)
LEMMA StepHandleMove ==
  ASSUME IInv, NEW w \in Workers, NEW f \in Fields, HandleMove(w, f)
  PROVE  IInv'
<1>0. w \in Threads /\ w # Acceptor /\ w \notin DbThreads
  BY ChatAssumption DEF Threads
<1>1. PICK next \in {"unlock", "moveOut"} : Step(w, "handle", next)
  BY DEF HandleMove
<1>2. /\ arg' = [arg EXCEPT ![w] = f]
      /\ UNCHANGED <<sessVars, playerVars, tableVars, lockVars, jobVars, sess, me, todo, sendVars>>
  BY DEF HandleMove
<1>3. /\ pc[w] = "handle" /\ pc'[w] = next /\ pc' \in [Threads -> Labels]
      /\ \A u \in Threads \ {w} : pc'[u] = pc[u]
  BY <1>0, <1>1, Stepped DEF IInv, Labels
<1>4. /\ me[w] \in Players /\ arg' \in [Threads -> Names \cup Fields \cup {None}] /\ arg'[w] = f
      /\ \A u \in Threads \ {w} : arg'[u] = arg[u]
  BY <1>0, <1>2, <1>3 DEF IInv, TypeOK, Working
<1>5. TypeOK'
  BY <1>2, <1>3, <1>4 DEF IInv, TypeOK, sessVars, playerVars, tableVars, lockVars, jobVars, sendVars
<1>6. KindAt(w)'
  BY <1>0, <1>3, <1>4 DEF KindAt, At, InHandler, Away, Closing, Leaving, Checked
<1> QED BY <1>0, <1>1, <1>2, <1>4, <1>5, <1>6, StepInside
        DEF InHandler, Checked, sessVars, playerVars, tableVars, jobVars

(* C_WHISPER begins.                                                          *)
LEMMA StepHandleWhisper ==
  ASSUME IInv, NEW w \in Workers, NEW n \in Names, HandleWhisper(w, n)
  PROVE  IInv'
<1>0. w \in Threads /\ w # Acceptor /\ w \notin DbThreads
  BY ChatAssumption DEF Threads
<1>1. /\ Step(w, "handle", "whisper") /\ arg' = [arg EXCEPT ![w] = n]
      /\ UNCHANGED <<sessVars, playerVars, tableVars, lockVars, jobVars, sess, me, todo, sendVars>>
  BY DEF HandleWhisper
<1>2. /\ pc[w] = "handle" /\ pc'[w] = "whisper" /\ pc' \in [Threads -> Labels]
      /\ \A u \in Threads \ {w} : pc'[u] = pc[u]
  BY <1>0, <1>1, Stepped DEF IInv, Labels
<1>3. /\ me[w] \in Players /\ arg' \in [Threads -> Names \cup Fields \cup {None}] /\ arg'[w] = n
      /\ \A u \in Threads \ {w} : arg'[u] = arg[u]
  BY <1>0, <1>1, <1>2 DEF IInv, TypeOK, Working
<1>4. TypeOK'
  BY <1>1, <1>2, <1>3 DEF IInv, TypeOK, sessVars, playerVars, tableVars, lockVars, jobVars, sendVars
<1>5. KindAt(w)'
  BY <1>0, <1>2, <1>3 DEF KindAt, At, InHandler, Away, Closing, Leaving, Checked
<1> QED BY <1>0, <1>1, <1>3, <1>4, <1>5, StepInside
        DEF InHandler, Checked, sessVars, playerVars, tableVars, jobVars

(* The query names the player.                                                *)
LEMMA StepJobName ==
  ASSUME IInv, NEW d \in DbThreads, JobName(d)
  PROVE  IInv'
<1>0. d \in Threads /\ d # Acceptor /\ d \notin Workers
  BY ChatAssumption DEF Threads
<1>1. /\ Step(d, "job", "jobInsert") /\ job[d].name # None
      /\ nick' = [nick EXCEPT ![me[d]] = job[d].name]
      /\ UNCHANGED <<sessVars, sid, field, pool, tableVars, lockVars, jobVars, callVars, sendVars>>
  BY DEF JobName
<1>2. /\ pc[d] = "job" /\ pc'[d] = "jobInsert" /\ pc' \in [Threads -> Labels]
      /\ \A u \in Threads \ {d} : pc'[u] = pc[u]
  BY <1>0, <1>1, Stepped DEF IInv, Labels
<1>3. me[d] \in Players /\ job[d] \in Jobs
  BY <1>0, <1>2 DEF IInv, TypeOK, Working, KindInv, KindAt, Checked
<1>4. nick' \in [Players -> Names \cup {None}]
  <2>1. job[d].name \in Names \cup {None}
    BY <1>3 DEF Jobs
  <2> QED BY <1>1, <1>3, <2>1 DEF IInv, TypeOK
<1>5. TypeOK'
  BY <1>1, <1>2, <1>3, <1>4
     DEF IInv, TypeOK, sessVars, tableVars, lockVars, jobVars, callVars, sendVars
<1>6. KindAt(d)'
  BY <1>0, <1>1, <1>2, <1>3 DEF KindAt, At, InJob, Away, Closing, Leaving, Checked, jobVars
<1> QED BY <1>0, <1>1, <1>5, <1>6, StepInside
        DEF InJob, Checked, sessVars, tableVars, jobVars, callVars

(* The name is entered, if it is free.                                        *)
LEMMA StepJobInsert ==
  ASSUME IInv, NEW d \in DbThreads, JobInsert(d)
  PROVE  IInv'
<1>0. d \in Threads /\ d # Acceptor /\ d \notin Workers
  BY ChatAssumption DEF Threads
<1>1. /\ Step(d, "jobInsert", "jobSend")
      /\ names' = [names EXCEPT ![nick[me[d]]] = IF @ = None THEN me[d] ELSE @]
      /\ UNCHANGED <<sessVars, playerVars, players, onField, lockVars, jobVars, callVars, sendVars>>
  BY DEF JobInsert
<1>2. /\ pc[d] = "jobInsert" /\ pc'[d] = "jobSend" /\ pc' \in [Threads -> Labels]
      /\ \A u \in Threads \ {d} : pc'[u] = pc[u]
  BY <1>0, <1>1, Stepped DEF IInv, Labels
<1>3. me[d] \in Players /\ job[d] \in Jobs
  BY <1>0, <1>2 DEF IInv, TypeOK, Working, KindInv, KindAt, Checked
<1>4. names' \in [Names -> Players \cup {None}]
  <2>1. names \in [Names -> Players \cup {None}]
    BY DEF IInv, TypeOK
  <2> QED BY <1>1, <1>3, <2>1
<1>5. TypeOK'
  BY <1>1, <1>2, <1>3, <1>4
     DEF IInv, TypeOK, sessVars, playerVars, lockVars, jobVars, callVars, sendVars
<1>6. KindAt(d)'
  BY <1>0, <1>1, <1>2, <1>3 DEF KindAt, At, InJob, Away, Closing, Leaving, Checked, jobVars
<1> QED BY <1>0, <1>1, <1>5, <1>6, StepInside
        DEF InJob, Checked, sessVars, playerVars, jobVars, callVars

(* LeaveField takes a player out of every list, for it is in one at most.     *)
LEMMA FieldLeft ==
  ASSUME TypeOK, FieldInv, NEW p \in Players, LeaveField(p)
  PROVE  /\ onField' \in [Fields -> SUBSET Players]
         /\ \A f \in Fields : onField'[f] = onField[f] \ {p}
<1>1. /\ onField \in [Fields -> SUBSET Players] /\ field[p] \in Fields \cup {NoField}
      /\ \A f \in Fields : p \in onField[f] => field[p] = f
      /\ NoField \notin Fields
  BY ChatAssumption DEF TypeOK, FieldInv, NoField
<1>2. CASE field[p] = NoField
  BY <1>1, <1>2 DEF LeaveField
<1>3. CASE field[p] # NoField
  BY <1>1, <1>3 DEF LeaveField
<1> QED BY <1>2, <1>3

(* Out of the old field: the player is in no list until it moves in.          *)
LEMMA StepMoveOut ==
  ASSUME IInv, NEW w \in Workers, MoveOut(w)
  PROVE  IInv'
<1> USE DEF IInv
<1>0. w \in Threads /\ w # Acceptor /\ w \notin DbThreads
  BY ChatAssumption DEF Threads
<1>1. /\ Step(w, "moveOut", "moveIn") /\ LeaveField(me[w])
      /\ UNCHANGED <<sessVars, playerVars, players, names, lockVars, jobVars, callVars, sendVars>>
  BY DEF MoveOut
<1>2. /\ pc[w] = "moveOut" /\ pc'[w] = "moveIn" /\ pc' \in [Threads -> Labels]
      /\ \A u \in Threads \ {w} : pc'[u] = pc[u]
  BY <1>0, <1>1, Stepped DEF Labels
<1>3. At(w) = "moveOut" /\ At(w)' = "moveIn" /\ \A u \in Threads \ {w} : Rests(u)
  BY <1>1, <1>2 DEF At, Away, Closing, Leaving, Rests, callVars, sendVars, jobVars
<1>4. me[w] \in Players
  BY <1>0, <1>2 DEF TypeOK, Working
<1>5. /\ onField' \in [Fields -> SUBSET Players]
      /\ \A f \in Fields : onField'[f] = onField[f] \ {me[w]}
  BY <1>1, <1>4, FieldLeft
<1>6. TypeOK'
  BY <1>1, <1>2, <1>4, <1>5 DEF TypeOK, sessVars, playerVars, lockVars, jobVars, callVars, sendVars
<1>7. KindInv' /\ RefInv' /\ OwnInv' /\ StartInv' /\ UseInv'
  <2>1. KindAt(w)'
    BY <1>0, <1>1, <1>2, <1>3 DEF KindInv, KindAt, InHandler, Away, Closing, Leaving, Checked, callVars
  <2>2. UseAt(w)'
    BY <1>0, <1>1, <1>2, <1>3 DEF UseInv, UseAt, InHandler, InJob, Leaving, callVars
  <2>3. Starting => \A f \in Fields : me[Acceptor] \notin onField'[f]
    BY <1>5 DEF StartInv
  <2>4. UNCHANGED <<keys, open, io, sess, to, gone, sid, players, pool>>
    BY <1>1 DEF sessVars, callVars, sendVars, playerVars
  <2> QED BY <1>0, <1>2, <1>3, <2>1, <2>2, <2>3, <2>4, Quiet DEF Serving, InHandler, Closing, Leaving
<1>8. LockInv'
  <2>1. UNCHANGED <<plock, nlock, flock, field, sid, me, leaver>>
    BY <1>1 DEF lockVars, playerVars, callVars, sendVars
  <2> QED BY <1>0, <1>2, <1>3, <2>1, LockKept DEF InHandler, Locked, Checked
<1>9. FieldInv'
  <2>0. UNCHANGED <<pool, field, sid, open, me, leaver>>
    BY <1>1 DEF playerVars, sessVars, callVars, sendVars
  <2>1. Moving(me[w])' /\ \A q : Moving(q) => Moving(q)'
    BY <1>2, <2>0, <1>0 DEF Moving, Threads
  <2>2. \A f \in Fields, p \in Players : p \in onField'[f] => p \notin pool' /\ field'[p] = f
    BY <1>5, <2>0 DEF FieldInv
  <2>3. ASSUME NEW p \in Players, sid[p] \in open, field[p] # NoField
        PROVE  p \in onField'[field[p]] \/ Moving(p)'
    <3>1. field[p] \in Fields
      BY <2>3 DEF TypeOK
    <3>2. p \in onField[field[p]] \/ Moving(p)
      BY <2>3 DEF FieldInv
    <3> QED BY <1>5, <2>0, <2>1, <3>1, <3>2
  <2>4. \A f \in Fields, t \in Threads :
          /\ pc'[t] = "moveIn" => me'[t] \notin onField'[f]
          /\ pc'[t] = "goneFree" => leaver'[t] \notin onField'[f]
    BY <1>2, <1>5, <2>0 DEF FieldInv
  <2> QED BY <2>0, <2>2, <2>3, <2>4 DEF FieldInv
<1> QED BY <1>6, <1>7, <1>8, <1>9

(* Into the new field: nobody else works on the player, and no reader of a    *)
(* field depends on its _fieldId.                                             *)
LEMMA StepMoveIn ==
  ASSUME IInv, NEW w \in Workers, MoveIn(w)
  PROVE  IInv'
<1> USE DEF IInv
<1>0. w \in Threads /\ w # Acceptor /\ w \notin DbThreads
  BY ChatAssumption DEF Threads
<1>1. PICK f, p : f = arg[w] /\ p = me[w]
  OBVIOUS
<1>2. /\ Step(w, "moveIn", "unlock")
      /\ onField' = [onField EXCEPT ![f] = @ \cup {p}] /\ field' = [field EXCEPT ![p] = f]
      /\ UNCHANGED <<sessVars, sid, nick, pool, players, names, lockVars, jobVars, callVars, sendVars>>
  BY <1>1 DEF MoveIn
<1>3. /\ pc[w] = "moveIn" /\ pc'[w] = "unlock" /\ pc' \in [Threads -> Labels]
      /\ \A u \in Threads \ {w} : pc'[u] = pc[u]
  BY <1>0, <1>2, Stepped DEF Labels
<1>4. At(w) = "moveIn" /\ At(w)' = "unlock" /\ \A u \in Threads \ {w} : Rests(u)
  BY <1>2, <1>3 DEF At, Away, Closing, Leaving, Rests, callVars, sendVars, jobVars
<1>5. f \in Fields /\ p \in Players \ pool /\ (Starting => p # me[Acceptor])
      /\ \A g \in Fields : p \notin onField[g]
  BY <1>0, <1>1, <1>3, <1>4, InUse DEF KindInv, KindAt, InHandler, FieldInv
<1>6. /\ onField' \in [Fields -> SUBSET Players] /\ field' \in [Players -> Fields \cup {NoField}]
      /\ onField'[f] = onField[f] \cup {p} /\ \A g \in Fields \ {f} : onField'[g] = onField[g]
      /\ field'[p] = f /\ \A q \in Players \ {p} : field'[q] = field[q]
  BY <1>2, <1>5 DEF TypeOK
<1>7. HasPlayer(w, p) /\ \A u \in Threads \ {w} : ~HasPlayer(u, p)
  <2>1. HasPlayer(w, p)
    BY <1>1, <1>4 DEF HasPlayer, InHandler
  <2> QED BY <1>0, <1>5, <2>1 DEF LockInv, LockAt
<1>8. TypeOK'
  BY <1>1, <1>2, <1>3, <1>5, <1>6 DEF TypeOK, sessVars, lockVars, jobVars, callVars, sendVars
<1>9. KindInv' /\ RefInv' /\ OwnInv' /\ StartInv' /\ UseInv'
  <2>1. KindAt(w)'
    BY <1>0, <1>3, <1>4 DEF KindAt, InHandler, Away, Closing, Leaving, Checked
  <2>2. UseAt(w)'
    BY <1>0, <1>2, <1>3, <1>4 DEF UseInv, UseAt, InHandler, InJob, Leaving, callVars
  <2>3. Starting => \A g \in Fields : me[Acceptor] \notin onField'[g]
    BY <1>5, <1>6 DEF StartInv
  <2>4. UNCHANGED <<keys, open, io, sess, to, gone, sid, players, pool>>
    BY <1>2 DEF sessVars, callVars, sendVars
  <2> QED BY <1>0, <1>3, <1>4, <2>1, <2>2, <2>3, <2>4, Quiet DEF Serving, InHandler, Closing, Leaving
<1>10. LockInv'
  <2>1. UNCHANGED <<plock, nlock, flock, sid, me, leaver>>
    BY <1>2 DEF lockVars, callVars, sendVars
  <2>2. ASSUME NEW g \in Fields, NEW u \in flock[g] PROVE field'[me[u]] = field[me[u]]
    <3>1. u \in Threads /\ At(u) = "chat"
      BY DEF LockInv, TypeOK, Threads
    <3>2. u # w /\ HasPlayer(u, me[u]) /\ me[u] \in Players
      BY <1>4, <3>1 DEF HasPlayer, InHandler, UseInv, UseAt
    <3> QED BY <1>6, <1>7, <3>1, <3>2
  <2> QED BY <1>0, <1>3, <1>4, <2>1, <2>2, LockKept DEF InHandler, Locked, Checked
<1>11. FieldInv'
  <2>0. UNCHANGED <<pool, sid, open, me, leaver>>
    BY <1>2 DEF sessVars, callVars, sendVars
  <2>1. \A q : Moving(q) => Moving(q)' \/ q = p
    BY <1>1, <1>3, <2>0 DEF Moving, Threads
  <2>2. \A g \in Fields, q \in Players : q \in onField'[g] => q \notin pool' /\ field'[q] = g
    BY <1>5, <1>6, <2>0 DEF FieldInv
  <2>3. ASSUME NEW q \in Players, sid[q] \in open, field'[q] # NoField
        PROVE  q \in onField'[field'[q]] \/ Moving(q)'
    <3>1. CASE q = p
      BY <1>5, <1>6, <3>1
    <3>2. CASE q # p
      BY <1>6, <2>1, <2>3, <3>2 DEF FieldInv, TypeOK
    <3> QED BY <3>1, <3>2
  <2>4. ASSUME NEW g \in Fields, NEW t \in Threads
        PROVE  /\ pc'[t] = "moveIn" => me[t] \notin onField'[g]
               /\ pc'[t] = "goneFree" => leaver[t] \notin onField'[g]
    <3>1. pc'[t] \in {"moveIn", "goneFree"} => t # w /\ pc[t] = pc'[t]
      BY <1>3
    <3>2. pc[t] = "moveIn" => HasPlayer(t, me[t])
      BY DEF HasPlayer, At, InHandler, Away, Closing, Leaving
    <3>3. pc[t] = "goneFree" => HasPlayer(t, leaver[t])
      BY DEF HasPlayer, Locked
    <3> QED BY <1>6, <1>7, <3>1, <3>2, <3>3 DEF FieldInv
  <2> QED BY <2>0, <2>2, <2>3, <2>4 DEF FieldInv
<1> QED BY <1>8, <1>9, <1>10, <1>11

(* C_CHAT takes the field's read lock.                                        *)
LEMMA StepHandleChat ==
  ASSUME IInv, NEW w \in Workers, HandleChat(w)
  PROVE  IInv'
<1> USE DEF IInv
<1>0. w \in Threads /\ w # Acceptor /\ w \notin DbThreads
  BY ChatAssumption DEF Threads
<1>1. PICK f : f = field[me[w]]
  OBVIOUS
<1>2. /\ Step(w, "handle", "chat") /\ f # NoField
      /\ flock' = [flock EXCEPT ![f] = @ \cup {w}]
      /\ todo' = [todo EXCEPT ![w] = onField[f] \ {me[w]}]
      /\ UNCHANGED <<sessVars, playerVars, tableVars, plock, nlock, jobVars, sess, me, arg, sendVars>>
  BY <1>1 DEF HandleChat
<1>3. /\ pc[w] = "handle" /\ pc'[w] = "chat" /\ pc' \in [Threads -> Labels]
      /\ \A u \in Threads \ {w} : pc'[u] = pc[u]
  BY <1>0, <1>2, Stepped DEF Labels
<1>4. At(w) = "handle" /\ At(w)' = "chat" /\ \A u \in Threads \ {w} : Rests(u)
  BY <1>2, <1>3 DEF At, Away, Closing, Leaving, Rests, sendVars, jobVars
<1>5. me[w] \in Players /\ f \in Fields
  BY <1>0, <1>1, <1>2, <1>3 DEF TypeOK, Working
<1>6. /\ flock' \in [Fields -> SUBSET Workers] /\ todo' \in [Threads -> SUBSET Players]
      /\ flock'[f] = flock[f] \cup {w} /\ \A g \in Fields \ {f} : flock'[g] = flock[g]
  BY <1>0, <1>2, <1>5 DEF TypeOK
<1>7. TypeOK'
  BY <1>2, <1>3, <1>5, <1>6 DEF TypeOK, sessVars, playerVars, tableVars, jobVars, sendVars
<1>8. KindInv' /\ RefInv' /\ OwnInv' /\ StartInv' /\ UseInv'
  <2>1. KindAt(w)'
    BY <1>0, <1>3, <1>4 DEF KindAt, InHandler, Away, Closing, Leaving, Checked
  <2>2. UseAt(w)'
    BY <1>0, <1>2, <1>3, <1>4 DEF UseInv, UseAt, InHandler, InJob, Leaving, tableVars
  <2>3. Starting => \A g \in Fields : me[Acceptor] \notin onField'[g]
    BY <1>2 DEF StartInv, tableVars
  <2>4. UNCHANGED <<keys, open, io, sess, to, gone, sid, players, pool>>
    BY <1>2 DEF sessVars, playerVars, tableVars, sendVars
  <2> QED BY <1>0, <1>3, <1>4, <2>1, <2>2, <2>3, <2>4, Quiet DEF Serving, InHandler, Closing, Leaving
<1>9. LockInv'
  <2>0. UNCHANGED <<plock, nlock, field, sid, me, leaver>>
    BY <1>2 DEF playerVars, sendVars
  <2>1. /\ \A p \in Players : \A u : u = plock'[p] /\ u # None => HasPlayer(u, p)'
        /\ \A u \in Threads : LockAt(u)'
    BY <1>0, <1>3, <1>4, <2>0, PlockKept DEF InHandler, Locked, Checked
  <2>2. \A u \in Threads \ {w} : At(u)' = At(u)
    BY <1>4, RestsAt
  <2>3. ASSUME NEW u, u = nlock, u # None PROVE At(u)' = "whisperEnd"
    BY <1>4, <2>2, <2>3 DEF LockInv, TypeOK
  <2>4. ASSUME NEW g \in Fields, NEW u \in flock'[g] PROVE At(u)' = "chat" /\ field[me[u]] = g
    <3>1. CASE u = w /\ g = f
      BY <1>1, <1>4, <3>1
    <3>2. CASE ~(u = w /\ g = f)
      <4>1. u \in flock[g] /\ u \in Threads
        BY <1>6, <2>4, <3>2 DEF TypeOK, Threads
      <4> QED BY <1>4, <2>2, <4>1 DEF LockInv
    <3> QED BY <3>1, <3>2
  <2> QED BY <2>0, <2>1, <2>3, <2>4 DEF LockInv
<1>10. FieldInv'
  BY <1>0, <1>2, <1>3, <1>4, FieldKept DEF playerVars, tableVars, sessVars
<1> QED BY <1>7, <1>8, <1>9, <1>10

(* ... and leaves it: the player's field is still the one that was locked.    *)
LEMMA StepChatEnd ==
  ASSUME IInv, NEW w \in Workers, ChatEnd(w)
  PROVE  IInv'
<1> USE DEF IInv
<1>0. w \in Threads /\ w # Acceptor /\ w \notin DbThreads
  BY ChatAssumption DEF Threads
<1>1. PICK f : f = field[me[w]]
  OBVIOUS
<1>2. /\ Step(w, "chat", "unlock") /\ flock' = [flock EXCEPT ![f] = @ \ {w}]
      /\ UNCHANGED <<sessVars, playerVars, tableVars, plock, nlock, jobVars, callVars, sendVars>>
  BY <1>1 DEF ChatEnd
<1>3. /\ pc[w] = "chat" /\ pc'[w] = "unlock" /\ pc' \in [Threads -> Labels]
      /\ \A u \in Threads \ {w} : pc'[u] = pc[u]
  BY <1>0, <1>2, Stepped DEF Labels
<1>4. At(w) = "chat" /\ At(w)' = "unlock" /\ \A u \in Threads \ {w} : Rests(u)
  BY <1>2, <1>3 DEF At, Away, Closing, Leaving, Rests, callVars, sendVars, jobVars
<1>5. me[w] \in Players
  BY <1>0, <1>3 DEF TypeOK, Working
<1>6. /\ flock' \in [Fields -> SUBSET Workers]
      /\ \A g \in Fields : flock'[g] = IF g = f THEN flock[g] \ {w} ELSE flock[g]
  <2>1. flock \in [Fields -> SUBSET Workers]
    BY DEF TypeOK
  <2> QED BY <1>2, <2>1
<1>7. TypeOK'
  BY <1>2, <1>3, <1>5, <1>6 DEF TypeOK, sessVars, playerVars, tableVars, jobVars, callVars, sendVars
<1>8. KindInv' /\ RefInv' /\ OwnInv' /\ StartInv' /\ UseInv'
  <2>1. KindAt(w)'
    BY <1>0, <1>3, <1>4 DEF KindAt, InHandler, Away, Closing, Leaving, Checked
  <2>2. UseAt(w)'
    BY <1>0, <1>2, <1>3, <1>4 DEF UseInv, UseAt, InHandler, InJob, Leaving, tableVars, callVars
  <2>3. Starting => \A g \in Fields : me[Acceptor] \notin onField'[g]
    BY <1>2 DEF StartInv, tableVars
  <2>4. UNCHANGED <<keys, open, io, sess, to, gone, sid, players, pool>>
    BY <1>2 DEF sessVars, playerVars, tableVars, callVars, sendVars
  <2> QED BY <1>0, <1>3, <1>4, <2>1, <2>2, <2>3, <2>4, Quiet DEF Serving, InHandler, Closing, Leaving
<1>9. LockInv'
  <2>0. UNCHANGED <<plock, nlock, field, sid, me, leaver>>
    BY <1>2 DEF playerVars, callVars, sendVars
  <2>1. /\ \A p \in Players : \A u : u = plock'[p] /\ u # None => HasPlayer(u, p)'
        /\ \A u \in Threads : LockAt(u)'
    BY <1>0, <1>3, <1>4, <2>0, PlockKept DEF InHandler, Locked, Checked
  <2>2. \A u \in Threads \ {w} : At(u)' = At(u)
    BY <1>4, RestsAt
  <2>3. ASSUME NEW u, u = nlock, u # None PROVE At(u)' = "whisperEnd"
    BY <1>4, <2>2, <2>3 DEF LockInv, TypeOK
  <2>4. ASSUME NEW g \in Fields, NEW u \in flock'[g] PROVE At(u)' = "chat" /\ field[me[u]] = g
    <3>1. u \in flock[g] /\ u \in Threads /\ field[me[u]] = g /\ At(u) = "chat"
      BY <1>6, <2>4 DEF TypeOK, Threads, LockInv
    <3>2. u # w
      BY <1>1, <1>6, <2>4, <3>1
    <3> QED BY <2>2, <3>1, <3>2
  <2> QED BY <2>0, <2>1, <2>3, <2>4 DEF LockInv
<1>10. FieldInv'
  BY <1>0, <1>2, <1>3, <1>4, FieldKept DEF playerVars, tableVars, sessVars
<1> QED BY <1>7, <1>8, <1>9, <1>10

(* C_WHISPER leaves the nicknames' lock.                                      *)
LEMMA StepWhisperEnd ==
  ASSUME IInv, NEW w \in Workers, WhisperEnd(w)
  PROVE  IInv'
<1> USE DEF IInv
<1>0. w \in Threads /\ w # Acceptor /\ w \notin DbThreads
  BY ChatAssumption DEF Threads
<1>1. /\ Step(w, "whisperEnd", "unlock") /\ nlock' = None
      /\ UNCHANGED <<sessVars, playerVars, tableVars, plock, flock, jobVars, callVars, sendVars>>
  BY DEF WhisperEnd
<1>2. /\ pc[w] = "whisperEnd" /\ pc'[w] = "unlock" /\ pc' \in [Threads -> Labels]
      /\ \A u \in Threads \ {w} : pc'[u] = pc[u]
  BY <1>0, <1>1, Stepped DEF Labels
<1>3. At(w) = "whisperEnd" /\ At(w)' = "unlock" /\ \A u \in Threads \ {w} : Rests(u)
  BY <1>1, <1>2 DEF At, Away, Closing, Leaving, Rests, callVars, sendVars, jobVars
<1>4. me[w] \in Players
  BY <1>0, <1>2 DEF TypeOK, Working
<1>5. TypeOK'
  BY <1>1, <1>2, <1>4 DEF TypeOK, sessVars, playerVars, tableVars, jobVars, callVars, sendVars
<1>6. KindInv' /\ RefInv' /\ OwnInv' /\ StartInv' /\ UseInv'
  <2>1. KindAt(w)'
    BY <1>0, <1>2, <1>3 DEF KindAt, InHandler, Away, Closing, Leaving, Checked
  <2>2. UseAt(w)'
    BY <1>0, <1>1, <1>2, <1>3 DEF UseInv, UseAt, InHandler, InJob, Leaving, tableVars, callVars
  <2>3. Starting => \A g \in Fields : me[Acceptor] \notin onField'[g]
    BY <1>1 DEF StartInv, tableVars
  <2>4. UNCHANGED <<keys, open, io, sess, to, gone, sid, players, pool>>
    BY <1>1 DEF sessVars, playerVars, tableVars, callVars, sendVars
  <2> QED BY <1>0, <1>2, <1>3, <2>1, <2>2, <2>3, <2>4, Quiet DEF Serving, InHandler, Closing, Leaving
<1>7. LockInv'
  <2>0. UNCHANGED <<plock, flock, field, sid, me, leaver>>
    BY <1>1 DEF playerVars, callVars, sendVars
  <2>1. /\ \A p \in Players : \A u : u = plock'[p] /\ u # None => HasPlayer(u, p)'
        /\ \A u \in Threads : LockAt(u)'
    BY <1>0, <1>2, <1>3, <2>0, PlockKept DEF InHandler, Locked, Checked
  <2>2. \A u \in Threads \ {w} : At(u)' = At(u)
    BY <1>3, RestsAt
  <2>3. ASSUME NEW g \in Fields, NEW u \in flock[g] PROVE At(u)' = "chat" /\ field[me[u]] = g
    BY <1>3, <2>2 DEF LockInv, TypeOK, Threads
  <2> QED BY <1>1, <2>0, <2>1, <2>3 DEF LockInv
<1>8. FieldInv'
  BY <1>0, <1>1, <1>2, <1>3, FieldKept DEF playerVars, tableVars, sessVars
<1> QED BY <1>5, <1>6, <1>7, <1>8

(* The end of a handler: the player is unlocked.                              *)
LEMMA StepUnlockPlayer ==
  ASSUME IInv, NEW w \in Workers, UnlockPlayer(w)
  PROVE  IInv'
<1> USE DEF IInv
<1>0. w \in Threads /\ w # Acceptor /\ w \notin DbThreads
  BY ChatAssumption DEF Threads
<1>1. /\ Step(w, "unlock", "release") /\ plock' = [plock EXCEPT ![me[w]] = None]
      /\ me' = [me EXCEPT ![w] = None] /\ arg' = [arg EXCEPT ![w] = None]
      /\ UNCHANGED <<sessVars, playerVars, tableVars, nlock, flock, jobVars, sess, todo, sendVars>>
  BY DEF UnlockPlayer, Unlock
<1>2. /\ pc[w] = "unlock" /\ pc'[w] = "release" /\ pc' \in [Threads -> Labels]
      /\ \A u \in Threads \ {w} : pc'[u] = pc[u]
  BY <1>0, <1>1, Stepped DEF Labels
<1>3. At(w) = "unlock" /\ At(w)' = "release" /\ \A u \in Threads \ {w} : Rests(u)
  BY <1>1, <1>2 DEF At, Away, Closing, Leaving, Rests, sendVars, jobVars, TypeOK
<1>4. me[w] \in Players
  BY <1>0, <1>2 DEF TypeOK, Working
<1>5. /\ plock' \in [Players -> Threads \cup {None}] /\ me' \in [Threads -> Players \cup {None}]
      /\ arg' \in [Threads -> Names \cup Fields \cup {None}]
      /\ \A u \in Threads \ {w} : me'[u] = me[u]
  BY <1>1, <1>4 DEF TypeOK
<1>6. TypeOK'
  BY <1>1, <1>2, <1>5 DEF TypeOK, sessVars, playerVars, tableVars, jobVars, sendVars, Working
<1>7. KindInv' /\ RefInv' /\ OwnInv' /\ StartInv' /\ UseInv'
  <2>1. KindAt(w)'
    BY <1>0, <1>2, <1>3 DEF KindAt, InHandler, Away, Closing, Leaving, Checked
  <2>2. UseAt(w)'
    BY <1>0, <1>2, <1>3 DEF UseInv, UseAt, InHandler, InJob, Leaving
  <2>3. Starting => \A g \in Fields : me[Acceptor] \notin onField'[g]
    BY <1>1 DEF StartInv, tableVars
  <2>4. UNCHANGED <<keys, open, io, sess, to, gone, sid, players, pool>>
    BY <1>1 DEF sessVars, playerVars, tableVars, sendVars
  <2> QED BY <1>0, <1>2, <1>3, <2>1, <2>2, <2>3, <2>4, Quiet DEF Serving, InHandler, Closing, Leaving
<1>8. LockInv'
  <2>1. UNCHANGED <<nlock, flock, field, sid>>
    BY <1>1 DEF playerVars
  <2>2. \A q \in Players : /\ HasPlayer(w, q) <=> q = me[w]
                           /\ ~HasPlayer(w, q)'
    BY <1>2, <1>3 DEF HasPlayer, InHandler, InJob, Locked
  <2>3. plock[me[w]] = w
    BY <1>0, <1>4, <2>2 DEF LockInv, LockAt
  <2> QED BY <1>0, <1>1, <1>2, <1>3, <1>4, <2>1, <2>2, <2>3, LockReleased DEF Locked, Checked
<1>9. FieldInv'
  BY <1>0, <1>1, <1>2, <1>3, FieldKept DEF playerVars, tableVars, sessVars
<1> QED BY <1>6, <1>7, <1>8, <1>9

(* A database thread takes the oldest job.                                    *)
LEMMA StepTakeJob ==
  ASSUME IInv, NEW d \in DbThreads, TakeJob(d)
  PROVE  IInv'
<1> USE DEF IInv
<1>0. d \in Threads /\ d # Acceptor /\ d \notin Workers
  BY ChatAssumption DEF Threads
<1>1. PICK j : j = Head(jobs)
  OBVIOUS
<1>2. /\ jobs # <<>> /\ Step(d, "idle", "jobLock") /\ jobs' = Tail(jobs)
      /\ me' = [me EXCEPT ![d] = j.player] /\ job' = [job EXCEPT ![d] = j]
      /\ UNCHANGED <<sessVars, playerVars, tableVars, lockVars, sess, arg, todo, sendVars>>
  BY <1>1 DEF TakeJob
<1>3. /\ pc[d] = "idle" /\ pc'[d] = "jobLock" /\ pc' \in [Threads -> Labels]
      /\ \A u \in Threads \ {d} : pc'[u] = pc[u]
  BY <1>0, <1>2, Stepped DEF Labels
<1>4. At(d) = "idle" /\ At(d)' = "jobLock" /\ \A u \in Threads \ {d} : Rests(u)
  BY <1>2, <1>3 DEF At, Away, Closing, Leaving, Rests, sendVars, TypeOK
<1>5. j \in Jobs /\ jobs' \in Seq(Jobs) /\ j.player \in Players
  <2>1. jobs \in Seq(Jobs)
    BY DEF TypeOK
  <2>2. j \in Jobs /\ Tail(jobs) \in Seq(Jobs)
    BY <1>1, <1>2, <2>1, HeadTailProperties
  <2> QED BY <1>2, <2>2 DEF Jobs
<1>6. /\ me' \in [Threads -> Players \cup {None}] /\ me'[d] \in Players
      /\ \A u \in Threads \ {d} : me'[u] = me[u]
      /\ job' \in [DbThreads -> Jobs \cup {None}] /\ job'[d] = j
  BY <1>0, <1>2, <1>5 DEF TypeOK
<1>7. TypeOK'
  BY <1>2, <1>3, <1>5, <1>6 DEF TypeOK, sessVars, playerVars, tableVars, lockVars, sendVars, Working
<1>8. KindInv' /\ RefInv' /\ OwnInv' /\ StartInv' /\ UseInv'
  <2>1. KindAt(d)'
    BY <1>0, <1>3, <1>4, <1>5, <1>6 DEF KindAt, InJob, Away, Closing, Leaving, Checked
  <2>2. UseAt(d)'
    BY <1>0, <1>3, <1>4, <1>6 DEF UseInv, UseAt, InHandler, InJob, Leaving
  <2>3. Starting => \A g \in Fields : me[Acceptor] \notin onField'[g]
    BY <1>2 DEF StartInv, tableVars
  <2>4. UNCHANGED <<keys, open, io, sess, to, gone, sid, players, pool>>
    BY <1>2 DEF sessVars, playerVars, tableVars, sendVars
  <2> QED BY <1>0, <1>3, <1>4, <2>1, <2>2, <2>3, <2>4, Quiet DEF Serving, InHandler, Closing, Leaving
<1>9. LockInv'
  <2>1. UNCHANGED <<plock, sid, nlock, flock, field, leaver>>
    BY <1>2 DEF playerVars, lockVars, sendVars
  <2>2. \A g \in Fields : \A u \in flock[g] : field'[me[u]] = field[me[u]]
    BY <2>1
  <2> QED BY <1>0, <1>3, <1>4, <2>1, <2>2, LockKept DEF InHandler, InJob, Locked, Checked
<1>10. FieldInv'
  BY <1>0, <1>2, <1>3, <1>4, FieldKept DEF playerVars, tableVars, sessVars
<1> QED BY <1>7, <1>8, <1>9, <1>10

(* It locks the job's player, and looks whose it is by now.                   *)
LEMMA StepJobLock ==
  ASSUME IInv, NEW d \in DbThreads, JobLock(d)
  PROVE  IInv'
<1> USE DEF IInv
<1>0. d \in Threads /\ d # Acceptor /\ d \notin Workers
  BY ChatAssumption DEF Threads
<1>1. PICK next \in {"job", "jobUnlock"} :
        /\ pc[d] = "jobLock" /\ Lock(d, me[d]) /\ Step(d, "jobLock", next)
        /\ next = "job" => sid[me[d]] = job[d].id
  BY DEF JobLock
<1>2. /\ pc'[d] = next /\ pc' \in [Threads -> Labels] /\ \A u \in Threads \ {d} : pc'[u] = pc[u]
      /\ UNCHANGED <<sessVars, playerVars, tableVars, nlock, flock, jobVars, callVars, sendVars>>
  BY <1>0, <1>1, Stepped DEF JobLock, Labels
<1>3. At(d) = "jobLock" /\ At(d)' = next /\ \A u \in Threads \ {d} : Rests(u)
  BY <1>1, <1>2 DEF At, Away, Closing, Leaving, Rests, callVars, sendVars, jobVars
<1>4. me[d] \in Players /\ plock[me[d]] = None /\ plock' = [plock EXCEPT ![me[d]] = d]
  BY <1>0, <1>1, <1>3 DEF Lock, UseInv, UseAt
<1>5. TypeOK'
  BY <1>0, <1>2, <1>4, <1>1
     DEF TypeOK, sessVars, playerVars, tableVars, jobVars, callVars, sendVars, Working
<1>6. KindInv' /\ RefInv' /\ OwnInv' /\ StartInv' /\ UseInv'
  <2>1. KindAt(d)'
    BY <1>0, <1>1, <1>2, <1>3 DEF KindInv, KindAt, InJob, Away, Closing, Leaving, Checked, jobVars
  <2>2. UseAt(d)'
    BY <1>0, <1>2, <1>3, <1>4 DEF UseInv, UseAt, InHandler, InJob, Leaving, callVars
  <2>3. Starting => \A f \in Fields : me[Acceptor] \notin onField'[f]
    BY <1>2 DEF StartInv, tableVars
  <2>4. UNCHANGED <<keys, open, io, sess, to, gone, sid, players, pool>>
    BY <1>2 DEF sessVars, callVars, sendVars, playerVars, tableVars
  <2> QED BY <1>0, <1>1, <1>2, <1>3, <2>1, <2>2, <2>3, <2>4, Quiet
          DEF Serving, InHandler, InJob, Closing, Leaving
<1>7. LockInv'
  <2>1. /\ \A p : HasPlayer(d, p)' <=> p = me[d]
        /\ \A p : ~HasPlayer(d, p)
    BY <1>1, <1>2, <1>3 DEF HasPlayer, InHandler, InJob, Locked, callVars
  <2>2. UNCHANGED <<nlock, flock, field, sid, job, me>>
    BY <1>2 DEF playerVars, jobVars, callVars
  <2>3. pc'[d] \in Checked => sid[me'[d]] = job'[d].id
    BY <1>1, <1>2, <2>2 DEF Checked
  <2> QED BY <1>0, <1>1, <1>2, <1>3, <1>4, <2>1, <2>2, <2>3, LockTaken DEF Locked
<1>8. FieldInv'
  BY <1>0, <1>1, <1>2, <1>3, FieldKept DEF playerVars, tableVars, sessVars
<1> QED BY <1>5, <1>6, <1>7, <1>8

(* The end of a job.                                                          *)
LEMMA StepJobUnlock ==
  ASSUME IInv, NEW d \in DbThreads, JobUnlock(d)
  PROVE  IInv'
<1> USE DEF IInv
<1>0. d \in Threads /\ d # Acceptor /\ d \notin Workers
  BY ChatAssumption DEF Threads
<1>1. /\ Step(d, "jobUnlock", "idle") /\ plock' = [plock EXCEPT ![me[d]] = None]
      /\ me' = [me EXCEPT ![d] = None] /\ job' = [job EXCEPT ![d] = None]
      /\ UNCHANGED <<sessVars, playerVars, tableVars, nlock, flock, jobs, sess, arg, todo, sendVars>>
  BY DEF JobUnlock, Unlock
<1>2. /\ pc[d] = "jobUnlock" /\ pc'[d] = "idle" /\ pc' \in [Threads -> Labels]
      /\ \A u \in Threads \ {d} : pc'[u] = pc[u]
  BY <1>0, <1>1, Stepped DEF Labels
<1>3. At(d) = "jobUnlock" /\ At(d)' = "idle" /\ \A u \in Threads \ {d} : Rests(u)
  BY <1>1, <1>2 DEF At, Away, Closing, Leaving, Rests, sendVars, TypeOK
<1>4. me[d] \in Players
  BY <1>0, <1>2 DEF TypeOK, Working
<1>5. /\ plock' \in [Players -> Threads \cup {None}] /\ me' \in [Threads -> Players \cup {None}]
      /\ job' \in [DbThreads -> Jobs \cup {None}]
      /\ \A u \in Threads \ {d} : me'[u] = me[u]
  BY <1>1, <1>4 DEF TypeOK
<1>6. TypeOK'
  BY <1>1, <1>2, <1>5 DEF TypeOK, sessVars, playerVars, tableVars, sendVars, Working
<1>7. KindInv' /\ RefInv' /\ OwnInv' /\ StartInv' /\ UseInv'
  <2>1. KindAt(d)'
    BY <1>0, <1>2, <1>3 DEF KindAt, Away, Closing, Leaving, Checked
  <2>2. UseAt(d)'
    BY <1>0, <1>2, <1>3 DEF UseInv, UseAt, InHandler, InJob, Leaving
  <2>3. Starting => \A g \in Fields : me[Acceptor] \notin onField'[g]
    BY <1>1 DEF StartInv, tableVars
  <2>4. UNCHANGED <<keys, open, io, sess, to, gone, sid, players, pool>>
    BY <1>1 DEF sessVars, playerVars, tableVars, sendVars
  <2> QED BY <1>0, <1>2, <1>3, <2>1, <2>2, <2>3, <2>4, Quiet DEF Serving, InHandler, Closing, Leaving
<1>8. LockInv'
  <2>1. UNCHANGED <<nlock, flock, field, sid>>
    BY <1>1 DEF playerVars
  <2>2. \A q \in Players : /\ HasPlayer(d, q) <=> q = me[d]
                           /\ ~HasPlayer(d, q)'
    BY <1>2, <1>3 DEF HasPlayer, InHandler, InJob, Locked
  <2>3. plock[me[d]] = d
    BY <1>0, <1>4, <2>2 DEF LockInv, LockAt
  <2> QED BY <1>0, <1>1, <1>2, <1>3, <1>4, <2>1, <2>2, <2>3, LockReleased DEF Locked, Checked
<1>9. FieldInv'
  BY <1>0, <1>1, <1>2, <1>3, FieldKept DEF playerVars, tableVars, sessVars
<1> QED BY <1>6, <1>7, <1>8, <1>9

-----------------------------------------------------------------------------
(* SendPacket.                                                               *)

(* SendPacket references an open session, or does nothing; the thread's place *)
(* is where it comes back to.                                                 *)
LEMMA Sending ==
  ASSUME IInv, NEW t \in Threads, t # Acceptor, NEW i, NEW from, NEW next, Send(t, i, from, next),
         \/ from = "chat" /\ next = "chat"
         \/ from = "whisper" /\ next = "whisperEnd"
         \/ from \in {"job", "jobSend"} /\ next = "jobUnlock",
         UNCHANGED <<sessVars, playerVars, tableVars, plock, jobVars, sess, me, arg, gone, leaver>>
  PROVE  /\ At(t) = from /\ At(t)' = next /\ \A u \in Threads \ {t} : Rests(u)
         /\ pc' \in [Threads -> Labels] /\ pc'[t] \in {"send", next}
         /\ \A u \in Threads : pc'[u] \in Working => me[u] \in Players
         /\ to' \in [Threads -> Id \cup {NoId}] /\ ret' \in [Threads -> Labels]
         /\ KindInv' /\ RefInv' /\ OwnInv' /\ StartInv' /\ UseInv' /\ FieldInv'
         /\ \A p \in Players : \A u : u = plock'[p] /\ u # None => HasPlayer(u, p)'
         /\ \A u \in Threads : LockAt(u)'
<1> USE DEF IInv
<1>1. PICK now \in {"send", next} : /\ Step(t, from, now)
                                    /\ now = "send" => /\ i \in open /\ to' = [to EXCEPT ![t] = i]
                                                       /\ ret' = [ret EXCEPT ![t] = next]
                                    /\ now # "send" => to' = to /\ ret' = ret
  BY DEF Send
<1>2. now \in Labels /\ next \in Labels
  BY DEF Labels
<1>3. /\ pc[t] = from /\ pc'[t] = now /\ pc' \in [Threads -> Labels]
      /\ \A u \in Threads \ {t} : pc'[u] = pc[u]
  BY <1>1, <1>2, Stepped
<1>4. /\ open \subseteq Id /\ open \subseteq 1 .. keys /\ to \in [Threads -> Id \cup {NoId}]
      /\ ret \in [Threads -> Labels] /\ NoId \notin open
  BY DEF TypeOK, RefInv, NoId
<1>5. /\ to' \in [Threads -> Id \cup {NoId}] /\ ret' \in [Threads -> Labels]
      /\ \A u \in Threads \ {t} : to'[u] = to[u] /\ ret'[u] = ret[u]
      /\ now = "send" => to'[t] = i /\ ret'[t] = next
  BY <1>1, <1>2, <1>4
<1>6. At(t) = from /\ At(t)' = next
  BY <1>1, <1>3, <1>5 DEF At, Away, Closing, Leaving
<1>7. \A u \in Threads \ {t} : Rests(u)
  BY <1>3, <1>5 DEF Rests, jobVars
<1>8. me[t] \in Players
  BY <1>3 DEF TypeOK, Working, UseInv, UseAt, InJob
<1>9. \A u \in Threads : pc'[u] \in Working => me[u] \in Players
  BY <1>3, <1>8 DEF TypeOK
<1>10. KindInv'
  <2>1. KindAt(t)'
    BY <1>1, <1>3, <1>5, <1>6 DEF KindInv, KindAt, InHandler, InJob, Away, Closing, Leaving, Checked
  <2> QED BY <1>7, <2>1, KindOthers
<1>11. ~Starting' \/ Starting
  BY <1>3 DEF Starting, Threads
<1>12. Starting => Starting'
  BY <1>3 DEF Starting, Threads
<1>13. RefInv'
  <2>1. \A u \in Threads \ {t} : RefAt(u)'
    BY <1>7, RestsAt DEF RefInv, RefAt, Rests, sessVars
  <2>2. sess[t] # NoId <=> next \in Serving
    BY <1>6 DEF RefInv, RefAt, Serving, InHandler
  <2>3. to'[t] # NoId <=> pc'[t] = "send"
    BY <1>1, <1>3, <1>4, <1>5 DEF RefInv, RefAt
  <2>4. to'[t] # NoId => to'[t] \in open
    BY <1>1, <1>3, <1>4, <1>5, <2>3
  <2>5. gone[t] = NoId /\ pc'[t] \notin Closing
    BY <1>1, <1>3 DEF RefInv, RefAt, Closing, Leaving
  <2>6. RefAt(t)'
    BY <1>6, <2>2, <2>3, <2>4, <2>5 DEF RefInv, RefAt, sessVars
  <2> QED BY <2>1, <2>6 DEF RefInv, sessVars
<1>14. OwnInv'
  BY <1>12, OwnKept DEF sessVars, playerVars, tableVars
<1>15. StartInv'
  BY <1>11, StartKept DEF sessVars, playerVars, tableVars, StartInv
<1>16. UseInv'
  <2>1. UseAt(t)'
    BY <1>1, <1>3, <1>6, <1>8 DEF UseInv, UseAt, InHandler, InJob, Leaving, tableVars
  <2> QED BY <1>7, <1>11, <2>1, UseOthers DEF playerVars, tableVars
<1>17. FieldInv'
  BY <1>1, <1>3, <1>7, FieldKept DEF playerVars, tableVars, sessVars
<1>18. /\ \A p \in Players : \A u : u = plock'[p] /\ u # None => HasPlayer(u, p)'
       /\ \A u \in Threads : LockAt(u)'
  <2>1. now \notin Locked \cup Checked /\ from \notin Locked
    BY <1>1 DEF Locked, Checked
  <2>2. from \in InHandler \cup InJob /\ next \in InHandler \cup InJob
    BY DEF InHandler, InJob
  <2> QED BY <1>3, <1>6, <1>7, <2>1, <2>2, PlockKept DEF playerVars
<1> QED BY <1>3, <1>5, <1>6, <1>7, <1>9, <1>10, <1>13, <1>14, <1>15, <1>16, <1>17, <1>18

(* A chat line to one player of the field.                                    *)
LEMMA StepChatTo ==
  ASSUME IInv, NEW w \in Workers, NEW p \in todo[w], ChatTo(w, p)
  PROVE  IInv'
<1>0. w \in Threads /\ w # Acceptor
  BY ChatAssumption DEF Threads
<1>1. /\ todo' = [todo EXCEPT ![w] = @ \ {p}] /\ Send(w, sid[p], "chat", "chat")
      /\ UNCHANGED <<sessVars, playerVars, tableVars, lockVars, jobVars, sess, me, arg, gone, leaver>>
  BY DEF ChatTo
<1>2. UNCHANGED <<plock, nlock, flock, field, me>>
  BY <1>1 DEF lockVars, playerVars
<1>3. /\ At(w) = "chat" /\ At(w)' = "chat" /\ \A u \in Threads \ {w} : Rests(u)
      /\ pc' \in [Threads -> Labels] /\ \A u \in Threads : pc'[u] \in Working => me[u] \in Players
      /\ to' \in [Threads -> Id \cup {NoId}] /\ ret' \in [Threads -> Labels]
      /\ KindInv' /\ RefInv' /\ OwnInv' /\ StartInv' /\ UseInv' /\ FieldInv'
      /\ \A q \in Players : \A u : u = plock'[q] /\ u # None => HasPlayer(u, q)'
      /\ \A u \in Threads : LockAt(u)'
  BY <1>0, <1>1, <1>2, Sending
<1>4. TypeOK'
  BY <1>1, <1>3 DEF IInv, TypeOK, sessVars, playerVars, tableVars, lockVars, jobVars
<1>5. LockInv'
  <2>1. \A u \in Threads : At(u)' = At(u)
    BY <1>3, RestsAt
  <2>2. ASSUME NEW u, u = nlock, u # None PROVE At(u)' = "whisperEnd"
    BY <2>1, <2>2 DEF IInv, LockInv, TypeOK
  <2>3. ASSUME NEW g \in Fields, NEW u \in flock[g] PROVE At(u)' = "chat" /\ field[me[u]] = g
    BY <2>1 DEF IInv, LockInv, TypeOK, Threads
  <2> QED BY <1>2, <1>3, <2>2, <2>3 DEF LockInv
<1> QED BY <1>3, <1>4, <1>5 DEF IInv

(* The nicknames are locked, and the named player is sent to.                 *)
LEMMA StepWhisper ==
  ASSUME IInv, NEW w \in Workers, Whisper(w)
  PROVE  IInv'
<1>0. w \in Threads /\ w # Acceptor
  BY ChatAssumption DEF Threads
<1>1. /\ nlock = None /\ nlock' = w
      /\ \E i : Send(w, i, "whisper", "whisperEnd")
      /\ UNCHANGED <<sessVars, playerVars, tableVars, plock, flock, jobVars, callVars, gone, leaver>>
  <2>1. NoId \notin open
    BY DEF IInv, RefInv, NoId, TypeOK
  <2> QED BY <2>1 DEF Whisper, Send
<1>2. UNCHANGED <<plock, flock, field, sess, me, arg>>
  BY <1>1 DEF playerVars, callVars
<1>3. /\ At(w) = "whisper" /\ At(w)' = "whisperEnd" /\ \A u \in Threads \ {w} : Rests(u)
      /\ pc' \in [Threads -> Labels] /\ \A u \in Threads : pc'[u] \in Working => me[u] \in Players
      /\ to' \in [Threads -> Id \cup {NoId}] /\ ret' \in [Threads -> Labels]
      /\ KindInv' /\ RefInv' /\ OwnInv' /\ StartInv' /\ UseInv' /\ FieldInv'
      /\ \A q \in Players : \A u : u = plock'[q] /\ u # None => HasPlayer(u, q)'
      /\ \A u \in Threads : LockAt(u)'
  BY <1>0, <1>1, <1>2, Sending
<1>4. TypeOK'
  BY <1>0, <1>1, <1>3 DEF IInv, TypeOK, sessVars, playerVars, tableVars, jobVars, callVars
<1>5. LockInv'
  <2>1. \A u \in Threads \ {w} : At(u)' = At(u)
    BY <1>3, RestsAt
  <2>2. At(nlock)' = "whisperEnd"
    BY <1>1, <1>3 DEF At
  <2>3. ASSUME NEW g \in Fields, NEW u \in flock[g] PROVE At(u)' = "chat" /\ field[me[u]] = g
    BY <1>3, <2>1 DEF IInv, LockInv, TypeOK, Threads
  <2> QED BY <1>2, <1>3, <2>2, <2>3 DEF LockInv
<1> QED BY <1>3, <1>4, <1>5 DEF IInv

(* The answer of a job.                                                       *)
LEMMA StepJobSend ==
  ASSUME IInv, NEW d \in DbThreads, NEW from \in {"job", "jobSend"}, JobSend(d, from)
  PROVE  IInv'
<1>0. d \in Threads /\ d # Acceptor
  BY ChatAssumption DEF Threads
<1>1. PICK i : /\ Send(d, i, from, "jobUnlock")
               /\ UNCHANGED <<sessVars, playerVars, tableVars, lockVars, jobVars, callVars, gone, leaver>>
  BY DEF JobSend
<1>2. UNCHANGED <<plock, nlock, flock, field, sess, me, arg>>
  BY <1>1 DEF lockVars, playerVars, callVars
<1>3. /\ At(d) = from /\ At(d)' = "jobUnlock" /\ \A u \in Threads \ {d} : Rests(u)
      /\ pc' \in [Threads -> Labels] /\ \A u \in Threads : pc'[u] \in Working => me[u] \in Players
      /\ to' \in [Threads -> Id \cup {NoId}] /\ ret' \in [Threads -> Labels]
      /\ KindInv' /\ RefInv' /\ OwnInv' /\ StartInv' /\ UseInv' /\ FieldInv'
      /\ \A q \in Players : \A u : u = plock'[q] /\ u # None => HasPlayer(u, q)'
      /\ \A u \in Threads : LockAt(u)'
  BY <1>0, <1>1, <1>2, Sending
<1>4. TypeOK'
  BY <1>1, <1>3 DEF IInv, TypeOK, sessVars, playerVars, tableVars, lockVars, jobVars, callVars
<1>5. LockInv'
  <2>1. \A u \in Threads \ {d} : At(u)' = At(u)
    BY <1>3, RestsAt
  <2>2. ASSUME NEW u, u = nlock, u # None PROVE At(u)' = "whisperEnd"
    BY <1>3, <2>1, <2>2 DEF IInv, LockInv, TypeOK
  <2>3. ASSUME NEW g \in Fields, NEW u \in flock[g] PROVE At(u)' = "chat" /\ field[me[u]] = g
    BY <1>3, <2>1 DEF IInv, LockInv, TypeOK, Threads
  <2> QED BY <1>2, <1>3, <2>2, <2>3 DEF LockInv
<1> QED BY <1>3, <1>4, <1>5 DEF IInv

-----------------------------------------------------------------------------
(* Dropping a reference: the last one closes the session.                    *)

(* Dropping a reference: a session is closed by the last, and still has its   *)
(* player then.                                                               *)
LEMMA Dropping ==
  ASSUME IInv, NEW t \in Threads, NEW i, NEW from, NEW next, i \in open,
         \/ from = "send" /\ i = to[t] /\ next = ret[t] /\ sess' = sess
         \/ from \in {"release", "left"} /\ i = sess[t] /\ next = "idle"
            /\ sess' = [sess EXCEPT ![t] = NoId],
         \/ DropReference(t, i, from, next) /\ (from = "send" => sess[t] # i)
         \/ Step(t, from, next) /\ UNCHANGED <<open, ret, gone>>,
         to' = [to EXCEPT ![t] = NoId],
         UNCHANGED <<keys, calls, io, playerVars, tableVars, lockVars, jobVars, me, arg, todo, leaver>>
  PROVE  IInv'
<1> USE DEF IInv
<1>1. PICK now \in {"find", next} :
        /\ Step(t, from, now)
        /\ now # "find" => UNCHANGED <<open, ret, gone>>
        /\ now = "find" => /\ ~Shared(t, i) /\ (from = "send" => sess[t] # i)
                           /\ open' = open \ {i} /\ ret' = [ret EXCEPT ![t] = next]
                           /\ gone' = [gone EXCEPT ![t] = i]
  <2>1. pc[t] = "send" => ret[t] # "find"
    BY DEF KindInv, KindAt, Away
  <2> QED BY <2>1 DEF DropReference, Step
<1>2. /\ pc[t] = from /\ from \in {"send", "release", "left"}
      /\ next \in {"idle", "chat", "whisperEnd", "jobUnlock"}
      /\ At(t) = IF from = "send" THEN next ELSE from
  BY <1>1 DEF Step, KindInv, KindAt, Away, Closing, Leaving, At
<1>3. now \in Labels /\ next \in Labels
  BY <1>2 DEF Labels
<1>4. /\ pc'[t] = now /\ pc' \in [Threads -> Labels] /\ \A u \in Threads \ {t} : pc'[u] = pc[u]
  BY <1>1, <1>3, Stepped
<1>5. /\ open \subseteq Id /\ open \subseteq 1 .. keys /\ to \in [Threads -> Id \cup {NoId}]
      /\ sess \in [Threads -> Id \cup {NoId}] /\ gone \in [Threads -> Id \cup {NoId}]
      /\ ret \in [Threads -> Labels] /\ NoId \notin open
  BY DEF TypeOK, RefInv, NoId
<1>6. /\ to' \in [Threads -> Id \cup {NoId}] /\ ret' \in [Threads -> Labels]
      /\ sess' \in [Threads -> Id \cup {NoId}] /\ gone' \in [Threads -> Id \cup {NoId}]
      /\ \A u \in Threads \ {t} : /\ to'[u] = to[u] /\ ret'[u] = ret[u]
                                  /\ sess'[u] = sess[u] /\ gone'[u] = gone[u]
      /\ to'[t] = NoId
      /\ now = "find" => ret'[t] = next /\ gone'[t] = i
      /\ sess'[t] = IF from = "send" THEN sess[t] ELSE NoId
  BY <1>1, <1>2, <1>3, <1>5
<1>7. At(t)' = next
  BY <1>1, <1>2, <1>4, <1>6 DEF At, Away, Closing, Leaving
<1>8. \A u \in Threads \ {t} : Rests(u)
  BY <1>4, <1>6 DEF Rests, jobVars
<1>9. /\ Starting' => Starting /\ t # Acceptor
      /\ Starting => Starting' /\ t # Acceptor
  <2>1. t = Acceptor => ~Starting /\ ~Starting'
    BY <1>2, <1>4 DEF Starting
  <2> QED BY <1>4, <2>1 DEF Starting, Threads
<1>10. TypeOK'
  <2>1. open' \subseteq Id
    BY <1>1, <1>5
  <2>2. \A u \in Threads : pc'[u] \in Working => me'[u] \in Players
    <3>1. pc'[t] \in Working => me'[t] \in Players
      BY <1>2, <1>4 DEF Working, UseInv, UseAt, InHandler, InJob
    <3> QED BY <1>4, <3>1 DEF TypeOK
  <2> QED BY <1>4, <1>6, <2>1, <2>2 DEF TypeOK, playerVars, tableVars, lockVars, jobVars
<1>11. KindInv'
  <2>1. KindAt(t)'
    BY <1>1, <1>2, <1>4, <1>6, <1>7 DEF KindInv, KindAt, InHandler, InJob, Away, Closing, Leaving, Checked
  <2> QED BY <1>8, <2>1, KindOthers
<1>12. RefInv'
  <2>1. /\ open' \subseteq open /\ \A k \in open \ open' : k = i
        /\ open' # open => now = "find"
    BY <1>1
  <2>2. now = "find" => i \notin io /\ \A u \in Threads \ {t} : sess[u] # i /\ to[u] # i
    BY <1>1 DEF Shared
  <2>3. ASSUME NEW u \in Threads \ {t} PROVE RefAt(u)'
    <3>1. /\ At(u)' = At(u) /\ pc'[u] = pc[u] /\ sess'[u] = sess[u] /\ to'[u] = to[u] /\ gone'[u] = gone[u]
      BY <1>8, RestsAt DEF Rests
    <3>2. sess[u] # NoId => sess[u] \in open' \ io /\ \A v \in Threads \ {u} : sess'[v] # sess[u]
      <4>1. sess[u] # NoId => sess[u] \in open \ io /\ \A v \in Threads \ {u} : sess[v] # sess[u]
        BY DEF RefInv, RefAt
      <4>2. sess'[t] = sess[t] \/ sess'[t] = NoId
        BY <1>6
      <4> QED BY <1>6, <2>1, <2>2, <4>1, <4>2
    <3>3. to[u] # NoId => to[u] \in open'
      BY <2>1, <2>2 DEF RefInv, RefAt
    <3>4. gone[u] # NoId => gone[u] \in 1 .. keys \ open' /\ \A v \in Threads \ {u} : gone'[v] # gone[u]
      <4>1. gone[u] # NoId => gone[u] \in 1 .. keys \ open /\ \A v \in Threads \ {u} : gone[v] # gone[u]
        BY DEF RefInv, RefAt
      <4>2. gone'[t] = gone[t] \/ gone'[t] = i
        BY <1>1, <1>6
      <4> QED BY <1>6, <2>1, <4>1, <4>2
    <3> QED BY <3>1, <3>2, <3>3, <3>4 DEF RefInv, RefAt
  <2>4. RefAt(t)'
    <3>1. sess'[t] # NoId <=> next \in Serving
      BY <1>2, <1>6 DEF RefInv, RefAt, Serving, InHandler
    <3>2. sess'[t] # NoId => sess'[t] \in open' \ io /\ \A u \in Threads \ {t} : sess'[u] # sess'[t]
      BY <1>1, <1>2, <1>6, <2>1 DEF RefInv, RefAt
    <3>3. gone[t] = NoId
      BY <1>2 DEF RefInv, RefAt, Closing, Leaving
    <3>4. gone'[t] # NoId <=> pc'[t] \in Closing
      BY <1>1, <1>2, <1>4, <1>5, <1>6, <3>3 DEF Closing, Leaving
    <3>5. gone'[t] # NoId => gone'[t] \in 1 .. keys \ open' /\ \A u \in Threads \ {t} : gone'[u] # gone'[t]
      <4>1. \A u \in Threads \ {t} : gone[u] # i
        BY <1>5 DEF RefInv, RefAt
      <4>2. gone'[t] # NoId => gone'[t] = i /\ open' = open \ {i}
        BY <1>1, <1>6, <3>3
      <4> QED BY <1>5, <1>6, <4>1, <4>2
    <3>6. pc'[t] # "send"
      BY <1>1, <1>2, <1>4
    <3> QED BY <1>6, <1>7, <3>1, <3>2, <3>4, <3>5, <3>6 DEF RefAt
  <2>5. io \subseteq open'
    BY <2>1, <2>2 DEF RefInv
  <2> QED BY <1>5, <2>1, <2>3, <2>4, <2>5 DEF RefInv
<1>13. OwnInv'
  BY <1>1, <1>6, <1>9, OwnKept DEF playerVars, tableVars, Threads
<1>14. StartInv'
  BY <1>6, <1>9, StartKept DEF playerVars, tableVars, Threads, StartInv
<1>15. UseInv'
  <2>1. now = "find" => players[i] # None
    <3>1. now = "find" /\ Starting => sess[Acceptor] # i
      BY <1>1, <1>9 DEF Shared, Threads
    <3> QED BY <3>1 DEF OwnInv
  <2>2. UseAt(t)'
    BY <1>1, <1>2, <1>4, <1>6, <1>7, <2>1 DEF UseInv, UseAt, InHandler, InJob, Leaving, tableVars
  <2> QED BY <1>8, <1>9, <2>2, UseOthers DEF playerVars, tableVars
<1>16. LockInv'
  <2>1. UNCHANGED <<plock, nlock, flock, sid, field>>
    BY DEF lockVars, playerVars
  <2>2. \A f \in Fields : \A u \in flock[f] : field'[me[u]] = field[me[u]]
    BY <2>1
  <2> QED BY <1>1, <1>2, <1>4, <1>7, <1>8, <2>1, <2>2, LockKept DEF InHandler, InJob, Locked, Checked
<1>17. FieldInv'
  <2>1. open' \subseteq open
    BY <1>1
  <2> QED BY <1>1, <1>2, <1>4, <1>8, <2>1, FieldKept DEF playerVars, tableVars
<1> QED BY <1>10, <1>11, <1>12, <1>13, <1>14, <1>15, <1>16, <1>17

(* The end of SendPacket.                                                     *)
LEMMA StepSendRelease ==
  ASSUME IInv, NEW t \in Threads, SendRelease(t)
  PROVE  IInv'
<1>1. pc[t] = "send"
  BY DEF SendRelease, DropReference, Step
<1>2. to[t] \in open
  BY <1>1 DEF IInv, RefInv, RefAt
<1> QED BY <1>2, Dropping DEF SendRelease, callVars

(* The end of a handler whose client has gone.                                *)
LEMMA StepClientGone ==
  ASSUME IInv, NEW t \in Threads, NEW from \in {"release", "left"}, ClientGone(t, from)
  PROVE  IInv'
<1>1. pc[t] = from
  BY DEF ClientGone, DropReference, Step
<1>2. sess[t] \in open /\ to[t] = NoId
  BY <1>1 DEF IInv, RefInv, RefAt, At, Away, Closing, Leaving, Serving
<1>3. to' = [to EXCEPT ![t] = NoId]
  <2>1. to \in [Threads -> Id \cup {NoId}] /\ to' = to
    BY DEF IInv, TypeOK, ClientGone
  <2> QED BY <1>2, <2>1
<1> QED BY <1>2, <1>3, Dropping DEF ClientGone

-----------------------------------------------------------------------------
(* OnDisconnect.                                                             *)

(* A step of OnDisconnect that stays in it leaves everything else where it    *)
(* was.                                                                       *)
LEMMA ClosingStep ==
  ASSUME IInv, NEW t \in Threads, NEW from \in Closing, NEW next \in Closing, Step(t, from, next),
         UNCHANGED <<sess, me, arg, job, to, ret, gone>>, \A u \in Threads \ {t} : leaver'[u] = leaver[u]
  PROVE  /\ pc[t] = from /\ pc'[t] = next /\ pc' \in [Threads -> Labels]
         /\ \A u \in Threads \ {t} : pc'[u] = pc[u]
         /\ \A u \in Threads : pc'[u] \in Working => pc[u] \in Working
         /\ At(t)' = At(t) /\ \A u \in Threads \ {t} : Rests(u)
         /\ At(t) \in {"idle", "chat", "whisperEnd", "jobUnlock"} /\ KindAt(t)'
         /\ gone[t] # NoId /\ gone[t] \in Id \ open
<1>1. next \in Labels
  BY DEF Labels, Closing, Leaving
<1>2. /\ pc[t] = from /\ pc'[t] = next /\ pc' \in [Threads -> Labels]
      /\ \A u \in Threads \ {t} : pc'[u] = pc[u]
  BY <1>1, Stepped DEF IInv
<1>3. At(t)' = At(t) /\ At(t) = ret[t]
  BY <1>2 DEF At, Away
<1>4. At(t) \in {"idle", "chat", "whisperEnd", "jobUnlock"}
  BY <1>2, <1>3 DEF IInv, KindInv, KindAt, Away
<1>5. KindAt(t)'
  BY <1>2, <1>3, <1>4 DEF IInv, KindInv, KindAt, Closing, Leaving, Checked, Away
<1>6. \A u \in Threads \ {t} : Rests(u)
  BY <1>2 DEF Rests
<1>7. next \notin Working
  BY DEF Closing, Leaving, Working
<1>8. gone[t] # NoId /\ gone[t] \in Id \ open
  BY <1>2 DEF IInv, RefInv, RefAt, TypeOK
<1> QED BY <1>2, <1>3, <1>4, <1>5, <1>6, <1>7, <1>8

(* The player leaves the map: from here on the closing thread has it alone.   *)
LEMMA StepDeletePlayer ==
  ASSUME IInv, NEW t \in Threads, DeletePlayer(t)
  PROVE  IInv'
<1> USE DEF IInv
<1>1. PICK g, p : g = gone[t] /\ p = players[g]
  OBVIOUS
<1>2. /\ Step(t, "find", "goneLock")
      /\ leaver' = [leaver EXCEPT ![t] = p] /\ players' = [players EXCEPT ![g] = None]
      /\ UNCHANGED <<sessVars, playerVars, names, onField, lockVars, jobVars, callVars, to, ret, gone>>
  BY <1>1 DEF DeletePlayer
<1>3. \A u \in Threads \ {t} : leaver'[u] = leaver[u]
  BY <1>2 DEF TypeOK
<1>4. /\ pc[t] = "find" /\ pc'[t] = "goneLock" /\ pc' \in [Threads -> Labels]
      /\ \A u \in Threads \ {t} : pc'[u] = pc[u]
      /\ \A u \in Threads : pc'[u] \in Working => pc[u] \in Working
      /\ At(t)' = At(t) /\ \A u \in Threads \ {t} : Rests(u)
      /\ At(t) \in {"idle", "chat", "whisperEnd", "jobUnlock"} /\ KindAt(t)'
      /\ g \in Id \ open
  BY <1>1, <1>2, <1>3, ClosingStep DEF Closing, Leaving, callVars, jobVars
<1>5. p \in Players \ pool /\ sid[p] = g /\ None \notin Players
  <2>1. p # None
    BY <1>1, <1>4 DEF UseInv, UseAt
  <2> QED BY <1>1, <1>4, <2>1, ChatAssumption DEF OwnInv, TypeOK
<1>6. /\ players' \in [Id -> Players \cup {None}] /\ players'[g] = None
      /\ \A i \in Id \ {g} : players'[i] = players[i]
      /\ leaver' \in [Threads -> Players \cup {None}] /\ leaver'[t] = p
  BY <1>2, <1>4, <1>5 DEF TypeOK
<1>7. \A i \in Id : players'[i] # p
  BY <1>5, <1>6 DEF OwnInv
<1>8. \A q \in Players : \A i \in Id : players'[i] = q => players[i] = q
  BY <1>5, <1>6
<1>9. Starting => p # me[Acceptor]
  BY <1>1, <1>4 DEF StartInv
<1>10. TypeOK'
  BY <1>2, <1>4, <1>6 DEF TypeOK, sessVars, playerVars, lockVars, jobVars, callVars
<1>11. KindInv'
  BY <1>4, KindOthers
<1>12. RefInv'
  BY <1>2, <1>4, RefKept DEF sessVars, callVars, Closing, Leaving
<1>13. Starting' <=> Starting
  BY <1>4 DEF Starting, Threads
<1>14. OwnInv'
  <2>1. UNCHANGED <<keys, open, sid, pool, sess>>
    BY <1>2 DEF sessVars, playerVars, callVars
  <2>2. \A i \in Id : players'[i] # None => players'[i] \notin pool /\ sid[players'[i]] = i
    BY <1>6 DEF OwnInv
  <2>3. \A i \in open : players'[i] # None \/ (Starting /\ sess[Acceptor] = i)
    BY <1>4, <1>6 DEF OwnInv, TypeOK
  <2> QED BY <1>13, <2>1, <2>2, <2>3 DEF OwnInv
<1>15. StartInv'
  <2>1. UNCHANGED <<keys, sid, pool, sess, me, onField>>
    BY <1>2 DEF sessVars, playerVars, callVars
  <2> QED BY <1>8, <1>13, <2>1 DEF StartInv
<1>16. UseInv'
  <2>1. UNCHANGED <<sid, pool, me, sess, gone, open>>
    BY <1>2 DEF sessVars, playerVars, callVars
  <2>2. ASSUME NEW u \in Threads, At(u)' \in {"lock"} \cup InHandler
        PROVE  me[u] \in Players /\ players'[sess[u]] = me[u]
    <3>1. At(u) \in {"lock"} \cup InHandler
      BY <1>4, <2>2, RestsAt
    <3>2. me[u] \in Players /\ players[sess[u]] = me[u] /\ sess[u] \in open /\ sess[u] \in Id
      BY <3>1, InUse DEF UseInv, UseAt, TypeOK
    <3> QED BY <1>4, <1>6, <3>2
  <2>3. ASSUME NEW u \in Threads, At(u)' \in {"jobLock"} \cup InJob PROVE me[u] \in Players
    BY <1>4, <2>3, RestsAt DEF UseInv, UseAt
  <2>4. ASSUME NEW u \in Threads, pc'[u] = "find" PROVE players'[gone[u]] # None
    <3>1. u # t /\ pc[u] = "find"
      BY <1>4, <2>4
    <3>2. gone[u] # g /\ gone[u] \in Id /\ players[gone[u]] # None
      BY <1>1, <1>4, <3>1 DEF RefInv, RefAt, UseInv, UseAt, Closing, TypeOK
    <3> QED BY <1>6, <3>2
  <2>5. ASSUME NEW u \in Threads \ {t}
        PROVE  /\ pc'[u] \in Leaving => /\ leaver[u] \in Players \ pool /\ sid[leaver[u]] = gone[u]
                                        /\ \A i \in Id : players'[i] # leaver[u]
                                        /\ Starting => leaver[u] # me[Acceptor]
               /\ pc'[u] = "goneUnlock" => leaver[u] \in Players
    BY <1>4, <1>8 DEF UseInv, UseAt
  <2>6. ASSUME NEW u \in Threads PROVE UseAt(u)'
    <3>1. CASE u = t
      BY <1>1, <1>4, <1>5, <1>6, <1>7, <1>9, <1>13, <2>1, <2>2, <2>3, <2>4, <3>1 DEF UseAt
    <3>2. CASE u # t
      BY <1>3, <1>13, <2>1, <2>2, <2>3, <2>4, <2>5, <3>2 DEF UseAt
    <3> QED BY <3>1, <3>2
  <2> QED BY <2>6 DEF UseInv
<1>17. LockInv'
  <2>1. UNCHANGED <<plock, nlock, flock, sid, field, me>>
    BY <1>2 DEF lockVars, playerVars, callVars
  <2> QED BY <1>4, <2>1, LockKept DEF Locked, Checked
<1>18. FieldInv'
  BY <1>2, <1>4, FieldKept DEF playerVars, sessVars
<1> QED BY <1>10, <1>11, <1>12, <1>14, <1>15, <1>16, <1>17, <1>18

(* The player is locked; a thread in a handler that gets here is not serving  *)
(* that player.                                                               *)
LEMMA StepGoneLock ==
  ASSUME IInv, NEW t \in Threads, GoneLock(t)
  PROVE  IInv'
<1> USE DEF IInv
<1>1. PICK l : l = leaver[t]
  OBVIOUS
<1>2. /\ Step(t, "goneLock", "goneName") /\ plock[l] = None /\ plock' = [plock EXCEPT ![l] = t]
      /\ UNCHANGED <<sessVars, playerVars, tableVars, nlock, flock, jobVars, callVars, sendVars>>
  BY <1>1 DEF GoneLock, Lock
<1>3. /\ pc[t] = "goneLock" /\ pc'[t] = "goneName" /\ pc' \in [Threads -> Labels]
      /\ \A u \in Threads \ {t} : pc'[u] = pc[u]
      /\ \A u \in Threads : pc'[u] \in Working => pc[u] \in Working
      /\ KindAt(t)' /\ At(t)' = At(t) /\ \A u \in Threads \ {t} : Rests(u)
  <2>1. UNCHANGED <<sess, me, arg, job, to, ret, gone, leaver>>
    BY <1>2 DEF callVars, jobVars, sendVars
  <2> QED BY <1>2, <2>1, ClosingStep DEF Closing, Leaving
<1>4. l \in Players
  BY <1>1, <1>3 DEF UseInv, UseAt, Leaving
<1>5. TypeOK'
  <2>1. plock' \in [Players -> Threads \cup {None}]
    BY <1>2 DEF TypeOK
  <2> QED BY <1>2, <1>3, <2>1 DEF TypeOK, sessVars, playerVars, tableVars, jobVars, callVars, sendVars
<1>6. KindInv' /\ RefInv' /\ OwnInv' /\ StartInv' /\ UseInv'
  <2>1. UseAt(t)'
    <3>1. UNCHANGED <<sid, pool, players, sess, me, gone, leaver>>
      BY <1>2 DEF playerVars, tableVars, callVars, sendVars
    <3>2. Starting' => Starting
      BY <1>3 DEF Starting, Threads
    <3> QED BY <1>3, <3>1, <3>2 DEF UseInv, UseAt, Leaving
  <2>2. Starting => \A f \in Fields : me[Acceptor] \notin onField'[f]
    BY <1>2 DEF StartInv, tableVars
  <2>3. UNCHANGED <<keys, open, io, sess, to, gone, sid, players, pool>>
    BY <1>2 DEF sessVars, callVars, sendVars, playerVars, tableVars
  <2> QED BY <1>3, <2>1, <2>2, <2>3, Quiet DEF Closing, Leaving
<1>7. LockInv'
  <2>1. UNCHANGED <<nlock, flock, field, sid, me, leaver>>
    BY <1>2 DEF playerVars, callVars, sendVars
  <2>2. \A q \in Players : HasPlayer(t, q)' <=> HasPlayer(t, q) \/ q = l
    BY <1>1, <1>3, <2>1 DEF HasPlayer, Locked
  <2>3. At(t) \in InHandler \cup InJob => me[t] # l
    <3>1. HasPlayer(t, l) => plock[l] = t
      BY <1>4 DEF LockInv, LockAt
    <3>2. t # None
      BY ChatAssumption DEF Threads
    <3> QED BY <1>2, <3>1, <3>2 DEF HasPlayer
  <2> QED BY <1>1, <1>2, <1>3, <1>4, <2>1, <2>2, <2>3, LockTaken DEF Checked
<1>8. FieldInv'
  BY <1>2, <1>3, FieldKept DEF playerVars, tableVars, sessVars
<1> QED BY <1>5, <1>6, <1>7, <1>8

(* The nickname is erased.                                                    *)
LEMMA StepGoneName ==
  ASSUME IInv, NEW t \in Threads, GoneName(t)
  PROVE  IInv'
<1> USE DEF IInv
<1>1. /\ Step(t, "goneName", "goneField")
      /\ UNCHANGED <<sessVars, playerVars, players, onField, lockVars, jobVars, callVars, sendVars>>
  BY DEF GoneName
<1>2. /\ pc[t] = "goneName" /\ pc'[t] = "goneField" /\ pc' \in [Threads -> Labels]
      /\ \A u \in Threads \ {t} : pc'[u] = pc[u]
      /\ \A u \in Threads : pc'[u] \in Working => pc[u] \in Working
      /\ KindAt(t)' /\ At(t)' = At(t) /\ \A u \in Threads \ {t} : Rests(u)
  <2>1. UNCHANGED <<sess, me, arg, job, to, ret, gone, leaver>>
    BY <1>1 DEF callVars, jobVars, sendVars
  <2> QED BY <1>1, <2>1, ClosingStep DEF Closing, Leaving
<1>3. TypeOK'
  <2>1. names' \in [Names -> Players \cup {None}]
    BY DEF GoneName, TypeOK
  <2> QED BY <1>1, <1>2, <2>1 DEF TypeOK, sessVars, playerVars, lockVars, jobVars, callVars, sendVars
<1>4. KindInv' /\ RefInv' /\ OwnInv' /\ StartInv' /\ UseInv'
  <2>1. UseAt(t)'
    <3>1. UNCHANGED <<sid, pool, players, sess, me, gone, leaver>>
      BY <1>1 DEF playerVars, callVars, sendVars
    <3>2. Starting' => Starting
      BY <1>2 DEF Starting, Threads
    <3> QED BY <1>2, <3>1, <3>2 DEF UseInv, UseAt, Leaving
  <2>2. Starting => \A f \in Fields : me[Acceptor] \notin onField'[f]
    BY <1>1 DEF StartInv
  <2>3. UNCHANGED <<keys, open, io, sess, to, gone, sid, players, pool>>
    BY <1>1 DEF sessVars, callVars, sendVars, playerVars
  <2> QED BY <1>2, <2>1, <2>2, <2>3, Quiet DEF Closing, Leaving
<1>5. LockInv'
  <2>1. UNCHANGED <<plock, nlock, flock, field, sid, me, leaver>>
    BY <1>1 DEF lockVars, playerVars, callVars, sendVars
  <2> QED BY <1>2, <2>1, LockKept DEF Locked, Checked
<1>6. FieldInv'
  BY <1>1, <1>2, FieldKept DEF playerVars, sessVars
<1> QED BY <1>3, <1>4, <1>5, <1>6

(* The field's list is left: the player may be recycled.                      *)
LEMMA StepGoneField ==
  ASSUME IInv, NEW t \in Threads, GoneField(t)
  PROVE  IInv'
<1> USE DEF IInv
<1>1. PICK l : l = leaver[t]
  OBVIOUS
<1>2. /\ Step(t, "goneField", "goneFree") /\ LeaveField(l)
      /\ UNCHANGED <<sessVars, playerVars, players, names, lockVars, jobVars, callVars, sendVars>>
  BY <1>1 DEF GoneField
<1>3. /\ pc[t] = "goneField" /\ pc'[t] = "goneFree" /\ pc' \in [Threads -> Labels]
      /\ \A u \in Threads \ {t} : pc'[u] = pc[u]
      /\ \A u \in Threads : pc'[u] \in Working => pc[u] \in Working
      /\ KindAt(t)' /\ gone[t] \notin open
      /\ At(t)' = At(t) /\ \A u \in Threads \ {t} : Rests(u)
  <2>1. UNCHANGED <<sess, me, arg, job, to, ret, gone, leaver>>
    BY <1>2 DEF callVars, jobVars, sendVars
  <2> QED BY <1>2, <2>1, ClosingStep DEF Closing, Leaving
<1>4. l \in Players /\ sid[l] \notin open
  BY <1>1, <1>3 DEF UseInv, UseAt, Leaving
<1>5. /\ onField' \in [Fields -> SUBSET Players] /\ \A f \in Fields : onField'[f] = onField[f] \ {l}
  BY <1>2, <1>4, FieldLeft
<1>6. TypeOK'
  BY <1>2, <1>3, <1>5 DEF TypeOK, sessVars, playerVars, lockVars, jobVars, callVars, sendVars
<1>7. KindInv' /\ RefInv' /\ OwnInv' /\ StartInv' /\ UseInv'
  <2>1. UseAt(t)'
    <3>1. UNCHANGED <<sid, pool, players, sess, me, gone, leaver>>
      BY <1>2 DEF playerVars, callVars, sendVars
    <3>2. Starting' => Starting
      BY <1>3 DEF Starting, Threads
    <3> QED BY <1>3, <3>1, <3>2 DEF UseInv, UseAt, Leaving
  <2>2. Starting => \A f \in Fields : me[Acceptor] \notin onField'[f]
    BY <1>5 DEF StartInv
  <2>3. UNCHANGED <<keys, open, io, sess, to, gone, sid, players, pool>>
    BY <1>2 DEF sessVars, callVars, sendVars, playerVars
  <2> QED BY <1>3, <2>1, <2>2, <2>3, Quiet DEF Closing, Leaving
<1>8. LockInv'
  <2>1. UNCHANGED <<plock, nlock, flock, field, sid, me, leaver>>
    BY <1>2 DEF lockVars, playerVars, callVars, sendVars
  <2> QED BY <1>3, <2>1, LockKept DEF Locked, Checked
<1>9. FieldInv'
  <2>0. UNCHANGED <<pool, field, sid, open, me, leaver>>
    BY <1>2 DEF playerVars, sessVars, callVars, sendVars
  <2>1. \A q : Moving(q) => Moving(q)'
    BY <1>3, <2>0 DEF Moving, Threads
  <2>2. \A f \in Fields, p \in Players : p \in onField'[f] => p \notin pool' /\ field'[p] = f
    BY <1>5, <2>0 DEF FieldInv
  <2>3. ASSUME NEW p \in Players, sid[p] \in open, field[p] # NoField
        PROVE  p \in onField'[field[p]] \/ Moving(p)'
    <3>1. field[p] \in Fields /\ p # l
      BY <1>4, <2>3 DEF TypeOK
    <3>2. p \in onField[field[p]] \/ Moving(p)
      BY <2>3 DEF FieldInv
    <3> QED BY <1>5, <2>0, <2>1, <3>1, <3>2
  <2>4. \A f \in Fields, u \in Threads :
          /\ pc'[u] = "moveIn" => me'[u] \notin onField'[f]
          /\ pc'[u] = "goneFree" => leaver'[u] \notin onField'[f]
    BY <1>1, <1>3, <1>5, <2>0 DEF FieldInv
  <2> QED BY <2>0, <2>2, <2>3, <2>4 DEF FieldInv
<1> QED BY <1>6, <1>7, <1>8, <1>9

(* The player is free: no session, list, acceptor or other closing thread has *)
(* it.                                                                        *)
LEMMA StepGoneFree ==
  ASSUME IInv, NEW t \in Threads, GoneFree(t)
  PROVE  IInv'
<1> USE DEF IInv
<1>1. PICK l : l = leaver[t]
  OBVIOUS
<1>2. /\ Step(t, "goneFree", "goneUnlock") /\ pool' = pool \cup {l}
      /\ UNCHANGED <<sessVars, sid, nick, field, tableVars, lockVars, jobVars, callVars, sendVars>>
  BY <1>1 DEF GoneFree
<1>3. /\ pc[t] = "goneFree" /\ pc'[t] = "goneUnlock" /\ pc' \in [Threads -> Labels]
      /\ \A u \in Threads \ {t} : pc'[u] = pc[u]
      /\ \A u \in Threads : pc'[u] \in Working => pc[u] \in Working
      /\ KindAt(t)' /\ gone[t] \in Id \ open
      /\ At(t)' = At(t) /\ \A u \in Threads \ {t} : Rests(u)
  <2>1. UNCHANGED <<sess, me, arg, job, to, ret, gone, leaver>>
    BY <1>2 DEF callVars, jobVars, sendVars
  <2> QED BY <1>2, <2>1, ClosingStep DEF Closing, Leaving
<1>4. /\ l \in Players /\ sid[l] = gone[t] /\ \A i \in Id : players[i] # l
      /\ Starting => l # me[Acceptor]
      /\ \A f \in Fields : l \notin onField[f]
  BY <1>1, <1>3 DEF UseInv, UseAt, Leaving, FieldInv
<1>5. UNCHANGED <<keys, open, io, sid, field, players, onField, plock, nlock, flock, job>>
  BY <1>2 DEF sessVars, tableVars, lockVars, jobVars
<1>6. UNCHANGED <<sess, me, to, ret, gone, leaver>>
  BY <1>2 DEF callVars, sendVars
<1>7. TypeOK'
  BY <1>2, <1>3, <1>4 DEF TypeOK, sessVars, tableVars, lockVars, jobVars, callVars, sendVars
<1>8. KindInv'
  BY <1>3, KindOthers
<1>9. RefInv'
  BY <1>3, <1>5, <1>6, RefKept DEF Closing, Leaving
<1>10. Starting' <=> Starting
  BY <1>3 DEF Starting, Threads
<1>11. OwnInv'
  BY <1>2, <1>4, <1>5, <1>6, <1>10 DEF OwnInv
<1>12. StartInv'
  BY <1>2, <1>4, <1>5, <1>6, <1>10 DEF StartInv
<1>13. UseInv'
  <2>1. ASSUME NEW u \in Threads \ {t} PROVE UseAt(u)'
    <3>1. pc[u] \in Leaving => leaver[u] # l
      <4>1. pc[u] \in Leaving => gone[u] # gone[t] /\ sid[leaver[u]] = gone[u]
        BY <1>3 DEF RefInv, RefAt, UseInv, UseAt, Closing
      <4> QED BY <1>4, <4>1
    <3>2. At(u)' = At(u) /\ pc'[u] = pc[u]
      BY <1>3, RestsAt
    <3> QED BY <1>2, <1>5, <1>6, <1>10, <3>1, <3>2 DEF UseInv, UseAt
  <2>2. UseAt(t)'
    BY <1>1, <1>3, <1>4, <1>5, <1>6 DEF UseInv, UseAt, Leaving
  <2> QED BY <2>1, <2>2 DEF UseInv
<1>14. LockInv'
  BY <1>3, <1>5, <1>6, LockKept DEF Locked, Checked
<1>15. FieldInv'
  <2>1. \A q : Moving(q) => Moving(q)'
    BY <1>3, <1>6 DEF Moving, Threads
  <2>2. \A f \in Fields, u \in Threads :
          /\ pc'[u] = "moveIn" => me[u] \notin onField[f]
          /\ pc'[u] = "goneFree" => leaver[u] \notin onField[f]
    BY <1>3 DEF FieldInv
  <2> QED BY <1>2, <1>4, <1>5, <1>6, <2>1, <2>2 DEF FieldInv
<1> QED BY <1>7, <1>8, <1>9, <1>11, <1>12, <1>13, <1>14, <1>15

(* The player is unlocked, and the thread goes on where SendPacket was        *)
(* called.                                                                    *)
LEMMA StepGoneUnlock ==
  ASSUME IInv, NEW t \in Threads, GoneUnlock(t)
  PROVE  IInv'
<1> USE DEF IInv
<1>1. PICK l, next : l = leaver[t] /\ next = ret[t]
  OBVIOUS
<1>2. /\ Step(t, "goneUnlock", next) /\ plock' = [plock EXCEPT ![l] = None]
      /\ gone' = [gone EXCEPT ![t] = NoId] /\ leaver' = [leaver EXCEPT ![t] = None]
      /\ ret' = [ret EXCEPT ![t] = "idle"]
      /\ UNCHANGED <<sessVars, playerVars, tableVars, nlock, flock, jobVars, callVars, to>>
  BY <1>1 DEF GoneUnlock, Unlock
<1>3. pc[t] = "goneUnlock" /\ At(t) = next /\ next \in {"idle", "chat", "whisperEnd", "jobUnlock"}
  BY <1>1, <1>2 DEF Step, At, Away, Closing, KindInv, KindAt
<1>4. /\ pc'[t] = next /\ pc' \in [Threads -> Labels] /\ \A u \in Threads \ {t} : pc'[u] = pc[u]
      /\ At(t)' = next
  <2>1. next \in Labels
    BY <1>3 DEF Labels
  <2>2. pc'[t] = next /\ pc' \in [Threads -> Labels] /\ \A u \in Threads \ {t} : pc'[u] = pc[u]
    BY <1>2, <2>1, Stepped
  <2> QED BY <1>3, <2>2 DEF At, Away, Closing, Leaving
<1>5. /\ gone' \in [Threads -> Id \cup {NoId}] /\ leaver' \in [Threads -> Players \cup {None}]
      /\ ret' \in [Threads -> Labels] /\ gone'[t] = NoId
      /\ \A u \in Threads \ {t} : gone'[u] = gone[u] /\ leaver'[u] = leaver[u] /\ ret'[u] = ret[u]
  <2>1. "idle" \in Labels
    BY DEF Labels
  <2> QED BY <1>2, <2>1 DEF TypeOK
<1>6. \A u \in Threads \ {t} : Rests(u)
  BY <1>2, <1>4, <1>5 DEF Rests, callVars, jobVars
<1>7. UNCHANGED <<keys, open, io, sid, field, pool, players, onField, nlock, flock, job>>
  BY <1>2 DEF sessVars, playerVars, tableVars, jobVars
<1>8. UNCHANGED <<sess, me, to>>
  BY <1>2 DEF callVars
<1>9. /\ l \in Players
      /\ At(t) \in InHandler \cup InJob => me[t] \in Players /\ me[t] # l
      /\ plock[l] = t
  <2>1. l \in Players /\ HasPlayer(t, l)
    BY <1>1, <1>3 DEF UseInv, UseAt, HasPlayer, Locked
  <2>2. At(t) \in InHandler \cup InJob => me[t] \in Players /\ me[t] # l
    BY <1>1, <1>3 DEF LockInv, LockAt, Locked, UseInv, UseAt
  <2> QED BY <2>1, <2>2 DEF LockInv, LockAt
<1>10. TypeOK'
  <2>1. \A u \in Threads : pc'[u] \in Working => me[u] \in Players
    <3>1. pc'[t] \in Working => me[t] \in Players
      BY <1>3, <1>4, <1>9 DEF Working, InHandler, InJob
    <3> QED BY <1>4, <3>1 DEF TypeOK
  <2>2. plock' \in [Players -> Threads \cup {None}]
    BY <1>2 DEF TypeOK
  <2> QED BY <1>2, <1>4, <1>5, <2>1, <2>2 DEF TypeOK, sessVars, playerVars, tableVars, jobVars, callVars
<1>11. KindInv'
  <2>1. KindAt(t)'
    BY <1>3, <1>4 DEF KindInv, KindAt, InHandler, InJob, Away, Closing, Leaving, Checked
  <2> QED BY <1>6, <2>1, KindOthers
<1>12. RefInv'
  <2>1. ASSUME NEW u \in Threads \ {t} PROVE RefAt(u)'
    <3>1. At(u)' = At(u) /\ pc'[u] = pc[u] /\ gone'[u] = gone[u]
      BY <1>6, RestsAt DEF Rests
    <3>2. gone[u] # NoId => gone[u] \in 1 .. keys \ open /\ \A v \in Threads \ {u} : gone'[v] # gone[u]
      BY <1>5 DEF RefInv, RefAt
    <3> QED BY <1>7, <1>8, <3>1, <3>2 DEF RefInv, RefAt
  <2>2. RefAt(t)'
    <3>1. pc[t] # "send" /\ pc'[t] \notin Closing \cup {"send"}
      BY <1>3, <1>4 DEF Closing, Leaving
    <3> QED BY <1>3, <1>4, <1>5, <1>7, <1>8, <3>1 DEF RefInv, RefAt
  <2> QED BY <1>7, <2>1, <2>2 DEF RefInv
<1>13. Starting' <=> Starting
  BY <1>3, <1>4 DEF Starting, Threads
<1>14. OwnInv'
  BY <1>7, <1>8, <1>13, OwnKept
<1>15. StartInv'
  BY <1>7, <1>8, <1>13, StartKept DEF StartInv
<1>16. UseInv'
  <2>1. UseAt(t)'
    BY <1>3, <1>4, <1>7, <1>8 DEF UseInv, UseAt, Leaving
  <2> QED BY <1>6, <1>7, <1>8, <1>13, <2>1, UseOthers
<1>17. LockInv'
  <2>1. \A q \in Players : HasPlayer(t, q)' <=> HasPlayer(t, q) /\ q # l
    BY <1>1, <1>3, <1>4, <1>8, <1>9 DEF HasPlayer, Locked
  <2> QED BY <1>2, <1>3, <1>4, <1>6, <1>7, <1>8, <1>9, <2>1, LockReleased DEF Locked, Checked
<1>18. FieldInv'
  BY <1>3, <1>4, <1>6, <1>7, FieldKept
<1> QED BY <1>10, <1>11, <1>12, <1>14, <1>15, <1>16, <1>17, <1>18

-----------------------------------------------------------------------------
(* The acceptor, and what begins and ends a handler.                         *)

(* A free player is taken for a new session; nobody knows that session yet.   *)
LEMMA StepAccept ==
  ASSUME IInv, NEW p \in Players, Accept(p)
  PROVE  IInv'
<1> USE DEF IInv
<1>0. /\ Acceptor \in Threads /\ Acceptor \notin Workers /\ Acceptor \notin DbThreads
      /\ None \notin Players
  BY ChatAssumption DEF Threads
<1>1. PICK k : k = keys + 1
  OBVIOUS
<1>2. /\ p \in pool /\ keys < MaxKey /\ Step(Acceptor, "idle", "init")
      /\ keys' = k /\ open' = open \cup {k} /\ pool' = pool \ {p}
      /\ sess' = [sess EXCEPT ![Acceptor] = k] /\ me' = [me EXCEPT ![Acceptor] = p]
      /\ UNCHANGED <<calls, io, sid, nick, field, tableVars, lockVars, jobVars, arg, todo, sendVars>>
  BY <1>1 DEF Accept
<1>3. /\ k \in Id /\ k = keys + 1 /\ k # NoId /\ keys \in Nat /\ MaxKey \in Nat
      /\ 1 .. keys \subseteq 1 .. k /\ k \notin 1 .. keys
  <2>1. keys \in 0 .. MaxKey /\ MaxKey \in Nat
    BY ChatAssumption DEF TypeOK
  <2> QED BY <1>1, <1>2, <2>1 DEF Id, NoId
<1>4. /\ pc[Acceptor] = "idle" /\ pc'[Acceptor] = "init" /\ pc' \in [Threads -> Labels]
      /\ \A u \in Threads \ {Acceptor} : pc'[u] = pc[u]
  BY <1>0, <1>2, Stepped DEF Labels
<1>5. /\ sess' \in [Threads -> Id \cup {NoId}] /\ me' \in [Threads -> Players \cup {None}]
      /\ sess'[Acceptor] = k /\ me'[Acceptor] = p
      /\ \A u \in Threads \ {Acceptor} : sess'[u] = sess[u] /\ me'[u] = me[u]
  BY <1>0, <1>2, <1>3 DEF TypeOK
<1>6. /\ At(Acceptor) = "idle" /\ At(Acceptor)' = "init"
      /\ \A u \in Threads \ {Acceptor} : Rests(u)
  BY <1>2, <1>4, <1>5 DEF At, Away, Closing, Leaving, Rests, sendVars, jobVars
<1>7. UNCHANGED <<sid, field, io, players, onField, plock, nlock, flock, job, to, ret, gone, leaver>>
  BY <1>2 DEF tableVars, lockVars, jobVars, sendVars
<1>8. TypeOK'
  <2>1. keys' \in 0 .. MaxKey /\ open' \subseteq Id /\ pool' \subseteq Players
    BY <1>2, <1>3 DEF TypeOK, Id
  <2> QED BY <1>2, <1>4, <1>5, <2>1 DEF TypeOK, tableVars, lockVars, jobVars, sendVars
<1>9. KindInv'
  <2>1. KindAt(Acceptor)'
    BY <1>0, <1>4, <1>6 DEF KindAt, Away, Closing, Leaving, Checked
  <2> QED BY <1>0, <1>6, <2>1, KindOthers
<1>10. RefInv'
  <2>0. /\ open \subseteq 1 .. keys /\ io \subseteq open
        /\ \A u \in Threads : sess[u] # k /\ gone[u] # k
    BY <1>3 DEF RefInv, RefAt
  <2>1. ASSUME NEW u \in Threads \ {Acceptor} PROVE RefAt(u)'
    <3>1. At(u)' = At(u) /\ pc'[u] = pc[u] /\ sess'[u] = sess[u]
      BY <1>6, RestsAt DEF Rests
    <3>2. sess[u] # NoId => sess[u] \in open' \ io /\ \A v \in Threads \ {u} : sess'[v] # sess[u]
      BY <1>2, <1>5, <2>0 DEF RefInv, RefAt
    <3>3. gone[u] # NoId => gone[u] \in 1 .. keys' \ open' /\ \A v \in Threads \ {u} : gone[v] # gone[u]
      BY <1>2, <1>3, <2>0 DEF RefInv, RefAt
    <3> QED BY <1>2, <1>7, <3>1, <3>2, <3>3 DEF RefInv, RefAt
  <2>2. RefAt(Acceptor)'
    <3>1. k \in open' \ io /\ \A u \in Threads \ {Acceptor} : sess'[u] # k
      BY <1>2, <1>3, <1>5, <2>0
    <3>2. to[Acceptor] = NoId /\ gone[Acceptor] = NoId
      BY <1>0, <1>4 DEF RefInv, RefAt, Closing, Leaving
    <3> QED BY <1>3, <1>4, <1>5, <1>6, <1>7, <3>1, <3>2 DEF RefAt, Serving, Closing, Leaving
  <2>3. io' \subseteq open' /\ open' \subseteq 1 .. keys'
    BY <1>2, <1>3, <1>7, <2>0
  <2> QED BY <2>1, <2>2, <2>3 DEF RefInv
<1>11. Starting' /\ ~Starting
  BY <1>4 DEF Starting
<1>12. \A q \in Players : sid[q] \in Int /\ sid[q] <= keys
  BY DEF TypeOK, OwnInv, Id, NoId
<1>13. OwnInv'
  <2>1. \A q \in Players : sid[q] <= k
    BY <1>3, <1>12
  <2>2. \A i \in Id : players[i] # None => players[i] \notin pool' /\ sid[players[i]] = i
    BY <1>2 DEF OwnInv
  <2>3. \A i \in open' : players[i] # None \/ i = k
    BY <1>2, <1>11 DEF OwnInv
  <2> QED BY <1>2, <1>5, <1>7, <1>11, <2>1, <2>2, <2>3 DEF OwnInv
<1>14. StartInv'
  <2>1. \A q \in Players : sid[q] # k
    BY <1>3, <1>12
  <2>2. \A i \in Id : players[i] # p
    BY <1>0, <1>2 DEF OwnInv
  <2>3. \A f \in Fields : p \notin onField[f]
    BY <1>2 DEF FieldInv
  <2> QED BY <1>2, <1>5, <1>7, <2>1, <2>2, <2>3 DEF StartInv
<1>15. UseInv'
  <2>1. ASSUME NEW u \in Threads \ {Acceptor} PROVE UseAt(u)'
    <3>1. At(u)' = At(u) /\ pc'[u] = pc[u] /\ sess'[u] = sess[u] /\ me'[u] = me[u]
      BY <1>6, RestsAt DEF Rests
    <3>2. pc[u] \in Leaving => leaver[u] # p /\ leaver[u] \notin pool'
      BY <1>2 DEF UseInv, UseAt
    <3> QED BY <1>5, <1>7, <3>1, <3>2 DEF UseInv, UseAt
  <2>2. UseAt(Acceptor)'
    BY <1>4, <1>6 DEF UseAt, InHandler, InJob, Leaving
  <2> QED BY <2>1, <2>2 DEF UseInv
<1>16. LockInv'
  <2>1. \A f \in Fields : \A u \in flock[f] : field'[me[u]] = field[me[u]]
    BY <1>7
  <2> QED BY <1>0, <1>4, <1>6, <1>7, <2>1, LockKept DEF InHandler, InJob, Locked, Checked
<1>17. FieldInv'
  <2>1. \A q : Moving(q) => Moving(q)'
    BY <1>0, <1>4, <1>5 DEF Moving, Threads
  <2>2. \A f \in Fields, u \in Threads :
          /\ pc'[u] = "moveIn" => me'[u] \notin onField[f]
          /\ pc'[u] = "goneFree" => leaver[u] \notin onField[f]
    BY <1>4, <1>5 DEF FieldInv
  <2>3. \A q \in Players : sid[q] \in open' => sid[q] \in open
    BY <1>2, <1>3, <1>12
  <2> QED BY <1>2, <1>7, <2>1, <2>2, <2>3 DEF FieldInv
<1> QED BY <1>8, <1>9, <1>10, <1>13, <1>14, <1>15, <1>16, <1>17

(* The player becomes the session's: nobody has its lock, and no list has it. *)
LEMMA StepInitPlayer ==
  ASSUME IInv, InitPlayer
  PROVE  IInv'
<1> USE DEF IInv
<1>0. /\ Acceptor \in Threads /\ Acceptor \notin Workers /\ Acceptor \notin DbThreads
      /\ None \notin Players /\ None \notin Threads /\ NoField \notin Fields
  BY ChatAssumption DEF Threads, NoField
<1>1. PICK k, p : k = sess[Acceptor] /\ p = me[Acceptor]
  OBVIOUS
<1>2. /\ Step(Acceptor, "init", "release") /\ plock[p] = None
      /\ sid' = [sid EXCEPT ![p] = k] /\ field' = [field EXCEPT ![p] = NoField]
      /\ players' = [players EXCEPT ![k] = p] /\ me' = [me EXCEPT ![Acceptor] = None]
      /\ UNCHANGED <<sessVars, nick, pool, names, onField, lockVars, jobVars, sess, arg, todo, sendVars>>
  BY <1>1 DEF InitPlayer, InitIf
<1>3. /\ pc[Acceptor] = "init" /\ pc'[Acceptor] = "release" /\ pc' \in [Threads -> Labels]
      /\ \A u \in Threads \ {Acceptor} : pc'[u] = pc[u]
  BY <1>0, <1>2, Stepped DEF Labels
<1>4. /\ Starting /\ ~Starting' /\ k = keys /\ p \in Players \ pool
      /\ \A i \in Id : players[i] # p
      /\ \A f \in Fields : p \notin onField[f]
  BY <1>1, <1>3 DEF Starting, StartInv
<1>5. At(Acceptor) = "init" /\ At(Acceptor)' = "release"
  BY <1>3 DEF At, Away, Closing, Leaving
<1>6. k \in Id /\ k \in open /\ k # NoId
  BY <1>0, <1>1, <1>5 DEF RefInv, RefAt, Serving, TypeOK
<1>7. /\ sid' \in [Players -> Id \cup {NoId}] /\ sid'[p] = k /\ \A q \in Players \ {p} : sid'[q] = sid[q]
      /\ field' \in [Players -> Fields \cup {NoField}] /\ field'[p] = NoField
      /\ \A q \in Players \ {p} : field'[q] = field[q]
      /\ players' \in [Id -> Players \cup {None}] /\ players'[k] = p
      /\ \A i \in Id \ {k} : players'[i] = players[i]
      /\ me' \in [Threads -> Players \cup {None}] /\ \A u \in Threads \ {Acceptor} : me'[u] = me[u]
  BY <1>0, <1>2, <1>4, <1>6 DEF TypeOK
<1>8. \A u \in Threads \ {Acceptor} : Rests(u)
  BY <1>2, <1>3, <1>7 DEF Rests, sendVars, jobVars
<1>9. UNCHANGED <<keys, open, io, pool, onField, plock, nlock, flock, job, sess, to, gone, leaver>>
  BY <1>2 DEF sessVars, lockVars, jobVars, sendVars
<1>10. \A u \in Threads : ~HasPlayer(u, p)
  BY <1>0, <1>2, <1>4 DEF LockInv, LockAt
<1>11. TypeOK'
  BY <1>2, <1>3, <1>7 DEF TypeOK, sessVars, lockVars, jobVars, sendVars, Working
<1>12. KindInv'
  <2>1. KindAt(Acceptor)'
    BY <1>0, <1>3, <1>5 DEF KindAt, InHandler, Away, Closing, Leaving, Checked
  <2> QED BY <1>0, <1>8, <2>1, KindOthers
<1>13. RefInv'
  BY <1>0, <1>3, <1>5, <1>8, <1>9, RefKept DEF Serving, Closing, Leaving
<1>14. OwnInv'
  <2>1. \A q \in Players : sid'[q] <= keys
    <3>1. keys <= keys
      BY DEF TypeOK
    <3> QED BY <1>4, <1>7, <3>1 DEF OwnInv
  <2>2. \A i \in Id : players'[i] # None => players'[i] \notin pool /\ sid'[players'[i]] = i
    <3>1. \A i \in Id \ {k} : players[i] # None =>
            players[i] \in Players \ {p} /\ players[i] \notin pool /\ sid[players[i]] = i
      BY <1>4 DEF OwnInv, TypeOK
    <3> QED BY <1>4, <1>7, <3>1
  <2>3. \A i \in open : players'[i] # None
    BY <1>0, <1>1, <1>4, <1>7 DEF OwnInv, TypeOK
  <2> QED BY <1>9, <2>1, <2>2, <2>3 DEF OwnInv
<1>15. StartInv'
  BY <1>4 DEF StartInv
<1>16. UseInv'
  <2>1. ASSUME NEW u \in Threads \ {Acceptor} PROVE UseAt(u)'
    <3>1. At(u)' = At(u) /\ pc'[u] = pc[u] /\ me'[u] = me[u]
      BY <1>8, RestsAt DEF Rests
    <3>2. At(u) \in {"lock"} \cup InHandler => me[u] \in Players /\ players'[sess[u]] = me[u]
      <4>1. At(u) \in {"lock"} \cup InHandler => sess[u] # k /\ sess[u] \in Id
        BY <1>0, <1>1, InUse, <1>6 DEF RefInv, RefAt, TypeOK
      <4> QED BY <1>7, <4>1 DEF UseInv, UseAt
    <3>3. pc[u] = "find" => players'[gone[u]] # None
      <4>1. pc[u] = "find" => gone[u] \in Id /\ gone[u] # k
        BY <1>6 DEF RefInv, RefAt, Closing, TypeOK
      <4> QED BY <1>7, <4>1 DEF UseInv, UseAt
    <3>4. pc[u] \in Leaving => /\ leaver[u] \in Players \ pool /\ sid'[leaver[u]] = gone[u]
                               /\ \A i \in Id : players'[i] # leaver[u]
      <4>1. pc[u] \in Leaving => leaver[u] \in Players \ {p}
        BY <1>1, <1>4 DEF UseInv, UseAt
      <4> QED BY <1>7, <4>1 DEF UseInv, UseAt
    <3> QED BY <1>4, <1>9, <3>1, <3>2, <3>3, <3>4 DEF UseInv, UseAt
  <2>2. UseAt(Acceptor)'
    BY <1>3, <1>5 DEF UseAt, InHandler, InJob, Leaving
  <2> QED BY <2>1, <2>2 DEF UseInv
<1>17. LockInv'
  <2>1. \A u \in Threads : At(u)' = At(u) \/ (At(u) = "init" /\ At(u)' = "release")
    <3>1. \A u \in Threads \ {Acceptor} : At(u)' = At(u)
      BY <1>8, RestsAt
    <3> QED BY <1>5, <3>1
  <2>2. \A u \in Threads : \A q : HasPlayer(u, q)' <=> HasPlayer(u, q)
    <3>1. \A q : ~HasPlayer(Acceptor, q) /\ ~HasPlayer(Acceptor, q)'
      BY <1>3, <1>5 DEF HasPlayer, InHandler, InJob, Locked
    <3> QED BY <1>8, <3>1, RestsAt
  <2>3. ASSUME NEW u \in Threads PROVE LockAt(u)'
    <3>1. \A q \in Players : HasPlayer(u, q)' => plock[q] = u
      BY <2>2 DEF LockInv, LockAt
    <3>2. At(u)' \in InHandler \cup InJob /\ pc'[u] \in Locked => me'[u] # leaver[u]
      <4>1. u = Acceptor => At(u)' \notin InHandler \cup InJob
        BY <1>5 DEF InHandler, InJob
      <4>2. u # Acceptor => At(u)' = At(u) /\ pc'[u] = pc[u] /\ me'[u] = me[u]
        BY <1>8, RestsAt DEF Rests
      <4> QED BY <4>1, <4>2 DEF LockInv, LockAt
    <3>3. pc'[u] \in Checked => sid'[me'[u]] = job[u].id
      <4>1. pc'[u] \in Checked => u # Acceptor /\ pc[u] \in Checked /\ me'[u] = me[u]
        BY <1>3, <1>7 DEF Checked
      <4>2. pc[u] \in Checked => HasPlayer(u, me[u]) /\ me[u] \in Players
        BY DEF Checked, HasPlayer, At, Away, Closing, Leaving, InJob, UseInv, UseAt
      <4> QED BY <1>7, <1>10, <4>1, <4>2 DEF LockInv, LockAt
    <3> QED BY <1>9, <3>1, <3>2, <3>3 DEF LockAt
  <2>4. ASSUME NEW q \in Players, NEW u, u = plock[q], u # None PROVE HasPlayer(u, q)'
    <3>1. u \in Threads /\ HasPlayer(u, q)
      BY <2>4 DEF LockInv, TypeOK
    <3> QED BY <2>2, <3>1
  <2>5. ASSUME NEW u, u = nlock, u # None PROVE At(u)' = "whisperEnd"
    BY <2>1, <2>5 DEF LockInv, TypeOK
  <2>6. ASSUME NEW g \in Fields, NEW u \in flock[g] PROVE At(u)' = "chat" /\ field'[me'[u]] = g
    <3>1. u \in Threads /\ u # Acceptor /\ At(u) = "chat" /\ field[me[u]] = g
      BY <1>0 DEF LockInv, TypeOK, Threads
    <3>2. HasPlayer(u, me[u]) /\ me[u] \in Players
      BY <3>1 DEF HasPlayer, InHandler, UseInv, UseAt
    <3> QED BY <1>7, <1>10, <2>1, <3>1, <3>2
  <2> QED BY <1>9, <2>3, <2>4, <2>5, <2>6 DEF LockInv
<1>18. FieldInv'
  <2>1. \A q : Moving(q) => Moving(q)'
    BY <1>0, <1>3, <1>7 DEF Moving, Threads
  <2>2. \A f \in Fields, q \in Players : q \in onField[f] => q \notin pool /\ field'[q] = f
    BY <1>4, <1>7 DEF FieldInv
  <2>3. \A q \in Players : sid'[q] \in open /\ field'[q] # NoField =>
          q \in onField[field'[q]] \/ Moving(q)'
    BY <1>7, <2>1 DEF FieldInv
  <2>4. \A f \in Fields, u \in Threads :
          /\ pc'[u] = "moveIn" => me'[u] \notin onField[f]
          /\ pc'[u] = "goneFree" => leaver[u] \notin onField[f]
    BY <1>3, <1>7 DEF FieldInv
  <2> QED BY <1>9, <2>2, <2>3, <2>4 DEF FieldInv
<1> QED BY <1>11, <1>12, <1>13, <1>14, <1>15, <1>16, <1>17, <1>18

(* The handler's reference becomes the next recv's.                           *)
LEMMA StepRepost ==
  ASSUME IInv, NEW t \in Threads, Repost(t)
  PROVE  IInv'
<1> USE DEF IInv
<1>1. PICK i : i = sess[t]
  OBVIOUS
<1>2. /\ Step(t, "release", "idle") /\ io' = io \cup {i} /\ sess' = [sess EXCEPT ![t] = NoId]
      /\ UNCHANGED <<keys, calls, open, playerVars, tableVars, lockVars, jobVars, me, arg, todo, sendVars>>
  BY <1>1 DEF Repost
<1>3. /\ pc[t] = "release" /\ pc'[t] = "idle" /\ pc' \in [Threads -> Labels]
      /\ \A u \in Threads \ {t} : pc'[u] = pc[u]
  BY <1>2, Stepped DEF Labels
<1>4. At(t) = "release" /\ At(t)' = "idle"
  BY <1>3 DEF At, Away, Closing, Leaving
<1>5. i \in open /\ i \in Id /\ \A u \in Threads \ {t} : sess[u] # i
  BY <1>1, <1>4 DEF RefInv, RefAt, Serving, TypeOK
<1>6. /\ sess' \in [Threads -> Id \cup {NoId}] /\ sess'[t] = NoId
      /\ \A u \in Threads \ {t} : sess'[u] = sess[u]
  BY <1>2 DEF TypeOK
<1>7. \A u \in Threads \ {t} : Rests(u)
  BY <1>2, <1>3, <1>6 DEF Rests, sendVars, jobVars
<1>8. UNCHANGED <<keys, open, sid, field, pool, players, onField, plock, nlock, flock, job>>
  BY <1>2 DEF playerVars, tableVars, lockVars, jobVars
<1>9. UNCHANGED <<me, to, gone, leaver>>
  BY <1>2 DEF sendVars
<1>10. TypeOK'
  BY <1>2, <1>3, <1>5, <1>6 DEF TypeOK, playerVars, tableVars, lockVars, jobVars, sendVars, Working
<1>11. KindInv'
  <2>1. KindAt(t)'
    BY <1>3, <1>4 DEF KindAt, Away, Closing, Leaving, Checked
  <2> QED BY <1>7, <2>1, KindOthers
<1>12. RefInv'
  <2>1. ASSUME NEW u \in Threads \ {t} PROVE RefAt(u)'
    <3>1. At(u)' = At(u) /\ pc'[u] = pc[u] /\ sess'[u] = sess[u]
      BY <1>7, RestsAt DEF Rests
    <3>2. sess[u] # NoId => sess[u] \in open \ io' /\ \A v \in Threads \ {u} : sess'[v] # sess[u]
      BY <1>2, <1>5, <1>6 DEF RefInv, RefAt
    <3> QED BY <1>8, <1>9, <3>1, <3>2 DEF RefInv, RefAt
  <2>2. RefAt(t)'
    BY <1>3, <1>4, <1>6, <1>8, <1>9 DEF RefInv, RefAt, Serving, InHandler, Closing, Leaving
  <2> QED BY <1>2, <1>5, <1>8, <2>1, <2>2 DEF RefInv
<1>13. (Starting' <=> Starting) /\ (Starting => t # Acceptor)
  BY <1>3 DEF Starting, Threads
<1>14. OwnInv'
  BY <1>6, <1>8, <1>13, OwnKept DEF Threads
<1>15. StartInv'
  BY <1>6, <1>8, <1>9, <1>13, StartKept DEF StartInv, Threads
<1>16. UseInv'
  <2>1. UseAt(t)'
    BY <1>3, <1>4 DEF UseAt, InHandler, InJob, Leaving
  <2> QED BY <1>7, <1>8, <1>9, <1>13, <2>1, UseOthers
<1>17. LockInv'
  BY <1>3, <1>4, <1>7, <1>8, <1>9, LockKept DEF InHandler, InJob, Locked, Checked
<1>18. FieldInv'
  BY <1>3, <1>7, <1>8, FieldKept
<1> QED BY <1>10, <1>11, <1>12, <1>14, <1>15, <1>16, <1>17, <1>18

(* A completed recv's reference becomes the worker's.                         *)
LEMMA Receiving ==
  ASSUME IInv, NEW w \in Workers, NEW i \in io, NEW next \in {"lock", "left"},
         Step(w, "idle", next), io' = io \ {i}, calls' \in 0 .. MaxCalls,
         sess' = [sess EXCEPT ![w] = i],
         me' = IF next = "lock" THEN [me EXCEPT ![w] = players[i]] ELSE me,
         UNCHANGED <<keys, open, playerVars, tableVars, lockVars, jobVars, arg, todo, sendVars>>
  PROVE  IInv'
<1> USE DEF IInv
<1>0. w \in Threads /\ w # Acceptor /\ w \notin DbThreads /\ Acceptor \in Threads
  BY ChatAssumption DEF Threads
<1>1. /\ pc[w] = "idle" /\ pc'[w] = next /\ pc' \in [Threads -> Labels]
      /\ \A u \in Threads \ {w} : pc'[u] = pc[u]
  <2>1. next \in Labels
    BY DEF Labels
  <2> QED BY <1>0, <2>1, Stepped
<1>2. At(w) = "idle" /\ At(w)' = next
  BY <1>1 DEF At, Away, Closing, Leaving
<1>3. /\ i \in open /\ i \in Id /\ i # NoId /\ \A u \in Threads : sess[u] # i
  BY DEF RefInv, RefAt, TypeOK, Id, NoId
<1>4. players[i] \in Players
  <2>1. players[i] # None
    BY <1>0, <1>3 DEF OwnInv
  <2> QED BY <1>3, <2>1 DEF TypeOK
<1>5. /\ sess' \in [Threads -> Id \cup {NoId}] /\ sess'[w] = i
      /\ \A u \in Threads \ {w} : sess'[u] = sess[u]
  BY <1>0, <1>3 DEF TypeOK
<1>6. /\ me' \in [Threads -> Players \cup {None}]
      /\ next = "lock" => me'[w] = players[i]
  BY <1>0, <1>4 DEF TypeOK
<1>7. \A u \in Threads \ {w} : me'[u] = me[u]
  BY DEF TypeOK
<1>8. \A u \in Threads \ {w} : Rests(u)
  BY <1>1, <1>5, <1>7 DEF Rests, sendVars, jobVars
<1>9. UNCHANGED <<keys, open, sid, field, pool, players, onField, plock, nlock, flock, job>>
  BY DEF playerVars, tableVars, lockVars, jobVars
<1>10. UNCHANGED <<to, gone, leaver>>
  BY DEF sendVars
<1>11. TypeOK'
  <2>1. \A u \in Threads : pc'[u] \in Working => me'[u] \in Players
    BY <1>1, <1>4, <1>6, <1>7 DEF TypeOK, Working
  <2>2. io' \subseteq Id
    BY DEF TypeOK
  <2> QED BY <1>1, <1>5, <1>6, <2>1, <2>2 DEF TypeOK, playerVars, tableVars, lockVars, jobVars, sendVars
<1>12. KindInv'
  <2>1. KindAt(w)'
    BY <1>0, <1>1, <1>2 DEF KindAt, Away, Closing, Leaving, Checked
  <2> QED BY <1>0, <1>8, <2>1, KindOthers
<1>13. RefInv'
  <2>1. ASSUME NEW u \in Threads \ {w} PROVE RefAt(u)'
    <3>1. At(u)' = At(u) /\ pc'[u] = pc[u] /\ sess'[u] = sess[u]
      BY <1>8, RestsAt DEF Rests
    <3>2. sess[u] # NoId => sess[u] \in open \ io' /\ \A v \in Threads \ {u} : sess'[v] # sess[u]
      BY <1>3, <1>5 DEF RefInv, RefAt
    <3> QED BY <1>9, <1>10, <3>1, <3>2 DEF RefInv, RefAt
  <2>2. RefAt(w)'
    <3>1. i \in open \ io' /\ \A u \in Threads \ {w} : sess'[u] # i
      BY <1>3, <1>5
    <3>2. to[w] = NoId /\ gone[w] = NoId
      BY <1>0, <1>1 DEF RefInv, RefAt, Closing, Leaving
    <3> QED BY <1>1, <1>2, <1>3, <1>5, <1>9, <1>10, <3>1, <3>2 DEF RefAt, Serving, Closing, Leaving
  <2> QED BY <1>9, <2>1, <2>2 DEF RefInv
<1>14. (Starting' <=> Starting) /\ sess'[Acceptor] = sess[Acceptor] /\ me'[Acceptor] = me[Acceptor]
  BY <1>0, <1>1, <1>5, <1>7 DEF Starting
<1>15. OwnInv'
  BY <1>9, <1>14, OwnKept
<1>16. StartInv'
  BY <1>9, <1>14, StartKept DEF StartInv
<1>17. UseInv'
  <2>1. UseAt(w)'
    <3>1. At(w)' \in {"lock"} \cup InHandler => me'[w] \in Players /\ players'[sess'[w]] = me'[w]
      <4>1. At(w)' \in {"lock"} \cup InHandler => next = "lock"
        BY <1>2 DEF InHandler
      <4>2. players' = players
        BY <1>9
      <4> QED BY <1>4, <1>5, <1>6, <4>1, <4>2
    <3>2. At(w)' \notin {"jobLock"} \cup InJob /\ pc'[w] \notin {"find", "goneUnlock"} \cup Leaving
      BY <1>1, <1>2 DEF InJob, Leaving
    <3> QED BY <3>1, <3>2 DEF UseAt
  <2> QED BY <1>0, <1>8, <1>9, <1>14, <2>1, UseOthers
<1>18. LockInv'
  <2>1. \A f \in Fields : \A u \in flock[f] : field'[me[u]] = field[me[u]]
    BY <1>9
  <2> QED BY <1>0, <1>1, <1>2, <1>8, <1>9, <1>10, <2>1, LockKept DEF InHandler, InJob, Locked, Checked
<1>19. FieldInv'
  BY <1>0, <1>1, <1>8, <1>9, FieldKept
<1> QED BY <1>11, <1>12, <1>13, <1>15, <1>16, <1>17, <1>18, <1>19

(* A packet has come.                                                         *)
LEMMA StepOnRecv ==
  ASSUME IInv, NEW w \in Workers, NEW i \in io, OnRecv(w, i)
  PROVE  IInv'
<1>1. calls' \in 0 .. MaxCalls
  BY ChatAssumption DEF IInv, TypeOK, OnRecv
<1>2. me' = IF "lock" = "lock" THEN [me EXCEPT ![w] = players[i]] ELSE me
  BY DEF OnRecv
<1> QED BY <1>1, <1>2, Receiving DEF OnRecv

(* The client has left.                                                       *)
LEMMA StepOnLeft ==
  ASSUME IInv, NEW w \in Workers, NEW i \in io, OnLeft(w, i)
  PROVE  IInv'
<1>1. calls' \in 0 .. MaxCalls
  BY DEF IInv, TypeOK, OnLeft
<1>2. me' = IF "left" = "lock" THEN [me EXCEPT ![w] = players[i]] ELSE me
  BY DEF OnLeft
<1> QED BY <1>1, <1>2, Receiving DEF OnLeft

-----------------------------------------------------------------------------
(* The theorems.                                                             *)

(* Every step keeps the inductive invariant.                                  *)
LEMMA StepIInv == IInv /\ [Next]_vars => IInv'
<1>1. ASSUME IInv, Next PROVE IInv'
  <2>1. CASE \E p \in Players : Accept(p)
    BY <1>1, <2>1, StepAccept
  <2>2. CASE InitPlayer
    BY <1>1, <2>2, StepInitPlayer
  <2>3. ASSUME NEW w \in Workers, \E i \in io : OnRecv(w, i) \/ OnLeft(w, i) PROVE IInv'
    BY <1>1, <2>3, StepOnRecv, StepOnLeft
  <2>4. ASSUME NEW w \in Workers, WorkerStep(w) PROVE IInv'
    <3>1. CASE Handle(w)
      BY <1>1, <3>1, StepHandleOther, StepHandleQuery, StepHandleMove, StepHandleChat,
         StepHandleWhisper DEF Handle
    <3>2. CASE \E p \in todo[w] : ChatTo(w, p)
      BY <1>1, <3>2, StepChatTo
    <3> QED BY <1>1, <2>4, <3>1, <3>2, StepLockPlayer, StepMoveOut, StepMoveIn, StepChatEnd,
               StepWhisper, StepWhisperEnd, StepUnlockPlayer DEF WorkerStep
  <2>5. ASSUME NEW d \in DbThreads, JobStep(d) PROVE IInv'
    BY <1>1, <2>5, StepTakeJob, StepJobLock, StepJobName, StepJobInsert, StepJobSend,
       StepJobUnlock DEF JobStep
  <2>6. ASSUME NEW t \in Threads, Repost(t) PROVE IInv'
    BY <1>1, <2>6, StepRepost
  <2>7. ASSUME NEW t \in Threads, NEW from \in {"release", "left"}, ClientGone(t, from) PROVE IInv'
    BY <1>1, <2>7, StepClientGone
  <2>8. ASSUME NEW t \in Threads, SendRelease(t) PROVE IInv'
    BY <1>1, <2>8, StepSendRelease
  <2>9. ASSUME NEW t \in Threads, OnDisconnect(t) PROVE IInv'
    BY <1>1, <2>9, StepDeletePlayer, StepGoneLock, StepGoneName, StepGoneField, StepGoneFree,
       StepGoneUnlock DEF OnDisconnect
  <2> QED BY <1>1, <2>1, <2>2, <2>3, <2>4, <2>5, <2>6, <2>7, <2>8, <2>9 DEF Next
<1>2. ASSUME IInv, UNCHANGED vars PROVE IInv'
  <2>1. UNCHANGED <<keys, calls, open, io, sid, nick, field, pool, players, names, onField,
                    plock, nlock, flock>>
    BY <1>2 DEF vars, sessVars, playerVars, tableVars, lockVars
  <2>2. UNCHANGED <<jobs, job, pc, sess, me, arg, todo, to, ret, gone, leaver>>
    BY <1>2 DEF vars, jobVars, callVars, sendVars
  <2>3. \A t : At(t)' = At(t)
    BY <2>2 DEF At
  <2>4. \A t : \A p : HasPlayer(t, p)' <=> HasPlayer(t, p)
    BY <2>2, <2>3 DEF HasPlayer
  <2>5. \A p : Moving(p)' <=> Moving(p)
    BY <2>2 DEF Moving
  <2>6. Starting' <=> Starting
    BY <2>2 DEF Starting
  <2>7. TypeOK'
    BY <1>2, <2>1, <2>2 DEF IInv, TypeOK
  <2>8. KindInv'
    BY <1>2, <2>2, <2>3 DEF IInv, KindInv, KindAt
  <2>9. RefInv'
    BY <1>2, <2>1, <2>2, <2>3 DEF IInv, RefInv, RefAt
  <2>10. OwnInv' /\ StartInv'
    BY <1>2, <2>1, <2>2, <2>6 DEF IInv, OwnInv, StartInv
  <2>11. UseInv'
    BY <1>2, <2>1, <2>2, <2>3, <2>6 DEF IInv, UseInv, UseAt
  <2>12. LockInv'
    <3>1. \A t \in Threads : LockAt(t)'
      BY <1>2, <2>1, <2>2, <2>3, <2>4 DEF IInv, LockInv, LockAt
    <3>2. ASSUME NEW p \in Players, NEW u, u = plock[p], u # None PROVE HasPlayer(u, p)'
      BY <1>2, <2>4, <3>2 DEF IInv, LockInv
    <3>3. ASSUME NEW u, u = nlock, u # None PROVE At(u)' = "whisperEnd"
      BY <1>2, <2>3, <3>3 DEF IInv, LockInv
    <3>4. \A f \in Fields : \A w \in flock[f] : At(w)' = "chat" /\ field[me[w]] = f
      BY <1>2, <2>3 DEF IInv, LockInv
    <3> QED BY <2>1, <2>2, <3>1, <3>2, <3>3, <3>4 DEF LockInv
  <2>13. FieldInv'
    BY <1>2, <2>1, <2>2, <2>5 DEF IInv, FieldInv
  <2> QED BY <2>7, <2>8, <2>9, <2>10, <2>11, <2>12, <2>13 DEF IInv
<1> QED BY <1>1, <1>2

(* The inductive invariant holds always.                                      *)
THEOREM Inductive == Spec => []IInv
<1> QED BY InitIInv, StepIInv, PTL DEF Spec

(* Every variable has its type, and what works on a player has one.           *)
THEOREM Types == Spec => []TypeOK
<1>1. IInv => TypeOK
  BY DEF IInv
<1> QED BY <1>1, Inductive, PTL

(* Until it is reported, a session has its player.                            *)
LEMMA FoundByIInv == IInv => HandlersFindPlayer
<1> SUFFICES ASSUME IInv, NEW i \in io \cup {gone[t] : t \in {u \in Threads : pc[u] = "find"}}
             PROVE  players[i] \in Players \ pool /\ sid[players[i]] = i
  BY DEF HandlersFindPlayer
<1>1. i \in Id /\ players[i] # None
  <2>1. CASE i \in io
    <3>1. i \in Id /\ i \in open
      BY <2>1 DEF IInv, TypeOK, RefInv
    <3>2. Starting => sess[Acceptor] # i
      BY <2>1 DEF IInv, RefInv, RefAt, Threads, Starting, NoId, TypeOK, Id
    <3> QED BY <3>1, <3>2 DEF IInv, OwnInv
  <2>2. CASE i \notin io
    <3>1. PICK t \in Threads : pc[t] = "find" /\ i = gone[t]
      BY <2>2
    <3> QED BY <3>1 DEF IInv, UseInv, UseAt, RefInv, RefAt, Closing, TypeOK
  <2> QED BY <2>1, <2>2
<1> QED BY <1>1 DEF IInv, OwnInv, TypeOK

(* OnRecv (line 64) and OnDisconnect (line 138) find the session's own player *)
(* in the map, whatever is recycled meanwhile.                                *)
THEOREM HandlersFind == Spec => []HandlersFindPlayer
<1> QED BY FoundByIInv, Inductive, PTL

(* A listed player is in use and has that field; one that is not being worked *)
(* on is listed.                                                              *)
LEMMA FieldsByIInv == IInv => FieldsMatchPlayers
<1> SUFFICES ASSUME IInv, NEW f \in Fields, NEW p \in Players
             PROVE  /\ p \in onField[f] => p \notin pool /\ field[p] = f
                    /\ sid[p] \in open /\ field[p] = f /\ plock[p] = None => p \in onField[f]
  BY DEF FieldsMatchPlayers
<1>1. p \in onField[f] => p \notin pool /\ field[p] = f
  BY DEF IInv, FieldInv
<1>2. ASSUME sid[p] \in open, field[p] = f, plock[p] = None PROVE p \in onField[f]
  <2>1. f # NoField
    BY ChatAssumption DEF NoField
  <2>2. p \in onField[f] \/ Moving(p)
    BY <1>2, <2>1 DEF IInv, FieldInv
  <2>3. ASSUME NEW w \in Workers, pc[w] = "moveIn", me[w] = p PROVE FALSE
    <3>1. HasPlayer(w, p)
      BY <2>3 DEF HasPlayer, At, Away, Closing, Leaving, InHandler
    <3>2. w \in Threads /\ w # None
      BY ChatAssumption DEF Threads
    <3> QED BY <1>2, <3>1, <3>2 DEF IInv, LockInv, LockAt
  <2> QED BY <2>2, <2>3 DEF Moving
<1> QED BY <1>1, <1>2

(* Chat to a field reaches that field's players, all those nobody is moving.  *)
THEOREM FieldsMatch == Spec => []FieldsMatchPlayers
<1> QED BY FieldsByIInv, Inductive, PTL

(* While a handler or a job has a player's lock, the player keeps the session *)
(* it was checked against.                                                    *)
THEOREM LockKeeps == Spec => []LockKeepsSession
<1>1. IInv => LockKeepsSession
  BY DEF IInv, LockInv, LockAt, UseInv, UseAt, Leaving, LockKeepsSession
<1> QED BY <1>1, Inductive, PTL

(* A thread that has a field's or the nicknames' lock, or its player's, waits *)
(* for a lock only when it is closing a session on its way out of SendPacket. *)
LEMMA WaitsWhileClosing ==
  ASSUME IInv, NEW h \in Threads, Holders(h) # {},
         \/ At(h) \in {"whisperEnd", "chat"}
         \/ pc[h] = "goneLock" /\ At(h) \in InHandler \cup InJob
  PROVE  gone[h] # NoId /\ ret[h] # "idle"
<1>1. pc[h] \in {"goneLock", "goneName", "goneField"}
  BY DEF Holders, At, Away, Closing, Leaving
<1>2. At(h) = ret[h]
  BY <1>1 DEF At, Away, Closing, Leaving
<1>3. gone[h] # NoId
  BY <1>1 DEF IInv, RefInv, RefAt, Closing, Leaving
<1> QED BY <1>2, <1>3 DEF InHandler, InJob

(* The locks are taken in an order that cannot deadlock, closing aside.       *)
LEMMA StuckByIInv == IInv => StuckByClosingOnly
<1> SUFFICES ASSUME IInv, NEW S \in SUBSET Threads, Stuck(S),
                    \A t \in S : ~(gone[t] # NoId /\ ret[t] # "idle")
             PROVE  FALSE
  BY DEF StuckByClosingOnly
<1>1. \A t \in S : Holders(t) # {}
  BY DEF Stuck
<1>2. ASSUME NEW h \in S PROVE At(h) \notin {"whisperEnd", "chat"}
  BY <1>1, WaitsWhileClosing
<1>3. ASSUME NEW t \in S PROVE pc[t] \in {"lock", "jobLock", "init", "goneLock"}
  <2>1. PICK h \in S : h \in Holders(t)
    BY DEF Stuck
  <2>2. nlock = h => h = None
    BY <1>2 DEF IInv, LockInv
  <2>3. \A f \in Fields : h \notin flock[f]
    BY <1>2 DEF IInv, LockInv
  <2>4. \A p \in Players : h \notin FieldHolders(p)
    BY <2>3 DEF FieldHolders, IInv, TypeOK
  <2>5. pc[t] = "moveOut" => me[t] \in Players
    BY DEF IInv, TypeOK, Working
  <2>6. pc[t] = "moveIn" => arg[t] \in Fields
    BY DEF IInv, KindInv, KindAt, At, Away, Closing, Leaving
  <2>7. pc[t] = "goneField" => leaver[t] \in Players
    BY DEF IInv, UseInv, UseAt, Leaving
  <2> QED BY <2>1, <2>2, <2>3, <2>4, <2>5, <2>6, <2>7 DEF Holders
<1>4. PICK t \in S : TRUE
  BY DEF Stuck
<1>5. PICK h \in S, p \in Players : h = plock[p] /\ h # None
  <2>1. PICK h \in S : h \in Holders(t)
    BY DEF Stuck
  <2>2. CASE pc[t] = "goneLock"
    <3>1. leaver[t] \in Players
      BY <2>2 DEF IInv, UseInv, UseAt, Leaving
    <3> QED BY <2>1, <2>2, <3>1 DEF Holders
  <2>3. CASE pc[t] \in {"lock", "jobLock", "init"}
    <3>1. me[t] \in Players
      BY <2>3 DEF IInv, TypeOK, Working
    <3> QED BY <2>1, <2>3, <3>1 DEF Holders
  <2> QED BY <1>3, <2>2, <2>3
<1>6. HasPlayer(h, p)
  BY <1>5 DEF IInv, LockInv
<1>7. pc[h] = "goneLock" /\ At(h) \in InHandler \cup InJob
  <2>1. pc[h] \in {"lock", "jobLock", "init", "goneLock"}
    BY <1>3
  <2>2. At(h) \in InHandler \cup InJob
    BY <1>6, <2>1 DEF HasPlayer, Locked
  <2> QED BY <2>1, <2>2 DEF At, Away, Closing, Leaving, InHandler, InJob
<1> QED BY <1>1, <1>7, WaitsWhileClosing

(* Threads that wait for each other include one that closes a session on its  *)
(* way out of SendPacket (OnDisconnect inside SendPacket).                    *)
THEOREM StuckOnly == Spec => []StuckByClosingOnly
<1> QED BY StuckByIInv, Inductive, PTL

=============================================================================

--------------------------- MODULE SessionManager ---------------------------
(***************************************************************************)
(* The session table of the network library: 00_ServerLibrary/Session.h,   *)
(* Session.cpp and SessionManager.cpp, with the calls ServerBase.cpp makes  *)
(* on it.  Sessions live in a fixed array and are recycled; any thread may  *)
(* hold a session id of any age and try to Acquire it.  One 32-bit word per *)
(* session packs a release flag (bit 31) and a reference count (bits 0-30), *)
(* and only interlocked instructions touch it.  Each action is one such     *)
(* instruction, or a run of accesses no other thread can observe.           *)
(*                                                                         *)
(* The word is kept as two variables, `released' and `usage'; they are one  *)
(* word as long as `usage' stays in 0 .. 2^31-1, which CountIsReferences    *)
(* shows.  The free list is a set: the order of LockFreeStack is not used.  *)
(***************************************************************************)
EXTENDS Integers, FiniteSets

CONSTANTS
  Workers,     (* IOCP worker threads and every other thread calling the API *)
  Acceptor,    (* the one thread running func_accept_thread                  *)
  MaxSession,  (* length of the session array (_maxSession)                  *)
  Groups,      (* group indices of a HeteroServerBase; {} for a ServerBase   *)
  MaxKey,      (* bound: sessions ever created                               *)
  MaxUsage     (* bound: references to one session at a time                 *)

ASSUME ConstantsAssumption ==
  /\ IsFiniteSet(Workers) /\ Acceptor \notin Workers
  /\ MaxSession \in Nat \ {0}
  /\ MaxKey \in Nat /\ MaxUsage \in Nat
  /\ Groups \subseteq Nat

Threads == Workers \cup {Acceptor}
Slots   == 0 .. MaxSession - 1

(* GENERATE_SESION_ID / SESSION_IDX: a 48-bit key over a 16-bit index.       *)
Id == [key : 0 .. MaxKey, idx : Slots]
SessionId(k, s) == [key |-> k, idx |-> s]

Ungrouped == -2   (* initial Session::groupId, never changed by a ServerBase *)
GroupNull == -1   (* GROUP_NULL *)

VARIABLES
  uniqueKey, sessionCount, free,           \* SessionManager
  sid, released, usage, group,             \* Session: id, _usageCount, groupId
  pending, ioKey,                          \* I/O in the kernel; its completion key
  pc, want, ioRef,                         \* threads
  accepted, notified                       \* OnAccept / disconnect reports so far

managerVars == <<uniqueKey, sessionCount, free>>
sessionVars == <<sid, released, usage, group>>
ioVars      == <<pending, ioKey>>
threadVars  == <<pc, want, ioRef>>
reportVars  == <<accepted, notified>>
vars == <<managerVars, sessionVars, ioVars, threadVars, reportVars>>

(* want[t] is the id thread t works on; ioRef[t] says t owns one reference   *)
(* that an I/O on that session held or will hold, beside its own.            *)
Slot(t) == want[t].idx

(* The constructor: every session starts released and free, with id 0.       *)
Init ==
  /\ uniqueKey = 0 /\ sessionCount = 0 /\ free = Slots
  /\ sid      = [s \in Slots |-> SessionId(0, 0)]
  /\ released = [s \in Slots |-> TRUE]
  /\ usage    = [s \in Slots |-> 0]
  /\ group    = [s \in Slots |-> Ungrouped]
  /\ pending  = [s \in Slots |-> 0]
  /\ ioKey    = [s \in Slots |-> SessionId(0, 0)]
  /\ pc    = [t \in Threads |-> "idle"]
  /\ want  = [t \in Threads |-> SessionId(0, 0)]
  /\ ioRef = [t \in Threads |-> FALSE]
  /\ accepted = {} /\ notified = [i \in Id |-> 0]
-----------------------------------------------------------------------------
Goto(t, l) == pc' = [pc EXCEPT ![t] = l]

IncUsage(s) == usage' = [usage EXCEPT ![s] = @ + 1]

(* The interlocked decrement of DecUsage.  Whoever sees zero goes on to      *)
(* release() as a separate step; `back' is where the others go.             *)
DecUsage(t, s, back) ==
  /\ usage' = [usage EXCEPT ![s] = @ - 1]
  /\ Goto(t, IF usage[s] = 1 THEN "cas" ELSE back)
-----------------------------------------------------------------------------
(* Acquire, line 39: the count goes up before anything is checked.  Any id   *)
(* the application was ever given may be asked for, by any thread.           *)
AcquireInc(t, i) ==
  /\ pc[t] = "idle" /\ usage[i.idx] < MaxUsage
  /\ want' = [want EXCEPT ![t] = i]
  /\ IncUsage(i.idx)
  /\ Goto(t, "flag")
  /\ UNCHANGED <<managerVars, sid, released, group, ioVars, ioRef, reportVars>>

(* A worker dequeues a completion and Acquires the session its key names:    *)
(* the reference of the finished I/O is now the worker's to give back.       *)
DispatchCompletion(t, s) ==
  /\ pc[t] = "idle" /\ pending[s] > 0
  /\ pending' = [pending EXCEPT ![s] = @ - 1]
  /\ ioRef' = [ioRef EXCEPT ![t] = TRUE]
  /\ want' = [want EXCEPT ![t] = ioKey[s]]
  /\ IncUsage(ioKey[s].idx)
  /\ Goto(t, "flag")
  /\ UNCHANGED <<managerVars, sid, released, group, ioKey, reportVars>>

AcquireCheckFlag_NoCheck(t) ==   \* mutant: the release flag is not looked at
  /\ pc[t] = "flag" /\ Goto(t, "id")
  /\ UNCHANGED <<managerVars, sessionVars, ioVars, want, ioRef, reportVars>>

(* Lines 41-45: the release flag is read first...                            *)
AcquireCheckFlag(t) ==
  /\ pc[t] = "flag"
  /\ Goto(t, IF released[Slot(t)] THEN "fail" ELSE "id")
  /\ UNCHANGED <<managerVars, sessionVars, ioVars, want, ioRef, reportVars>>

AcquireCheckId_NoCheck(t) ==   \* mutant: any unreleased session will do
  /\ pc[t] = "id" /\ Goto(t, "held")
  /\ UNCHANGED <<managerVars, sessionVars, ioVars, want, ioRef, reportVars>>

(* Lines 47-51: ... and the id second (Problems 1 and 2 of the comment).     *)
AcquireCheckId(t) ==
  /\ pc[t] = "id"
  /\ Goto(t, IF sid[Slot(t)] = want[t] THEN "held" ELSE "fail")
  /\ UNCHANGED <<managerVars, sessionVars, ioVars, want, ioRef, reportVars>>

AcquireFail_NoRelease(t) ==   \* mutant: a bare decrement instead of DecUsage
  /\ pc[t] = "fail" /\ Goto(t, "idle")
  /\ usage' = [usage EXCEPT ![Slot(t)] = @ - 1]
  /\ UNCHANGED <<managerVars, sid, released, group, ioVars, want, ioRef, reportVars>>

(* Lines 43 and 49: a failed Acquire gives its reference back.               *)
AcquireFail(t) ==
  /\ pc[t] = "fail"
  /\ DecUsage(t, Slot(t), "idle")
  /\ UNCHANGED <<managerVars, sid, released, group, ioVars, want, ioRef, reportVars>>

(* Release; a worker does it last, when it no longer has the I/O's reference.*)
Release(t) ==
  /\ pc[t] = "held" /\ ~ioRef[t]
  /\ DecUsage(t, Slot(t), "idle")
  /\ UNCHANGED <<managerVars, sid, released, group, ioVars, want, ioRef, reportVars>>
-----------------------------------------------------------------------------
(* send_post, line 220: a reference for the send that is about to be posted. *)
SendPostInc(t) ==
  /\ pc[t] = "held" /\ ~ioRef[t] /\ usage[Slot(t)] < MaxUsage
  /\ IncUsage(Slot(t))
  /\ ioRef' = [ioRef EXCEPT ![t] = TRUE]
  /\ UNCHANGED <<managerVars, sid, released, group, ioVars, pc, want, reportVars>>

(* WSASend or WSARecv accepted: the I/O owns the reference.  An I/O that is  *)
(* never completed stays in `pending' for good.  The accept thread is done.  *)
IoPosted(t) ==
  /\ pc[t] \in {"held", "recvPost"} /\ ioRef[t]
  /\ pending' = [pending EXCEPT ![Slot(t)] = @ + 1]
  /\ ioRef' = [ioRef EXCEPT ![t] = FALSE]
  /\ Goto(t, IF t = Acceptor THEN "idle" ELSE "held")
  /\ UNCHANGED <<managerVars, sessionVars, ioKey, want, reportVars>>

(* The I/O failed to start, or its completion was handled: its reference is  *)
(* dropped.  Only the accept thread, which has no other, may reach zero.     *)
IoDropped(t) ==
  /\ pc[t] \in {"held", "recvPost"} /\ ioRef[t]
  /\ ioRef' = [ioRef EXCEPT ![t] = FALSE]
  /\ DecUsage(t, Slot(t), IF t = Acceptor THEN "idle" ELSE "held")
  /\ UNCHANGED <<managerVars, sid, released, group, ioVars, want, reportVars>>

(* SetGroup and MoveGroup store the destination while they hold the session. *)
SetGroup(t, g) ==
  /\ pc[t] = "held"
  /\ group' = [group EXCEPT ![Slot(t)] = g]
  /\ UNCHANGED <<managerVars, sid, released, usage, ioVars, threadVars, reportVars>>
-----------------------------------------------------------------------------
ReleaseIf(t, win) ==
  /\ pc[t] = "cas"
  /\ IF win THEN /\ released' = [released EXCEPT ![Slot(t)] = TRUE]
                   /\ Goto(t, "notify")
              ELSE UNCHANGED released /\ Goto(t, "idle")
  /\ UNCHANGED <<managerVars, sid, usage, group, ioVars, want, ioRef, reportVars>>

ReleaseCas_AnyFlag(t) == ReleaseIf(t, usage[Slot(t)] = 0)    \* mutant: flag not compared
ReleaseCas_AnyCount(t) == ReleaseIf(t, ~released[Slot(t)])   \* mutant: count not compared

(* Session::release(): one compare-exchange of the whole word, 0 for the     *)
(* release flag; the loser returns.                                          *)
ReleaseCas(t) == ReleaseIf(t, ~released[Slot(t)] /\ usage[Slot(t)] = 0)

(* Return, lines 77-92: the application or the session's group is told.      *)
ReturnNotify(t) ==
  LET s == Slot(t) IN
  /\ pc[t] = "notify"
  /\ notified' = [notified EXCEPT ![sid[s]] = IF group[s] = GroupNull THEN @ ELSE @ + 1]
  /\ group' = [group EXCEPT ![s] = IF @ = Ungrouped THEN @ ELSE GroupNull]
  /\ Goto(t, "push")
  /\ UNCHANGED <<managerVars, sid, released, usage, ioVars, want, ioRef, accepted>>

(* Lines 94-95: the index is reusable from here on.                          *)
ReturnPush(t) ==
  /\ pc[t] = "push"
  /\ free' = free \cup {sid[Slot(t)].idx}
  /\ Goto(t, "uncount")
  /\ UNCHANGED <<uniqueKey, sessionCount, sessionVars, ioVars, want, ioRef, reportVars>>

(* Line 96: the session is no longer counted against _maxSession.            *)
ReturnUncount(t) ==
  /\ pc[t] = "uncount"
  /\ sessionCount' = sessionCount - 1
  /\ Goto(t, "idle")
  /\ UNCHANGED <<uniqueKey, free, sessionVars, ioVars, want, ioRef, reportVars>>
-----------------------------------------------------------------------------
AcceptCheck_OneMore ==   \* mutant: > for >=
  /\ pc[Acceptor] = "idle" /\ sessionCount <= MaxSession /\ uniqueKey < MaxKey
  /\ Goto(Acceptor, "pop")
  /\ UNCHANGED <<managerVars, sessionVars, ioVars, want, ioRef, reportVars>>

(* func_accept_thread, lines 482-486: a full server closes the new socket    *)
(* (nothing changes), otherwise Create is called.                            *)
AcceptCheck ==
  /\ pc[Acceptor] = "idle" /\ sessionCount < MaxSession /\ uniqueKey < MaxKey
  /\ Goto(Acceptor, "pop")
  /\ UNCHANGED <<managerVars, sessionVars, ioVars, want, ioRef, reportVars>>

(* Create, lines 102-105: the next key, and an index off the free list.      *)
CreatePop(s) ==
  /\ pc[Acceptor] = "pop" /\ s \in free
  /\ uniqueKey' = uniqueKey + 1
  /\ free' = free \ {s}
  /\ want' = [want EXCEPT ![Acceptor] = SessionId(uniqueKey, s)]
  /\ Goto(Acceptor, "setId")
  /\ UNCHANGED <<sessionCount, sessionVars, ioVars, ioRef, reportVars>>

(* Lines 111-113: the id is in place before the flag is cleared.             *)
CreateSetId ==
  /\ pc[Acceptor] = "setId"
  /\ sid' = [sid EXCEPT ![Slot(Acceptor)] = want[Acceptor]]
  /\ Goto(Acceptor, "inc")
  /\ UNCHANGED <<managerVars, released, usage, group, ioVars, want, ioRef, reportVars>>

(* Line 114: the first reference, which will be the first recv's.            *)
CreateInc ==
  /\ pc[Acceptor] = "inc"
  /\ IncUsage(Slot(Acceptor))
  /\ ioRef' = [ioRef EXCEPT ![Acceptor] = TRUE]
  /\ Goto(Acceptor, "clear")
  /\ UNCHANGED <<managerVars, sid, released, group, ioVars, want, reportVars>>

CreateClearFlag_Assign ==   \* mutant: the word is set to 1 (Problem 3)
  /\ pc[Acceptor] = "clear" /\ Goto(Acceptor, "count")
  /\ released' = [released EXCEPT ![Slot(Acceptor)] = FALSE]
  /\ usage' = [usage EXCEPT ![Slot(Acceptor)] = 1]
  /\ UNCHANGED <<managerVars, sid, group, ioVars, want, ioRef, reportVars>>

(* Line 115: InterlockedAnd clears the flag and keeps the count.             *)
CreateClearFlag ==
  /\ pc[Acceptor] = "clear"
  /\ released' = [released EXCEPT ![Slot(Acceptor)] = FALSE]
  /\ Goto(Acceptor, "count")
  /\ UNCHANGED <<managerVars, sid, usage, group, ioVars, want, ioRef, reportVars>>

(* Line 118, and Register: the socket's completion key is the session id.    *)
CreateCount ==
  /\ pc[Acceptor] = "count"
  /\ sessionCount' = sessionCount + 1
  /\ ioKey' = [ioKey EXCEPT ![Slot(Acceptor)] = sid[Slot(Acceptor)]]
  /\ Goto(Acceptor, "accept")
  /\ UNCHANGED <<uniqueKey, free, sessionVars, pending, want, ioRef, reportVars>>

(* Where a session begins; a ServerBase leaves groupId alone.                *)
FirstGroups == IF Groups = {} THEN {Ungrouped} ELSE Groups

OnAccept_NoGroup ==   \* mutant: the application forgets SetGroup
  /\ pc[Acceptor] = "accept" /\ Goto(Acceptor, "recvPost")
  /\ accepted' = accepted \cup {sid[Slot(Acceptor)]}
  /\ UNCHANGED <<managerVars, sessionVars, ioVars, want, ioRef, notified>>

(* OnAccept: the application learns the id; with groups it calls SetGroup    *)
(* (GameServer.cpp 26-30), which holds the session only within the call.     *)
OnAccept ==
  LET s == Slot(Acceptor) IN
  /\ pc[Acceptor] = "accept"
  /\ accepted' = accepted \cup {sid[s]}
  /\ \E g \in FirstGroups : group' = [group EXCEPT ![s] = g]
  /\ Goto(Acceptor, "recvPost")
  /\ UNCHANGED <<managerVars, sid, released, usage, ioVars, want, ioRef, notified>>
-----------------------------------------------------------------------------
Accept ==
  \/ AcceptCheck
  \/ \E s \in Slots : CreatePop(s)
  \/ CreateSetId
  \/ CreateInc
  \/ CreateClearFlag
  \/ CreateCount
  \/ OnAccept

(* What a thread must do next once it is inside a call.                      *)
Continue(t) ==
  \/ AcquireCheckFlag(t)
  \/ AcquireCheckId(t)
  \/ AcquireFail(t)
  \/ ReleaseCas(t)
  \/ ReturnNotify(t)
  \/ ReturnPush(t)
  \/ ReturnUncount(t)

Use(t) ==
  \/ SendPostInc(t)
  \/ IoPosted(t)
  \/ IoDropped(t)
  \/ \E g \in Groups : SetGroup(t, g)
  \/ Release(t)

Next ==
  \/ Accept
  \/ \E t \in Threads : Continue(t) \/ Use(t)
  \/ \E t \in Workers :
        \/ \E i \in accepted : AcquireInc(t, i)
        \/ \E s \in Slots : DispatchCompletion(t, s)

Spec == Init /\ [][Next]_vars
-----------------------------------------------------------------------------
Labels == {"idle", "flag", "id", "held", "fail", "cas", "notify", "push", "uncount"}
AcceptLabels == {"pop", "setId", "inc", "clear", "count", "accept", "recvPost"}

(* Every variable has its type; the unsigned counters never wrap, and the    *)
(* server never counts more sessions than it has room for.                   *)
TypeOK ==
  /\ uniqueKey \in 0 .. MaxKey /\ sessionCount \in 0 .. MaxSession /\ free \subseteq Slots
  /\ sid \in [Slots -> Id] /\ released \in [Slots -> BOOLEAN]
  /\ usage \in [Slots -> Nat] /\ group \in [Slots -> Groups \cup {Ungrouped, GroupNull}]
  /\ pending \in [Slots -> Nat] /\ ioKey \in [Slots -> Id]
  /\ pc \in [Threads -> Labels \cup AcceptLabels]
  /\ \A t \in Workers : pc[t] \in Labels
  /\ want \in [Threads -> Id] /\ ioRef \in [Threads -> BOOLEAN]
  /\ accepted \subseteq Id /\ notified \in [Id -> Nat]

(* The threads holding a reference of their own, and those holding an I/O's. *)
Users(s) == {t \in Threads : pc[t] \in {"flag", "id", "held", "fail"} /\ Slot(t) = s}
IoUsers(s) == {t \in Threads : ioRef[t] /\ Slot(t) = s}

(* Every reference is counted exactly once, across recycling, failed          *)
(* Acquires and concurrent creation: no update of _usageCount is lost        *)
(* (Problem 3 of the comment in Acquire) and the count never goes negative.  *)
CountIsReferences ==
  \A s \in Slots : usage[s] = pending[s] + Cardinality(Users(s)) + Cardinality(IoUsers(s))

(* Acquire's contract (Problems 1 and 2): a thread that got a session back   *)
(* holds the incarnation it asked for, unreleased, for as long as it holds it.*)
HeldIsCurrent ==
  \A t \in Workers : pc[t] = "held" => ~released[Slot(t)] /\ sid[Slot(t)] = want[t]

(* Worker threads never miss a completion: while an I/O's reference is        *)
(* outstanding its session cannot be recycled, so the Acquire of             *)
(* func_worker_thread succeeds and the reference is not leaked.              *)
CompletionFindsSession ==
  \A t \in Workers : ioRef[t] => pc[t] # "fail"

(* At most one thread runs Return for a session, nobody else has a real      *)
(* reference to it then, and its index is not in the free list.              *)
Returning(s) == {t \in Threads : pc[t] \in {"notify", "push"} /\ Slot(t) = s}
ReleaseIsExclusive ==
  \A s \in Slots : Returning(s) # {} =>
    /\ released[s] /\ s \notin free /\ pending[s] = 0 /\ IoUsers(s) = {}
    /\ \A t, u \in Returning(s) : t = u
    /\ \A t \in Users(s) : pc[t] \in {"flag", "fail"}

(* A session nobody references is never forgotten: a thread that saw zero    *)
(* is still on its way to the compare-exchange, whatever Acquires came since.*)
NoLostRelease ==
  \A s \in Slots : ~released[s] /\ usage[s] = 0 =>
    \E t \in Threads : pc[t] = "cas" /\ Slot(t) = s

(* LockFreeStack::Pop crashes on an empty stack: the count that admits a     *)
(* connection never lags behind the indices that are taken.                  *)
PopFindsIndex ==
  pc[Acceptor] = "pop" => free # {}

(* Each accepted session is reported closed at most once, only after         *)
(* OnAccept, and when it is no longer in the table it has been reported.     *)
InTable(i) ==
  /\ sid[i.idx] = i
  /\ ~released[i.idx] \/ \E t \in Threads : pc[t] = "notify" /\ Slot(t) = i.idx
NotifiedOnce ==
  /\ \A i \in accepted : notified[i] = IF InTable(i) THEN 0 ELSE 1
  /\ \A i \in Id \ accepted : notified[i] = 0
-----------------------------------------------------------------------------
(* The table implements SessionLife.  A session is open from the clearing of *)
(* its flag (CreateClearFlag) to the compare-exchange (ReleaseCas), a worker *)
(* uses what Acquire returned until Release; a key counts as given once its  *)
(* session is open.                                                          *)
OpenSessions == {sid[s] : s \in {x \in Slots : ~released[x]}}
UsedBy(t) == IF pc[t] = "held" THEN {want[t]} ELSE {}
KeysGiven == IF pc[Acceptor] \in {"setId", "inc", "clear"} THEN uniqueKey - 1 ELSE uniqueKey

Life == INSTANCE SessionLife WITH
  Callers <- Workers, Slots <- Slots, MaxKey <- MaxKey,
  nextKey <- KeysGiven, open <- OpenSessions, using <- [t \in Workers |-> UsedBy(t)]

(* Every behaviour of the table is one of SessionLife: recycling, stale ids   *)
(* and late releases are invisible to the callers of Acquire and Release.    *)
ImplementsSessionLife == Life!Spec
=============================================================================

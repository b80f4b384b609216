------------------------ MODULE SessionManagerProofs ------------------------
(***************************************************************************)
(* Theorems about SessionManager for any number of threads, sessions and    *)
(* groups.                                                                  *)
(***************************************************************************)
EXTENDS SessionManager, FiniteSetTheorems, TLAPS

-----------------------------------------------------------------------------
(* The inductive invariant, in named parts.                                  *)

Own     == {"flag", "id", "held", "fail"}   \* labels with a reference of one's own
Back    == {"notify", "push"}               \* labels inside Return
Hidden  == {"setId", "inc", "clear"}        \* index taken, flag still set
New     == {"setId", "inc", "clear", "count", "accept"}   \* id not yet reported

TypeInv ==
  /\ uniqueKey \in 0 .. MaxKey /\ sessionCount \in Int /\ free \subseteq Slots
  /\ sid \in [Slots -> Id] /\ released \in [Slots -> BOOLEAN]
  /\ usage \in [Slots -> Int] /\ group \in [Slots -> Groups \cup {Ungrouped, GroupNull}]
  /\ pending \in [Slots -> Nat] /\ ioKey \in [Slots -> Id]
  /\ pc \in [Threads -> Labels \cup AcceptLabels]
  /\ \A t \in Workers : pc[t] \in Labels
  /\ want \in [Threads -> Id] /\ ioRef \in [Threads -> BOOLEAN]
  /\ accepted \subseteq Id /\ notified \in [Id -> Nat]
  /\ pc[Acceptor] = "pop" => uniqueKey < MaxKey

(* A slot is free, being created, in use or being returned: one of these.    *)
SlotInv ==
  /\ \A s \in free : released[s]
  /\ pc[Acceptor] \in Hidden => released[Slot(Acceptor)] /\ Slot(Acceptor) \notin free
  /\ \A t \in Threads : pc[t] \in Back =>
       /\ released[Slot(t)] /\ Slot(t) \notin free
       /\ pc[Acceptor] \in Hidden => Slot(Acceptor) # Slot(t)
       /\ \A u \in Threads : pc[u] \in Back /\ Slot(u) = Slot(t) => u = t

(* Who owns an I/O's reference, and that the slot is in use while it lasts.  *)
IoInv ==
  /\ \A s \in Slots : released[s] => pending[s] = 0
  /\ \A t \in Threads : ioRef[t] =>
       \/ t \in Workers /\ pc[t] \in {"flag", "id", "held"} /\ ~released[Slot(t)]
       \/ t = Acceptor /\ pc[t] = "clear"
       \/ t = Acceptor /\ pc[t] \in {"count", "accept", "recvPost"} /\ ~released[Slot(t)]
  /\ pc[Acceptor] \in {"clear", "count", "accept", "recvPost"} => ioRef[Acceptor]

(* Which incarnation a thread has in hand.                                   *)
IdInv ==
  /\ \A s \in Slots : ~released[s] => sid[s].idx = s
  /\ \A t \in Threads : pc[t] \in Back => sid[Slot(t)].idx = Slot(t)
  /\ \A t \in Threads : pc[t] \in {"id", "held"} => ~released[Slot(t)]
  /\ \A t \in Threads : pc[t] = "held" => sid[Slot(t)] = want[t]
  /\ \A t \in Workers : ioRef[t] => sid[Slot(t)] = want[t]
  /\ pc[Acceptor] \in (New \cup {"recvPost"}) \ {"setId"} => sid[Slot(Acceptor)] = want[Acceptor]
  /\ \A s \in Slots : ~released[s] =>
       ioKey[s] = sid[s] \/ (pc[Acceptor] = "count" /\ Slot(Acceptor) = s)

(* Keys are fresh: the id being created is not one the application knows.    *)
KeyInv ==
  /\ \A i \in accepted : i.key < uniqueKey
  /\ pc[Acceptor] \in New =>
       want[Acceptor].key = uniqueKey - 1 /\ want[Acceptor] \notin accepted
  /\ \A t \in Workers : pc[t] \in Own => want[t] \in accepted
  /\ \A s \in Slots : ~released[s] =>
       sid[s] \in accepted \/ (pc[Acceptor] \in {"count", "accept"} /\ Slot(Acceptor) = s)
  /\ \A s \in Slots : pending[s] > 0 => sid[s] \in accepted
  /\ pc[Acceptor] \notin Own
  /\ pc[Acceptor] = "recvPost" => want[Acceptor] \in accepted

(* The session count against the free list.                                  *)
Uncounting == {t \in Threads : pc[t] = "uncount"}
Taken == Cardinality(Slots \ free) + Cardinality(Uncounting)
RoomInv ==
  /\ sessionCount = IF pc[Acceptor] \in Hidden \cup {"count"} THEN Taken - 1 ELSE Taken
  /\ pc[Acceptor] = "pop" => Taken < MaxSession
  /\ Taken <= MaxSession

IInv ==
  /\ TypeInv /\ CountIsReferences /\ SlotInv /\ IoInv
  /\ IdInv /\ KeyInv /\ NoLostRelease /\ RoomInv
-----------------------------------------------------------------------------
USE DEF Own, Back, Hidden, New, Labels, AcceptLabels, Threads, Slot, Goto, IncUsage

(* Facts about the sets whose sizes the invariant speaks of.                 *)
LEMMA UsersFinite ==
  ASSUME TypeInv, NEW s \in Slots
  PROVE  /\ IsFiniteSet(Users(s)) /\ IsFiniteSet(IoUsers(s)) /\ IsFiniteSet(Uncounting)
         /\ Cardinality(Users(s)) \in Nat /\ Cardinality(IoUsers(s)) \in Nat
         /\ Cardinality(Uncounting) \in Nat
<1>1. IsFiniteSet(Threads)
  BY ConstantsAssumption, FS_AddElement
<1>2. Users(s) \subseteq Threads /\ IoUsers(s) \subseteq Threads /\ Uncounting \subseteq Threads
  BY DEF Users, IoUsers, Uncounting
<1> QED BY <1>1, <1>2, FS_Subset, FS_CardinalityType

(* The slots, and so the free list, are finite.                              *)
LEMMA SlotsFinite ==
  /\ IsFiniteSet(Slots) /\ Cardinality(Slots) = MaxSession
  /\ \A S \in SUBSET Slots : IsFiniteSet(S) /\ Cardinality(S) \in Nat
<1>1. IsFiniteSet(Slots) /\ Cardinality(Slots) = MaxSession
  BY ConstantsAssumption, FS_Interval DEF Slots
<1> QED BY <1>1, FS_Subset, FS_CardinalityType

(* What the typed variables hold at an index is an id of the table.          *)
LEMMA Ids ==
  ASSUME TypeInv
  PROVE  /\ Acceptor \in Threads
         /\ \A t \in Threads : want[t] \in Id /\ Slot(t) \in Slots
         /\ \A s \in Slots : sid[s].idx \in Slots /\ ioKey[s].idx \in Slots
BY DEF TypeInv, Id

(* A nonempty finite set has a positive cardinality.                         *)
LEMMA NonEmpty ==
  ASSUME NEW S, IsFiniteSet(S), Cardinality(S) \in Nat
  PROVE  /\ S # {} => Cardinality(S) >= 1
         /\ \A x, y \in S : Cardinality(S) = 1 => x = y
<1>1. S # {} => Cardinality(S) >= 1
  BY FS_EmptySet
<1>2. ASSUME NEW x \in S, NEW y \in S, x # y PROVE Cardinality(S) # 1
  <2>1. IsFiniteSet(S \ {x}) /\ Cardinality(S \ {x}) = Cardinality(S) - 1
    BY FS_RemoveElement
  <2>2. S \ {x} # {}
    BY <1>2
  <2> QED BY <2>1, <2>2, FS_EmptySet
<1> QED BY <1>1, <1>2

(* What a count of zero or one says of the references.                       *)
LEMMA Counting ==
  ASSUME TypeInv, CountIsReferences, NEW s \in Slots
  PROVE  /\ usage[s] \in Nat
         /\ usage[s] = 0 => pending[s] = 0 /\ Users(s) = {} /\ IoUsers(s) = {}
         /\ \A t \in Users(s) : usage[s] = 1 =>
              pending[s] = 0 /\ Users(s) = {t} /\ IoUsers(s) = {}
         /\ \A t \in IoUsers(s) : usage[s] = 1 =>
              pending[s] = 0 /\ Users(s) = {} /\ IoUsers(s) = {t}
<1>1. usage[s] = pending[s] + Cardinality(Users(s)) + Cardinality(IoUsers(s)) /\ pending[s] \in Nat
  BY DEF CountIsReferences, TypeInv
<1>2. /\ Users(s) # {} => Cardinality(Users(s)) >= 1
      /\ \A x, y \in Users(s) : Cardinality(Users(s)) = 1 => x = y
  BY UsersFinite, NonEmpty
<1>3. /\ IoUsers(s) # {} => Cardinality(IoUsers(s)) >= 1
      /\ \A x, y \in IoUsers(s) : Cardinality(IoUsers(s)) = 1 => x = y
  BY UsersFinite, NonEmpty
<1> QED BY <1>1, <1>2, <1>3, UsersFinite

(* The constructor establishes the invariant.                                *)
THEOREM InitIInv == Init => IInv
<1> SUFFICES ASSUME Init PROVE IInv
  OBVIOUS
<1>1. SessionId(0, 0) \in Id
  BY ConstantsAssumption DEF Id, SessionId, Slots
<1>2. TypeInv
  BY <1>1, ConstantsAssumption DEF Init, TypeInv
<1>3. CountIsReferences
  <2> SUFFICES ASSUME NEW s \in Slots PROVE Users(s) = {} /\ IoUsers(s) = {}
    BY FS_EmptySet DEF Init, CountIsReferences
  <2> QED BY DEF Init, Users, IoUsers
<1>4. SlotInv /\ IoInv /\ IdInv /\ KeyInv /\ NoLostRelease
  BY ConstantsAssumption DEF Init, SlotInv, IoInv, IdInv, KeyInv, NoLostRelease
<1>5. RoomInv
  <2>1. Slots \ free = {} /\ Uncounting = {}
    BY DEF Init, Uncounting
  <2>2. Taken = 0
    <3>1. Cardinality(Slots \ free) = 0 /\ Cardinality(Uncounting) = 0
      BY <2>1, FS_EmptySet, Zenon
    <3> QED BY <3>1 DEF Taken
  <2>3. sessionCount = 0 /\ pc[Acceptor] = "idle"
    BY DEF Init
  <2> QED BY <2>2, <2>3, ConstantsAssumption DEF RoomInv
<1> QED BY <1>2, <1>3, <1>4, <1>5 DEF IInv

(* Acquire may count any session up, whoever has it now.                     *)
LEMMA AcquireIncStep ==
  ASSUME IInv, NEW t \in Workers, NEW i \in accepted, AcquireInc(t, i)
  PROVE  IInv'
<1> USE ConstantsAssumption DEF IInv, AcquireInc, managerVars, ioVars, reportVars
<1>0. i \in Id /\ i.idx \in Slots
  BY DEF TypeInv, Id
<1>1. TypeInv'
  BY <1>0 DEF TypeInv
<1>2. CountIsReferences'
  <2> SUFFICES ASSUME NEW s \in Slots
               PROVE usage'[s] = pending'[s] + Cardinality(Users(s)') + Cardinality(IoUsers(s)')
    BY DEF CountIsReferences
  <2>1. IoUsers(s)' = IoUsers(s)
    BY DEF IoUsers, IoInv, TypeInv
  <2>2. Users(s)' = IF s = i.idx THEN Users(s) \cup {t} ELSE Users(s)
    BY DEF Users, TypeInv
  <2>3. t \notin Users(s)
    BY DEF Users
  <2>4. Cardinality(Users(s) \cup {t}) = Cardinality(Users(s)) + 1
    BY <2>3, UsersFinite, FS_AddElement
  <2>5. usage'[s] = usage[s] + (IF s = i.idx THEN 1 ELSE 0) /\ usage[s] \in Int
    BY <1>0 DEF TypeInv
  <2> QED BY <2>1, <2>2, <2>4, <2>5, UsersFinite DEF CountIsReferences, TypeInv
<1>3. SlotInv'
  <2>1. /\ \A u \in Threads \ {t} : pc'[u] = pc[u] /\ Slot(u)' = Slot(u)
        /\ pc'[t] = "flag" /\ t # Acceptor
    BY DEF TypeInv
  <2> QED BY <2>1 DEF SlotInv
<1>4. IoInv'
  BY <1>0 DEF IoInv, TypeInv
<1>5. IdInv'
  BY <1>0 DEF IdInv, TypeInv, IoInv
<1>6. KeyInv'
  BY <1>0 DEF KeyInv, TypeInv
<1>7. NoLostRelease'
  BY <1>0, Counting DEF NoLostRelease, TypeInv
<1>8. RoomInv'
  <2>1. Uncounting' = Uncounting
    BY DEF Uncounting, TypeInv
  <2> QED BY <2>1 DEF RoomInv, Taken, TypeInv
<1> QED BY <1>1, <1>2, <1>3, <1>4, <1>5, <1>6, <1>7, <1>8 DEF IInv

(* Acquire's look at the release flag.                                       *)
LEMMA AcquireCheckFlagStep ==
  ASSUME IInv, NEW t \in Threads, AcquireCheckFlag(t)
  PROVE  IInv'
<1> USE ConstantsAssumption DEF IInv, AcquireCheckFlag, managerVars, sessionVars, ioVars, reportVars
<1>0. Slot(t) \in Slots /\ want[t] \in Id
  BY Ids
<1>1. TypeInv'
  BY <1>0, Counting DEF TypeInv
<1>2. CountIsReferences'
  <2>1. ASSUME NEW s \in Slots PROVE Users(s)' = Users(s) /\ IoUsers(s)' = IoUsers(s)
    BY DEF Users, IoUsers, IoInv, KeyInv, TypeInv
  <2> QED BY <2>1 DEF CountIsReferences
<1>3. SlotInv'
  BY <1>0, Counting DEF SlotInv, IoInv, IdInv, TypeInv
<1>4. IoInv'
  BY <1>0, Counting DEF IoInv, SlotInv, IdInv, KeyInv, TypeInv
<1>5. IdInv'
  BY <1>0, Counting DEF IdInv, IoInv, SlotInv, KeyInv, TypeInv
<1>6. KeyInv'
  BY <1>0, Counting DEF KeyInv, IdInv, IoInv, TypeInv
<1>7. NoLostRelease'
  BY <1>0, Counting DEF NoLostRelease, SlotInv, IoInv, TypeInv
<1>8. RoomInv'
  <2>1. Uncounting' = Uncounting
    BY DEF Uncounting, TypeInv
  <2> QED BY <2>1 DEF RoomInv, Taken, TypeInv
<1> QED BY <1>1, <1>2, <1>3, <1>4, <1>5, <1>6, <1>7, <1>8 DEF IInv

(* Acquire's look at the id: success only on the session asked for.          *)
LEMMA AcquireCheckIdStep ==
  ASSUME IInv, NEW t \in Threads, AcquireCheckId(t)
  PROVE  IInv'
<1> USE ConstantsAssumption DEF IInv, AcquireCheckId, managerVars, sessionVars, ioVars, reportVars
<1>0. Slot(t) \in Slots /\ want[t] \in Id
  BY Ids
<1>1. TypeInv'
  BY <1>0, Counting DEF TypeInv
<1>2. CountIsReferences'
  <2>1. ASSUME NEW s \in Slots PROVE Users(s)' = Users(s) /\ IoUsers(s)' = IoUsers(s)
    BY DEF Users, IoUsers, IoInv, KeyInv, TypeInv
  <2> QED BY <2>1 DEF CountIsReferences
<1>3. SlotInv'
  BY <1>0, Counting DEF SlotInv, IoInv, IdInv, TypeInv
<1>4. IoInv'
  BY <1>0, Counting DEF IoInv, SlotInv, IdInv, KeyInv, TypeInv
<1>5. IdInv'
  BY <1>0, Counting DEF IdInv, IoInv, SlotInv, KeyInv, TypeInv
<1>6. KeyInv'
  BY <1>0, Counting DEF KeyInv, IdInv, IoInv, TypeInv
<1>7. NoLostRelease'
  BY <1>0, Counting DEF NoLostRelease, SlotInv, IoInv, TypeInv
<1>8. RoomInv'
  <2>1. Uncounting' = Uncounting
    BY DEF Uncounting, TypeInv
  <2> QED BY <2>1 DEF RoomInv, Taken, TypeInv
<1> QED BY <1>1, <1>2, <1>3, <1>4, <1>5, <1>6, <1>7, <1>8 DEF IInv

(* SetGroup and MoveGroup leave counts, flags and ids alone.                 *)
LEMMA SetGroupStep ==
  ASSUME IInv, NEW t \in Threads, NEW g \in Groups, SetGroup(t, g)
  PROVE  IInv'
<1> USE ConstantsAssumption DEF IInv, SetGroup, threadVars, managerVars, sessionVars, ioVars, reportVars
<1>0. Slot(t) \in Slots /\ want[t] \in Id
  BY Ids
<1>1. TypeInv'
  BY <1>0, Counting DEF TypeInv
<1>2. CountIsReferences'
  <2>1. ASSUME NEW s \in Slots PROVE Users(s)' = Users(s) /\ IoUsers(s)' = IoUsers(s)
    BY DEF Users, IoUsers, IoInv, KeyInv, TypeInv
  <2> QED BY <2>1 DEF CountIsReferences
<1>3. SlotInv'
  BY <1>0, Counting DEF SlotInv, IoInv, IdInv, TypeInv
<1>4. IoInv'
  BY <1>0, Counting DEF IoInv, SlotInv, IdInv, KeyInv, TypeInv
<1>5. IdInv'
  BY <1>0, Counting DEF IdInv, IoInv, SlotInv, KeyInv, TypeInv
<1>6. KeyInv'
  BY <1>0, Counting DEF KeyInv, IdInv, IoInv, TypeInv
<1>7. NoLostRelease'
  BY <1>0, Counting DEF NoLostRelease, SlotInv, IoInv, TypeInv
<1>8. RoomInv'
  <2>1. Uncounting' = Uncounting
    BY DEF Uncounting, TypeInv
  <2> QED BY <2>1 DEF RoomInv, Taken, TypeInv
<1> QED BY <1>1, <1>2, <1>3, <1>4, <1>5, <1>6, <1>7, <1>8 DEF IInv

(* One compare-exchange wins, with the count at zero and the flag clear.     *)
LEMMA ReleaseCasStep ==
  ASSUME IInv, NEW t \in Threads, ReleaseCas(t)
  PROVE  IInv'
<1> USE ConstantsAssumption DEF IInv, ReleaseCas, ReleaseIf, managerVars, sessionVars, ioVars, reportVars
<1>0. /\ Slot(t) \in Slots /\ want[t] \in Id
      /\ usage[Slot(t)] = 0 =>
           /\ pending[Slot(t)] = 0
           /\ \A u \in Threads : Slot(u) = Slot(t) => pc[u] \notin Own /\ ~ioRef[u]
  BY Ids, Counting DEF Users, IoUsers
<1>1. TypeInv'
  BY <1>0, Counting DEF TypeInv
<1>2. CountIsReferences'
  <2>1. ASSUME NEW s \in Slots PROVE Users(s)' = Users(s) /\ IoUsers(s)' = IoUsers(s)
    BY DEF Users, IoUsers, IoInv, KeyInv, TypeInv
  <2> QED BY <2>1 DEF CountIsReferences
<1>r. ~released[Slot(t)] /\ usage[Slot(t)] = 0 =>
        /\ released'[Slot(t)] /\ \A s \in Slots \ {Slot(t)} : released'[s] = released[s]
        /\ pc'[t] = "notify" /\ \A u \in Threads \ {t} : pc'[u] = pc[u]
        /\ \A u \in Threads : ioRef[u] \/ pc[u] \in {"id", "held"} => Slot(u) # Slot(t)
  <2> SUFFICES ASSUME ~released[Slot(t)] /\ usage[Slot(t)] = 0
               PROVE  /\ released' = [released EXCEPT ![Slot(t)] = TRUE]
                      /\ pc' = [pc EXCEPT ![t] = "notify"]
                      /\ \A u \in Threads : ioRef[u] \/ pc[u] \in {"id", "held"} => Slot(u) # Slot(t)
    BY <1>0 DEF TypeInv
  <2> QED BY <1>0
<1>s. ~(~released[Slot(t)] /\ usage[Slot(t)] = 0) =>
        released' = released /\ pc'[t] = "idle" /\ \A u \in Threads \ {t} : pc'[u] = pc[u]
  BY DEF TypeInv
<1>3. SlotInv'
  <2>1. CASE ~released[Slot(t)] /\ usage[Slot(t)] = 0
    BY <1>0, <1>r, <2>1, Ids DEF SlotInv, TypeInv
  <2>2. CASE ~(~released[Slot(t)] /\ usage[Slot(t)] = 0)
    BY <1>0, <1>s, <2>2, Ids DEF SlotInv, TypeInv
  <2> QED BY <2>1, <2>2
<1>4. IoInv'
  BY <1>0, <1>r, <1>s, Ids DEF IoInv, SlotInv
<1>5. IdInv'
  BY <1>0, <1>r, <1>s, Ids DEF IdInv, IoInv, SlotInv
<1>6. KeyInv'
  BY <1>0, Counting DEF KeyInv, IdInv, IoInv, TypeInv
<1>7. NoLostRelease'
  BY <1>0, Counting DEF NoLostRelease, SlotInv, IoInv, TypeInv
<1>8. RoomInv'
  <2>1. Uncounting' = Uncounting
    BY DEF Uncounting, TypeInv
  <2> QED BY <2>1 DEF RoomInv, Taken, TypeInv
<1> QED BY <1>1, <1>2, <1>3, <1>4, <1>5, <1>6, <1>7, <1>8 DEF IInv

(* Return reports a session that only its thread still has.                  *)
LEMMA ReturnNotifyStep ==
  ASSUME IInv, NEW t \in Threads, ReturnNotify(t)
  PROVE  IInv'
<1> USE ConstantsAssumption DEF IInv, ReturnNotify, managerVars, sessionVars, ioVars, reportVars
<1>0. Slot(t) \in Slots /\ want[t] \in Id /\ sid[Slot(t)] \in Id
  BY Ids DEF TypeInv
<1>1. TypeInv'
  BY <1>0, Counting DEF TypeInv
<1>2. CountIsReferences'
  <2>1. ASSUME NEW s \in Slots PROVE Users(s)' = Users(s) /\ IoUsers(s)' = IoUsers(s)
    BY DEF Users, IoUsers, IoInv, KeyInv, TypeInv
  <2> QED BY <2>1 DEF CountIsReferences
<1>3. SlotInv'
  BY <1>0, Counting DEF SlotInv, IoInv, IdInv, TypeInv
<1>4. IoInv'
  BY <1>0, Counting DEF IoInv, SlotInv, IdInv, KeyInv, TypeInv
<1>5. IdInv'
  BY <1>0, Counting DEF IdInv, IoInv, SlotInv, KeyInv, TypeInv
<1>6. KeyInv'
  BY <1>0, Counting DEF KeyInv, IdInv, IoInv, TypeInv
<1>7. NoLostRelease'
  BY <1>0, Counting DEF NoLostRelease, SlotInv, IoInv, TypeInv
<1>8. RoomInv'
  <2>1. Uncounting' = Uncounting
    BY DEF Uncounting, TypeInv
  <2> QED BY <2>1 DEF RoomInv, Taken, TypeInv
<1> QED BY <1>1, <1>2, <1>3, <1>4, <1>5, <1>6, <1>7, <1>8 DEF IInv

(* Return frees the index; the slot is released and out of use.              *)
LEMMA ReturnPushStep ==
  ASSUME IInv, NEW t \in Threads, ReturnPush(t)
  PROVE  IInv'
<1> USE ConstantsAssumption DEF IInv, ReturnPush, managerVars, sessionVars, ioVars, reportVars
<1>0. Slot(t) \in Slots /\ want[t] \in Id
  BY Ids DEF IdInv
<1>1. TypeInv'
  BY <1>0, Ids DEF TypeInv
<1>2. CountIsReferences'
  <2>1. ASSUME NEW s \in Slots PROVE Users(s)' = Users(s) /\ IoUsers(s)' = IoUsers(s)
    BY DEF Users, IoUsers, IoInv, KeyInv, TypeInv
  <2> QED BY <2>1 DEF CountIsReferences
<1>3. SlotInv'
  BY <1>0, Counting DEF SlotInv, IoInv, IdInv, TypeInv
<1>4. IoInv'
  BY <1>0, Counting DEF IoInv, SlotInv, IdInv, KeyInv, TypeInv
<1>5. IdInv'
  BY <1>0, Counting DEF IdInv, IoInv, SlotInv, KeyInv, TypeInv
<1>6. KeyInv'
  BY <1>0, Counting DEF KeyInv, IdInv, IoInv, TypeInv
<1>7. NoLostRelease'
  BY <1>0, Counting DEF NoLostRelease, SlotInv, IoInv, TypeInv
<1>8. RoomInv'
  <2>1. Slots \ free' = (Slots \ free) \ {Slot(t)} /\ Slot(t) \in Slots \ free
    BY <1>0 DEF SlotInv, IdInv
  <2>2. Uncounting' = Uncounting \cup {t} /\ t \notin Uncounting
    BY DEF Uncounting, TypeInv
  <2>3. /\ Cardinality(Slots \ free) \in Nat /\ Cardinality(Uncounting) \in Nat
        /\ IsFiniteSet(Slots \ free) /\ IsFiniteSet(Uncounting)
    BY SlotsFinite, UsersFinite, Ids
  <2>4. Cardinality((Slots \ free) \ {Slot(t)}) = Cardinality(Slots \ free) - 1
    BY <2>1, <2>3, FS_RemoveElement
  <2>5. Cardinality(Uncounting \cup {t}) = Cardinality(Uncounting) + 1
    BY <2>2, <2>3, FS_AddElement
  <2>6. Taken' = Taken
    <3>1. Taken' = Cardinality(Slots \ free)' + Cardinality(Uncounting)'
      BY DEF Taken
    <3>2. /\ Cardinality(Slots \ free)' = Cardinality(Slots \ free) - 1
          /\ Cardinality(Uncounting)' = Cardinality(Uncounting) + 1
      BY <2>1, <2>2, <2>4, <2>5
    <3> QED BY <3>1, <3>2, <2>3 DEF Taken
  <2> QED BY <2>6 DEF RoomInv, TypeInv
<1> QED BY <1>1, <1>2, <1>3, <1>4, <1>5, <1>6, <1>7, <1>8 DEF IInv

(* Return lowers the number of sessions after the index is free.             *)
LEMMA ReturnUncountStep ==
  ASSUME IInv, NEW t \in Threads, ReturnUncount(t)
  PROVE  IInv'
<1> USE ConstantsAssumption DEF IInv, ReturnUncount, managerVars, sessionVars, ioVars, reportVars
<1>0. Slot(t) \in Slots /\ want[t] \in Id
  BY Ids
<1>1. TypeInv'
  BY <1>0, Counting DEF TypeInv
<1>2. CountIsReferences'
  <2>1. ASSUME NEW s \in Slots PROVE Users(s)' = Users(s) /\ IoUsers(s)' = IoUsers(s)
    BY DEF Users, IoUsers, IoInv, KeyInv, TypeInv
  <2> QED BY <2>1 DEF CountIsReferences
<1>3. SlotInv'
  BY <1>0, Counting DEF SlotInv, IoInv, IdInv, TypeInv
<1>4. IoInv'
  BY <1>0, Counting DEF IoInv, SlotInv, IdInv, KeyInv, TypeInv
<1>5. IdInv'
  BY <1>0, Counting DEF IdInv, IoInv, SlotInv, KeyInv, TypeInv
<1>6. KeyInv'
  BY <1>0, Counting DEF KeyInv, IdInv, IoInv, TypeInv
<1>7. NoLostRelease'
  BY <1>0, Counting DEF NoLostRelease, SlotInv, IoInv, TypeInv
<1>8. RoomInv'
  <2>1. Uncounting' = Uncounting \ {t} /\ t \in Uncounting
    BY DEF Uncounting, TypeInv
  <2>2. /\ Cardinality(Slots \ free) \in Nat /\ Cardinality(Uncounting) \in Nat
        /\ IsFiniteSet(Slots \ free) /\ IsFiniteSet(Uncounting)
    BY SlotsFinite, UsersFinite, Ids
  <2>3. Cardinality(Uncounting \ {t}) = Cardinality(Uncounting) - 1
    BY <2>1, <2>2, FS_RemoveElement
  <2>4. Taken' = Taken - 1 /\ Taken \in Nat
    BY <2>1, <2>2, <2>3 DEF Taken
  <2> QED BY <2>4 DEF RoomInv, TypeInv
<1> QED BY <1>1, <1>2, <1>3, <1>4, <1>5, <1>6, <1>7, <1>8 DEF IInv

(* A connection is admitted only below the limit, so an index is free.       *)
LEMMA AcceptCheckStep ==
  ASSUME IInv, AcceptCheck
  PROVE  IInv'
<1> USE ConstantsAssumption DEF IInv, AcceptCheck, managerVars, sessionVars, ioVars, reportVars
<1>0. Slot(Acceptor) \in Slots /\ want[Acceptor] \in Id /\ Acceptor \in Threads
  BY Ids
<1>1. TypeInv'
  BY <1>0, Counting DEF TypeInv
<1>2. CountIsReferences'
  <2>1. ASSUME NEW s \in Slots PROVE Users(s)' = Users(s) /\ IoUsers(s)' = IoUsers(s)
    BY DEF Users, IoUsers, IoInv, KeyInv, TypeInv
  <2> QED BY <2>1 DEF CountIsReferences
<1>3. SlotInv'
  BY <1>0, Counting DEF SlotInv, IoInv, IdInv, TypeInv
<1>4. IoInv'
  BY <1>0, Counting DEF IoInv, SlotInv, IdInv, KeyInv, TypeInv
<1>5. IdInv'
  BY <1>0, Counting DEF IdInv, IoInv, SlotInv, KeyInv, TypeInv
<1>6. KeyInv'
  BY <1>0, Counting DEF KeyInv, IdInv, IoInv, TypeInv
<1>7. NoLostRelease'
  BY <1>0, Counting DEF NoLostRelease, SlotInv, IoInv, TypeInv
<1>8. RoomInv'
  <2>1. Uncounting' = Uncounting
    BY DEF Uncounting, TypeInv
  <2> QED BY <2>1 DEF RoomInv, Taken, TypeInv
<1> QED BY <1>1, <1>2, <1>3, <1>4, <1>5, <1>6, <1>7, <1>8 DEF IInv

(* Create stores the new id while the flag still bars every Acquire.         *)
LEMMA CreateSetIdStep ==
  ASSUME IInv, CreateSetId
  PROVE  IInv'
<1> USE ConstantsAssumption DEF IInv, CreateSetId, managerVars, sessionVars, ioVars, reportVars
<1>0. Slot(Acceptor) \in Slots /\ want[Acceptor] \in Id /\ Acceptor \in Threads
  BY Ids
<1>1. TypeInv'
  BY <1>0, Counting DEF TypeInv
<1>2. CountIsReferences'
  <2>1. ASSUME NEW s \in Slots PROVE Users(s)' = Users(s) /\ IoUsers(s)' = IoUsers(s)
    BY DEF Users, IoUsers, IoInv, KeyInv, TypeInv
  <2> QED BY <2>1 DEF CountIsReferences
<1>3. SlotInv'
  BY <1>0, Counting DEF SlotInv, IoInv, IdInv, TypeInv
<1>4. IoInv'
  BY <1>0, Counting DEF IoInv, SlotInv, IdInv, KeyInv, TypeInv
<1>5. IdInv'
  BY <1>0, Counting DEF IdInv, IoInv, SlotInv, KeyInv, TypeInv
<1>6. KeyInv'
  BY <1>0 DEF KeyInv, IdInv, IoInv, SlotInv, TypeInv
<1>7. NoLostRelease'
  BY <1>0, Counting DEF NoLostRelease, SlotInv, IoInv, TypeInv
<1>8. RoomInv'
  <2>1. Uncounting' = Uncounting
    BY DEF Uncounting, TypeInv
  <2> QED BY <2>1 DEF RoomInv, Taken, TypeInv
<1> QED BY <1>1, <1>2, <1>3, <1>4, <1>5, <1>6, <1>7, <1>8 DEF IInv

(* Create clears the flag and keeps the count failing Acquires changed.      *)
LEMMA CreateClearFlagStep ==
  ASSUME IInv, CreateClearFlag
  PROVE  IInv'
<1> USE ConstantsAssumption DEF IInv, CreateClearFlag, managerVars, sessionVars, ioVars, reportVars
<1>0. /\ Slot(Acceptor) \in Slots /\ want[Acceptor] \in Id /\ Acceptor \in Threads
      /\ ioRef[Acceptor] /\ usage[Slot(Acceptor)] # 0
  BY Ids, Counting DEF IoUsers, IoInv
<1>1. TypeInv'
  BY <1>0, Counting DEF TypeInv
<1>2. CountIsReferences'
  <2>1. ASSUME NEW s \in Slots PROVE Users(s)' = Users(s) /\ IoUsers(s)' = IoUsers(s)
    BY DEF Users, IoUsers, IoInv, KeyInv, TypeInv
  <2> QED BY <2>1 DEF CountIsReferences
<1>3. SlotInv'
  BY <1>0, Counting DEF SlotInv, IoInv, IdInv, TypeInv
<1>4. IoInv'
  BY <1>0, Counting DEF IoInv, SlotInv, IdInv, KeyInv, TypeInv
<1>5. IdInv'
  BY <1>0, Counting DEF IdInv, IoInv, SlotInv, KeyInv, TypeInv
<1>6. KeyInv'
  BY <1>0, Counting DEF KeyInv, IdInv, IoInv, TypeInv
<1>7. NoLostRelease'
  BY <1>0, Counting DEF NoLostRelease, SlotInv, IoInv, TypeInv
<1>8. RoomInv'
  <2>1. Uncounting' = Uncounting
    BY DEF Uncounting, TypeInv
  <2> QED BY <2>1 DEF RoomInv, Taken, TypeInv
<1> QED BY <1>1, <1>2, <1>3, <1>4, <1>5, <1>6, <1>7, <1>8 DEF IInv

(* Create counts the session and registers its socket.                       *)
LEMMA CreateCountStep ==
  ASSUME IInv, CreateCount
  PROVE  IInv'
<1> USE ConstantsAssumption DEF IInv, CreateCount, managerVars, sessionVars, ioVars, reportVars
<1>0. Slot(Acceptor) \in Slots /\ want[Acceptor] \in Id /\ Acceptor \in Threads
  BY Ids
<1>1. TypeInv'
  BY <1>0, Ids DEF TypeInv
<1>2. CountIsReferences'
  <2>1. ASSUME NEW s \in Slots PROVE Users(s)' = Users(s) /\ IoUsers(s)' = IoUsers(s)
    BY DEF Users, IoUsers, IoInv, KeyInv, TypeInv
  <2> QED BY <2>1 DEF CountIsReferences
<1>3. SlotInv'
  BY <1>0, Counting DEF SlotInv, IoInv, IdInv, TypeInv
<1>4. IoInv'
  BY <1>0, Counting DEF IoInv, SlotInv, IdInv, KeyInv, TypeInv
<1>5. IdInv'
  BY <1>0, Counting DEF IdInv, IoInv, SlotInv, KeyInv, TypeInv
<1>6. KeyInv'
  BY <1>0, Counting DEF KeyInv, IdInv, IoInv, TypeInv
<1>7. NoLostRelease'
  BY <1>0, Counting DEF NoLostRelease, SlotInv, IoInv, TypeInv
<1>8. RoomInv'
  <2>1. Uncounting' = Uncounting
    BY DEF Uncounting, TypeInv
  <2>2. /\ Cardinality(Slots \ free) \in Nat /\ Cardinality(Uncounting) \in Nat
        /\ IsFiniteSet(Slots \ free) /\ IsFiniteSet(Uncounting)
    BY SlotsFinite, UsersFinite, Ids
  <2>3. Taken' = Taken /\ Taken \in Nat
    BY <2>1, <2>2 DEF Taken
  <2> QED BY <2>3, Ids DEF RoomInv, TypeInv
<1> QED BY <1>1, <1>2, <1>3, <1>4, <1>5, <1>6, <1>7, <1>8 DEF IInv

(* OnAccept makes the id known.                                              *)
LEMMA OnAcceptStep ==
  ASSUME IInv, OnAccept
  PROVE  IInv'
<1> USE ConstantsAssumption DEF IInv, OnAccept, managerVars, sessionVars, ioVars, reportVars
<1>0. Slot(Acceptor) \in Slots /\ want[Acceptor] \in Id /\ Acceptor \in Threads
  BY Ids
<1>1. TypeInv'
  BY <1>0, Ids DEF TypeInv, FirstGroups
<1>2. CountIsReferences'
  <2>1. ASSUME NEW s \in Slots PROVE Users(s)' = Users(s) /\ IoUsers(s)' = IoUsers(s)
    BY DEF Users, IoUsers, IoInv, KeyInv, TypeInv
  <2> QED BY <2>1 DEF CountIsReferences
<1>3. SlotInv'
  BY <1>0, Counting DEF SlotInv, IoInv, IdInv, TypeInv
<1>4. IoInv'
  BY <1>0, Counting DEF IoInv, SlotInv, IdInv, KeyInv, TypeInv
<1>5. IdInv'
  BY <1>0, Counting DEF IdInv, IoInv, SlotInv, KeyInv, TypeInv
<1>6. KeyInv'
  BY <1>0, Counting DEF KeyInv, IdInv, IoInv, TypeInv
<1>7. NoLostRelease'
  BY <1>0, Counting DEF NoLostRelease, SlotInv, IoInv, TypeInv
<1>8. RoomInv'
  <2>1. Uncounting' = Uncounting
    BY DEF Uncounting, TypeInv
  <2> QED BY <2>1 DEF RoomInv, Taken, TypeInv
<1> QED BY <1>1, <1>2, <1>3, <1>4, <1>5, <1>6, <1>7, <1>8 DEF IInv

(* Create takes a free index for the accept thread alone.                    *)
LEMMA CreatePopStep ==
  ASSUME IInv, NEW x \in Slots, CreatePop(x)
  PROVE  IInv'
<1> USE ConstantsAssumption DEF IInv, CreatePop, managerVars, sessionVars, ioVars, reportVars
<1>0. /\ SessionId(uniqueKey, x) \in Id /\ SessionId(uniqueKey, x).idx = x
      /\ SessionId(uniqueKey, x).key = uniqueKey /\ Acceptor \in Threads
  BY DEF Id, SessionId, TypeInv
<1>1. TypeInv'
  BY <1>0, Counting DEF TypeInv
<1>2. CountIsReferences'
  <2>1. ASSUME NEW s \in Slots PROVE Users(s)' = Users(s) /\ IoUsers(s)' = IoUsers(s)
    BY DEF Users, IoUsers, IoInv, KeyInv, TypeInv
  <2> QED BY <2>1 DEF CountIsReferences
<1>3. SlotInv'
  BY <1>0, Counting DEF SlotInv, IoInv, IdInv, TypeInv
<1>4. IoInv'
  BY <1>0, Counting DEF IoInv, SlotInv, IdInv, KeyInv, TypeInv
<1>5. IdInv'
  BY <1>0, Counting DEF IdInv, IoInv, SlotInv, KeyInv, TypeInv
<1>6. KeyInv'
  BY <1>0 DEF KeyInv, IoInv, TypeInv, Id
<1>7. NoLostRelease'
  BY <1>0, Counting DEF NoLostRelease, SlotInv, IoInv, TypeInv
<1>8. RoomInv'
  <2>1. Slots \ free' = (Slots \ free) \cup {x} /\ x \notin Slots \ free
    BY DEF CreatePop
  <2>2. Uncounting' = Uncounting
    BY DEF Uncounting, TypeInv
  <2>3. /\ Cardinality(Slots \ free) \in Nat /\ Cardinality(Uncounting) \in Nat
        /\ IsFiniteSet(Slots \ free) /\ IsFiniteSet(Uncounting)
    BY SlotsFinite, UsersFinite, Ids
  <2>4. Cardinality((Slots \ free) \cup {x}) = Cardinality(Slots \ free) + 1
    BY <2>1, <2>3, FS_AddElement
  <2>5. Taken' = Taken + 1 /\ Taken \in Nat
    BY <2>1, <2>2, <2>3, <2>4 DEF Taken
  <2>6. pc[Acceptor] = "pop" /\ pc'[Acceptor] = "setId"
    BY <1>0 DEF TypeInv
  <2> QED BY <2>5, <2>6 DEF RoomInv, TypeInv
<1> QED BY <1>1, <1>2, <1>3, <1>4, <1>5, <1>6, <1>7, <1>8 DEF IInv

(* A completion's reference passes to the worker that dequeues it.           *)
LEMMA DispatchCompletionStep ==
  ASSUME IInv, NEW t \in Workers, NEW x \in Slots, DispatchCompletion(t, x)
  PROVE  IInv'
<1> USE ConstantsAssumption DEF IInv, DispatchCompletion, managerVars, sessionVars, ioVars, reportVars
<1>0. /\ t \in Threads /\ ioKey[x] = sid[x] /\ sid[x] \in accepted
      /\ sid[x].idx = x /\ sid[x] \in Id /\ ~released[x]
  BY DEF IoInv, IdInv, KeyInv, TypeInv
<1>1. TypeInv'
  BY <1>0, Counting DEF TypeInv
<1>2. CountIsReferences'
  <2> SUFFICES ASSUME NEW s \in Slots
               PROVE usage'[s] = pending'[s] + Cardinality(Users(s)') + Cardinality(IoUsers(s)')
    BY DEF CountIsReferences
  <2>1. /\ Users(s)' = IF s = x THEN Users(s) \cup {t} ELSE Users(s)
        /\ t \notin Users(s)
    BY <1>0 DEF Users, IoInv, KeyInv, TypeInv
  <2>2. Cardinality(Users(s) \cup {t}) = Cardinality(Users(s)) + 1
    BY <2>1, UsersFinite, FS_AddElement
  <2>3. /\ IoUsers(s)' = IF s = x THEN IoUsers(s) \cup {t} ELSE IoUsers(s)
        /\ t \notin IoUsers(s)
    BY <1>0 DEF IoUsers, IoInv, KeyInv, TypeInv
  <2>4. Cardinality(IoUsers(s) \cup {t}) = Cardinality(IoUsers(s)) + 1
    BY <2>3, UsersFinite, FS_AddElement
  <2>5. /\ usage'[s] = usage[s] + (IF s = x THEN 1 ELSE 0) /\ usage[s] \in Int
        /\ pending'[s] = pending[s] + (IF s = x THEN -1 ELSE 0) /\ pending[s] \in Nat
    BY <1>0 DEF TypeInv
  <2> QED BY <2>1, <2>2, <2>3, <2>4, <2>5, UsersFinite DEF CountIsReferences
<1>3. SlotInv'
  BY <1>0, Counting DEF SlotInv, IoInv, IdInv, TypeInv
<1>4. IoInv'
  BY <1>0, Counting DEF IoInv, SlotInv, IdInv, KeyInv, TypeInv
<1>5. IdInv'
  BY <1>0, Counting DEF IdInv, IoInv, SlotInv, KeyInv, TypeInv
<1>6. KeyInv'
  BY <1>0, Counting DEF KeyInv, IdInv, IoInv, TypeInv
<1>7. NoLostRelease'
  BY <1>0, Counting DEF NoLostRelease, SlotInv, IoInv, TypeInv
<1>8. RoomInv'
  <2>1. Uncounting' = Uncounting
    BY DEF Uncounting, TypeInv
  <2> QED BY <2>1 DEF RoomInv, Taken, TypeInv
<1> QED BY <1>1, <1>2, <1>3, <1>4, <1>5, <1>6, <1>7, <1>8 DEF IInv

(* A thread's own reference is given back: AcquireFail and Release.          *)
LEMMA GiveBackStep ==
  ASSUME IInv, NEW t \in Threads, AcquireFail(t) \/ Release(t)
  PROVE  IInv'
<1> USE ConstantsAssumption DEF IInv, AcquireFail, Release, DecUsage, managerVars, sessionVars, ioVars, reportVars
<1>0. Slot(t) \in Slots /\ want[t] \in Id /\ ~ioRef[t]
  BY Ids DEF IoInv
<1>1. TypeInv'
  BY <1>0, Counting DEF TypeInv
<1>2. CountIsReferences'
  <2> SUFFICES ASSUME NEW s \in Slots
               PROVE usage'[s] = pending'[s] + Cardinality(Users(s)') + Cardinality(IoUsers(s)')
    BY DEF CountIsReferences
  <2>1. /\ Users(s)' = IF s = Slot(t) THEN Users(s) \ {t} ELSE Users(s)
        /\ s = Slot(t) => t \in Users(s)
    BY <1>0 DEF Users, IoInv, KeyInv, TypeInv
  <2>2. s = Slot(t) => Cardinality(Users(s) \ {t}) = Cardinality(Users(s)) - 1
    BY <2>1, UsersFinite, FS_RemoveElement
  <2>3. IoUsers(s)' = IoUsers(s)
    BY <1>0 DEF IoUsers, IoInv, KeyInv, TypeInv
  <2>4. /\ usage'[s] = usage[s] + (IF s = Slot(t) THEN -1 ELSE 0) /\ usage[s] \in Int
        /\ pending'[s] = pending[s] /\ pending[s] \in Nat
    BY <1>0 DEF TypeInv
  <2> QED BY <2>1, <2>2, <2>3, <2>4, UsersFinite DEF CountIsReferences
<1>3. SlotInv'
  BY <1>0, Counting DEF SlotInv, IoInv, IdInv, TypeInv
<1>4. IoInv'
  BY <1>0, Counting DEF IoInv, SlotInv, IdInv, KeyInv, TypeInv
<1>5. IdInv'
  BY <1>0, Counting DEF IdInv, IoInv, SlotInv, KeyInv, TypeInv
<1>6. KeyInv'
  BY <1>0, Counting DEF KeyInv, IdInv, IoInv, TypeInv
<1>7. NoLostRelease'
  BY <1>0, Counting DEF NoLostRelease, SlotInv, IoInv, TypeInv
<1>8. RoomInv'
  <2>1. Uncounting' = Uncounting
    BY DEF Uncounting, TypeInv
  <2> QED BY <2>1 DEF RoomInv, Taken, TypeInv
<1> QED BY <1>1, <1>2, <1>3, <1>4, <1>5, <1>6, <1>7, <1>8 DEF IInv

(* send_post counts a reference for the send.                                *)
LEMMA SendPostIncStep ==
  ASSUME IInv, NEW t \in Threads, SendPostInc(t)
  PROVE  IInv'
<1> USE ConstantsAssumption DEF IInv, SendPostInc, managerVars, sessionVars, ioVars, reportVars
<1>0. Slot(t) \in Slots /\ want[t] \in Id
  BY Ids
<1>1. TypeInv'
  BY <1>0, Counting DEF TypeInv
<1>2. CountIsReferences'
  <2> SUFFICES ASSUME NEW s \in Slots
               PROVE usage'[s] = pending'[s] + Cardinality(Users(s)') + Cardinality(IoUsers(s)')
    BY DEF CountIsReferences
  <2>1. Users(s)' = Users(s)
    BY <1>0 DEF Users, IoInv, KeyInv, TypeInv
  <2>2. /\ IoUsers(s)' = IF s = Slot(t) THEN IoUsers(s) \cup {t} ELSE IoUsers(s)
        /\ t \notin IoUsers(s)
    BY <1>0 DEF IoUsers, IoInv, KeyInv, TypeInv
  <2>3. Cardinality(IoUsers(s) \cup {t}) = Cardinality(IoUsers(s)) + 1
    BY <2>2, UsersFinite, FS_AddElement
  <2>4. /\ usage'[s] = usage[s] + (IF s = Slot(t) THEN 1 ELSE 0) /\ usage[s] \in Int
        /\ pending'[s] = pending[s] /\ pending[s] \in Nat
    BY <1>0 DEF TypeInv
  <2> QED BY <2>1, <2>2, <2>3, <2>4, UsersFinite DEF CountIsReferences
<1>3. SlotInv'
  BY <1>0, Counting DEF SlotInv, IoInv, IdInv, TypeInv
<1>4. IoInv'
  BY <1>0, Counting DEF IoInv, SlotInv, IdInv, KeyInv, TypeInv
<1>5. IdInv'
  BY <1>0, Counting DEF IdInv, IoInv, SlotInv, KeyInv, TypeInv
<1>6. KeyInv'
  BY <1>0, Counting DEF KeyInv, IdInv, IoInv, TypeInv
<1>7. NoLostRelease'
  BY <1>0, Counting DEF NoLostRelease, SlotInv, IoInv, TypeInv
<1>8. RoomInv'
  <2>1. Uncounting' = Uncounting
    BY DEF Uncounting, TypeInv
  <2> QED BY <2>1 DEF RoomInv, Taken, TypeInv
<1> QED BY <1>1, <1>2, <1>3, <1>4, <1>5, <1>6, <1>7, <1>8 DEF IInv

(* An accepted I/O takes its reference over.                                 *)
LEMMA IoPostedStep ==
  ASSUME IInv, NEW t \in Threads, IoPosted(t)
  PROVE  IInv'
<1> USE ConstantsAssumption DEF IInv, IoPosted, managerVars, sessionVars, ioVars, reportVars
<1>0. Slot(t) \in Slots /\ want[t] \in Id
  BY Ids
<1>1. TypeInv'
  BY <1>0, Counting DEF TypeInv
<1>2. CountIsReferences'
  <2> SUFFICES ASSUME NEW s \in Slots
               PROVE usage'[s] = pending'[s] + Cardinality(Users(s)') + Cardinality(IoUsers(s)')
    BY DEF CountIsReferences
  <2>1. Users(s)' = Users(s)
    BY <1>0 DEF Users, IoInv, KeyInv, TypeInv
  <2>2. /\ IoUsers(s)' = IF s = Slot(t) THEN IoUsers(s) \ {t} ELSE IoUsers(s)
        /\ s = Slot(t) => t \in IoUsers(s)
    BY <1>0 DEF IoUsers, IoInv, KeyInv, TypeInv
  <2>3. s = Slot(t) => Cardinality(IoUsers(s) \ {t}) = Cardinality(IoUsers(s)) - 1
    BY <2>2, UsersFinite, FS_RemoveElement
  <2>4. /\ usage'[s] = usage[s] /\ usage[s] \in Int
        /\ pending'[s] = pending[s] + (IF s = Slot(t) THEN 1 ELSE 0) /\ pending[s] \in Nat
    BY <1>0 DEF TypeInv
  <2> QED BY <2>1, <2>2, <2>3, <2>4, UsersFinite DEF CountIsReferences
<1>3. SlotInv'
  BY <1>0, Counting DEF SlotInv, IoInv, IdInv, TypeInv
<1>4. IoInv'
  BY <1>0, Counting DEF IoInv, SlotInv, IdInv, KeyInv, TypeInv
<1>5. IdInv'
  BY <1>0, Counting DEF IdInv, IoInv, SlotInv, KeyInv, TypeInv
<1>6. KeyInv'
  BY <1>0, Counting DEF KeyInv, IdInv, IoInv, TypeInv
<1>7. NoLostRelease'
  BY <1>0, Counting DEF NoLostRelease, SlotInv, IoInv, TypeInv
<1>8. RoomInv'
  <2>1. Uncounting' = Uncounting
    BY DEF Uncounting, TypeInv
  <2> QED BY <2>1 DEF RoomInv, Taken, TypeInv
<1> QED BY <1>1, <1>2, <1>3, <1>4, <1>5, <1>6, <1>7, <1>8 DEF IInv

(* An I/O's reference is given back.                                         *)
LEMMA IoDroppedStep ==
  ASSUME IInv, NEW t \in Threads, IoDropped(t)
  PROVE  IInv'
<1> USE ConstantsAssumption DEF IInv, IoDropped, DecUsage, managerVars, sessionVars, ioVars, reportVars
<1>0. /\ Slot(t) \in Slots /\ want[t] \in Id
      /\ usage[Slot(t)] = 1 => t = Acceptor
  <2>1. Slot(t) \in Slots /\ want[t] \in Id /\ t \in IoUsers(Slot(t))
    BY Ids DEF IoUsers
  <2>2. pc[t] = "held" => t \in Users(Slot(t))
    BY DEF Users
  <2>3. pc[t] = "recvPost" => t = Acceptor
    BY DEF TypeInv
  <2> QED BY <2>1, <2>2, <2>3, Counting
<1>1. TypeInv'
  BY <1>0, Counting DEF TypeInv
<1>2. CountIsReferences'
  <2> SUFFICES ASSUME NEW s \in Slots
               PROVE usage'[s] = pending'[s] + Cardinality(Users(s)') + Cardinality(IoUsers(s)')
    BY DEF CountIsReferences
  <2>1. Users(s)' = Users(s)
    BY <1>0 DEF Users, IoInv, KeyInv, TypeInv
  <2>2. /\ IoUsers(s)' = IF s = Slot(t) THEN IoUsers(s) \ {t} ELSE IoUsers(s)
        /\ s = Slot(t) => t \in IoUsers(s)
    BY <1>0 DEF IoUsers, IoInv, KeyInv, TypeInv
  <2>3. s = Slot(t) => Cardinality(IoUsers(s) \ {t}) = Cardinality(IoUsers(s)) - 1
    BY <2>2, UsersFinite, FS_RemoveElement
  <2>4. /\ usage'[s] = usage[s] + (IF s = Slot(t) THEN -1 ELSE 0) /\ usage[s] \in Int
        /\ pending'[s] = pending[s] /\ pending[s] \in Nat
    BY <1>0 DEF TypeInv
  <2> QED BY <2>1, <2>2, <2>3, <2>4, UsersFinite DEF CountIsReferences
<1>3. SlotInv'
  BY <1>0, Counting DEF SlotInv, IoInv, IdInv, TypeInv
<1>4. IoInv'
  BY <1>0, Counting DEF IoInv, SlotInv, IdInv, KeyInv, TypeInv
<1>5. IdInv'
  BY <1>0, Counting DEF IdInv, IoInv, SlotInv, KeyInv, TypeInv
<1>6. KeyInv'
  BY <1>0, Counting DEF KeyInv, IdInv, IoInv, TypeInv
<1>7. NoLostRelease'
  BY <1>0, Counting DEF NoLostRelease, SlotInv, IoInv, TypeInv
<1>8. RoomInv'
  <2>1. Uncounting' = Uncounting
    BY DEF Uncounting, TypeInv
  <2> QED BY <2>1 DEF RoomInv, Taken, TypeInv
<1> QED BY <1>1, <1>2, <1>3, <1>4, <1>5, <1>6, <1>7, <1>8 DEF IInv

(* Create counts the first reference.                                        *)
LEMMA CreateIncStep ==
  ASSUME IInv, CreateInc
  PROVE  IInv'
<1> USE ConstantsAssumption DEF IInv, CreateInc, managerVars, sessionVars, ioVars, reportVars
<1>0. Slot(Acceptor) \in Slots /\ want[Acceptor] \in Id /\ Acceptor \in Threads
  BY Ids
<1>1. TypeInv'
  BY <1>0, Counting DEF TypeInv
<1>2. CountIsReferences'
  <2> SUFFICES ASSUME NEW s \in Slots
               PROVE usage'[s] = pending'[s] + Cardinality(Users(s)') + Cardinality(IoUsers(s)')
    BY DEF CountIsReferences
  <2>1. Users(s)' = Users(s)
    BY <1>0 DEF Users, IoInv, KeyInv, TypeInv
  <2>2. /\ IoUsers(s)' = IF s = Slot(Acceptor) THEN IoUsers(s) \cup {Acceptor} ELSE IoUsers(s)
        /\ Acceptor \notin IoUsers(s)
    BY <1>0 DEF IoUsers, IoInv, KeyInv, TypeInv
  <2>3. Cardinality(IoUsers(s) \cup {Acceptor}) = Cardinality(IoUsers(s)) + 1
    BY <2>2, UsersFinite, FS_AddElement
  <2>4. /\ usage'[s] = usage[s] + (IF s = Slot(Acceptor) THEN 1 ELSE 0) /\ usage[s] \in Int
        /\ pending'[s] = pending[s] /\ pending[s] \in Nat
    BY <1>0 DEF TypeInv
  <2> QED BY <2>1, <2>2, <2>3, <2>4, UsersFinite DEF CountIsReferences
<1>3. SlotInv'
  BY <1>0, Counting DEF SlotInv, IoInv, IdInv, TypeInv
<1>4. IoInv'
  BY <1>0, Counting DEF IoInv, SlotInv, IdInv, KeyInv, TypeInv
<1>5. IdInv'
  BY <1>0, Counting DEF IdInv, IoInv, SlotInv, KeyInv, TypeInv
<1>6. KeyInv'
  BY <1>0, Counting DEF KeyInv, IdInv, IoInv, TypeInv
<1>7. NoLostRelease'
  BY <1>0, Counting DEF NoLostRelease, SlotInv, IoInv, TypeInv
<1>8. RoomInv'
  <2>1. Uncounting' = Uncounting
    BY DEF Uncounting, TypeInv
  <2> QED BY <2>1 DEF RoomInv, Taken, TypeInv
<1> QED BY <1>1, <1>2, <1>3, <1>4, <1>5, <1>6, <1>7, <1>8 DEF IInv
-----------------------------------------------------------------------------

(* Every step of every thread preserves the invariant.                       *)
LEMMA InductiveStep == IInv /\ [Next]_vars => IInv'
<1> SUFFICES ASSUME IInv, [Next]_vars PROVE IInv'
  OBVIOUS
<1>1. CASE Accept
  BY <1>1, AcceptCheckStep, CreatePopStep, CreateSetIdStep, CreateIncStep, CreateClearFlagStep,
     CreateCountStep, OnAcceptStep DEF Accept
<1>2. ASSUME NEW t \in Threads, Continue(t) PROVE IInv'
  BY <1>2, AcquireCheckFlagStep, AcquireCheckIdStep, GiveBackStep, ReleaseCasStep,
     ReturnNotifyStep, ReturnPushStep, ReturnUncountStep DEF Continue
<1>3. ASSUME NEW t \in Threads, Use(t) PROVE IInv'
  BY <1>3, SendPostIncStep, IoPostedStep, IoDroppedStep, SetGroupStep, GiveBackStep DEF Use
<1>4. ASSUME NEW t \in Workers, NEW i \in accepted, AcquireInc(t, i) PROVE IInv'
  BY <1>4, AcquireIncStep
<1>5. ASSUME NEW t \in Workers, NEW s \in Slots, DispatchCompletion(t, s) PROVE IInv'
  BY <1>5, DispatchCompletionStep
<1>6. CASE UNCHANGED vars
  <2> USE <1>6 DEF vars, managerVars, sessionVars, ioVars, threadVars, reportVars
  <2>1. /\ \A s \in Slots : Users(s)' = Users(s) /\ IoUsers(s)' = IoUsers(s)
        /\ Uncounting' = Uncounting
    BY DEF Users, IoUsers, Uncounting
  <2>2. CountIsReferences' /\ RoomInv'
    BY <2>1 DEF IInv, CountIsReferences, RoomInv, Taken
  <2>3. TypeInv' /\ SlotInv' /\ IoInv' /\ IdInv' /\ KeyInv' /\ NoLostRelease'
    BY DEF IInv, TypeInv, SlotInv, IoInv, IdInv, KeyInv, NoLostRelease
  <2> QED BY <2>2, <2>3 DEF IInv
<1> QED BY <1>1, <1>2, <1>3, <1>4, <1>5, <1>6 DEF Next

(* The invariant holds in every state of every behaviour.                    *)
THEOREM Inductive == Spec => []IInv
<1> QED BY InitIInv, InductiveStep, PTL DEF Spec
-----------------------------------------------------------------------------
(* Every variable keeps its type: the 31-bit count is never negative and the  *)
(* server never counts more sessions than it has room for.                   *)
THEOREM TypeCorrect == Spec => []TypeOK
<1>1. IInv => TypeOK
  <2> SUFFICES ASSUME IInv PROVE TypeOK
    OBVIOUS
  <2>1. usage \in [Slots -> Nat]
    BY Counting DEF IInv, TypeInv
  <2>2. /\ Cardinality(Slots \ free) \in Nat /\ Cardinality(Uncounting) \in Nat
        /\ IsFiniteSet(Slots \ free)
    BY SlotsFinite, UsersFinite, Ids DEF IInv
  <2>3. pc[Acceptor] \in Hidden \cup {"count"} => Slots \ free # {}
    BY Ids DEF IInv, SlotInv, IoInv
  <2>4. sessionCount \in 0 .. MaxSession
    BY <2>2, <2>3, NonEmpty, ConstantsAssumption DEF IInv, RoomInv, Taken
  <2> QED BY <2>1, <2>4 DEF IInv, TypeInv, TypeOK
<1> QED BY <1>1, Inductive, PTL

(* The reference count of every session is the number of its references: no   *)
(* interleaving of Acquire, Release, I/O and creation loses an update.       *)
THEOREM CountsAreExact == Spec => []CountIsReferences
<1>1. IInv => CountIsReferences
  BY DEF IInv
<1> QED BY <1>1, Inductive, PTL

(* A thread that Acquire gave a session to holds the one it asked for.        *)
THEOREM AcquireIsSound == Spec => []HeldIsCurrent
<1>1. IInv => HeldIsCurrent
  BY DEF IInv, IdInv, HeldIsCurrent
<1> QED BY <1>1, Inductive, PTL

(* A worker that dequeued a completion always finds its session.              *)
THEOREM CompletionsFindSession == Spec => []CompletionFindsSession
<1>1. IInv => CompletionFindsSession
  BY ConstantsAssumption DEF IInv, IoInv, CompletionFindsSession
<1> QED BY <1>1, Inductive, PTL

(* Return runs alone, with no I/O under way and no user but a failing Acquire.*)
THEOREM ReturnIsExclusive == Spec => []ReleaseIsExclusive
<1>1. IInv => ReleaseIsExclusive
  <2> SUFFICES ASSUME IInv, NEW t \in Threads, pc[t] \in Back
               PROVE  /\ released[Slot(t)] /\ Slot(t) \notin free /\ pending[Slot(t)] = 0
                      /\ IoUsers(Slot(t)) = {}
                      /\ \A u, v \in Returning(Slot(t)) : u = v
                      /\ \A u \in Users(Slot(t)) : pc[u] \in {"flag", "fail"}
    BY DEF ReleaseIsExclusive, Returning
  <2>1. released[Slot(t)] /\ Slot(t) \notin free /\ pending[Slot(t)] = 0
    BY Ids DEF IInv, SlotInv, IoInv
  <2>2. IoUsers(Slot(t)) = {}
    BY <2>1 DEF IInv, SlotInv, IoInv, IoUsers
  <2>3. \A u, v \in Returning(Slot(t)) : u = v
    BY DEF IInv, SlotInv, Returning
  <2>4. \A u \in Users(Slot(t)) : pc[u] \in {"flag", "fail"}
    BY <2>1 DEF IInv, IdInv, Users
  <2> QED BY <2>1, <2>2, <2>3, <2>4
<1> QED BY <1>1, Inductive, PTL

(* An unreferenced session always has a thread on its way to release it.      *)
THEOREM ReleasesAreNotLost == Spec => []NoLostRelease
<1>1. IInv => NoLostRelease
  BY DEF IInv
<1> QED BY <1>1, Inductive, PTL

(* The accept thread never pops an empty free list.                           *)
THEOREM PopNeverCrashes == Spec => []PopFindsIndex
<1>1. IInv => PopFindsIndex
  <2> SUFFICES ASSUME IInv, pc[Acceptor] = "pop", free = {} PROVE FALSE
    BY DEF PopFindsIndex
  <2>1. Cardinality(Slots \ free) = MaxSession
    <3>1. Slots \ free = Slots
      OBVIOUS
    <3> QED BY <3>1, SlotsFinite
  <2> QED BY <2>1, UsersFinite, Ids, ConstantsAssumption DEF IInv, RoomInv, Taken
<1> QED BY <1>1, Inductive, PTL-----------------------------------------------------------------------------
(* That an accepted session is reported closed once needs the group index of *)
(* every session the application can lose: only GroupNull is not reported.   *)
Notifying(s) == \E t \in Threads : pc[t] = "notify" /\ Slot(t) = s
NotifyInv ==
  /\ \A s \in Slots : Notifying(s) => sid[s] \in accepted
  /\ Groups = {} => \A s \in Slots : group[s] = Ungrouped
  /\ Groups # {} => \A s \in Slots :
       (~released[s] /\ sid[s] \in accepted) \/ Notifying(s) => group[s] \in Groups
  /\ NotifiedOnce

(* Steps that disturb neither a session, its group nor its reports.          *)
LEMMA NotifyFrame ==
  ASSUME TypeInv, NotifyInv, sid' = sid, released' = released, group' = group,
         accepted' = accepted, notified' = notified,
         \A s \in Slots : Notifying(s)' <=> Notifying(s)
  PROVE  NotifyInv'
<1>1. \A i \in Id : InTable(i)' <=> InTable(i)
  BY DEF InTable, Notifying, Id
<1>2. NotifiedOnce'
  BY <1>1 DEF NotifyInv, NotifiedOnce, TypeInv
<1> QED BY <1>2 DEF NotifyInv

(* Every step keeps the reports in line with the table.                      *)
LEMMA NotifyStep == IInv /\ IInv' /\ NotifyInv /\ [Next]_vars => NotifyInv'
<1> SUFFICES ASSUME IInv, IInv', NotifyInv, [Next]_vars PROVE NotifyInv'
  OBVIOUS
<1> USE ConstantsAssumption DEF IInv, managerVars, sessionVars, ioVars, threadVars, reportVars
<1>1. CASE AcceptCheck \/ CreateInc \/ CreateCount
  <2>1. \A s \in Slots : Notifying(s)' <=> Notifying(s)
    BY <1>1 DEF AcceptCheck, CreateInc, CreateCount, Notifying, TypeInv
  <2> QED BY <1>1, <2>1, NotifyFrame DEF AcceptCheck, CreateInc, CreateCount
<1>2. ASSUME NEW x \in Slots, CreatePop(x) PROVE NotifyInv'
  <2>1. \A s \in Slots : Notifying(s)' <=> Notifying(s)
    BY <1>2 DEF CreatePop, Notifying, TypeInv
  <2> QED BY <1>2, <2>1, NotifyFrame DEF CreatePop
<1>3. CASE CreateSetId
  <2> USE <1>3 DEF CreateSetId
  <2>1. Slot(Acceptor) \in Slots /\ released[Slot(Acceptor)] /\ ~Notifying(Slot(Acceptor))
    BY Ids DEF SlotInv, Notifying
  <2>2. /\ \A s \in Slots : Notifying(s)' <=> Notifying(s)
        /\ \A s \in Slots \ {Slot(Acceptor)} : sid'[s] = sid[s]
    BY <2>1 DEF Notifying, TypeInv
  <2>3. \A i \in Id : InTable(i)' <=> InTable(i)
    BY <2>1, <2>2 DEF InTable, Notifying, Id
  <2>4. NotifiedOnce'
    BY <2>3 DEF NotifyInv, NotifiedOnce, TypeInv
  <2> QED BY <2>1, <2>2, <2>4 DEF NotifyInv
<1>4. CASE CreateClearFlag
  <2> USE <1>4 DEF CreateClearFlag
  <2>1. Slot(Acceptor) \in Slots /\ sid[Slot(Acceptor)] \notin accepted
    BY Ids DEF IdInv, KeyInv
  <2>2. /\ \A s \in Slots : Notifying(s)' <=> Notifying(s)
        /\ \A s \in Slots \ {Slot(Acceptor)} : released'[s] = released[s]
    BY <2>1 DEF Notifying, TypeInv
  <2>3. \A i \in accepted : InTable(i)' <=> InTable(i)
    BY <2>1, <2>2 DEF InTable, Notifying, TypeInv, Id
  <2>4. NotifiedOnce'
    BY <2>3 DEF NotifyInv, NotifiedOnce, TypeInv
  <2> QED BY <2>1, <2>2, <2>4 DEF NotifyInv
<1>5. CASE OnAccept
  <2> USE <1>5 DEF OnAccept
  <2>1. /\ Slot(Acceptor) \in Slots /\ ~released[Slot(Acceptor)]
        /\ sid[Slot(Acceptor)] \in Id \ accepted /\ sid[Slot(Acceptor)].idx = Slot(Acceptor)
    BY Ids DEF IoInv, IdInv, KeyInv, TypeInv
  <2>2. \A s \in Slots : Notifying(s)' <=> Notifying(s)
    BY DEF Notifying, TypeInv
  <2>3. (\A i \in Id : InTable(i)' <=> InTable(i)) /\ InTable(sid[Slot(Acceptor)])
    BY <2>1, <2>2 DEF InTable, Notifying, Id
  <2>4. NotifiedOnce'
    BY <2>1, <2>3 DEF NotifyInv, NotifiedOnce, TypeInv
  <2>5. \A s \in Slots \ {Slot(Acceptor)} :
          \/ group'[s] = group[s] /\ sid[s] # sid[Slot(Acceptor)]
          \/ released[s]
    BY <2>1 DEF IdInv, TypeInv
  <2>6. PICK g \in FirstGroups : group' = [group EXCEPT ![Slot(Acceptor)] = g]
    BY DEF FirstGroups
  <2>7. /\ group'[Slot(Acceptor)] = g
        /\ \A s \in Slots \ {Slot(Acceptor)} : group'[s] = group[s]
    BY <2>1, <2>6 DEF TypeInv
  <2>8. CASE Groups = {}
    BY <2>2, <2>4, <2>6, <2>7, <2>8 DEF NotifyInv, FirstGroups, TypeInv
  <2>9. CASE Groups # {}
    <3>1. g \in Groups
      BY <2>6, <2>9 DEF FirstGroups
    <3> QED BY <2>1, <2>2, <2>4, <2>5, <2>7, <2>9, <3>1 DEF NotifyInv
  <2> QED BY <2>8, <2>9
<1>6. ASSUME NEW t \in Threads,
             AcquireCheckFlag(t) \/ AcquireCheckId(t) \/ AcquireFail(t) \/ ReturnPush(t)
               \/ ReturnUncount(t) \/ SendPostInc(t) \/ IoPosted(t) \/ IoDropped(t) \/ Release(t)
      PROVE  NotifyInv'
  <2> USE <1>6 DEF AcquireCheckFlag, AcquireCheckId, AcquireFail, ReturnPush, ReturnUncount,
                   SendPostInc, IoPosted, IoDropped, Release, DecUsage
  <2>1. \A s \in Slots : Notifying(s)' <=> Notifying(s)
    BY DEF Notifying, TypeInv
  <2> QED BY <2>1, NotifyFrame
<1>7. ASSUME NEW t \in Workers, NEW i \in accepted, AcquireInc(t, i) PROVE NotifyInv'
  <2>1. \A s \in Slots : Notifying(s)' <=> Notifying(s)
    BY <1>7 DEF AcquireInc, Notifying, TypeInv
  <2> QED BY <1>7, <2>1, NotifyFrame DEF AcquireInc
<1>8. ASSUME NEW t \in Workers, NEW s \in Slots, DispatchCompletion(t, s) PROVE NotifyInv'
  <2>1. \A x \in Slots : Notifying(x)' <=> Notifying(x)
    BY <1>8 DEF DispatchCompletion, Notifying, TypeInv
  <2> QED BY <1>8, <2>1, NotifyFrame DEF DispatchCompletion
<1>9. ASSUME NEW t \in Threads, ReleaseCas(t) PROVE NotifyInv'
  <2> USE <1>9 DEF ReleaseCas, ReleaseIf
  <2>0. Slot(t) \in Slots
    BY Ids
  <2>1. CASE ~(~released[Slot(t)] /\ usage[Slot(t)] = 0)
    <3>1. \A s \in Slots : Notifying(s)' <=> Notifying(s)
      BY <2>1 DEF Notifying, TypeInv
    <3> QED BY <2>1, <3>1, NotifyFrame
  <2>2. CASE ~released[Slot(t)] /\ usage[Slot(t)] = 0
    <3>1. sid[Slot(t)] \in accepted
      BY <2>0, <2>2, Counting DEF IoUsers, IoInv, KeyInv
    <3>2. /\ Notifying(Slot(t))' /\ released'[Slot(t)]
          /\ \A s \in Slots \ {Slot(t)} :
               (Notifying(s)' <=> Notifying(s)) /\ released'[s] = released[s]
      BY <2>0, <2>2 DEF Notifying, TypeInv
    <3>3. \A i \in Id : InTable(i)' <=> InTable(i)
      BY <2>2, <3>2 DEF InTable, Notifying, Id
    <3>4. NotifiedOnce'
      BY <3>3 DEF NotifyInv, NotifiedOnce, TypeInv
    <3> QED BY <2>2, <3>1, <3>2, <3>4 DEF NotifyInv
  <2> QED BY <2>1, <2>2
<1>10. ASSUME NEW t \in Threads, ReturnNotify(t) PROVE NotifyInv'
  <2> USE <1>10 DEF ReturnNotify
  <2> DEFINE s == Slot(t)
  <2>1. /\ s \in Slots /\ Notifying(s) /\ released[s] /\ sid[s] \in accepted /\ sid[s] \in Id
        /\ sid[s].idx = s /\ group[s] # GroupNull
    BY Ids DEF Notifying, NotifyInv, SlotInv, IdInv, TypeInv, GroupNull, Ungrouped
  <2>2. /\ ~Notifying(s)' /\ \A x \in Slots \ {s} : Notifying(x)' <=> Notifying(x)
    BY <2>1 DEF Notifying, SlotInv, TypeInv
  <2>3. /\ InTable(sid[s]) /\ ~InTable(sid[s])'
        /\ \A i \in Id \ {sid[s]} : InTable(i)' <=> InTable(i)
    BY <2>1, <2>2 DEF InTable, Notifying, Id
  <2>4. /\ notified'[sid[s]] = notified[sid[s]] + 1
        /\ \A i \in Id \ {sid[s]} : notified'[i] = notified[i]
    BY <2>1 DEF TypeInv
  <2>5. NotifiedOnce'
    BY <2>1, <2>3, <2>4 DEF NotifyInv, NotifiedOnce, TypeInv
  <2>6. \A x \in Slots \ {s} : group'[x] = group[x]
    BY <2>1 DEF TypeInv
  <2>7. Groups = {} => group'[s] = Ungrouped
    BY <2>1 DEF NotifyInv, TypeInv
  <2> QED BY <2>1, <2>2, <2>5, <2>6, <2>7 DEF NotifyInv
<1>11. ASSUME NEW t \in Threads, NEW g \in Groups, SetGroup(t, g) PROVE NotifyInv'
  <2> USE <1>11 DEF SetGroup
  <2>1. \A s \in Slots : (Notifying(s)' <=> Notifying(s)) /\ group'[s] \in {group[s], g}
    BY DEF Notifying, TypeInv
  <2>2. \A i \in Id : InTable(i)' <=> InTable(i)
    BY <2>1 DEF InTable, Notifying, Id
  <2>3. NotifiedOnce'
    BY <2>2 DEF NotifyInv, NotifiedOnce, TypeInv
  <2> QED BY <2>1, <2>3 DEF NotifyInv
<1>12. CASE UNCHANGED vars
  <2>1. \A s \in Slots : Notifying(s)' <=> Notifying(s)
    BY <1>12 DEF vars, Notifying
  <2> QED BY <1>12, <2>1, NotifyFrame DEF vars
<1> QED BY <1>1, <1>2, <1>3, <1>4, <1>5, <1>6, <1>7, <1>8, <1>9, <1>10, <1>11, <1>12
        DEF Next, Accept, Continue, Use

(* Every accepted session is reported closed exactly once, when it leaves the *)
(* table and not before, whoever releases it.                                *)
THEOREM ReportedOnce == Spec => []NotifiedOnce
<1>1. Init => NotifyInv
  BY ConstantsAssumption DEF Init, NotifyInv, NotifiedOnce, InTable, Notifying
<1>2. NotifyInv => NotifiedOnce
  BY DEF NotifyInv
<1> QED BY <1>1, <1>2, NotifyStep, Inductive, PTL DEF Spec
-----------------------------------------------------------------------------
(* The refinement of SessionLife.                                           *)

(* A step that changes no label in or out of "held", no flag and no id in     *)
(* use is a stuttering step of SessionLife.                                  *)
LEMMA LifeStutter ==
  ASSUME KeysGiven' = KeysGiven,
         \A s \in Slots : released'[s] = released[s] /\ (~released[s] => sid'[s] = sid[s]),
         \A t \in Workers : UsedBy(t)' = UsedBy(t)
  PROVE  UNCHANGED Life!vars
<1>1. OpenSessions' = OpenSessions
  BY DEF OpenSessions
<1> QED BY <1>1 DEF Life!vars

(* Every step is a step of SessionLife or stutters.                          *)
LEMMA LifeStep == IInv /\ IInv' /\ [Next]_vars => [Life!Next]_(Life!vars)
<1> SUFFICES ASSUME IInv, IInv', [Next]_vars PROVE Life!Next \/ UNCHANGED Life!vars
  OBVIOUS
<1> USE ConstantsAssumption DEF IInv, managerVars, sessionVars, ioVars, threadVars, reportVars
<1>1. ASSUME AcceptCheck \/ CreateInc \/ CreateCount \/ OnAccept \/ \E x \in Slots : CreatePop(x)
      PROVE  UNCHANGED Life!vars
  <2> USE <1>1 DEF AcceptCheck, CreateInc, CreateCount, OnAccept, CreatePop
  <2>1. KeysGiven' = KeysGiven
    <3>1. CASE \E x \in Slots : CreatePop(x)
      <4>1. /\ pc[Acceptor] = "pop" /\ pc'[Acceptor] = "setId"
            /\ uniqueKey' = uniqueKey + 1 /\ uniqueKey \in Nat
        BY <3>1, Ids DEF TypeInv
      <4> QED BY <4>1 DEF KeysGiven
    <3>2. CASE AcceptCheck \/ CreateInc \/ CreateCount \/ OnAccept
      BY <3>2, Ids DEF KeysGiven, TypeInv
    <3> QED BY <3>1, <3>2
  <2>2. \A t \in Workers : UsedBy(t)' = UsedBy(t)
    BY DEF UsedBy, TypeInv
  <2> QED BY <2>1, <2>2, LifeStutter
<1>2. CASE CreateSetId
  <2> USE <1>2 DEF CreateSetId
  <2>1. KeysGiven' = KeysGiven
    BY Ids DEF KeysGiven, TypeInv
  <2>2. \A t \in Workers : UsedBy(t)' = UsedBy(t)
    BY DEF UsedBy, TypeInv
  <2>3. \A s \in Slots : ~released[s] => sid'[s] = sid[s]
    BY Ids DEF SlotInv, TypeInv
  <2> QED BY <2>1, <2>2, <2>3, LifeStutter
<1>3. CASE CreateClearFlag
  <2> USE <1>3 DEF CreateClearFlag
  <2> DEFINE s == Slot(Acceptor)
  <2>1. /\ s \in Slots /\ released[s] /\ sid[s] = want[Acceptor] /\ want[Acceptor] \in Id
        /\ want[Acceptor].key = uniqueKey - 1 /\ uniqueKey \in 0 .. MaxKey
    BY Ids DEF SlotInv, IdInv, KeyInv, TypeInv
  <2>2. KeysGiven = uniqueKey - 1 /\ KeysGiven' = uniqueKey
    BY Ids DEF KeysGiven, TypeInv
  <2>3. sid[s] = Life!Session(KeysGiven, s)
    BY <2>1, <2>2 DEF Life!Session, Id
  <2>4. \A i \in OpenSessions : i.idx # s
    BY <2>1 DEF OpenSessions, IdInv
  <2>5. OpenSessions' = OpenSessions \cup {sid[s]}
    BY <2>1 DEF OpenSessions, TypeInv
  <2>6. \A t \in Workers : UsedBy(t)' = UsedBy(t)
    BY DEF UsedBy, TypeInv
  <2>7. Life!Open(s)
    BY <2>1, <2>2, <2>3, <2>4, <2>5, <2>6 DEF Life!Open
  <2> QED BY <2>1, <2>7 DEF Life!Next
<1>4. ASSUME NEW t \in Threads,
             AcquireCheckFlag(t) \/ AcquireFail(t) \/ ReturnNotify(t) \/ ReturnPush(t)
               \/ ReturnUncount(t) \/ SendPostInc(t) \/ IoPosted(t)
      PROVE  UNCHANGED Life!vars
  <2> USE <1>4 DEF AcquireCheckFlag, AcquireFail, ReturnNotify, ReturnPush, ReturnUncount,
                   SendPostInc, IoPosted, DecUsage
  <2>1. KeysGiven' = KeysGiven
    BY Ids DEF KeysGiven, TypeInv
  <2>2. \A u \in Workers : UsedBy(u)' = UsedBy(u)
    BY DEF UsedBy, TypeInv
  <2> QED BY <2>1, <2>2, LifeStutter
<1>5. ASSUME NEW t \in Threads, AcquireCheckId(t) PROVE Life!Next \/ UNCHANGED Life!vars
  <2> USE <1>5 DEF AcquireCheckId
  <2>1. t \in Workers /\ Slot(t) \in Slots /\ ~released[Slot(t)] /\ KeysGiven' = KeysGiven
    BY Ids DEF KeyInv, IdInv, KeysGiven, TypeInv
  <2>2. CASE sid[Slot(t)] # want[t]
    <3>1. \A u \in Workers : UsedBy(u)' = UsedBy(u)
      BY <2>2 DEF UsedBy, TypeInv
    <3> QED BY <2>1, <3>1, LifeStutter
  <2>3. CASE sid[Slot(t)] = want[t]
    <3>1. want[t] \in OpenSessions /\ OpenSessions' = OpenSessions
      BY <2>1, <2>3 DEF OpenSessions
    <3>2. UsedBy(t) = {} /\ UsedBy(t)' = {want[t]} /\ \A u \in Workers \ {t} : UsedBy(u)' = UsedBy(u)
      BY <2>3 DEF UsedBy, TypeInv
    <3>3. Life!Join(t, want[t])
      BY <2>1, <3>1, <3>2 DEF Life!Join
    <3> QED BY <2>1, <3>1, <3>3 DEF Life!Next
  <2> QED BY <2>2, <2>3
<1>6. ASSUME NEW t \in Threads, Release(t) PROVE Life!Next \/ UNCHANGED Life!vars
  <2> USE <1>6 DEF Release, DecUsage
  <2>1. t \in Workers /\ KeysGiven' = KeysGiven /\ OpenSessions' = OpenSessions
    BY Ids DEF KeyInv, KeysGiven, OpenSessions, TypeInv
  <2>2. UsedBy(t) = {want[t]} /\ UsedBy(t)' = {} /\ \A u \in Workers \ {t} : UsedBy(u)' = UsedBy(u)
    BY DEF UsedBy, TypeInv
  <2>3. Life!Leave(t)
    BY <2>1, <2>2 DEF Life!Leave
  <2> QED BY <2>1, <2>3 DEF Life!Next
<1>7. ASSUME NEW t \in Threads, IoDropped(t) PROVE UNCHANGED Life!vars
  <2> USE <1>7 DEF IoDropped, DecUsage
  <2>1. t \in Workers => usage[Slot(t)] # 1
    BY Ids, Counting DEF Users, IoUsers, TypeInv
  <2>2. KeysGiven' = KeysGiven
    BY Ids DEF KeysGiven, TypeInv
  <2>3. \A u \in Workers : UsedBy(u)' = UsedBy(u)
    BY <2>1 DEF UsedBy, TypeInv
  <2> QED BY <2>2, <2>3, LifeStutter
<1>8. ASSUME NEW t \in Threads, ReleaseCas(t) PROVE Life!Next \/ UNCHANGED Life!vars
  <2> USE <1>8 DEF ReleaseCas, ReleaseIf
  <2> DEFINE s == Slot(t)
  <2>1. /\ s \in Slots /\ KeysGiven' = KeysGiven
        /\ \A u \in Workers : UsedBy(u)' = UsedBy(u)
    BY Ids DEF KeysGiven, UsedBy, TypeInv
  <2>2. CASE ~(~released[s] /\ usage[s] = 0)
    BY <2>1, <2>2, LifeStutter
  <2>3. CASE ~released[s] /\ usage[s] = 0
    <3>1. sid[s] \in OpenSessions
      BY <2>1, <2>3 DEF OpenSessions
    <3>2. released' = [released EXCEPT ![s] = TRUE] /\ sid' = sid
      BY <2>3
    <3>3. OpenSessions' = OpenSessions \ {sid[s]}
      BY <2>1, <2>3, <3>2 DEF OpenSessions, IdInv, TypeInv
    <3>4. \A u \in Workers : sid[s] \notin UsedBy(u)
      BY <2>1, <2>3, Counting DEF Users, UsedBy, IdInv
    <3>5. Life!Close(sid[s])
      BY <2>1, <3>1, <3>3, <3>4 DEF Life!Close
    <3> QED BY <3>1, <3>5 DEF Life!Next
  <2> QED BY <2>2, <2>3
<1>9. ASSUME NEW t \in Threads, NEW g \in Groups, SetGroup(t, g) PROVE UNCHANGED Life!vars
  BY <1>9, LifeStutter DEF SetGroup, KeysGiven, UsedBy
<1>10. ASSUME NEW t \in Workers,
              (\E i \in accepted : AcquireInc(t, i)) \/ (\E s \in Slots : DispatchCompletion(t, s))
       PROVE  UNCHANGED Life!vars
  <2> USE <1>10 DEF AcquireInc, DispatchCompletion
  <2>1. KeysGiven' = KeysGiven
    BY DEF KeysGiven, TypeInv
  <2>2. \A u \in Workers : UsedBy(u)' = UsedBy(u)
    BY DEF UsedBy, TypeInv
  <2> QED BY <2>1, <2>2, LifeStutter
<1>11. CASE UNCHANGED vars
  BY <1>11, LifeStutter DEF vars, KeysGiven, UsedBy
<1> QED BY <1>1, <1>2, <1>3, <1>4, <1>5, <1>6, <1>7, <1>8, <1>9, <1>10, <1>11
        DEF Next, Accept, Continue, Use

(* The table implements its abstract specification: no caller of Acquire and  *)
(* Release can tell recycled slots from sessions that are never reused.      *)
THEOREM Refinement == Spec => ImplementsSessionLife
<1>1. Init => Life!Init
  <2> SUFFICES ASSUME Init PROVE KeysGiven = 0 /\ OpenSessions = {} /\ \A t \in Workers : UsedBy(t) = {}
    BY DEF Life!Init
  <2> QED BY DEF Init, KeysGiven, OpenSessions, UsedBy
<1> QED BY <1>1, LifeStep, Inductive, PTL DEF Spec, ImplementsSessionLife, Life!Spec
=============================================================================

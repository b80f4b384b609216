-------------------------- MODULE GroupBaseProofs ---------------------------
(***************************************************************************)
(* Theorems about GroupBase for any number of groups, slots, sessions and    *)
(* packets.  The heart of the inductive invariant is that a session has one  *)
(* place at a time: an Enter in a group's queue, a group that is entering or  *)
(* moving it, or a group whose player it is.                                 *)
(***************************************************************************)
EXTENDS GroupBase, SequenceTheorems, TLAPS

-----------------------------------------------------------------------------
(* The inductive invariant, in named parts.                                  *)

(* Every id in use was given to a session, and the slots know theirs.         *)
KeyInv ==
  /\ \A s \in Slots : id[s].key <= keys /\ (open[s] => id[s] \in hosts /\ id[s].idx = s)
  /\ \A i \in hosts : i.key <= keys
  /\ \A g \in Groups :
       /\ \A k \in DOMAIN jobs[g] : jobs[g][k].id.key <= keys
       /\ \A i \in players[g] \cup eraseList[g] : i.key <= keys

(* A group lists its players, those that left in this frame, and the one that  *)
(* is about to enter.                                                        *)
Entering(g) == IF pc[g] = "enter" THEN {cur[g]} ELSE {}
ListAt(g) ==
  /\ sessionList[g] = players[g] \cup eraseList[g] \cup Entering(g)
  /\ players[g] \cap eraseList[g] = {}
  /\ pc[g] \in {"idle", "jobs", "enter"} => eraseList[g] = {}
ListInv == \A g \in Groups : ListAt(g)

(* The places of a session, and that it has one at most.  Whoever has a place  *)
(* has a host, and while the session is open the place is in its group.       *)
EnterJob(g, k, i) == k \in DOMAIN jobs[g] /\ jobs[g][k] = Enter(i)
Carries(g, i) == pc[g] \in {"enter", "move", "enqueue"} /\ cur[g] = i
JobPlace(i, g) ==
  \A k \in DOMAIN jobs[g] : EnterJob(g, k, i) =>
    /\ i \in hosts /\ (Current(i) => groupId[i.idx] = g)
    /\ \A h \in Groups :
         /\ i \notin players[h] /\ ~Carries(h, i)
         /\ \A l \in DOMAIN jobs[h] : EnterJob(h, l, i) => h = g /\ l = k
CarryPlace(i, g) ==
  Carries(g, i) =>
    /\ i \in hosts
    /\ Current(i) => groupId[i.idx] = IF pc[g] = "enqueue" THEN dest[g] ELSE g
    /\ \A h \in Groups : i \notin players[h] /\ (Carries(h, i) => h = g)
PlayerPlace(i, g) ==
  i \in players[g] =>
    /\ i \in hosts /\ (Current(i) => groupId[i.idx] = g)
    /\ \A h \in Groups : i \in players[h] => h = g
PlaceInv ==
  \A i \in Id : \A g \in Groups : JobPlace(i, g) /\ CarryPlace(i, g) /\ PlayerPlace(i, g)

(* A session whose group is told of its end has ended.                        *)
LeaveInv ==
  \A g \in Groups : \A k \in DOMAIN jobs[g] :
    jobs[g][k].do = "leave" => ~Current(jobs[g][k].id)

(* What a frame knows of the session it visits and of those it will.           *)
VisitAt(g) ==
  /\ pc[g] \in Visiting \cup {"packets"} => todo[g] \subseteq players[g]
  /\ pc[g] \in Visiting =>
       /\ Current(cur[g]) /\ cur[g] \in Id
       /\ cur[g] \in players[g] \cup eraseList[g] /\ cur[g] \notin todo[g]
       /\ pc[g] = "pop" => left[g] > 0
       /\ pc[g] \in {"pop", "recv"} => groupId[cur[g].idx] = g
       /\ cur[g] \in players[g] => left[g] <= Len(msgs[cur[g].idx])
       /\ pc[g] = "recv" /\ cur[g] \in players[g] => pkt[g] \in Packets
VisitInv == \A g \in Groups : VisitAt(g)

(* A session that left and has the group again came back too soon.            *)
RushInv ==
  \A g \in Groups : \A i \in eraseList[g] :
    Current(i) /\ groupId[i.idx] = g => i.idx \in rushed \/ (pc[g] = "move" /\ cur[g] = i)

(* Handled, in hand, queued: the packets of a slot, in their order.            *)
InHand(s) == \E g \in Groups : pc[g] = "recv" /\ cur[g].idx = s
Popped(s) == IF InHand(s) THEN Len(handled[s]) + 1 ELSE Len(handled[s])
DoneInOrder(s) == handled[s] = [n \in 1 .. Len(handled[s]) |-> n]
QueueInOrder(s) ==
  /\ Popped(s) + Len(msgs[s]) = received[s]
  /\ \A k \in DOMAIN msgs[s] : msgs[s][k] = Popped(s) + k
HandInOrder(s) ==
  \A g \in Groups : pc[g] = "recv" /\ cur[g].idx = s => pkt[g] = Len(handled[s]) + 1
OrderInv ==
  \A s \in Slots \ rushed : DoneInOrder(s) /\ QueueInOrder(s) /\ HandInOrder(s)

IInv ==
  /\ TypeOK /\ KeyInv /\ ListInv /\ PlaceInv /\ LeaveInv /\ VisitInv /\ RushInv /\ OrderInv
-----------------------------------------------------------------------------
(* What Append does to a queue, place by place.                               *)
LEMMA AppendAt ==
  ASSUME NEW S, NEW q \in Seq(S), NEW x \in S
  PROVE  /\ Append(q, x) \in Seq(S) /\ Len(Append(q, x)) = Len(q) + 1
         /\ DOMAIN q = 1 .. Len(q) /\ DOMAIN Append(q, x) = 1 .. (Len(q) + 1)
         /\ \A k \in 1 .. Len(q) : Append(q, x)[k] = q[k]
         /\ Append(q, x)[Len(q) + 1] = x
         /\ Len(q) \in Nat
  BY AppendProperties, LenProperties

(* What is left of a queue when its head is taken.                            *)
LEMMA TailAt ==
  ASSUME NEW S, NEW q \in Seq(S), q # <<>>
  PROVE  /\ Tail(q) \in Seq(S) /\ Head(q) \in S /\ Head(q) = q[1]
         /\ Len(q) \in Nat \ {0} /\ Len(Tail(q)) = Len(q) - 1
         /\ DOMAIN q = 1 .. Len(q) /\ DOMAIN Tail(q) = 1 .. (Len(q) - 1)
         /\ 1 \in DOMAIN q
         /\ \A k \in DOMAIN Tail(q) : k + 1 \in DOMAIN q /\ Tail(q)[k] = q[k + 1]
<1>1. Len(q) \in Nat \ {0}
  BY EmptySeq, LenProperties
<1> QED BY <1>1, HeadTailProperties, LenProperties, ElementOfSeq

(* A slot has one current id.                                                 *)
LEMMA CurrentAlone ==
  ASSUME NEW i \in Id, NEW j \in Id, Current(i), Current(j), i.idx = j.idx
  PROVE  i = j
  BY DEF Current

(* The server starts with the inductive invariant.                            *)
LEMMA InitIInv == Init => IInv
<1> SUFFICES ASSUME Init PROVE IInv
  OBVIOUS
<1> USE GroupAssumption
<1>0. NoId.key = 0 /\ <<>> \in Seq(Packets) /\ <<>> \in Seq(Jobs) /\ Len(<<>>) = 0
      /\ DOMAIN <<>> = {}
  BY EmptySeq, LenProperties DEF NoId
<1>1. TypeOK
  BY <1>0 DEF Init, TypeOK, Labels, Visiting
<1>2. KeyInv
  BY <1>0 DEF Init, KeyInv
<1>3. ListInv
  BY DEF Init, ListInv, ListAt, Entering
<1>4. PlaceInv
  BY <1>0 DEF Init, PlaceInv, JobPlace, CarryPlace, PlayerPlace, Carries
<1>5. LeaveInv /\ RushInv
  BY <1>0 DEF Init, LeaveInv, RushInv
<1>6. VisitInv
  BY DEF Init, VisitInv, VisitAt, Visiting
<1>7. OrderInv
  <2> SUFFICES ASSUME NEW s \in Slots
               PROVE DoneInOrder(s) /\ QueueInOrder(s) /\ HandInOrder(s)
    BY DEF OrderInv
  <2>1. handled[s] = <<>> /\ msgs[s] = <<>> /\ received[s] = 0 /\ ~InHand(s)
    BY DEF Init, InHand
  <2>2. <<>> = [n \in 1 .. 0 |-> n]
    OBVIOUS
  <2> QED BY <1>0, <2>1, <2>2 DEF Init, Popped, DoneInOrder, QueueInOrder, HandInOrder
<1> QED BY <1>1, <1>2, <1>3, <1>4, <1>5, <1>6, <1>7 DEF IInv

-----------------------------------------------------------------------------
(* What a step leaves alone keeps the part of the invariant about it.        *)

(* The ids in use are those of the slots, hosts, queues and lists.            *)
LEMMA KeyKept ==
  ASSUME KeyInv, UNCHANGED <<keys, id, open, hosts, jobs, eraseList, players>>
  PROVE  KeyInv'
  BY DEF KeyInv

(* What is queued for a session that ended.                                   *)
LEMMA LeaveKept ==
  ASSUME LeaveInv, UNCHANGED <<id, open, jobs>>
  PROVE  LeaveInv'
  BY DEF LeaveInv, Current

(* A step that gives nobody a place.                                          *)
LEMMA PlaceKept ==
  ASSUME PlaceInv, UNCHANGED <<id, open, groupId, hosts, jobs, players, dest>>,
         \A h \in Groups : pc'[h] \in {"enter", "move", "enqueue"} => pc'[h] = pc[h] /\ cur'[h] = cur[h]
  PROVE  PlaceInv'
  BY DEF PlaceInv, JobPlace, CarryPlace, PlayerPlace, EnterJob, Carries, Current

(* A step that neither lists nor moves anybody.                               *)
LEMMA RushKept ==
  ASSUME RushInv, UNCHANGED <<id, open, groupId, eraseList, rushed>>,
         \A h \in Groups : pc[h] = "move" => pc'[h] = pc[h] /\ cur'[h] = cur[h]
  PROVE  RushInv'
  BY DEF RushInv, Current

(* A step that takes no packet in hand and handles none.                      *)
LEMMA OrderKept ==
  ASSUME OrderInv, UNCHANGED <<msgs, received, handled, pkt>>, rushed \subseteq rushed',
         \A h \in Groups : pc[h] = "recv" \/ pc'[h] = "recv" => pc'[h] = pc[h] /\ cur'[h] = cur[h]
  PROVE  OrderInv'
<1>1. \A s : InHand(s)' <=> InHand(s)
  BY DEF InHand
<1>2. \A s : Popped(s)' = Popped(s)
  BY <1>1 DEF Popped
<1> QED BY <1>2 DEF OrderInv, DoneInOrder, QueueInOrder, HandInOrder

-----------------------------------------------------------------------------
(* Each action keeps the invariant: sessions and workers.                    *)

(* Receive: a packet is queued behind the others of its slot.                 *)
LEMMA StepReceive ==
  ASSUME IInv, NEW s \in Slots, Receive(s)
  PROVE  IInv'
<1> USE GroupAssumption DEF IInv
<1> DEFINE n == received[s] + 1
<1>1. /\ received' = [received EXCEPT ![s] = n] /\ msgs' = [msgs EXCEPT ![s] = Append(@, n)]
      /\ n \in Packets /\ received[s] \in 0 .. MaxMsgs /\ msgs[s] \in Seq(Packets)
  BY DEF Receive, TypeOK, Packets
<1> HIDE DEF n
<1>2. /\ Append(msgs[s], n) \in Seq(Packets) /\ Len(Append(msgs[s], n)) = Len(msgs[s]) + 1
      /\ DOMAIN msgs[s] = 1 .. Len(msgs[s])
      /\ DOMAIN Append(msgs[s], n) = 1 .. (Len(msgs[s]) + 1)
      /\ \A k \in 1 .. Len(msgs[s]) : Append(msgs[s], n)[k] = msgs[s][k]
      /\ Append(msgs[s], n)[Len(msgs[s]) + 1] = n /\ Len(msgs[s]) \in Nat
  BY <1>1, AppendAt
<1>3. /\ msgs'[s] = Append(msgs[s], n) /\ received'[s] = n
      /\ \A t \in Slots : t # s => msgs'[t] = msgs[t] /\ received'[t] = received[t]
  BY <1>1 DEF TypeOK
<1>4. TypeOK'
  BY <1>1, <1>2 DEF TypeOK, Receive, slotVars, listVars, localVars, Packets
<1>5. KeyInv' /\ PlaceInv' /\ LeaveInv' /\ RushInv'
  BY KeyKept, PlaceKept, LeaveKept, RushKept DEF Receive, slotVars, listVars, localVars
<1>6. ListInv'
  BY DEF Receive, slotVars, listVars, localVars, ListInv, ListAt, Entering
<1>7. VisitInv'
  <2>1. \A t \in Slots : Len(msgs'[t]) >= Len(msgs[t])
    <3>1. \A t \in Slots : msgs[t] \in Seq(Packets)
      BY DEF TypeOK
    <3>2. \A t \in Slots : Len(msgs[t]) \in Nat
      BY <3>1, LenProperties
    <3> QED BY <1>2, <1>3, <3>2
  <2>2. \A i \in Id : i.idx \in Slots
    BY DEF Id
  <2> QED BY <2>1, <2>2, LenProperties
          DEF VisitInv, VisitAt, Receive, slotVars, listVars, localVars, Current, TypeOK
<1>8. OrderInv'
  <2>1. UNCHANGED <<handled, pkt, pc, cur, rushed>>
    BY DEF Receive, listVars, localVars
  <2>2. \A t \in Slots : InHand(t)' = InHand(t) /\ Popped(t)' = Popped(t)
    BY <2>1 DEF InHand, Popped
  <2>3. \A t \in Slots : Popped(t) \in Nat
    BY LenProperties DEF Popped, TypeOK
  <2>4. \A t \in Slots \ rushed : DoneInOrder(t)' /\ HandInOrder(t)'
    BY <2>1 DEF OrderInv, DoneInOrder, HandInOrder
  <2>5. \A t \in Slots \ rushed : t # s => QueueInOrder(t)'
    BY <1>3, <2>2 DEF OrderInv, QueueInOrder
  <2>6. ASSUME s \notin rushed PROVE QueueInOrder(s)'
    <3>1. /\ Popped(s) + Len(msgs[s]) = received[s]
          /\ \A k \in 1 .. Len(msgs[s]) : msgs[s][k] = Popped(s) + k
      BY <1>2, <2>6 DEF OrderInv, QueueInOrder
    <3>2. Popped(s) \in Nat /\ n = received[s] + 1
      BY <2>3 DEF n
    <3>3. Popped(s) + Len(msgs'[s]) = received'[s]
      BY <1>1, <1>2, <1>3, <3>1, <3>2
    <3>4. \A k \in DOMAIN msgs'[s] : msgs'[s][k] = Popped(s) + k
      BY <1>1, <1>2, <1>3, <3>1, <3>2
    <3> QED BY <2>2, <3>3, <3>4 DEF QueueInOrder
  <2> QED BY <2>1, <2>4, <2>5, <2>6 DEF OrderInv
<1> QED BY <1>4, <1>5, <1>6, <1>7, <1>8

(* StopReceiving: the last recv of a session is over.                         *)
LEMMA StepStopReceiving ==
  ASSUME IInv, NEW s \in Slots, StopReceiving(s)
  PROVE  IInv'
<1> USE GroupAssumption DEF IInv
<1>0. UNCHANGED <<keys, id, open, groupId, msgVars, hosts, jobs, listVars, pc, localVars, rushed>>
  BY DEF StopReceiving
<1>1. TypeOK'
  BY <1>0 DEF TypeOK, StopReceiving, msgVars, listVars, localVars
<1>2. KeyInv' /\ PlaceInv' /\ LeaveInv' /\ RushInv' /\ OrderInv'
  BY <1>0, KeyKept, PlaceKept, LeaveKept, RushKept, OrderKept DEF msgVars, listVars, localVars
<1>3. ListInv' /\ VisitInv'
  BY <1>0 DEF msgVars, listVars, localVars, ListInv, ListAt, Entering, VisitInv, VisitAt, Current
<1> QED BY <1>1, <1>2, <1>3

(* Nothing changes.                                                           *)
LEMMA StepStutter ==
  ASSUME IInv, UNCHANGED vars
  PROVE  IInv'
<1> USE GroupAssumption DEF IInv
<1>0. UNCHANGED <<slotVars, groupId, msgVars, hosts, jobs, listVars, pc, localVars, rushed>>
  BY DEF vars
<1>1. TypeOK'
  BY <1>0 DEF TypeOK, slotVars, msgVars, listVars, localVars
<1>2. KeyInv' /\ PlaceInv' /\ LeaveInv' /\ RushInv' /\ OrderInv'
  BY <1>0, KeyKept, PlaceKept, LeaveKept, RushKept, OrderKept DEF slotVars, msgVars, listVars, localVars
<1>3. ListInv' /\ VisitInv'
  BY <1>0 DEF slotVars, msgVars, listVars, localVars, ListInv, ListAt, Entering, VisitInv, VisitAt, Current
<1> QED BY <1>1, <1>2, <1>3

(* Queueing an Enter or a Leave: what the other parts see of the queues.       *)
LEMMA Queued ==
  ASSUME TypeOK, NEW g \in Groups, NEW j \in Jobs, Enqueue(g, j)
  PROVE  /\ jobs' \in [Groups -> Seq(Jobs)]
         /\ \A h \in Groups \ {g} : jobs'[h] = jobs[h]
         /\ DOMAIN jobs[g] = 1 .. Len(jobs[g]) /\ Len(jobs[g]) \in Nat
         /\ DOMAIN jobs'[g] = 1 .. (Len(jobs[g]) + 1)
         /\ \A k \in DOMAIN jobs[g] : jobs'[g][k] = jobs[g][k]
         /\ jobs'[g][Len(jobs[g]) + 1] = j
         /\ \A h \in Groups : \A k \in DOMAIN jobs'[h] :
              \/ k \in DOMAIN jobs[h] /\ jobs'[h][k] = jobs[h][k]
              \/ h = g /\ k = Len(jobs[g]) + 1 /\ jobs'[h][k] = j
<1>1. jobs[g] \in Seq(Jobs) /\ jobs \in [Groups -> Seq(Jobs)]
  BY DEF TypeOK
<1>2. jobs' = [jobs EXCEPT ![g] = Append(jobs[g], j)]
  BY DEF Enqueue
<1>3. jobs'[g] = Append(jobs[g], j) /\ \A h \in Groups \ {g} : jobs'[h] = jobs[h]
  BY <1>1, <1>2
<1>4. /\ Append(jobs[g], j) \in Seq(Jobs)
      /\ DOMAIN jobs[g] = 1 .. Len(jobs[g]) /\ Len(jobs[g]) \in Nat
      /\ DOMAIN Append(jobs[g], j) = 1 .. (Len(jobs[g]) + 1)
      /\ \A k \in 1 .. Len(jobs[g]) : Append(jobs[g], j)[k] = jobs[g][k]
      /\ Append(jobs[g], j)[Len(jobs[g]) + 1] = j
  BY <1>1, AppendAt
<1>5. jobs' \in [Groups -> Seq(Jobs)]
  BY <1>1, <1>2, <1>4
<1> QED BY <1>3, <1>4, <1>5

(* Close: no group holds the session, and its group is told once.             *)
LEMMA StepClose ==
  ASSUME IInv, NEW s \in Slots, Close(s)
  PROVE  IInv'
<1> USE GroupAssumption DEF IInv
<1>0. /\ open[s] /\ ~Held(s) /\ open' = [open EXCEPT ![s] = FALSE]
      /\ IF groupId[s] = GroupNull THEN UNCHANGED jobs ELSE Enqueue(groupId[s], Leave(id[s]))
      /\ groupId' = [groupId EXCEPT ![s] = GroupNull]
      /\ UNCHANGED <<keys, id, io, msgVars, hosts, listVars, pc, localVars, rushed>>
  BY DEF Close, CloseIf
<1>1. id[s] \in Id /\ id[s].idx = s /\ id[s] \in hosts /\ Leave(id[s]) \in Jobs /\ Current(id[s])
  BY <1>0 DEF TypeOK, KeyInv, Current, Leave, Jobs
<1>2. /\ \A i \in Id : Current(i)' <=> Current(i) /\ i.idx # s
      /\ \A t \in Slots : t # s => groupId'[t] = groupId[t]
  BY <1>0 DEF TypeOK, Current, Id
<1>3. /\ jobs' \in [Groups -> Seq(Jobs)]
      /\ \A h \in Groups : \A k \in DOMAIN jobs'[h] :
           \/ k \in DOMAIN jobs[h] /\ jobs'[h][k] = jobs[h][k]
           \/ jobs'[h][k] = Leave(id[s])
  <2>1. CASE groupId[s] = GroupNull
    BY <1>0, <2>1 DEF TypeOK
  <2>2. CASE groupId[s] # GroupNull
    <3> DEFINE a == groupId[s]
               j == Leave(id[s])
    <3>1. a \in Groups /\ Enqueue(a, j) /\ j \in Jobs /\ TypeOK
      BY <1>0, <1>1, <2>2 DEF TypeOK
    <3> HIDE DEF a, j
    <3>2. /\ jobs' \in [Groups -> Seq(Jobs)]
          /\ \A h \in Groups : \A k \in DOMAIN jobs'[h] :
               \/ k \in DOMAIN jobs[h] /\ jobs'[h][k] = jobs[h][k]
               \/ jobs'[h][k] = j
      BY <3>1, Queued
    <3> QED BY <3>2 DEF j
  <2> QED BY <2>1, <2>2
<1>4. TypeOK'
  BY <1>0, <1>3 DEF TypeOK, msgVars, listVars, localVars
<1>5. KeyInv'
  BY <1>0, <1>1, <1>3 DEF KeyInv, TypeOK, listVars, Leave
<1>6. ListInv'
  BY <1>0 DEF listVars, localVars, ListInv, ListAt, Entering
<1>7. \A i \in Id : \A g \in Groups : \A k : EnterJob(g, k, i)' => EnterJob(g, k, i)
  <2>1. \A i : Leave(id[s]) # Enter(i)
    BY DEF Leave, Enter
  <2> QED BY <1>3, <2>1 DEF EnterJob
<1>8. \A i, g : Carries(g, i)' <=> Carries(g, i)
  BY <1>0 DEF Carries, localVars
<1>9. \A i \in Id : i.idx \in Slots
  BY DEF Id
<1>10. PlaceInv'
  <2> SUFFICES ASSUME NEW i \in Id, NEW g \in Groups
               PROVE  JobPlace(i, g)' /\ CarryPlace(i, g)' /\ PlayerPlace(i, g)'
    BY DEF PlaceInv
  <2>1. JobPlace(i, g)'
    <3>1. \A k, h : EnterJob(h, k, i) => k \in DOMAIN jobs[h]
      BY DEF EnterJob
    <3>2. JobPlace(i, g)
      BY DEF PlaceInv
    <3>3. ASSUME NEW k, EnterJob(g, k, i)'
          PROVE  /\ i \in hosts' /\ (Current(i)' => groupId'[i.idx] = g)
                 /\ \A h \in Groups :
                      /\ i \notin players'[h] /\ ~Carries(h, i)'
                      /\ \A l : EnterJob(h, l, i)' => h = g /\ l = k
      <4>1. EnterJob(g, k, i) /\ k \in DOMAIN jobs[g]
        BY <1>7, <3>1, <3>3
      <4>2. /\ i \in hosts /\ (Current(i) => groupId[i.idx] = g)
            /\ \A h \in Groups :
                 /\ i \notin players[h] /\ ~Carries(h, i)
                 /\ \A l \in DOMAIN jobs[h] : EnterJob(h, l, i) => h = g /\ l = k
        BY <3>2, <4>1 DEF JobPlace
      <4>3. UNCHANGED <<hosts, players>>
        BY <1>0 DEF listVars
      <4>4. \A h \in Groups : \A l : EnterJob(h, l, i)' => h = g /\ l = k
        BY <1>7, <3>1, <4>2
      <4> QED BY <1>2, <1>8, <1>9, <4>2, <4>3, <4>4
    <3> QED BY <3>3 DEF JobPlace
  <2>2. CarryPlace(i, g)'
    BY <1>0, <1>2, <1>8, <1>9 DEF PlaceInv, CarryPlace, listVars, localVars
  <2>3. PlayerPlace(i, g)'
    BY <1>0, <1>2, <1>9 DEF PlaceInv, PlayerPlace, listVars
  <2> QED BY <2>1, <2>2, <2>3
<1>11. LeaveInv'
  <2>1. \A h \in Groups : \A k \in DOMAIN jobs'[h] : jobs'[h][k].id \in Id
    <3>1. \A h \in Groups : \A k \in DOMAIN jobs'[h] : jobs'[h][k] \in Jobs
      <4>1. \A h \in Groups : jobs'[h] \in Seq(Jobs)
        BY <1>3
      <4> QED BY <4>1, ElementOfSeq, LenProperties
    <3> QED BY <3>1 DEF Jobs
  <2> QED BY <1>1, <1>2, <1>3, <2>1 DEF LeaveInv, Leave
<1>12. VisitInv'
  <2>1. \A g \in Groups : pc[g] \in Visiting => cur[g].idx # s
    BY <1>0 DEF Held
  <2> QED BY <1>0, <1>2, <1>9, <2>1 DEF VisitInv, VisitAt, listVars, localVars, msgVars
<1>13. RushInv'
  <2>1. \A g \in Groups : eraseList[g] \subseteq Id
    BY DEF TypeOK
  <2> QED BY <1>0, <1>2, <1>9, <2>1 DEF RushInv, listVars, localVars
<1>14. OrderInv'
  BY <1>0, OrderKept DEF msgVars, localVars
<1> QED BY <1>4, <1>5, <1>6, <1>10, <1>11, <1>12, <1>13, <1>14

-----------------------------------------------------------------------------
(* Each action keeps the invariant: the frames of a group's thread.           *)

(* A thread's step changes its own place in the frame only.                   *)
LEMMA Stepped ==
  ASSUME TypeOK, NEW g \in Groups, NEW from, NEW to \in Labels, Step(g, from, to)
  PROVE  /\ pc[g] = from /\ pc'[g] = to /\ pc' \in [Groups -> Labels]
         /\ \A h \in Groups \ {g} : pc'[h] = pc[h]
  BY DEF Step, TypeOK

(* What one thread does with its own lists says nothing of the other visits.  *)
LEMMA VisitOthers ==
  ASSUME VisitInv, NEW g \in Groups, UNCHANGED <<id, open, groupId, msgs>>,
         \A h \in Groups \ {g} :
           /\ pc'[h] = pc[h] /\ todo'[h] = todo[h] /\ cur'[h] = cur[h] /\ left'[h] = left[h]
           /\ players'[h] = players[h] /\ eraseList'[h] = eraseList[h] /\ pkt'[h] = pkt[h]
  PROVE  \A h \in Groups \ {g} : VisitAt(h)'
  BY DEF VisitInv, VisitAt, Current

(* StartFrame: the jobs of the frame are counted.                             *)
LEMMA StepStartFrame ==
  ASSUME IInv, NEW g \in Groups, StartFrame(g)
  PROVE  IInv'
<1> USE GroupAssumption DEF IInv
<1>1. /\ pc[g] = "idle" /\ pc'[g] = "jobs" /\ pc' \in [Groups -> Labels]
      /\ \A h \in Groups \ {g} : pc'[h] = pc[h]
  BY Stepped DEF StartFrame, Labels
<1>2. /\ left' = [left EXCEPT ![g] = Len(jobs[g])]
      /\ UNCHANGED <<slotVars, groupId, msgVars, hosts, jobs, listVars, cur, todo, pkt, dest, rushed>>
  BY DEF StartFrame
<1>3. left' \in [Groups -> Nat] /\ \A h \in Groups \ {g} : left'[h] = left[h]
  BY <1>2, LenProperties DEF TypeOK
<1>4. TypeOK'
  BY <1>1, <1>2, <1>3 DEF TypeOK, slotVars, msgVars, listVars
<1>5. KeyInv' /\ LeaveInv' /\ PlaceInv' /\ RushInv' /\ OrderInv'
  <2>1. \A h \in Groups : pc'[h] # pc[h] => pc[h] = "idle" /\ pc'[h] = "jobs"
    BY <1>1
  <2> QED BY <1>2, <2>1, KeyKept, LeaveKept, PlaceKept, RushKept, OrderKept
          DEF slotVars, msgVars, listVars
<1>6. ListInv'
  BY <1>1, <1>2 DEF ListInv, ListAt, Entering, listVars
<1>7. VisitInv'
  <2>1. VisitAt(g)'
    BY <1>1 DEF VisitAt, Visiting
  <2>2. \A h \in Groups \ {g} : VisitAt(h)'
    BY <1>1, <1>2, <1>3, VisitOthers DEF slotVars, msgVars, listVars
  <2> QED BY <2>1, <2>2 DEF VisitInv
<1> QED BY <1>4, <1>5, <1>6, <1>7

(* StartPackets: the players are to be visited.                               *)
LEMMA StepStartPackets ==
  ASSUME IInv, NEW g \in Groups, StartPackets(g)
  PROVE  IInv'
<1> USE GroupAssumption DEF IInv
<1>1. /\ pc[g] = "jobs" /\ pc'[g] = "packets" /\ pc' \in [Groups -> Labels]
      /\ \A h \in Groups \ {g} : pc'[h] = pc[h]
  BY Stepped DEF StartPackets, Labels
<1>2. /\ todo' = [todo EXCEPT ![g] = sessionList[g]]
      /\ UNCHANGED <<slotVars, groupId, msgVars, hosts, jobs, listVars, cur, left, pkt, dest, rushed>>
  BY DEF StartPackets
<1>3. /\ todo' \in [Groups -> SUBSET Id] /\ \A h \in Groups \ {g} : todo'[h] = todo[h]
      /\ todo'[g] = sessionList[g]
  BY <1>2 DEF TypeOK
<1>4. TypeOK'
  BY <1>1, <1>2, <1>3 DEF TypeOK, slotVars, msgVars, listVars
<1>5. KeyInv' /\ LeaveInv' /\ PlaceInv' /\ RushInv' /\ OrderInv'
  <2>1. \A h \in Groups : pc'[h] # pc[h] => pc[h] = "jobs" /\ pc'[h] = "packets"
    BY <1>1
  <2> QED BY <1>2, <2>1, KeyKept, LeaveKept, PlaceKept, RushKept, OrderKept
          DEF slotVars, msgVars, listVars
<1>6. ListInv'
  BY <1>1, <1>2 DEF ListInv, ListAt, Entering, listVars
<1>7. VisitInv'
  <2>1. sessionList[g] = players[g]
    BY <1>1 DEF ListInv, ListAt, Entering
  <2>2. VisitAt(g)'
    BY <1>1, <1>2, <1>3, <2>1 DEF VisitAt, Visiting, listVars
  <2>3. \A h \in Groups \ {g} : VisitAt(h)'
    BY <1>1, <1>2, <1>3, VisitOthers DEF slotVars, msgVars, listVars
  <2> QED BY <2>2, <2>3 DEF VisitInv
<1> QED BY <1>4, <1>5, <1>6, <1>7

(* Visit: a session that is open is held, its packets counted.                *)
LEMMA StepVisit ==
  ASSUME IInv, NEW g \in Groups, NEW i \in todo[g], Visit(g, i)
  PROVE  IInv'
<1> USE GroupAssumption DEF IInv
<1>0. i \in Id /\ i.idx \in Slots /\ i # NoId
  BY DEF TypeOK, Id, NoId
<1> DEFINE to == IF Current(i) THEN "check" ELSE "packets"
<1>1. /\ pc[g] = "packets" /\ pc'[g] = to /\ pc' \in [Groups -> Labels]
      /\ \A h \in Groups \ {g} : pc'[h] = pc[h]
  <2>1. to \in Labels /\ Step(g, "packets", to)
    BY DEF Visit, Labels, Visiting
  <2> HIDE DEF to
  <2> QED BY <2>1, Stepped
<1>2. /\ todo' = [todo EXCEPT ![g] = @ \ {i}]
      /\ IF Current(i) THEN /\ cur' = [cur EXCEPT ![g] = i]
                            /\ left' = [left EXCEPT ![g] = Len(msgs[i.idx])]
                       ELSE UNCHANGED <<cur, left>>
      /\ UNCHANGED <<slotVars, groupId, msgVars, hosts, jobs, listVars, pkt, dest, rushed>>
  BY DEF Visit
<1>3. Len(msgs[i.idx]) \in Nat
  BY <1>0, LenProperties DEF TypeOK
<1>4. /\ todo' \in [Groups -> SUBSET Id] /\ todo'[g] = todo[g] \ {i}
      /\ cur' \in [Groups -> Id \cup {NoId}] /\ left' \in [Groups -> Nat]
      /\ Current(i) => cur'[g] = i /\ left'[g] = Len(msgs[i.idx])
      /\ \A h \in Groups \ {g} : todo'[h] = todo[h] /\ cur'[h] = cur[h] /\ left'[h] = left[h]
  BY <1>0, <1>2, <1>3 DEF TypeOK
<1>5. TypeOK'
  BY <1>1, <1>2, <1>4 DEF TypeOK, slotVars, msgVars, listVars
<1>6. KeyInv' /\ LeaveInv' /\ PlaceInv' /\ RushInv' /\ OrderInv'
  <2>1. \A h \in Groups : pc'[h] # pc[h] \/ cur'[h] # cur[h] =>
          pc[h] = "packets" /\ pc'[h] \in {"check", "packets"}
    BY <1>1, <1>4
  <2> QED BY <1>2, <2>1, KeyKept, LeaveKept, PlaceKept, RushKept, OrderKept
          DEF slotVars, msgVars, listVars
<1>7. ListInv'
  BY <1>1, <1>2, <1>4 DEF ListInv, ListAt, Entering, listVars
<1>8. VisitInv'
  <2>1. i \in players[g] /\ todo[g] \subseteq players[g]
    BY <1>1 DEF VisitInv, VisitAt
  <2>2. VisitAt(g)'
    BY <1>0, <1>1, <1>2, <1>3, <1>4, <2>1 DEF VisitAt, Visiting, slotVars, msgVars, listVars, Current
  <2>3. \A h \in Groups \ {g} : VisitAt(h)'
    BY <1>1, <1>2, <1>4, VisitOthers DEF slotVars, msgVars, listVars
  <2> QED BY <2>2, <2>3 DEF VisitInv
<1> QED BY <1>5, <1>6, <1>7, <1>8

(* Check and HandlerTail: only the thread's place in the frame changes.        *)
LEMMA StepInVisit ==
  ASSUME IInv, NEW g \in Groups, NEW from \in {"check", "tail"}, NEW to \in {"pop", "post", "check"},
         Step(g, from, to), to = "pop" => left[g] > 0 /\ groupId[cur[g].idx] = g,
         UNCHANGED <<slotVars, groupId, msgVars, hosts, jobs, listVars, localVars, rushed>>
  PROVE  IInv'
<1> USE GroupAssumption DEF IInv
<1>1. /\ pc[g] = from /\ pc'[g] = to /\ pc' \in [Groups -> Labels]
      /\ \A h \in Groups \ {g} : pc'[h] = pc[h]
  BY Stepped DEF Labels, Visiting
<1>2. TypeOK'
  BY <1>1 DEF TypeOK, slotVars, msgVars, listVars, localVars
<1>3. KeyInv' /\ LeaveInv' /\ PlaceInv' /\ RushInv' /\ OrderInv'
  <2>1. \A h \in Groups : pc'[h] # pc[h] =>
          pc[h] \in {"check", "tail"} /\ pc'[h] \in {"pop", "post", "check"}
    BY <1>1
  <2> QED BY <2>1, KeyKept, LeaveKept, PlaceKept, RushKept, OrderKept
          DEF slotVars, msgVars, listVars, localVars
<1>4. ListInv'
  BY <1>1 DEF ListInv, ListAt, Entering, listVars, localVars
<1>5. VisitInv'
  <2>1. VisitAt(g)'
    BY <1>1 DEF VisitInv, VisitAt, Visiting, slotVars, msgVars, listVars, localVars, Current
  <2>2. \A h \in Groups \ {g} : VisitAt(h)'
    BY <1>1, VisitOthers DEF slotVars, msgVars, listVars, localVars
  <2> QED BY <2>1, <2>2 DEF VisitInv
<1> QED BY <1>2, <1>3, <1>4, <1>5

(* Check and HandlerTail.                                                     *)
LEMMA StepCheck ==
  ASSUME IInv, NEW g \in Groups, Check(g) \/ HandlerTail(g)
  PROVE  IInv'
<1>1. CASE Check(g)
  <2> DEFINE to == IF left[g] > 0 /\ groupId[cur[g].idx] = g THEN "pop" ELSE "post"
  <2>1. /\ to \in {"pop", "post", "check"} /\ Step(g, "check", to)
        /\ to = "pop" => left[g] > 0 /\ groupId[cur[g].idx] = g
        /\ UNCHANGED <<slotVars, groupId, msgVars, hosts, jobs, listVars, localVars, rushed>>
    BY <1>1 DEF Check, CheckIf
  <2> HIDE DEF to
  <2> QED BY <2>1, StepInVisit
<1>2. CASE HandlerTail(g)
  BY <1>2, StepInVisit DEF HandlerTail
<1> QED BY <1>1, <1>2

(* PostRelease: the session is not held any more.                             *)
LEMMA StepPostRelease ==
  ASSUME IInv, NEW g \in Groups, PostRelease(g)
  PROVE  IInv'
<1> USE GroupAssumption DEF IInv
<1>1. /\ pc[g] = "post" /\ pc'[g] = "packets" /\ pc' \in [Groups -> Labels]
      /\ \A h \in Groups \ {g} : pc'[h] = pc[h]
  BY Stepped DEF PostRelease, Labels
<1>2. /\ cur' = [cur EXCEPT ![g] = NoId]
      /\ UNCHANGED <<slotVars, groupId, msgVars, hosts, jobs, listVars, todo, left, pkt, dest, rushed>>
  BY DEF PostRelease
<1>3. cur' \in [Groups -> Id \cup {NoId}] /\ \A h \in Groups \ {g} : cur'[h] = cur[h]
  BY <1>2 DEF TypeOK
<1>4. TypeOK'
  BY <1>1, <1>2, <1>3 DEF TypeOK, slotVars, msgVars, listVars
<1>5. KeyInv' /\ LeaveInv' /\ PlaceInv' /\ RushInv' /\ OrderInv'
  <2>1. \A h \in Groups : pc'[h] # pc[h] \/ cur'[h] # cur[h] => pc[h] = "post" /\ pc'[h] = "packets"
    BY <1>1, <1>3
  <2> QED BY <1>2, <2>1, KeyKept, LeaveKept, PlaceKept, RushKept, OrderKept
          DEF slotVars, msgVars, listVars
<1>6. ListInv'
  BY <1>1, <1>2, <1>3 DEF ListInv, ListAt, Entering, listVars
<1>7. VisitInv'
  <2>1. VisitAt(g)'
    BY <1>1, <1>2 DEF VisitInv, VisitAt, Visiting, listVars
  <2>2. \A h \in Groups \ {g} : VisitAt(h)'
    BY <1>1, <1>2, <1>3, VisitOthers DEF slotVars, msgVars, listVars
  <2> QED BY <2>1, <2>2 DEF VisitInv
<1> QED BY <1>4, <1>5, <1>6, <1>7

(* EndFrame: the sessions that left are taken off the list.                   *)
LEMMA StepEndFrame ==
  ASSUME IInv, NEW g \in Groups, EndFrame(g)
  PROVE  IInv'
<1> USE GroupAssumption DEF IInv
<1>1. /\ pc[g] = "packets" /\ pc'[g] = "idle" /\ pc' \in [Groups -> Labels]
      /\ \A h \in Groups \ {g} : pc'[h] = pc[h]
  BY Stepped DEF EndFrame, Labels
<1>2. /\ sessionList' = [sessionList EXCEPT ![g] = @ \ eraseList[g]]
      /\ eraseList' = [eraseList EXCEPT ![g] = {}]
      /\ left' = [left EXCEPT ![g] = 0] /\ pkt' = [pkt EXCEPT ![g] = NoMsg]
      /\ dest' = [dest EXCEPT ![g] = g] /\ cur' = [cur EXCEPT ![g] = NoId]
      /\ UNCHANGED <<slotVars, groupId, msgVars, hosts, jobs, players, todo, rushed>>
  BY DEF EndFrame
<1>3. /\ sessionList' \in [Groups -> SUBSET Id] /\ sessionList'[g] = sessionList[g] \ eraseList[g]
      /\ eraseList' \in [Groups -> SUBSET Id] /\ eraseList'[g] = {}
      /\ left' \in [Groups -> Nat] /\ pkt' \in [Groups -> Packets \cup {NoMsg}]
      /\ dest' \in [Groups -> Groups] /\ cur' \in [Groups -> Id \cup {NoId}]
      /\ \A h \in Groups \ {g} :
           /\ sessionList'[h] = sessionList[h] /\ eraseList'[h] = eraseList[h]
           /\ left'[h] = left[h] /\ pkt'[h] = pkt[h] /\ dest'[h] = dest[h] /\ cur'[h] = cur[h]
  BY <1>2 DEF TypeOK
<1>4. TypeOK'
  BY <1>1, <1>2, <1>3 DEF TypeOK, slotVars, msgVars
<1>5. KeyInv' /\ LeaveInv'
  BY <1>2, <1>3, LeaveKept DEF KeyInv, slotVars
<1>6. PlaceInv'
  BY <1>1, <1>2, <1>3
     DEF PlaceInv, JobPlace, CarryPlace, PlayerPlace, EnterJob, Carries, Current, slotVars
<1>7. ListInv'
  BY <1>1, <1>2, <1>3 DEF ListInv, ListAt, Entering
<1>8. RushInv'
  <2>1. \A i : Current(i)' <=> Current(i)
    BY <1>2 DEF Current, slotVars
  <2>2. UNCHANGED <<groupId, rushed>>
    BY <1>2
  <2> QED BY <1>1, <1>3, <2>1, <2>2 DEF RushInv
<1>9. VisitInv'
  <2>1. VisitAt(g)'
    BY <1>1 DEF VisitAt, Visiting
  <2>2. \A h \in Groups \ {g} : VisitAt(h)'
    BY <1>1, <1>2, <1>3, VisitOthers DEF slotVars, msgVars
  <2> QED BY <2>1, <2>2 DEF VisitInv
<1>10. OrderInv'
  <2>1. \A s : (InHand(s)' <=> InHand(s)) /\ Popped(s)' = Popped(s)
    BY <1>1, <1>2, <1>3 DEF InHand, Popped, msgVars
  <2>2. UNCHANGED <<msgs, received, handled, rushed>>
    BY <1>2 DEF msgVars
  <2>3. \A s \in Slots \ rushed : DoneInOrder(s)' /\ QueueInOrder(s)'
    BY <2>1, <2>2 DEF OrderInv, DoneInOrder, QueueInOrder
  <2>4. \A s \in Slots \ rushed : HandInOrder(s)'
    BY <1>1, <1>3, <2>2 DEF OrderInv, HandInOrder
  <2> QED BY <2>2, <2>3, <2>4 DEF OrderInv
<1> QED BY <1>4, <1>5, <1>6, <1>7, <1>8, <1>9, <1>10

(* A session's group is the only one that pops its packets, or has it as a    *)
(* player.                                                                    *)
LEMMA SoleReader ==
  ASSUME IInv, NEW g \in Groups, NEW h \in Groups, pc[g] \in {"pop", "recv"},
         pc[h] \in Visiting, cur[h].idx = cur[g].idx,
         pc[h] \in {"pop", "recv"} \/ cur[h] \in players[h]
  PROVE  h = g
<1> USE DEF IInv
<1>1. /\ Current(cur[g]) /\ cur[g] \in Id /\ groupId[cur[g].idx] = g
      /\ Current(cur[h]) /\ cur[h] \in Id
      /\ pc[h] \in {"pop", "recv"} => groupId[cur[h].idx] = h
  BY DEF VisitInv, VisitAt, Visiting
<1>2. cur[h] \in players[h] => groupId[cur[h].idx] = h
  BY <1>1 DEF PlaceInv, PlayerPlace
<1> QED BY <1>1, <1>2

(* A thread that may pop a packet has the session as a player, unless it      *)
(* rushed back.                                                               *)
LEMMA PlayerUnlessRushed ==
  ASSUME IInv, NEW g \in Groups, pc[g] \in {"pop", "recv"}, cur[g].idx \notin rushed
  PROVE  cur[g] \in players[g]
<1>1. /\ Current(cur[g]) /\ groupId[cur[g].idx] = g
      /\ cur[g] \in players[g] \cup eraseList[g]
  BY DEF IInv, VisitInv, VisitAt, Visiting
<1> QED BY <1>1 DEF IInv, RushInv

(* Pop: the packet in hand is the next of its slot.                           *)
LEMMA StepPop ==
  ASSUME IInv, NEW g \in Groups, Pop(g)
  PROVE  IInv'
<1> USE GroupAssumption DEF IInv
<1> DEFINE s == cur[g].idx
           q == msgs[s]
<1>1. /\ pc[g] = "pop" /\ pc'[g] = "recv" /\ pc' \in [Groups -> Labels]
      /\ \A h \in Groups \ {g} : pc'[h] = pc[h]
  BY Stepped DEF Pop, Labels, Visiting
<1>2. /\ IF q = <<>> THEN UNCHANGED <<msgs, pkt>>
                     ELSE /\ msgs' = [msgs EXCEPT ![s] = Tail(q)]
                          /\ pkt' = [pkt EXCEPT ![g] = Head(q)]
      /\ left' = [left EXCEPT ![g] = @ - 1]
      /\ UNCHANGED <<slotVars, groupId, received, handled, hosts, jobs, listVars, cur, todo, dest, rushed>>
  BY DEF Pop
<1>3. /\ Current(cur[g]) /\ cur[g] \in Id /\ s \in Slots /\ left[g] > 0 /\ groupId[s] = g
      /\ cur[g] \in players[g] \cup eraseList[g] /\ cur[g] \notin todo[g]
      /\ cur[g] \in players[g] => left[g] <= Len(q)
      /\ todo[g] \subseteq players[g] /\ left[g] \in Nat
  BY <1>1 DEF VisitInv, VisitAt, Visiting, Id, TypeOK
<1>4. q \in Seq(Packets) /\ Len(q) \in Nat /\ (q = <<>> <=> Len(q) = 0)
  BY <1>3, LenProperties, EmptySeq DEF TypeOK
<1>5. cur[g] \in players[g] => q # <<>>
  BY <1>3, <1>4
<1>6. s \notin rushed => cur[g] \in players[g]
  BY <1>1, PlayerUnlessRushed
<1>7. \A h \in Groups \ {g} : pc[h] \in Visiting /\ cur[h].idx = s =>
        pc[h] \notin {"pop", "recv"} /\ cur[h] \notin players[h]
  BY <1>1, SoleReader
<1>8. q # <<>> => /\ Tail(q) \in Seq(Packets) /\ Head(q) \in Packets /\ Head(q) = q[1]
                 /\ Len(Tail(q)) = Len(q) - 1 /\ DOMAIN q = 1 .. Len(q)
                 /\ DOMAIN Tail(q) = 1 .. (Len(q) - 1) /\ 1 \in DOMAIN q
                 /\ \A k \in DOMAIN Tail(q) : k + 1 \in DOMAIN q /\ Tail(q)[k] = q[k + 1]
  BY <1>4, TailAt
<1>9. /\ msgs' \in [Slots -> Seq(Packets)] /\ pkt' \in [Groups -> Packets \cup {NoMsg}]
      /\ left' \in [Groups -> Nat] /\ left'[g] = left[g] - 1
      /\ q # <<>> => msgs'[s] = Tail(q) /\ pkt'[g] = Head(q)
      /\ \A t \in Slots \ {s} : msgs'[t] = msgs[t]
      /\ \A h \in Groups \ {g} : pkt'[h] = pkt[h] /\ left'[h] = left[h]
  <2>1. left' \in [Groups -> Nat] /\ left'[g] = left[g] - 1 /\ \A h \in Groups \ {g} : left'[h] = left[h]
    BY <1>2, <1>3 DEF TypeOK
  <2>2. msgs \in [Slots -> Seq(Packets)] /\ pkt \in [Groups -> Packets \cup {NoMsg}]
    BY DEF TypeOK
  <2> HIDE DEF s, q
  <2> QED BY <1>2, <1>3, <1>8, <2>1, <2>2
<1>10. TypeOK'
  BY <1>1, <1>2, <1>9 DEF TypeOK, slotVars, listVars
<1>11. KeyInv' /\ LeaveInv' /\ PlaceInv' /\ RushInv'
  <2>1. \A h \in Groups : pc'[h] # pc[h] => pc[h] = "pop" /\ pc'[h] = "recv"
    BY <1>1
  <2> QED BY <1>2, <2>1, KeyKept, LeaveKept, PlaceKept, RushKept DEF slotVars, listVars
<1>12. ListInv'
  BY <1>1, <1>2 DEF ListInv, ListAt, Entering, listVars
<1>13. VisitInv'
  <2>0. UNCHANGED <<id, open, groupId, players, eraseList, cur, todo>>
    BY <1>2 DEF slotVars, listVars
  <2>1. VisitAt(g)'
    <3>1. Current(cur[g])'
      BY <1>3, <2>0 DEF Current
    <3>2. ASSUME cur[g] \in players[g]
          PROVE  left'[g] <= Len(msgs'[s]) /\ pkt'[g] \in Packets
      <4> HIDE DEF s, q
      <4>1. q # <<>> /\ left[g] <= Len(q)
        BY <1>3, <1>5, <3>2
      <4> QED BY <1>3, <1>4, <1>8, <1>9, <4>1
    <3> QED BY <1>1, <1>3, <2>0, <3>1, <3>2 DEF VisitAt
  <2>2. ASSUME NEW h \in Groups \ {g} PROVE VisitAt(h)'
    <3>1. VisitAt(h) /\ pc'[h] = pc[h] /\ pkt'[h] = pkt[h] /\ left'[h] = left[h]
      BY <1>1, <1>9 DEF VisitInv
    <3>2. Current(cur[h])' <=> Current(cur[h])
      BY <2>0 DEF Current
    <3>3. pc[h] \in Visiting /\ cur[h] \in players[h] => msgs'[cur[h].idx] = msgs[cur[h].idx]
      BY <1>7, <1>9, <3>1 DEF VisitAt, Id
    <3> QED BY <2>0, <3>1, <3>2, <3>3 DEF VisitAt
  <2> QED BY <2>1, <2>2 DEF VisitInv
<1>14. OrderInv'
  <2>0. UNCHANGED <<received, handled, cur, rushed>>
    BY <1>2
  <2>1. \A t \in Slots : DoneInOrder(t)' <=> DoneInOrder(t)
    BY <2>0 DEF DoneInOrder
  <2>2. ASSUME NEW t \in Slots \ rushed, t # s PROVE QueueInOrder(t)' /\ HandInOrder(t)'
    <3>1. InHand(t)' <=> InHand(t)
      BY <1>1, <2>0, <2>2 DEF InHand
    <3>2. QueueInOrder(t)'
      <4>1. Popped(t)' = Popped(t)
        BY <2>0, <3>1 DEF Popped
      <4>2. msgs'[t] = msgs[t] /\ QueueInOrder(t)
        BY <1>9, <2>2 DEF OrderInv
      <4> QED BY <2>0, <4>1, <4>2 DEF QueueInOrder
    <3>3. HandInOrder(t)'
      BY <1>1, <1>9, <2>0, <2>2 DEF OrderInv, HandInOrder
    <3> QED BY <3>2, <3>3
  <2>3. ASSUME s \notin rushed PROVE QueueInOrder(s)' /\ HandInOrder(s)'
    <3>1. ~InHand(s) /\ InHand(s)'
      BY <1>1, <1>7, <2>0 DEF InHand, Visiting
    <3>2. Popped(s)' = Popped(s) + 1 /\ Popped(s) = Len(handled[s]) /\ Popped(s) \in Nat
      <4>1. Len(handled[s]) \in Nat
        BY <1>3, LenProperties DEF TypeOK
      <4> QED BY <2>0, <3>1, <4>1 DEF Popped
    <3>3. Popped(s) + Len(q) = received[s] /\ \A k \in DOMAIN q : q[k] = Popped(s) + k
      BY <1>3, <2>3 DEF OrderInv, QueueInOrder
    <3>4. q # <<>> /\ msgs'[s] = Tail(q) /\ pkt'[g] = Head(q)
      BY <1>5, <1>6, <1>9, <2>3
    <3>5. Popped(s)' + Len(Tail(q)) = received[s]
      <4> HIDE DEF s, q
      <4> QED BY <1>4, <1>8, <3>2, <3>3, <3>4
    <3>6. \A k \in DOMAIN Tail(q) : Tail(q)[k] = (Popped(s) + 1) + k
      <4>1. \A k \in DOMAIN Tail(q) : k \in Nat
        BY <1>8, <3>4
      <4> HIDE DEF s, q
      <4>2. ASSUME NEW k \in DOMAIN Tail(q) PROVE Tail(q)[k] = (Popped(s) + 1) + k
        <5>1. Tail(q)[k] = q[k + 1] /\ k + 1 \in DOMAIN q /\ k \in Nat
          BY <1>8, <3>4, <4>1
        <5>2. q[k + 1] = Popped(s) + (k + 1)
          BY <3>3, <5>1
        <5>3. Popped(s) \in Nat /\ k \in Nat
          BY <3>2, <5>1
        <5>4. Popped(s) + (k + 1) = (Popped(s) + 1) + k
          BY <5>3
        <5> QED BY <5>1, <5>2, <5>4
      <4> QED BY <4>2
    <3>7. QueueInOrder(s)'
      BY <2>0, <3>2, <3>4, <3>5, <3>6 DEF QueueInOrder
    <3>8. pkt'[g] = Len(handled[s]) + 1
      BY <1>8, <3>2, <3>3, <3>4
    <3>9. \A h \in Groups : pc'[h] = "recv" /\ cur[h].idx = s => h = g
      BY <1>1, <1>7 DEF Visiting
    <3>10. HandInOrder(s)'
      BY <2>0, <3>8, <3>9 DEF HandInOrder
    <3> QED BY <3>7, <3>10
  <2> QED BY <2>0, <2>1, <2>2, <2>3 DEF OrderInv
<1> QED BY <1>10, <1>11, <1>12, <1>13, <1>14

(* Whether the packet in hand is handled or dropped, the order stays what it  *)
(* was.                                                                       *)
LEMMA HandledOrder ==
  ASSUME IInv, NEW g \in Groups, pc[g] = "recv", pc'[g] # "recv",
         \A h \in Groups \ {g} : pc'[h] = pc[h],
         UNCHANGED <<msgs, received, cur, pkt, rushed>>,
         IF cur[g] \in players[g] THEN Handles(g) ELSE UNCHANGED handled
  PROVE  handled' \in [Slots -> Seq(Packets)] /\ OrderInv'
<1> USE DEF IInv
<1> DEFINE s == cur[g].idx
           d == handled[s]
<1>1. /\ cur[g] \in Id /\ s \in Slots /\ handled \in [Slots -> Seq(Packets)] /\ d \in Seq(Packets)
      /\ cur[g] \in players[g] => pkt[g] \in Packets
  BY DEF VisitInv, VisitAt, Visiting, Id, TypeOK
<1>2. s \notin rushed => cur[g] \in players[g]
  BY PlayerUnlessRushed
<1>3. cur[g] \in players[g] =>
        /\ Append(d, pkt[g]) \in Seq(Packets) /\ Len(Append(d, pkt[g])) = Len(d) + 1
        /\ DOMAIN d = 1 .. Len(d) /\ DOMAIN Append(d, pkt[g]) = 1 .. (Len(d) + 1)
        /\ \A k \in 1 .. Len(d) : Append(d, pkt[g])[k] = d[k]
        /\ Append(d, pkt[g])[Len(d) + 1] = pkt[g] /\ Len(d) \in Nat
  BY <1>1, AppendAt
<1>4. /\ handled' \in [Slots -> Seq(Packets)]
      /\ cur[g] \in players[g] => handled'[s] = Append(d, pkt[g])
      /\ \A t \in Slots \ {s} : handled'[t] = handled[t]
  <2>1. cur[g] \in players[g] => handled' = [handled EXCEPT ![s] = Append(d, pkt[g])]
    BY DEF Handles
  <2> HIDE DEF s, d
  <2> QED BY <1>1, <1>3, <2>1
<1>5. ASSUME NEW t \in Slots \ rushed, t # s
      PROVE  DoneInOrder(t)' /\ QueueInOrder(t)' /\ HandInOrder(t)'
  <2>1. InHand(t)' <=> InHand(t)
    BY <1>5 DEF InHand
  <2>2. Popped(t)' = Popped(t) /\ handled'[t] = handled[t]
    BY <1>4, <1>5, <2>1 DEF Popped
  <2>3. DoneInOrder(t)' /\ QueueInOrder(t)'
    BY <2>2 DEF OrderInv, DoneInOrder, QueueInOrder
  <2>4. HandInOrder(t)'
    BY <1>5, <2>2 DEF OrderInv, HandInOrder
  <2> QED BY <2>3, <2>4
<1>6. ASSUME s \notin rushed
      PROVE  DoneInOrder(s)' /\ QueueInOrder(s)' /\ HandInOrder(s)'
  <2>0. /\ cur[g] \in players[g] /\ handled'[s] = Append(d, pkt[g]) /\ s' = s
        /\ DoneInOrder(s) /\ QueueInOrder(s) /\ HandInOrder(s)
    BY <1>1, <1>2, <1>4, <1>6 DEF OrderInv
  <2>1. \A h \in Groups \ {g} : ~(pc[h] = "recv" /\ cur[h].idx = s)
    BY SoleReader DEF Visiting
  <2>2. InHand(s) /\ ~InHand(s)'
    BY <2>1 DEF InHand
  <2>3. Popped(s) = Len(d) + 1 /\ Popped(s)' = Len(handled'[s])
    BY <2>0, <2>2 DEF Popped
  <2>4. HandInOrder(s)'
    BY <2>1 DEF HandInOrder
  <2>5. QueueInOrder(s)'
    <3>1. Popped(s)' = Popped(s)
      BY <1>3, <2>0, <2>3
    <3> QED BY <2>0, <3>1 DEF QueueInOrder
  <2>6. DoneInOrder(s)'
    <3>1. pkt[g] = Len(d) + 1 /\ d = [n \in 1 .. Len(d) |-> n]
      BY <2>0 DEF HandInOrder, DoneInOrder
    <3> DEFINE e == Append(d, pkt[g])
    <3>2. e \in Seq(Packets) /\ Len(e) = Len(d) + 1
      BY <1>3, <2>0
    <3>3. \A n \in 1 .. Len(d) + 1 : e[n] = n
      <4>1. \A n \in 1 .. Len(d) : d[n] = n
        BY <3>1
      <4> HIDE DEF s, d
      <4>2. \A n \in 1 .. Len(d) + 1 : n \in 1 .. Len(d) \/ n = Len(d) + 1
        BY <1>3, <2>0
      <4> QED BY <1>3, <2>0, <3>1, <4>1, <4>2
    <3> HIDE DEF e, d
    <3>4. e = [n \in 1 .. Len(e) |-> n]
      BY <3>2, <3>3, LenProperties
    <3> QED BY <2>0, <3>4 DEF DoneInOrder, e
  <2> QED BY <2>4, <2>5, <2>6
<1> QED BY <1>4, <1>5, <1>6 DEF OrderInv

(* OnRecv: the packet is handled for a player, dropped for anybody else.      *)
LEMMA StepOnRecv ==
  ASSUME IInv, NEW g \in Groups, OnRecv(g)
  PROVE  IInv'
<1> USE GroupAssumption DEF IInv
<1>1. /\ pc[g] = "recv" /\ pc'[g] = "check" /\ pc' \in [Groups -> Labels]
      /\ \A h \in Groups \ {g} : pc'[h] = pc[h]
  BY Stepped DEF OnRecv, Labels, Visiting
<1>2. /\ IF cur[g] \in players[g] THEN Handles(g) ELSE UNCHANGED handled
      /\ UNCHANGED <<slotVars, groupId, msgs, received, hosts, jobs, listVars, localVars, rushed>>
  BY DEF OnRecv
<1>3. handled' \in [Slots -> Seq(Packets)] /\ OrderInv'
  BY <1>1, <1>2, HandledOrder DEF localVars
<1>4. TypeOK'
  BY <1>1, <1>2, <1>3 DEF TypeOK, slotVars, listVars, localVars
<1>5. KeyInv' /\ LeaveInv' /\ PlaceInv' /\ RushInv'
  <2>1. \A h \in Groups : pc'[h] # pc[h] => pc[h] = "recv" /\ pc'[h] = "check"
    BY <1>1
  <2> QED BY <1>2, <2>1, KeyKept, LeaveKept, PlaceKept, RushKept DEF slotVars, listVars, localVars
<1>6. ListInv'
  BY <1>1, <1>2 DEF ListInv, ListAt, Entering, listVars, localVars
<1>7. VisitInv'
  <2>1. VisitAt(g)'
    BY <1>1, <1>2 DEF VisitInv, VisitAt, Visiting, slotVars, listVars, localVars, Current
  <2>2. \A h \in Groups \ {g} : VisitAt(h)'
    BY <1>1, <1>2, VisitOthers DEF slotVars, listVars, localVars
  <2> QED BY <2>1, <2>2 DEF VisitInv
<1> QED BY <1>3, <1>4, <1>5, <1>6, <1>7

(* MoveGroup: the player leaves its group and is nobody's for a while.        *)
LEMMA StepMoveGroup ==
  ASSUME IInv, NEW g \in Groups, NEW to \in Groups, MoveGroup(g, to)
  PROVE  IInv'
<1> USE GroupAssumption DEF IInv
<1>0. PICK i : i = cur[g]
  OBVIOUS
<1>1. /\ pc[g] = "recv" /\ pc'[g] = "move" /\ pc' \in [Groups -> Labels]
      /\ \A h \in Groups \ {g} : pc'[h] = pc[h]
  BY Stepped DEF MoveGroup, MoveIf, Labels, Visiting
<1>2. /\ i \in players[g] /\ i \in sessionList[g] /\ i \in Id /\ i.idx \in Slots
      /\ groupId[i.idx] = g /\ i \notin todo[g] /\ todo[g] \subseteq players[g] /\ Current(i)
      /\ sessionList[g] = players[g] \cup eraseList[g] /\ players[g] \cap eraseList[g] = {}
  BY <1>0, <1>1 DEF MoveGroup, MoveIf, ListInv, ListAt, Entering, VisitInv, VisitAt, Visiting, Id
<1>3. /\ Handles(g) /\ dest' = [dest EXCEPT ![g] = to]
      /\ eraseList' = [eraseList EXCEPT ![g] = @ \cup {i}]
      /\ players' = [players EXCEPT ![g] = @ \ {i}]
      /\ UNCHANGED <<slotVars, groupId, msgs, received, hosts, jobs, sessionList,
                     cur, todo, left, pkt, rushed>>
  BY <1>0, <1>2 DEF MoveGroup, MoveIf
<1>4. /\ eraseList' \in [Groups -> SUBSET Id] /\ eraseList'[g] = eraseList[g] \cup {i}
      /\ players' \in [Groups -> SUBSET Id] /\ players'[g] = players[g] \ {i}
      /\ dest' \in [Groups -> Groups]
      /\ \A h \in Groups \ {g} :
           eraseList'[h] = eraseList[h] /\ players'[h] = players[h] /\ dest'[h] = dest[h]
  BY <1>2, <1>3 DEF TypeOK
<1>5. handled' \in [Slots -> Seq(Packets)] /\ OrderInv'
  BY <1>0, <1>1, <1>2, <1>3, HandledOrder
<1>6. TypeOK'
  BY <1>1, <1>3, <1>4, <1>5 DEF TypeOK, slotVars
<1>7. KeyInv' /\ LeaveInv'
  <2>1. \A h \in Groups : players'[h] \cup eraseList'[h] = players[h] \cup eraseList[h]
    <3>1. players'[g] \cup eraseList'[g] = players[g] \cup eraseList[g]
      BY <1>2, <1>4
    <3> QED BY <1>4, <3>1
  <2> QED BY <1>3, <2>1, LeaveKept DEF KeyInv, slotVars
<1>8. PlaceInv'
  <2>0. UNCHANGED <<hosts, id, open, groupId, jobs, cur>>
    BY <1>3 DEF slotVars
  <2>1. \A h \in Groups, j \in Id :
          (j \in players'[h] <=> j \in players[h] /\ ~(h = g /\ j = i))
    BY <1>4
  <2>2. \A h \in Groups, j \in Id : Carries(h, j)' <=> Carries(h, j) \/ (h = g /\ j = i)
    BY <1>0, <1>1, <2>0 DEF Carries
  <2>3. \A h \in Groups : h # g => dest'[h] = dest[h] /\ pc'[h] = pc[h]
    BY <1>1, <1>4
  <2>4. \A h \in Groups : /\ ~Carries(h, i) /\ \A k \in DOMAIN jobs[h] : ~EnterJob(h, k, i)
                          /\ i \in players[h] => h = g
    BY <1>2 DEF PlaceInv, JobPlace, CarryPlace, PlayerPlace
  <2>5. \A h \in Groups : \A k, j : EnterJob(h, k, j)' <=> EnterJob(h, k, j)
    BY <2>0 DEF EnterJob
  <2>6. \A j : Current(j)' <=> Current(j)
    BY <2>0 DEF Current
  <2> SUFFICES ASSUME NEW j \in Id, NEW h \in Groups
               PROVE  JobPlace(j, h)' /\ CarryPlace(j, h)' /\ PlayerPlace(j, h)'
    BY DEF PlaceInv
  <2>7. JobPlace(j, h) /\ CarryPlace(j, h) /\ PlayerPlace(j, h)
    BY DEF PlaceInv
  <2>8. JobPlace(j, h)'
    <3>1. ASSUME NEW k \in DOMAIN jobs[h], EnterJob(h, k, j)
          PROVE  /\ j \in hosts' /\ (Current(j)' => groupId'[j.idx] = h)
                 /\ \A f \in Groups :
                      /\ j \notin players'[f] /\ ~Carries(f, j)'
                      /\ \A l \in DOMAIN jobs[f] : EnterJob(f, l, j) => f = h /\ l = k
      <4>1. j # i
        BY <2>4, <3>1
      <4>2. /\ j \in hosts /\ (Current(j) => groupId[j.idx] = h)
            /\ \A f \in Groups :
                 /\ j \notin players[f] /\ ~Carries(f, j)
                 /\ \A l \in DOMAIN jobs[f] : EnterJob(f, l, j) => f = h /\ l = k
        BY <2>7, <3>1 DEF JobPlace
      <4> QED BY <2>0, <2>1, <2>2, <2>6, <4>1, <4>2
    <3> QED BY <2>0, <2>5, <3>1 DEF JobPlace
  <2>9. CarryPlace(j, h)'
    <3>1. CASE j = i
      <4>1. Carries(h, i)' => h = g
        BY <1>2, <2>2, <2>4
      <4>2. i \in hosts /\ groupId[i.idx] = g /\ pc'[g] # "enqueue"
        BY <1>1, <1>2 DEF PlaceInv, PlayerPlace
      <4> QED BY <1>2, <2>0, <2>1, <2>2, <2>4, <3>1, <4>1, <4>2 DEF CarryPlace
    <3>2. CASE j # i
      BY <1>0, <1>1, <2>0, <2>1, <2>2, <2>3, <2>6, <2>7, <3>2 DEF CarryPlace, Carries
    <3> QED BY <3>1, <3>2
  <2>10. PlayerPlace(j, h)'
    BY <2>0, <2>1, <2>6, <2>7 DEF PlayerPlace
  <2> QED BY <2>8, <2>9, <2>10
<1>9. ListInv'
  BY <1>0, <1>1, <1>2, <1>3, <1>4 DEF ListInv, ListAt, Entering
<1>10. RushInv'
  <2>1. \A j : Current(j)' <=> Current(j)
    BY <1>3 DEF Current, slotVars
  <2>2. UNCHANGED <<groupId, rushed, cur>>
    BY <1>3
  <2> QED BY <1>0, <1>1, <1>4, <2>1, <2>2 DEF RushInv
<1>11. VisitInv'
  <2>0. UNCHANGED <<id, open, groupId, msgs, todo, cur, left, pkt>>
    BY <1>3 DEF slotVars
  <2>1. VisitAt(g)'
    BY <1>0, <1>1, <1>2, <1>4, <2>0 DEF VisitInv, VisitAt, Visiting, Current
  <2>2. \A h \in Groups \ {g} : VisitAt(h)'
    BY <1>1, <1>4, <2>0, VisitOthers
  <2> QED BY <2>1, <2>2 DEF VisitInv
<1> QED BY <1>5, <1>6, <1>7, <1>8, <1>9, <1>10, <1>11

(* MoveExchange: the session is the other group's before it enters it.        *)
LEMMA StepMoveExchange ==
  ASSUME IInv, NEW g \in Groups, MoveExchange(g)
  PROVE  IInv'
<1> USE GroupAssumption DEF IInv
<1>0. PICK i : i = cur[g]
  OBVIOUS
<1>1. /\ pc[g] = "move" /\ pc'[g] = "enqueue" /\ pc' \in [Groups -> Labels]
      /\ \A h \in Groups \ {g} : pc'[h] = pc[h]
  BY Stepped DEF MoveExchange, Labels, Visiting
<1>2. /\ groupId' = [groupId EXCEPT ![i.idx] = dest[g]]
      /\ rushed' = IF i \in sessionList[dest[g]] THEN rushed \cup {i.idx} ELSE rushed
      /\ UNCHANGED <<slotVars, msgVars, hosts, jobs, listVars, localVars>>
  BY <1>0 DEF MoveExchange
<1>3. /\ i \in Id /\ i.idx \in Slots /\ Current(i) /\ Carries(g, i) /\ dest[g] \in Groups
  BY <1>0, <1>1 DEF VisitInv, VisitAt, Visiting, Id, Carries, TypeOK
<1>4. /\ i \in hosts /\ groupId[i.idx] = g
      /\ \A h \in Groups : i \notin players[h] /\ (Carries(h, i) => h = g)
      /\ \A h \in Groups : \A k \in DOMAIN jobs[h] : ~EnterJob(h, k, i)
  BY <1>1, <1>3 DEF PlaceInv, CarryPlace, JobPlace
<1>5. /\ groupId' \in [Slots -> Groups \cup {GroupNull}] /\ groupId'[i.idx] = dest[g]
      /\ \A t \in Slots \ {i.idx} : groupId'[t] = groupId[t]
  BY <1>2, <1>3 DEF TypeOK
<1>6. \A j : Current(j)' <=> Current(j)
  BY <1>2 DEF Current, slotVars
<1>7. \A j \in Id : Current(j) /\ j # i => j.idx \in Slots \ {i.idx} /\ groupId'[j.idx] = groupId[j.idx]
  BY <1>3, <1>5, CurrentAlone DEF Id
<1>8. rushed \subseteq rushed' /\ rushed' \subseteq Slots
  BY <1>2, <1>3 DEF TypeOK
<1>9. TypeOK'
  BY <1>1, <1>2, <1>5, <1>8 DEF TypeOK, slotVars, msgVars, listVars, localVars
<1>10. KeyInv' /\ LeaveInv' /\ OrderInv'
  <2>1. \A h \in Groups : pc'[h] # pc[h] => pc[h] = "move" /\ pc'[h] = "enqueue"
    BY <1>1
  <2> QED BY <1>2, <1>8, <2>1, KeyKept, LeaveKept, OrderKept DEF slotVars, msgVars, listVars, localVars
<1>11. ListInv'
  BY <1>1, <1>2 DEF ListInv, ListAt, Entering, listVars, localVars
<1>12. PlaceInv'
  <2>0. UNCHANGED <<hosts, jobs, players, dest, cur>>
    BY <1>2 DEF listVars, localVars
  <2>1. \A h \in Groups : \A j : Carries(h, j)' <=> Carries(h, j)
    BY <1>1, <2>0 DEF Carries
  <2>2. \A h \in Groups : \A k, j : EnterJob(h, k, j)' <=> EnterJob(h, k, j)
    BY <2>0 DEF EnterJob
  <2> SUFFICES ASSUME NEW j \in Id, NEW h \in Groups
               PROVE  JobPlace(j, h)' /\ CarryPlace(j, h)' /\ PlayerPlace(j, h)'
    BY DEF PlaceInv
  <2>3. JobPlace(j, h) /\ CarryPlace(j, h) /\ PlayerPlace(j, h)
    BY DEF PlaceInv
  <2>4. JobPlace(j, h)'
    <3>1. CASE j = i
      BY <1>4, <2>0, <2>2, <3>1 DEF JobPlace
    <3>2. CASE j # i
      BY <1>6, <1>7, <2>0, <2>1, <2>2, <2>3, <3>2 DEF JobPlace
    <3> QED BY <3>1, <3>2
  <2>5. CarryPlace(j, h)'
    <3>1. CASE j = i
      BY <1>1, <1>4, <1>5, <2>0, <2>1, <3>1 DEF CarryPlace
    <3>2. CASE j # i
      BY <1>0, <1>1, <1>6, <1>7, <2>0, <2>1, <2>3, <3>2 DEF CarryPlace, Carries
    <3> QED BY <3>1, <3>2
  <2>6. PlayerPlace(j, h)'
    BY <1>4, <1>6, <1>7, <2>0, <2>3 DEF PlayerPlace
  <2> QED BY <2>4, <2>5, <2>6
<1>13. RushInv'
  <2> SUFFICES ASSUME NEW f \in Groups, NEW j \in eraseList[f], Current(j), groupId'[j.idx] = f
               PROVE  j.idx \in rushed' \/ (pc'[f] = "move" /\ cur[f] = j)
    BY <1>2, <1>6 DEF RushInv, listVars, localVars
  <2>1. j \in Id
    BY DEF TypeOK
  <2>2. CASE j = i
    <3>1. dest[g] = f /\ i \in sessionList[f]
      BY <1>5, <2>2 DEF ListInv, ListAt
    <3> QED BY <1>2, <2>2, <3>1
  <2>3. CASE j # i
    <3>1. j.idx \in rushed \/ (pc[f] = "move" /\ cur[f] = j)
      BY <1>7, <2>1, <2>3 DEF RushInv
    <3> QED BY <1>0, <1>1, <1>8, <2>3, <3>1
  <2> QED BY <2>2, <2>3
<1>14. VisitInv'
  <2>0. UNCHANGED <<players, eraseList, cur, todo, left, pkt, msgs>>
    BY <1>2 DEF listVars, localVars, msgVars
  <2>1. VisitAt(g)'
    BY <1>1, <1>6, <2>0 DEF VisitInv, VisitAt, Visiting
  <2>2. ASSUME NEW h \in Groups \ {g} PROVE VisitAt(h)'
    <3>1. VisitAt(h) /\ pc'[h] = pc[h]
      BY <1>1 DEF VisitInv
    <3>2. pc[h] \in {"pop", "recv"} => groupId'[cur[h].idx] = groupId[cur[h].idx]
      BY <1>4, <1>7, <3>1 DEF VisitAt, Visiting
    <3> QED BY <1>6, <2>0, <3>1, <3>2 DEF VisitAt
  <2> QED BY <2>1, <2>2 DEF VisitInv
<1> QED BY <1>9, <1>10, <1>11, <1>12, <1>13, <1>14

(* A session without a place gets one: an Enter for it is queued.              *)
LEMMA EnterQueued ==
  ASSUME TypeOK, NEW g \in Groups, NEW i \in Id, Enqueue(g, Enter(i))
  PROVE  /\ jobs' \in [Groups -> Seq(Jobs)]
         /\ \A h \in Groups, j \in Id : \A k :
              EnterJob(h, k, j)' <=> \/ EnterJob(h, k, j)
                                     \/ h = g /\ j = i /\ k = Len(jobs[g]) + 1
         /\ \A h \in Groups : \A k \in DOMAIN jobs'[h] :
              \/ k \in DOMAIN jobs[h] /\ jobs'[h][k] = jobs[h][k]
              \/ jobs'[h][k] = Enter(i)
<1>0. PICK e : e = Enter(i)
  OBVIOUS
<1>1. e \in Jobs /\ Enqueue(g, e)
  BY <1>0 DEF Enter, Jobs
<1>2. /\ jobs' \in [Groups -> Seq(Jobs)]
      /\ \A h \in Groups \ {g} : jobs'[h] = jobs[h]
      /\ DOMAIN jobs[g] = 1 .. Len(jobs[g]) /\ Len(jobs[g]) \in Nat
      /\ DOMAIN jobs'[g] = 1 .. (Len(jobs[g]) + 1)
      /\ \A k \in DOMAIN jobs[g] : jobs'[g][k] = jobs[g][k]
      /\ jobs'[g][Len(jobs[g]) + 1] = e
      /\ \A h \in Groups : \A k \in DOMAIN jobs'[h] :
           \/ k \in DOMAIN jobs[h] /\ jobs'[h][k] = jobs[h][k]
           \/ h = g /\ k = Len(jobs[g]) + 1 /\ jobs'[h][k] = e
  BY <1>1, Queued
<1>3. \A j \in Id : e = Enter(j) <=> j = i
  BY <1>0 DEF Enter
<1>4. ASSUME NEW h \in Groups, NEW j \in Id, NEW k
      PROVE  EnterJob(h, k, j)' <=> \/ EnterJob(h, k, j)
                                    \/ h = g /\ j = i /\ k = Len(jobs[g]) + 1
  <2>1. CASE h = g
    BY <1>2, <1>3, <2>1 DEF EnterJob
  <2>2. CASE h # g
    BY <1>2, <2>2 DEF EnterJob
  <2> QED BY <2>1, <2>2
<1> QED BY <1>0, <1>2, <1>4

(* MoveEnqueue: the session's place is the queue of its new group.            *)
LEMMA StepMoveEnqueue ==
  ASSUME IInv, NEW g \in Groups, MoveEnqueue(g)
  PROVE  IInv'
<1> USE GroupAssumption DEF IInv
<1>0. PICK i, d : i = cur[g] /\ d = dest[g]
  OBVIOUS
<1>1. /\ pc[g] = "enqueue" /\ pc'[g] = "tail" /\ pc' \in [Groups -> Labels]
      /\ \A h \in Groups \ {g} : pc'[h] = pc[h]
  BY Stepped DEF MoveEnqueue, Labels, Visiting
<1>2. /\ Enqueue(d, Enter(i))
      /\ UNCHANGED <<slotVars, groupId, msgVars, hosts, listVars, localVars, rushed>>
  BY <1>0 DEF MoveEnqueue
<1>3. i \in Id /\ Carries(g, i) /\ d \in Groups
  BY <1>0, <1>1 DEF VisitInv, VisitAt, Visiting, Carries, TypeOK
<1>4. /\ i \in hosts /\ (Current(i) => groupId[i.idx] = d) /\ i.key <= keys
      /\ \A h \in Groups : i \notin players[h] /\ (Carries(h, i) => h = g)
      /\ \A h \in Groups : \A k : ~EnterJob(h, k, i)
  BY <1>0, <1>1, <1>3 DEF PlaceInv, CarryPlace, JobPlace, KeyInv, EnterJob
<1>5. /\ jobs' \in [Groups -> Seq(Jobs)]
      /\ \A h \in Groups, j \in Id : \A k :
           EnterJob(h, k, j)' <=> \/ EnterJob(h, k, j)
                                  \/ h = d /\ j = i /\ k = Len(jobs[d]) + 1
      /\ \A h \in Groups : \A k \in DOMAIN jobs'[h] :
           \/ k \in DOMAIN jobs[h] /\ jobs'[h][k] = jobs[h][k]
           \/ jobs'[h][k] = Enter(i)
  BY <1>2, <1>3, EnterQueued
<1>6. TypeOK'
  BY <1>1, <1>2, <1>5 DEF TypeOK, slotVars, msgVars, listVars, localVars
<1>7. \A j : Current(j)' <=> Current(j)
  BY <1>2 DEF Current, slotVars
<1>8. KeyInv' /\ LeaveInv'
  <2>1. Enter(i).id = i /\ Enter(i).do # "leave"
    BY DEF Enter
  <2>2. KeyInv'
    BY <1>2, <1>4, <1>5, <2>1 DEF KeyInv, slotVars, listVars
  <2>3. LeaveInv'
    BY <1>5, <1>7, <2>1 DEF LeaveInv
  <2> QED BY <2>2, <2>3
<1>9. ListInv'
  BY <1>1, <1>2 DEF ListInv, ListAt, Entering, listVars, localVars
<1>10. PlaceInv'
  <2>0. UNCHANGED <<hosts, groupId, players, dest, cur>>
    BY <1>2 DEF listVars, localVars
  <2>1. \A h \in Groups, j \in Id : Carries(h, j)' <=> Carries(h, j) /\ j # i
    BY <1>0, <1>1, <1>4, <2>0 DEF Carries
  <2> SUFFICES ASSUME NEW j \in Id, NEW h \in Groups
               PROVE  JobPlace(j, h)' /\ CarryPlace(j, h)' /\ PlayerPlace(j, h)'
    BY DEF PlaceInv
  <2>2. JobPlace(j, h) /\ CarryPlace(j, h) /\ PlayerPlace(j, h)
    BY DEF PlaceInv
  <2>3. JobPlace(j, h)'
    <3>1. ASSUME NEW k, EnterJob(h, k, j)'
          PROVE  /\ j \in hosts' /\ (Current(j)' => groupId'[j.idx] = h)
                 /\ \A f \in Groups :
                      /\ j \notin players'[f] /\ ~Carries(f, j)'
                      /\ \A l : EnterJob(f, l, j)' => f = h /\ l = k
      <4>1. CASE j = i
        BY <1>3, <1>4, <1>5, <1>7, <2>0, <2>1, <3>1, <4>1
      <4>2. CASE j # i
        <5>1. EnterJob(h, k, j) /\ k \in DOMAIN jobs[h]
          BY <1>5, <3>1, <4>2 DEF EnterJob
        <5>2. /\ j \in hosts /\ (Current(j) => groupId[j.idx] = h)
              /\ \A f \in Groups :
                   /\ j \notin players[f] /\ ~Carries(f, j)
                   /\ \A l \in DOMAIN jobs[f] : EnterJob(f, l, j) => f = h /\ l = k
          BY <2>2, <5>1 DEF JobPlace
        <5>3. \A f, l : EnterJob(f, l, j) => l \in DOMAIN jobs[f]
          BY DEF EnterJob
        <5> QED BY <1>5, <1>7, <2>0, <2>1, <4>2, <5>2, <5>3
      <4> QED BY <4>1, <4>2
    <3> QED BY <3>1 DEF JobPlace
  <2>4. CarryPlace(j, h)'
    BY <1>0, <1>1, <1>7, <2>0, <2>1, <2>2 DEF CarryPlace, Carries
  <2>5. PlayerPlace(j, h)'
    BY <1>7, <2>0, <2>2 DEF PlayerPlace
  <2> QED BY <2>3, <2>4, <2>5
<1>11. RushInv' /\ OrderInv'
  <2>1. \A h \in Groups : pc'[h] # pc[h] => pc[h] = "enqueue" /\ pc'[h] = "tail"
    BY <1>1
  <2> QED BY <1>2, <2>1, RushKept, OrderKept DEF slotVars, msgVars, listVars, localVars
<1>12. VisitInv'
  <2>1. VisitAt(g)'
    BY <1>1, <1>2 DEF VisitInv, VisitAt, Visiting, slotVars, msgVars, listVars, localVars, Current
  <2>2. \A h \in Groups \ {g} : VisitAt(h)'
    BY <1>1, <1>2, VisitOthers DEF slotVars, msgVars, listVars, localVars
  <2> QED BY <2>1, <2>2 DEF VisitInv
<1> QED BY <1>6, <1>8, <1>9, <1>10, <1>11, <1>12

(* Accept: a new id, whose place is the queue of the login group.             *)
LEMMA StepAccept ==
  ASSUME IInv, NEW s \in Slots, Accept(s)
  PROVE  IInv'
<1> USE GroupAssumption DEF IInv
<1>0. PICK i : i = [key |-> keys + 1, idx |-> s]
  OBVIOUS
<1>1. /\ ~open[s] /\ keys < MaxKey
      /\ keys' = keys + 1 /\ id' = [id EXCEPT ![s] = i]
      /\ open' = [open EXCEPT ![s] = TRUE] /\ io' = [io EXCEPT ![s] = TRUE]
      /\ hosts' = hosts \cup {i}
      /\ groupId' = [groupId EXCEPT ![s] = Login] /\ Enqueue(Login, Enter(i))
      /\ UNCHANGED <<msgVars, listVars, pc, localVars, rushed>>
  BY <1>0 DEF Accept
<1>2. /\ i \in Id /\ i.key = keys + 1 /\ i.idx = s /\ keys \in Nat /\ keys' \in 0 .. MaxKey
      /\ \A j \in Id : j.key \in Nat /\ j.idx \in Slots
  BY <1>0, <1>1 DEF TypeOK, Id
<1>3. i \notin hosts
  BY <1>2 DEF KeyInv
<1>4. /\ \A h \in Groups : i \notin players[h] /\ ~Carries(h, i)
      /\ \A h \in Groups : \A k : ~EnterJob(h, k, i)
  BY <1>2, <1>3 DEF PlaceInv, JobPlace, CarryPlace, PlayerPlace, EnterJob
<1>5. /\ jobs' \in [Groups -> Seq(Jobs)]
      /\ \A h \in Groups, j \in Id : \A k :
           EnterJob(h, k, j)' <=> \/ EnterJob(h, k, j)
                                  \/ h = Login /\ j = i /\ k = Len(jobs[Login]) + 1
      /\ \A h \in Groups : \A k \in DOMAIN jobs'[h] :
           \/ k \in DOMAIN jobs[h] /\ jobs'[h][k] = jobs[h][k]
           \/ jobs'[h][k] = Enter(i)
  BY <1>1, <1>2, EnterQueued
<1>6. /\ \A j \in Id : Current(j)' <=> (j = i \/ (Current(j) /\ j.idx # s))
      /\ \A j \in Id : Current(j) => j.idx # s
      /\ groupId'[s] = Login /\ \A t \in Slots \ {s} : groupId'[t] = groupId[t]
  <2>1. \A j \in Id : Current(j) => j.idx # s
    BY <1>1 DEF Current
  <2>2. \A t \in Slots : id'[t] = (IF t = s THEN i ELSE id[t]) /\ open'[t] = (IF t = s THEN TRUE ELSE open[t])
    BY <1>1 DEF TypeOK
  <2>3. groupId'[s] = Login /\ \A t \in Slots \ {s} : groupId'[t] = groupId[t]
    BY <1>1 DEF TypeOK
  <2> QED BY <1>2, <2>1, <2>2, <2>3 DEF Current
<1>7. TypeOK'
  BY <1>1, <1>2, <1>5 DEF TypeOK, msgVars, listVars, localVars
<1>8. KeyInv'
  <2>1. \A t \in Slots : id'[t].key <= keys' /\ (open'[t] => id'[t] \in hosts' /\ id'[t].idx = t)
    <3>1. CASE s \in Slots
      <4>1. \A t \in Slots : id[t].key \in Nat
        BY <1>2 DEF TypeOK, NoId
      <4> QED BY <1>1, <1>2, <4>1 DEF KeyInv, TypeOK
    <3> QED BY <3>1
  <2>2. \A j \in hosts' : j.key <= keys'
    BY <1>1, <1>2 DEF KeyInv, TypeOK
  <2>3. \A g \in Groups, k \in Nat : k \in DOMAIN jobs'[g] => jobs'[g][k].id.key <= keys'
    <3>1. Enter(i).id = i
      BY DEF Enter
    <3>2. \A g \in Groups : \A k \in DOMAIN jobs[g] : jobs[g][k].id \in Id
      <4>1. \A g \in Groups : \A k \in DOMAIN jobs[g] : jobs[g][k] \in Jobs
        BY ElementOfSeq, LenProperties DEF TypeOK
      <4> QED BY <4>1 DEF Jobs
    <3> QED BY <1>1, <1>2, <1>5, <3>1, <3>2 DEF KeyInv
  <2>4. \A g \in Groups : \A k \in DOMAIN jobs'[g] : k \in Nat
    BY <1>5, LenProperties
  <2>5. \A g \in Groups : \A j \in players[g] \cup eraseList[g] : j.key <= keys'
    BY <1>1, <1>2 DEF KeyInv, TypeOK
  <2>6. UNCHANGED <<players, eraseList>>
    BY <1>1 DEF listVars
  <2> QED BY <2>1, <2>2, <2>3, <2>4, <2>5, <2>6 DEF KeyInv
<1>9. LeaveInv'
  <2> SUFFICES ASSUME NEW g \in Groups, NEW k \in DOMAIN jobs'[g], jobs'[g][k].do = "leave",
                      NEW j, j = jobs'[g][k].id
               PROVE  ~Current(j)'
    BY DEF LeaveInv
  <2>1. k \in DOMAIN jobs[g] /\ jobs'[g][k] = jobs[g][k]
    BY <1>5 DEF Enter
  <2>2. jobs[g][k].id \in Id
    <3>1. jobs[g][k] \in Jobs
      BY <2>1, ElementOfSeq, LenProperties DEF TypeOK
    <3> QED BY <3>1 DEF Jobs
  <2>3. j # i
    <3>1. j.key <= keys
      BY <2>1 DEF KeyInv
    <3> QED BY <1>2, <3>1
  <2>4. ~Current(j)
    BY <2>1 DEF LeaveInv
  <2> QED BY <1>6, <2>1, <2>2, <2>3, <2>4
<1>10. ListInv'
  BY <1>1 DEF ListInv, ListAt, Entering, listVars, localVars
<1>11. PlaceInv'
  <2>0. UNCHANGED <<players, pc, dest, cur>> /\ hosts \subseteq hosts' /\ i \in hosts'
    BY <1>1 DEF listVars, localVars
  <2>1. \A h \in Groups, j \in Id : Carries(h, j)' <=> Carries(h, j)
    BY <2>0 DEF Carries
  <2>2. \A j \in Id : Current(j)' /\ j # i => Current(j) /\ groupId'[j.idx] = groupId[j.idx]
    BY <1>2, <1>6
  <2> SUFFICES ASSUME NEW j \in Id, NEW h \in Groups
               PROVE  JobPlace(j, h)' /\ CarryPlace(j, h)' /\ PlayerPlace(j, h)'
    BY DEF PlaceInv
  <2>3. JobPlace(j, h) /\ CarryPlace(j, h) /\ PlayerPlace(j, h)
    BY DEF PlaceInv
  <2>4. JobPlace(j, h)'
    <3>1. ASSUME NEW k, EnterJob(h, k, j)'
          PROVE  /\ j \in hosts' /\ (Current(j)' => groupId'[j.idx] = h)
                 /\ \A f \in Groups :
                      /\ j \notin players'[f] /\ ~Carries(f, j)'
                      /\ \A l : EnterJob(f, l, j)' => f = h /\ l = k
      <4>1. CASE j = i
        BY <1>2, <1>4, <1>5, <1>6, <2>0, <2>1, <3>1, <4>1
      <4>2. CASE j # i
        <5>1. EnterJob(h, k, j) /\ k \in DOMAIN jobs[h]
          BY <1>5, <3>1, <4>2 DEF EnterJob
        <5>2. /\ j \in hosts /\ (Current(j) => groupId[j.idx] = h)
              /\ \A f \in Groups :
                   /\ j \notin players[f] /\ ~Carries(f, j)
                   /\ \A l \in DOMAIN jobs[f] : EnterJob(f, l, j) => f = h /\ l = k
          BY <2>3, <5>1 DEF JobPlace
        <5>3. \A f, l : EnterJob(f, l, j) => l \in DOMAIN jobs[f]
          BY DEF EnterJob
        <5> QED BY <1>5, <2>0, <2>1, <2>2, <4>2, <5>2, <5>3
      <4> QED BY <4>1, <4>2
    <3> QED BY <3>1 DEF JobPlace
  <2>5. CarryPlace(j, h)'
    BY <1>4, <2>0, <2>1, <2>2, <2>3 DEF CarryPlace
  <2>6. PlayerPlace(j, h)'
    BY <1>4, <2>0, <2>2, <2>3 DEF PlayerPlace
  <2> QED BY <2>4, <2>5, <2>6
<1>12. RushInv'
  <2> SUFFICES ASSUME NEW f \in Groups, NEW j \in eraseList[f], Current(j)', groupId'[j.idx] = f
               PROVE  j.idx \in rushed \/ (pc[f] = "move" /\ cur[f] = j)
    BY <1>1 DEF RushInv, listVars, localVars
  <2>1. j \in Id /\ j # i
    BY <1>2 DEF TypeOK, KeyInv
  <2> QED BY <1>2, <1>6, <2>1 DEF RushInv
<1>13. VisitInv'
  <2>0. UNCHANGED <<players, eraseList, cur, todo, left, pkt, msgs, pc>>
    BY <1>1 DEF listVars, localVars, msgVars
  <2> SUFFICES ASSUME NEW h \in Groups PROVE VisitAt(h)'
    BY DEF VisitInv
  <2>1. VisitAt(h)
    BY DEF VisitInv
  <2>2. pc[h] \in Visiting => Current(cur[h])' /\ groupId'[cur[h].idx] = groupId[cur[h].idx]
    BY <1>2, <1>6, <2>1, <2>0 DEF VisitAt
  <2> QED BY <2>0, <2>1, <2>2 DEF VisitAt, Visiting
<1>14. OrderInv'
  BY <1>1, OrderKept DEF msgVars, localVars
<1> QED BY <1>7, <1>8, <1>9, <1>10, <1>11, <1>12, <1>13, <1>14

(* The next job of a group is taken off its queue.                            *)
LEMMA Dequeued ==
  ASSUME TypeOK, NEW g \in Groups, NEW what, Dequeue(g, what)
  PROVE  /\ jobs' \in [Groups -> Seq(Jobs)] /\ left' \in [Groups -> Nat]
         /\ 1 \in DOMAIN jobs[g] /\ jobs[g][1] = Head(jobs[g]) /\ Head(jobs[g]).id \in Id
         /\ Head(jobs[g]) = [do |-> what, id |-> Head(jobs[g]).id]
         /\ \A h \in Groups : h # g => jobs'[h] = jobs[h] /\ left'[h] = left[h]
         /\ \A k \in DOMAIN jobs'[g] :
              k \in Nat \ {0} /\ k + 1 \in DOMAIN jobs[g] /\ jobs'[g][k] = jobs[g][k + 1]
<1>0. PICK q : q = jobs[g]
  OBVIOUS
<1>1. /\ q \in Seq(Jobs) /\ q # <<>> /\ left[g] > 0 /\ Head(q).do = what
      /\ jobs' = [jobs EXCEPT ![g] = Tail(q)] /\ left' = [left EXCEPT ![g] = @ - 1]
  BY <1>0 DEF Dequeue, TypeOK
<1>2. /\ Tail(q) \in Seq(Jobs) /\ Head(q) \in Jobs /\ Head(q) = q[1]
      /\ Len(q) \in Nat \ {0} /\ DOMAIN Tail(q) = 1 .. (Len(q) - 1) /\ 1 \in DOMAIN q
      /\ \A k \in DOMAIN Tail(q) : k + 1 \in DOMAIN q /\ Tail(q)[k] = q[k + 1]
  BY <1>1, TailAt
<1>3. /\ jobs' \in [Groups -> Seq(Jobs)] /\ left' \in [Groups -> Nat] /\ jobs'[g] = Tail(q)
      /\ \A h \in Groups : h # g => jobs'[h] = jobs[h] /\ left'[h] = left[h]
  BY <1>1, <1>2 DEF TypeOK
<1>4. Head(q).id \in Id /\ Head(q) = [do |-> what, id |-> Head(q).id]
  BY <1>1, <1>2 DEF Jobs
<1>5. \A k \in DOMAIN Tail(q) : k \in Nat \ {0}
  BY <1>2
<1> QED BY <1>0, <1>2, <1>3, <1>4, <1>5

(* Places that are not taken or given up keep their part of the invariant.     *)
LEMMA PlaceDequeued ==
  ASSUME TypeOK, PlaceInv, NEW g \in Groups,
         \A h \in Groups : h # g => jobs'[h] = jobs[h],
         \A k \in DOMAIN jobs'[g] :
           k \in Nat \ {0} /\ k + 1 \in DOMAIN jobs[g] /\ jobs'[g][k] = jobs[g][k + 1],
         UNCHANGED <<id, open, groupId, dest>>,
         NEW i \in Id,
         \A h \in Groups : Carries(h, i)' => Carries(h, i) /\ pc'[h] = pc[h],
         \A h \in Groups : i \in players'[h] => i \in players[h],
         i \in hosts => \/ i \in hosts'
                       \/ \A h \in Groups : /\ i \notin players'[h] /\ ~Carries(h, i)
                                             /\ \A k : ~EnterJob(h, k, i)
  PROVE  \A h \in Groups : JobPlace(i, h)' /\ CarryPlace(i, h)' /\ PlayerPlace(i, h)'
<1>2. \A h \in Groups : \A j, k :
        EnterJob(h, k, j)' => IF h = g THEN EnterJob(h, k + 1, j) /\ k \in Nat ELSE EnterJob(h, k, j)
  BY DEF EnterJob
<1>3. \A j : Current(j)' <=> Current(j)
  BY DEF Current
<1>4. \A f, l, j : EnterJob(f, l, j) => l \in DOMAIN jobs[f]
  BY DEF EnterJob
<1> SUFFICES ASSUME NEW h \in Groups
             PROVE  JobPlace(i, h)' /\ CarryPlace(i, h)' /\ PlayerPlace(i, h)'
  OBVIOUS
<1>5. JobPlace(i, h) /\ CarryPlace(i, h) /\ PlayerPlace(i, h)
  BY DEF PlaceInv
<1>6. JobPlace(i, h)'
  <2>1. ASSUME NEW k, EnterJob(h, k, i)'
        PROVE  /\ i \in hosts' /\ (Current(i)' => groupId'[i.idx] = h)
               /\ \A f \in Groups :
                    /\ i \notin players'[f] /\ ~Carries(f, i)'
                    /\ \A l : EnterJob(f, l, i)' => f = h /\ l = k
    <3>1. PICK m : /\ EnterJob(h, m, i) /\ m = (IF h = g THEN k + 1 ELSE k) /\ (h = g => k \in Nat)
      BY <1>2, <2>1
    <3>2. /\ i \in hosts /\ (Current(i) => groupId[i.idx] = h)
          /\ \A f \in Groups :
               /\ i \notin players[f] /\ ~Carries(f, i)
               /\ \A l : EnterJob(f, l, i) => f = h /\ l = m
      BY <1>4, <1>5, <3>1 DEF JobPlace
    <3>3. i \in hosts'
      BY <3>1, <3>2
    <3>4. ASSUME NEW f \in Groups, NEW l, EnterJob(f, l, i)' PROVE f = h /\ l = k
      <4>1. CASE f = g
        <5>1. EnterJob(f, l + 1, i) /\ l \in Nat
          BY <1>2, <3>4, <4>1
        <5>2. f = h /\ l + 1 = m
          BY <3>2, <5>1
        <5> QED BY <3>1, <4>1, <5>1, <5>2
      <4>2. CASE f # g
        BY <1>2, <3>1, <3>2, <3>4, <4>2
      <4> QED BY <4>1, <4>2
    <3> QED BY <1>3, <3>2, <3>3, <3>4
  <2> QED BY <2>1 DEF JobPlace
<1>7. CarryPlace(i, h)'
  BY <1>3, <1>5 DEF CarryPlace
<1>8. PlayerPlace(i, h)'
  BY <1>3, <1>5 DEF PlayerPlace
<1> QED BY <1>6, <1>7, <1>8

(* EnterSession: the job becomes an entering session, or nothing.             *)
LEMMA StepEnterSession ==
  ASSUME IInv, NEW g \in Groups, EnterSession(g)
  PROVE  IInv'
<1> USE GroupAssumption DEF IInv
<1>0. PICK i : i = Head(jobs[g]).id
  OBVIOUS
<1>1. /\ jobs' \in [Groups -> Seq(Jobs)] /\ left' \in [Groups -> Nat]
      /\ 1 \in DOMAIN jobs[g] /\ jobs[g][1] = Enter(i) /\ i \in Id
      /\ \A h \in Groups : h # g => jobs'[h] = jobs[h] /\ left'[h] = left[h]
      /\ \A k \in DOMAIN jobs'[g] :
           k \in Nat \ {0} /\ k + 1 \in DOMAIN jobs[g] /\ jobs'[g][k] = jobs[g][k + 1]
  <2>1. Dequeue(g, "enter")
    BY DEF EnterSession
  <2> QED BY <1>0, <2>1, Dequeued DEF Enter
<1>2. /\ pc[g] = "jobs"
      /\ IF Current(i)
         THEN /\ Step(g, "jobs", "enter")
              /\ sessionList' = [sessionList EXCEPT ![g] = @ \cup {i}]
              /\ cur' = [cur EXCEPT ![g] = i]
         ELSE Step(g, "jobs", "jobs") /\ UNCHANGED <<sessionList, cur>>
      /\ UNCHANGED <<slotVars, groupId, msgVars, hosts, eraseList, players, todo, pkt, dest, rushed>>
  BY <1>0 DEF EnterSession, Step
<1>3. /\ pc' \in [Groups -> Labels] /\ pc'[g] = (IF Current(i) THEN "enter" ELSE "jobs")
      /\ \A h \in Groups : h # g => pc'[h] = pc[h]
      /\ sessionList' \in [Groups -> SUBSET Id]
      /\ sessionList'[g] = (IF Current(i) THEN sessionList[g] \cup {i} ELSE sessionList[g])
      /\ cur' \in [Groups -> Id \cup {NoId}] /\ (Current(i) => cur'[g] = i)
      /\ \A h \in Groups : h # g => sessionList'[h] = sessionList[h] /\ cur'[h] = cur[h]
  <2>1. CASE Current(i)
    <3>1. Step(g, "jobs", "enter")
      BY <1>2, <2>1
    <3>2. /\ pc' \in [Groups -> Labels] /\ pc'[g] = "enter"
          /\ \A h \in Groups : h # g => pc'[h] = pc[h]
      BY <3>1 DEF TypeOK, Step, Labels
    <3>3. /\ sessionList' = [sessionList EXCEPT ![g] = @ \cup {i}] /\ cur' = [cur EXCEPT ![g] = i]
          /\ i \in Id /\ sessionList \in [Groups -> SUBSET Id] /\ cur \in [Groups -> Id \cup {NoId}]
      BY <1>1, <1>2, <2>1 DEF TypeOK
    <3>4. /\ sessionList' \in [Groups -> SUBSET Id] /\ sessionList'[g] = sessionList[g] \cup {i}
          /\ \A h \in Groups : h # g => sessionList'[h] = sessionList[h]
      BY <3>3
    <3>5. /\ cur' \in [Groups -> Id \cup {NoId}] /\ cur'[g] = i
          /\ \A h \in Groups : h # g => cur'[h] = cur[h]
      BY <3>3
    <3> QED BY <2>1, <3>2, <3>4, <3>5
  <2>2. CASE ~Current(i)
    <3>1. Step(g, "jobs", "jobs")
      BY <1>2, <2>2
    <3> QED BY <1>1, <1>2, <2>2, <3>1 DEF TypeOK, Step, Labels
  <2> QED BY <2>1, <2>2
<1>4. /\ i \in hosts /\ (Current(i) => groupId[i.idx] = g)
      /\ \A h \in Groups :
           /\ i \notin players[h] /\ ~Carries(h, i)
           /\ \A l : EnterJob(h, l, i) => h = g /\ l = 1
  <2>1. EnterJob(g, 1, i) /\ \A h, l : EnterJob(h, l, i) => l \in DOMAIN jobs[h]
    BY <1>1 DEF EnterJob
  <2>2. JobPlace(i, g)
    BY <1>1 DEF PlaceInv
  <2> QED BY <1>1, <2>1, <2>2 DEF JobPlace
<1>5. TypeOK'
  BY <1>1, <1>2, <1>3 DEF TypeOK, slotVars, msgVars
<1>6. \A j : Current(j)' <=> Current(j)
  BY <1>2 DEF Current, slotVars
<1>7. KeyInv' /\ LeaveInv'
  <2>1. \A h \in Groups : \A k \in DOMAIN jobs'[h] : \E l \in DOMAIN jobs[h] : jobs'[h][k] = jobs[h][l]
    BY <1>1
  <2>2. KeyInv'
    BY <1>2, <2>1 DEF KeyInv, slotVars
  <2>3. LeaveInv'
    BY <1>6, <2>1 DEF LeaveInv
  <2> QED BY <2>2, <2>3
<1>8. ListInv'
  <2>1. UNCHANGED <<players, eraseList>>
    BY <1>2
  <2>2. ListAt(g)'
    <3>1. /\ sessionList[g] = players[g] \cup eraseList[g] /\ eraseList[g] = {}
      BY <1>2 DEF ListInv, ListAt, Entering
    <3> QED BY <1>3, <2>1, <3>1 DEF ListAt, Entering
  <2>3. \A h \in Groups : h # g => ListAt(h)'
    BY <1>3, <2>1 DEF ListInv, ListAt, Entering
  <2> QED BY <2>2, <2>3 DEF ListInv
<1>9. PlaceInv'
  <2>0. UNCHANGED <<id, open, groupId, dest, hosts, players>>
    BY <1>2 DEF slotVars
  <2>1. \A h \in Groups, j \in Id : Carries(h, j)' <=> Carries(h, j) \/ (Current(i) /\ h = g /\ j = i)
    BY <1>1, <1>2, <1>3 DEF Carries
  <2>2. ASSUME NEW j \in Id, j # i
        PROVE  \A h \in Groups : JobPlace(j, h)' /\ CarryPlace(j, h)' /\ PlayerPlace(j, h)'
    <3>1. \A h \in Groups : Carries(h, j)' => Carries(h, j) /\ pc'[h] = pc[h]
      BY <1>2, <1>3, <2>1, <2>2 DEF Carries
    <3> QED BY <1>1, <2>0, <3>1, PlaceDequeued
  <2>3. \A h \in Groups : JobPlace(i, h)' /\ CarryPlace(i, h)' /\ PlayerPlace(i, h)'
    <3>1. \A h \in Groups : \A k : ~EnterJob(h, k, i)'
      <4>1. \A h \in Groups : \A k : h # g => ~EnterJob(h, k, i)'
        BY <1>1, <1>4 DEF EnterJob
      <4>2. ASSUME NEW k, EnterJob(g, k, i)' PROVE FALSE
        <5>1. k \in Nat \ {0} /\ EnterJob(g, k + 1, i)
          BY <1>1, <4>2 DEF EnterJob
        <5>2. k + 1 = 1
          BY <1>4, <5>1
        <5> QED BY <5>1, <5>2
      <4> QED BY <4>1, <4>2
    <3>2. \A h \in Groups : JobPlace(i, h)'
      BY <3>1 DEF JobPlace
    <3>3. \A h \in Groups : CarryPlace(i, h)'
      <4>1. \A h \in Groups : Carries(h, i)' => Current(i) /\ h = g
        BY <1>1, <1>4, <2>1
      <4> QED BY <1>3, <1>4, <1>6, <2>0, <4>1 DEF CarryPlace
    <3>4. \A h \in Groups : PlayerPlace(i, h)'
      BY <1>4, <2>0 DEF PlayerPlace
    <3> QED BY <3>2, <3>3, <3>4
  <2> QED BY <2>2, <2>3 DEF PlaceInv
<1>10. RushInv' /\ OrderInv'
  <2>1. \A h \in Groups : pc'[h] # pc[h] \/ cur'[h] # cur[h] => pc[h] = "jobs" /\ pc'[h] \in {"enter", "jobs"}
    BY <1>2, <1>3
  <2> QED BY <1>2, <2>1, RushKept, OrderKept DEF slotVars, msgVars
<1>11. VisitInv'
  <2>1. VisitAt(g)'
    BY <1>3 DEF VisitAt, Visiting
  <2>2. \A h \in Groups \ {g} : VisitAt(h)'
    BY <1>1, <1>2, <1>3, VisitOthers DEF slotVars, msgVars
  <2> QED BY <2>1, <2>2 DEF VisitInv
<1> QED BY <1>5, <1>7, <1>8, <1>9, <1>10, <1>11

(* OnEnter: the entering session becomes a player.                            *)
LEMMA StepOnEnter ==
  ASSUME IInv, NEW g \in Groups, OnEnter(g)
  PROVE  IInv'
<1> USE GroupAssumption DEF IInv
<1>0. PICK i : i = cur[g]
  OBVIOUS
<1>1. /\ pc[g] = "enter" /\ pc'[g] = "jobs" /\ pc' \in [Groups -> Labels]
      /\ \A h \in Groups \ {g} : pc'[h] = pc[h]
  BY Stepped DEF OnEnter, Labels
<1>2. /\ players' = [players EXCEPT ![g] = @ \cup {i}]
      /\ UNCHANGED <<slotVars, groupId, msgVars, hosts, jobs, sessionList, eraseList, localVars, rushed>>
  BY <1>0 DEF OnEnter
<1>3. /\ sessionList[g] = players[g] \cup {i} /\ eraseList[g] = {} /\ i \in Id /\ Carries(g, i)
  BY <1>0, <1>1 DEF ListInv, ListAt, Entering, TypeOK, Carries
<1>4. /\ players' \in [Groups -> SUBSET Id] /\ players'[g] = players[g] \cup {i}
      /\ \A h \in Groups \ {g} : players'[h] = players[h]
  BY <1>2, <1>3 DEF TypeOK
<1>5. /\ i \in hosts /\ (Current(i) => groupId[i.idx] = g) /\ i.key <= keys
      /\ \A h \in Groups : i \notin players[h] /\ (Carries(h, i) => h = g)
      /\ \A h \in Groups : \A k : ~EnterJob(h, k, i)
  BY <1>1, <1>3 DEF PlaceInv, CarryPlace, JobPlace, EnterJob, KeyInv
<1>6. TypeOK'
  BY <1>1, <1>2, <1>4 DEF TypeOK, slotVars, msgVars, localVars
<1>7. KeyInv' /\ LeaveInv'
  BY <1>2, <1>4, <1>5, LeaveKept DEF KeyInv, slotVars
<1>8. ListInv'
  BY <1>1, <1>2, <1>3, <1>4 DEF ListInv, ListAt, Entering, localVars
<1>9. PlaceInv'
  <2>0. UNCHANGED <<hosts, id, open, groupId, jobs, dest, cur>>
    BY <1>2 DEF slotVars, localVars
  <2>1. \A h \in Groups, j \in Id : j \in players'[h] <=> j \in players[h] \/ (h = g /\ j = i)
    BY <1>4
  <2>2. \A h \in Groups, j \in Id : Carries(h, j)' <=> Carries(h, j) /\ j # i
    BY <1>0, <1>1, <1>5, <2>0 DEF Carries
  <2>3. \A h \in Groups : \A k, j : EnterJob(h, k, j)' <=> EnterJob(h, k, j)
    BY <2>0 DEF EnterJob
  <2>4. \A j : Current(j)' <=> Current(j)
    BY <2>0 DEF Current
  <2> SUFFICES ASSUME NEW j \in Id, NEW h \in Groups
               PROVE  JobPlace(j, h)' /\ CarryPlace(j, h)' /\ PlayerPlace(j, h)'
    BY DEF PlaceInv
  <2>5. JobPlace(j, h) /\ CarryPlace(j, h) /\ PlayerPlace(j, h)
    BY DEF PlaceInv
  <2>6. JobPlace(j, h)'
    <3>1. ASSUME NEW k \in DOMAIN jobs[h], EnterJob(h, k, j)
          PROVE  /\ j \in hosts' /\ (Current(j)' => groupId'[j.idx] = h)
                 /\ \A f \in Groups :
                      /\ j \notin players'[f] /\ ~Carries(f, j)'
                      /\ \A l \in DOMAIN jobs[f] : EnterJob(f, l, j) => f = h /\ l = k
      <4>1. j # i
        BY <1>5, <3>1
      <4>2. /\ j \in hosts /\ (Current(j) => groupId[j.idx] = h)
            /\ \A f \in Groups :
                 /\ j \notin players[f] /\ ~Carries(f, j)
                 /\ \A l \in DOMAIN jobs[f] : EnterJob(f, l, j) => f = h /\ l = k
        BY <2>5, <3>1 DEF JobPlace
      <4> QED BY <2>0, <2>1, <2>2, <2>4, <4>1, <4>2
    <3> QED BY <2>0, <2>3, <3>1 DEF JobPlace
  <2>7. CarryPlace(j, h)'
    BY <1>0, <1>1, <2>0, <2>1, <2>2, <2>4, <2>5 DEF CarryPlace, Carries
  <2>8. PlayerPlace(j, h)'
    BY <1>5, <2>0, <2>1, <2>4, <2>5 DEF PlayerPlace
  <2> QED BY <2>6, <2>7, <2>8
<1>10. RushInv' /\ OrderInv'
  <2>1. \A h \in Groups : pc'[h] # pc[h] => pc[h] = "enter" /\ pc'[h] = "jobs"
    BY <1>1
  <2> QED BY <1>2, <2>1, RushKept, OrderKept DEF slotVars, msgVars, localVars
<1>11. VisitInv'
  <2>1. VisitAt(g)'
    BY <1>1 DEF VisitAt, Visiting
  <2>2. \A h \in Groups \ {g} : VisitAt(h)'
    BY <1>1, <1>2, <1>4, VisitOthers DEF slotVars, msgVars, localVars
  <2> QED BY <2>1, <2>2 DEF VisitInv
<1> QED BY <1>6, <1>7, <1>8, <1>9, <1>10, <1>11

(* LeaveSession: player and host go together.                                 *)
LEMMA StepLeaveSession ==
  ASSUME IInv, NEW g \in Groups, LeaveSession(g)
  PROVE  IInv'
<1> USE GroupAssumption DEF IInv
<1>0. PICK i : i = Head(jobs[g]).id
  OBVIOUS
<1>1. /\ jobs' \in [Groups -> Seq(Jobs)] /\ left' \in [Groups -> Nat]
      /\ 1 \in DOMAIN jobs[g] /\ jobs[g][1] = Leave(i) /\ i \in Id
      /\ \A h \in Groups : h # g => jobs'[h] = jobs[h] /\ left'[h] = left[h]
      /\ \A k \in DOMAIN jobs'[g] :
           k \in Nat \ {0} /\ k + 1 \in DOMAIN jobs[g] /\ jobs'[g][k] = jobs[g][k + 1]
  <2>1. Dequeue(g, "leave")
    BY DEF LeaveSession
  <2> QED BY <1>0, <2>1, Dequeued DEF Leave
<1>2. /\ pc[g] = "jobs" /\ pc' = pc
      /\ sessionList' = [sessionList EXCEPT ![g] = @ \ {i}]
      /\ IF i \in sessionList[g] THEN /\ players' = [players EXCEPT ![g] = @ \ {i}]
                                     /\ hosts' = hosts \ {i}
                                ELSE UNCHANGED <<players, hosts>>
      /\ UNCHANGED <<slotVars, groupId, msgVars, eraseList, cur, todo, pkt, dest, rushed>>
  BY <1>0 DEF LeaveSession, Step, Listed, TypeOK
<1>3. sessionList[g] = players[g] /\ eraseList[g] = {}
  BY <1>2 DEF ListInv, ListAt, Entering
<1>4. /\ sessionList' \in [Groups -> SUBSET Id] /\ sessionList'[g] = players[g] \ {i}
      /\ players' \in [Groups -> SUBSET Id] /\ players'[g] = players[g] \ {i}
      /\ \A h \in Groups : h # g => sessionList'[h] = sessionList[h] /\ players'[h] = players[h]
  BY <1>2, <1>3 DEF TypeOK
<1>5. hosts' \subseteq hosts /\ \A j : j \in hosts /\ j \notin hosts' => j = i /\ i \in players[g]
  BY <1>2, <1>3
<1>6. ~Current(i)
  BY <1>1 DEF LeaveInv, Leave
<1>7. \A j : Current(j)' <=> Current(j)
  BY <1>2 DEF Current, slotVars
<1>8. TypeOK'
  BY <1>1, <1>2, <1>4, <1>5 DEF TypeOK, slotVars, msgVars
<1>9. KeyInv'
  <2>1. \A h \in Groups : \A k \in DOMAIN jobs'[h] : \E l \in DOMAIN jobs[h] : jobs'[h][k] = jobs[h][l]
    BY <1>1
  <2>2. \A s \in Slots : open[s] => Current(id[s])
    BY DEF KeyInv, Current
  <2>3. UNCHANGED <<keys, id, open, eraseList>>
    BY <1>2 DEF slotVars
  <2>4. \A h \in Groups : players'[h] \subseteq players[h]
    BY <1>4
  <2> QED BY <1>5, <1>6, <2>1, <2>2, <2>3, <2>4 DEF KeyInv
<1>10. LeaveInv'
  <2>1. \A h \in Groups : \A k \in DOMAIN jobs'[h] : \E l \in DOMAIN jobs[h] : jobs'[h][k] = jobs[h][l]
    BY <1>1
  <2> QED BY <1>7, <2>1 DEF LeaveInv
<1>11. ListInv'
  BY <1>2, <1>3, <1>4 DEF ListInv, ListAt, Entering
<1>12. PlaceInv'
  <2>0. UNCHANGED <<id, open, groupId, dest, pc, cur>>
    BY <1>2 DEF slotVars
  <2>1. \A h \in Groups, j \in Id : Carries(h, j)' => Carries(h, j) /\ pc'[h] = pc[h]
    BY <2>0 DEF Carries
  <2>2. \A h \in Groups : players'[h] \subseteq players[h]
    BY <1>4
  <2>3. i \in players[g] =>
          \A h \in Groups : /\ i \notin players'[h] /\ ~Carries(h, i) /\ \A k : ~EnterJob(h, k, i)
    BY <1>1, <1>4, <2>2 DEF PlaceInv, JobPlace, CarryPlace, PlayerPlace, EnterJob
  <2>4. ASSUME NEW j \in Id
        PROVE  \A h \in Groups : JobPlace(j, h)' /\ CarryPlace(j, h)' /\ PlayerPlace(j, h)'
    <3>1. j \in hosts => \/ j \in hosts'
                        \/ \A h \in Groups : /\ j \notin players'[h] /\ ~Carries(h, j)
                                              /\ \A k : ~EnterJob(h, k, j)
      BY <1>5, <2>3
    <3>2. /\ \A h \in Groups : Carries(h, j)' => Carries(h, j) /\ pc'[h] = pc[h]
          /\ \A h \in Groups : j \in players'[h] => j \in players[h]
      BY <2>1, <2>2
    <3>3. /\ \A h \in Groups : h # g => jobs'[h] = jobs[h]
          /\ \A k \in DOMAIN jobs'[g] :
               k \in Nat \ {0} /\ k + 1 \in DOMAIN jobs[g] /\ jobs'[g][k] = jobs[g][k + 1]
      BY <1>1
    <3>4. TypeOK /\ PlaceInv /\ UNCHANGED <<id, open, groupId, dest>>
      BY <2>0
    <3> HIDE DEF IInv
    <3> QED BY <3>1, <3>2, <3>3, <3>4, PlaceDequeued
  <2> QED BY <2>4 DEF PlaceInv
<1>13. RushInv' /\ OrderInv'
  BY <1>2, RushKept, OrderKept DEF slotVars, msgVars
<1>14. VisitInv'
  <2>1. VisitAt(g)'
    BY <1>2 DEF VisitAt, Visiting
  <2>2. \A h \in Groups \ {g} : VisitAt(h)'
    BY <1>1, <1>2, <1>4, VisitOthers DEF slotVars, msgVars
  <2> QED BY <2>1, <2>2 DEF VisitInv
<1> QED BY <1>8, <1>9, <1>10, <1>11, <1>12, <1>13, <1>14

-----------------------------------------------------------------------------
(* The theorems.                                                             *)

(* Every step of the server keeps the inductive invariant.                    *)
LEMMA StepIInv == IInv /\ [Next]_vars => IInv'
<1> SUFFICES ASSUME IInv, [Next]_vars PROVE IInv'
  OBVIOUS
<1>1. ASSUME NEW s \in Slots, Accept(s) \/ Receive(s) \/ StopReceiving(s) \/ Close(s) PROVE IInv'
  BY <1>1, StepAccept, StepReceive, StepStopReceiving, StepClose
<1>2. ASSUME NEW g \in Groups, Frame(g) PROVE IInv'
  BY <1>2, StepStartFrame, StepEnterSession, StepOnEnter, StepLeaveSession, StepStartPackets,
     StepVisit, StepCheck, StepPop, StepOnRecv, StepMoveGroup, StepMoveExchange, StepMoveEnqueue,
     StepPostRelease, StepEndFrame DEF Frame
<1>3. CASE UNCHANGED vars
  BY <1>3, StepStutter
<1> QED BY <1>1, <1>2, <1>3 DEF Next

(* However many groups, sessions and packets there are, the server's frames   *)
(* keep the inductive invariant.                                              *)
THEOREM Inductive == Spec => []IInv
BY InitIInv, StepIInv, PTL DEF Spec

(* Every variable has its type (GroupBase.cpp): no count of jobs or packets   *)
(* runs below zero.                                                           *)
THEOREM Types == Spec => []TypeOK
<1>1. IInv => TypeOK
  BY DEF IInv
<1> QED BY <1>1, Inductive, PTL

(* OnLeave, OnDisconnect, OnEnter and the handlers find the player and the    *)
(* host they look for (GameGroupBase.cpp 205, GameServer.cpp 40), however     *)
(* moves and closings interleave.                                             *)
THEOREM HandlersFind == Spec => []HandlersFindPlayer
<1>1. IInv => HandlersFindPlayer
  <2> SUFFICES ASSUME IInv, NEW g \in Groups
               PROVE  /\ pc[g] = "jobs" /\ left[g] > 0 /\ Head(jobs[g]).do = "leave" /\ Listed(g) =>
                            Head(jobs[g]).id \in players[g] \cap hosts
                      /\ pc[g] \in {"enter"} \cup Visiting => cur[g] \in hosts
    BY DEF HandlersFindPlayer
  <2> USE DEF IInv
  <2>1. ASSUME pc[g] = "jobs", Listed(g) PROVE Head(jobs[g]).id \in players[g] \cap hosts
    <3>1. Head(jobs[g]).id \in players[g] /\ players[g] \subseteq Id
      BY <2>1 DEF Listed, ListInv, ListAt, Entering, TypeOK
    <3> QED BY <3>1 DEF PlaceInv, PlayerPlace
  <2>2. ASSUME pc[g] = "enter" PROVE cur[g] \in hosts
    <3>1. Carries(g, cur[g]) /\ cur[g] \in Id
      BY <2>2 DEF Carries, ListInv, ListAt, Entering, TypeOK
    <3> QED BY <3>1 DEF PlaceInv, CarryPlace
  <2>3. ASSUME pc[g] \in Visiting PROVE cur[g] \in hosts
    <3>1. Current(cur[g]) /\ cur[g].idx \in Slots
      BY <2>3 DEF VisitInv, VisitAt, Id
    <3> QED BY <3>1 DEF KeyInv, Current
  <2> QED BY <2>1, <2>2, <2>3
<1> QED BY <1>1, Inductive, PTL

(* MoveGroup (GroupBase.cpp 30-46) leaves no session a player of two groups.  *)
THEOREM OneGroup == Spec => []OneGroupAtATime
<1>1. IInv => OneGroupAtATime
  BY DEF IInv, TypeOK, PlaceInv, PlayerPlace, OneGroupAtATime
<1> QED BY <1>1, Inductive, PTL

(* The packets of a slot are handled in order, none lost and none twice       *)
(* (GroupBase.cpp 121-142), unless a session came back to a group too soon.   *)
THEOREM Handled == Spec => []HandledInOrder
<1>1. IInv => HandledInOrder
  BY DEF IInv, OrderInv, DoneInOrder, HandledInOrder
<1> QED BY <1>1, Inductive, PTL

(* process_packet pops no more than there is (GroupBase.cpp 137, where the    *)
(* result is not looked at), unless a session came back to a group too soon.  *)
THEOREM PopFinds == Spec => []PopFindsPacketUnlessRushed
<1>1. IInv => PopFindsPacketUnlessRushed
  <2> SUFFICES ASSUME IInv, NEW g \in Groups, pc[g] = "pop", cur[g].idx \notin rushed
               PROVE  msgs[cur[g].idx] # <<>>
    BY DEF PopFindsPacketUnlessRushed
  <2>1. cur[g] \in players[g]
    BY PlayerUnlessRushed
  <2>2. left[g] > 0 /\ left[g] <= Len(msgs[cur[g].idx]) /\ left[g] \in Nat
    BY <2>1 DEF IInv, VisitInv, VisitAt, Visiting, TypeOK
  <2> QED BY <2>2, EmptySeq
<1> QED BY <1>1, Inductive, PTL
=============================================================================

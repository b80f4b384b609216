----------------------------- MODULE QueueProofs -----------------------------
(***************************************************************************)
(* Theorems about the two queues that carry a session's packets: the          *)
(* lock-free queue of elements, for any number of pushers and of calls as    *)
(* long as no tag is used twice, and the ring of bytes received, for rings,  *)
(* packets and sessions of any number and size.                              *)
(*                                                                         *)
(* The lock-free queue.  Nodes are in lists that hang together by their next *)
(* pointers: the queue, and behind each node that a pusher has in hand what   *)
(* others linked to it.  The invariant says of ghosts, quantified in IInv,   *)
(* where each node is: A are the listed nodes, own and pos their list and    *)
(* place, st the tags they were filled with, F and ft the free nodes and the *)
(* tags they were freed with.                                                *)
(*                                                                         *)
(* The ring.  Its arithmetic is in Moved: the lemmas MovedIs and MovedTwice   *)
(* say where it leads, ReadIs and PostedIs that the two pieces Read and       *)
(* RecvPost work in are the cells from front and from rear on.               *)
(***************************************************************************)
EXTENDS LockFreeQueue, RecvBuffer, FiniteSetTheorems, SequenceTheorems,
        WellFoundedInduction, TLAPS

-----------------------------------------------------------------------------
(* The labels of pushers and of the popper.                                  *)
Alloc == {"allocRead", "allocCas"}
Fill == Alloc \cup {"init"}
Held == {"readTail", "readNext", "help", "link"}
Linking == {"swing", "count"}
Pending == Fill \cup Held \cup Linking
PushLabels == {"idle"} \cup Fill \cup Held \cup Linking
Freeing == {"freeRead", "freeCas", "freeAgain"}
PopLabels == {"idle", "popRead", "popNext", "popHelp", "popCas", "uncount"} \cup Freeing

(* What is said of each variable and thread alone.                           *)
PcInv ==
  /\ TypeOK
  /\ Len(pushed) <= MaxPush
  /\ pc[Popper] \in PopLabels
  /\ \A t \in Pushers :
       /\ pc[t] \in PushLabels
       /\ pc[t] = "idle" => value[t] = NoValue
       /\ pc[t] # "idle" => /\ value[t] \in DOMAIN pushed /\ pushed[value[t]] = t
                            /\ \A v \in DOMAIN pushed : pushed[v] = t => v <= value[t]

(* The counters: elements whose call is past some labels.                    *)
Before(L) == {value[t] : t \in {u \in Pushers : pc[u] \in L}}
Past(L) == DOMAIN pushed \ Before(L)
CountInv ==
  /\ fresh <= 1 + Cardinality(Past(Alloc))
  /\ queueId = Cardinality(Past(Fill))
  /\ size = Cardinality(Past(Pending)) - Len(popped)
            + (IF pc[Popper] \in Freeing \cup {"uncount"} THEN 1 ELSE 0)
  /\ poolId = Len(popped) - (IF pc[Popper] = "freeRead" THEN 1 ELSE 0)
  /\ pc[Popper] # "idle" => size > 0

(* The pool: F are the free nodes, ft the tags they were freed with.  Each   *)
(* pointer of the free list is to the youngest of those below.               *)
Youngest(x, G, ft) ==
  \/ G = {} /\ x = Null
  \/ /\ x.at \in G /\ x = [at |-> x.at, tag |-> ft[x.at]]
     /\ \A m \in G : ft[m] <= ft[x.at]
PoolInv(F, ft) ==
  /\ Youngest(top, F, ft)
  /\ \A n \in F : Youngest(below[n], {m \in F : ft[m] < ft[n]}, ft)
  /\ \A m, n \in F : ft[m] = ft[n] => m = n
  /\ \A n \in F : ft[n] <= poolId
  /\ pc[Popper] \in {"freeCas", "freeAgain"} =>
       /\ r[Popper] = [at |-> node[Popper], tag |-> poolId]
       /\ \A n \in F : ft[n] < poolId
  /\ pc[Popper] = "freeCas" => below[node[Popper]] = p[Popper]
  /\ \A t \in Pushers : pc[t] = "allocCas" =>
       /\ p[t] # Null /\ p[t].tag <= poolId
       /\ pc[Popper] \in {"freeCas", "freeAgain"} => p[t].tag < poolId
       /\ (p[t].at \in F /\ ft[p[t].at] = p[t].tag) => below[p[t].at] = q[t]

(* The lists.  Of the nodes in A, n is in the list own[n], at pos[n]: the     *)
(* popper's list is the queue, a pusher's hangs behind the node it has in    *)
(* hand.  st are the tags the nodes were filled with; a pointer to a node in *)
(* a list has that tag.                                                      *)
To(n, st) == [at |-> n, tag |-> st[n]]
Root(t) == IF t = Popper THEN head.at ELSE node[t]
ListInv(A, own, pos, st) ==
  /\ head = To(head.at, st)
  /\ \A t \in Threads : t = Popper \/ InHand(t) =>
       /\ Root(t) \in A /\ own[Root(t)] = t
       /\ \A n \in A : own[n] = t => pos[Root(t)] <= pos[n]
  /\ \A t \in Pushers : InHand(t) => r[t] = To(node[t], st)
  /\ \A n \in A : own[n] \in Pushers => InHand(own[n]) /\ st[n] <= st[node[own[n]]]
  /\ \A n \in A :
       \/ next[n] = Null /\ \A m \in A : own[m] = own[n] => pos[m] <= pos[n]
       \/ /\ next[n] = To(next[n].at, st) /\ next[n].at \in A
          /\ own[next[n].at] = own[n] /\ pos[next[n].at] = pos[n] + 1
  /\ \A m, n \in A : own[m] = own[n] /\ pos[m] = pos[n] => m = n
  /\ \A n \in Nodes \ A : st[n] >= 0 => next[n] # Null
  /\ \A n \in A : st[n] >= 0
  /\ \A n \in Nodes : st[n] <= queueId

(* A node is in one place.                                                   *)
Filling(t) == pc[t] = "init" \/ (t = Popper /\ pc[t] \in Freeing)
OwnInv(A, F) ==
  /\ \A n \in Nodes : n > fresh => n \notin F /\ n \notin A
  /\ F \cap A = {}
  /\ \A t \in Threads : Filling(t) => node[t] \in (1 .. fresh) \ (F \cup A)
  /\ \A t, u \in Threads : Filling(t) /\ Filling(u) /\ node[u] = node[t] => u = t

(* What the pointers that a thread has read are good for.                    *)
Watch(t, A, own, st) ==
  /\ pc[t] \in {"readNext", "help", "link", "swing"} =>
       p[t].at \in Nodes /\ p[t].tag <= st[p[t].at]
  /\ pc[t] \in {"readNext", "help", "link"} =>
       \/ st[p[t].at] = p[t].tag /\ ~(p[t].at \in A /\ own[p[t].at] \in Pushers)
       \/ st[p[t].at] > st[node[t]]
  /\ pc[t] = "help" => q[t] # Null /\ (st[p[t].at] = p[t].tag => next[p[t].at] = q[t])
  /\ pc[t] = "swing" => r[t] # Null /\ (st[p[t].at] = p[t].tag => next[p[t].at] = r[t])
PopWatch ==
  /\ pc[Popper] \in {"popNext", "popHelp", "popCas"} => r[Popper] = head
  /\ pc[Popper] = "popNext" /\ r[Popper] # p[Popper] => tail.at # head.at
  /\ pc[Popper] = "popHelp" => p[Popper] = head
  /\ pc[Popper] \in {"popHelp", "popCas"} => q[Popper] = next[head.at] /\ q[Popper] # Null
  /\ pc[Popper] = "popCas" => tail.at # head.at /\ value[Popper] = data[q[Popper].at]
WatchInv(A, own, st) ==
  /\ tail.at \in A /\ own[tail.at] = Popper /\ tail = To(tail.at, st)
  /\ PopWatch
  /\ \A t \in Pushers : Watch(t, A, own, st)

(* The elements: those in the lists and those popped are all that were       *)
(* filled, each once.  An earlier and a later element of the queue are apart. *)
Live(n, A) == n \in A /\ n # head.at
Queued(n, A, own) == Live(n, A) /\ own[n] = Popper
Apart(v, w) == v # w /\ (v < w \/ pushed[v] # pushed[w] \/ v \in displaced \/ w \in displaced)
DataInv(A, own) ==
  /\ \A t \in Pushers : InHand(t) => data[node[t]] = value[t]
  /\ \A n \in A : own[n] \in Pushers /\ n # node[own[n]] => data[n] \in displaced
  /\ \A n \in A : Live(n, A) => data[n] \in Past(Fill)
  /\ \A m, n \in A : Live(m, A) /\ Live(n, A) /\ data[m] = data[n] => m = n
  /\ \A v \in Past(Fill) : (\E i \in 1 .. Len(popped) : popped[i] = v)
                           \/ (\E n \in A : Live(n, A) /\ data[n] = v)
  /\ \A i \in 1 .. Len(popped) : popped[i] \in Past(Fill)
  /\ \A i \in 1 .. Len(popped), n \in A : Live(n, A) => popped[i] # data[n]
OrderInv(A, own, pos) ==
  /\ \A i, j \in 1 .. Len(popped) : i < j => Apart(popped[i], popped[j])
  /\ \A i \in 1 .. Len(popped), n \in A : Queued(n, A, own) => Apart(popped[i], data[n])
  /\ \A m, n \in A : Queued(m, A, own) /\ Queued(n, A, own) /\ pos[m] < pos[n] =>
                       Apart(data[m], data[n])

Ghosts(A, own, pos, st, F, ft) ==
  /\ A \subseteq Nodes /\ own \in [Nodes -> Threads] /\ pos \in [Nodes -> Int]
  /\ st \in [Nodes -> Int] /\ F \subseteq Nodes /\ ft \in [Nodes -> Nat]
Inv(A, own, pos, st, F, ft) ==
  /\ Ghosts(A, own, pos, st, F, ft)
  /\ PcInv /\ CountInv /\ PoolInv(F, ft) /\ ListInv(A, own, pos, st) /\ OwnInv(A, F)
  /\ WatchInv(A, own, st) /\ DataInv(A, own) /\ OrderInv(A, own, pos)
IInv == \E A, own, pos, st, F, ft : Inv(A, own, pos, st, F, ft)
-----------------------------------------------------------------------------
(* The threads: pushers and the one that pops.                             *)
LEMMA ThreadFacts ==
  /\ Popper \in Threads /\ Popper \notin Pushers
  /\ Pushers \subseteq Threads
  /\ \A t \in Threads : t \in Pushers \/ t = Popper
  /\ MaxPush \in Nat /\ TagMod \in Nat /\ TagMod > 0
BY QueueAssumption DEF Threads

(* The types of the variables, one by one.                                 *)
LEMMA TypeFacts ==
  ASSUME PcInv
  PROVE  /\ head \in Pointers /\ tail \in Pointers /\ top \in Pointers
         /\ queueId \in Nat /\ poolId \in Nat /\ size \in Nat
         /\ next \in [Nodes -> Pointers] /\ below \in [Nodes -> Pointers]
         /\ fresh \in Nodes
         /\ data \in [Nodes -> 0 .. MaxPush] /\ value \in [Threads -> 0 .. MaxPush]
         /\ pc \in [Threads -> Labels] /\ node \in [Threads -> Nodes \cup {0}]
         /\ p \in [Threads -> Pointers] /\ q \in [Threads -> Pointers]
         /\ r \in [Threads -> Pointers]
         /\ pushed \in Seq(Pushers) /\ popped \in Seq(1 .. MaxPush)
         /\ displaced \subseteq 1 .. MaxPush
BY DEF PcInv, TypeOK

(* A pointer is null or a node with a tag.                                 *)
LEMMA PointerFacts ==
  /\ Null \in Pointers
  /\ \A x \in Pointers : /\ x = [at |-> x.at, tag |-> x.tag]
                         /\ x = Null \/ (x.at \in Nodes /\ x.tag \in 0 .. TagMod - 1)
                         /\ x.at \in Nat /\ x.tag \in Nat
  /\ \A n \in Nodes, i \in Nat : Tagged(n, i) \in Pointers
  /\ \A n \in Nodes : n \in Nat \ {0}
<1>1. MaxPush \in Nat /\ TagMod \in Nat /\ TagMod > 0
  BY ThreadFacts
<1>2. \A i \in Nat : i % TagMod \in 0 .. TagMod - 1
  BY <1>1
<1>3. \A n \in Nodes, i \in Nat : Tagged(n, i) \in Pointers
  BY <1>2 DEF Tagged, Pointers
<1> QED BY <1>1, <1>3 DEF Pointers, Null, Nodes

(* As long as tags are not used twice, a tag is the number it was made of. *)
LEMMA Untagged ==
  ASSUME MaxPush < TagMod, NEW n, NEW i \in 0 .. MaxPush
  PROVE  Tagged(n, i) = [at |-> n, tag |-> i]
<1>1. i % TagMod = i
  BY ThreadFacts
<1> QED BY <1>1 DEF Tagged
-----------------------------------------------------------------------------
(* 1 .. k has k members.                                                   *)
LEMMA IntervalCard ==
  ASSUME NEW k \in Nat
  PROVE  IsFiniteSet(1 .. k) /\ Cardinality(1 .. k) = k
<1>1. 1 \in Int /\ k \in Int
  OBVIOUS
<1>2. /\ IsFiniteSet(1 .. k)
      /\ Cardinality(1 .. k) = IF 1 > k THEN 0 ELSE k - 1 + 1
  BY ONLY <1>1, FS_Interval
<1> QED BY <1>2

(* The elements past some labels are finitely many, and were pushed.       *)
LEMMA PastFacts ==
  ASSUME PcInv, NEW L
  PROVE  /\ IsFiniteSet(Past(L)) /\ Cardinality(Past(L)) \in Nat
         /\ Past(L) \subseteq DOMAIN pushed /\ Cardinality(Past(L)) <= Len(pushed)
         /\ DOMAIN pushed = 1 .. Len(pushed) /\ Len(pushed) \in Nat
<1>1. DOMAIN pushed = 1 .. Len(pushed) /\ Len(pushed) \in Nat
  BY TypeFacts DEF PcInv
<1>2. IsFiniteSet(DOMAIN pushed) /\ Cardinality(DOMAIN pushed) = Len(pushed)
  BY <1>1, IntervalCard
<1>3. Past(L) \subseteq DOMAIN pushed
  BY DEF Past
<1> QED BY <1>1, <1>2, <1>3, FS_Subset, FS_CardinalityType

(* A pusher that leaves some labels brings its element past them, one      *)
(* more.                                                                   *)
LEMMA PastLeave ==
  ASSUME PcInv, NEW t \in Pushers, NEW L, NEW x, pc[t] \in L, "idle" \notin L,
         pc' = [pc EXCEPT ![t] = x], x \notin L, pushed' = pushed,
         \A u \in Pushers : u # t => value'[u] = value[u]
  PROVE  /\ Past(L)' = Past(L) \cup {value[t]} /\ value[t] \notin Past(L)
         /\ value[t] \in DOMAIN pushed
         /\ Cardinality(Past(L)') = Cardinality(Past(L)) + 1
         /\ Cardinality(Past(L)') <= Len(pushed)
<1>0. pc \in [Threads -> Labels] /\ Pushers \subseteq Threads
  BY TypeFacts, ThreadFacts DEF PcInv
<1>1. value[t] \in DOMAIN pushed /\ pushed[value[t]] = t
  BY DEF PcInv
<1>2. \A u \in Pushers : u # t /\ pc[u] \in L => value[u] # value[t]
  BY <1>1 DEF PcInv
<1>3. Before(L)' = Before(L) \ {value[t]}
  BY <1>0, <1>2 DEF Before
<1>4. value[t] \in Before(L)
  BY DEF Before
<1>5. Past(L)' = Past(L) \cup {value[t]} /\ value[t] \notin Past(L)
  BY <1>1, <1>3, <1>4 DEF Past
<1>6. Cardinality(Past(L) \cup {value[t]}) = Cardinality(Past(L)) + 1
  BY <1>5, PastFacts, FS_AddElement
<1>7. /\ Past(L) \cup {value[t]} \subseteq DOMAIN pushed
      /\ IsFiniteSet(DOMAIN pushed) /\ Cardinality(DOMAIN pushed) = Len(pushed)
  BY <1>1, PastFacts, IntervalCard
<1> QED BY <1>1, <1>5, <1>6, <1>7, FS_Subset

(* When no pusher enters or leaves some labels, what is past them stays.   *)
LEMMA PastStay ==
  ASSUME NEW L, pushed' = pushed,
         \A u \in Pushers : pc'[u] \in L <=> pc[u] \in L,
         \A u \in Pushers : pc[u] \in L => value'[u] = value[u]
  PROVE  Past(L)' = Past(L)
<1>1. Before(L)' = Before(L)
  BY DEF Before
<1> QED BY <1>1 DEF Past

(* A sequence without repetitions has as many elements as its length.      *)
LEMMA SeqCard ==
  ASSUME NEW S, NEW s \in Seq(S), \A i, j \in 1 .. Len(s) : i < j => s[i] # s[j]
  PROVE  IsFiniteSet(Elements(s)) /\ Cardinality(Elements(s)) = Len(s)
<1>1. Len(s) \in Nat /\ DOMAIN s = 1 .. Len(s)
  OBVIOUS
<1>2. IsFiniteSet(1 .. Len(s)) /\ Cardinality(1 .. Len(s)) = Len(s)
  BY <1>1, IntervalCard
<1>3. \A i, j \in 1 .. Len(s) : s[i] = s[j] => i = j
  BY <1>1
<1>4. [i \in 1 .. Len(s) |-> s[i]] \in Bijection(1 .. Len(s), Elements(s))
  BY <1>1, <1>3 DEF Bijection, Injection, Surjection, IsInjective, Elements
<1>5. ExistsBijection(1 .. Len(s), Elements(s))
  BY <1>4 DEF ExistsBijection
<1> QED BY ONLY <1>2, <1>5, FS_Bijection

(* What was popped are Len(popped) elements of the filled ones.            *)
LEMMA PoppedCount ==
  ASSUME PcInv, NEW A, NEW own, NEW pos, DataInv(A, own), OrderInv(A, own, pos)
  PROVE  /\ Elements(popped) \subseteq Past(Fill)
         /\ Cardinality(Elements(popped)) = Len(popped)
         /\ Len(popped) <= Cardinality(Past(Fill)) /\ Len(popped) \in Nat
<1>1. popped \in Seq(1 .. MaxPush) /\ Len(popped) \in Nat /\ DOMAIN popped = 1 .. Len(popped)
  BY TypeFacts DEF PcInv
<1>2. \A i, j \in 1 .. Len(popped) : i < j => popped[i] # popped[j]
  BY DEF OrderInv, Apart
<1>3. Cardinality(Elements(popped)) = Len(popped)
  BY <1>1, <1>2, SeqCard
<1>4. Elements(popped) \subseteq Past(Fill)
  BY <1>1 DEF DataInv, Elements
<1>5. Cardinality(Elements(popped)) <= Cardinality(Past(Fill))
  BY <1>4, PastFacts, FS_Subset
<1> QED BY <1>1, <1>3, <1>4, <1>5
-----------------------------------------------------------------------------
(* PcInv stays when one thread goes on with its call.                      *)
LEMMA PcRest ==
  ASSUME PcInv, TypeOK', NEW t \in Threads, NEW x,
         pc' = [pc EXCEPT ![t] = x], pushed' = pushed,
         \A u \in Pushers : value'[u] = value[u],
         t \in Pushers => x \in PushLabels \ {"idle"} /\ pc[t] # "idle",
         t = Popper => x \in PopLabels
  PROVE  PcInv'
<1>1. pc \in [Threads -> Labels] /\ Pushers \subseteq Threads /\ Popper \in Threads
      /\ Popper \notin Pushers
  BY TypeFacts, ThreadFacts DEF PcInv
<1>2. pc'[Popper] \in PopLabels
  BY <1>1, ThreadFacts DEF PcInv
<1>3. ASSUME NEW u \in Pushers
      PROVE  pc'[u] \in PushLabels /\ (pc'[u] = "idle" <=> pc[u] = "idle")
  BY <1>1, <1>3 DEF PcInv
<1> QED BY <1>2, <1>3 DEF PcInv

(* CallPush preserves PcInv: the value is the pusher's last.               *)
LEMMA PcCallPush ==
  ASSUME PcInv, NEW t \in Pushers, CallPush(t)
  PROVE  PcInv'
<1>1. TypeOK'
  <2>1. pushed' \in Seq(Pushers) /\ Len(pushed') = Len(pushed) + 1 /\ Len(pushed) \in Nat
    BY TypeFacts DEF PcInv, CallPush
  <2>2. value' \in [Threads -> 0 .. MaxPush]
    BY <2>1, TypeFacts, ThreadFacts DEF PcInv, CallPush
  <2>3. pc' \in [Threads -> Labels]
    BY TypeFacts, ThreadFacts DEF PcInv, CallPush, Step, Labels
  <2> QED BY <2>1, <2>2, <2>3 DEF PcInv, CallPush, TypeOK, queueVars, poolVars
<1>2. /\ pushed \in Seq(Pushers) /\ pushed' = Append(pushed, t)
      /\ value' = [value EXCEPT ![t] = Len(pushed) + 1]
      /\ pc' = [pc EXCEPT ![t] = "allocRead"] /\ pc[t] = "idle"
      /\ value \in [Threads -> 0 .. MaxPush] /\ pc \in [Threads -> Labels]
  BY TypeFacts DEF PcInv, CallPush, Step
<1>3. /\ DOMAIN pushed = 1 .. Len(pushed) /\ DOMAIN pushed' = 1 .. (Len(pushed) + 1)
      /\ Len(pushed) \in Nat /\ Len(pushed') = Len(pushed) + 1
      /\ \A i \in 1 .. Len(pushed) : pushed'[i] = pushed[i]
      /\ pushed'[Len(pushed) + 1] = t
  BY <1>2
<1>4. pc'[Popper] \in PopLabels
  BY <1>2, ThreadFacts DEF PcInv
<1>5. Len(pushed') <= MaxPush
  BY <1>3, ThreadFacts DEF CallPush
<1>6. ASSUME NEW u \in Pushers
      PROVE  /\ pc'[u] \in PushLabels
             /\ pc'[u] = "idle" => value'[u] = NoValue
             /\ pc'[u] # "idle" => /\ value'[u] \in DOMAIN pushed' /\ pushed'[value'[u]] = u
                                   /\ \A v \in DOMAIN pushed' : pushed'[v] = u => v <= value'[u]
  <2>1. CASE u = t
    BY <1>2, <1>3, <2>1, ThreadFacts DEF PushLabels, Fill, Alloc
  <2>2. CASE u # t
    <3>1. pc'[u] = pc[u] /\ value'[u] = value[u]
      BY <1>2, <2>2, ThreadFacts
    <3> QED BY <1>3, <2>2, <3>1 DEF PcInv
  <2> QED BY <2>1, <2>2
<1> QED BY <1>1, <1>4, <1>5, <1>6 DEF PcInv

(* AllocRead preserves PcInv: there is a node left to allocate, since one  *)
(* is taken for each call.                                                 *)
LEMMA PcAllocRead ==
  ASSUME PcInv, CountInv, NEW t \in Pushers, AllocRead(t)
  PROVE  PcInv'
<1>1. CASE top = Null
  <2>1. /\ pc' = [pc EXCEPT ![t] = "init"] /\ pc[t] = "allocRead" /\ pushed' = pushed
        /\ value' = value /\ fresh' = fresh + 1 /\ node' = [node EXCEPT ![t] = fresh']
        /\ UNCHANGED <<p, q>>
    BY <1>1 DEF AllocRead, Step, history
  <2>a. "idle" \notin Alloc /\ "init" \notin Alloc /\ "allocRead" \in Alloc
    BY DEF Alloc
  <2>b. /\ Cardinality(Past(Alloc)') = Cardinality(Past(Alloc)) + 1
        /\ Cardinality(Past(Alloc)') <= Len(pushed)
    BY <2>1, <2>a, PastLeave
  <2>2. Cardinality(Past(Alloc)) + 1 <= Len(pushed)
    BY <2>b
  <2>c. fresh <= 1 + Cardinality(Past(Alloc)) /\ Len(pushed) <= MaxPush
    BY DEF CountInv, PcInv
  <2>d. fresh \in Nat /\ fresh \in Nodes /\ MaxPush \in Nat
    BY TypeFacts, ThreadFacts, PointerFacts DEF PcInv
  <2>e. Cardinality(Past(Alloc)) \in Nat /\ Len(pushed) \in Nat
    BY PastFacts
  <2>3. fresh' \in Nodes
    BY <2>1, <2>2, <2>c, <2>d, <2>e DEF Nodes
  <2>4. node' \in [Threads -> Nodes \cup {0}] /\ pc' \in [Threads -> Labels]
    BY <2>1, <2>3, TypeFacts DEF PcInv, Labels
  <2>5. TypeOK'
    BY <2>1, <2>3, <2>4 DEF PcInv, TypeOK, AllocRead, queueVars, history
  <2> QED BY <2>1, <2>5, PcRest, ThreadFacts DEF PushLabels, Fill
<1>2. CASE top # Null
  <2>1. /\ pc' = [pc EXCEPT ![t] = "allocCas"] /\ pc[t] = "allocRead" /\ pushed' = pushed
        /\ value' = value /\ p' = [p EXCEPT ![t] = top] /\ q' = [q EXCEPT ![t] = below[top.at]]
        /\ UNCHANGED <<fresh, node>>
    BY <1>2 DEF AllocRead, Step, history
  <2>2. below[top.at] \in Pointers
    BY <1>2, TypeFacts, PointerFacts DEF PcInv
  <2>3. pc' \in [Threads -> Labels] /\ p' \in [Threads -> Pointers] /\ q' \in [Threads -> Pointers]
    BY <2>1, <2>2, TypeFacts DEF PcInv, Labels
  <2>4. TypeOK'
    BY <2>1, <2>3 DEF PcInv, TypeOK, AllocRead, queueVars, history
  <2> QED BY <2>1, <2>4, PcRest, ThreadFacts DEF PushLabels, Fill, Alloc
<1> QED BY <1>1, <1>2

(* AllocCas preserves PcInv.                                               *)
LEMMA PcAllocCas ==
  ASSUME PcInv, NEW F, NEW ft, PoolInv(F, ft), NEW t \in Pushers, AllocCas(t)
  PROVE  PcInv'
<1>1. /\ pc[t] = "allocCas" /\ pushed' = pushed /\ value' = value
      /\ \E x \in {"init", "allocRead"} : pc' = [pc EXCEPT ![t] = x]
  BY DEF AllocCas, Step, history
<1>2. pc' \in [Threads -> Labels]
  BY <1>1, TypeFacts DEF PcInv, Labels
<1>3. p[t] # Null /\ p[t] \in Pointers /\ q[t] \in Pointers
  BY <1>1, TypeFacts, ThreadFacts DEF PoolInv, PcInv
<1>4. node' \in [Threads -> Nodes \cup {0}] /\ top' \in Pointers
  BY <1>3, TypeFacts, PointerFacts DEF PcInv, AllocCas
<1>5. TypeOK'
  BY <1>1, <1>2, <1>4 DEF PcInv, TypeOK, AllocCas, queueVars, history
<1> QED BY <1>1, <1>5, PcRest, ThreadFacts DEF PushLabels, Fill, Alloc

(* PushInit preserves PcInv, and its node is one.                          *)
LEMMA PcPushInit ==
  ASSUME PcInv, NEW A, NEW F, OwnInv(A, F), NEW t \in Pushers, PushInit(t)
  PROVE  PcInv' /\ node[t] \in Nodes /\ value[t] \in DOMAIN pushed
<1>1. /\ pc[t] = "init" /\ pushed' = pushed /\ value' = value
      /\ pc' = [pc EXCEPT ![t] = "readTail"]
      /\ data' = [data EXCEPT ![node[t]] = value[t]]
      /\ next' = [next EXCEPT ![node[t]] = Null]
      /\ queueId' = queueId + 1 /\ r' = [r EXCEPT ![t] = Tagged(node[t], queueId')]
  BY DEF PushInit, Step, history
<1>2. pc' \in [Threads -> Labels]
  BY <1>1, TypeFacts DEF PcInv, Labels
<1>3. t \in Threads /\ t # Popper
  BY ThreadFacts
<1>4. node[t] \in 1 .. fresh
  BY <1>1, <1>3 DEF OwnInv, Filling
<1>5. node[t] \in Nodes
  BY <1>4, TypeFacts, ThreadFacts DEF PcInv, Nodes
<1>6. queueId' \in Nat /\ r' \in [Threads -> Pointers]
  <2>1. queueId' \in Nat /\ r \in [Threads -> Pointers]
    BY <1>1, TypeFacts
  <2>2. Tagged(node[t], queueId') \in Pointers
    BY <1>5, <2>1, PointerFacts
  <2> QED BY <1>1, <2>1, <2>2
<1>7. data' \in [Nodes -> 0 .. MaxPush] /\ next' \in [Nodes -> Pointers]
  <2>1. value[t] \in 0 .. MaxPush
    BY <1>3, TypeFacts
  <2>2. data \in [Nodes -> 0 .. MaxPush] /\ next \in [Nodes -> Pointers]
    BY TypeFacts
  <2> QED BY <1>1, <1>5, <2>1, <2>2, PointerFacts
<1>8. TypeOK'
  BY <1>1, <1>2, <1>6, <1>7 DEF PcInv, TypeOK, PushInit, poolVars, history
<1>9. value[t] \in DOMAIN pushed
  BY <1>1 DEF PcInv
<1> QED BY <1>1, <1>3, <1>5, <1>8, <1>9, PcRest DEF PushLabels, Held

(* PushReadTail preserves PcInv.                                           *)
LEMMA PcPushReadTail ==
  ASSUME PcInv, NEW t \in Pushers, PushReadTail(t)
  PROVE  PcInv'
<1>1. /\ pc[t] = "readTail" /\ pushed' = pushed /\ value' = value
      /\ pc' = [pc EXCEPT ![t] = "readNext"] /\ p' = [p EXCEPT ![t] = tail]
  BY DEF PushReadTail, Step, history
<1>2. pc' \in [Threads -> Labels] /\ p' \in [Threads -> Pointers]
  BY <1>1, TypeFacts DEF PcInv, Labels
<1>3. TypeOK'
  BY <1>1, <1>2 DEF PcInv, TypeOK, PushReadTail, queueVars, poolVars, history
<1> QED BY <1>1, <1>3, ThreadFacts, PcRest DEF PushLabels, Held

(* PushReadNext preserves PcInv.                                           *)
LEMMA PcPushReadNext ==
  ASSUME PcInv, NEW A, NEW own, NEW st, WatchInv(A, own, st),
         NEW t \in Pushers, PushReadNext(t)
  PROVE  /\ PcInv' /\ p[t].at \in Nodes /\ q' = [q EXCEPT ![t] = next[p[t].at]]
         /\ pc[t] = "readNext"
         /\ pc' = [pc EXCEPT ![t] = IF next[p[t].at] = Null THEN "link" ELSE "help"]
<1>1. /\ pc[t] = "readNext" /\ pushed' = pushed /\ value' = value
      /\ pc' = [pc EXCEPT ![t] = IF q'[t] = Null THEN "link" ELSE "help"]
      /\ q' = [q EXCEPT ![t] = next[p[t].at]]
  BY DEF PushReadNext, Step, history
<1>2. p[t].at \in Nodes
  BY <1>1 DEF WatchInv, Watch
<1>3. q'[t] = next[p[t].at] /\ q' \in [Threads -> Pointers]
  BY <1>1, <1>2, TypeFacts, ThreadFacts DEF PcInv
<1>4. pc' = [pc EXCEPT ![t] = IF next[p[t].at] = Null THEN "link" ELSE "help"]
  BY <1>1, <1>3
<1>5. PICK x : x = IF next[p[t].at] = Null THEN "link" ELSE "help"
  OBVIOUS
<1>6. x \in {"link", "help"} /\ pc' = [pc EXCEPT ![t] = x]
  BY <1>4, <1>5
<1>7. pc' \in [Threads -> Labels]
  BY <1>6, TypeFacts DEF PcInv, Labels
<1>8. TypeOK'
  BY <1>1, <1>3, <1>7 DEF PcInv, TypeOK, PushReadNext, queueVars, poolVars, history
<1>9. PcInv'
  BY <1>1, <1>6, <1>8, ThreadFacts, PcRest DEF PushLabels, Held
<1> QED BY <1>1, <1>2, <1>4, <1>9

(* PushHelp preserves PcInv.                                               *)
LEMMA PcPushHelp ==
  ASSUME PcInv, NEW t \in Pushers, PushHelp(t)
  PROVE  PcInv'
<1>1. /\ pc[t] = "help" /\ pushed' = pushed /\ value' = value
      /\ pc' = [pc EXCEPT ![t] = "readTail"] /\ tail' \in {q[t], tail}
  BY DEF PushHelp, CasTail, Step, history, localVars
<1>2. pc' \in [Threads -> Labels] /\ tail' \in Pointers
  BY <1>1, TypeFacts, ThreadFacts DEF PcInv, Labels
<1>3. TypeOK'
  BY <1>1, <1>2 DEF PcInv, TypeOK, PushHelp, localVars, poolVars, history
<1> QED BY <1>1, <1>3, ThreadFacts, PcRest DEF PushLabels, Held

(* PushLink preserves PcInv.                                               *)
LEMMA PcPushLink ==
  ASSUME PcInv, NEW A, NEW own, NEW st, WatchInv(A, own, st),
         NEW t \in Pushers, PushLink(t)
  PROVE  PcInv' /\ p[t].at \in Nodes
<1>1. /\ pc[t] = "link" /\ pushed' = pushed /\ value' = value
      /\ \E x \in {"swing", "readTail"} : pc' = [pc EXCEPT ![t] = x]
  BY DEF PushLink, Step, localVars
<1>2. pc' \in [Threads -> Labels]
  BY <1>1, TypeFacts DEF PcInv, Labels
<1>3. p[t].at \in Nodes
  BY <1>1 DEF WatchInv, Watch
<1>4. next' \in [Nodes -> Pointers]
  <2>1. next \in [Nodes -> Pointers] /\ r[t] \in Pointers
    BY TypeFacts, ThreadFacts
  <2>2. next' = next \/ next' = [next EXCEPT ![p[t].at] = r[t]]
    BY DEF PushLink
  <2> QED BY <2>1, <2>2
<1>5. value[t] \in 1 .. MaxPush
  <2>1. value[t] \in DOMAIN pushed /\ Len(pushed) <= MaxPush
    BY <1>1 DEF PcInv
  <2> QED BY <2>1, TypeFacts, ThreadFacts DEF PcInv
<1>6. displaced' \subseteq 1 .. MaxPush
  BY <1>5, TypeFacts DEF PcInv, PushLink
<1>7. TypeOK'
  BY <1>1, <1>2, <1>4, <1>6 DEF PcInv, TypeOK, PushLink, localVars, poolVars
<1> QED BY <1>1, <1>3, <1>7, ThreadFacts, PcRest DEF PushLabels, Held, Linking

(* PushSwing preserves PcInv.                                              *)
LEMMA PcPushSwing ==
  ASSUME PcInv, NEW t \in Pushers, PushSwing(t)
  PROVE  PcInv'
<1>1. /\ pc[t] = "swing" /\ pushed' = pushed /\ value' = value
      /\ pc' = [pc EXCEPT ![t] = "count"] /\ tail' \in {r[t], tail}
  BY DEF PushSwing, CasTail, Step, history, localVars
<1>2. pc' \in [Threads -> Labels] /\ tail' \in Pointers
  BY <1>1, TypeFacts, ThreadFacts DEF PcInv, Labels
<1>3. TypeOK'
  BY <1>1, <1>2 DEF PcInv, TypeOK, PushSwing, localVars, poolVars, history
<1> QED BY <1>1, <1>3, ThreadFacts, PcRest DEF PushLabels, Linking

(* What the end of a call leaves of the local variables.                   *)
LEMMA ReturnTypes ==
  ASSUME PcInv, NEW t \in Threads, NEW from, Return(t, from)
  PROVE  /\ pc[t] = from /\ pc' = [pc EXCEPT ![t] = "idle"]
         /\ value' = [value EXCEPT ![t] = NoValue]
         /\ pc' \in [Threads -> Labels] /\ node' \in [Threads -> Nodes \cup {0}]
         /\ p' \in [Threads -> Pointers] /\ q' \in [Threads -> Pointers]
         /\ r' \in [Threads -> Pointers] /\ value' \in [Threads -> 0 .. MaxPush]
<1>1. /\ pc[t] = from /\ pc' = [pc EXCEPT ![t] = "idle"]
      /\ p' = [p EXCEPT ![t] = Null] /\ q' = [q EXCEPT ![t] = Null]
      /\ r' = [r EXCEPT ![t] = Null] /\ node' = [node EXCEPT ![t] = 0]
      /\ value' = [value EXCEPT ![t] = NoValue]
  BY DEF Return, Step
<1>2. Null \in Pointers /\ NoValue \in 0 .. MaxPush /\ "idle" \in Labels
  BY PointerFacts, ThreadFacts DEF NoValue, Labels
<1> QED BY <1>1, <1>2, TypeFacts DEF PcInv

(* PushCount preserves PcInv: the pusher is idle.                          *)
LEMMA PcPushCount ==
  ASSUME PcInv, NEW t \in Pushers, PushCount(t)
  PROVE  PcInv'
<1>1. t \in Threads /\ t # Popper /\ Return(t, "count") /\ size' = size + 1
  BY ThreadFacts DEF PushCount
<1>2. TypeOK'
  <2>1. size' \in Nat
    BY <1>1, TypeFacts DEF PcInv
  <2> QED BY <1>1, <2>1, ReturnTypes DEF PcInv, TypeOK, PushCount, poolVars, history
<1>3. /\ pc' = [pc EXCEPT ![t] = "idle"] /\ value' = [value EXCEPT ![t] = NoValue]
      /\ pc \in [Threads -> Labels] /\ value \in [Threads -> 0 .. MaxPush]
      /\ pushed' = pushed /\ Popper \in Threads
  BY <1>1, ReturnTypes, TypeFacts, ThreadFacts DEF PcInv, PushCount, history
<1>4. pc'[Popper] \in PopLabels
  BY <1>1, <1>3 DEF PcInv
<1>5. ASSUME NEW u \in Pushers
      PROVE  /\ u = t => pc'[u] = "idle" /\ value'[u] = NoValue
             /\ u # t => pc'[u] = pc[u] /\ value'[u] = value[u]
  BY <1>3, ThreadFacts
<1>6. "idle" \in PushLabels
  BY DEF PushLabels
<1> QED BY <1>2, <1>3, <1>4, <1>5, <1>6 DEF PcInv

(* The queue starts at head; when nothing is linked behind it, there is    *)
(* nothing else in it.                                                     *)
LEMMA HeadFacts ==
  ASSUME PcInv, NEW A, NEW own, NEW pos, NEW st, NEW F, NEW ft,
         Ghosts(A, own, pos, st, F, ft), ListInv(A, own, pos, st)
  PROVE  /\ head.at \in A /\ head.at \in Nodes /\ own[head.at] = Popper
         /\ head = To(head.at, st) /\ head \in Pointers
         /\ \A n \in A : own[n] = Popper => pos[head.at] <= pos[n]
         /\ next[head.at] \in Pointers
         /\ next[head.at] # Null =>
              /\ next[head.at] = To(next[head.at].at, st) /\ next[head.at].at \in A
              /\ next[head.at].at \in Nodes /\ own[next[head.at].at] = Popper
              /\ pos[next[head.at].at] = pos[head.at] + 1
              /\ next[head.at].at # head.at
         /\ next[head.at] = Null =>
              \A n \in A : own[n] = Popper => n = head.at
<1>1. /\ head.at \in A /\ own[head.at] = Popper
      /\ \A n \in A : own[n] = Popper => pos[head.at] <= pos[n]
  BY ThreadFacts DEF ListInv, Root
<1>2. A \subseteq Nodes /\ pos \in [Nodes -> Int]
  BY DEF Ghosts
<1>3. \/ next[head.at] = Null /\ \A m \in A : own[m] = own[head.at] => pos[m] <= pos[head.at]
      \/ /\ next[head.at] = To(next[head.at].at, st) /\ next[head.at].at \in A
         /\ own[next[head.at].at] = own[head.at] /\ pos[next[head.at].at] = pos[head.at] + 1
  BY <1>1 DEF ListInv
<1>4. head = To(head.at, st)
  BY DEF ListInv
<1>5. ASSUME next[head.at] = Null
      PROVE  \A n \in A : own[n] = Popper => n = head.at
  <2>1. ASSUME NEW n \in A, own[n] = Popper
        PROVE  pos[n] = pos[head.at]
    <3>1. pos[n] \in Int /\ pos[head.at] \in Int
      BY <1>1, <1>2
    <3>2. CASE next[head.at].at \in A
      BY <1>2, <1>5, <3>2, PointerFacts DEF Null
    <3>3. CASE next[head.at].at \notin A
      BY <1>1, <1>3, <2>1, <3>1, <3>3
    <3> QED BY <3>2, <3>3
  <2> QED BY <1>1, <2>1 DEF ListInv
<1>6. next[head.at] \in Pointers /\ head \in Pointers
  BY <1>1, <1>2, TypeFacts
<1>7. pos[head.at] \in Int
  BY <1>1, <1>2
<1> QED BY <1>1, <1>2, <1>3, <1>4, <1>5, <1>6, <1>7

(* CallPop preserves PcInv.                                                *)
LEMMA PcCallPop ==
  ASSUME PcInv, CallPop(Popper)
  PROVE  PcInv'
<1>1. /\ pc[Popper] = "idle" /\ pushed' = pushed /\ value' = value
      /\ pc' = [pc EXCEPT ![Popper] = "popRead"]
  BY DEF CallPop, Step, history, localVars
<1>2. pc' \in [Threads -> Labels]
  BY <1>1, TypeFacts DEF Labels
<1>3. TypeOK'
  BY <1>1, <1>2 DEF PcInv, TypeOK, CallPop, queueVars, localVars, poolVars, history
<1> QED BY <1>1, <1>3, ThreadFacts, PcRest DEF PopLabels

(* PopRead preserves PcInv.                                                *)
LEMMA PcPopRead ==
  ASSUME PcInv, PopRead(Popper)
  PROVE  PcInv'
<1>1. /\ pc[Popper] = "popRead" /\ pushed' = pushed /\ value' = value
      /\ pc' = [pc EXCEPT ![Popper] = "popNext"]
      /\ r' = [r EXCEPT ![Popper] = head] /\ p' = [p EXCEPT ![Popper] = tail]
  BY DEF PopRead, Step, history
<1>2. /\ pc' \in [Threads -> Labels] /\ p' \in [Threads -> Pointers]
      /\ r' \in [Threads -> Pointers]
  BY <1>1, TypeFacts DEF Labels
<1>3. TypeOK'
  BY <1>1, <1>2 DEF PcInv, TypeOK, PopRead, queueVars, poolVars, history
<1> QED BY <1>1, <1>3, ThreadFacts, PcRest DEF PopLabels

(* PopReadNext preserves PcInv; the head it read is still the head.        *)
LEMMA PcPopReadNext ==
  ASSUME PcInv, NEW A, NEW own, NEW pos, NEW st, NEW F, NEW ft,
         Ghosts(A, own, pos, st, F, ft), ListInv(A, own, pos, st), PopWatch,
         PopReadNext(Popper)
  PROVE  PcInv' /\ r[Popper] = head
<1>1. pc[Popper] = "popNext" /\ r[Popper] = head
  BY DEF PopReadNext, PopWatch
<1>2. next[head.at] \in Pointers /\ (next[head.at] # Null => next[head.at].at \in Nodes)
  BY HeadFacts
<1>3. \E x \in {"idle", "popHelp", "popCas"} : pc' = [pc EXCEPT ![Popper] = x]
  BY DEF PopReadNext, Return, Step
<1>4. pc' \in [Threads -> Labels]
  BY <1>3, TypeFacts DEF Labels
<1>5. Popper \in Threads /\ Popper \notin Pushers
  BY ThreadFacts
<1>6. CASE next[head.at] = Null
  <2>1. Return(Popper, "popNext")
    BY <1>1, <1>6 DEF PopReadNext
  <2>2. TypeOK'
    BY <1>5, <2>1, ReturnTypes DEF PcInv, TypeOK, PopReadNext, queueVars, poolVars, history
  <2>3. \A u \in Pushers : value'[u] = value[u]
    BY <1>5, <2>1, ReturnTypes, TypeFacts, ThreadFacts
  <2> QED BY <1>1, <1>3, <1>5, <2>2, <2>3, PcRest DEF PopReadNext, history, PopLabels
<1>7. CASE next[head.at] # Null
  <2>1. /\ q' = [q EXCEPT ![Popper] = next[head.at]] /\ UNCHANGED <<node, p, r>>
        /\ value' = value \/ value' = [value EXCEPT ![Popper] = data[next[head.at].at]]
    BY <1>1, <1>7 DEF PopReadNext
  <2>2. q' \in [Threads -> Pointers] /\ value' \in [Threads -> 0 .. MaxPush]
    BY <1>2, <1>7, <2>1, TypeFacts
  <2>3. TypeOK'
    BY <1>4, <2>1, <2>2 DEF PcInv, TypeOK, PopReadNext, queueVars, poolVars, history
  <2>4. \A u \in Pushers : value'[u] = value[u]
    BY <1>5, <2>1, TypeFacts, ThreadFacts
  <2> QED BY <1>1, <1>3, <1>5, <2>3, <2>4, PcRest DEF PopReadNext, history, PopLabels
<1> QED BY <1>1, <1>6, <1>7

(* PopHelp preserves PcInv.                                                *)
LEMMA PcPopHelp ==
  ASSUME PcInv, PopHelp(Popper)
  PROVE  PcInv'
<1>1. /\ pc[Popper] = "popHelp" /\ pushed' = pushed /\ value' = value
      /\ pc' = [pc EXCEPT ![Popper] = "popRead"] /\ tail' \in {q[Popper], tail}
  BY DEF PopHelp, CasTail, Step, history, localVars
<1>2. pc' \in [Threads -> Labels] /\ tail' \in Pointers
  BY <1>1, TypeFacts, ThreadFacts DEF Labels
<1>3. TypeOK'
  BY <1>1, <1>2 DEF PcInv, TypeOK, PopHelp, localVars, poolVars, history
<1> QED BY <1>1, <1>3, ThreadFacts, PcRest DEF PopLabels

(* PopCas succeeds, as nobody else moves head, and takes the element       *)
(* behind it.                                                              *)
LEMMA PcPopCas ==
  ASSUME PcInv, NEW A, NEW own, NEW pos, NEW st, NEW F, NEW ft,
         Ghosts(A, own, pos, st, F, ft), ListInv(A, own, pos, st), PopWatch,
         DataInv(A, own), PopCas(Popper)
  PROVE  /\ PcInv' /\ r[Popper] = head /\ value[Popper] \in Past(Fill)
         /\ value[Popper] = data[next[head.at].at] /\ next[head.at] # Null
         /\ pc[Popper] = "popCas" /\ pc' = [pc EXCEPT ![Popper] = "freeRead"]
         /\ head' = next[head.at] /\ popped' = Append(popped, value[Popper])
         /\ node' = [node EXCEPT ![Popper] = head.at]
<1>1. /\ pc[Popper] = "popCas" /\ r[Popper] = head /\ q[Popper] = next[head.at]
      /\ next[head.at] # Null /\ value[Popper] = data[next[head.at].at]
  BY DEF PopCas, Step, PopWatch
<1>2. /\ pc' = [pc EXCEPT ![Popper] = "freeRead"]
      /\ head' = next[head.at] /\ popped' = Append(popped, value[Popper])
      /\ node' = [node EXCEPT ![Popper] = head.at] /\ pushed' = pushed /\ value' = value
  BY <1>1 DEF PopCas, Step
<1>3. /\ head.at \in Nodes /\ next[head.at] \in Pointers
      /\ next[head.at].at \in A /\ next[head.at].at # head.at
  BY <1>1, HeadFacts
<1>4. value[Popper] \in Past(Fill)
  BY <1>1, <1>3 DEF DataInv, Live
<1>5. value[Popper] \in 1 .. MaxPush
  BY <1>4, PastFacts, ThreadFacts DEF PcInv
<1>6. popped' \in Seq(1 .. MaxPush) /\ node' \in [Threads -> Nodes \cup {0}]
      /\ pc' \in [Threads -> Labels]
  <2>1. popped' \in Seq(1 .. MaxPush)
    BY <1>2, <1>5, TypeFacts
  <2>2. node' \in [Threads -> Nodes \cup {0}] /\ pc' \in [Threads -> Labels]
    BY <1>2, <1>3, TypeFacts DEF Labels
  <2> QED BY <2>1, <2>2
<1>7. TypeOK'
  BY <1>2, <1>3, <1>6 DEF PcInv, TypeOK, PopCas, poolVars
<1>8. PcInv'
  BY <1>2, <1>7, ThreadFacts, PcRest DEF PopLabels, Freeing
<1> QED BY <1>1, <1>2, <1>4, <1>8

(* FreeRead preserves PcInv; there is a node in hand.                      *)
LEMMA PcFreeRead ==
  ASSUME PcInv, NEW A, NEW F, OwnInv(A, F), FreeRead(Popper)
  PROVE  PcInv' /\ node[Popper] \in Nodes
<1>1. /\ pc[Popper] \in {"freeRead", "freeAgain"} /\ pushed' = pushed /\ value' = value
      /\ pc' = [pc EXCEPT ![Popper] = "freeCas"]
      /\ \/ poolId' = poolId + 1 /\ r' = [r EXCEPT ![Popper] = Tagged(node[Popper], poolId')]
         \/ UNCHANGED <<poolId, r>>
      /\ p' = [p EXCEPT ![Popper] = top] /\ below' = [below EXCEPT ![node[Popper]] = top]
  BY DEF FreeRead, Step, history
<1>2. node[Popper] \in 1 .. fresh
  BY <1>1, ThreadFacts DEF OwnInv, Filling, Freeing
<1>3. node[Popper] \in Nodes
  BY <1>2, TypeFacts, ThreadFacts DEF Nodes
<1>4. poolId' \in Nat /\ r' \in [Threads -> Pointers]
  <2>1. poolId' \in Nat /\ r \in [Threads -> Pointers]
    BY <1>1, TypeFacts
  <2>2. Tagged(node[Popper], poolId') \in Pointers
    BY <1>3, <2>1, PointerFacts
  <2> QED BY <1>1, <2>1, <2>2
<1>5. /\ p' \in [Threads -> Pointers] /\ below' \in [Nodes -> Pointers]
      /\ pc' \in [Threads -> Labels]
  BY <1>1, TypeFacts DEF Labels
<1>6. TypeOK'
  BY <1>1, <1>4, <1>5 DEF PcInv, TypeOK, FreeRead, queueVars, history
<1> QED BY <1>1, <1>3, <1>6, ThreadFacts, PcRest DEF PopLabels, Freeing

(* FreeCas preserves PcInv.                                                *)
LEMMA PcFreeCas ==
  ASSUME PcInv, FreeCas(Popper)
  PROVE  PcInv'
<1>1. /\ pc[Popper] = "freeCas" /\ pushed' = pushed /\ value' = value
      /\ top' \in {r[Popper], top}
      /\ \E x \in {"uncount", "freeAgain"} : pc' = [pc EXCEPT ![Popper] = x]
  BY DEF FreeCas, Step, history, localVars
<1>2. pc' \in [Threads -> Labels] /\ top' \in Pointers
  BY <1>1, TypeFacts, ThreadFacts DEF Labels
<1>3. TypeOK'
  BY <1>1, <1>2 DEF PcInv, TypeOK, FreeCas, queueVars, localVars, history
<1> QED BY <1>1, <1>3, ThreadFacts, PcRest DEF PopLabels, Freeing

(* PopCount preserves PcInv: size was counted up before it is counted      *)
(* down.                                                                   *)
LEMMA PcPopCount ==
  ASSUME PcInv, CountInv, PopCount(Popper)
  PROVE  PcInv'
<1>1. Popper \in Threads /\ Return(Popper, "uncount") /\ size' = size - 1
  BY ThreadFacts DEF PopCount
<1>2. pc[Popper] = "uncount" /\ pc' = [pc EXCEPT ![Popper] = "idle"]
  BY <1>1, ReturnTypes
<1>3. size' \in Nat
  BY <1>1, <1>2, TypeFacts DEF CountInv
<1>4. TypeOK'
  BY <1>1, <1>3, ReturnTypes DEF PcInv, TypeOK, PopCount, poolVars, history
<1>5. \A u \in Pushers : value'[u] = value[u]
  BY <1>1, ReturnTypes, TypeFacts, ThreadFacts
<1> QED BY <1>1, <1>2, <1>4, <1>5, ThreadFacts, PcRest DEF PopCount, history, PopLabels
-----------------------------------------------------------------------------
(* What Chain computes.                                                      *)
Walk(w, x) ==
  [k \in 0 .. MaxPush |->
     IF k = 0 THEN <<x.at>>
     ELSE LET s == w[k - 1]
              n == next[s[Len(s)]].at
          IN  IF n = 0 THEN s ELSE Append(s, n)]
Prefix(s, m) == [i \in 1 .. m |-> s[i]]
Upto(s, N, k) == IF k < N THEN Prefix(s, k + 1) ELSE Prefix(s, N)
Linked(x, s, N) ==
  /\ N \in 1 .. MaxPush + 1 /\ s \in [1 .. N -> Nodes] /\ x.at = s[1]
  /\ \A i \in 1 .. N - 1 : next[s[i]].at = s[i + 1]
  /\ next[s[N]].at = 0

(* A set of naturals has a least member.                                   *)
LEMMA Least ==
  ASSUME NEW T \in SUBSET Nat, T # {}
  PROVE  \E x \in T : \A y \in T : x <= y
<1> DEFINE R == {ss \in Nat \X Nat : ss[1] < ss[2]}
<1>1. IsWellFoundedOn(R, Nat)
  <2>1. R = OpToRel(<, Nat)
    BY DEF OpToRel
  <2> QED BY <2>1, NatLessThanWellFounded
<1>2. PICK x \in T : \A y \in T : <<y, x>> \notin R
  <2> HIDE DEF R
  <2> QED BY <1>1, WFMin
<1>3. ASSUME NEW y \in T PROVE ~(y < x)
  <2>1. <<y, x>> \in Nat \X Nat
    OBVIOUS
  <2> QED BY <1>2, <2>1
<1> QED BY <1>3

(* A prefix of a list is a sequence of its nodes.                          *)
LEMMA PrefixFacts ==
  ASSUME NEW N \in Nat, NEW s \in [1 .. N -> Nodes], NEW m \in 0 .. N
  PROVE  /\ Prefix(s, m) \in Seq(Nodes) /\ Len(Prefix(s, m)) = m
         /\ \A i \in 1 .. m : Prefix(s, m)[i] = s[i]
<1>1. Prefix(s, m) \in [1 .. m -> Nodes] /\ m \in Nat
  BY DEF Prefix
<1> QED BY <1>1 DEF Prefix

(* A prefix grows by the node that follows.                                *)
LEMMA PrefixAppend ==
  ASSUME NEW N \in Nat, NEW s \in [1 .. N -> Nodes], NEW m \in 0 .. N - 1
  PROVE  Append(Prefix(s, m), s[m + 1]) = Prefix(s, m + 1)
<1>1. /\ Prefix(s, m) \in Seq(Nodes) /\ Len(Prefix(s, m)) = m
      /\ \A i \in 1 .. m : Prefix(s, m)[i] = s[i]
  BY PrefixFacts
<1>2. /\ Prefix(s, m + 1) \in Seq(Nodes) /\ Len(Prefix(s, m + 1)) = m + 1
      /\ \A i \in 1 .. m + 1 : Prefix(s, m + 1)[i] = s[i]
  BY PrefixFacts
<1>3. s[m + 1] \in Nodes
  OBVIOUS
<1>4. PICK u : u = Append(Prefix(s, m), s[m + 1])
  OBVIOUS
<1>5. PICK v : v = Prefix(s, m + 1)
  OBVIOUS
<1>6. u \in Seq(Nodes) /\ Len(u) = m + 1
  BY <1>1, <1>3, <1>4
<1>7. \A i \in 1 .. m + 1 : u[i] = s[i]
  BY <1>1, <1>3, <1>4
<1>8. v \in Seq(Nodes) /\ Len(v) = m + 1 /\ \A i \in 1 .. m + 1 : v[i] = s[i]
  BY <1>2, <1>5
<1>9. u = v
  BY ONLY m \in 0 .. N - 1, N \in Nat, <1>6, <1>7, <1>8, SeqEqual
<1> QED BY <1>4, <1>5, <1>9

(* A step of Chain's walk along a linked list.                             *)
LEMMA WalkStep ==
  ASSUME NEW x, NEW s, NEW N, Linked(x, s, N), MaxPush \in Nat,
         NEW w, NEW k \in 1 .. MaxPush, w[k - 1] = Upto(s, N, k - 1)
  PROVE  Walk(w, x)[k] = Upto(s, N, k)
<1>1. /\ N \in 1 .. MaxPush + 1 /\ s \in [1 .. N -> Nodes] /\ k \in Nat /\ N \in Nat
      /\ \A i \in 1 .. N - 1 : next[s[i]].at = s[i + 1]
      /\ next[s[N]].at = 0
  BY DEF Linked
<1>2. PICK u : u = w[k - 1]
  OBVIOUS
<1>3. Walk(w, x)[k] = LET n == next[u[Len(u)]].at IN IF n = 0 THEN u ELSE Append(u, n)
  BY <1>1, <1>2 DEF Walk
<1>4. CASE k < N
  <2>1. u = Prefix(s, k) /\ Upto(s, N, k) = Prefix(s, k + 1)
    BY <1>1, <1>2, <1>4 DEF Upto
  <2>2. Len(u) = k /\ u[k] = s[k]
    BY <1>1, <1>4, <2>1, PrefixFacts
  <2>3. next[u[Len(u)]].at = s[k + 1] /\ s[k + 1] # 0
    <3>1. k \in 1 .. N - 1 /\ k + 1 \in 1 .. N
      BY <1>1, <1>4
    <3>2. next[s[k]].at = s[k + 1] /\ s[k + 1] \in Nodes
      BY <1>1, <3>1
    <3>3. s[k + 1] # 0
      BY <3>2, PointerFacts
    <3> QED BY <2>2, <3>2, <3>3
  <2>4. Append(Prefix(s, k), s[k + 1]) = Prefix(s, k + 1)
    BY <1>1, <1>4, PrefixAppend
  <2> QED BY <1>3, <2>1, <2>3, <2>4
<1>5. CASE ~(k < N)
  <2>1. u = Prefix(s, N) /\ Upto(s, N, k) = Prefix(s, N)
    BY <1>1, <1>2, <1>5 DEF Upto
  <2>2. Len(u) = N /\ u[N] = s[N]
    BY <1>1, <2>1, PrefixFacts
  <2> QED BY <1>1, <1>3, <2>1, <2>2
<1> QED BY <1>4, <1>5

(* The walk starts with the first node.                                    *)
LEMMA WalkStart ==
  ASSUME NEW x, NEW s, NEW N, Linked(x, s, N), MaxPush \in Nat, NEW w
  PROVE  Walk(w, x)[0] = Upto(s, N, 0)
<1>1. N \in 1 .. MaxPush + 1 /\ s \in [1 .. N -> Nodes] /\ x.at = s[1]
  BY DEF Linked
<1>2. Walk(w, x)[0] = <<s[1]>>
  BY <1>1 DEF Walk
<1>3. Upto(s, N, 0) = Prefix(s, 1)
  BY <1>1 DEF Upto
<1>4. Prefix(s, 1) = <<s[1]>>
  <2>1. /\ Prefix(s, 1) \in Seq(Nodes) /\ Len(Prefix(s, 1)) = 1
        /\ Prefix(s, 1)[1] = s[1]
    <3>1. N \in Nat /\ 1 \in 0 .. N /\ 1 \in 1 .. 1
      BY <1>1
    <3> QED BY <1>1, <3>1, PrefixFacts
  <2>2. <<s[1]>> \in Seq(Nodes) /\ Len(<<s[1]>>) = 1 /\ <<s[1]>>[1] = s[1]
    BY <1>1
  <2>3. PICK u : u = Prefix(s, 1)
    OBVIOUS
  <2>4. PICK v : v = <<s[1]>>
    OBVIOUS
  <2>5. u \in Seq(Nodes) /\ v \in Seq(Nodes) /\ Len(u) = Len(v) /\ \A i \in 1 .. Len(u) : u[i] = v[i]
    BY <2>1, <2>2, <2>3, <2>4
  <2>6. u = v
    BY ONLY <2>5, SeqEqual
  <2> QED BY <2>3, <2>4, <2>6
<1> QED BY <1>2, <1>3, <1>4

(* The walk along a linked list collects its nodes: by the least step at   *)
(* which it would not.                                                     *)
LEMMA ChainIs ==
  ASSUME NEW x, NEW s, NEW N, Linked(x, s, N)
  PROVE  Chain(x) = s
<1>0. MaxPush \in Nat /\ N \in 1 .. MaxPush + 1 /\ s \in [1 .. N -> Nodes]
  BY ThreadFacts DEF Linked
<1> DEFINE W == CHOOSE w : w = Walk(w, x)
<1>1. Chain(x) = W[MaxPush]
  BY DEF Chain, Walk
<1>2. W = Walk(W, x)
  <2>1. PICK f : f = [k \in 0 .. MaxPush |-> Upto(s, N, k)]
    OBVIOUS
  <2>2. ASSUME NEW k \in 0 .. MaxPush PROVE Walk(f, x)[k] = f[k]
    <3>1. CASE k = 0
      BY <1>0, <2>1, <3>1, WalkStart
    <3>2. CASE k # 0
      <4>1. k \in 1 .. MaxPush /\ f[k - 1] = Upto(s, N, k - 1)
        BY <1>0, <2>1, <3>2
      <4>2. Walk(f, x)[k] = Upto(s, N, k)
        BY <1>0, <4>1, WalkStep
      <4> QED BY <2>1, <4>2
    <3> QED BY <3>1, <3>2
  <2>3. Walk(f, x) = [k \in 0 .. MaxPush |-> Walk(f, x)[k]]
    BY DEF Walk
  <2>4. f = Walk(f, x)
    BY <2>1, <2>2, <2>3
  <2> QED BY <2>4
<1> HIDE DEF W
<1> DEFINE T == {k \in 0 .. MaxPush : W[k] # Upto(s, N, k)}
<1>3. ASSUME T # {} PROVE FALSE
  <2>1. PICK k \in T : \A y \in T : k <= y
    <3>1. T \in SUBSET Nat
      OBVIOUS
    <3> HIDE DEF T
    <3> QED BY <1>3, <3>1, Least
  <2>2. k \in 0 .. MaxPush /\ W[k] # Upto(s, N, k)
    BY <2>1
  <2>3. k # 0
    BY <1>0, <1>2, <2>2, WalkStart
  <2>4. k - 1 \in 0 .. MaxPush /\ k - 1 \notin T
    <3>1. k \in Nat /\ ~(k <= k - 1) /\ k - 1 \in 0 .. MaxPush
      <4>1. k \in 0 .. MaxPush /\ k # 0 /\ MaxPush \in Nat
        BY <1>0, <2>2, <2>3
      <4> QED BY ONLY <4>1
    <3> HIDE DEF T
    <3> QED BY <2>1, <3>1
  <2>5. W[k - 1] = Upto(s, N, k - 1)
    BY <2>4
  <2>6. k \in 1 .. MaxPush
    BY <2>2, <2>3
  <2>7. Walk(W, x)[k] = Upto(s, N, k)
    BY ONLY <1>0, <2>5, <2>6, WalkStep, Linked(x, s, N)
  <2> QED BY <1>2, <2>2, <2>7
<1>4. W[MaxPush] = Upto(s, N, MaxPush)
  BY <1>0, <1>3
<1>5. Upto(s, N, MaxPush) = Prefix(s, N)
  BY <1>0 DEF Upto, Prefix
<1>6. Prefix(s, N) = s
  BY <1>0 DEF Prefix
<1> QED BY <1>1, <1>4, <1>5, <1>6

(* A list is a chain of next pointers from its first node to its last.       *)
LEMMA ChainOf ==
  ASSUME PcInv, NEW A, NEW own, NEW pos, NEW st, NEW F, NEW ft,
         Ghosts(A, own, pos, st, F, ft), ListInv(A, own, pos, st),
         NEW root \in A, \A n \in A : own[n] = own[root] => pos[root] <= pos[n],
         NEW x, x.at = root
  PROVE  /\ Chain(x) \in Seq(Nodes) /\ Len(Chain(x)) >= 1 /\ Chain(x)[1] = root
         /\ \A i \in 1 .. Len(Chain(x)) : Chain(x)[i] \in A /\ own[Chain(x)[i]] = own[root]
                                          /\ pos[Chain(x)[i]] = pos[root] + i - 1
         /\ Elements(Chain(x)) = {n \in A : own[n] = own[root]}
<1> DEFINE Here(n, k) == own[n] = own[root] /\ pos[n] = pos[root] + k
           T == {k \in Nat : \E n \in A : Here(n, k)}
           spot(k) == CHOOSE n \in A : Here(n, k)
<1>0. /\ A \subseteq Nodes /\ pos \in [Nodes -> Int] /\ MaxPush \in Nat
      /\ \A n \in A : n \in Nodes /\ pos[n] \in Int
      /\ IsFiniteSet(Nodes) /\ Cardinality(Nodes) = MaxPush + 1
  <2>1. A \subseteq Nodes /\ pos \in [Nodes -> Int] /\ MaxPush \in Nat
    BY ThreadFacts DEF Ghosts
  <2>2. MaxPush + 1 \in Nat
    BY <2>1
  <2>3. IsFiniteSet(1 .. MaxPush + 1) /\ Cardinality(1 .. MaxPush + 1) = MaxPush + 1
    BY ONLY <2>2, IntervalCard
  <2> QED BY <2>1, <2>3 DEF Nodes
<1>1. \A m, n \in A : \A k : Here(m, k) /\ Here(n, k) => m = n
  BY DEF ListInv
<1>2. \A k \in T : spot(k) \in A /\ Here(spot(k), k)
  <2>1. \A k \in T : \E n \in A : Here(n, k)
    OBVIOUS
  <2> HIDE DEF Here
  <2> QED BY <2>1
<1>3. \A n \in A : \A k : Here(n, k) => spot(k) = n
  <2> HIDE DEF Here
  <2> QED BY <1>1
<1>4. \A n \in A : own[n] = own[root] => pos[n] - pos[root] \in Nat /\ Here(n, pos[n] - pos[root])
  BY <1>0
<1>5. Here(root, 0) /\ 0 \in T
  BY <1>0
<1>6. ASSUME NEW n \in A, NEW k \in Nat, Here(n, k)
      PROVE  \/ next[n] = Null /\ \A m \in A : own[m] = own[root] => pos[m] <= pos[n]
             \/ next[n].at \in A /\ Here(next[n].at, k + 1)
  <2>1. \/ next[n] = Null /\ \A m \in A : own[m] = own[n] => pos[m] <= pos[n]
        \/ /\ next[n].at \in A
           /\ own[next[n].at] = own[n] /\ pos[next[n].at] = pos[n] + 1
    BY DEF ListInv
  <2>2. pos[n] + 1 = pos[root] + (k + 1)
    BY <1>0, <1>6
  <2> QED BY <1>6, <2>1, <2>2
<1>7. ASSUME NEW K \in Nat, \A k \in 0 .. K : k \in T
      PROVE  K <= MaxPush
  <2>1. PICK f : f = [i \in 1 .. K + 1 |-> spot(i - 1)]
    OBVIOUS
  <2>2. \A i \in 1 .. K + 1 : f[i] \in Nodes /\ Here(f[i], i - 1)
    BY <1>0, <1>2, <1>7, <2>1
  <2>3. \A i, j \in 1 .. K + 1 : f[i] = f[j] => i = j
    <3>1. \A i, j \in 1 .. K + 1 : f[i] = f[j] => pos[root] + (i - 1) = pos[root] + (j - 1)
      BY <2>2
    <3> QED BY <1>0, <3>1
  <2>4. f \in [1 .. K + 1 -> Nodes]
    BY <2>1, <2>2
  <2>5. f \in Injection(1 .. K + 1, Nodes)
    BY <2>3, <2>4 DEF Injection, IsInjective
  <2>6. Cardinality(1 .. K + 1) <= Cardinality(Nodes)
    BY ONLY <1>0, <2>5, FS_Injection
  <2>7. Cardinality(1 .. K + 1) = K + 1
    <3>1. K + 1 \in Nat
      OBVIOUS
    <3> QED BY ONLY <3>1, IntervalCard
  <2> QED BY <1>0, <2>6, <2>7
<1>8. PICK n \in A : own[n] = own[root] /\ next[n] = Null
                     /\ \A m \in A : own[m] = own[root] => pos[m] <= pos[n]
  <2>1. SUFFICES ASSUME \A n \in A : own[n] = own[root] =>
                          ~(next[n] = Null /\ \A m \in A : own[m] = own[root] => pos[m] <= pos[n])
                 PROVE  FALSE
    OBVIOUS
  <2>2. \A k \in T : k + 1 \in T
    BY <1>2, <1>6, <2>1
  <2>3. ASSUME Nat \ T # {} PROVE FALSE
    <3>1. PICK k \in Nat \ T : \A y \in Nat \ T : k <= y
      <4>1. Nat \ T \in SUBSET Nat
        OBVIOUS
      <4> HIDE DEF T
      <4> QED BY <2>3, <4>1, Least
    <3>2. k \in Nat /\ k \notin T
      BY <3>1
    <3>3. k # 0
      BY <1>5, <3>2
    <3>4. k - 1 \in Nat /\ ~(k <= k - 1)
      BY <3>2, <3>3
    <3>5. k - 1 \in T
      <4> HIDE DEF T
      <4> QED BY <3>1, <3>4
    <3>6. (k - 1) + 1 = k
      BY <3>2
    <3>7. (k - 1) + 1 \in T
      BY <2>2, <3>5
    <3> QED BY <3>2, <3>6, <3>7
  <2>4. \A k \in 0 .. MaxPush + 1 : k \in T
    <3> HIDE DEF T
    <3> QED BY <2>3
  <2>5. MaxPush + 1 \in Nat
    BY <1>0
  <2>6. MaxPush + 1 <= MaxPush
    <3> HIDE DEF T
    <3> QED BY <1>7, <2>4, <2>5
  <2> QED BY <1>0, <2>6
<1>9. PICK K \in Nat : Here(n, K) /\ K = pos[n] - pos[root]
  BY <1>4, <1>8
<1>10. \A k \in 0 .. K : k \in T
  <2> DEFINE M == {k \in 0 .. K : k \notin T}
  <2>1. ASSUME M # {} PROVE FALSE
    <3>1. PICK k \in M : \A y \in M : k <= y
      <4>1. M \in SUBSET Nat
        OBVIOUS
      <4> HIDE DEF M
      <4> QED BY <2>1, <4>1, Least
    <3>2. k \in 0 .. K /\ k \notin T
      BY <3>1
    <3>3. k # 0
      BY <1>5, <3>2
    <3>4. k - 1 \in 0 .. K /\ ~(k <= k - 1) /\ k - 1 \in Nat /\ (k - 1) + 1 = k /\ k - 1 < K
      BY <3>2, <3>3
    <3>5. k - 1 \in T
      <4>1. k - 1 \notin M
        <5> HIDE DEF M
        <5> QED BY <3>1, <3>4
      <4> QED BY <3>4, <4>1
    <3>6. spot(k - 1) \in A /\ Here(spot(k - 1), k - 1)
      BY <1>2, <3>5
    <3>7. pos[spot(k - 1)] < pos[n] /\ own[n] = own[root]
      <4>1. pos[spot(k - 1)] = pos[root] + (k - 1) /\ pos[n] = pos[root] + K
        BY <1>9, <3>6
      <4> QED BY <1>0, <1>8, <3>4, <4>1
    <3>8. next[spot(k - 1)].at \in A /\ Here(next[spot(k - 1)].at, (k - 1) + 1)
      <4>1. ~(pos[n] <= pos[spot(k - 1)])
        BY <1>0, <3>6, <3>7
      <4> HIDE DEF Here, spot
      <4> QED BY <1>6, <3>4, <3>6, <3>7, <4>1
    <3>9. k \in T
      BY <3>2, <3>4, <3>8
    <3> QED BY <3>2, <3>9
  <2> QED BY <2>1
<1>11. K <= MaxPush
  <2> HIDE DEF T
  <2> QED BY <1>7, <1>10
<1>12. PICK N \in Nat : N = K + 1
  OBVIOUS
<1>13. PICK s : s = [i \in 1 .. N |-> spot(i - 1)]
  OBVIOUS
<1>14. \A i \in 1 .. N : s[i] \in A /\ Here(s[i], i - 1) /\ s[i] \in Nodes
  BY <1>0, <1>2, <1>10, <1>12, <1>13
<1>15. s \in [1 .. N -> Nodes]
  BY <1>13, <1>14
<1>16. s[1] = root /\ s[N] = n
  <2>1. 1 \in 1 .. N /\ N \in 1 .. N /\ N - 1 = K /\ 1 - 1 = 0
    BY <1>12
  <2>2. s[1] = spot(0) /\ s[N] = spot(K)
    BY <1>13, <2>1
  <2> QED BY <1>3, <1>5, <1>8, <1>9, <2>2
<1>17. \A i \in 1 .. N - 1 : next[s[i]].at = s[i + 1]
  <2>1. SUFFICES ASSUME NEW i \in 1 .. N - 1 PROVE next[s[i]].at = s[i + 1]
    OBVIOUS
  <2>2. i \in 1 .. N /\ i - 1 \in Nat /\ i + 1 \in 1 .. N /\ i - 1 < K /\ (i - 1) + 1 = (i + 1) - 1
    BY <1>12
  <2>3. s[i] \in A /\ Here(s[i], i - 1) /\ s[i + 1] \in A /\ Here(s[i + 1], (i + 1) - 1)
    BY <1>14, <2>2
  <2>4. ~(pos[n] <= pos[s[i]])
    <3>1. pos[s[i]] = pos[root] + (i - 1) /\ pos[n] = pos[root] + K
      BY <1>9, <2>3
    <3> QED BY <1>0, <2>2, <3>1
  <2>5. next[s[i]].at \in A /\ Here(next[s[i]].at, (i - 1) + 1)
    <3> HIDE DEF Here
    <3> QED BY <1>6, <1>8, <2>2, <2>3, <2>4
  <2>6. Here(next[s[i]].at, (i + 1) - 1)
    BY <2>2, <2>5
  <2> HIDE DEF Here
  <2> QED BY <1>1, <2>3, <2>5, <2>6
<1>18. next[s[N]].at = 0
  BY <1>8, <1>16 DEF Null
<1>19. Linked(x, s, N)
  BY <1>0, <1>11, <1>12, <1>15, <1>16, <1>17, <1>18 DEF Linked
<1>20. ASSUME NEW m \in A, own[m] = own[root] PROVE \E i \in 1 .. N : s[i] = m
  <2>1. PICK k \in Nat : k = pos[m] - pos[root] /\ Here(m, k)
    BY <1>4, <1>20
  <2>2. pos[m] <= pos[n]
    BY <1>8, <1>20
  <2>3. k \in 0 .. K /\ k + 1 \in 1 .. N /\ (k + 1) - 1 = k
    BY <1>0, <1>9, <1>12, <2>1, <2>2
  <2>4. s[k + 1] = spot(k)
    BY <1>13, <2>3
  <2> QED BY <1>3, <2>1, <2>3, <2>4
<1>21. \A i \in 1 .. N : s[i] \in A /\ own[s[i]] = own[root] /\ pos[s[i]] = pos[root] + i - 1
  <2>1. \A i \in 1 .. N : pos[root] + (i - 1) = pos[root] + i - 1
    BY <1>0
  <2> QED BY <1>14, <2>1
<1>22. Chain(x) = s
  BY <1>19, ChainIs
<1>23. s \in Seq(Nodes) /\ Len(s) = N /\ DOMAIN s = 1 .. N /\ N >= 1
  BY <1>12, <1>15
<1>24. Elements(s) = {m \in A : own[m] = own[root]}
  <2>1. Elements(s) = {s[i] : i \in 1 .. N}
    BY <1>23 DEF Elements
  <2>2. \A i \in 1 .. N : s[i] \in A /\ own[s[i]] = own[root]
    BY <1>21
  <2>3. \A m \in A : own[m] = own[root] => \E i \in 1 .. N : s[i] = m
    BY <1>20
  <2> QED BY ONLY <2>1, <2>2, <2>3
<1> QED BY <1>16, <1>21, <1>22, <1>23, <1>24

(* What an action leaves alone.                                              *)
LEMMA PushPast ==
  ASSUME pushed' = pushed, \A u \in Pushers : value'[u] = value[u],
         \A u \in Pushers : \/ pc'[u] = pc[u]
                            \/ pc'[u] \in Alloc /\ pc[u] \in Alloc
                            \/ pc'[u] \in Held \cup Linking /\ pc[u] \in Held \cup Linking
  PROVE  /\ Past(Alloc)' = Past(Alloc) /\ Past(Fill)' = Past(Fill)
         /\ Past(Pending)' = Past(Pending)
<1>2. \A u \in Pushers : pc'[u] \in Alloc <=> pc[u] \in Alloc
  BY DEF Alloc, Held, Linking
<1>3. \A u \in Pushers : pc'[u] \in Fill <=> pc[u] \in Fill
  BY DEF Alloc, Held, Linking, Fill
<1>4. \A u \in Pushers : pc'[u] \in Pending <=> pc[u] \in Pending
  BY DEF Alloc, Held, Linking, Fill, Pending
<1> QED BY <1>2, <1>3, <1>4, PastStay

(* CountInv depends on the counters and on who is past which labels.       *)
LEMMA CountFrame ==
  ASSUME CountInv, UNCHANGED <<fresh, queueId, size, popped, poolId>>,
         Past(Alloc)' = Past(Alloc), Past(Fill)' = Past(Fill),
         Past(Pending)' = Past(Pending),
         pc'[Popper] \in Freeing \cup {"uncount"} <=> pc[Popper] \in Freeing \cup {"uncount"},
         pc'[Popper] = "freeRead" <=> pc[Popper] = "freeRead",
         pc'[Popper] # "idle" => pc[Popper] # "idle" \/ size > 0
  PROVE  CountInv'
BY DEF CountInv

(* PoolInv depends on the pool, the node being freed and the pushers that  *)
(* are about to take one.                                                  *)
LEMMA PoolFrame ==
  ASSUME NEW F, NEW ft, PoolInv(F, ft), UNCHANGED <<top, below, poolId>>,
         pc'[Popper] \in {"freeCas", "freeAgain"} => pc'[Popper] = pc[Popper],
         pc[Popper] \in {"freeCas", "freeAgain"} =>
           r'[Popper] = r[Popper] /\ p'[Popper] = p[Popper] /\ node'[Popper] = node[Popper],
         \A t \in Pushers : pc'[t] = "allocCas" =>
           pc[t] = "allocCas" /\ p'[t] = p[t] /\ q'[t] = q[t]
  PROVE  PoolInv(F, ft)'
<1>1. \A t \in Pushers : pc'[t] = "allocCas" =>
       /\ p'[t] # Null /\ p'[t].tag <= poolId'
       /\ pc'[Popper] \in {"freeCas", "freeAgain"} => p'[t].tag < poolId'
       /\ (p'[t].at \in F /\ ft[p'[t].at] = p'[t].tag) => below'[p'[t].at] = q'[t]
  BY DEF PoolInv
<1> QED BY <1>1 DEF PoolInv, Youngest

(* ListInv depends on the links, head and the nodes in hand.               *)
LEMMA ListFrame ==
  ASSUME NEW A, NEW own, NEW pos, NEW st, ListInv(A, own, pos, st),
         UNCHANGED <<head, next, queueId>>,
         \A t \in Pushers : InHand(t)' <=> InHand(t),
         \A t \in Pushers : InHand(t) => r'[t] = r[t] /\ node'[t] = node[t]
  PROVE  ListInv(A, own, pos, st)'
<1>1. \A t \in Threads : t = Popper \/ InHand(t) => Root(t)' = Root(t)
  BY ThreadFacts DEF Root
<1>2. \A t \in Threads : t = Popper \/ InHand(t)' <=> t = Popper \/ InHand(t)
  BY ThreadFacts
<1>3. \A t \in Threads : t = Popper \/ InHand(t)' =>
       /\ Root(t)' \in A /\ own[Root(t)'] = t
       /\ \A n \in A : own[n] = t => pos[Root(t)'] <= pos[n]
  BY <1>1, <1>2, ThreadFacts DEF ListInv
<1>4. \A n \in A : own[n] \in Pushers => InHand(own[n])' /\ st[n] <= st[node'[own[n]]]
  BY DEF ListInv
<1>5. \A t \in Pushers : InHand(t)' => r'[t] = To(node'[t], st)
  BY DEF ListInv
<1> QED BY <1>3, <1>4, <1>5 DEF ListInv, To

(* OwnInv depends on the nodes that are being filled or freed.             *)
LEMMA OwnFrame ==
  ASSUME NEW A, NEW F, OwnInv(A, F), fresh' = fresh,
         \A t \in Threads : Filling(t)' => Filling(t) /\ node'[t] = node[t]
  PROVE  OwnInv(A, F)'
BY DEF OwnInv

(* DataInv depends on the elements in the nodes, what was popped and which *)
(* are filled.                                                             *)
LEMMA DataFrame ==
  ASSUME NEW A, NEW own, DataInv(A, own), UNCHANGED <<head, data, popped>>,
         Past(Fill)' = Past(Fill), displaced \subseteq displaced',
         \A t \in Pushers : InHand(t)' => InHand(t),
         \A t \in Pushers : InHand(t) => value'[t] = value[t],
         \A n \in A : own[n] \in Pushers => InHand(own[n]),
         \A t \in Pushers : InHand(t) => node'[t] = node[t]
  PROVE  DataInv(A, own)'
BY DEF DataInv, Live

(* OrderInv depends on the same, and on whose the elements are.            *)
LEMMA OrderFrame ==
  ASSUME NEW A, NEW own, NEW pos, OrderInv(A, own, pos), DataInv(A, own),
         UNCHANGED <<head, data, popped>>, displaced \subseteq displaced',
         \A v \in Past(Fill) : pushed'[v] = pushed[v]
  PROVE  OrderInv(A, own, pos)'
<1>1. \A v, w \in Past(Fill) : Apart(v, w) => Apart(v, w)'
  BY DEF Apart
<1>2. \A i \in 1 .. Len(popped) : popped[i] \in Past(Fill)
  BY DEF DataInv
<1>3. \A n \in A : Queued(n, A, own) => data[n] \in Past(Fill)
  BY DEF DataInv, Queued
<1>4. \A n \in A : Queued(n, A, own)' <=> Queued(n, A, own)
  BY DEF Queued, Live
<1>5. \A i, j \in 1 .. Len(popped') : i < j => Apart(popped[i], popped[j])'
  BY <1>1, <1>2 DEF OrderInv
<1>6. \A i \in 1 .. Len(popped'), n \in A : Queued(n, A, own)' => Apart(popped[i], data[n])'
  BY <1>1, <1>2, <1>3, <1>4 DEF OrderInv
<1>7. \A m, n \in A : Queued(m, A, own)' /\ Queued(n, A, own)' /\ pos[m] < pos[n] =>
                       Apart(data[m], data[n])'
  BY <1>1, <1>3, <1>4 DEF OrderInv
<1> QED BY <1>5, <1>6, <1>7 DEF OrderInv

(* The pointers of thread t stay good, though others act.                    *)
LEMMA WatchFrame ==
  ASSUME NEW A, NEW own, NEW st, NEW t, Watch(t, A, own, st), UNCHANGED next,
         pc'[t] = pc[t], p'[t] = p[t], q'[t] = q[t], r'[t] = r[t], node'[t] = node[t]
  PROVE  Watch(t, A, own, st)'
BY DEF Watch

(* The popper's pointers stay good, though pushers act without linking.    *)
LEMMA PopWatchFrame ==
  ASSUME PopWatch, UNCHANGED <<head, tail, next, data>>,
         pc'[Popper] = pc[Popper],
         pc[Popper] \in {"popNext", "popHelp", "popCas"} =>
           /\ r'[Popper] = r[Popper] /\ p'[Popper] = p[Popper]
           /\ q'[Popper] = q[Popper] /\ value'[Popper] = value[Popper]
  PROVE  PopWatch'
BY DEF PopWatch

(* tail moves to the node behind it.                                         *)
LEMMA TailMoves ==
  ASSUME PcInv, NEW A, NEW own, NEW pos, NEW st, NEW F, NEW ft,
         Ghosts(A, own, pos, st, F, ft), ListInv(A, own, pos, st), WatchInv(A, own, st),
         UNCHANGED <<head, next, data>>,
         tail' = tail \/ (next[tail.at] # Null /\ tail' = next[tail.at])
  PROVE  /\ tail'.at \in A /\ own[tail'.at] = Popper /\ tail' = To(tail'.at, st)
         /\ tail.at # head.at => tail'.at # head.at
<1>1. tail.at \in A /\ own[tail.at] = Popper /\ tail = To(tail.at, st)
  BY DEF WatchInv
<1>2. CASE tail' = tail
  BY <1>1, <1>2
<1>3. CASE next[tail.at] # Null /\ tail' = next[tail.at]
  <2>1. \/ next[tail.at] = Null
        \/ /\ next[tail.at] = To(next[tail.at].at, st) /\ next[tail.at].at \in A
           /\ own[next[tail.at].at] = own[tail.at]
           /\ pos[next[tail.at].at] = pos[tail.at] + 1
    BY <1>1 DEF ListInv
  <2>2. pos[tail.at] \in Int /\ pos[head.at] \in Int /\ pos[head.at] <= pos[tail.at]
    BY <1>1, HeadFacts DEF Ghosts
  <2>3. pos[tail'.at] = pos[tail.at] + 1
    BY <1>3, <2>1
  <2> QED BY <1>1, <1>3, <2>1, <2>2, <2>3
<1> QED BY <1>2, <1>3

(* A step moves its own thread alone.                                      *)
LEMMA Others ==
  ASSUME PcInv, NEW t \in Threads, NEW x, pc' = [pc EXCEPT ![t] = x]
  PROVE  pc'[t] = x /\ \A u \in Threads : u # t => pc'[u] = pc[u]
BY TypeFacts

(* A new call does not change what is past a label that it starts in.      *)
LEMMA CallPushPast ==
  ASSUME PcInv, NEW t \in Pushers, CallPush(t), NEW L, "allocRead" \in L, "idle" \notin L
  PROVE  Past(L)' = Past(L)
<1>1. /\ pc[t] = "idle" /\ pc' = [pc EXCEPT ![t] = "allocRead"]
      /\ pushed' = Append(pushed, t) /\ value' = [value EXCEPT ![t] = Len(pushed')]
  BY DEF CallPush, Step
<1>2. /\ DOMAIN pushed = 1 .. Len(pushed) /\ DOMAIN pushed' = 1 .. (Len(pushed) + 1)
      /\ Len(pushed) \in Nat /\ Len(pushed') = Len(pushed) + 1
  BY <1>1, TypeFacts
<1>3. t \in Threads /\ Pushers \subseteq Threads
  BY ThreadFacts
<1>4. /\ pc'[t] = "allocRead" /\ value'[t] = Len(pushed) + 1
      /\ \A u \in Pushers : u # t => pc'[u] = pc[u] /\ value'[u] = value[u]
  BY <1>1, <1>2, <1>3, TypeFacts
<1>5. Before(L)' = Before(L) \cup {Len(pushed) + 1}
  BY <1>1, <1>4 DEF Before
<1>6. Before(L) \subseteq DOMAIN pushed
  BY DEF Before, PcInv
<1> QED BY <1>2, <1>5, <1>6 DEF Past

(* A call begins: its value is in no node yet.                             *)
LEMMA StepCallPush ==
  ASSUME NEW A, NEW own, NEW pos, NEW st, NEW F, NEW ft,
         Inv(A, own, pos, st, F, ft), NEW t \in Pushers, CallPush(t)
  PROVE  Inv(A, own, pos, st, F, ft)'
<1>1. /\ pc[t] = "idle" /\ pc' = [pc EXCEPT ![t] = "allocRead"]
      /\ pushed' = Append(pushed, t) /\ value' = [value EXCEPT ![t] = Len(pushed')]
      /\ UNCHANGED <<queueVars, poolVars, node, p, q, r, popped, displaced>>
  BY DEF CallPush, Step
<1>2. /\ Ghosts(A, own, pos, st, F, ft) /\ PcInv /\ CountInv /\ PoolInv(F, ft)
      /\ ListInv(A, own, pos, st) /\ OwnInv(A, F) /\ WatchInv(A, own, st)
      /\ DataInv(A, own) /\ OrderInv(A, own, pos)
  BY DEF Inv
<1>3. /\ t \in Threads /\ t # Popper /\ Popper \in Threads /\ pc'[t] = "allocRead"
      /\ \A u \in Threads : u # t => pc'[u] = pc[u] /\ value'[u] = value[u]
      /\ pc'[Popper] = pc[Popper] /\ value'[Popper] = value[Popper]
  BY <1>1, <1>2, ThreadFacts, TypeFacts
<1>4. Past(Alloc)' = Past(Alloc) /\ Past(Fill)' = Past(Fill) /\ Past(Pending)' = Past(Pending)
  BY <1>2, CallPushPast DEF Alloc, Fill, Pending, Held, Linking
<1>5. \A u \in Threads : (InHand(u)' <=> InHand(u)) /\ (Filling(u)' <=> Filling(u))
  BY <1>1, <1>3 DEF InHand, Filling, Freeing
<1>6. PcInv'
  BY <1>2, PcCallPush
<1>7. CountInv'
  BY <1>1, <1>2, <1>3, <1>4, CountFrame DEF queueVars, poolVars
<1>8. PoolInv(F, ft)'
  BY <1>1, <1>2, <1>3, ThreadFacts, PoolFrame DEF poolVars
<1>9. ListInv(A, own, pos, st)'
  BY <1>1, <1>2, <1>5, ThreadFacts, ListFrame DEF queueVars
<1>10. OwnInv(A, F)'
  BY <1>1, <1>2, <1>5, OwnFrame DEF poolVars
<1>11. WatchInv(A, own, st)'
  <2>1. PopWatch'
    BY <1>1, <1>2, <1>3, PopWatchFrame DEF queueVars, WatchInv
  <2>2. ASSUME NEW u \in Pushers PROVE Watch(u, A, own, st)'
    <3>1. CASE u = t
      BY <1>3, <3>1 DEF Watch
    <3>2. CASE u # t
      BY <1>1, <1>2, <1>3, <3>2, ThreadFacts, WatchFrame DEF queueVars, WatchInv
    <3> QED BY <3>1, <3>2
  <2> QED BY <1>1, <1>2, <2>1, <2>2 DEF queueVars, WatchInv
<1>12. \A u \in Pushers : InHand(u) => value'[u] = value[u]
  BY <1>1, <1>3, ThreadFacts DEF InHand
<1>13. DataInv(A, own)'
  BY <1>1, <1>2, <1>4, <1>5, <1>12, ThreadFacts, DataFrame DEF queueVars, ListInv
<1>14. \A v \in Past(Fill) : pushed'[v] = pushed[v]
  BY <1>1, <1>2, TypeFacts, PastFacts
<1>15. OrderInv(A, own, pos)'
  BY <1>1, <1>2, <1>14, OrderFrame DEF queueVars
<1> QED BY <1>2, <1>6, <1>7, <1>8, <1>9, <1>10, <1>11, <1>13, <1>15 DEF Inv, Ghosts

(* A pusher reads pointers, or moves tail on.                                *)
LEMMA StepQuiet ==
  ASSUME NEW A, NEW own, NEW pos, NEW st, NEW F, NEW ft,
         Inv(A, own, pos, st, F, ft), PcInv',
         NEW t \in Pushers, \A u \in Threads : u # t => pc'[u] = pc[u],
         \/ pc[t] \in Alloc /\ pc'[t] \in Alloc
         \/ pc[t] \in Held /\ pc'[t] \in Held
         \/ pc[t] \in Linking /\ pc'[t] \in Linking,
         UNCHANGED <<head, queueId, size, next, data, poolVars, node, r, value, history>>,
         \A u \in Threads : u # t => p'[u] = p[u] /\ q'[u] = q[u],
         tail' = tail \/ (next[tail.at] # Null /\ tail' = next[tail.at]),
         Watch(t, A, own, st)', pc'[t] = "allocCas" => PoolInv(F, ft)'
  PROVE  Inv(A, own, pos, st, F, ft)'
<1>2. /\ Ghosts(A, own, pos, st, F, ft) /\ PcInv /\ CountInv /\ PoolInv(F, ft)
      /\ ListInv(A, own, pos, st) /\ OwnInv(A, F) /\ WatchInv(A, own, st)
      /\ DataInv(A, own) /\ OrderInv(A, own, pos)
  BY DEF Inv
<1>3. /\ t \in Threads /\ t # Popper /\ Popper \in Threads
      /\ \A u \in Threads : u # t => pc'[u] = pc[u]
      /\ pc'[Popper] = pc[Popper]
  BY ThreadFacts
<1>4. Past(Alloc)' = Past(Alloc) /\ Past(Fill)' = Past(Fill) /\ Past(Pending)' = Past(Pending)
  <2>1. /\ pushed' = pushed /\ \A u \in Pushers : value'[u] = value[u]
    BY DEF history
  <2>2. \A u \in Pushers : \/ pc'[u] = pc[u]
                           \/ pc'[u] \in Alloc /\ pc[u] \in Alloc
                           \/ pc'[u] \in Held \cup Linking /\ pc[u] \in Held \cup Linking
    BY <1>3, ThreadFacts
  <2> QED BY ONLY <2>1, <2>2, PushPast
<1>5. \A u \in Threads : (InHand(u)' <=> InHand(u)) /\ (Filling(u)' <=> Filling(u))
  BY <1>3 DEF InHand, Filling, Held, Linking, Alloc
<1>7. CountInv'
  BY <1>2, <1>3, <1>4, CountFrame DEF poolVars, history
<1>8. PoolInv(F, ft)'
  <2>1. CASE pc'[t] # "allocCas"
    BY <1>2, <1>3, <2>1, ThreadFacts, PoolFrame DEF poolVars
  <2> QED BY <2>1
<1>9. ListInv(A, own, pos, st)'
  BY <1>2, <1>5, ThreadFacts, ListFrame
<1>10. OwnInv(A, F)'
  BY <1>2, <1>5, OwnFrame DEF poolVars
<1>11. WatchInv(A, own, st)'
  <2>1. /\ tail'.at \in A /\ own[tail'.at] = Popper /\ tail' = To(tail'.at, st)
        /\ tail.at # head.at => tail'.at # head.at
    BY <1>2, TailMoves
  <2>2. PopWatch'
    BY <1>2, <1>3, <2>1 DEF PopWatch, WatchInv
  <2>3. ASSUME NEW u \in Pushers, u # t PROVE Watch(u, A, own, st)'
    BY <1>2, <1>3, <2>3, ThreadFacts, WatchFrame DEF WatchInv
  <2> QED BY <2>1, <2>2, <2>3 DEF WatchInv
<1>13. DataInv(A, own)'
  BY <1>2, <1>4, <1>5, ThreadFacts, DataFrame DEF ListInv, history
<1>15. OrderInv(A, own, pos)'
  BY <1>2, OrderFrame DEF history
<1> QED BY <1>2, <1>7, <1>8, <1>9, <1>10, <1>11, <1>13, <1>15 DEF Inv, Ghosts

(* The top is read with what is below it; or a new node is made.           *)
LEMMA StepAllocRead ==
  ASSUME NEW A, NEW own, NEW pos, NEW st, NEW F, NEW ft,
         Inv(A, own, pos, st, F, ft), NEW t \in Pushers, AllocRead(t)
  PROVE  Inv(A, own, pos, st, F, ft)'
<1>2. /\ Ghosts(A, own, pos, st, F, ft) /\ PcInv /\ CountInv /\ PoolInv(F, ft)
      /\ ListInv(A, own, pos, st) /\ OwnInv(A, F) /\ WatchInv(A, own, st)
      /\ DataInv(A, own) /\ OrderInv(A, own, pos)
  BY DEF Inv
<1>3. PcInv'
  BY <1>2, PcAllocRead
<1>4. t \in Threads /\ t # Popper /\ Popper \in Threads
  BY ThreadFacts
<1>5. CASE top = Null
  <2>1. /\ pc[t] = "allocRead" /\ pc' = [pc EXCEPT ![t] = "init"]
        /\ fresh' = fresh + 1 /\ node' = [node EXCEPT ![t] = fresh']
        /\ UNCHANGED <<p, q, queueVars, top, poolId, below, r, value, history>>
    BY <1>5 DEF AllocRead, Step
  <2>2. /\ pc'[t] = "init" /\ \A u \in Threads : u # t => pc'[u] = pc[u] /\ node'[u] = node[u]
        /\ node'[t] = fresh + 1 /\ fresh \in Nodes
    BY <1>2, <1>4, <2>1, TypeFacts
  <2>3. Cardinality(Past(Alloc)') = Cardinality(Past(Alloc)) + 1
    <3>1. "allocRead" \in Alloc /\ "init" \notin Alloc /\ "idle" \notin Alloc
      BY DEF Alloc
    <3>2. pushed' = pushed /\ \A u \in Pushers : value'[u] = value[u]
      BY <2>1 DEF history
    <3> QED BY <1>2, <2>1, <3>1, <3>2, PastLeave
  <2>4. \A u \in Pushers : /\ pc'[u] \in Fill <=> pc[u] \in Fill
                           /\ pc'[u] \in Pending <=> pc[u] \in Pending
    BY <2>1, <2>2, ThreadFacts DEF Fill, Alloc, Pending
  <2>5. Past(Fill)' = Past(Fill) /\ Past(Pending)' = Past(Pending)
    <3>1. pushed' = pushed /\ value' = value
      BY <2>1 DEF history
    <3>2. \A u \in Pushers : pc'[u] \in Fill <=> pc[u] \in Fill
      BY <2>4
    <3>3. \A u \in Pushers : pc'[u] \in Pending <=> pc[u] \in Pending
      BY <2>4
    <3> QED BY ONLY <3>1, <3>2, <3>3, PastStay
  <2>6. \A u \in Threads : (InHand(u)' <=> InHand(u)) /\ (Filling(u)' <=> Filling(u) \/ u = t)
    BY <1>4, <2>1, <2>2 DEF InHand, Filling
  <2>7. CountInv'
    <3>1. fresh' <= 1 + Cardinality(Past(Alloc)')
      BY <1>2, <2>1, <2>2, <2>3, PastFacts, PointerFacts DEF CountInv
    <3> QED BY <1>2, <1>4, <2>1, <2>2, <2>5, <3>1 DEF CountInv, queueVars, history
  <2>8. PoolInv(F, ft)'
    BY <1>2, <1>4, <2>1, <2>2, ThreadFacts, PoolFrame
  <2>9. ListInv(A, own, pos, st)'
    <3>1. ~InHand(t)
      BY <2>1 DEF InHand
    <3>2. \A u \in Pushers : InHand(u) => node'[u] = node[u]
      BY <2>2, <3>1, ThreadFacts
    <3> QED BY <1>2, <2>1, <2>6, <3>2, ThreadFacts, ListFrame DEF queueVars
  <2>10. OwnInv(A, F)'
    <3>a. fresh' \in Nodes
      BY <1>3 DEF PcInv, TypeOK
    <3>b. fresh \in Nat /\ fresh + 1 \in Nodes /\ Nodes \subseteq Nat
      BY <2>1, <2>2, <3>a, PointerFacts
    <3>c. \A n \in Nodes : n > fresh => n \notin F /\ n \notin A
      BY <1>2 DEF OwnInv
    <3>1. fresh + 1 \notin F \cup A
      BY <3>b, <3>c
    <3>2. \A n \in Nodes : n > fresh' => n \notin F /\ n \notin A
      BY <2>1, <3>b, <3>c
    <3>d. \A u \in Threads : Filling(u) => node[u] \in (1 .. fresh) \ (F \cup A)
      BY <1>2 DEF OwnInv
    <3>3. ASSUME NEW u \in Threads, Filling(u)'
          PROVE  node'[u] \in (1 .. fresh') \ (F \cup A)
      <4>1. CASE u = t
        BY <2>1, <2>2, <3>1, <3>b, <4>1
      <4>2. CASE u # t
        BY <2>1, <2>2, <2>6, <3>3, <3>b, <3>d, <4>2
      <4> QED BY <4>1, <4>2
    <3>4. ASSUME NEW u \in Threads, u # t, Filling(u)'
          PROVE  node'[u] # node'[t]
      BY <2>2, <2>6, <3>4, <3>b, <3>d
    <3>5. ASSUME NEW u \in Threads, NEW v \in Threads, Filling(u)', Filling(v)',
                 node'[v] = node'[u]
          PROVE  v = u
      <4>1. CASE u = t \/ v = t
        BY <3>4, <3>5, <4>1
      <4>2. CASE u # t /\ v # t
        BY <1>2, <2>2, <2>6, <3>5, <4>2 DEF OwnInv
      <4> QED BY <4>1, <4>2
    <3>6. F \cap A = {}
      BY <1>2 DEF OwnInv
    <3> QED BY <3>2, <3>3, <3>5, <3>6 DEF OwnInv
  <2>11. WatchInv(A, own, st)'
    <3>1. PopWatch'
      BY <1>2, <1>4, <2>1, <2>2, PopWatchFrame DEF queueVars, WatchInv
    <3>2. ASSUME NEW u \in Pushers PROVE Watch(u, A, own, st)'
      <4>1. CASE u = t
        BY <2>2, <4>1 DEF Watch
      <4>2. CASE u # t
        BY <1>2, <2>1, <2>2, <4>2, ThreadFacts, WatchFrame DEF queueVars, WatchInv
      <4> QED BY <4>1, <4>2
    <3> QED BY <1>2, <2>1, <3>1, <3>2 DEF queueVars, WatchInv
  <2>12. DataInv(A, own)'
    <3>1. ~InHand(t)
      BY <2>1 DEF InHand
    <3>2. \A u \in Pushers : InHand(u) => node'[u] = node[u]
      BY <2>2, <3>1, ThreadFacts
    <3>3. \A n \in A : own[n] \in Pushers => InHand(own[n])
      BY <1>2 DEF ListInv
    <3> QED BY <1>2, <2>1, <2>5, <2>6, <3>2, <3>3, ThreadFacts, DataFrame DEF queueVars, history
  <2>13. OrderInv(A, own, pos)'
    BY <1>2, <2>1, OrderFrame DEF queueVars, history
  <2> QED BY <1>2, <1>3, <2>7, <2>8, <2>9, <2>10, <2>11, <2>12, <2>13 DEF Inv, Ghosts
<1>6. CASE top # Null
  <2>1. /\ pc[t] = "allocRead" /\ pc' = [pc EXCEPT ![t] = "allocCas"]
        /\ p' = [p EXCEPT ![t] = top] /\ q' = [q EXCEPT ![t] = below[top.at]]
        /\ UNCHANGED <<fresh, node, queueVars, top, poolId, below, r, value, history>>
    BY <1>6 DEF AllocRead, Step
  <2>2. /\ pc'[t] = "allocCas" /\ p'[t] = top /\ q'[t] = below[top.at]
        /\ \A u \in Threads : u # t => pc'[u] = pc[u] /\ p'[u] = p[u] /\ q'[u] = q[u]
    BY <1>2, <1>4, <2>1, TypeFacts
  <2>3. top.at \in F /\ top.tag = ft[top.at]
    BY <1>2, <1>6 DEF PoolInv, Youngest
  <2>4. PoolInv(F, ft)'
    <3>1. top.tag <= poolId /\ (pc[Popper] \in {"freeCas", "freeAgain"} => top.tag < poolId)
      BY <1>2, <2>3 DEF PoolInv
    <3>2. pc'[Popper] = pc[Popper] /\ p'[Popper] = p[Popper]
      BY <1>4, <2>2
    <3>3. ASSUME NEW u \in Pushers, pc'[u] = "allocCas"
          PROVE  /\ p'[u] # Null /\ p'[u].tag <= poolId
                 /\ pc[Popper] \in {"freeCas", "freeAgain"} => p'[u].tag < poolId
                 /\ (p'[u].at \in F /\ ft[p'[u].at] = p'[u].tag) => below[p'[u].at] = q'[u]
      <4>1. CASE u = t
        BY <1>6, <2>2, <3>1, <4>1
      <4>2. CASE u # t
        BY <1>2, <2>2, <3>3, <4>2, ThreadFacts DEF PoolInv
      <4> QED BY <4>1, <4>2
    <3> QED BY <1>2, <2>1, <3>2, <3>3 DEF PoolInv, Youngest
  <2>5. Watch(t, A, own, st)'
    BY <2>2 DEF Watch
  <2>6. pc[t] \in Alloc /\ pc'[t] \in Alloc
    BY <2>1, <2>2 DEF Alloc
  <2> QED BY <1>3, <2>1, <2>2, <2>4, <2>5, <2>6, StepQuiet DEF queueVars, poolVars
<1> QED BY <1>5, <1>6

(* The tail that is read is a node of the queue, so in no pusher's list.   *)
LEMMA StepPushReadTail ==
  ASSUME NEW A, NEW own, NEW pos, NEW st, NEW F, NEW ft,
         Inv(A, own, pos, st, F, ft), NEW t \in Pushers, PushReadTail(t)
  PROVE  Inv(A, own, pos, st, F, ft)'
<1>1. /\ pc[t] = "readTail" /\ pc' = [pc EXCEPT ![t] = "readNext"]
      /\ p' = [p EXCEPT ![t] = tail]
      /\ UNCHANGED <<queueVars, poolVars, node, q, r, value, history>>
  BY DEF PushReadTail, Step
<1>2. PcInv /\ WatchInv(A, own, st) /\ Ghosts(A, own, pos, st, F, ft)
  BY DEF Inv
<1>3. PcInv'
  BY <1>2, PcPushReadTail
<1>4. /\ pc'[t] = "readNext" /\ p'[t] = tail
      /\ \A u \in Threads : u # t => pc'[u] = pc[u]
      /\ \A u \in Threads : u # t => p'[u] = p[u] /\ q'[u] = q[u]
  BY <1>1, <1>2, ThreadFacts, TypeFacts
<1>5. Watch(t, A, own, st)'
  <2>1. tail.at \in A /\ own[tail.at] = Popper /\ tail.tag = st[tail.at]
    BY <1>2 DEF WatchInv, To
  <2>2. st[tail.at] \in Int /\ tail.at \in Nodes
    BY <1>2, <2>1 DEF Ghosts
  <2> QED BY <1>4, <2>1, <2>2, ThreadFacts DEF Watch
<1> QED BY <1>1, <1>3, <1>4, <1>5, StepQuiet DEF Held, queueVars

(* The next that is read is the node's, as long as it is not filled again. *)
LEMMA StepPushReadNext ==
  ASSUME NEW A, NEW own, NEW pos, NEW st, NEW F, NEW ft,
         Inv(A, own, pos, st, F, ft), NEW t \in Pushers, PushReadNext(t)
  PROVE  Inv(A, own, pos, st, F, ft)'
<1>1. UNCHANGED <<queueVars, poolVars, node, p, r, value, history>>
  BY DEF PushReadNext
<1>2. PcInv /\ WatchInv(A, own, st) /\ Ghosts(A, own, pos, st, F, ft)
  BY DEF Inv
<1>3. /\ PcInv' /\ p[t].at \in Nodes /\ q' = [q EXCEPT ![t] = next[p[t].at]]
      /\ pc[t] = "readNext"
      /\ pc' = [pc EXCEPT ![t] = IF next[p[t].at] = Null THEN "link" ELSE "help"]
  BY <1>2, PcPushReadNext
<1>4. PICK x : x = IF next[p[t].at] = Null THEN "link" ELSE "help"
  OBVIOUS
<1>5. /\ pc' = [pc EXCEPT ![t] = x] /\ pc'[t] = x /\ q'[t] = next[p[t].at]
      /\ \A u \in Threads : u # t => pc'[u] = pc[u]
      /\ \A u \in Threads : u # t => p'[u] = p[u] /\ q'[u] = q[u]
  BY <1>1, <1>2, <1>3, <1>4, ThreadFacts, TypeFacts
<1>6. Watch(t, A, own, st)'
  <2>1. Watch(t, A, own, st)
    BY <1>2 DEF WatchInv
  <2>2. /\ p[t].at \in Nodes /\ p[t].tag <= st[p[t].at]
        /\ \/ st[p[t].at] = p[t].tag /\ ~(p[t].at \in A /\ own[p[t].at] \in Pushers)
           \/ st[p[t].at] > st[node[t]]
    BY <1>3, <2>1 DEF Watch
  <2>3. x = "help" => q'[t] # Null
    BY <1>4, <1>5
  <2>4. next' = next /\ p' = p /\ node' = node /\ x \in {"link", "help"}
    BY <1>1, <1>4 DEF queueVars
  <2> QED BY <1>5, <2>2, <2>3, <2>4 DEF Watch
<1>7. pc[t] \in Held /\ pc'[t] \in Held /\ pc'[t] # "allocCas"
  BY <1>3, <1>4, <1>5 DEF Held
<1>8. UNCHANGED <<head, tail, queueId, size, next, data, poolVars, node, r, value, history>>
  BY <1>1 DEF queueVars
<1> QED BY <1>3, <1>5, <1>6, <1>7, <1>8, StepQuiet

(* tail is moved to its own next or not at all: it still has the tag it    *)
(* was read with, so was not filled again since.                           *)
LEMMA StepPushHelp ==
  ASSUME NEW A, NEW own, NEW pos, NEW st, NEW F, NEW ft,
         Inv(A, own, pos, st, F, ft), NEW t \in Pushers, PushHelp(t)
  PROVE  Inv(A, own, pos, st, F, ft)'
<1>1. /\ pc[t] = "help" /\ pc' = [pc EXCEPT ![t] = "readTail"]
      /\ tail' = IF tail = p[t] THEN q[t] ELSE tail
      /\ UNCHANGED <<head, queueId, size, next, data, poolVars, localVars, history>>
  BY DEF PushHelp, Step, CasTail
<1>2. PcInv /\ WatchInv(A, own, st) /\ Ghosts(A, own, pos, st, F, ft)
  BY DEF Inv
<1>3. PcInv' /\ pc'[t] = "readTail" /\ \A u \in Threads : u # t => pc'[u] = pc[u]
  BY <1>1, <1>2, PcPushHelp, ThreadFacts, TypeFacts
<1>4. tail' = tail \/ (next[tail.at] # Null /\ tail' = next[tail.at])
  <2>1. Watch(t, A, own, st) /\ tail.tag = st[tail.at]
    BY <1>2 DEF WatchInv, To
  <2> QED BY <1>1, <2>1 DEF Watch
<1>5. Watch(t, A, own, st)'
  BY <1>3 DEF Watch
<1> QED BY <1>1, <1>3, <1>4, <1>5, StepQuiet DEF Held, localVars

(* The same, for the node that was linked.                                 *)
LEMMA StepPushSwing ==
  ASSUME NEW A, NEW own, NEW pos, NEW st, NEW F, NEW ft,
         Inv(A, own, pos, st, F, ft), NEW t \in Pushers, PushSwing(t)
  PROVE  Inv(A, own, pos, st, F, ft)'
<1>1. /\ pc[t] = "swing" /\ pc' = [pc EXCEPT ![t] = "count"]
      /\ tail' = IF tail = p[t] THEN r[t] ELSE tail
      /\ UNCHANGED <<head, queueId, size, next, data, poolVars, localVars, history>>
  BY DEF PushSwing, Step, CasTail
<1>2. PcInv /\ WatchInv(A, own, st) /\ Ghosts(A, own, pos, st, F, ft)
  BY DEF Inv
<1>3. PcInv' /\ pc'[t] = "count" /\ \A u \in Threads : u # t => pc'[u] = pc[u]
  BY <1>1, <1>2, PcPushSwing, ThreadFacts, TypeFacts
<1>4. tail' = tail \/ (next[tail.at] # Null /\ tail' = next[tail.at])
  <2>1. Watch(t, A, own, st) /\ tail.tag = st[tail.at]
    BY <1>2 DEF WatchInv, To
  <2> QED BY <1>1, <2>1 DEF Watch
<1>5. Watch(t, A, own, st)'
  BY <1>3 DEF Watch
<1> QED BY <1>1, <1>3, <1>4, <1>5, StepQuiet DEF Linking, localVars

(* An element is counted after it was linked.                              *)
LEMMA StepPushCount ==
  ASSUME NEW A, NEW own, NEW pos, NEW st, NEW F, NEW ft,
         Inv(A, own, pos, st, F, ft), NEW t \in Pushers, PushCount(t)
  PROVE  Inv(A, own, pos, st, F, ft)'
<1>1. /\ t \in Threads /\ t # Popper /\ Popper \in Threads /\ Pushers \subseteq Threads
      /\ UNCHANGED <<head, tail, queueId, next, data, poolVars, history>>
      /\ size' = size + 1 /\ Return(t, "count")
  BY ThreadFacts DEF PushCount
<1>2. /\ Ghosts(A, own, pos, st, F, ft) /\ PcInv /\ CountInv /\ PoolInv(F, ft)
      /\ ListInv(A, own, pos, st) /\ OwnInv(A, F) /\ WatchInv(A, own, st)
      /\ DataInv(A, own) /\ OrderInv(A, own, pos)
  BY DEF Inv
<1>3. PcInv'
  BY <1>2, PcPushCount
<1>4. pc[t] = "count" /\ pc' = [pc EXCEPT ![t] = "idle"] /\ pc'[t] = "idle"
  BY <1>1, <1>2, ReturnTypes, TypeFacts
<1>5. \A u \in Threads : u # t => /\ pc'[u] = pc[u] /\ node'[u] = node[u] /\ p'[u] = p[u]
                                  /\ q'[u] = q[u] /\ r'[u] = r[u] /\ value'[u] = value[u]
  BY <1>1, <1>2, TypeFacts DEF Return, Step
<1>6. \A u \in Threads : (InHand(u)' <=> InHand(u)) /\ (Filling(u)' <=> Filling(u))
  BY <1>1, <1>4, <1>5 DEF InHand, Filling, Freeing
<1>7. ~InHand(t) /\ ~Filling(t)
  BY <1>1, <1>4 DEF InHand, Filling
<1>8. Past(Alloc)' = Past(Alloc) /\ Past(Fill)' = Past(Fill)
  <2>1. pushed' = pushed
    BY <1>1 DEF history
  <2>2. \A u \in Pushers : pc'[u] \in Alloc <=> pc[u] \in Alloc
    BY <1>1, <1>4, <1>5 DEF Alloc
  <2>3. \A u \in Pushers : pc'[u] \in Fill <=> pc[u] \in Fill
    BY <1>1, <1>4, <1>5 DEF Alloc, Fill
  <2>4. \A u \in Pushers : pc[u] \in Alloc => value'[u] = value[u]
    BY <1>1, <1>4, <1>5 DEF Alloc
  <2>5. \A u \in Pushers : pc[u] \in Fill => value'[u] = value[u]
    BY <1>1, <1>4, <1>5 DEF Alloc, Fill
  <2> QED BY ONLY <2>1, <2>2, <2>3, <2>4, <2>5, PastStay
<1>9. Cardinality(Past(Pending)') = Cardinality(Past(Pending)) + 1
  <2>1. pc[t] \in Pending /\ "idle" \notin Pending
    BY <1>4 DEF Pending, Linking, Held, Fill, Alloc
  <2>2. pushed' = pushed /\ \A u \in Pushers : u # t => value'[u] = value[u]
    BY <1>1, <1>5 DEF history
  <2> QED BY <1>2, <1>4, <2>1, <2>2, PastLeave
<1>10. CountInv'
  <2>1. /\ fresh' = fresh /\ queueId' = queueId /\ poolId' = poolId /\ popped' = popped
        /\ pc'[Popper] = pc[Popper]
    BY <1>1, <1>5 DEF poolVars, history
  <2>2. size \in Nat /\ Len(popped) \in Nat /\ Cardinality(Past(Pending)) \in Nat
    BY <1>2, TypeFacts, PastFacts
  <2> QED BY <1>1, <1>2, <1>8, <1>9, <2>1, <2>2 DEF CountInv
<1>11. PoolInv(F, ft)'
  BY <1>1, <1>2, <1>4, <1>5, PoolFrame DEF poolVars
<1>12. ListInv(A, own, pos, st)'
  BY <1>1, <1>2, <1>5, <1>6, <1>7, ListFrame
<1>13. OwnInv(A, F)'
  BY <1>1, <1>2, <1>5, <1>6, <1>7, OwnFrame DEF poolVars
<1>14. WatchInv(A, own, st)'
  <2>1. PopWatch'
    BY <1>1, <1>2, <1>5, PopWatchFrame DEF WatchInv
  <2>2. ASSUME NEW u \in Pushers PROVE Watch(u, A, own, st)'
    <3>1. CASE u = t
      BY <1>4, <3>1 DEF Watch
    <3>2. CASE u # t
      BY <1>1, <1>2, <1>5, <3>2, WatchFrame DEF WatchInv
    <3> QED BY <3>1, <3>2
  <2> QED BY <1>1, <1>2, <2>1, <2>2 DEF WatchInv
<1>15. DataInv(A, own)'
  <2>1. \A n \in A : own[n] \in Pushers => InHand(own[n])
    BY <1>2 DEF ListInv
  <2>2. \A u \in Pushers : InHand(u) => value'[u] = value[u] /\ node'[u] = node[u]
    BY <1>1, <1>5, <1>7
  <2> QED BY <1>1, <1>2, <1>6, <1>8, <2>1, <2>2, DataFrame DEF history
<1>16. OrderInv(A, own, pos)'
  BY <1>1, <1>2, OrderFrame DEF history
<1> QED BY <1>2, <1>3, <1>10, <1>11, <1>12, <1>13, <1>14, <1>15, <1>16 DEF Inv, Ghosts

(* The top of the pool is taken.                                             *)
LEMMA TakeTop ==
  ASSUME NEW F, NEW ft \in [Nodes -> Nat], F \subseteq Nodes, Youngest(top, F, ft), top # Null,
         \A n \in F : Youngest(below[n], {m \in F : ft[m] < ft[n]}, ft),
         \A m, n \in F : ft[m] = ft[n] => m = n
  PROVE  /\ Youngest(below[top.at], F \ {top.at}, ft)
         /\ \A n \in F \ {top.at} :
              Youngest(below[n], {m \in F \ {top.at} : ft[m] < ft[n]}, ft)
<1>1. top.at \in F /\ \A m \in F : ft[m] <= ft[top.at]
  BY DEF Youngest
<1>2. \A m \in F : ft[m] \in Nat
  OBVIOUS
<1>3. \A m \in F : ft[m] < ft[top.at] <=> m # top.at
  BY <1>1, <1>2
<1>4. {m \in F : ft[m] < ft[top.at]} = F \ {top.at}
  BY <1>3
<1>5. ASSUME NEW n \in F \ {top.at}
      PROVE  {m \in F \ {top.at} : ft[m] < ft[n]} = {m \in F : ft[m] < ft[n]}
  BY <1>1, <1>2
<1> QED BY <1>1, <1>4, <1>5

(* A successful exchange takes the youngest free node, and the one below   *)
(* is what was read with it: had the node been freed since, the top would  *)
(* have another tag.                                                       *)
LEMMA StepAllocCas ==
  ASSUME NEW A, NEW own, NEW pos, NEW st, NEW F, NEW ft,
         Inv(A, own, pos, st, F, ft), NEW t \in Pushers, AllocCas(t)
  PROVE  \E G : Inv(A, own, pos, st, G, ft)'
<1>1. /\ t \in Threads /\ t # Popper /\ Popper \in Threads /\ Pushers \subseteq Threads
      /\ pc[t] = "allocCas"
      /\ UNCHANGED <<queueVars, poolId, below, fresh, p, q, r, value, history>>
  BY ThreadFacts DEF AllocCas, Step
<1>2. /\ Ghosts(A, own, pos, st, F, ft) /\ PcInv /\ CountInv /\ PoolInv(F, ft)
      /\ ListInv(A, own, pos, st) /\ OwnInv(A, F) /\ WatchInv(A, own, st)
      /\ DataInv(A, own) /\ OrderInv(A, own, pos)
  BY DEF Inv
<1>3. PcInv'
  BY <1>2, PcAllocCas
<1>4. CASE top # p[t]
  <2>1. pc' = [pc EXCEPT ![t] = "allocRead"] /\ UNCHANGED <<top, node>>
    BY <1>4 DEF AllocCas, Step
  <2>2. pc'[t] = "allocRead" /\ \A u \in Threads : u # t => pc'[u] = pc[u]
    BY <1>1, <1>2, <2>1, TypeFacts
  <2>3. Watch(t, A, own, st)'
    BY <2>2 DEF Watch
  <2>4. Inv(A, own, pos, st, F, ft)'
    BY <1>1, <1>3, <2>1, <2>2, <2>3, StepQuiet DEF Alloc, queueVars, poolVars
  <2> QED BY <2>4
<1>5. CASE top = p[t]
  <2>1. /\ pc' = [pc EXCEPT ![t] = "init"] /\ top' = q[t]
        /\ node' = [node EXCEPT ![t] = top.at]
    BY <1>5 DEF AllocCas, Step
  <2>2. /\ pc'[t] = "init" /\ \A u \in Threads : u # t => pc'[u] = pc[u] /\ node'[u] = node[u]
        /\ node'[t] = top.at
    BY <1>1, <1>2, <2>1, TypeFacts
  <2>3. top # Null /\ top.at \in F /\ top.tag = ft[top.at] /\ q[t] = below[top.at]
    BY <1>1, <1>2, <1>5 DEF PoolInv, Youngest
  <2>4. PICK G : G = F \ {top.at}
    OBVIOUS
  <2>5. Cardinality(Past(Alloc)') = Cardinality(Past(Alloc)) + 1
    <3>1. "allocCas" \in Alloc /\ "init" \notin Alloc /\ "idle" \notin Alloc
      BY DEF Alloc
    <3>2. pushed' = pushed /\ \A u \in Pushers : value'[u] = value[u]
      BY <1>1 DEF history
    <3> QED BY <1>1, <1>2, <2>1, <3>1, <3>2, PastLeave
  <2>6. Past(Fill)' = Past(Fill) /\ Past(Pending)' = Past(Pending)
    <3>1. pushed' = pushed /\ value' = value
      BY <1>1 DEF history
    <3>2. \A u \in Pushers : pc'[u] \in Fill <=> pc[u] \in Fill
      BY <1>1, <2>2 DEF Fill, Alloc
    <3>3. \A u \in Pushers : pc'[u] \in Pending <=> pc[u] \in Pending
      BY <1>1, <2>2 DEF Fill, Alloc, Pending
    <3> QED BY ONLY <3>1, <3>2, <3>3, PastStay
  <2>7. \A u \in Threads : (InHand(u)' <=> InHand(u)) /\ (Filling(u)' <=> Filling(u) \/ u = t)
    BY <1>1, <2>2 DEF InHand, Filling
  <2>8. ~InHand(t)
    BY <1>1 DEF InHand
  <2>9. CountInv'
    <3>1. fresh' <= 1 + Cardinality(Past(Alloc)')
      BY <1>1, <1>2, <2>5, TypeFacts, PastFacts, PointerFacts DEF CountInv
    <3> QED BY <1>1, <1>2, <2>2, <2>6, <3>1 DEF CountInv, queueVars, history
  <2>10. PoolInv(G, ft)'
    <3>1. /\ Youngest(q[t], G, ft)
          /\ \A n \in G : Youngest(below[n], {m \in G : ft[m] < ft[n]}, ft)
      <4>1. /\ ft \in [Nodes -> Nat] /\ F \subseteq Nodes /\ Youngest(top, F, ft)
            /\ \A n \in F : Youngest(below[n], {m \in F : ft[m] < ft[n]}, ft)
            /\ \A m, n \in F : ft[m] = ft[n] => m = n
        BY <1>2 DEF PoolInv, Ghosts
      <4>2. /\ Youngest(below[top.at], F \ {top.at}, ft)
            /\ \A n \in F \ {top.at} :
                 Youngest(below[n], {m \in F \ {top.at} : ft[m] < ft[n]}, ft)
        BY ONLY <2>3, <4>1, TakeTop
      <4> QED BY <2>3, <2>4, <4>2
    <3>2. /\ Youngest(top, G, ft)'
          /\ \A n \in G : Youngest(below[n], {m \in G : ft[m] < ft[n]}, ft)'
      BY <1>1, <2>1, <3>1 DEF Youngest
    <3>3. G \subseteq F
      BY <2>4
    <3>4. \A u \in Pushers : pc'[u] = "allocCas" => pc[u] = "allocCas"
      BY <1>1, <2>2
    <3>5. \A u \in Pushers : pc'[u] = "allocCas" =>
       /\ p'[u] # Null /\ p'[u].tag <= poolId'
       /\ pc'[Popper] \in {"freeCas", "freeAgain"} => p'[u].tag < poolId'
       /\ (p'[u].at \in G /\ ft[p'[u].at] = p'[u].tag) => below'[p'[u].at] = q'[u]
      BY <1>1, <1>2, <2>2, <3>3, <3>4 DEF PoolInv
    <3>6. pc'[Popper] = pc[Popper] /\ node'[Popper] = node[Popper]
      BY <1>1, <2>2
    <3> QED BY <1>1, <1>2, <3>2, <3>3, <3>5, <3>6 DEF PoolInv
  <2>11. ListInv(A, own, pos, st)'
    <3>1. \A u \in Pushers : InHand(u) => node'[u] = node[u]
      BY <1>1, <2>2, <2>8
    <3> QED BY <1>1, <1>2, <2>7, <3>1, ListFrame DEF queueVars
  <2>12. OwnInv(A, G)'
    <3>1. /\ top.at \notin G \cup A /\ top.at \in 1 .. fresh /\ fresh \in Nat /\ fresh' = fresh
          /\ Nodes \subseteq Nat
      <4>1. top.at \notin G /\ top.at \notin A /\ top.at \in Nodes
        BY <1>2, <2>3, <2>4 DEF OwnInv, Ghosts
      <4>2. fresh \in Nat /\ Nodes \subseteq Nat \ {0}
        BY <1>2, TypeFacts, PointerFacts
      <4>3. ~(top.at > fresh)
        BY <1>2, <2>3, <4>1 DEF OwnInv
      <4>4. top.at \in 1 .. fresh
        <5>1. PICK k : k = top.at
          OBVIOUS
        <5>2. k \in Nat \ {0} /\ fresh \in Nat /\ ~(k > fresh)
          BY <4>1, <4>2, <4>3, <5>1
        <5>3. k \in 1 .. fresh
          BY ONLY <5>2
        <5> QED BY <5>1, <5>3
      <4> QED BY <1>1, <4>1, <4>2, <4>4
    <3>2. \A n \in Nodes : n > fresh' => n \notin G /\ n \notin A
      BY <1>2, <2>4, <3>1 DEF OwnInv
    <3>3. \A u \in Threads : Filling(u) => node[u] \in (1 .. fresh) \ (F \cup A)
      BY <1>2 DEF OwnInv
    <3>4. \A u \in Threads : Filling(u)' => node'[u] \in (1 .. fresh') \ (G \cup A)
      BY <2>2, <2>4, <2>7, <3>1, <3>3
    <3>5. \A u \in Threads : u # t /\ Filling(u)' => node'[u] # node'[t]
      BY <2>2, <2>3, <2>7, <3>3
    <3>6. \A u, v \in Threads : u # t /\ v # t /\ Filling(u)' /\ Filling(v)'
            /\ node'[v] = node'[u] => v = u
      BY <1>2, <2>2, <2>7 DEF OwnInv
    <3>7. \A u, v \in Threads : Filling(u)' /\ Filling(v)' /\ node'[v] = node'[u] => v = u
      BY <3>5, <3>6
    <3>8. G \cap A = {}
      BY <1>2, <2>4 DEF OwnInv
    <3> QED BY <3>2, <3>4, <3>7, <3>8 DEF OwnInv
  <2>13. WatchInv(A, own, st)'
    <3>1. PopWatch'
      BY <1>1, <1>2, <2>2, PopWatchFrame DEF queueVars, WatchInv
    <3>2. ASSUME NEW u \in Pushers PROVE Watch(u, A, own, st)'
      <4>1. CASE u = t
        BY <2>2, <4>1 DEF Watch
      <4>2. CASE u # t
        BY <1>1, <1>2, <2>2, <4>2, WatchFrame DEF queueVars, WatchInv
      <4> QED BY <4>1, <4>2
    <3> QED BY <1>1, <1>2, <3>1, <3>2 DEF queueVars, WatchInv
  <2>14. DataInv(A, own)'
    <3>1. \A u \in Pushers : InHand(u) => node'[u] = node[u]
      BY <1>1, <2>2, <2>8
    <3>2. \A n \in A : own[n] \in Pushers => InHand(own[n])
      BY <1>2 DEF ListInv
    <3> QED BY <1>1, <1>2, <2>6, <2>7, <3>1, <3>2, DataFrame DEF queueVars, history
  <2>15. OrderInv(A, own, pos)'
    BY <1>1, <1>2, OrderFrame DEF queueVars, history
  <2>16. Ghosts(A, own, pos, st, G, ft)'
    BY <1>2, <2>4 DEF Ghosts
  <2>17. Inv(A, own, pos, st, G, ft)'
    BY <1>3, <2>9, <2>10, <2>11, <2>12, <2>13, <2>14, <2>15, <2>16 DEF Inv
  <2> QED BY <2>17
<1> QED BY <1>4, <1>5

(* The node gets a tag that no other node has, and is the whole of its     *)
(* pusher's list.                                                          *)
LEMMA StepPushInit ==
  ASSUME MaxPush < TagMod,
         NEW A, NEW own, NEW pos, NEW st, NEW F, NEW ft,
         Inv(A, own, pos, st, F, ft), NEW t \in Pushers, PushInit(t)
  PROVE  \E B, own2, st2 : Inv(B, own2, pos, st2, F, ft)'
<1>1. /\ t \in Threads /\ t # Popper /\ Popper \in Threads /\ Pushers \subseteq Threads
      /\ Popper \notin Pushers
      /\ pc[t] = "init" /\ pc' = [pc EXCEPT ![t] = "readTail"]
      /\ data' = [data EXCEPT ![node[t]] = value[t]]
      /\ next' = [next EXCEPT ![node[t]] = Null]
      /\ queueId' = queueId + 1 /\ r' = [r EXCEPT ![t] = Tagged(node[t], queueId')]
      /\ UNCHANGED <<head, tail, size, poolVars, node, p, q, value, history>>
  BY ThreadFacts DEF PushInit, Step
<1>2. /\ Ghosts(A, own, pos, st, F, ft) /\ PcInv /\ CountInv /\ PoolInv(F, ft)
      /\ ListInv(A, own, pos, st) /\ OwnInv(A, F) /\ WatchInv(A, own, st)
      /\ DataInv(A, own) /\ OrderInv(A, own, pos)
  BY DEF Inv
<1>3. PcInv' /\ node[t] \in Nodes /\ value[t] \in DOMAIN pushed
  BY <1>2, PcPushInit
<1>4. /\ pc'[t] = "readTail" /\ \A u \in Threads : u # t => pc'[u] = pc[u] /\ r'[u] = r[u]
      /\ r'[t] = Tagged(node[t], queueId')
  BY <1>1, <1>2, TypeFacts
<1>5. Past(Alloc)' = Past(Alloc) /\ Past(Pending)' = Past(Pending)
  <2>1. pushed' = pushed /\ value' = value
    BY <1>1 DEF history
  <2>2. \A u \in Pushers : pc'[u] \in Alloc <=> pc[u] \in Alloc
    BY <1>1, <1>4 DEF Alloc
  <2>3. \A u \in Pushers : pc'[u] \in Pending <=> pc[u] \in Pending
    BY <1>1, <1>4 DEF Pending, Fill, Held
  <2> QED BY ONLY <2>1, <2>2, <2>3, PastStay
<1>6. /\ Past(Fill)' = Past(Fill) \cup {value[t]} /\ value[t] \notin Past(Fill)
      /\ Cardinality(Past(Fill)') = Cardinality(Past(Fill)) + 1
      /\ Cardinality(Past(Fill)') <= Len(pushed)
  <2>1. pc[t] \in Fill /\ "readTail" \notin Fill /\ "idle" \notin Fill
    BY <1>1 DEF Fill, Alloc
  <2>2. pushed' = pushed /\ \A u \in Pushers : value'[u] = value[u]
    BY <1>1 DEF history
  <2> QED BY <1>1, <1>2, <2>1, <2>2, PastLeave
<1>7. CountInv'
  BY <1>1, <1>2, <1>4, <1>5, <1>6 DEF CountInv, poolVars, history
<1>8. queueId \in Nat /\ queueId' \in 0 .. MaxPush
  <2>1. queueId \in Nat /\ Len(pushed) \in Nat /\ Len(pushed) <= MaxPush /\ MaxPush \in Nat
    BY <1>2, TypeFacts, PastFacts, ThreadFacts DEF PcInv
  <2>2. queueId' = Cardinality(Past(Fill)')
    BY <1>7 DEF CountInv
  <2> QED BY <1>1, <1>6, <2>1, <2>2
<1>9. PICK n \in Nodes : n = node[t]
  BY <1>3
<1>10. n \notin A /\ n \notin F /\ n \in 1 .. fresh
  BY <1>1, <1>2, <1>9 DEF OwnInv, Filling
<1>11. PICK B : B = A \cup {n}
  OBVIOUS
<1>12. PICK own2 : own2 = [own EXCEPT ![n] = t]
  OBVIOUS
<1>13. PICK st2 : st2 = [st EXCEPT ![n] = queueId + 1]
  OBVIOUS
<1>14. /\ own2 \in [Nodes -> Threads] /\ own2[n] = t /\ st2 \in [Nodes -> Int]
       /\ st2[n] = queueId + 1
       /\ \A m \in Nodes : m # n => own2[m] = own[m] /\ st2[m] = st[m]
  BY <1>1, <1>2, <1>8, <1>12, <1>13 DEF Ghosts
<1>15. /\ next'[n] = Null /\ data'[n] = value[t]
       /\ \A m \in Nodes : m # n => next'[m] = next[m] /\ data'[m] = data[m]
  BY <1>1, <1>2, <1>9, TypeFacts
<1>16. r'[t] = To(n, st2)
  BY <1>4, <1>8, <1>9, <1>14, <1>1, Untagged DEF To
<1>17. ~InHand(t) /\ \A m \in A : own[m] # t
  BY <1>1, <1>2 DEF InHand, ListInv
<1>18. \A u \in Threads : /\ InHand(u)' <=> InHand(u) \/ u = t
                          /\ Filling(u)' <=> Filling(u) /\ u # t
  BY <1>1, <1>4 DEF InHand, Filling
<1>19. A \subseteq Nodes /\ \A m \in A : m # n /\ m \in Nodes
  BY <1>2, <1>10 DEF Ghosts
<1>20. Ghosts(B, own2, pos, st2, F, ft)'
  BY <1>2, <1>11, <1>14, <1>19 DEF Ghosts
<1>21. PoolInv(F, ft)'
  BY <1>1, <1>2, <1>4, PoolFrame DEF poolVars
<1>22. OwnInv(B, F)'
  <2>1. fresh' = fresh /\ node' = node /\ fresh \in Nat /\ n \in Nat
    BY <1>1, <1>2, TypeFacts, PointerFacts DEF poolVars
  <2>2. \A m \in Nodes : m > fresh => m \notin F /\ m \notin B
    BY <1>2, <1>10, <1>11, <2>1 DEF OwnInv
  <2>3. \A u \in Threads : Filling(u) /\ u # t => node[u] # n
    BY <1>1, <1>2, <1>9 DEF OwnInv, Filling
  <2>4. \A u \in Threads : Filling(u)' => node'[u] \in (1 .. fresh') \ (F \cup B)
    BY <1>2, <1>11, <1>18, <2>1, <2>3 DEF OwnInv
  <2>5. F \cap B = {}
    BY <1>2, <1>10, <1>11 DEF OwnInv
  <2>6. \A u, v \in Threads : Filling(u)' /\ Filling(v)' /\ node'[v] = node'[u] => v = u
    BY <1>2, <1>18, <2>1 DEF OwnInv
  <2> QED BY <2>1, <2>2, <2>4, <2>5, <2>6 DEF OwnInv
<1>23. ListInv(B, own2, pos, st2)'
  <2>1. head' = To(head'.at, st2)
    <3>1. head.at \in A /\ head = To(head.at, st)
      BY <1>2, HeadFacts
    <3>2. st2[head.at] = st[head.at]
      BY <1>14, <1>19, <3>1
    <3> QED BY <1>1, <3>1, <3>2 DEF To
  <2>2. \A u \in Threads : u # t => Root(u)' = Root(u)
    BY <1>1 DEF Root
  <2>3. ASSUME NEW u \in Threads, u = Popper \/ InHand(u)'
        PROVE  /\ Root(u)' \in B /\ own2[Root(u)'] = u
               /\ \A m \in B : own2[m] = u => pos[Root(u)'] <= pos[m]
    <3>1. CASE u = t
      <4>1. Root(u)' = n
        BY <1>1, <1>9, <3>1 DEF Root
      <4>2. pos[n] \in Int
        BY <1>2 DEF Ghosts
      <4>3. \A m \in B : own2[m] = t => m = n
        BY <1>11, <1>14, <1>17, <1>19
      <4> QED BY <1>11, <1>14, <3>1, <4>1, <4>2, <4>3
    <3>2. CASE u # t
      <4>1. /\ Root(u) \in A /\ own[Root(u)] = u
            /\ \A m \in A : own[m] = u => pos[Root(u)] <= pos[m]
        BY <1>2, <1>18, <2>3, <3>2 DEF ListInv
      <4> QED BY <1>11, <1>14, <1>19, <2>2, <3>2, <4>1
    <3> QED BY <3>1, <3>2
  <2>4. ASSUME NEW u \in Pushers, InHand(u)'
        PROVE  r'[u] = To(node'[u], st2)
    <3>1. CASE u = t
      BY <1>1, <1>9, <1>16, <3>1
    <3>2. CASE u # t
      <4>1. node[u] \in A /\ r[u] = To(node[u], st)
        BY <1>1, <1>2, <1>18, <2>4, <3>2 DEF ListInv, Root
      <4> QED BY <1>1, <1>4, <1>14, <1>19, <3>2, <4>1 DEF To
    <3> QED BY <3>1, <3>2
  <2>5. ASSUME NEW m \in B, own2[m] \in Pushers
        PROVE  InHand(own2[m])' /\ st2[m] <= st2[node'[own2[m]]]
    <3>1. CASE m = n
      BY <1>1, <1>8, <1>9, <1>14, <1>18, <3>1
    <3>2. CASE m # n
      <4>1. m \in A /\ own2[m] = own[m] /\ st2[m] = st[m]
        BY <1>11, <1>14, <1>19, <3>2
      <4>2. InHand(own[m]) /\ st[m] <= st[node[own[m]]]
        BY <1>2, <2>5, <4>1 DEF ListInv
      <4>3. node[own[m]] \in A
        BY <1>1, <1>2, <2>5, <4>1, <4>2 DEF ListInv, Root
      <4> QED BY <1>1, <1>14, <1>18, <1>19, <2>5, <4>1, <4>2, <4>3
    <3> QED BY <3>1, <3>2
  <2>6. ASSUME NEW m \in B
        PROVE  \/ next'[m] = Null /\ \A k \in B : own2[k] = own2[m] => pos[k] <= pos[m]
               \/ /\ next'[m] = To(next'[m].at, st2) /\ next'[m].at \in B
                  /\ own2[next'[m].at] = own2[m] /\ pos[next'[m].at] = pos[m] + 1
    <3>1. CASE m = n
      <4>1. \A k \in B : own2[k] = t => k = n
        BY <1>11, <1>14, <1>17, <1>19
      <4>2. pos[n] \in Int
        BY <1>2 DEF Ghosts
      <4> QED BY <1>14, <1>15, <3>1, <4>1, <4>2
    <3>2. CASE m # n
      <4>1. m \in A /\ own2[m] = own[m] /\ next'[m] = next[m] /\ own2[m] # t
        BY <1>11, <1>14, <1>15, <1>17, <1>19, <3>2
      <4>2. CASE next[m] = Null /\ \A k \in A : own[k] = own[m] => pos[k] <= pos[m]
        BY <1>11, <1>14, <1>19, <4>1, <4>2
      <4>3. CASE /\ next[m] = To(next[m].at, st) /\ next[m].at \in A
                 /\ own[next[m].at] = own[m] /\ pos[next[m].at] = pos[m] + 1
        <5>1. own2[next[m].at] = own[next[m].at] /\ st2[next[m].at] = st[next[m].at]
          BY <1>14, <1>19, <4>3
        <5> QED BY <1>11, <4>1, <4>3, <5>1 DEF To
      <4> QED BY <1>2, <4>1, <4>2, <4>3 DEF ListInv
    <3> QED BY <3>1, <3>2
  <2>7. \A m, k \in B : own2[m] = own2[k] /\ pos[m] = pos[k] => m = k
    BY <1>2, <1>11, <1>14, <1>17, <1>19 DEF ListInv
  <2>8. \A m \in Nodes \ B : st2[m] >= 0 => next'[m] # Null
    BY <1>2, <1>11, <1>14, <1>15 DEF ListInv
  <2>9. \A m \in B : st2[m] >= 0
    BY <1>2, <1>8, <1>11, <1>14, <1>19 DEF ListInv
  <2>10. \A m \in Nodes : st2[m] <= queueId'
    <3>1. \A m \in Nodes : st[m] \in Int /\ st[m] <= queueId
      BY <1>2 DEF ListInv, Ghosts
    <3> QED BY <1>1, <1>8, <1>14, <3>1
  <2> QED BY <2>1, <2>3, <2>4, <2>5, <2>6, <2>7, <2>8, <2>9, <2>10 DEF ListInv
<1>24. WatchInv(B, own2, st2)'
  <2>1. tail'.at \in B /\ own2[tail'.at] = Popper /\ tail' = To(tail'.at, st2)
    BY <1>1, <1>2, <1>11, <1>14, <1>19 DEF WatchInv, To
  <2>2. PopWatch'
    <3>1. head.at # n /\ next'[head.at] = next[head.at]
      BY <1>2, <1>15, <1>19, HeadFacts
    <3>2. next[head.at] # Null => data'[next[head.at].at] = data[next[head.at].at]
      BY <1>2, <1>15, <1>19, HeadFacts
    <3>3. /\ pc'[Popper] = pc[Popper] /\ r'[Popper] = r[Popper] /\ p' = p /\ q' = q
          /\ value' = value /\ head' = head /\ tail' = tail
      BY <1>1, <1>4
    <3>4. PopWatch
      BY <1>2 DEF WatchInv
    <3> QED BY <3>1, <3>2, <3>3, <3>4 DEF PopWatch
  <2>3. ASSUME NEW u \in Pushers PROVE Watch(u, B, own2, st2)'
    <3>1. CASE u = t
      BY <1>4, <3>1 DEF Watch
    <3>2. CASE u # t
      <4>1. /\ pc'[u] = pc[u] /\ p'[u] = p[u] /\ q'[u] = q[u] /\ r'[u] = r[u]
            /\ node'[u] = node[u]
        BY <1>1, <1>4, <3>2
      <4>2. Watch(u, A, own, st)
        BY <1>2 DEF WatchInv
      <4>3. CASE pc[u] \notin {"readNext", "help", "link", "swing"}
        BY <4>1, <4>3 DEF Watch
      <4>4. CASE pc[u] \in {"readNext", "help", "link", "swing"} /\ p[u].at # n
        <5>1. p[u].at \in Nodes
          BY <4>2, <4>4 DEF Watch
        <5>2. /\ own2[p[u].at] = own[p[u].at] /\ st2[p[u].at] = st[p[u].at]
              /\ next'[p[u].at] = next[p[u].at] /\ (p[u].at \in B <=> p[u].at \in A)
          BY <1>11, <1>14, <1>15, <4>4, <5>1
        <5>3. pc[u] \in {"readNext", "help", "link"} => st2[node[u]] = st[node[u]]
          <6>1. ASSUME InHand(u) PROVE node[u] \in A
            BY <1>1, <1>2, <6>1 DEF ListInv, Root
          <6> QED BY <1>14, <1>19, <6>1 DEF InHand
        <5> QED BY <4>1, <4>2, <5>1, <5>2, <5>3 DEF Watch
      <4>5. CASE pc[u] \in {"readNext", "help", "link", "swing"} /\ p[u].at = n
        <5>1. p[u].tag <= st[n] /\ st[n] <= queueId /\ p[u].tag \in Nat /\ st[n] \in Int
          BY <1>1, <1>2, <4>2, <4>5, TypeFacts, PointerFacts DEF Watch, ListInv, Ghosts
        <5>2. pc[u] \in {"readNext", "help", "link"} => st2[n] > st2[node[u]]
          <6>1. ASSUME InHand(u) PROVE node[u] \in A
            BY <1>1, <1>2, <6>1 DEF ListInv, Root
          <6>2. \A m \in A : st2[m] <= queueId /\ st2[m] \in Int
            BY <1>2, <1>14, <1>19 DEF ListInv
          <6> QED BY <1>8, <1>14, <6>1, <6>2 DEF InHand
        <5>3. p[u].tag < st2[n]
          BY <1>8, <1>14, <5>1
        <5>4. p'[u].tag # st2[n] /\ p'[u].tag <= st2[n]
          BY <1>8, <1>14, <4>1, <5>1, <5>3
        <5> QED BY <4>1, <4>2, <4>5, <5>2, <5>4 DEF Watch
      <4> QED BY <4>3, <4>4, <4>5
    <3> QED BY <3>1, <3>2
  <2> QED BY <2>1, <2>2, <2>3 DEF WatchInv
<1>25. \A m \in B : Live(m, B)' <=> m = n \/ Live(m, A)
  BY <1>1, <1>2, <1>11, <1>19, HeadFacts DEF Live
<1>26. DataInv(B, own2)'
  <2>1. \A m \in A : Live(m, A) => data'[m] \in Past(Fill) /\ data'[m] # value[t]
    BY <1>2, <1>6, <1>15, <1>19 DEF DataInv
  <2>2. \A i \in 1 .. Len(popped) : popped[i] \in Past(Fill) /\ popped[i] # value[t]
    BY <1>2, <1>6 DEF DataInv
  <2>3. \A u \in Pushers : InHand(u)' => data'[node'[u]] = value'[u]
    <3>1. ASSUME NEW u \in Pushers, InHand(u) PROVE node[u] \in A
      BY <1>1, <1>2, <3>1 DEF ListInv, Root
    <3> QED BY <1>1, <1>2, <1>9, <1>15, <1>18, <1>19, <3>1 DEF DataInv
  <2>4. \A m \in B : own2[m] \in Pushers /\ m # node'[own2[m]] => data'[m] \in displaced'
    BY <1>1, <1>2, <1>9, <1>11, <1>14, <1>15, <1>19 DEF DataInv, history
  <2>5. \A m \in B : Live(m, B)' => data'[m] \in Past(Fill)'
    BY <1>6, <1>11, <1>15, <1>25, <2>1
  <2>6. \A m, k \in B : Live(m, B)' /\ Live(k, B)' /\ data'[m] = data'[k] => m = k
    <3>1. \A m, k \in A : Live(m, A) /\ Live(k, A) /\ data'[m] = data'[k] => m = k
      BY <1>2, <1>15, <1>19 DEF DataInv
    <3> QED BY <1>11, <1>15, <1>25, <2>1, <3>1
  <2>7. ASSUME NEW v \in Past(Fill)'
        PROVE  \/ \E i \in 1 .. Len(popped) : popped[i] = v
               \/ \E m \in B : Live(m, B)' /\ data'[m] = v
    <3>1. CASE v = value[t]
      BY <1>11, <1>15, <1>25, <3>1
    <3>2. CASE v # value[t]
      <4>1. v \in Past(Fill)
        BY <1>6, <3>2
      <4>2. \/ \E i \in 1 .. Len(popped) : popped[i] = v
            \/ \E m \in A : Live(m, A) /\ data[m] = v
        BY <1>2, <4>1 DEF DataInv
      <4> QED BY <1>11, <1>15, <1>19, <1>25, <4>2
    <3> QED BY <3>1, <3>2
  <2>8. \A i \in 1 .. Len(popped), m \in B : Live(m, B)' => popped[i] # data'[m]
    <3>1. \A i \in 1 .. Len(popped), m \in A : Live(m, A) => popped[i] # data'[m]
      BY <1>2, <1>15, <1>19 DEF DataInv
    <3> QED BY <1>11, <1>15, <1>25, <2>2, <3>1
  <2>9. popped' = popped /\ \A i \in 1 .. Len(popped) : popped[i] \in Past(Fill)'
    BY <1>1, <1>6, <2>2 DEF history
  <2> QED BY <2>3, <2>4, <2>5, <2>6, <2>7, <2>8, <2>9 DEF DataInv
<1>27. OrderInv(B, own2, pos)'
  <2>1. \A m \in B : Queued(m, B, own2)' => m \in A /\ Queued(m, A, own) /\ data'[m] = data[m]
    BY <1>1, <1>11, <1>14, <1>15, <1>19, <1>25 DEF Queued
  <2>2. \A v, w : Apart(v, w)' <=> Apart(v, w)
    BY <1>1 DEF Apart, history
  <2>3. popped' = popped
    BY <1>1 DEF history
  <2>4. \A i \in 1 .. Len(popped), m \in B : Queued(m, B, own2)' => Apart(popped[i], data'[m])
    BY <1>2, <2>1 DEF OrderInv
  <2>5. \A m, k \in B : Queued(m, B, own2)' /\ Queued(k, B, own2)' /\ pos[m] < pos[k] =>
                          Apart(data'[m], data'[k])
    BY <1>2, <2>1 DEF OrderInv
  <2>6. \A i, j \in 1 .. Len(popped) : i < j => Apart(popped[i], popped[j])
    BY <1>2 DEF OrderInv
  <2>7. \A i, j \in 1 .. Len(popped') : i < j => Apart(popped[i], popped[j])'
    BY <2>3, <2>2, <2>6
  <2>8. \A i \in 1 .. Len(popped'), m \in B : Queued(m, B, own2)' => Apart(popped[i], data[m])'
    BY <1>1, <2>3, <2>4 DEF Apart, history
  <2>9. \A m, k \in B : Queued(m, B, own2)' /\ Queued(k, B, own2)' /\ pos[m] < pos[k] =>
                          Apart(data[m], data[k])'
    BY <1>1, <2>5 DEF Apart, history
  <2> QED BY <2>7, <2>8, <2>9 DEF OrderInv
<1>28. Inv(B, own2, pos, st2, F, ft)'
  BY <1>3, <1>7, <1>20, <1>21, <1>22, <1>23, <1>24, <1>26, <1>27 DEF Inv
<1> QED BY <1>28

(* A null next is that of the last node of some list, or of a node in      *)
(* hand: the pusher's list is appended to it, and displaced if it is not   *)
(* the queue.                                                              *)
LEMMA StepPushLink ==
  ASSUME NEW A, NEW own, NEW pos, NEW st, NEW F, NEW ft,
         Inv(A, own, pos, st, F, ft), NEW t \in Pushers, PushLink(t)
  PROVE  \E own2, pos2 : Inv(A, own2, pos2, st, F, ft)'
<1>1. /\ t \in Threads /\ t # Popper /\ Popper \in Threads /\ Pushers \subseteq Threads
      /\ Popper \notin Pushers
      /\ pc[t] = "link"
      /\ UNCHANGED <<head, tail, queueId, size, data, poolVars, localVars, pushed, popped>>
  BY ThreadFacts DEF PushLink
<1>2. /\ Ghosts(A, own, pos, st, F, ft) /\ PcInv /\ CountInv /\ PoolInv(F, ft)
      /\ ListInv(A, own, pos, st) /\ OwnInv(A, F) /\ WatchInv(A, own, st)
      /\ DataInv(A, own) /\ OrderInv(A, own, pos)
  BY DEF Inv
<1>3. PcInv' /\ p[t].at \in Nodes
  BY <1>2, PcPushLink
<1>4. CASE next[p[t].at] # Null
  <2>1. pc' = [pc EXCEPT ![t] = "readTail"] /\ UNCHANGED <<next, displaced>>
    BY <1>4 DEF PushLink, Step
  <2>2. pc'[t] = "readTail" /\ \A u \in Threads : u # t => pc'[u] = pc[u]
    BY <1>1, <1>2, <2>1, TypeFacts
  <2>3. Watch(t, A, own, st)'
    BY <2>2 DEF Watch
  <2>4. pc[t] \in Held /\ pc'[t] \in Held
    BY <1>1, <2>2 DEF Held
  <2>5. Inv(A, own, pos, st, F, ft)'
    BY <1>1, <1>3, <2>1, <2>2, <2>3, <2>4, StepQuiet DEF localVars, history
  <2> QED BY <2>5
<1>5. CASE next[p[t].at] = Null
  <2>1. PICK m0 \in Nodes : m0 = p[t].at
    BY <1>3
  <2>2. PICK c : c = own[m0]
    OBVIOUS
  <2>3. PICK k0 : k0 = node[t]
    OBVIOUS
  <2>4. /\ pc' = [pc EXCEPT ![t] = "swing"] /\ next' = [next EXCEPT ![m0] = r[t]]
        /\ displaced' = IF m0 \in Elements(Chain(head)) THEN displaced
                        ELSE displaced \cup {value[t]}
    BY <1>5, <2>1 DEF PushLink, Step
  <2>5. /\ head' = head /\ tail' = tail /\ queueId' = queueId /\ size' = size /\ data' = data
        /\ UNCHANGED poolVars /\ node' = node /\ p' = p /\ q' = q /\ r' = r /\ value' = value
        /\ pushed' = pushed /\ popped' = popped
    BY <1>1 DEF localVars
  <2>6. /\ pc'[t] = "swing" /\ \A u \in Threads : u # t => pc'[u] = pc[u]
        /\ next'[m0] = r[t] /\ \A m \in Nodes : m # m0 => next'[m] = next[m]
    BY <1>1, <1>2, <2>4, TypeFacts
  <2>7. /\ A \subseteq Nodes /\ \A m \in A : m \in Nodes /\ pos[m] \in Int /\ st[m] \in Int
        /\ own \in [Nodes -> Threads] /\ pos \in [Nodes -> Int] /\ st \in [Nodes -> Int]
    BY <1>2 DEF Ghosts
  <2>8. /\ p[t].tag <= st[m0]
        /\ \/ st[m0] = p[t].tag /\ ~(m0 \in A /\ c \in Pushers)
           \/ st[m0] > st[k0]
    BY <1>1, <1>2, <2>1, <2>2, <2>3 DEF WatchInv, Watch
  <2>9. m0 \in A
    <3>1. p[t].tag \in Nat /\ st[m0] \in Int
      BY <1>1, <1>2, <2>7, TypeFacts, PointerFacts
    <3>2. st[m0] >= 0
      BY <2>8, <3>1
    <3> QED BY <1>2, <1>5, <2>1, <3>2 DEF ListInv
  <2>10. InHand(t) /\ ~InHand(t)' /\ \A u \in Threads : u # t => (InHand(u)' <=> InHand(u))
    BY <1>1, <2>6 DEF InHand
  <2>11. /\ k0 \in A /\ own[k0] = t /\ \A m \in A : own[m] = t => pos[k0] <= pos[m]
         /\ r[t] = To(k0, st)
    BY <1>1, <1>2, <2>3, <2>10 DEF ListInv, Root
  <2>12. c \in Threads /\ c # t /\ (c \in Pushers => st[m0] > st[k0])
    <3>1. c \in Threads
      BY <2>2, <2>7
    <3>2. c \in Pushers => st[m0] > st[k0]
      BY <2>8, <2>9
    <3>3. ASSUME c = t PROVE FALSE
      <4>0. own[m0] = t /\ own[m0] \in Pushers
        BY <2>2, <3>3
      <4>1. st[m0] <= st[k0]
        BY <1>2, <2>3, <2>9, <4>0 DEF ListInv
      <4> QED BY <2>7, <2>9, <2>11, <3>2, <3>3, <4>1
    <3> QED BY <3>1, <3>2, <3>3
  <2>13. \A m \in A : own[m] = c => pos[m] <= pos[m0]
    <3>1. next[m0].at \notin A
      BY <1>5, <2>1, <2>7, PointerFacts DEF Null
    <3> QED BY <1>2, <2>2, <2>9, <3>1 DEF ListInv
  <2>14. PICK own2 : own2 = [m \in Nodes |-> IF m \in A /\ own[m] = t THEN c ELSE own[m]]
    OBVIOUS
  <2>15. PICK d \in Int : d = pos[m0] + 1 - pos[k0]
    BY <2>7, <2>9, <2>11
  <2>16. PICK pos2 : pos2 = [m \in Nodes |-> IF m \in A /\ own[m] = t THEN pos[m] + d ELSE pos[m]]
    OBVIOUS
  <2>17. \A m \in A : /\ own[m] = t => own2[m] = c /\ pos2[m] = pos[m] + d
                      /\ own[m] # t => own2[m] = own[m] /\ pos2[m] = pos[m]
    BY <2>7, <2>14, <2>16
  <2>18. own2 \in [Nodes -> Threads] /\ pos2 \in [Nodes -> Int]
    BY <2>7, <2>12, <2>14, <2>16
  <2>19. \A m \in A : own[m] = t => pos2[m] > pos[m0]
    BY <2>7, <2>9, <2>11, <2>15, <2>17
  <2>20. Past(Alloc)' = Past(Alloc) /\ Past(Fill)' = Past(Fill) /\ Past(Pending)' = Past(Pending)
    <3>1. \A u \in Pushers : \/ pc'[u] = pc[u]
                             \/ pc'[u] \in Alloc /\ pc[u] \in Alloc
                             \/ pc'[u] \in Held \cup Linking /\ pc[u] \in Held \cup Linking
      BY <1>1, <2>6 DEF Held, Linking
    <3> QED BY <2>5, <3>1, PushPast
  <2>21. m0 \in Elements(Chain(head)) <=> c = Popper
    <3>1. /\ head.at \in A /\ own[head.at] = Popper
          /\ \A n \in A : own[n] = own[head.at] => pos[head.at] <= pos[n]
      BY <1>2, HeadFacts
    <3>2. PcInv /\ Ghosts(A, own, pos, st, F, ft) /\ ListInv(A, own, pos, st)
      BY <1>2
    <3>3. PICK h : h = head.at
      OBVIOUS
    <3>4. h \in A /\ \A n \in A : own[n] = own[h] => pos[h] <= pos[n]
      BY <3>1, <3>3
    <3>5. Elements(Chain(head)) = {n \in A : own[n] = own[h]}
      BY ONLY <3>2, <3>3, <3>4, ChainOf
    <3> QED BY <2>2, <2>9, <3>1, <3>3, <3>5
  <2>22. /\ displaced \subseteq displaced' /\ (c # Popper => value[t] \in displaced')
         /\ (c = Popper => displaced' = displaced)
    BY <2>4, <2>21
  <2>23. CountInv'
    BY <1>1, <1>2, <2>5, <2>6, <2>20, CountFrame DEF poolVars
  <2>24. PoolInv(F, ft)'
    BY <1>1, <1>2, <2>5, <2>6, PoolFrame DEF poolVars
  <2>25. OwnInv(A, F)'
    <3>1. \A u \in Threads : Filling(u)' => Filling(u)
      BY <1>1, <2>6 DEF Filling
    <3> QED BY <1>2, <2>5, <3>1, OwnFrame DEF poolVars
  <2>26. ListInv(A, own2, pos2, st)'
    <3>1. head' = To(head'.at, st)
      BY <1>2, <2>5 DEF ListInv
    <3>2. ASSUME NEW u \in Threads, u = Popper \/ InHand(u)'
          PROVE  /\ Root(u)' \in A /\ own2[Root(u)'] = u
                 /\ \A m \in A : own2[m] = u => pos2[Root(u)'] <= pos2[m]
      <4>1. u # t /\ (u = Popper \/ InHand(u)) /\ Root(u)' = Root(u)
        BY <1>1, <2>5, <2>10, <3>2 DEF Root
      <4>2. /\ Root(u) \in A /\ own[Root(u)] = u
            /\ \A m \in A : own[m] = u => pos[Root(u)] <= pos[m]
        BY <1>2, <4>1 DEF ListInv
      <4>3. own2[Root(u)] = u /\ pos2[Root(u)] = pos[Root(u)]
        BY <2>17, <4>1, <4>2
      <4>4. ASSUME NEW m \in A, own2[m] = u PROVE pos[Root(u)] <= pos2[m]
        <5>1. CASE own[m] = t
          <6>1. own[m0] = u /\ pos[Root(u)] <= pos[m0]
            BY <2>2, <2>9, <2>17, <4>2, <4>4, <5>1
          <6>2. pos2[m] > pos[m0] /\ pos2[m] \in Int
            BY <2>7, <2>18, <2>19, <5>1
          <6> QED BY <2>7, <2>9, <4>2, <6>1, <6>2
        <5>2. CASE own[m] # t
          BY <2>17, <4>2, <4>4, <5>2
        <5> QED BY <5>1, <5>2
      <4> QED BY <4>1, <4>2, <4>3, <4>4
    <3>3. \A u \in Pushers : InHand(u)' => r'[u] = To(node'[u], st)
      BY <1>1, <1>2, <2>5, <2>10 DEF ListInv
    <3>4. ASSUME NEW m \in A, own2[m] \in Pushers
          PROVE  InHand(own2[m])' /\ st[m] <= st[node'[own2[m]]]
      <4>1. CASE own[m] = t
        <5>1. own2[m] = c /\ c \in Pushers
          BY <2>17, <3>4, <4>1
        <5>2. InHand(c) /\ st[m0] <= st[node[c]]
          BY <1>2, <2>2, <2>9, <5>1 DEF ListInv
        <5>3. st[m] <= st[k0]
          BY <1>2, <2>3, <4>1 DEF ListInv
        <5>4. node[c] \in A
          BY <1>1, <1>2, <5>1, <5>2 DEF ListInv, Root
        <5>5. st[m] <= st[node[c]]
          BY <2>7, <2>9, <2>11, <2>12, <5>1, <5>2, <5>3, <5>4
        <5> QED BY <2>5, <2>10, <2>12, <5>1, <5>2, <5>5
      <4>2. CASE own[m] # t
        <5>1. own2[m] = own[m] /\ InHand(own[m]) /\ st[m] <= st[node[own[m]]]
          BY <1>2, <2>17, <3>4, <4>2 DEF ListInv
        <5> QED BY <1>1, <2>5, <2>10, <3>4, <4>2, <5>1
      <4> QED BY <4>1, <4>2
    <3>5. ASSUME NEW m \in A
          PROVE  \/ next'[m] = Null /\ \A k \in A : own2[k] = own2[m] => pos2[k] <= pos2[m]
                 \/ /\ next'[m] = To(next'[m].at, st) /\ next'[m].at \in A
                    /\ own2[next'[m].at] = own2[m] /\ pos2[next'[m].at] = pos2[m] + 1
      <4>1. CASE m = m0
        <5>1. next'[m] = To(k0, st) /\ next'[m].at = k0
          BY <2>6, <2>11, <4>1 DEF To
        <5>2. own2[k0] = c /\ own2[m0] = c /\ pos2[m0] = pos[m0] /\ pos2[k0] = pos[k0] + d
          BY <2>2, <2>9, <2>11, <2>12, <2>17
        <5>3. pos2[k0] = pos2[m0] + 1
          BY <2>7, <2>9, <2>11, <2>15, <5>2
        <5> QED BY <2>11, <4>1, <5>1, <5>2, <5>3
      <4>2. CASE m # m0
        <5>1. next'[m] = next[m]
          BY <2>6, <2>7, <4>2
        <5>2. CASE next[m] = Null /\ \A k \in A : own[k] = own[m] => pos[k] <= pos[m]
          <6>1. own[m] # c
            <7>1. ASSUME own[m] = c PROVE FALSE
              <8>1. pos[m0] <= pos[m] /\ pos[m] <= pos[m0]
                BY <2>2, <2>9, <2>13, <5>2, <7>1
              <8>2. pos[m0] = pos[m]
                BY <2>7, <2>9, <8>1
              <8> QED BY <1>2, <2>2, <2>9, <4>2, <7>1, <8>2 DEF ListInv
            <7> QED BY <7>1
          <6>2. ASSUME NEW k \in A, own2[k] = own2[m] PROVE pos2[k] <= pos2[m]
            <7>1. CASE own[m] = t /\ own[k] = t
              BY <2>7, <2>17, <5>2, <7>1
            <7>2. CASE own[m] = t /\ own[k] # t
              <8>1. own[k] = c /\ pos2[k] = pos[k] /\ pos[k] <= pos[m0]
                BY <2>13, <2>17, <6>2, <7>2
              <8>2. pos2[m] > pos[m0] /\ pos2[m] \in Int
                BY <2>7, <2>18, <2>19, <7>2
              <8> QED BY <2>7, <2>9, <8>1, <8>2
            <7>3. CASE own[m] # t
              <8>1. own[k] = own[m] /\ own[k] # t
                BY <2>17, <6>1, <6>2, <7>3
              <8> QED BY <2>17, <5>2, <8>1
            <7> QED BY <7>1, <7>2, <7>3
          <6> QED BY <5>1, <5>2, <6>2
        <5>3. CASE /\ next[m] = To(next[m].at, st) /\ next[m].at \in A
                   /\ own[next[m].at] = own[m] /\ pos[next[m].at] = pos[m] + 1
          <6>1. own2[next[m].at] = own2[m]
            BY <2>17, <5>3
          <6>2. pos2[next[m].at] = pos2[m] + 1
            BY <2>7, <2>17, <5>3
          <6> QED BY <5>1, <5>3, <6>1, <6>2
        <5> QED BY <1>2, <5>2, <5>3 DEF ListInv
      <4> QED BY <4>1, <4>2
    <3>6. ASSUME NEW m \in A, NEW k \in A, own2[m] = own2[k], pos2[m] = pos2[k]
          PROVE  m = k
      <4>1. CASE own[m] = t /\ own[k] = t
        <5>1. pos[m] = pos[k]
          BY <2>7, <2>17, <3>6, <4>1
        <5> QED BY <1>2, <4>1, <5>1 DEF ListInv
      <4>2. CASE own[m] # t /\ own[k] # t
        BY <1>2, <2>17, <3>6, <4>2 DEF ListInv
      <4>3. CASE own[m] = t /\ own[k] # t
        <5>1. own[k] = c /\ pos2[k] <= pos[m0] /\ pos2[m] > pos[m0]
          BY <2>13, <2>17, <2>19, <3>6, <4>3
        <5> QED BY <2>7, <2>9, <2>18, <3>6, <5>1
      <4>4. CASE own[m] # t /\ own[k] = t
        <5>1. own[m] = c /\ pos2[m] <= pos[m0] /\ pos2[k] > pos[m0]
          BY <2>13, <2>17, <2>19, <3>6, <4>4
        <5> QED BY <2>7, <2>9, <2>18, <3>6, <5>1
      <4> QED BY <4>1, <4>2, <4>3, <4>4
    <3>7. \A m \in Nodes \ A : st[m] >= 0 => next'[m] # Null
      BY <1>2, <2>6, <2>9 DEF ListInv
    <3>8. (\A m \in A : st[m] >= 0) /\ \A m \in Nodes : st[m] <= queueId'
      BY <1>2, <2>5 DEF ListInv
    <3> QED BY <3>1, <3>2, <3>3, <3>4, <3>5, <3>6, <3>7, <3>8 DEF ListInv
  <2>27. WatchInv(A, own2, st)'
    <3>1. tail'.at \in A /\ own2[tail'.at] = Popper /\ tail' = To(tail'.at, st)
      BY <1>1, <1>2, <2>5, <2>17 DEF WatchInv
    <3>2. PopWatch'
      <4>1. next[head.at] # Null => next'[head.at] = next[head.at]
        BY <1>2, <1>5, <2>1, <2>6, HeadFacts
      <4>2. pc'[Popper] = pc[Popper] /\ PopWatch
        BY <1>1, <1>2, <2>6 DEF WatchInv
      <4> QED BY <2>5, <4>1, <4>2 DEF PopWatch
    <3>3. ASSUME NEW u \in Pushers PROVE Watch(u, A, own2, st)'
      <4>1. CASE u = t
        <5>1. r[t] # Null
          BY <2>7, <2>11, PointerFacts DEF To, Null
        <5> QED BY <2>1, <2>5, <2>6, <2>8, <4>1, <5>1 DEF Watch
      <4>2. CASE u # t
        <5>1. pc'[u] = pc[u] /\ Watch(u, A, own, st)
          BY <1>1, <1>2, <2>6, <4>2 DEF WatchInv
        <5>2. \A m \in A : own2[m] \in Pushers => own[m] \in Pushers
          BY <2>17
        <5>3. \A m \in Nodes : next[m] # Null => next'[m] = next[m]
          BY <1>5, <2>1, <2>6
        <5> QED BY <2>5, <5>1, <5>2, <5>3 DEF Watch
      <4> QED BY <4>1, <4>2
    <3> QED BY <3>1, <3>2, <3>3 DEF WatchInv
  <2>28. DataInv(A, own2)'
    <3>1. \A u \in Pushers : InHand(u)' => data'[node'[u]] = value'[u]
      BY <1>1, <1>2, <2>5, <2>10 DEF DataInv
    <3>2. ASSUME NEW n \in A, own2[n] \in Pushers, n # node'[own2[n]]
          PROVE  data'[n] \in displaced'
      <4>1. CASE own[n] = t /\ n = k0
        <5>1. data[n] = value[t] /\ c # Popper
          BY <1>1, <1>2, <2>3, <2>10, <2>17, <3>2, <4>1 DEF DataInv
        <5> QED BY <2>5, <2>22, <5>1
      <4>2. CASE own[n] = t /\ n # k0
        BY <1>2, <2>3, <2>5, <2>22, <4>2 DEF DataInv
      <4>3. CASE own[n] # t
        BY <1>2, <2>5, <2>17, <2>22, <3>2, <4>3 DEF DataInv
      <4> QED BY <4>1, <4>2, <4>3
    <3>3. \A n : Live(n, A)' <=> Live(n, A)
      BY <2>5 DEF Live
    <3> QED BY <1>2, <2>5, <2>20, <3>1, <3>2, <3>3 DEF DataInv
  <2>29. OrderInv(A, own2, pos2)'
    <3> DEFINE Later(v, w) ==
          v # w /\ (v < w \/ pushed[v] # pushed[w] \/ v \in displaced' \/ w \in displaced')
    <3>1. \A v, w : Apart(v, w) => Later(v, w)
      BY <2>22 DEF Apart
    <3>2. \A n \in A : Queued(n, A, own2)' => Live(n, A) /\ (own[n] = Popper \/ (own[n] = t /\ c = Popper))
      BY <2>5, <2>17 DEF Queued, Live
    <3>3. \A n \in A : own[n] = t => Live(n, A)
      BY <1>1, <1>2, HeadFacts DEF Live
    <3>4. ASSUME NEW n \in A, own[n] = t, NEW v \in Past(Fill), v # data[n]
          PROVE  Later(v, data[n])
      <4>1. CASE n = k0
        <5>1. data[n] = value[t]
          BY <1>2, <2>3, <2>10, <4>1 DEF DataInv
        <5>2. /\ pc[t] # "idle" /\ v \in DOMAIN pushed /\ DOMAIN pushed = 1 .. Len(pushed)
              /\ value[t] \in DOMAIN pushed /\ Len(pushed) \in Nat
          BY <1>1, <1>2, PastFacts DEF PcInv
        <5>3. pushed[value[t]] = t /\ (pushed[v] = t => v <= value[t])
          BY <1>2, <5>2 DEF PcInv
        <5>4. v < value[t] \/ pushed[v] # pushed[value[t]]
          BY <3>4, <5>1, <5>2, <5>3
        <5> QED BY <3>4, <5>1, <5>4
      <4>2. CASE n # k0
        <5>1. data[n] \in displaced
          BY <1>2, <2>3, <3>4, <4>2 DEF DataInv
        <5> QED BY <2>22, <3>4, <5>1
      <4> QED BY <4>1, <4>2
    <3> HIDE DEF Later
    <3>5. \A i, j \in 1 .. Len(popped) : i < j => Later(popped[i], popped[j])
      BY <1>2, <3>1 DEF OrderInv
    <3>6. ASSUME NEW i \in 1 .. Len(popped), NEW n \in A, Queued(n, A, own2)'
          PROVE  Later(popped[i], data[n])
      <4>1. CASE own[n] = t
        <5>1. popped[i] \in Past(Fill) /\ popped[i] # data[n]
          BY <1>2, <3>3, <4>1 DEF DataInv
        <5> QED BY <3>4, <4>1, <5>1
      <4>2. CASE own[n] # t
        <5>1. Queued(n, A, own)
          BY <3>2, <3>6, <4>2 DEF Queued
        <5> QED BY <1>2, <3>1, <5>1 DEF OrderInv
      <4> QED BY <4>1, <4>2
    <3>7. ASSUME NEW m \in A, NEW n \in A, Queued(m, A, own2)', Queued(n, A, own2)', pos2[m] < pos2[n]
          PROVE  Later(data[m], data[n])
      <4>1. Live(m, A) /\ Live(n, A)
        BY <3>2, <3>7
      <4>2. data[m] # data[n] /\ data[m] \in Past(Fill)
        <5>1. m # n
          BY <2>7, <2>18, <3>7
        <5> QED BY <1>2, <4>1, <5>1 DEF DataInv
      <4>3. CASE own[n] = t
        BY <3>4, <4>2, <4>3
      <4>4. CASE own[n] # t /\ own[m] = t
        <5>1. own[n] = Popper /\ c = Popper
          BY <3>2, <3>7, <4>4
        <5>2. pos2[n] <= pos[m0] /\ pos2[m] > pos[m0]
          BY <2>13, <2>17, <2>19, <4>4, <5>1
        <5> QED BY <2>7, <2>9, <2>18, <3>7, <5>2
      <4>5. CASE own[n] # t /\ own[m] # t
        <5>1. Queued(m, A, own) /\ Queued(n, A, own) /\ pos[m] < pos[n]
          BY <2>17, <3>2, <3>7, <4>5 DEF Queued
        <5> QED BY <1>2, <3>1, <5>1 DEF OrderInv
      <4> QED BY <4>3, <4>4, <4>5
    <3> QED BY <2>5, <3>5, <3>6, <3>7 DEF OrderInv, Apart, Later
  <2>30. Ghosts(A, own2, pos2, st, F, ft)'
    BY <1>2, <2>18 DEF Ghosts
  <2>31. Inv(A, own2, pos2, st, F, ft)'
    BY <1>3, <2>23, <2>24, <2>25, <2>26, <2>27, <2>28, <2>29, <2>30 DEF Inv
  <2> QED BY <2>31
<1> QED BY <1>4, <1>5

(* What is past a label depends on the pushers only.                       *)
LEMMA PopPast ==
  ASSUME pushed' = pushed, \A u \in Pushers : value'[u] = value[u] /\ pc'[u] = pc[u], NEW L
  PROVE  Past(L)' = Past(L)
BY PastStay

(* The popper reads pointers, or moves tail on, or counts.                    *)
LEMMA StepPopQuiet ==
  ASSUME NEW A, NEW own, NEW pos, NEW st, NEW F, NEW ft,
         Inv(A, own, pos, st, F, ft), PcInv', CountInv', PopWatch',
         pc[Popper] \notin Freeing, pc'[Popper] \notin Freeing,
         UNCHANGED <<head, queueId, next, data, poolVars, history>>,
         \A u \in Threads : u # Popper =>
           /\ pc'[u] = pc[u] /\ p'[u] = p[u] /\ q'[u] = q[u] /\ r'[u] = r[u]
           /\ node'[u] = node[u] /\ value'[u] = value[u],
         tail' = tail \/ (next[tail.at] # Null /\ tail' = next[tail.at])
  PROVE  Inv(A, own, pos, st, F, ft)'
<1>1. /\ Ghosts(A, own, pos, st, F, ft) /\ PcInv /\ CountInv /\ PoolInv(F, ft)
      /\ ListInv(A, own, pos, st) /\ OwnInv(A, F) /\ WatchInv(A, own, st)
      /\ DataInv(A, own) /\ OrderInv(A, own, pos)
  BY DEF Inv
<1>2. /\ Popper \in Threads /\ Popper \notin Pushers
      /\ \A u \in Pushers :
           /\ u \in Threads /\ u # Popper /\ pc'[u] = pc[u] /\ p'[u] = p[u] /\ q'[u] = q[u]
           /\ r'[u] = r[u] /\ node'[u] = node[u] /\ value'[u] = value[u]
  BY ThreadFacts
<1>3. \A u \in Pushers : InHand(u)' <=> InHand(u)
  BY <1>2 DEF InHand
<1>4. \A u \in Threads : Filling(u)' => Filling(u) /\ node'[u] = node[u]
  <2>1. pc'[Popper] # "init"
    BY DEF PcInv, PopLabels, Freeing
  <2>2. ~Filling(Popper)'
    BY <2>1 DEF Filling
  <2> QED BY <1>2, <2>2, ThreadFacts DEF Filling
<1>5. PoolInv(F, ft)'
  BY <1>1, <1>2, PoolFrame DEF poolVars, Freeing
<1>6. ListInv(A, own, pos, st)'
  BY <1>1, <1>2, <1>3, ListFrame
<1>7. OwnInv(A, F)'
  BY <1>1, <1>4, OwnFrame DEF poolVars
<1>8. WatchInv(A, own, st)'
  <2>1. tail'.at \in A /\ own[tail'.at] = Popper /\ tail' = To(tail'.at, st)
    BY <1>1, TailMoves
  <2>2. ASSUME NEW u \in Pushers PROVE Watch(u, A, own, st)'
    BY <1>1, <1>2, WatchFrame DEF WatchInv
  <2> QED BY <2>1, <2>2 DEF WatchInv
<1>9. Past(Fill)' = Past(Fill)
  BY <1>2, PopPast DEF history
<1>10. DataInv(A, own)'
  BY <1>1, <1>2, <1>3, <1>9, DataFrame DEF ListInv, history
<1>11. OrderInv(A, own, pos)'
  BY <1>1, OrderFrame DEF history
<1> QED BY <1>1, <1>5, <1>6, <1>7, <1>8, <1>10, <1>11 DEF Inv, Ghosts

(* The counters, when the popper goes on.                                  *)
LEMMA PopCountInv ==
  ASSUME CountInv, UNCHANGED <<fresh, queueId, size, popped, poolId, pushed>>,
         \A u \in Pushers : value'[u] = value[u] /\ pc'[u] = pc[u],
         pc'[Popper] \notin Freeing \cup {"uncount"}, pc[Popper] \notin Freeing \cup {"uncount"},
         pc[Popper] # "idle" \/ size > 0
  PROVE  CountInv'
<1>1. Past(Alloc)' = Past(Alloc) /\ Past(Fill)' = Past(Fill) /\ Past(Pending)' = Past(Pending)
  BY PopPast
<1>2. pc'[Popper] # "freeRead" /\ pc[Popper] # "freeRead"
  BY DEF Freeing
<1> QED BY <1>1, <1>2, CountFrame

(* A Pop begins.                                                           *)
LEMMA StepCallPop ==
  ASSUME NEW A, NEW own, NEW pos, NEW st, NEW F, NEW ft,
         Inv(A, own, pos, st, F, ft), CallPop(Popper)
  PROVE  Inv(A, own, pos, st, F, ft)'
<1>1. /\ pc[Popper] = "idle" /\ pc' = [pc EXCEPT ![Popper] = "popRead"] /\ size > 0
      /\ UNCHANGED <<queueVars, poolVars, localVars, history>>
  BY DEF CallPop, Step
<1>2. PcInv /\ CountInv /\ Popper \in Threads /\ Popper \notin Pushers /\ Pushers \subseteq Threads
  BY ThreadFacts DEF Inv
<1>3. pc'[Popper] = "popRead" /\ \A u \in Threads : u # Popper => pc'[u] = pc[u]
  BY <1>1, <1>2, TypeFacts
<1>4. PcInv'
  BY <1>2, PcCallPop
<1>5. CountInv'
  <2>1. \A u \in Pushers : value'[u] = value[u] /\ pc'[u] = pc[u]
    BY <1>1, <1>2, <1>3 DEF localVars
  <2> QED BY <1>1, <1>2, <1>3, <2>1, PopCountInv DEF queueVars, poolVars, history, Freeing
<1>6. PopWatch'
  BY <1>3 DEF PopWatch
<1>7. pc[Popper] \notin Freeing /\ pc'[Popper] \notin Freeing
  BY <1>1, <1>3 DEF Freeing
<1> QED BY <1>1, <1>3, <1>4, <1>5, <1>6, <1>7, StepPopQuiet DEF queueVars, localVars

(* The popper reads head and tail; if they differ as pointers, they are    *)
(* different nodes.                                                        *)
LEMMA StepPopRead ==
  ASSUME NEW A, NEW own, NEW pos, NEW st, NEW F, NEW ft,
         Inv(A, own, pos, st, F, ft), PopRead(Popper)
  PROVE  Inv(A, own, pos, st, F, ft)'
<1>1. /\ pc[Popper] = "popRead" /\ pc' = [pc EXCEPT ![Popper] = "popNext"]
      /\ r' = [r EXCEPT ![Popper] = head] /\ p' = [p EXCEPT ![Popper] = tail]
      /\ UNCHANGED <<queueVars, poolVars, node, q, value, history>>
  BY DEF PopRead, Step
<1>2. /\ PcInv /\ CountInv /\ Popper \in Threads /\ Popper \notin Pushers /\ Pushers \subseteq Threads
      /\ WatchInv(A, own, st) /\ ListInv(A, own, pos, st)
  BY ThreadFacts DEF Inv
<1>3. /\ pc'[Popper] = "popNext" /\ r'[Popper] = head /\ p'[Popper] = tail
      /\ \A u \in Threads : u # Popper => pc'[u] = pc[u] /\ p'[u] = p[u] /\ r'[u] = r[u]
  BY <1>1, <1>2, TypeFacts
<1>4. PcInv'
  BY <1>2, PcPopRead
<1>5. CountInv'
  <2>1. \A u \in Pushers : value'[u] = value[u] /\ pc'[u] = pc[u]
    BY <1>1, <1>2, <1>3
  <2> QED BY <1>1, <1>2, <1>3, <2>1, PopCountInv DEF queueVars, poolVars, history, Freeing
<1>6. PopWatch'
  <2>1. tail = To(tail.at, st) /\ head = To(head.at, st)
    BY <1>2 DEF WatchInv, ListInv
  <2>2. head # tail => tail.at # head.at
    BY <2>1
  <2> QED BY <1>1, <1>3, <2>2 DEF PopWatch, queueVars
<1>7. pc[Popper] \notin Freeing /\ pc'[Popper] \notin Freeing
  BY <1>1, <1>3 DEF Freeing
<1> QED BY <1>1, <1>3, <1>4, <1>5, <1>6, <1>7, StepPopQuiet DEF queueVars

(* What the popper reads behind head is the next node of the queue.        *)
LEMMA StepPopReadNext ==
  ASSUME NEW A, NEW own, NEW pos, NEW st, NEW F, NEW ft,
         Inv(A, own, pos, st, F, ft), PopReadNext(Popper)
  PROVE  Inv(A, own, pos, st, F, ft)'
<1>1. pc[Popper] = "popNext" /\ UNCHANGED <<queueVars, poolVars, history>>
  BY DEF PopReadNext
<1>2. /\ PcInv /\ CountInv /\ Popper \in Threads /\ Popper \notin Pushers /\ Pushers \subseteq Threads
      /\ WatchInv(A, own, st) /\ ListInv(A, own, pos, st) /\ Ghosts(A, own, pos, st, F, ft)
      /\ PopWatch
  BY ThreadFacts DEF Inv, WatchInv
<1>3. PcInv' /\ r[Popper] = head
  BY <1>2, PcPopReadNext
<1>4. /\ pc'[Popper] \in {"idle", "popHelp", "popCas"}
      /\ \A u \in Threads : u # Popper =>
           /\ pc'[u] = pc[u] /\ p'[u] = p[u] /\ q'[u] = q[u] /\ r'[u] = r[u]
           /\ node'[u] = node[u] /\ value'[u] = value[u]
      /\ pc'[Popper] = "idle" \/
           /\ next[head.at] # Null /\ p' = p /\ r' = r /\ q'[Popper] = next[head.at]
           /\ \/ r[Popper] = p[Popper] /\ pc'[Popper] = "popHelp"
              \/ /\ r[Popper] # p[Popper] /\ pc'[Popper] = "popCas"
                 /\ value'[Popper] = data[next[head.at].at]
  <2>1. CASE next[head.at] = Null
    <3>1. Return(Popper, "popNext")
      BY <1>3, <2>1 DEF PopReadNext
    <3> QED BY <1>2, <3>1, TypeFacts DEF Return, Step
  <2>2. CASE next[head.at] # Null /\ r[Popper] = p[Popper]
    <3>1. /\ q' = [q EXCEPT ![Popper] = next[head.at]] /\ UNCHANGED <<node, p, r, value>>
          /\ pc' = [pc EXCEPT ![Popper] = "popHelp"]
      BY <1>3, <2>2 DEF PopReadNext, Step
    <3> QED BY <1>2, <2>2, <3>1, TypeFacts
  <2>3. CASE next[head.at] # Null /\ r[Popper] # p[Popper]
    <3>1. /\ q' = [q EXCEPT ![Popper] = next[head.at]] /\ UNCHANGED <<node, p, r>>
          /\ pc' = [pc EXCEPT ![Popper] = "popCas"]
          /\ value' = [value EXCEPT ![Popper] = data[next[head.at].at]]
      BY <1>3, <2>3 DEF PopReadNext, Step
    <3> QED BY <1>2, <2>3, <3>1, TypeFacts
  <2> QED BY <2>1, <2>2, <2>3
<1>5. CountInv'
  <2>1. \A u \in Pushers : value'[u] = value[u] /\ pc'[u] = pc[u]
    BY <1>2, <1>4
  <2> QED BY <1>1, <1>2, <1>4, <2>1, PopCountInv DEF queueVars, poolVars, history, Freeing
<1>6. PopWatch'
  <2>1. head' = head /\ tail' = tail /\ next' = next /\ data' = data
    BY <1>1 DEF queueVars
  <2>2. r[Popper] # p[Popper] => tail.at # head.at
    BY <1>1, <1>2 DEF PopWatch
  <2> QED BY <1>3, <1>4, <2>1, <2>2 DEF PopWatch
<1>7. pc[Popper] \notin Freeing /\ pc'[Popper] \notin Freeing
  BY <1>1, <1>4 DEF Freeing
<1> QED BY <1>1, <1>3, <1>4, <1>5, <1>6, <1>7, StepPopQuiet DEF queueVars

(* The popper moves tail on from head.                                     *)
LEMMA StepPopHelp ==
  ASSUME NEW A, NEW own, NEW pos, NEW st, NEW F, NEW ft,
         Inv(A, own, pos, st, F, ft), PopHelp(Popper)
  PROVE  Inv(A, own, pos, st, F, ft)'
<1>1. /\ pc[Popper] = "popHelp" /\ pc' = [pc EXCEPT ![Popper] = "popRead"]
      /\ tail' = IF tail = p[Popper] THEN q[Popper] ELSE tail
      /\ UNCHANGED <<head, queueId, size, next, data, poolVars, localVars, history>>
  BY DEF PopHelp, Step, CasTail
<1>2. /\ PcInv /\ CountInv /\ Popper \in Threads /\ Popper \notin Pushers /\ Pushers \subseteq Threads
      /\ PopWatch
  BY ThreadFacts DEF Inv, WatchInv
<1>3. pc'[Popper] = "popRead" /\ \A u \in Threads : u # Popper => pc'[u] = pc[u]
  BY <1>1, <1>2, TypeFacts
<1>4. PcInv'
  BY <1>2, PcPopHelp
<1>5. CountInv'
  <2>1. \A u \in Pushers : value'[u] = value[u] /\ pc'[u] = pc[u]
    BY <1>1, <1>2, <1>3 DEF localVars
  <2> QED BY <1>1, <1>2, <1>3, <2>1, PopCountInv DEF poolVars, history, Freeing
<1>6. PopWatch'
  BY <1>3 DEF PopWatch
<1>7. pc[Popper] \notin Freeing /\ pc'[Popper] \notin Freeing
  BY <1>1, <1>3 DEF Freeing
<1>8. tail' = tail \/ (next[tail.at] # Null /\ tail' = next[tail.at])
  BY <1>1, <1>2 DEF PopWatch
<1> QED BY <1>1, <1>3, <1>4, <1>5, <1>6, <1>7, <1>8, StepPopQuiet DEF localVars

(* An element is counted down after it was popped.                         *)
LEMMA StepPopCount ==
  ASSUME NEW A, NEW own, NEW pos, NEW st, NEW F, NEW ft,
         Inv(A, own, pos, st, F, ft), PopCount(Popper)
  PROVE  Inv(A, own, pos, st, F, ft)'
<1>1. /\ Return(Popper, "uncount") /\ size' = size - 1
      /\ UNCHANGED <<head, tail, queueId, next, data, poolVars, history>>
  BY DEF PopCount
<1>2. /\ PcInv /\ CountInv /\ Popper \in Threads /\ Popper \notin Pushers /\ Pushers \subseteq Threads
  BY ThreadFacts DEF Inv
<1>3. /\ pc[Popper] = "uncount" /\ pc'[Popper] = "idle"
      /\ \A u \in Threads : u # Popper =>
           /\ pc'[u] = pc[u] /\ p'[u] = p[u] /\ q'[u] = q[u] /\ r'[u] = r[u]
           /\ node'[u] = node[u] /\ value'[u] = value[u]
  BY <1>1, <1>2, TypeFacts DEF Return, Step
<1>4. PcInv'
  BY <1>2, PcPopCount
<1>5. CountInv'
  <2>1. pushed' = pushed /\ \A u \in Pushers : value'[u] = value[u] /\ pc'[u] = pc[u]
    BY <1>1, <1>2, <1>3 DEF history
  <2>2. Past(Alloc)' = Past(Alloc) /\ Past(Fill)' = Past(Fill) /\ Past(Pending)' = Past(Pending)
    BY <2>1, PopPast
  <2>3. /\ size \in Nat /\ Len(popped) \in Nat /\ Cardinality(Past(Pending)) \in Nat
        /\ popped' = popped /\ UNCHANGED <<fresh, poolId, queueId>>
    BY <1>1, <1>2, TypeFacts, PastFacts DEF poolVars, history
  <2>4. pc'[Popper] \notin Freeing \cup {"uncount"} /\ pc'[Popper] # "freeRead"
    BY <1>3 DEF Freeing
  <2> QED BY <1>1, <1>2, <1>3, <2>2, <2>3, <2>4 DEF CountInv
<1>6. PopWatch'
  BY <1>3 DEF PopWatch
<1>7. pc[Popper] \notin Freeing /\ pc'[Popper] \notin Freeing
  BY <1>3 DEF Freeing
<1> QED BY <1>1, <1>3, <1>4, <1>5, <1>6, <1>7, StepPopQuiet

(* The old dummy leaves the lists, its next stays set; the next node       *)
(* becomes the dummy, and its element the last one popped.                 *)
LEMMA StepPopCas ==
  ASSUME NEW A, NEW own, NEW pos, NEW st, NEW F, NEW ft,
         Inv(A, own, pos, st, F, ft), PopCas(Popper)
  PROVE  \E B : Inv(B, own, pos, st, F, ft)'
<1>1. /\ Ghosts(A, own, pos, st, F, ft) /\ PcInv /\ CountInv /\ PoolInv(F, ft)
      /\ ListInv(A, own, pos, st) /\ OwnInv(A, F) /\ WatchInv(A, own, st)
      /\ DataInv(A, own) /\ OrderInv(A, own, pos) /\ PopWatch
  BY DEF Inv, WatchInv
<1>2. /\ PcInv' /\ value[Popper] \in Past(Fill)
      /\ value[Popper] = data[next[head.at].at] /\ next[head.at] # Null
      /\ pc[Popper] = "popCas" /\ pc' = [pc EXCEPT ![Popper] = "freeRead"]
      /\ head' = next[head.at] /\ popped' = Append(popped, value[Popper])
      /\ node' = [node EXCEPT ![Popper] = head.at]
  BY <1>1, PcPopCas
<1>3. UNCHANGED <<tail, queueId, size, next, data, poolVars, p, q, r, value, pushed, displaced>>
  BY DEF PopCas
<1>4. Popper \in Threads /\ Popper \notin Pushers /\ Pushers \subseteq Threads
  BY ThreadFacts
<1>5. /\ pc'[Popper] = "freeRead" /\ node'[Popper] = head.at
      /\ \A u \in Threads : u # Popper => pc'[u] = pc[u] /\ node'[u] = node[u]
      /\ \A u \in Pushers : pc'[u] = pc[u] /\ node'[u] = node[u]
  BY <1>1, <1>2, <1>4, TypeFacts
<1>6. PICK h : h = head.at
  OBVIOUS
<1>7. PICK k : k = next[head.at].at
  OBVIOUS
<1>8. /\ h \in A /\ own[h] = Popper /\ k \in A /\ own[k] = Popper /\ k # h
      /\ pos[k] = pos[h] + 1 /\ next[h] = To(k, st) /\ next[h] # Null
      /\ \A n \in A : own[n] = Popper => pos[h] <= pos[n]
  BY <1>1, <1>2, <1>6, <1>7, HeadFacts
<1>9. PICK B : B = A \ {h}
  OBVIOUS
<1>10. /\ A \subseteq Nodes /\ B \subseteq A /\ \A n \in A : n \in Nodes /\ pos[n] \in Int
       /\ head'.at = k /\ head' = To(k, st)
  BY <1>1, <1>2, <1>6, <1>7, <1>8, <1>9 DEF Ghosts
<1>11. \A n \in B : own[n] = Popper /\ n # k => pos[k] < pos[n]
  <2>1. SUFFICES ASSUME NEW n \in B, own[n] = Popper, n # k PROVE pos[k] < pos[n]
    OBVIOUS
  <2>2. pos[n] # pos[h] /\ pos[n] # pos[k] /\ pos[h] <= pos[n]
    BY <1>1, <1>8, <1>9, <2>1 DEF ListInv
  <2> QED BY <1>8, <1>10, <2>1, <2>2
<1>12. \A u \in Pushers : InHand(u)' <=> InHand(u)
  BY <1>5 DEF InHand
<1>13. Past(Alloc)' = Past(Alloc) /\ Past(Fill)' = Past(Fill) /\ Past(Pending)' = Past(Pending)
  BY <1>3, <1>5, PopPast
<1>14. /\ popped \in Seq(1 .. MaxPush) /\ Len(popped) \in Nat /\ Len(popped') = Len(popped) + 1
       /\ \A i \in 1 .. Len(popped) : popped'[i] = popped[i]
       /\ popped'[Len(popped) + 1] = data[k]
  <2>1. popped \in Seq(1 .. MaxPush)
    BY <1>1, TypeFacts
  <2> QED BY <1>2, <1>7, <2>1
<1>15. CountInv'
  <2>1. size \in Nat /\ Cardinality(Past(Pending)) \in Nat /\ poolId \in Nat
    BY <1>1, TypeFacts, PastFacts
  <2>2. /\ pc'[Popper] \in Freeing \cup {"uncount"} /\ pc[Popper] \notin Freeing \cup {"uncount"}
        /\ pc'[Popper] # "idle" /\ pc[Popper] # "idle" /\ pc[Popper] # "freeRead"
    BY <1>2, <1>5 DEF Freeing
  <2>3. UNCHANGED <<fresh, poolId, queueId, size>>
    BY <1>3 DEF poolVars
  <2> QED BY <1>1, <1>5, <1>13, <1>14, <2>1, <2>2, <2>3 DEF CountInv
<1>16. PoolInv(F, ft)'
  BY <1>1, <1>2, <1>3, <1>5, PoolFrame DEF poolVars
<1>17. ListInv(B, own, pos, st)'
  <2>1. \A u \in Threads : u = Popper \/ InHand(u)' =>
         /\ Root(u)' \in B /\ own[Root(u)'] = u
         /\ \A n \in B : own[n] = u => pos[Root(u)'] <= pos[n]
    <3>1. ASSUME NEW u \in Threads, u = Popper
          PROVE  /\ Root(u)' \in B /\ own[Root(u)'] = u
                 /\ \A n \in B : own[n] = u => pos[Root(u)'] <= pos[n]
      <4>1. Root(u)' = k
        BY <1>10, <3>1 DEF Root
      <4>2. \A n \in B : own[n] = u => pos[k] <= pos[n]
        BY <1>10, <1>11, <3>1, <1>8
      <4> QED BY <1>8, <1>9, <3>1, <4>1, <4>2
    <3>2. ASSUME NEW u \in Threads, u # Popper, InHand(u)'
          PROVE  /\ Root(u)' \in B /\ own[Root(u)'] = u
                 /\ \A n \in B : own[n] = u => pos[Root(u)'] <= pos[n]
      <4>1. u \in Pushers /\ InHand(u) /\ Root(u)' = Root(u)
        BY <1>5, <1>12, <3>2, ThreadFacts DEF Root
      <4>2. /\ Root(u) \in A /\ own[Root(u)] = u
            /\ \A n \in A : own[n] = u => pos[Root(u)] <= pos[n]
        BY <1>1, <3>2, <4>1 DEF ListInv
      <4> QED BY <1>8, <1>9, <3>2, <4>1, <4>2
    <3> QED BY <3>1, <3>2
  <2>2. \A u \in Pushers : InHand(u)' => r'[u] = To(node'[u], st)
    BY <1>1, <1>3, <1>5, <1>12 DEF ListInv
  <2>3. \A n \in B : own[n] \in Pushers => InHand(own[n])' /\ st[n] <= st[node'[own[n]]]
    BY <1>1, <1>5, <1>9, <1>12 DEF ListInv
  <2>4. ASSUME NEW n \in B
        PROVE  \/ next'[n] = Null /\ \A m \in B : own[m] = own[n] => pos[m] <= pos[n]
               \/ /\ next'[n] = To(next'[n].at, st) /\ next'[n].at \in B
                  /\ own[next'[n].at] = own[n] /\ pos[next'[n].at] = pos[n] + 1
    <3>1. n \in A /\ next'[n] = next[n]
      BY <1>3, <1>9
    <3>2. CASE next[n] = Null /\ \A m \in A : own[m] = own[n] => pos[m] <= pos[n]
      BY <1>9, <3>1, <3>2
    <3>3. CASE /\ next[n] = To(next[n].at, st) /\ next[n].at \in A
               /\ own[next[n].at] = own[n] /\ pos[next[n].at] = pos[n] + 1
      <4>1. next[n].at # h
        <5>1. SUFFICES ASSUME next[n].at = h PROVE FALSE
          OBVIOUS
        <5>2. own[n] = Popper /\ pos[h] = pos[n] + 1 /\ pos[h] <= pos[n]
          BY <1>8, <3>1, <3>3, <5>1
        <5> QED BY <1>8, <1>10, <3>1, <5>2
      <4> QED BY <1>9, <3>1, <3>3, <4>1
    <3> QED BY <1>1, <3>1, <3>2, <3>3 DEF ListInv
  <2>5. \A m, n \in B : own[m] = own[n] /\ pos[m] = pos[n] => m = n
    BY <1>1, <1>9 DEF ListInv
  <2>6. \A n \in Nodes \ B : st[n] >= 0 => next'[n] # Null
    BY <1>1, <1>3, <1>8, <1>9 DEF ListInv
  <2>7. (\A n \in B : st[n] >= 0) /\ \A n \in Nodes : st[n] <= queueId'
    BY <1>1, <1>3, <1>9 DEF ListInv
  <2>8. head' = To(head'.at, st)
    BY <1>10
  <2> QED BY <2>1, <2>2, <2>3, <2>4, <2>5, <2>6, <2>7, <2>8 DEF ListInv
<1>18. OwnInv(B, F)'
  <2>1. fresh' = fresh /\ fresh \in Nat /\ Nodes \subseteq Nat \ {0}
    BY <1>1, <1>3, TypeFacts, PointerFacts DEF poolVars
  <2>2. /\ \A n \in Nodes : n > fresh => n \notin F /\ n \notin A
        /\ F \cap A = {}
        /\ \A u \in Threads : Filling(u) => node[u] \in (1 .. fresh) \ (F \cup A)
        /\ \A t, u \in Threads : Filling(t) /\ Filling(u) /\ node[u] = node[t] => u = t
    BY <1>1 DEF OwnInv
  <2>3. h \in 1 .. fresh /\ h \notin F
    <3>1. h \in Nat \ {0} /\ ~(h > fresh)
      BY <1>8, <1>10, <2>1, <2>2
    <3>2. h \in 1 .. fresh
      BY ONLY <2>1, <3>1
    <3> QED BY <1>8, <2>2, <3>2
  <2>4. \A u \in Threads : u # Popper => (Filling(u)' <=> Filling(u))
    BY <1>5 DEF Filling
  <2>5. \A u \in Threads : Filling(u)' => node'[u] \in (1 .. fresh') \ (F \cup B)
    BY <1>5, <1>6, <1>9, <2>1, <2>2, <2>3, <2>4
  <2>6. \A u \in Threads : u # Popper /\ Filling(u)' => node'[u] # node'[Popper]
    BY <1>5, <1>6, <1>8, <2>2, <2>4
  <2>7. \A t, u \in Threads : t # Popper /\ u # Popper /\ Filling(t)' /\ Filling(u)'
                              /\ node'[u] = node'[t] => u = t
    BY <1>5, <2>2, <2>4
  <2>8. \A t, u \in Threads : Filling(t)' /\ Filling(u)' /\ node'[u] = node'[t] => u = t
    BY <2>6, <2>7
  <2>9. F \cap B = {} /\ \A n \in Nodes : n > fresh' => n \notin F /\ n \notin B
    BY <1>9, <2>1, <2>2
  <2> QED BY <2>5, <2>8, <2>9 DEF OwnInv
<1>19. WatchInv(B, own, st)'
  <2>1. tail.at # h
    BY <1>1, <1>2, <1>6 DEF PopWatch
  <2>2. tail'.at \in B /\ own[tail'.at] = Popper /\ tail' = To(tail'.at, st)
    BY <1>1, <1>3, <1>9, <2>1 DEF WatchInv
  <2>3. PopWatch'
    BY <1>5 DEF PopWatch
  <2>4. ASSUME NEW u \in Pushers PROVE Watch(u, B, own, st)'
    <3>1. Watch(u, A, own, st)
      BY <1>1 DEF WatchInv
    <3> QED BY <1>3, <1>5, <1>9, <3>1 DEF Watch
  <2> QED BY <2>2, <2>3, <2>4 DEF WatchInv
<1>20. \A n \in B : Live(n, B)' <=> n # k
  BY <1>10 DEF Live
<1>21. \A n \in B : Live(n, A)
  BY <1>6, <1>9 DEF Live
<1>22. k \in B
  BY <1>8, <1>9
<1>23. DataInv(B, own)'
  <2>1. \A u \in Pushers : InHand(u)' => data'[node'[u]] = value'[u]
    BY <1>1, <1>3, <1>5, <1>12 DEF DataInv
  <2>2. \A n \in B : own[n] \in Pushers /\ n # node'[own[n]] => data'[n] \in displaced'
    BY <1>1, <1>3, <1>5, <1>9 DEF DataInv
  <2>3. \A n \in B : Live(n, B)' => data'[n] \in Past(Fill)'
    BY <1>1, <1>3, <1>9, <1>13, <1>21 DEF DataInv
  <2>4. \A m, n \in B : data'[m] = data'[n] => m = n
    BY <1>1, <1>3, <1>9, <1>21 DEF DataInv
  <2>5. ASSUME NEW v \in Past(Fill)'
        PROVE  \/ \E i \in 1 .. Len(popped') : popped'[i] = v
               \/ \E n \in B : Live(n, B)' /\ data'[n] = v
    <3>1. \/ \E i \in 1 .. Len(popped) : popped[i] = v
          \/ \E n \in A : Live(n, A) /\ data[n] = v
      BY <1>1, <1>13 DEF DataInv
    <3>2. CASE \E i \in 1 .. Len(popped) : popped[i] = v
      <4>1. PICK i \in 1 .. Len(popped) : popped[i] = v
        BY <3>2
      <4>2. i \in 1 .. Len(popped') /\ popped'[i] = v
        BY <1>14, <4>1
      <4> QED BY <4>2
    <3>3. CASE \E n \in A : Live(n, A) /\ data[n] = v
      <4>1. PICK n \in A : Live(n, A) /\ data[n] = v
        BY <3>3
      <4>2. n \in B
        BY <1>6, <1>9, <4>1 DEF Live
      <4>3. CASE n = k
        <5>1. Len(popped) + 1 \in 1 .. Len(popped')
          BY <1>14
        <5> QED BY <1>14, <4>1, <4>3, <5>1
      <4>4. CASE n # k
        BY <1>3, <1>20, <4>1, <4>2, <4>4
      <4> QED BY <4>3, <4>4
    <3> QED BY <3>1, <3>2, <3>3
  <2>6. \A i \in 1 .. Len(popped') : \/ i \in 1 .. Len(popped) /\ popped'[i] = popped[i]
                                     \/ i = Len(popped) + 1 /\ popped'[i] = data[k]
    BY <1>14
  <2>7. \A i \in 1 .. Len(popped') : popped'[i] \in Past(Fill)'
    <3>1. data[k] \in Past(Fill)
      BY <1>2, <1>7
    <3> QED BY <1>1, <1>13, <2>6, <3>1 DEF DataInv
  <2>8. \A i \in 1 .. Len(popped'), n \in B : Live(n, B)' => popped'[i] # data'[n]
    <3>1. \A i \in 1 .. Len(popped), n \in B : popped[i] # data[n]
      BY <1>1, <1>9, <1>21 DEF DataInv
    <3>2. \A n \in B : n # k => data[n] # data[k]
      BY <1>3, <1>22, <2>4
    <3> QED BY <1>3, <1>20, <2>6, <3>1, <3>2
  <2> QED BY <2>1, <2>2, <2>3, <2>4, <2>5, <2>7, <2>8 DEF DataInv
<1>24. OrderInv(B, own, pos)'
  <2>1. \A v, w : Apart(v, w)' <=> Apart(v, w)
    BY <1>3 DEF Apart
  <2>2. \A n \in B : own[n] = Popper => Queued(n, A, own)
    BY <1>21 DEF Queued
  <2>3. \A n \in B : Queued(n, B, own)' <=> n # k /\ own[n] = Popper
    BY <1>20 DEF Queued
  <2>4. Queued(k, A, own)
    BY <1>8, <1>22, <2>2
  <2>5. \A i \in 1 .. Len(popped') : \/ i \in 1 .. Len(popped) /\ popped'[i] = popped[i]
                                     \/ i = Len(popped) + 1 /\ popped'[i] = data[k]
    BY <1>14
  <2>6. ASSUME NEW i \in 1 .. Len(popped'), NEW j \in 1 .. Len(popped'), i < j
        PROVE  Apart(popped'[i], popped'[j])
    <3>1. i \in 1 .. Len(popped) /\ popped'[i] = popped[i]
      <4>1. i # Len(popped) + 1
        BY <1>14, <2>6
      <4> QED BY <2>5, <4>1
    <3>2. CASE j \in 1 .. Len(popped) /\ popped'[j] = popped[j]
      BY <1>1, <2>6, <3>1, <3>2 DEF OrderInv
    <3>3. CASE popped'[j] = data[k]
      <4>1. Apart(popped[i], data[k])
        BY <1>1, <1>8, <2>4, <3>1 DEF OrderInv
      <4> QED BY <3>1, <3>3, <4>1
    <3> QED BY <2>5, <3>2, <3>3
  <2>7. ASSUME NEW i \in 1 .. Len(popped'), NEW n \in B, n # k, own[n] = Popper
        PROVE  Apart(popped'[i], data[n])
    <3>1. CASE i \in 1 .. Len(popped) /\ popped'[i] = popped[i]
      <4>1. Apart(popped[i], data[n])
        BY <1>1, <1>10, <2>2, <2>7, <3>1 DEF OrderInv
      <4> QED BY <3>1, <4>1
    <3>2. CASE popped'[i] = data[k]
      <4>1. Apart(data[k], data[n])
        BY <1>1, <1>8, <1>10, <1>11, <2>2, <2>4, <2>7 DEF OrderInv
      <4> QED BY <3>2, <4>1
    <3> QED BY <2>5, <3>1, <3>2
  <2>8. ASSUME NEW m \in B, NEW n \in B, own[m] = Popper, own[n] = Popper, pos[m] < pos[n]
        PROVE  Apart(data[m], data[n])
    BY <1>1, <1>10, <2>2, <2>8 DEF OrderInv
  <2> DEFINE Later(v, w) == v # w /\ (v < w \/ pushed[v] # pushed[w] \/ v \in displaced \/ w \in displaced)
  <2>9. \A v, w : Apart(v, w) => Later(v, w)
    BY DEF Apart
  <2> HIDE DEF Later
  <2>10. /\ \A i, j \in 1 .. Len(popped') : i < j => Later(popped'[i], popped'[j])
         /\ \A i \in 1 .. Len(popped'), n \in B : Queued(n, B, own)' => Later(popped'[i], data[n])
         /\ \A m, n \in B : Queued(m, B, own)' /\ Queued(n, B, own)' /\ pos[m] < pos[n] =>
                              Later(data[m], data[n])
    BY <2>3, <2>6, <2>7, <2>8, <2>9
  <2> QED BY <1>3, <2>10 DEF OrderInv, Apart, Later
<1>25. Ghosts(B, own, pos, st, F, ft)'
  BY <1>1, <1>9 DEF Ghosts
<1>26. Inv(B, own, pos, st, F, ft)'
  BY <1>2, <1>15, <1>16, <1>17, <1>18, <1>19, <1>23, <1>24, <1>25 DEF Inv
<1> QED BY <1>26

(* A step of Free disturbs the pool alone.                                    *)
LEMMA StepFree ==
  ASSUME NEW A, NEW own, NEW pos, NEW st, NEW F, NEW ft, NEW G, NEW gt,
         Inv(A, own, pos, st, F, ft), PcInv', CountInv', PoolInv(G, gt)',
         Ghosts(A, own, pos, st, G, gt),
         pc[Popper] \in Freeing, pc'[Popper] \in {"freeCas", "freeAgain", "uncount"},
         UNCHANGED <<queueVars, fresh, node, value, history>>,
         \A u \in Pushers : pc'[u] = pc[u] /\ p'[u] = p[u] /\ q'[u] = q[u] /\ r'[u] = r[u],
         G = F \/ (G = F \cup {node[Popper]} /\ pc'[Popper] = "uncount")
  PROVE  Inv(A, own, pos, st, G, gt)'
<1>1. /\ Ghosts(A, own, pos, st, F, ft) /\ PcInv
      /\ ListInv(A, own, pos, st) /\ OwnInv(A, F) /\ WatchInv(A, own, st)
      /\ DataInv(A, own) /\ OrderInv(A, own, pos)
  BY DEF Inv
<1>2. Popper \in Threads /\ Popper \notin Pushers /\ Pushers \subseteq Threads
  BY ThreadFacts
<1>3. \A u \in Pushers : InHand(u)' <=> InHand(u)
  BY DEF InHand
<1>4. Filling(Popper)
  BY DEF Filling
<1>5. ListInv(A, own, pos, st)'
  BY <1>1, <1>3, ListFrame DEF queueVars
<1>6. OwnInv(A, G)'
  <2>1. \A u \in Threads : Filling(u)' => Filling(u)
    BY <1>2, <1>4, ThreadFacts DEF Filling
  <2>2. CASE G = F
    BY <1>1, <2>1, <2>2, OwnFrame
  <2>3. CASE G = F \cup {node[Popper]} /\ pc'[Popper] = "uncount"
    <3>1. ~Filling(Popper)'
      BY <2>3 DEF Filling, Freeing
    <3>2. /\ \A n \in Nodes : n > fresh => n \notin F /\ n \notin A
          /\ F \cap A = {}
          /\ \A u \in Threads : Filling(u) => node[u] \in (1 .. fresh) \ (F \cup A)
          /\ \A t, u \in Threads : Filling(t) /\ Filling(u) /\ node[u] = node[t] => u = t
      BY <1>1 DEF OwnInv
    <3>3. fresh \in Nat /\ Nodes \subseteq Nat
      BY <1>1, TypeFacts, PointerFacts
    <3>4. \A n \in Nodes : n > fresh => n \notin G /\ n \notin A
      <4>1. node[Popper] \in 1 .. fresh
        BY <1>2, <1>4, <3>2
      <4>2. \A n \in Nodes : n > fresh => n # node[Popper]
        BY <3>3, <4>1
      <4> QED BY <2>3, <3>2, <4>2
    <3>5. G \cap A = {}
      BY <1>2, <1>4, <2>3, <3>2
    <3>6. \A u \in Threads : Filling(u)' => node[u] \in (1 .. fresh) \ (G \cup A)
      BY <1>2, <1>4, <2>1, <2>3, <3>1, <3>2
    <3> QED BY <2>1, <3>2, <3>4, <3>5, <3>6 DEF OwnInv
  <2> QED BY <2>2, <2>3
<1>7. WatchInv(A, own, st)'
  <2>1. PopWatch'
    BY DEF PopWatch
  <2>2. ASSUME NEW u \in Pushers PROVE Watch(u, A, own, st)'
    BY <1>1, WatchFrame DEF WatchInv, queueVars
  <2> QED BY <1>1, <2>1, <2>2 DEF WatchInv, queueVars
<1>8. Past(Fill)' = Past(Fill)
  BY PopPast DEF history
<1>9. DataInv(A, own)'
  BY <1>1, <1>3, <1>8, DataFrame DEF ListInv, queueVars, history
<1>10. OrderInv(A, own, pos)'
  BY <1>1, OrderFrame DEF queueVars, history
<1> QED BY <1>1, <1>5, <1>6, <1>7, <1>9, <1>10 DEF Inv, Ghosts

(* A node that is freed gets a tag of its own.                             *)
LEMMA StepFreeRead ==
  ASSUME MaxPush < TagMod,
         NEW A, NEW own, NEW pos, NEW st, NEW F, NEW ft,
         Inv(A, own, pos, st, F, ft), FreeRead(Popper)
  PROVE  Inv(A, own, pos, st, F, ft)'
<1>1. /\ Ghosts(A, own, pos, st, F, ft) /\ PcInv /\ CountInv /\ PoolInv(F, ft)
      /\ OwnInv(A, F) /\ DataInv(A, own) /\ OrderInv(A, own, pos)
  BY DEF Inv
<1>2. PcInv' /\ node[Popper] \in Nodes
  BY <1>1, PcFreeRead
<1>3. Popper \in Threads /\ Popper \notin Pushers /\ Pushers \subseteq Threads
  BY ThreadFacts
<1>4. /\ p' = [p EXCEPT ![Popper] = top] /\ below' = [below EXCEPT ![node[Popper]] = top]
      /\ UNCHANGED <<queueVars, top, fresh, node, q, value, history>>
      /\ pc' = [pc EXCEPT ![Popper] = "freeCas"]
      /\ \/ /\ pc[Popper] = "freeRead" /\ poolId' = poolId + 1
            /\ r' = [r EXCEPT ![Popper] = Tagged(node[Popper], poolId + 1)]
         \/ pc[Popper] = "freeAgain" /\ UNCHANGED <<poolId, r>>
  BY DEF FreeRead, Step
<1>5. pc'[Popper] = "freeCas" /\ \A u \in Threads : u # Popper => pc'[u] = pc[u]
  BY <1>1, <1>3, <1>4, TypeFacts
<1>6. p'[Popper] = top /\ \A u \in Threads : u # Popper => p'[u] = p[u]
  BY <1>1, <1>3, <1>4, TypeFacts
<1>7. \A u \in Threads : u # Popper => r'[u] = r[u]
  BY <1>1, <1>3, <1>4, TypeFacts
<1>8. below'[node[Popper]] = top /\ \A n \in Nodes : n # node[Popper] => below'[n] = below[n]
  BY <1>1, <1>2, <1>4, TypeFacts
<1>9. pc[Popper] \in Freeing /\ node[Popper] \notin F
  BY <1>1, <1>3, <1>4 DEF Freeing, OwnInv, Filling
<1>10. poolId \in Nat /\ poolId' \in Nat /\ poolId <= poolId'
  BY <1>1, <1>4, TypeFacts
<1>11. pc[Popper] = "freeRead" => poolId' = Len(popped) /\ Len(popped) \in 0 .. MaxPush
  <2>1. Len(popped) \in Nat /\ Len(popped) <= MaxPush /\ MaxPush \in Nat
    BY <1>1, PoppedCount, PastFacts, ThreadFacts DEF PcInv
  <2>2. pc[Popper] = "freeRead" => poolId = Len(popped) - 1
    BY <1>1 DEF CountInv
  <2> QED BY <1>4, <1>10, <2>1, <2>2
<1>12. r'[Popper] = [at |-> node[Popper], tag |-> poolId']
  <2>1. CASE pc[Popper] = "freeRead"
    <3>1. poolId' = poolId + 1 /\ r' = [r EXCEPT ![Popper] = Tagged(node[Popper], poolId + 1)]
      BY <1>4, <2>1
    <3>2. r'[Popper] = Tagged(node[Popper], poolId')
      BY <1>1, <1>3, <3>1, TypeFacts
    <3> QED BY <1>11, <2>1, <3>2, Untagged
  <2>2. CASE pc[Popper] = "freeAgain"
    BY <1>1, <1>4, <2>2 DEF PoolInv
  <2> QED BY <1>4, <2>1, <2>2
<1>13. \A n \in F : ft[n] \in Nat /\ ft[n] < poolId'
  BY <1>1, <1>4, <1>10 DEF PoolInv, Ghosts
<1>14. CountInv'
  <2>1. Past(Alloc)' = Past(Alloc) /\ Past(Fill)' = Past(Fill) /\ Past(Pending)' = Past(Pending)
    BY <1>3, <1>4, <1>5, PopPast DEF history
  <2>2. pc'[Popper] \in Freeing \cup {"uncount"} /\ pc[Popper] \in Freeing \cup {"uncount"}
    BY <1>5, <1>9 DEF Freeing
  <2>3. /\ poolId' = Len(popped) /\ UNCHANGED <<fresh, queueId, size, popped>>
        /\ pc[Popper] # "idle" /\ pc'[Popper] # "freeRead"
    BY <1>1, <1>4, <1>5, <1>10, <1>11 DEF CountInv, queueVars, history
  <2>4. size > 0
    BY <1>1, <2>3 DEF CountInv
  <2>5. size = Cardinality(Past(Pending)) - Len(popped) + 1
    BY <1>1, <2>2 DEF CountInv
  <2>6. Len(popped) \in Nat
    BY <1>1, PoppedCount
  <2> QED BY <1>1, <2>1, <2>2, <2>3, <2>4, <2>5, <2>6 DEF CountInv
<1>15. PoolInv(F, ft)'
  <2>1. \A n \in F : below'[n] = below[n]
    BY <1>1, <1>8, <1>9 DEF Ghosts
  <2>2. Youngest(top, F, ft)' /\ \A n \in F : Youngest(below[n], {m \in F : ft[m] < ft[n]}, ft)'
    BY <1>1, <1>4, <2>1 DEF PoolInv, Youngest
  <2>3. ASSUME NEW t \in Pushers, pc'[t] = "allocCas"
        PROVE  /\ p'[t] # Null /\ p'[t].tag <= poolId' /\ p'[t].tag < poolId'
               /\ (p'[t].at \in F /\ ft[p'[t].at] = p'[t].tag) => below'[p'[t].at] = q'[t]
    <3>1. pc[t] = "allocCas" /\ p'[t] = p[t] /\ q'[t] = q[t]
      BY <1>3, <1>4, <1>5, <1>6, <2>3
    <3>2. /\ p[t] # Null /\ p[t].tag <= poolId
          /\ pc[Popper] \in {"freeCas", "freeAgain"} => p[t].tag < poolId
          /\ (p[t].at \in F /\ ft[p[t].at] = p[t].tag) => below[p[t].at] = q[t]
      BY <1>1, <3>1 DEF PoolInv
    <3>3. p[t].tag \in Nat
      BY <1>1, <1>3, TypeFacts, PointerFacts
    <3>4. p[t].tag < poolId'
      BY <1>4, <1>10, <3>2, <3>3
    <3> QED BY <1>10, <2>1, <3>1, <3>2, <3>3, <3>4
  <2>4. \A n \in F : ft[n] <= poolId'
    BY <1>10, <1>13
  <2>5. \A m, n \in F : ft[m] = ft[n] => m = n
    BY <1>1 DEF PoolInv
  <2> QED BY <1>4, <1>6, <1>8, <1>12, <1>13, <2>2, <2>3, <2>4, <2>5 DEF PoolInv
<1> QED BY <1>1, <1>2, <1>3, <1>4, <1>5, <1>6, <1>7, <1>9, <1>14, <1>15, StepFree

(* The node freed is the youngest of the free ones; a pusher that has an   *)
(* older pointer to it will not take it.                                   *)
LEMMA StepFreeCas ==
  ASSUME NEW A, NEW own, NEW pos, NEW st, NEW F, NEW ft,
         Inv(A, own, pos, st, F, ft), FreeCas(Popper)
  PROVE  \E G, gt : Inv(A, own, pos, st, G, gt)'
<1>1. /\ Ghosts(A, own, pos, st, F, ft) /\ PcInv /\ CountInv /\ PoolInv(F, ft)
      /\ OwnInv(A, F)
  BY DEF Inv
<1>2. PcInv'
  BY <1>1, PcFreeCas
<1>3. Popper \in Threads /\ Popper \notin Pushers /\ Pushers \subseteq Threads
  BY ThreadFacts
<1>4. /\ pc[Popper] = "freeCas"
      /\ \/ top = p[Popper] /\ top' = r[Popper] /\ pc' = [pc EXCEPT ![Popper] = "uncount"]
         \/ top # p[Popper] /\ top' = top /\ pc' = [pc EXCEPT ![Popper] = "freeAgain"]
      /\ UNCHANGED <<queueVars, poolId, below, fresh, localVars, history>>
  BY DEF FreeCas, Step
<1>5. /\ \A u \in Threads : u # Popper => pc'[u] = pc[u]
      /\ \/ top = p[Popper] /\ top' = r[Popper] /\ pc'[Popper] = "uncount"
         \/ top # p[Popper] /\ top' = top /\ pc'[Popper] = "freeAgain"
  BY <1>1, <1>3, <1>4, TypeFacts
<1>6. pc[Popper] \in Freeing /\ node[Popper] \notin F
  BY <1>1, <1>3, <1>4 DEF Freeing, OwnInv, Filling
<1>7. node[Popper] \in Nodes
  <2>1. node[Popper] \in 1 .. fresh /\ fresh \in Nodes /\ MaxPush \in Nat
    BY <1>1, <1>3, <1>6, TypeFacts, ThreadFacts DEF OwnInv, Filling
  <2> QED BY <2>1 DEF Nodes
<1>8. CountInv'
  <2>1. Past(Alloc)' = Past(Alloc) /\ Past(Fill)' = Past(Fill) /\ Past(Pending)' = Past(Pending)
    BY <1>3, <1>4, <1>5, PopPast DEF history, localVars
  <2>2. /\ pc'[Popper] \in Freeing \cup {"uncount"} /\ pc[Popper] \in Freeing \cup {"uncount"}
        /\ pc'[Popper] # "freeRead" /\ pc[Popper] # "freeRead" /\ pc[Popper] # "idle"
    BY <1>4, <1>5, <1>6 DEF Freeing
  <2> QED BY <1>1, <1>4, <2>1, <2>2, CountFrame DEF queueVars, history
<1>9. /\ r[Popper] = [at |-> node[Popper], tag |-> poolId] /\ \A n \in F : ft[n] < poolId
      /\ below[node[Popper]] = p[Popper]
  BY <1>1, <1>4 DEF PoolInv
<1>10. CASE top # p[Popper]
  <2>1. pc'[Popper] = "freeAgain" /\ top' = top
    BY <1>5, <1>10
  <2>2. PoolInv(F, ft)'
    <3>1. \A u \in Pushers : pc'[u] = pc[u] /\ p'[u] = p[u] /\ q'[u] = q[u]
      BY <1>3, <1>4, <1>5 DEF localVars
    <3>2. Youngest(top, F, ft)' /\ \A n \in F : Youngest(below[n], {m \in F : ft[m] < ft[n]}, ft)'
      BY <1>1, <1>4, <2>1 DEF PoolInv, Youngest
    <3>3. \A u \in Pushers : pc'[u] = "allocCas" =>
            /\ p'[u] # Null /\ p'[u].tag <= poolId' /\ p'[u].tag < poolId'
            /\ (p'[u].at \in F /\ ft[p'[u].at] = p'[u].tag) => below'[p'[u].at] = q'[u]
      BY <1>1, <1>4, <3>1 DEF PoolInv
    <3>4. (\A m, n \in F : ft[m] = ft[n] => m = n) /\ \A n \in F : ft[n] <= poolId'
      BY <1>1, <1>4 DEF PoolInv
    <3> QED BY <1>4, <1>9, <2>1, <3>2, <3>3, <3>4 DEF PoolInv, localVars
  <2>3. Inv(A, own, pos, st, F, ft)'
    BY <1>1, <1>2, <1>3, <1>4, <1>5, <1>6, <1>8, <2>1, <2>2, StepFree DEF localVars
  <2> QED BY <2>3
<1>11. CASE top = p[Popper]
  <2>1. pc'[Popper] = "uncount" /\ top' = r[Popper]
    BY <1>5, <1>11
  <2>2. PICK h : h = node[Popper]
    OBVIOUS
  <2>3. PICK G : G = F \cup {h}
    OBVIOUS
  <2>4. PICK gt : gt = [ft EXCEPT ![h] = poolId]
    OBVIOUS
  <2>5. /\ h \in Nodes /\ h \notin F /\ G \subseteq Nodes /\ gt \in [Nodes -> Nat]
        /\ gt[h] = poolId /\ poolId \in Nat
        /\ \A n \in Nodes : n # h => gt[n] = ft[n]
        /\ \A n \in F : gt[n] = ft[n] /\ ft[n] \in Nat /\ ft[n] < poolId /\ n # h
    BY <1>1, <1>6, <1>7, <1>9, <2>2, <2>3, <2>4, TypeFacts DEF Ghosts
  <2>6. Ghosts(A, own, pos, st, G, gt)
    BY <1>1, <2>5 DEF Ghosts
  <2>7. {m \in G : gt[m] < gt[h]} = F
    BY <2>3, <2>5
  <2>8. \A n \in F : {m \in G : gt[m] < gt[n]} = {m \in F : ft[m] < ft[n]}
    BY <2>3, <2>5
  <2>9. ASSUME NEW x, NEW K, K \subseteq F, Youngest(x, K, ft)
        PROVE  Youngest(x, K, gt)
    BY <2>5, <2>9 DEF Youngest
  <2>10. Youngest(top', G, gt)
    BY <1>9, <2>1, <2>2, <2>3, <2>5 DEF Youngest
  <2>11. ASSUME NEW n \in G
         PROVE  Youngest(below[n], {m \in G : gt[m] < gt[n]}, gt)
    <3>1. CASE n = h
      <4>1. Youngest(top, F, ft)
        BY <1>1 DEF PoolInv
      <4> QED BY <1>9, <1>11, <2>2, <2>7, <2>9, <3>1, <4>1
    <3>2. CASE n \in F
      <4>1. Youngest(below[n], {m \in F : ft[m] < ft[n]}, ft)
        BY <1>1, <3>2 DEF PoolInv
      <4>2. {m \in F : ft[m] < ft[n]} \subseteq F
        OBVIOUS
      <4> QED BY <2>8, <2>9, <3>2, <4>1, <4>2
    <3> QED BY <2>3, <3>1, <3>2
  <2>12. PoolInv(G, gt)'
    <3>1. Youngest(top, G, gt)' /\ \A n \in G : Youngest(below[n], {m \in G : gt[m] < gt[n]}, gt)'
      BY <1>4, <2>10, <2>11 DEF Youngest
    <3>2. \A m, n \in G : gt[m] = gt[n] => m = n
      <4>1. \A m, n \in F : ft[m] = ft[n] => m = n
        BY <1>1 DEF PoolInv
      <4> QED BY <2>3, <2>5, <4>1
    <3>3. \A n \in G : gt[n] <= poolId'
      BY <1>4, <2>3, <2>5
    <3>4. ASSUME NEW t \in Pushers, pc'[t] = "allocCas"
          PROVE  /\ p'[t] # Null /\ p'[t].tag <= poolId'
                 /\ (p'[t].at \in G /\ gt[p'[t].at] = p'[t].tag) => below'[p'[t].at] = q'[t]
      <4>1. pc[t] = "allocCas" /\ p'[t] = p[t] /\ q'[t] = q[t]
        BY <1>3, <1>4, <1>5, <3>4 DEF localVars
      <4>2. /\ p[t] # Null /\ p[t].tag < poolId
            /\ (p[t].at \in F /\ ft[p[t].at] = p[t].tag) => below[p[t].at] = q[t]
        BY <1>1, <1>4, <4>1 DEF PoolInv
      <4>3. p[t].tag \in Nat
        BY <1>1, <1>3, TypeFacts, PointerFacts
      <4>4. p[t].tag <= poolId
        BY <2>5, <4>2, <4>3
      <4>5. p[t].at = h => gt[p[t].at] # p[t].tag
        BY <2>5, <4>2, <4>3
      <4> QED BY <1>4, <2>3, <2>5, <4>1, <4>2, <4>4, <4>5
    <3> QED BY <2>1, <3>1, <3>2, <3>3, <3>4 DEF PoolInv
  <2>13. \A u \in Pushers : pc'[u] = pc[u] /\ p'[u] = p[u] /\ q'[u] = q[u] /\ r'[u] = r[u]
    BY <1>3, <1>4, <1>5 DEF localVars
  <2>14. UNCHANGED <<queueVars, fresh, node, value, history>>
    BY <1>4 DEF localVars
  <2>15. Inv(A, own, pos, st, G, gt)'
    BY <1>2, <1>6, <1>8, <2>1, <2>2, <2>3, <2>6, <2>12, <2>13, <2>14, StepFree
  <2> QED BY <2>15
<1> QED BY <1>10, <1>11
-----------------------------------------------------------------------------
(* Init implies the invariant: the dummy is the queue.                     *)
LEMMA InitInv ==
  ASSUME Init
  PROVE  IInv
<1>1. MaxPush \in Nat /\ TagMod \in Nat /\ TagMod > 0
  BY ThreadFacts
<1>2. 1 \in Nodes /\ Tagged(1, 0) = [at |-> 1, tag |-> 0] /\ Tagged(1, 0) \in Pointers
  <2>1. 1 \in Nodes
    BY <1>1 DEF Nodes
  <2>2. 0 % TagMod = 0
    BY <1>1
  <2> QED BY <2>1, <2>2, PointerFacts DEF Tagged
<1>3. Popper \in Threads /\ Popper \notin Pushers /\ Pushers \subseteq Threads
  BY ThreadFacts
<1>4. /\ \A t \in Threads : pc[t] = "idle" /\ value[t] = 0
      /\ \A t \in Pushers : pc[t] = "idle" /\ value[t] = 0
      /\ pc[Popper] = "idle" /\ head = Tagged(1, 0) /\ tail = Tagged(1, 0) /\ queueId = 0
      /\ size = 0 /\ top = Null /\ poolId = 0 /\ fresh = 1 /\ pushed = <<>> /\ popped = <<>>
      /\ \A n \in Nodes : next[n] = Null
  BY <1>3 DEF Init, NoValue
<1>5. TypeOK
  <2>1. Null \in Pointers /\ NoValue \in 0 .. MaxPush /\ "idle" \in Labels
    BY <1>1, PointerFacts DEF NoValue, Labels
  <2>2. /\ {head, tail, top} \subseteq Pointers /\ {queueId, poolId, size} \subseteq Nat
        /\ fresh \in Nodes
    BY <1>2, <1>4, <2>1
  <2>3. /\ next \in [Nodes -> Pointers] /\ below \in [Nodes -> Pointers]
        /\ data \in [Nodes -> 0 .. MaxPush] /\ value \in [Threads -> 0 .. MaxPush]
        /\ pc \in [Threads -> Labels]
    BY <2>1 DEF Init
  <2>4. node \in [Threads -> Nodes \cup {0}] /\ {p, q, r} \subseteq [Threads -> Pointers]
    BY <2>1 DEF Init
  <2>5. pushed \in Seq(Pushers) /\ popped \in Seq(1 .. MaxPush) /\ displaced \subseteq 1 .. MaxPush
    BY DEF Init
  <2> QED BY <2>2, <2>3, <2>4, <2>5 DEF TypeOK
<1>6. PcInv
  <2>1. Len(pushed) = 0 /\ "idle" \in PopLabels /\ "idle" \in PushLabels
    BY <1>4 DEF PopLabels, PushLabels
  <2> QED BY <1>1, <1>4, <1>5, <2>1 DEF PcInv, NoValue
<1>7. PICK A : A = {1}
  OBVIOUS
<1>8. PICK own : own = [n \in Nodes |-> Popper]
  OBVIOUS
<1>9. PICK pos : pos = [n \in Nodes |-> 0]
  OBVIOUS
<1>10. PICK st : st = [n \in Nodes |-> IF n = 1 THEN 0 ELSE -1]
  OBVIOUS
<1>11. PICK F : F = {}
  OBVIOUS
<1>12. \A L : Past(L) = {} /\ Cardinality(Past(L)) = 0
  <2>1. DOMAIN pushed = {}
    BY <1>4
  <2>2. \A L : Past(L) = {}
    BY <2>1 DEF Past
  <2> QED BY <2>2, FS_EmptySet
<1>13. /\ \A n \in Nodes : own[n] = Popper /\ pos[n] = 0
       /\ st[1] = 0 /\ \A n \in Nodes : st[n] <= 0 /\ (n # 1 => st[n] < 0)
  BY <1>2, <1>8, <1>9, <1>10
<1>14. Ghosts(A, own, pos, st, F, pos)
  BY <1>2, <1>3, <1>7, <1>8, <1>9, <1>10, <1>11 DEF Ghosts
<1>15. \A t \in Threads : ~InHand(t) /\ ~Filling(t)
  BY <1>4 DEF InHand, Filling, Freeing
<1>16. CountInv
  <2>1. pc[Popper] \notin Freeing \cup {"uncount"} /\ Len(popped) = 0
    BY <1>4 DEF Freeing
  <2> QED BY <1>4, <1>12, <2>1 DEF CountInv
<1>17. PoolInv(F, pos)
  BY <1>4, <1>11 DEF PoolInv, Youngest
<1>18. ListInv(A, own, pos, st)
  <2>1. head.at = 1 /\ head = To(1, st)
    BY <1>2, <1>4, <1>13 DEF To
  <2>2. \A t \in Threads : t = Popper \/ InHand(t) =>
         /\ Root(t) \in A /\ own[Root(t)] = t
         /\ \A n \in A : own[n] = t => pos[Root(t)] <= pos[n]
    BY <1>2, <1>7, <1>13, <1>15, <2>1 DEF Root
  <2>3. \A n \in A : n = 1 /\ n \in Nodes
    BY <1>2, <1>7
  <2>4. \A n \in Nodes \ A : n # 1
    BY <1>7
  <2>5. \A n \in Nodes \ A : ~(st[n] >= 0)
    <3>1. \A n \in Nodes : st[n] \in Int
      BY <1>14 DEF Ghosts
    <3> QED BY <1>13, <2>4, <3>1
  <2> QED BY <1>3, <1>4, <1>13, <1>15, <2>1, <2>2, <2>3, <2>5 DEF ListInv
<1>19. OwnInv(A, F)
  BY <1>4, <1>7, <1>11, <1>15 DEF OwnInv
<1>20. WatchInv(A, own, st)
  <2>1. tail.at = 1 /\ tail = To(1, st)
    BY <1>2, <1>4, <1>13 DEF To
  <2>2. PopWatch
    BY <1>4 DEF PopWatch
  <2>3. \A t \in Pushers : Watch(t, A, own, st)
    BY <1>4 DEF Watch
  <2> QED BY <1>2, <1>7, <1>13, <2>1, <2>2, <2>3 DEF WatchInv
<1>21. \A n \in A : ~Live(n, A) /\ own[n] = Popper
  BY <1>2, <1>4, <1>7, <1>13 DEF Live
<1>22. 1 .. Len(popped) = {}
  BY <1>4
<1>23. DataInv(A, own)
  BY <1>3, <1>12, <1>15, <1>21, <1>22 DEF DataInv
<1>24. OrderInv(A, own, pos)
  BY <1>21, <1>22 DEF OrderInv, Queued
<1> QED BY <1>6, <1>14, <1>16, <1>17, <1>18, <1>19, <1>20, <1>23, <1>24 DEF IInv, Inv

(* A step that changes nothing preserves the invariant.                    *)
LEMMA StepStutter ==
  ASSUME NEW A, NEW own, NEW pos, NEW st, NEW F, NEW ft,
         Inv(A, own, pos, st, F, ft), UNCHANGED vars
  PROVE  Inv(A, own, pos, st, F, ft)'
<1>1. /\ Ghosts(A, own, pos, st, F, ft) /\ PcInv /\ CountInv /\ PoolInv(F, ft)
      /\ ListInv(A, own, pos, st) /\ OwnInv(A, F) /\ WatchInv(A, own, st)
      /\ DataInv(A, own) /\ OrderInv(A, own, pos)
  BY DEF Inv
<1>2. /\ UNCHANGED <<head, tail, queueId, size, next, data>>
      /\ UNCHANGED <<top, poolId, below, fresh>> /\ UNCHANGED pc
      /\ UNCHANGED <<node, p, q, r, value>> /\ UNCHANGED <<pushed, popped, displaced>>
  BY DEF vars, queueVars, poolVars, localVars, history
<1>3. PcInv'
  BY <1>1, <1>2 DEF PcInv, TypeOK
<1>4. CountInv'
  BY <1>1, <1>2 DEF CountInv, Past, Before
<1>5. PoolInv(F, ft)'
  BY <1>1, <1>2 DEF PoolInv, Youngest
<1>6. \A u : (InHand(u)' <=> InHand(u)) /\ (Filling(u)' <=> Filling(u))
  BY <1>2 DEF InHand, Filling
<1>7. ListInv(A, own, pos, st)'
  BY <1>1, <1>2, <1>6, ListFrame
<1>8. OwnInv(A, F)'
  BY <1>1, <1>2, <1>6, OwnFrame
<1>9. WatchInv(A, own, st)'
  BY <1>1, <1>2 DEF WatchInv, PopWatch, Watch, To
<1>10. Past(Fill)' = Past(Fill)
  BY <1>2 DEF Past, Before
<1>11. DataInv(A, own)'
  BY <1>1, <1>2, <1>6, <1>10, DataFrame DEF ListInv
<1>12. OrderInv(A, own, pos)'
  BY <1>1, <1>2, OrderFrame
<1> QED BY <1>1, <1>3, <1>4, <1>5, <1>7, <1>8, <1>9, <1>11, <1>12 DEF Inv, Ghosts

(* Every step preserves the invariant.                                     *)
LEMMA StepInv ==
  ASSUME MaxPush < TagMod, IInv, [Next]_vars
  PROVE  IInv'
<1>1. PICK A, own, pos, st, F, ft : Inv(A, own, pos, st, F, ft)
  BY DEF IInv
<1> DEFINE Good == \E B, own2, pos2, st2, G, gt : Inv(B, own2, pos2, st2, G, gt)'
<1> SUFFICES Good
  BY DEF IInv
<1>2. ASSUME NEW t \in Pushers, CallPush(t)
      PROVE  Good
  BY <1>1, <1>2, StepCallPush
<1>3. ASSUME NEW t \in Pushers, AllocRead(t)
      PROVE  Good
  BY <1>1, <1>3, StepAllocRead
<1>4. ASSUME NEW t \in Pushers, AllocCas(t)
      PROVE  Good
  BY <1>1, <1>4, StepAllocCas
<1>5. ASSUME NEW t \in Pushers, PushInit(t)
      PROVE  Good
  BY <1>1, <1>5, StepPushInit
<1>6. ASSUME NEW t \in Pushers, PushReadTail(t)
      PROVE  Good
  BY <1>1, <1>6, StepPushReadTail
<1>7. ASSUME NEW t \in Pushers, PushReadNext(t)
      PROVE  Good
  BY <1>1, <1>7, StepPushReadNext
<1>8. ASSUME NEW t \in Pushers, PushHelp(t)
      PROVE  Good
  BY <1>1, <1>8, StepPushHelp
<1>9. ASSUME NEW t \in Pushers, PushLink(t)
      PROVE  Good
  BY <1>1, <1>9, StepPushLink
<1>10. ASSUME NEW t \in Pushers, PushSwing(t)
       PROVE  Good
  BY <1>1, <1>10, StepPushSwing
<1>11. ASSUME NEW t \in Pushers, PushCount(t)
       PROVE  Good
  BY <1>1, <1>11, StepPushCount
<1>12. CASE CallPop(Popper)
  BY <1>1, <1>12, StepCallPop
<1>13. CASE PopRead(Popper)
  BY <1>1, <1>13, StepPopRead
<1>14. CASE PopReadNext(Popper)
  BY <1>1, <1>14, StepPopReadNext
<1>15. CASE PopHelp(Popper)
  BY <1>1, <1>15, StepPopHelp
<1>16. CASE PopCas(Popper)
  BY <1>1, <1>16, StepPopCas
<1>17. CASE FreeRead(Popper)
  BY <1>1, <1>17, StepFreeRead
<1>18. CASE FreeCas(Popper)
  BY <1>1, <1>18, StepFreeCas
<1>19. CASE PopCount(Popper)
  BY <1>1, <1>19, StepPopCount
<1>20. CASE UNCHANGED vars
  BY <1>1, <1>20, StepStutter
<1> HIDE DEF Good
<1>21. CASE \E t \in Pushers : CallPush(t) \/ PushStep(t)
  BY <1>2, <1>3, <1>4, <1>5, <1>6, <1>7, <1>8, <1>9, <1>10, <1>11, <1>21 DEF PushStep
<1>22. CASE PopStep(Popper)
  BY <1>13, <1>14, <1>15, <1>16, <1>17, <1>18, <1>19, <1>22 DEF PopStep
<1> QED BY <1>12, <1>20, <1>21, <1>22 DEF Next, Done

(* The lists of nodes, the free list with its tags, the pointers that      *)
(* threads hold, and the elements in the nodes, together: inductive for    *)
(* any number of pushers and calls, as long as no tag is used twice.       *)
THEOREM Inductive ==
  ASSUME MaxPush < TagMod
  PROVE  Spec => []IInv
<1>1. Init => IInv
  BY InitInv
<1>2. IInv /\ [Next]_vars => IInv'
  BY StepInv
<1> QED BY <1>1, <1>2, PTL DEF Spec
-----------------------------------------------------------------------------
(* What is linked behind the first node of a list are its other nodes, in  *)
(* order.                                                                  *)
LEMMA BehindIs ==
  ASSUME PcInv, NEW A, NEW own, NEW pos, NEW st, NEW F, NEW ft,
         Ghosts(A, own, pos, st, F, ft), ListInv(A, own, pos, st),
         NEW root \in A, \A n \in A : own[n] = own[root] => pos[root] <= pos[n],
         NEW x, x.at = root
  PROVE  /\ Behind(x) \in Seq(Nodes) /\ Len(Behind(x)) \in Nat
         /\ \A i \in 1 .. Len(Behind(x)) :
              /\ Behind(x)[i] \in A /\ own[Behind(x)[i]] = own[root]
              /\ Behind(x)[i] # root /\ pos[Behind(x)[i]] = pos[root] + i
         /\ Elements(Behind(x)) = {n \in A : own[n] = own[root] /\ n # root}
<1>1. PICK c : c = Chain(x)
  OBVIOUS
<1>2. /\ c \in Seq(Nodes) /\ Len(c) >= 1 /\ c[1] = root
      /\ \A i \in 1 .. Len(c) : c[i] \in A /\ own[c[i]] = own[root]
                                /\ pos[c[i]] = pos[root] + i - 1
      /\ Elements(c) = {n \in A : own[n] = own[root]}
  BY <1>1, ChainOf
<1>3. PICK b : b = Tail(c)
  OBVIOUS
<1>4. b = Behind(x)
  BY <1>1, <1>3 DEF Behind
<1>5. Len(c) \in Nat /\ c # <<>> /\ DOMAIN c = 1 .. Len(c)
  BY <1>2
<1>6. /\ b \in Seq(Nodes) /\ Len(b) = Len(c) - 1 /\ Len(b) \in Nat /\ DOMAIN b = 1 .. Len(b)
      /\ \A i \in 1 .. Len(b) : b[i] = c[i + 1]
  BY <1>2, <1>3, <1>5
<1>7. \A i \in 1 .. Len(b) : i + 1 \in 1 .. Len(c) /\ i \in Int
  BY <1>5, <1>6
<1>8. pos[root] \in Int
  BY DEF Ghosts
<1>9. ASSUME NEW i \in 1 .. Len(b)
      PROVE  b[i] \in A /\ own[b[i]] = own[root] /\ pos[b[i]] = pos[root] + i /\ b[i] # root
  <2>1. b[i] \in A /\ own[b[i]] = own[root] /\ pos[b[i]] = pos[root] + (i + 1) - 1
    BY <1>2, <1>6, <1>7
  <2>2. i \in Nat /\ i > 0
    BY <1>6
  <2> QED BY <1>8, <2>1, <2>2
<1>10. ASSUME NEW n \in A, own[n] = own[root], n # root
       PROVE  n \in Elements(b)
  <2>1. n \in Elements(c)
    BY <1>2, <1>10
  <2>2. PICK i \in 1 .. Len(c) : c[i] = n
    BY <1>5, <2>1 DEF Elements
  <2>3. i # 1
    BY <1>2, <1>10, <2>2
  <2>4. i - 1 \in 1 .. Len(b) /\ (i - 1) + 1 = i
    BY <1>5, <1>6, <2>2, <2>3
  <2>5. b[i - 1] = n
    BY <1>6, <2>2, <2>4
  <2> QED BY <1>6, <2>4, <2>5 DEF Elements
<1>11. \A n \in Elements(b) : n \in A /\ own[n] = own[root] /\ n # root
  BY <1>6, <1>9 DEF Elements
<1>12. Elements(b) = {n \in A : own[n] = own[root] /\ n # root}
  BY <1>10, <1>11
<1> QED BY <1>4, <1>6, <1>9, <1>12

(* The hidden nodes are those in a pusher's list that it does not have in  *)
(* hand.                                                                   *)
LEMMA HiddenIs ==
  ASSUME PcInv, NEW A, NEW own, NEW pos, NEW st, NEW F, NEW ft,
         Ghosts(A, own, pos, st, F, ft), ListInv(A, own, pos, st)
  PROVE  Hidden = {n \in A : own[n] \in Pushers /\ n # node[own[n]]}
<1>1. ASSUME NEW t \in Pushers, InHand(t)
      PROVE  Elements(Behind(r[t])) = {n \in A : own[n] = t /\ n # node[t]}
  <2>1. /\ node[t] \in A /\ own[node[t]] = t
        /\ \A n \in A : own[n] = t => pos[node[t]] <= pos[n]
    <3>1. t \in Threads /\ Root(t) = node[t]
      BY ThreadFacts DEF Root
    <3> QED BY <1>1, <3>1 DEF ListInv
  <2>2. r[t].at = node[t]
    <3>1. r[t] = To(node[t], st)
      BY <1>1 DEF ListInv
    <3> QED BY <3>1 DEF To
  <2>3. Elements(Behind(r[t])) = {n \in A : own[n] = own[node[t]] /\ n # node[t]}
    BY <2>1, <2>2, BehindIs
  <2> QED BY <2>1, <2>3
<1>2. \A n \in A : own[n] \in Pushers => InHand(own[n])
  BY DEF ListInv
<1>3. Hidden = UNION {Elements(Behind(r[t])) : t \in {u \in Pushers : InHand(u)}}
  BY DEF Hidden
<1>4. ASSUME NEW n \in Hidden
      PROVE  n \in A /\ own[n] \in Pushers /\ n # node[own[n]]
  <2>1. PICK t \in Pushers : InHand(t) /\ n \in Elements(Behind(r[t]))
    BY <1>3, <1>4
  <2> QED BY <1>1, <2>1
<1>5. ASSUME NEW n \in A, own[n] \in Pushers, n # node[own[n]]
      PROVE  n \in Hidden
  <2>1. InHand(own[n])
    BY <1>2, <1>5
  <2>2. n \in Elements(Behind(r[own[n]]))
    BY <1>1, <1>5, <2>1
  <2> QED BY <1>3, <1>5, <2>1, <2>2
<1> QED BY <1>4, <1>5

(* The elements that are popped or in the queue, in order.                   *)
InQueue == popped \o Values(Behind(head))

(* The elements popped and queued are apart, the earlier from the later.   *)
LEMMA InQueueIs ==
  ASSUME NEW A, NEW own, NEW pos, NEW st, NEW F, NEW ft, Inv(A, own, pos, st, F, ft)
  PROVE  /\ \A i, j \in DOMAIN InQueue : i < j => Apart(InQueue[i], InQueue[j])
         /\ Elements(InQueue) = Elements(popped) \cup {data[n] : n \in {m \in A : Queued(m, A, own)}}
<1>1. /\ Ghosts(A, own, pos, st, F, ft) /\ PcInv /\ ListInv(A, own, pos, st) /\ DataInv(A, own)
      /\ OrderInv(A, own, pos)
  BY DEF Inv
<1>2. /\ head.at \in A /\ own[head.at] = Popper
      /\ \A n \in A : own[n] = Popper => pos[head.at] <= pos[n]
  BY <1>1, HeadFacts
<1>3. PICK b : b = Behind(head)
  OBVIOUS
<1>4. /\ b \in Seq(Nodes) /\ Len(b) \in Nat
      /\ \A i \in 1 .. Len(b) : /\ b[i] \in A /\ own[b[i]] = Popper /\ b[i] # head.at
                                /\ pos[b[i]] = pos[head.at] + i
      /\ Elements(b) = {n \in A : own[n] = Popper /\ n # head.at}
  BY <1>1, <1>2, <1>3, BehindIs
<1>5. \A i \in 1 .. Len(b) : Queued(b[i], A, own)
  BY <1>4 DEF Queued, Live
<1>6. Elements(b) = {m \in A : Queued(m, A, own)}
  BY <1>4 DEF Queued, Live
<1>7. PICK d : d = Values(b)
  OBVIOUS
<1>8. /\ d \in Seq(0 .. MaxPush) /\ Len(d) = Len(b) /\ DOMAIN d = 1 .. Len(b)
      /\ \A i \in 1 .. Len(b) : d[i] = data[b[i]]
  <2>1. d = [i \in 1 .. Len(b) |-> data[b[i]]]
    BY <1>4, <1>7 DEF Values
  <2>2. \A i \in 1 .. Len(b) : data[b[i]] \in 0 .. MaxPush
    BY <1>1, <1>4, TypeFacts
  <2>3. d \in [1 .. Len(b) -> 0 .. MaxPush]
    BY <2>1, <2>2
  <2> QED BY <1>4, <2>1, <2>3
<1>9. popped \in Seq(0 .. MaxPush) /\ Len(popped) \in Nat /\ DOMAIN popped = 1 .. Len(popped)
  <2>1. popped \in Seq(1 .. MaxPush)
    BY <1>1, TypeFacts
  <2>2. /\ Len(popped) \in Nat /\ DOMAIN popped = 1 .. Len(popped)
        /\ popped \in [1 .. Len(popped) -> 1 .. MaxPush]
    BY <2>1, LenProperties
  <2>3. popped \in [1 .. Len(popped) -> 0 .. MaxPush]
    BY <2>2
  <2>4. popped \in Seq(0 .. MaxPush)
    <3>1. PICK k : k = Len(popped)
      OBVIOUS
    <3>2. k \in Nat /\ popped \in [1 .. k -> 0 .. MaxPush]
      BY <2>2, <2>3, <3>1
    <3>3. popped = [i \in 1 .. k |-> popped[i]]
      BY <3>2
    <3>4. [i \in 1 .. k |-> popped[i]] \in Seq(0 .. MaxPush)
      BY <3>2
    <3> QED BY <3>3, <3>4
  <2> QED BY <2>2, <2>4
<1>10. InQueue = popped \o d
  BY <1>3, <1>7 DEF InQueue
<1>11. /\ DOMAIN InQueue = 1 .. (Len(popped) + Len(b))
       /\ \A i \in 1 .. Len(popped) : InQueue[i] = popped[i]
       /\ \A i \in 1 .. Len(b) : InQueue[Len(popped) + i] = d[i]
  <2>1. \A i \in 1 .. Len(b) : Len(popped) + i \in 1 .. (Len(popped) + Len(b))
                               /\ Len(popped) + i > Len(popped)
    BY <1>4, <1>9
  <2>2. \A i \in 1 .. Len(popped) : i \in 1 .. (Len(popped) + Len(b)) /\ i <= Len(popped)
    BY <1>4, <1>9
  <2>3. /\ InQueue \in Seq(0 .. MaxPush) /\ Len(InQueue) = Len(popped) + Len(b)
        /\ \A i \in 1 .. Len(popped) + Len(b) :
             InQueue[i] = IF i <= Len(popped) THEN popped[i] ELSE d[i - Len(popped)]
    <3>1. popped \in Seq(0 .. MaxPush) /\ d \in Seq(0 .. MaxPush) /\ Len(d) = Len(b)
      BY <1>8, <1>9
    <3>2. PICK S : S = 0 .. MaxPush
      OBVIOUS
    <3>3. popped \in Seq(S) /\ d \in Seq(S)
      BY <3>1, <3>2
    <3>4. /\ popped \o d \in Seq(S) /\ Len(popped \o d) = Len(popped) + Len(d)
          /\ \A i \in 1 .. Len(popped) + Len(d) :
               (popped \o d)[i] = IF i <= Len(popped) THEN popped[i] ELSE d[i - Len(popped)]
      BY ONLY <3>3, ConcatProperties
    <3> QED BY <1>10, <3>1, <3>2, <3>4
  <2>4. \A i \in 1 .. Len(b) : (Len(popped) + i) - Len(popped) = i
    BY <1>4, <1>9
  <2>5. DOMAIN InQueue = 1 .. (Len(popped) + Len(b))
    BY <2>3
  <2>6. \A i \in 1 .. Len(popped) : InQueue[i] = popped[i]
    BY <2>2, <2>3
  <2>7. ASSUME NEW i \in 1 .. Len(b)
        PROVE  InQueue[Len(popped) + i] = d[i]
    <3>1. ~(Len(popped) + i <= Len(popped))
      BY <1>9, <2>1
    <3> QED BY <2>1, <2>3, <2>4, <3>1
  <2> QED BY <2>5, <2>6, <2>7
<1>12. \A i \in DOMAIN InQueue :
         \/ i \in 1 .. Len(popped) /\ InQueue[i] = popped[i]
         \/ \E k \in 1 .. Len(b) : i = Len(popped) + k /\ InQueue[i] = data[b[k]]
  <2>1. SUFFICES ASSUME NEW i \in DOMAIN InQueue, i \notin 1 .. Len(popped)
                 PROVE  \E k \in 1 .. Len(b) : i = Len(popped) + k /\ InQueue[i] = data[b[k]]
    BY <1>11
  <2>2. i - Len(popped) \in 1 .. Len(b) /\ i = Len(popped) + (i - Len(popped))
    BY <1>4, <1>9, <1>11, <2>1
  <2> QED BY <1>8, <1>11, <2>2
<1>13. ASSUME NEW i \in DOMAIN InQueue, NEW j \in DOMAIN InQueue, i < j
       PROVE  Apart(InQueue[i], InQueue[j])
  <2>1. CASE i \in 1 .. Len(popped) /\ InQueue[i] = popped[i]
    <3>1. CASE j \in 1 .. Len(popped) /\ InQueue[j] = popped[j]
      BY <1>1, <1>13, <2>1, <3>1 DEF OrderInv
    <3>2. CASE \E k \in 1 .. Len(b) : j = Len(popped) + k /\ InQueue[j] = data[b[k]]
      BY <1>1, <1>4, <1>5, <2>1, <3>2 DEF OrderInv
    <3> QED BY <1>12, <3>1, <3>2
  <2>2. CASE \E k \in 1 .. Len(b) : i = Len(popped) + k /\ InQueue[i] = data[b[k]]
    <3>1. PICK k \in 1 .. Len(b) : i = Len(popped) + k /\ InQueue[i] = data[b[k]]
      BY <2>2
    <3>2. j \notin 1 .. Len(popped)
      BY <1>9, <1>11, <1>13, <3>1
    <3>3. PICK l \in 1 .. Len(b) : j = Len(popped) + l /\ InQueue[j] = data[b[l]]
      BY <1>12, <3>2
    <3>4. pos[b[k]] < pos[b[l]]
      <4>1. pos[head.at] \in Int /\ k \in Int /\ l \in Int /\ k < l
        BY <1>1, <1>2, <1>4, <1>9, <1>13, <3>1, <3>3 DEF Ghosts
      <4> QED BY <1>4, <4>1
    <3> QED BY <1>1, <1>4, <1>5, <3>1, <3>3, <3>4 DEF OrderInv
  <2> QED BY <1>12, <2>1, <2>2
<1>14. Elements(InQueue) = Elements(popped) \cup {data[n] : n \in Elements(b)}
  <2>1. Elements(InQueue) \subseteq Elements(popped) \cup {data[n] : n \in Elements(b)}
    <3>1. \A k \in 1 .. Len(b) : b[k] \in Elements(b)
      BY <1>4 DEF Elements
    <3>2. \A i \in 1 .. Len(popped) : popped[i] \in Elements(popped)
      BY <1>9 DEF Elements
    <3>3. \A i \in DOMAIN InQueue : InQueue[i] \in Elements(popped) \cup {data[n] : n \in Elements(b)}
      BY <1>12, <3>1, <3>2
    <3> QED BY <3>3 DEF Elements
  <2>2. Elements(popped) \subseteq Elements(InQueue)
    <3>1. \A i \in 1 .. Len(popped) : i \in DOMAIN InQueue
      BY <1>4, <1>9, <1>11
    <3> QED BY <1>9, <1>11, <3>1 DEF Elements
  <2>3. ASSUME NEW n \in Elements(b) PROVE data[n] \in Elements(InQueue)
    <3>1. PICK k \in 1 .. Len(b) : b[k] = n
      BY <1>4, <2>3 DEF Elements
    <3>2. Len(popped) + k \in DOMAIN InQueue /\ InQueue[Len(popped) + k] = data[n]
      BY <1>4, <1>8, <1>9, <1>11, <3>1
    <3> QED BY <3>2 DEF Elements
  <2> QED BY <2>1, <2>2, <2>3
<1> QED BY <1>6, <1>13, <1>14

(* Every linked element is popped, queued or hidden, and only one of       *)
(* these.                                                                  *)
LEMMA Placed ==
  ASSUME NEW A, NEW own, NEW pos, NEW st, NEW F, NEW ft, Inv(A, own, pos, st, F, ft)
  PROVE  LET hidden == {data[n] : n \in Hidden} IN
         /\ Elements(InQueue) \cap hidden = {}
         /\ Elements(InQueue) \cup hidden = {v \in DOMAIN pushed : ~Unlinked(v)}
<1>1. /\ Ghosts(A, own, pos, st, F, ft) /\ PcInv /\ ListInv(A, own, pos, st) /\ DataInv(A, own)
  BY DEF Inv
<1>2. PICK Q : Q = {m \in A : Queued(m, A, own)}
  OBVIOUS
<1>3. PICK H : H = {n \in A : own[n] \in Pushers /\ n # node[own[n]]}
  OBVIOUS
<1>4. Hidden = H
  BY <1>1, <1>3, HiddenIs
<1>5. Elements(InQueue) = Elements(popped) \cup {data[n] : n \in Q}
  BY <1>2, InQueueIs
<1>6. popped \in Seq(1 .. MaxPush) /\ DOMAIN popped = 1 .. Len(popped)
  BY <1>1, TypeFacts
<1>7. Elements(popped) = {popped[i] : i \in 1 .. Len(popped)}
  BY <1>6 DEF Elements
<1>8. own[head.at] = Popper /\ Popper \notin Pushers /\ Pushers \subseteq Threads
      /\ A \subseteq Nodes /\ own \in [Nodes -> Threads]
  BY <1>1, HeadFacts, ThreadFacts DEF Ghosts
<1>9. \A n \in Q : n \in A /\ Live(n, A) /\ own[n] = Popper
  BY <1>2 DEF Queued
<1>10. \A n \in A : own[n] \in Pushers => Live(n, A)
  BY <1>8 DEF Live
<1>11. \A n \in H : n \in A /\ Live(n, A) /\ own[n] \in Pushers /\ n # node[own[n]]
  BY <1>3, <1>10
<1>12. ASSUME NEW t \in Pushers, InHand(t)
       PROVE  /\ node[t] \in A /\ own[node[t]] = t /\ data[node[t]] = value[t]
              /\ Live(node[t], A) /\ node[t] \notin Q /\ node[t] \notin H
  <2>1. node[t] \in A /\ own[node[t]] = t
    BY <1>1, <1>8, <1>12, ThreadFacts DEF ListInv, Root
  <2> QED BY <1>1, <1>8, <1>9, <1>10, <1>11, <1>12, <2>1 DEF DataInv
<1>13. \A v : Unlinked(v) <=> v \in Before(Fill) \/ \E t \in Pushers : InHand(t) /\ value[t] = v
  BY DEF Unlinked, Before, Fill, Alloc
<1>14. \A v : v \in Past(Fill) <=> v \in DOMAIN pushed /\ v \notin Before(Fill)
  BY DEF Past
<1>15. ASSUME NEW n \in Q \cup H
       PROVE  data[n] \in DOMAIN pushed /\ ~Unlinked(data[n])
  <2>1. n \in A /\ Live(n, A)
    BY <1>9, <1>11
  <2>2. data[n] \in Past(Fill)
    BY <1>1, <2>1 DEF DataInv
  <2>3. \A t \in Pushers : InHand(t) => value[t] # data[n]
    <3>1. SUFFICES ASSUME NEW t \in Pushers, InHand(t), value[t] = data[n] PROVE FALSE
      OBVIOUS
    <3>2. n = node[t]
      BY <1>1, <1>12, <2>1, <3>1 DEF DataInv
    <3> QED BY <1>12, <3>1, <3>2
  <2> QED BY <1>13, <1>14, <2>2, <2>3
<1>16. ASSUME NEW i \in 1 .. Len(popped)
       PROVE  popped[i] \in DOMAIN pushed /\ ~Unlinked(popped[i])
  <2>1. popped[i] \in Past(Fill)
    BY <1>1 DEF DataInv
  <2>2. \A t \in Pushers : InHand(t) => value[t] # popped[i]
    <3>1. SUFFICES ASSUME NEW t \in Pushers, InHand(t), value[t] = popped[i] PROVE FALSE
      OBVIOUS
    <3>2. node[t] \in A /\ Live(node[t], A) /\ data[node[t]] = popped[i]
      BY <1>12, <3>1
    <3> QED BY <1>1, <3>2 DEF DataInv
  <2> QED BY <1>13, <1>14, <2>1, <2>2
<1>17. ASSUME NEW v \in DOMAIN pushed, ~Unlinked(v)
       PROVE  \/ \E i \in 1 .. Len(popped) : popped[i] = v
              \/ \E n \in Q \cup H : data[n] = v
  <2>1. v \in Past(Fill)
    BY <1>13, <1>14, <1>17
  <2>2. CASE \E i \in 1 .. Len(popped) : popped[i] = v
    BY <2>2
  <2>3. CASE \E n \in A : Live(n, A) /\ data[n] = v
    <3>1. PICK n \in A : Live(n, A) /\ data[n] = v
      BY <2>3
    <3>2. own[n] \in Threads
      BY <1>8, <3>1
    <3>3. CASE own[n] = Popper
      <4>1. n \in Q
        BY <1>2, <3>1, <3>3 DEF Queued
      <4> QED BY <3>1, <4>1
    <3>4. CASE own[n] \in Pushers
      <4>1. InHand(own[n])
        BY <1>1, <3>1, <3>4 DEF ListInv
      <4>2. n # node[own[n]]
        BY <1>12, <1>13, <1>17, <3>1, <3>4, <4>1
      <4>3. n \in H
        BY <1>3, <3>1, <3>4, <4>2
      <4> QED BY <3>1, <4>3
    <3> QED BY <3>2, <3>3, <3>4, ThreadFacts
  <2> QED BY <1>1, <2>1, <2>2, <2>3 DEF DataInv
<1>18. Elements(InQueue) \cap {data[n] : n \in H} = {}
  <2>1. \A i \in 1 .. Len(popped), n \in H : popped[i] # data[n]
    BY <1>1, <1>11 DEF DataInv
  <2>2. \A m \in Q, n \in H : data[m] # data[n]
    <3>1. \A m \in Q, n \in H : m # n
      BY <1>8, <1>9, <1>11
    <3> QED BY <1>1, <1>9, <1>11, <3>1 DEF DataInv
  <2> QED BY <1>5, <1>7, <2>1, <2>2
<1>19. Elements(InQueue) \cup {data[n] : n \in H} = {v \in DOMAIN pushed : ~Unlinked(v)}
  <2>1. Elements(InQueue) \cup {data[n] : n \in H} \subseteq {v \in DOMAIN pushed : ~Unlinked(v)}
    BY <1>5, <1>7, <1>15, <1>16
  <2>2. {v \in DOMAIN pushed : ~Unlinked(v)} \subseteq Elements(InQueue) \cup {data[n] : n \in H}
    BY <1>5, <1>7, <1>17
  <2> QED BY <2>1, <2>2
<1> QED BY <1>4, <1>18, <1>19

(* Whatever pushes and pops overlap, every element that was linked is popped   *)
(* once, or in the queue, or behind a node about to be linked; elements of    *)
(* one pusher keep their order unless one was displaced; and tail never falls *)
(* behind head.                                                              *)
THEOREM NothingLost ==
  ASSUME MaxPush < TagMod
  PROVE  Spec => []NothingLostOrSwapped
<1>1. ASSUME IInv PROVE NothingLostOrSwapped
  <2>1. PICK A, own, pos, st, F, ft : Inv(A, own, pos, st, F, ft)
    BY <1>1 DEF IInv
  <2>2. /\ Ghosts(A, own, pos, st, F, ft) /\ PcInv /\ ListInv(A, own, pos, st)
        /\ WatchInv(A, own, st)
    BY <2>1 DEF Inv
  <2>3. tail.at \in Elements(Chain(head))
    <3>1. /\ head.at \in A /\ own[head.at] = Popper
          /\ \A n \in A : own[n] = Popper => pos[head.at] <= pos[n]
      BY <2>2, HeadFacts
    <3>2. Elements(Chain(head)) = {n \in A : own[n] = own[head.at]}
      BY <2>2, <3>1, ChainOf
    <3> QED BY <2>2, <3>1, <3>2 DEF WatchInv
  <2>4. \A i, j \in DOMAIN InQueue : i < j => Apart(InQueue[i], InQueue[j])
    BY <2>1, InQueueIs
  <2>5. \A i, j \in DOMAIN InQueue : i < j =>
           /\ InQueue[i] # InQueue[j]
           /\ InQueue[i] < InQueue[j] \/ pushed[InQueue[i]] # pushed[InQueue[j]]
              \/ displaced \cap {InQueue[i], InQueue[j]} # {}
    BY <2>4 DEF Apart
  <2>6. /\ Elements(InQueue) \cap {data[n] : n \in Hidden} = {}
        /\ Elements(InQueue) \cup {data[n] : n \in Hidden} = {v \in DOMAIN pushed : ~Unlinked(v)}
    BY <2>1, Placed
  <2> QED BY <2>3, <2>5, <2>6 DEF NothingLostOrSwapped, InQueue
<1> QED BY <1>1, Inductive, PTL

(* A consumer that has seen Size() > 0 finds an element, unless one was       *)
(* linked behind a node that had left the queue.                             *)
THEOREM PopFinds ==
  ASSUME MaxPush < TagMod
  PROVE  Spec => []PopFindsUnlessDisplaced
<1>1. ASSUME IInv PROVE PopFindsUnlessDisplaced
  <2>1. PICK A, own, pos, st, F, ft : Inv(A, own, pos, st, F, ft)
    BY <1>1 DEF IInv
  <2>2. /\ Ghosts(A, own, pos, st, F, ft) /\ PcInv /\ ListInv(A, own, pos, st)
        /\ WatchInv(A, own, st) /\ CountInv /\ DataInv(A, own) /\ OrderInv(A, own, pos)
    BY <2>1 DEF Inv
  <2>3. SUFFICES ASSUME pc[Popper] = "popNext", next[r[Popper].at] = Null, displaced = {}
                 PROVE  FALSE
    BY DEF PopFindsUnlessDisplaced
  <2>4. next[head.at] = Null /\ r[Popper] = head
    BY <2>2, <2>3 DEF WatchInv, PopWatch
  <2>5. Cardinality(Past(Pending)) > Len(popped)
    <3>1. pc[Popper] \notin Freeing \cup {"uncount"} /\ pc[Popper] # "idle"
      BY <2>3 DEF Freeing
    <3>2. size > 0 /\ size = Cardinality(Past(Pending)) - Len(popped)
      BY <2>2, <3>1, PastFacts, PoppedCount DEF CountInv
    <3> QED BY <2>2, <3>2, PastFacts, PoppedCount
  <2>6. PICK v \in Past(Pending) : v \notin Elements(popped)
    <3>1. SUFFICES ASSUME Past(Pending) \subseteq Elements(popped) PROVE FALSE
      OBVIOUS
    <3>2. IsFiniteSet(Elements(popped)) /\ Cardinality(Elements(popped)) = Len(popped)
      <4>1. Elements(popped) \subseteq Past(Fill) /\ IsFiniteSet(Past(Fill))
        BY <2>2, PoppedCount, PastFacts
      <4> QED BY <2>2, <4>1, FS_Subset, PoppedCount
    <3>3. Cardinality(Past(Pending)) <= Len(popped)
      BY <3>1, <3>2, FS_Subset
    <3> QED BY <2>2, <2>5, <3>3, PastFacts, PoppedCount
  <2>7. v \in Past(Fill)
    BY <2>6 DEF Past, Before, Pending
  <2>8. ~\E i \in 1 .. Len(popped) : popped[i] = v
    <3>1. popped \in Seq(1 .. MaxPush)
      BY <2>2, TypeFacts
    <3>2. DOMAIN popped = 1 .. Len(popped)
      BY <3>1
    <3> QED BY <2>6, <3>2 DEF Elements
  <2>9. PICK n \in A : Live(n, A) /\ data[n] = v
    BY <2>2, <2>7, <2>8 DEF DataInv
  <2>10. own[n] # Popper
    BY <2>2, <2>4, <2>9, HeadFacts DEF Live
  <2>11. own[n] \in Pushers
    BY <2>2, <2>10, ThreadFacts DEF Ghosts
  <2>12. n = node[own[n]]
    BY <2>2, <2>3, <2>11 DEF DataInv
  <2>13. InHand(own[n]) /\ value[own[n]] = v
    BY <2>2, <2>9, <2>11, <2>12 DEF ListInv, DataInv
  <2> QED BY <2>6, <2>11, <2>13 DEF Past, Before, Pending, Held, InHand
<1> QED BY <1>1, Inductive, PTL

(* Every variable of the queue keeps its type, for any number of pushers   *)
(* and calls: no pointer leaves the nodes, and size is never negative.     *)
THEOREM Types ==
  ASSUME MaxPush < TagMod
  PROVE  Spec => []TypeOK
<1>1. IInv => TypeOK
  BY DEF IInv, Inv, PcInv
<1> QED BY <1>1, Inductive, PTL

-----------------------------------------------------------------------------
(* The inductive invariant, in named parts.                                  *)

ByteStrings == Seq(Nat)

TypeInv == BufferTypeOK /\ extracted \in Seq(ByteStrings)

(* What arrived was sent, what was taken had arrived, and from front on the    *)
(* ring has what is between.                                                 *)
RingInv ==
  /\ taken <= arrived /\ arrived <= bytes
  /\ GetUseSize = arrived - taken
  /\ \A i \in 0 .. arrived - taken - 1 : buf[Moved(front, i)] = taken + 1 + i

(* A receive is posted for what was free and still is, and there is room      *)
(* unless the packet in turn is too long for the ring.                        *)
Posted ==
  <<[at |-> rear, len |-> DirectEnqueueSize]>> \o
    (IF GetFreeSize = DirectEnqueueSize THEN <<>>
     ELSE <<[at |-> 0, len |-> GetFreeSize - DirectEnqueueSize]>>)

KernelInv ==
  /\ stage \in {"post", "kernel"} => arrived - taken < BufferSize \/ TooLong
  /\ stage = "closed" => TooLong
  /\ stage = "kernel" => wsabufs = Posted

(* The packets are laid end to end in the stream, up to its end.              *)
Next_at(k) == sent[k].at + HeaderSize + sent[k].size

StreamInv ==
  /\ \A k \in DOMAIN sent :
       /\ sent[k].size \in Sizes /\ sent[k].at <= bytes
       /\ Next_at(k) = IF k = Len(sent) THEN bytes + 1 ELSE sent[k + 1].at
  /\ \A j, k \in DOMAIN sent : j < k => sent[j].at < sent[k].at

(* What was taken are the packets that were extracted, until one fails.        *)
PlaceInv ==
  stage # "failed" =>
    taken + 1 = IF Len(extracted) < Len(sent) THEN sent[Len(extracted) + 1].at ELSE bytes + 1

BufferIInv ==
  /\ TypeInv /\ RingInv /\ KernelInv /\ StreamInv /\ PlaceInv /\ ExtractedInOrder

-----------------------------------------------------------------------------
(* Arithmetic of indices in the ring. *)
LEMMA Modulo ==
  ASSUME NEW a \in Nat, NEW b \in Nat \ {0}, a < 2 * b
  PROVE  a % b = IF a < b THEN a ELSE a - b
<1>1. CASE a < b
  BY <1>1
<1>2. CASE a >= b
  BY <1>2
<1> QED BY <1>1, <1>2

(* Where an index moves to: past the end of the array it starts again.        *)
LEMMA MovedIs ==
  ASSUME NEW index \in 0 .. BufferSize, NEW span \in 0 .. BufferSize
  PROVE  /\ Moved(index, span) = IF index + span <= BufferSize THEN index + span
                                 ELSE index + span - BufferSize - 1
         /\ Moved(index, span) \in 0 .. BufferSize
<1>1. BufferSize \in Nat
  BY BufferAssumption
<1>2. Moved(index, span) = IF index + span < BufferSize + 1 THEN index + span
                           ELSE index + span - (BufferSize + 1)
  <2>1. /\ index + span \in Nat /\ BufferSize + 1 \in Nat \ {0}
        /\ index + span < 2 * (BufferSize + 1)
    BY <1>1
  <2> DEFINE a == index + span
             b == BufferSize + 1
  <2> HIDE DEF a, b
  <2>2. a \in Nat /\ b \in Nat \ {0} /\ a < 2 * b
    BY <2>1 DEF a, b
  <2>3. a % b = IF a < b THEN a ELSE a - b
    BY <2>2, Modulo
  <2>4. Moved(index, span) = a % b
    BY DEF Moved, AllocSize, a, b
  <2>5. Moved(index, span) = IF a < b THEN a ELSE a - b
    BY <2>3, <2>4
  <2>6. a = index + span /\ b = BufferSize + 1
    BY DEF a, b
  <2> QED BY <2>5, <2>6
<1> QED BY <1>1, <1>2

(* The indices and the sizes they stand for. *)
LEMMA Indices ==
  ASSUME TypeInv
  PROVE  /\ BufferSize \in Nat \ {0} /\ front \in 0 .. BufferSize /\ rear \in 0 .. BufferSize
         /\ buf \in [0 .. BufferSize -> Nat]
         /\ GetUseSize \in 0 .. BufferSize /\ GetFreeSize = BufferSize - GetUseSize
         /\ rear = Moved(front, GetUseSize)
<1>1. /\ BufferSize \in Nat \ {0} /\ front \in 0 .. BufferSize /\ rear \in 0 .. BufferSize
      /\ buf \in [0 .. BufferSize -> Nat]
  BY BufferAssumption DEF TypeInv, BufferTypeOK
<1>2. GetUseSize \in 0 .. BufferSize /\ GetFreeSize = BufferSize - GetUseSize
  BY <1>1 DEF GetUseSize, GetFreeSize
<1>3. rear = Moved(front, GetUseSize)
  <2>1. GetUseSize = IF rear >= front THEN rear - front ELSE BufferSize + rear - front + 1
    BY DEF GetUseSize
  <2>2. Moved(front, GetUseSize) = IF front + GetUseSize <= BufferSize THEN front + GetUseSize
                                   ELSE front + GetUseSize - BufferSize - 1
    BY <1>1, <1>2, MovedIs
  <2> QED BY <1>1, <1>2, <2>1, <2>2
<1> QED BY <1>1, <1>2, <1>3

(* Moving twice is moving once, and different ways lead to different cells.    *)
LEMMA MovedTwice ==
  ASSUME NEW index \in 0 .. BufferSize, NEW m \in 0 .. BufferSize, NEW n \in 0 .. BufferSize
  PROVE  /\ m + n <= BufferSize => Moved(Moved(index, m), n) = Moved(index, m + n)
         /\ Moved(index, m) = Moved(index, n) => m = n
<1>1. BufferSize \in Nat
  BY BufferAssumption
<1> DEFINE c == Moved(index, m)
           d == Moved(index, n)
<1>2. /\ c = IF index + m <= BufferSize THEN index + m ELSE index + m - BufferSize - 1
      /\ d = IF index + n <= BufferSize THEN index + n ELSE index + n - BufferSize - 1
      /\ c \in 0 .. BufferSize
  BY <1>1, MovedIs
<1> HIDE DEF c, d
<1>3. Moved(c, n) = IF c + n <= BufferSize THEN c + n ELSE c + n - BufferSize - 1
  BY <1>2, MovedIs
<1>4. ASSUME m + n <= BufferSize
      PROVE  Moved(index, m + n) = IF index + (m + n) <= BufferSize THEN index + (m + n)
                                   ELSE index + (m + n) - BufferSize - 1
  <2>1. m + n \in 0 .. BufferSize
    BY <1>1, <1>4
  <2> QED BY <2>1, MovedIs
<1>5. m + n <= BufferSize => Moved(c, n) = Moved(index, m + n)
  BY <1>1, <1>2, <1>3, <1>4
<1>6. c = d => m = n
  BY <1>1, <1>2
<1> QED BY <1>5, <1>6 DEF c, d

(* Read copies out the cells from front on, wherever the array ends.          *)
LEMMA ReadIs ==
  ASSUME TypeInv, NEW span \in 0 .. BufferSize
  PROVE  /\ Read(span) = [i \in 1 .. span |-> buf[Moved(front, i - 1)]]
         /\ Read(span) \in ByteStrings
<1>1. /\ BufferSize \in Nat /\ front \in 0 .. BufferSize /\ buf \in [0 .. BufferSize -> Nat]
  BY Indices
<1> DEFINE chunk == IF front + span > BufferSize THEN AllocSize - front ELSE span
<1>2. Read(span) = [i \in 1 .. span |-> IF i <= chunk THEN buf[front + i - 1] ELSE buf[i - 1 - chunk]]
  BY DEF Read
<1>3. ASSUME NEW i \in 1 .. span
      PROVE  /\ (IF i <= chunk THEN buf[front + i - 1] ELSE buf[i - 1 - chunk]) = buf[Moved(front, i - 1)]
             /\ buf[Moved(front, i - 1)] \in Nat
  <2>1. i - 1 \in 0 .. BufferSize
    BY <1>1
  <2>2. /\ Moved(front, i - 1) = IF front + (i - 1) <= BufferSize THEN front + (i - 1)
                                 ELSE front + (i - 1) - BufferSize - 1
        /\ Moved(front, i - 1) \in 0 .. BufferSize
    BY <1>1, <2>1, MovedIs
  <2>3. /\ i <= chunk => Moved(front, i - 1) = front + i - 1
        /\ ~(i <= chunk) => Moved(front, i - 1) = i - 1 - chunk
    BY <1>1, <2>2 DEF AllocSize
  <2> QED BY <1>1, <2>2, <2>3
<1> HIDE DEF chunk
<1>4. Read(span) = [i \in 1 .. span |-> buf[Moved(front, i - 1)]]
  BY <1>2, <1>3
<1>5. Read(span) \in Seq(Nat)
  <2>1. \A i \in 1 .. span : buf[Moved(front, i - 1)] \in Nat
    BY <1>3
  <2>2. [i \in 1 .. span |-> buf[Moved(front, i - 1)]] \in [1 .. span -> Nat] /\ span \in Nat
    BY <1>1, <2>1
  <2> QED BY <1>4, <2>2, IsASeq
<1> QED BY <1>4, <1>5 DEF ByteStrings

(* What the ring holds, read from its front. *)
LEMMA ReadStream ==
  ASSUME TypeInv, RingInv, NEW span \in 0 .. GetUseSize
  PROVE  /\ Read(span) = Bytes(taken + 1, taken + span)
         /\ span \in 0 .. BufferSize /\ Read(span) \in ByteStrings
<1>1. /\ BufferSize \in Nat /\ GetUseSize \in 0 .. BufferSize
      /\ taken \in Nat /\ arrived \in Nat /\ GetUseSize = arrived - taken
  BY Indices DEF TypeInv, BufferTypeOK, RingInv
<1>2. span \in 0 .. BufferSize
  BY <1>1
<1>3. \A i \in 1 .. span : buf[Moved(front, i - 1)] = taken + i
  <2> SUFFICES ASSUME NEW i \in 1 .. span PROVE buf[Moved(front, i - 1)] = taken + i
    OBVIOUS
  <2>1. i - 1 \in 0 .. arrived - taken - 1 /\ taken + 1 + (i - 1) = taken + i
    BY <1>1, <1>2
  <2> QED BY <2>1 DEF RingInv
<1>4. Bytes(taken + 1, taken + span) = [i \in 1 .. span |-> taken + i]
  <2>1. (taken + span) - (taken + 1) + 1 = span /\ \A i \in 1 .. span : (taken + 1) + i - 1 = taken + i
    BY <1>1, <1>2
  <2>2. Bytes(taken + 1, taken + span)
          = [i \in 1 .. (taken + span) - (taken + 1) + 1 |-> (taken + 1) + i - 1]
    BY DEF Bytes
  <2> QED BY <2>1, <2>2
<1>5. Read(span) = [i \in 1 .. span |-> taken + i]
  <2>1. Read(span) = [i \in 1 .. span |-> buf[Moved(front, i - 1)]]
    BY <1>2, ReadIs
  <2> QED BY <1>3, <2>1
<1> QED BY <1>2, <1>4, <1>5, ReadIs

(* The buffers of a posted receive are the free cells, from rear on.           *)
LEMMA PostedIs ==
  ASSUME TypeInv, wsabufs = Posted
  PROVE  /\ Room = GetFreeSize
         /\ \A i \in DOMAIN wsabufs : wsabufs[i].len >= 0
         /\ \A i \in 1 .. Room : Target(i) = Moved(rear, i - 1)
<1>1. BufferSize \in Nat \ {0} /\ front \in 0 .. BufferSize /\ rear \in 0 .. BufferSize
  BY Indices
<1> DEFINE D == DirectEnqueueSize
           F == GetFreeSize
<1>2. /\ D = IF rear >= front THEN IF front = 0 THEN BufferSize - rear ELSE BufferSize - rear + 1
             ELSE front - rear - 1
      /\ F = IF rear >= front THEN BufferSize - rear + front ELSE front - rear - 1
  BY <1>1 DEF DirectEnqueueSize, GetFreeSize
<1>3. D \in Nat /\ F \in Nat /\ D <= F /\ F <= BufferSize
  BY <1>1, <1>2
<1>4. wsabufs = <<[at |-> rear, len |-> D]>> \o
                (IF F = D THEN <<>> ELSE <<[at |-> 0, len |-> F - D]>>)
  BY DEF Posted
<1> HIDE DEF D, F
<1>5. \A i \in 1 .. F : Moved(rear, i - 1) = IF i <= D THEN rear + i - 1 ELSE i - D - 1
  <2> SUFFICES ASSUME NEW i \in 1 .. F
               PROVE  Moved(rear, i - 1) = IF i <= D THEN rear + i - 1 ELSE i - D - 1
    OBVIOUS
  <2>1. i - 1 \in 0 .. BufferSize
    BY <1>1, <1>3
  <2>2. Moved(rear, i - 1) = IF rear + (i - 1) <= BufferSize THEN rear + (i - 1)
                             ELSE rear + (i - 1) - BufferSize - 1
    BY <1>1, <2>1, MovedIs
  <2> QED BY <1>1, <1>2, <1>3, <2>2
<1>6. CASE F = D
  <2>1. wsabufs = <<[at |-> rear, len |-> D]>>
    BY <1>4, <1>6
  <2>2. Len(wsabufs) = 1 /\ wsabufs[1].at = rear /\ wsabufs[1].len = D /\ DOMAIN wsabufs = {1}
    BY <2>1
  <2>3. Room = D /\ \A i \in 1 .. F : Target(i) = rear + i - 1
    BY <1>3, <1>6, <2>2 DEF Room, Target
  <2> QED BY <1>3, <1>5, <1>6, <2>2, <2>3 DEF F
<1>7. CASE F # D
  <2> DEFINE one == [at |-> rear, len |-> D]
             two == [at |-> 0, len |-> F - D]
  <2>0. one.at = rear /\ one.len = D /\ two.at = 0 /\ two.len = F - D
    OBVIOUS
  <2>1. wsabufs = <<one>> \o <<two>>
    BY <1>4, <1>7
  <2> HIDE DEF one, two
  <2>2. /\ Len(wsabufs) = 2 /\ DOMAIN wsabufs = {1, 2}
        /\ wsabufs[1].at = rear /\ wsabufs[1].len = D
        /\ wsabufs[2].at = 0 /\ wsabufs[2].len = F - D
    BY <2>0, <2>1
  <2>3. Room = F /\ \A i \in 1 .. F : Target(i) = IF i <= D THEN rear + i - 1 ELSE i - D - 1
    BY <1>3, <2>2 DEF Room, Target
  <2> QED BY <1>3, <1>5, <2>2, <2>3 DEF F
<1> QED BY <1>6, <1>7
-----------------------------------------------------------------------------
(* Initially the ring is empty and there is no packet. *)
LEMMA InitBufferIInv == BufferInit => BufferIInv
<1> SUFFICES ASSUME BufferInit PROVE BufferIInv
  OBVIOUS
<1> USE DEF BufferInit
<1>0. BufferSize \in Nat \ {0} /\ 0 \in 0 .. BufferSize /\ MaxSessions \in Nat /\ 1 \in 1 .. MaxSessions
  BY BufferAssumption
<1>1. TypeInv
  <2>1. sent \in Seq(Packet) /\ extracted \in Seq(ByteStrings)
        /\ wsabufs \in Seq([at : 0 .. BufferSize, len : Int])
    BY EmptySeq
  <2>2. buf \in [0 .. BufferSize -> Nat]
    OBVIOUS
  <2> QED BY <1>0, <2>1, <2>2 DEF TypeInv, BufferTypeOK
<1>2. RingInv
  BY <1>0 DEF RingInv, GetUseSize
<1>3. KernelInv
  BY <1>0 DEF KernelInv
<1>4. Len(sent) = 0 /\ Len(extracted) = 0 /\ DOMAIN sent = {} /\ DOMAIN extracted = {}
  OBVIOUS
<1>5. StreamInv /\ PlaceInv /\ ExtractedInOrder
  BY <1>4 DEF StreamInv, PlaceInv, ExtractedInOrder
<1> QED BY <1>1, <1>2, <1>3, <1>5 DEF BufferIInv

(* A packet is appended to the stream, where nothing was taken yet. *)
LEMMA SendStep ==
  ASSUME BufferIInv, NEW s \in Sizes, NEW f \in Faults \cup {NoFault}, Send(s, f)
  PROVE  BufferIInv'
<1> USE DEF BufferIInv
<1> DEFINE pkt == [at |-> bytes + 1, size |-> s, fault |-> f]
           L == Len(sent)
<1>1. /\ sent' = Append(sent, pkt) /\ bytes' = bytes + HeaderSize + s
      /\ UNCHANGED <<buf, front, rear, wsabufs, stage, arrived, taken, extracted, sessions>>
  BY DEF Send, ringVars
<1>2. /\ bytes \in Nat /\ s \in Nat /\ HeaderSize \in Nat \ {0} /\ arrived \in Nat /\ taken \in Nat
      /\ sent \in Seq(Packet) /\ extracted \in Seq(ByteStrings)
  BY BufferAssumption DEF TypeInv, BufferTypeOK
<1>3. pkt \in Packet /\ pkt.at = bytes + 1 /\ pkt.size = s
  BY <1>2 DEF Packet
<1> HIDE DEF pkt
<1>4. /\ sent' \in Seq(Packet) /\ Len(sent') = L + 1 /\ sent'[L + 1] = pkt
      /\ \A k \in 1 .. L : sent'[k] = sent[k]
      /\ DOMAIN sent = 1 .. L /\ DOMAIN sent' = 1 .. (L + 1) /\ L \in Nat
  BY <1>1, <1>2, <1>3, AppendProperties, LenProperties
<1> HIDE DEF L
<1>5. bytes' \in Nat /\ bytes < bytes'
  BY <1>1, <1>2
<1>6. TypeInv'
  BY <1>1, <1>4, <1>5 DEF TypeInv, BufferTypeOK
<1>7. RingInv' /\ KernelInv'
  <2>1. arrived <= bytes'
    BY <1>2, <1>5 DEF RingInv
  <2>2. RingInv'
    BY <1>1, <2>1 DEF RingInv, GetUseSize, Moved
  <2>3. TooLong => TooLong'
    BY <1>1, <1>4 DEF TooLong
  <2>4. KernelInv'
    <3>1. Posted' = Posted
      BY <1>1 DEF Posted, GetFreeSize, DirectEnqueueSize
    <3> QED BY <1>1, <2>3, <3>1 DEF KernelInv
  <2> QED BY <2>2, <2>4
<1>8. StreamInv'
  <2>1. \A k \in 1 .. L : /\ sent[k].size \in Sizes /\ sent[k].at <= bytes
                          /\ sent[k].at \in Nat /\ sent[k].size \in Nat
                          /\ sent[k].at + HeaderSize + sent[k].size
                               = IF k = L THEN bytes + 1 ELSE sent[k + 1].at
    <3>1. \A k \in 1 .. L : sent[k] \in Packet
      BY <1>2, <1>4, ElementOfSeq DEF L
    <3>2. \A k \in 1 .. L : sent[k].at \in Nat /\ sent[k].size \in Nat
      BY <3>1 DEF Packet
    <3> QED BY <1>4, <3>2 DEF StreamInv, Next_at, L
  <2>2. \A k \in 1 .. (L + 1) :
          /\ sent'[k].size \in Sizes /\ sent'[k].at <= bytes'
          /\ sent'[k].at + HeaderSize + sent'[k].size
               = IF k = L + 1 THEN bytes' + 1 ELSE sent'[k + 1].at
    <3> SUFFICES ASSUME NEW k \in 1 .. (L + 1)
                 PROVE  /\ sent'[k].size \in Sizes /\ sent'[k].at <= bytes'
                        /\ sent'[k].at + HeaderSize + sent'[k].size
                             = IF k = L + 1 THEN bytes' + 1 ELSE sent'[k + 1].at
      OBVIOUS
    <3>1. CASE k = L + 1
      <4>1. sent'[k] = pkt
        BY <1>4, <3>1
      <4>2. bytes + 1 <= bytes + HeaderSize + s /\ bytes + 1 + HeaderSize + s = bytes + HeaderSize + s + 1
        BY <1>2
      <4> QED BY <1>1, <1>3, <3>1, <4>1, <4>2
    <3>2. CASE k = L
      <4>1. k \in 1 .. L
        BY <1>4, <3>2
      <4> QED BY <1>2, <1>3, <1>4, <1>5, <2>1, <3>2, <4>1
    <3>3. CASE k \in 1 .. (L - 1)
      <4>1. k \in 1 .. L /\ k + 1 \in 1 .. L /\ k # L /\ k # L + 1
        BY <1>4, <3>3
      <4> QED BY <1>2, <1>4, <1>5, <2>1, <4>1
    <3> QED BY <1>4, <3>1, <3>2, <3>3
  <2>3. \A j, k \in 1 .. (L + 1) : j < k => sent'[j].at < sent'[k].at
    <3> SUFFICES ASSUME NEW j \in 1 .. (L + 1), NEW k \in 1 .. (L + 1), j < k
                 PROVE  sent'[j].at < sent'[k].at
      OBVIOUS
    <3>1. j \in 1 .. L
      BY <1>4
    <3>2. CASE k = L + 1
      BY <1>2, <1>3, <1>4, <2>1, <3>1, <3>2
    <3>3. CASE k \in 1 .. L
      BY <1>4, <3>1, <3>3 DEF StreamInv
    <3> QED BY <1>4, <3>2, <3>3
  <2> QED BY <1>4, <2>2, <2>3 DEF StreamInv, Next_at
<1>9. Len(extracted) \in Nat /\ Len(extracted) <= L
      /\ DOMAIN extracted = 1 .. Len(extracted)
  BY <1>2, LenProperties DEF ExtractedInOrder, L
<1>10. PlaceInv'
  <2> SUFFICES ASSUME stage # "failed"
               PROVE  taken + 1 = IF Len(extracted) < L + 1 THEN sent'[Len(extracted) + 1].at
                                  ELSE bytes' + 1
    BY <1>1, <1>4 DEF PlaceInv
  <2>1. taken + 1 = IF Len(extracted) < L THEN sent[Len(extracted) + 1].at ELSE bytes + 1
    BY DEF PlaceInv, L
  <2>2. CASE Len(extracted) < L
    <3>1. Len(extracted) + 1 \in 1 .. L
      BY <1>4, <1>9, <2>2
    <3> QED BY <1>4, <1>9, <2>1, <2>2, <3>1
  <2>3. CASE Len(extracted) = L
    <3>1. ~(L < L) /\ L < L + 1
      BY <1>4
    <3> QED BY <1>3, <1>4, <2>1, <2>3, <3>1
  <2>4. Len(extracted) < L \/ Len(extracted) = L
    <3> DEFINE e == Len(extracted)
    <3>1. e \in Nat /\ e <= L /\ L \in Nat
      BY <1>4, <1>9
    <3> HIDE DEF e
    <3>2. e < L \/ e = L
      BY <3>1
    <3> QED BY <3>2 DEF e
  <2> QED BY <2>2, <2>3, <2>4
<1>11. ExtractedInOrder'
  <2>1. \A k \in DOMAIN extracted : k \in 1 .. L
    BY <1>4, <1>9
  <2>2. Len(extracted) <= L + 1
    BY <1>4, <1>9
  <2> QED BY <1>1, <1>4, <2>1, <2>2 DEF ExtractedInOrder, WholeOf, Bytes
<1> QED BY <1>6, <1>7, <1>8, <1>10, <1>11

(* The receive is described by the free part of the ring. *)
LEMMA RecvPostStep == ASSUME BufferIInv, RecvPost PROVE BufferIInv'
<1> USE DEF BufferIInv
<1>1. /\ stage = "post" /\ stage' = "kernel" /\ wsabufs' = Posted
      /\ UNCHANGED <<buf, front, rear, sent, bytes, arrived, taken, extracted, sessions>>
  BY DEF RecvPost, ringVars, Posted
<1>2. wsabufs' \in Seq([at : 0 .. BufferSize, len : Int])
  <2> DEFINE one == [at |-> rear, len |-> DirectEnqueueSize]
             two == [at |-> 0, len |-> GetFreeSize - DirectEnqueueSize]
             B == [at : 0 .. BufferSize, len : Int]
  <2>1. BufferSize \in Nat /\ front \in 0 .. BufferSize /\ rear \in 0 .. BufferSize
    BY Indices
  <2>2. DirectEnqueueSize \in Int /\ GetFreeSize \in Int
    BY <2>1 DEF DirectEnqueueSize, GetFreeSize
  <2>3. one \in B /\ two \in B
    BY <2>1, <2>2
  <2>4. Posted = <<one>> \o (IF GetFreeSize = DirectEnqueueSize THEN <<>> ELSE <<two>>)
    BY DEF Posted
  <2> HIDE DEF one, two, B
  <2>5. <<one>> \in Seq(B) /\ <<two>> \in Seq(B) /\ <<>> \in Seq(B)
    BY <2>3, EmptySeq
  <2>6. Posted \in Seq(B)
    BY <2>4, <2>5, ConcatProperties
  <2> QED BY <1>1, <2>6 DEF B
<1>3. TypeInv'
  BY <1>1, <1>2 DEF TypeInv, BufferTypeOK
<1>4. RingInv'
  BY <1>1 DEF RingInv, GetUseSize, Moved
<1>5. KernelInv'
  <2>1. Posted' = Posted /\ TooLong' = TooLong
    BY <1>1 DEF Posted, GetFreeSize, DirectEnqueueSize, TooLong
  <2> QED BY <1>1, <2>1 DEF KernelInv
<1>6. StreamInv' /\ PlaceInv' /\ ExtractedInOrder'
  BY <1>1 DEF StreamInv, Next_at, PlaceInv, ExtractedInOrder, WholeOf, Bytes
<1> QED BY <1>3, <1>4, <1>5, <1>6

(* The kernel's bytes follow the ones in the ring. *)
LEMMA RecvCompletesStep ==
  ASSUME BufferIInv, NEW n \in 1 .. BufferSize, RecvCompletes(n)
  PROVE  BufferIInv'
<1> USE DEF BufferIInv
<1> DEFINE use == GetUseSize
<1>1. /\ stage = "kernel" /\ stage' = "extract" /\ n <= Room /\ arrived + n <= bytes
      /\ buf' = [a \in 0 .. BufferSize |->
                   IF \E i \in 1 .. n : Target(i) = a
                   THEN arrived + CHOOSE i \in 1 .. n : Target(i) = a ELSE buf[a]]
      /\ rear' = Moved(rear, n) /\ arrived' = arrived + n /\ wsabufs' = <<>>
      /\ UNCHANGED <<front, sent, bytes, taken, extracted, sessions>>
  BY DEF RecvCompletes
<1>2. /\ BufferSize \in Nat \ {0} /\ front \in 0 .. BufferSize /\ rear \in 0 .. BufferSize
      /\ buf \in [0 .. BufferSize -> Nat]
      /\ use \in 0 .. BufferSize /\ GetFreeSize = BufferSize - use
      /\ rear = Moved(front, use)
  BY Indices
<1>3. /\ bytes \in Nat /\ arrived \in Nat /\ taken \in Nat
      /\ use = arrived - taken
  BY DEF TypeInv, BufferTypeOK, RingInv
<1>4. n \in 1 .. (BufferSize - use) /\ \A i \in 1 .. n : Target(i) = Moved(rear, i - 1)
  <2>1. Room = BufferSize - use /\ \A i \in 1 .. Room : Target(i) = Moved(rear, i - 1)
    BY <1>1, <1>2, PostedIs DEF KernelInv
  <2> QED BY <1>1, <1>2, <2>1
<1> HIDE DEF use
<1>5. \A i \in 1 .. n : Target(i) = Moved(front, use + i - 1)
  <2> SUFFICES ASSUME NEW i \in 1 .. n PROVE Target(i) = Moved(front, use + i - 1)
    OBVIOUS
  <2>1. i - 1 \in 0 .. BufferSize /\ use + (i - 1) <= BufferSize /\ use + (i - 1) = use + i - 1
    BY <1>2, <1>4
  <2>2. Moved(Moved(front, use), i - 1) = Moved(front, use + (i - 1))
    BY <1>2, <2>1, MovedTwice
  <2> QED BY <1>2, <1>4, <2>1, <2>2
<1>6. rear' \in 0 .. BufferSize
  <2>1. n \in 0 .. BufferSize
    BY <1>2
  <2> QED BY <1>1, <1>2, <2>1, MovedIs
<1>7. buf' \in [0 .. BufferSize -> Nat]
  <2> SUFFICES ASSUME NEW a \in 0 .. BufferSize PROVE buf'[a] \in Nat /\ DOMAIN buf' = 0 .. BufferSize
                                                      /\ buf' = [b \in 0 .. BufferSize |-> buf'[b]]
    BY <1>1, <1>2
  <2>1. CASE \E i \in 1 .. n : Target(i) = a
    <3>1. (CHOOSE i \in 1 .. n : Target(i) = a) \in 1 .. n
      BY <2>1
    <3> QED BY <1>1, <1>3, <2>1, <3>1
  <2>2. CASE ~ \E i \in 1 .. n : Target(i) = a
    BY <1>1, <1>2, <2>2
  <2> QED BY <1>1, <2>1, <2>2
<1>8. arrived' \in Nat /\ <<>> \in Seq([at : 0 .. BufferSize, len : Int])
  BY <1>1, <1>3, EmptySeq
<1>9. TypeInv'
  BY <1>1, <1>6, <1>7, <1>8 DEF TypeInv, BufferTypeOK
<1>10. GetUseSize' = use + n
  <2>1. rear' = IF rear + n <= BufferSize THEN rear + n ELSE rear + n - BufferSize - 1
    <3>1. n \in 0 .. BufferSize
      BY <1>2
    <3> QED BY <1>1, <1>2, <3>1, MovedIs
  <2>2. GetUseSize' = IF rear' >= front THEN rear' - front ELSE BufferSize + rear' - front + 1
    BY <1>1 DEF GetUseSize
  <2>3. use = IF rear >= front THEN rear - front ELSE BufferSize + rear - front + 1
    BY DEF use, GetUseSize
  <2> DEFINE w == rear'
             g == GetUseSize'
  <2> HIDE DEF w, g
  <2>4. /\ w = IF rear + n <= BufferSize THEN rear + n ELSE rear + n - BufferSize - 1
        /\ g = IF w >= front THEN w - front ELSE BufferSize + w - front + 1
    BY <2>1, <2>2 DEF w, g
  <2>5. BufferSize \in Nat /\ front \in 0 .. BufferSize /\ rear \in 0 .. BufferSize
        /\ n \in 1 .. BufferSize - use /\ use \in 0 .. BufferSize
    BY <1>2, <1>4
  <2>6. g = use + n
    <3>1. CASE rear + n <= BufferSize
      BY <2>3, <2>4, <2>5, <3>1
    <3>2. CASE ~(rear + n <= BufferSize)
      BY <2>3, <2>4, <2>5, <3>2
    <3> QED BY <3>1, <3>2
  <2> QED BY <2>6 DEF g
<1>11. \A i \in 0 .. (use + n) - 1 : buf'[Moved(front, i)] = taken + 1 + i
  <2> SUFFICES ASSUME NEW i \in 0 .. (use + n) - 1 PROVE buf'[Moved(front, i)] = taken + 1 + i
    OBVIOUS
  <2>1. i \in 0 .. BufferSize /\ Moved(front, i) \in 0 .. BufferSize
    <3>1. i \in 0 .. BufferSize
      BY <1>2, <1>4
    <3> QED BY <1>2, <3>1, MovedIs
  <2>2. \A j \in 1 .. n : Target(j) = Moved(front, i) => use + j - 1 = i
    <3> SUFFICES ASSUME NEW j \in 1 .. n, Target(j) = Moved(front, i) PROVE use + j - 1 = i
      OBVIOUS
    <3>1. use + j - 1 \in 0 .. BufferSize
      BY <1>2, <1>4
    <3> QED BY <1>2, <1>5, <2>1, <3>1, MovedTwice
  <2>3. CASE i < use
    <3>1. ~ \E j \in 1 .. n : Target(j) = Moved(front, i)
      BY <1>2, <2>1, <2>2, <2>3
    <3>2. buf[Moved(front, i)] = taken + 1 + i
      <4>1. i \in 0 .. arrived - taken - 1
        BY <1>2, <1>3, <2>3
      <4> QED BY <4>1 DEF RingInv
    <3> QED BY <1>1, <2>1, <3>1, <3>2
  <2>4. CASE i >= use
    <3> DEFINE j == i - use + 1
    <3>1. j \in 1 .. n /\ use + j - 1 = i
      BY <1>2, <1>4, <2>4
    <3>2. Target(j) = Moved(front, i)
      BY <1>5, <3>1
    <3>3. \A k \in 1 .. n : Target(k) = Moved(front, i) => k = j
      BY <1>2, <2>1, <2>2
    <3>4. (CHOOSE k \in 1 .. n : Target(k) = Moved(front, i)) = j
      <4> HIDE DEF j
      <4> QED BY <3>1, <3>2, <3>3
    <3>5. buf'[Moved(front, i)] = arrived + j
      <4> HIDE DEF j
      <4> QED BY <1>1, <2>1, <3>1, <3>2, <3>4
    <3> QED BY <1>2, <1>3, <2>1, <3>1, <3>5
  <2> QED BY <1>2, <2>1, <2>3, <2>4
<1>12. RingInv'
  <2>1. /\ taken <= arrived + n /\ arrived + n <= bytes /\ use + n = (arrived + n) - taken
    BY <1>1, <1>2, <1>3
  <2> QED BY <1>1, <1>10, <1>11, <2>1 DEF RingInv
<1>13. KernelInv'
  BY <1>1 DEF KernelInv
<1>14. StreamInv' /\ PlaceInv' /\ ExtractedInOrder'
  BY <1>1 DEF StreamInv, Next_at, PlaceInv, ExtractedInOrder, WholeOf, Bytes
<1> QED BY <1>9, <1>12, <1>13, <1>14

(* A receive without room has a packet too long for the ring before it. *)
LEMMA RecvEmptyStep == ASSUME BufferIInv, RecvEmpty PROVE BufferIInv'
<1> USE DEF BufferIInv
<1>1. /\ stage = "kernel" /\ stage' = "closed" /\ Room = 0 /\ wsabufs' = <<>>
      /\ UNCHANGED <<buf, front, rear, sent, bytes, arrived, taken, extracted, sessions>>
  BY DEF RecvEmpty, ringVars
<1>2. TypeInv'
  BY <1>1, EmptySeq DEF TypeInv, BufferTypeOK
<1>3. RingInv'
  BY <1>1 DEF RingInv, GetUseSize, Moved
<1>4. KernelInv'
  <2>1. Room = BufferSize - (arrived - taken) /\ BufferSize \in Nat
        /\ arrived \in Nat /\ taken \in Nat
    BY <1>1, Indices, PostedIs DEF KernelInv, RingInv, TypeInv, BufferTypeOK
  <2>2. TooLong
    BY <1>1, <2>1 DEF KernelInv
  <2>3. TooLong'
    BY <1>1, <2>2 DEF TooLong
  <2> QED BY <1>1, <2>3 DEF KernelInv
<1>5. StreamInv' /\ PlaceInv' /\ ExtractedInOrder'
  BY <1>1 DEF StreamInv, Next_at, PlaceInv, ExtractedInOrder, WholeOf, Bytes
<1> QED BY <1>2, <1>3, <1>4, <1>5

(* The bytes at the front of the ring are the header of the packet in turn. *)
LEMMA HeaderIsNext ==
  ASSUME BufferIInv, stage = "extract", GetUseSize >= HeaderSize
  PROVE  /\ Len(extracted) + 1 \in DOMAIN sent /\ DOMAIN sent = 1 .. Len(sent)
         /\ Len(extracted) \in Nat /\ Len(sent) \in Nat
         /\ sent[Len(extracted) + 1].at = taken + 1
         /\ Parse(Read(HeaderSize)) = sent[Len(extracted) + 1]
<1> USE DEF BufferIInv
<1> DEFINE m == Len(extracted) + 1
<1>1. /\ sent \in Seq(Packet) /\ extracted \in Seq(ByteStrings)
      /\ bytes \in Nat /\ arrived \in Nat /\ taken \in Nat
      /\ HeaderSize \in Nat \ {0} /\ BufferSize \in Nat
  BY BufferAssumption DEF TypeInv, BufferTypeOK
<1>2. Len(extracted) \in Nat /\ Len(sent) \in Nat /\ DOMAIN sent = 1 .. Len(sent)
  BY <1>1, LenProperties
<1>3. GetUseSize = arrived - taken /\ arrived <= bytes /\ taken < bytes
  BY <1>1 DEF RingInv
<1>4. taken + 1 = IF Len(extracted) < Len(sent) THEN sent[m].at ELSE bytes + 1
  BY DEF PlaceInv
<1>5. Len(extracted) < Len(sent) /\ sent[m].at = taken + 1
  BY <1>1, <1>3, <1>4
<1>6. m \in DOMAIN sent
  BY <1>2, <1>5
<1>7. Read(HeaderSize) = Bytes(taken + 1, taken + HeaderSize)
  <2>1. HeaderSize \in 0 .. GetUseSize
    BY <1>1, <1>3
  <2> QED BY <2>1, ReadStream
<1> HIDE DEF m
<1>8. HeaderOf(sent[m]) = Read(HeaderSize)
  <2>1. (taken + 1) + HeaderSize - 1 = taken + HeaderSize
    BY <1>1
  <2> QED BY <1>5, <1>7, <2>1 DEF HeaderOf
<1>9. \A k \in DOMAIN sent : HeaderOf(sent[k]) = Read(HeaderSize) => k = m
  <2> SUFFICES ASSUME NEW k \in DOMAIN sent, HeaderOf(sent[k]) = Read(HeaderSize) PROVE k = m
    OBVIOUS
  <2>1. sent[k] \in Packet
    BY <1>1, <1>2, ElementOfSeq
  <2>2. sent[k].at \in Nat
    BY <2>1 DEF Packet
  <2> DEFINE x == sent[k].at
  <2>3. Bytes(x, x + HeaderSize - 1)[1] = x
    <3> HIDE DEF x
    <3>0. x \in Nat
      BY <2>2 DEF x
    <3>1. 1 \in 1 .. ((x + HeaderSize - 1) - x + 1) /\ x + 1 - 1 = x
      BY <1>1, <3>0
    <3> QED BY <3>1 DEF Bytes
  <2>4. Bytes(taken + 1, taken + HeaderSize)[1] = taken + 1
    <3>1. 1 \in 1 .. ((taken + HeaderSize) - (taken + 1) + 1) /\ (taken + 1) + 1 - 1 = taken + 1
      BY <1>1
    <3> QED BY <3>1 DEF Bytes
  <2>5. sent[k].at = sent[m].at
    BY <1>5, <1>7, <2>3, <2>4 DEF HeaderOf
  <2>6. ~(k < m) /\ ~(m < k)
    <3>1. k < m => sent[k].at < sent[m].at
      BY <1>6 DEF StreamInv
    <3>2. m < k => sent[m].at < sent[k].at
      BY <1>6 DEF StreamInv
    <3> QED BY <1>1, <1>5, <2>2, <2>5, <3>1, <3>2
  <2> QED BY <1>2, <1>6, <2>6
<1>10. Parse(Read(HeaderSize)) = sent[m]
  <2>1. \E k \in DOMAIN sent : HeaderOf(sent[k]) = Read(HeaderSize)
    BY <1>6, <1>8
  <2>2. (CHOOSE k \in DOMAIN sent : HeaderOf(sent[k]) = Read(HeaderSize)) = m
    BY <1>6, <1>8, <1>9
  <2> QED BY <2>1, <2>2 DEF Parse
<1> QED BY <1>2, <1>5, <1>6, <1>10 DEF m

(* Of two lengths one is the longer. *)
LEMMA Comparable ==
  ASSUME NEW a \in Nat, NEW b \in Nat
  PROVE  a > b <=> ~(a <= b)
OBVIOUS

(* Packets are cut from the front of the ring, or the handler waits for more. *)
LEMMA ExtractStep == ASSUME BufferIInv, Extract PROVE BufferIInv'
<1> DEFINE pkt == Parse(Read(HeaderSize))
           span == HeaderSize + pkt.size
           m == Len(extracted) + 1
<1>1. /\ stage = "extract"
      /\ UNCHANGED <<buf, rear, wsabufs, sent, bytes, arrived, sessions>>
  BY DEF Extract
<1>waits. ~CanExtract => stage' = "post" /\ UNCHANGED <<front, taken, extracted>>
  BY DEF Extract
<1>2. CanExtract <=> GetUseSize >= HeaderSize /\ GetUseSize >= pkt.size + HeaderSize
  BY DEF CanExtract
<1>3. GetUseSize >= HeaderSize =>
        /\ m \in DOMAIN sent /\ DOMAIN sent = 1 .. Len(sent)
        /\ Len(extracted) \in Nat /\ Len(sent) \in Nat
        /\ sent[m].at = taken + 1 /\ pkt = sent[m]
  BY <1>1, HeaderIsNext
<1> HIDE DEF pkt, m
<1>4. /\ BufferSize \in Nat \ {0} /\ front \in 0 .. BufferSize /\ GetUseSize \in 0 .. BufferSize
      /\ buf \in [0 .. BufferSize -> Nat] /\ rear \in 0 .. BufferSize
  BY Indices DEF BufferIInv
<1>5. /\ bytes \in Nat /\ arrived \in Nat /\ taken \in Nat
      /\ HeaderSize \in Nat \ {0} /\ HeaderSize <= BufferSize
      /\ Sizes \subseteq Nat /\ PacketSize \in Nat
      /\ GetUseSize = arrived - taken /\ arrived <= bytes
      /\ sent \in Seq(Packet) /\ extracted \in Seq(ByteStrings)
  BY BufferAssumption DEF BufferIInv, TypeInv, BufferTypeOK, RingInv
<1>6. GetUseSize >= HeaderSize => pkt.size \in Sizes /\ pkt.fault \in {"code", "checksum", "none"}
  <2> SUFFICES ASSUME GetUseSize >= HeaderSize
               PROVE  pkt.size \in Sizes /\ pkt.fault \in {"code", "checksum", "none"}
    OBVIOUS
  <2>1. pkt.size \in Sizes
    BY <1>3 DEF BufferIInv, StreamInv
  <2>2. pkt \in Packet
    BY <1>3, <1>5, ElementOfSeq
  <2>3. pkt.fault \in Faults \cup {NoFault}
    BY <2>2 DEF Packet
  <2> QED BY <2>1, <2>3, BufferAssumption DEF NoFault
<1>lengths. CanExtract => (pkt.size > PacketSize <=> ~(pkt.size <= PacketSize))
  <2>1. CanExtract => pkt.size \in Nat
    BY <1>2, <1>5, <1>6
  <2>2. PacketSize \in Nat
    BY <1>5
  <2> QED BY <2>1, <2>2, Comparable
<1>refused. CanExtract /\ (pkt.fault = "code" \/ pkt.size > PacketSize) =>
         stage' \in {"failed", "overrun"} /\ UNCHANGED <<front, taken, extracted>>
  <2>1. CanExtract /\ pkt.fault = "code" =>
          stage' = "failed" /\ UNCHANGED <<front, taken, extracted>>
    BY DEF Extract, pkt
  <2>2. CanExtract /\ pkt.fault # "code" /\ pkt.size > PacketSize =>
          stage' = "overrun" /\ UNCHANGED <<front, taken, extracted>>
    BY <1>lengths DEF Extract, pkt
  <2> QED BY <2>1, <2>2
<1>cut. CanExtract /\ pkt.fault # "code" /\ pkt.size <= PacketSize =>
         /\ front' = Moved(front, span) /\ taken' = taken + span
         /\ IF pkt.fault = "checksum"
            THEN stage' = "failed" /\ UNCHANGED extracted
            ELSE stage' = stage /\ extracted' = Append(extracted, Read(span))
  BY <1>lengths DEF Extract, pkt
<1> USE DEF BufferIInv
<1>7. CASE ~CanExtract
  <2>1. stage' = "post" /\ UNCHANGED <<front, taken, extracted>>
    BY <1>7, <1>waits
  <2>2. GetUseSize < BufferSize \/ TooLong
    <3>1. CASE GetUseSize < HeaderSize
      BY <1>4, <1>5, <3>1
    <3>2. CASE GetUseSize >= HeaderSize
      <4>1. pkt.size \in Nat /\ m \in DOMAIN sent /\ pkt = sent[m]
        BY <1>3, <1>5, <1>6, <3>2
      <4>2. ~(GetUseSize >= pkt.size + HeaderSize)
        BY <1>2, <1>7, <3>2
      <4>3. GetUseSize < BufferSize \/ HeaderSize + pkt.size > BufferSize
        BY <1>4, <1>5, <4>1, <4>2
      <4> QED BY <4>1, <4>3 DEF TooLong, m
    <3> QED BY <1>4, <1>5, <3>1, <3>2
  <2>3. TypeInv' /\ RingInv'
    BY <1>1, <2>1 DEF TypeInv, BufferTypeOK, RingInv, GetUseSize, Moved
  <2>4. KernelInv'
    <3>1. TooLong' = TooLong
      BY <1>1, <2>1 DEF TooLong
    <3> QED BY <1>1, <1>5, <2>1, <2>2, <3>1 DEF KernelInv
  <2>5. StreamInv' /\ PlaceInv' /\ ExtractedInOrder'
    BY <1>1, <2>1 DEF StreamInv, Next_at, PlaceInv, ExtractedInOrder, WholeOf, Bytes
  <2> QED BY <2>3, <2>4, <2>5
<1>8. CASE CanExtract /\ (pkt.fault = "code" \/ pkt.size > PacketSize)
  <2>1. stage' \in {"failed", "overrun"} /\ UNCHANGED <<front, taken, extracted>>
    BY <1>8, <1>refused
  <2>2. TypeInv' /\ RingInv'
    BY <1>1, <2>1 DEF TypeInv, BufferTypeOK, RingInv, GetUseSize, Moved
  <2>3. KernelInv' /\ PlaceInv'
    BY <1>1, <2>1 DEF KernelInv, PlaceInv
  <2>4. StreamInv' /\ ExtractedInOrder'
    BY <1>1, <2>1 DEF StreamInv, Next_at, ExtractedInOrder, WholeOf, Bytes
  <2> QED BY <2>2, <2>3, <2>4
<1>9. CASE CanExtract /\ pkt.fault # "code" /\ pkt.size <= PacketSize
  <2>1. /\ front' = Moved(front, span) /\ taken' = taken + span
        /\ IF pkt.fault = "checksum"
           THEN stage' = "failed" /\ UNCHANGED extracted
           ELSE stage' = stage /\ extracted' = Append(extracted, Read(span))
    BY <1>9, <1>cut
  <2>2. /\ m \in DOMAIN sent /\ DOMAIN sent = 1 .. Len(sent)
        /\ Len(extracted) \in Nat /\ Len(sent) \in Nat
        /\ sent[m].at = taken + 1 /\ pkt = sent[m]
        /\ pkt.size \in Sizes /\ pkt.size \in Nat /\ pkt.fault \in {"code", "checksum", "none"}
    BY <1>2, <1>3, <1>5, <1>6, <1>9
  <2>3. span \in 0 .. GetUseSize /\ span \in 0 .. BufferSize
    BY <1>2, <1>4, <1>5, <1>9, <2>2
  <2>4. sent[m].at + HeaderSize + sent[m].size = IF m = Len(sent) THEN bytes + 1 ELSE sent[m + 1].at
    BY <2>2 DEF StreamInv, Next_at
  <2>5. sent[m].at + HeaderSize + sent[m].size = taken + span + 1
    BY <1>5, <2>2
  <2>6. Read(span) = WholeOf(pkt) /\ Read(span) \in ByteStrings
    <3>1. Read(span) = Bytes(taken + 1, taken + span) /\ Read(span) \in ByteStrings
      BY <2>3, ReadStream
    <3>2. pkt.at + HeaderSize + pkt.size - 1 = taken + span
      <4> DEFINE t == pkt.size
      <4>1. pkt.at = taken + 1 /\ t \in Nat
        BY <2>2
      <4> HIDE DEF t
      <4>2. (taken + 1) + HeaderSize + t - 1 = taken + (HeaderSize + t)
        BY <1>5, <4>1
      <4> QED BY <4>1, <4>2 DEF t
    <3> QED BY <2>2, <3>1, <3>2 DEF WholeOf
  <2> HIDE DEF span
  <2>7. front' \in 0 .. BufferSize
    BY <1>4, <2>1, <2>3, MovedIs
  <2>8. GetUseSize' = GetUseSize - span
    <3>1. front' = IF front + span <= BufferSize THEN front + span ELSE front + span - BufferSize - 1
      BY <1>4, <2>1, <2>3, MovedIs
    <3>2. GetUseSize' = IF rear >= front' THEN rear - front' ELSE BufferSize + rear - front' + 1
      BY <1>1 DEF GetUseSize
    <3>3. GetUseSize = IF rear >= front THEN rear - front ELSE BufferSize + rear - front + 1
      BY DEF GetUseSize
    <3>4. span <= GetUseSize /\ span \in Nat
      BY <1>4, <2>3
    <3> DEFINE f == front'
               g == GetUseSize'
               u == GetUseSize
    <3> HIDE DEF f, g, u
    <3>5. /\ f = IF front + span <= BufferSize THEN front + span ELSE front + span - BufferSize - 1
          /\ g = IF rear >= f THEN rear - f ELSE BufferSize + rear - f + 1
          /\ u = IF rear >= front THEN rear - front ELSE BufferSize + rear - front + 1
          /\ span <= u
      BY <3>1, <3>2, <3>3, <3>4 DEF f, g, u
    <3>6. g = u - span
      <4>1. CASE front + span <= BufferSize
        BY <1>4, <3>4, <3>5, <4>1
      <4>2. CASE ~(front + span <= BufferSize)
        BY <1>4, <3>4, <3>5, <4>2
      <4> QED BY <4>1, <4>2
    <3> QED BY <3>6 DEF g, u
  <2>9. taken' \in Nat /\ taken' <= arrived /\ GetUseSize' = arrived - taken'
    BY <1>4, <1>5, <2>1, <2>3, <2>8
  <2>10. RingInv'
    <3>1. \A i \in 0 .. arrived - taken' - 1 : buf[Moved(front', i)] = taken' + 1 + i
      <4> SUFFICES ASSUME NEW i \in 0 .. arrived - taken' - 1
                   PROVE  buf[Moved(front', i)] = taken' + 1 + i
        OBVIOUS
      <4>1. /\ i \in 0 .. BufferSize /\ span + i <= BufferSize
            /\ span + i \in 0 .. arrived - taken - 1
            /\ taken + 1 + (span + i) = taken' + 1 + i
        BY <1>4, <1>5, <2>1, <2>3
      <4>2. Moved(front', i) = Moved(front, span + i)
        BY <1>4, <2>1, <2>3, <4>1, MovedTwice
      <4>3. buf[Moved(front, span + i)] = taken + 1 + (span + i)
        BY <4>1 DEF RingInv
      <4> QED BY <4>1, <4>2, <4>3
    <3> QED BY <1>1, <1>5, <2>9, <3>1 DEF RingInv
  <2>11. StreamInv'
    BY <1>1 DEF StreamInv, Next_at
  <2>12. KernelInv'
    BY <1>1, <2>1 DEF KernelInv
  <2>13. CASE pkt.fault = "checksum"
    <3>1. stage' = "failed" /\ extracted' = extracted
      BY <2>1, <2>13
    <3>2. TypeInv'
      BY <1>1, <2>7, <2>9, <3>1 DEF TypeInv, BufferTypeOK
    <3>3. PlaceInv' /\ ExtractedInOrder'
      BY <1>1, <3>1 DEF PlaceInv, ExtractedInOrder, WholeOf, Bytes
    <3> QED BY <2>10, <2>11, <2>12, <3>2, <3>3
  <2>14. CASE pkt.fault = "none"
    <3>1. stage' = stage /\ extracted' = Append(extracted, Read(span))
      BY <2>1, <2>14
    <3>2. /\ extracted' \in Seq(ByteStrings) /\ Len(extracted') = m
          /\ DOMAIN extracted' = 1 .. m /\ DOMAIN extracted = 1 .. Len(extracted)
          /\ extracted'[m] = Read(span)
          /\ \A k \in 1 .. Len(extracted) : extracted'[k] = extracted[k]
      BY <1>5, <2>6, <3>1, AppendProperties, LenProperties DEF m
    <3>3. TypeInv'
      BY <1>1, <2>7, <2>9, <3>1, <3>2 DEF TypeInv, BufferTypeOK
    <3>4. m \in Nat /\ m <= Len(sent) /\ (m < Len(sent) <=> m # Len(sent))
      BY <2>2
    <3>5. PlaceInv'
      BY <1>1, <2>1, <2>4, <2>5, <3>2, <3>4 DEF PlaceInv
    <3>6. ExtractedInOrder'
      <4>1. \A k \in 1 .. m :
               sent[k].fault = NoFault /\ sent[k].size <= PacketSize /\ extracted'[k] = WholeOf(sent[k])
        <5>1. \A k \in 1 .. m : k \in 1 .. Len(extracted) \/ k = m
          BY <2>2 DEF m
        <5>2. \A k \in 1 .. Len(extracted) :
                 sent[k].fault = NoFault /\ sent[k].size <= PacketSize /\ extracted[k] = WholeOf(sent[k])
          BY <3>2 DEF ExtractedInOrder
        <5> QED BY <1>9, <2>2, <2>6, <2>14, <3>2, <5>1, <5>2 DEF NoFault
      <4> QED BY <1>1, <3>2, <3>4, <4>1 DEF ExtractedInOrder, WholeOf, Bytes
    <3> QED BY <2>10, <2>11, <2>12, <3>3, <3>5, <3>6
  <2> QED BY <1>9, <2>2, <2>13, <2>14
<1> QED BY <1>7, <1>8, <1>9, <1>lengths

(* The slot's next session starts with an empty ring. *)
LEMMA RecycleStep == ASSUME BufferIInv, Recycle PROVE BufferIInv'
<1> USE DEF BufferIInv
<1>1. /\ sessions < MaxSessions /\ sessions' = sessions + 1 /\ stage' = "post" /\ wsabufs' = <<>>
      /\ front' = 0 /\ rear' = 0
      /\ sent' = <<>> /\ extracted' = <<>> /\ arrived' = bytes /\ taken' = bytes
      /\ UNCHANGED <<buf, bytes>>
  BY DEF Recycle
<1>2. bytes \in Nat /\ BufferSize \in Nat \ {0} /\ MaxSessions \in Nat /\ sessions \in 1 .. MaxSessions
  BY BufferAssumption DEF TypeInv, BufferTypeOK
<1>3. TypeInv'
  <2>1. /\ <<>> \in Seq(Packet) /\ <<>> \in Seq(ByteStrings)
        /\ <<>> \in Seq([at : 0 .. BufferSize, len : Int])
    BY EmptySeq
  <2>2. sessions' \in 1 .. MaxSessions /\ 0 \in 0 .. BufferSize
    BY <1>1, <1>2
  <2> QED BY <1>1, <2>1, <2>2 DEF TypeInv, BufferTypeOK
<1>4. RingInv'
  BY <1>1, <1>2 DEF RingInv, GetUseSize
<1>5. KernelInv'
  BY <1>1, <1>2 DEF KernelInv
<1>6. Len(sent') = 0 /\ Len(extracted') = 0 /\ DOMAIN sent' = {} /\ DOMAIN extracted' = {}
  BY <1>1
<1>7. StreamInv' /\ PlaceInv' /\ ExtractedInOrder'
  BY <1>1, <1>2, <1>6 DEF StreamInv, PlaceInv, ExtractedInOrder
<1> QED BY <1>3, <1>4, <1>5, <1>7

(* IInv is inductive. *)
THEOREM BufferInductive == BufferSpec => []BufferIInv
<1>1. ASSUME BufferIInv, [BufferNext]_bufferVars PROVE BufferIInv'
  <2>1. CASE \E s \in Sizes, f \in Faults \cup {NoFault} : Send(s, f)
    BY <1>1, <2>1, SendStep
  <2>2. CASE RecvPost
    BY <1>1, <2>2, RecvPostStep
  <2>3. CASE \E n \in 1 .. BufferSize : RecvCompletes(n)
    BY <1>1, <2>3, RecvCompletesStep
  <2>4. CASE RecvEmpty \/ Extract
    BY <1>1, <2>4, RecvEmptyStep, ExtractStep
  <2>5. CASE Recycle
    BY <1>1, <2>5, RecycleStep
  <2>6. CASE UNCHANGED bufferVars
    <3>1. UNCHANGED <<buf, front, rear, wsabufs, stage, sent, bytes, arrived, taken, extracted, sessions>>
      BY <2>6 DEF bufferVars, ringVars
    <3>2. Posted' = Posted /\ TooLong' = TooLong
      BY <3>1 DEF Posted, GetFreeSize, DirectEnqueueSize, TooLong
    <3>3. TypeInv' /\ RingInv' /\ KernelInv'
      BY <1>1, <3>1, <3>2 DEF BufferIInv, TypeInv, BufferTypeOK, RingInv, GetUseSize, Moved, KernelInv
    <3>4. StreamInv' /\ PlaceInv' /\ ExtractedInOrder'
      BY <1>1, <3>1 DEF BufferIInv, StreamInv, Next_at, PlaceInv, ExtractedInOrder, WholeOf, Bytes
    <3> QED BY <3>3, <3>4 DEF BufferIInv
  <2> QED BY <1>1, <2>1, <2>2, <2>3, <2>4, <2>5, <2>6 DEF BufferNext
<1> QED BY <1>1, InitBufferIInv, PTL DEF BufferSpec
-----------------------------------------------------------------------------
(* Every variable has its type: the indices never leave the array.            *)
THEOREM BufferTypes == BufferSpec => []BufferTypeOK
<1>1. BufferIInv => BufferTypeOK
  BY DEF BufferIInv, TypeInv
<1> QED BY <1>1, BufferInductive, PTL

(* RingBuffer is a queue: what Peek and Dequeue copy out is what arrived and    *)
(* was not dequeued, wherever the indices stand.                             *)
THEOREM RingHolds == BufferSpec => []RingHoldsStream
<1>1. ASSUME BufferIInv PROVE RingHoldsStream
  <2>1. GetUseSize = arrived - taken /\ GetUseSize \in 0 .. BufferSize
        /\ BufferSize \in Nat /\ arrived \in Nat /\ taken \in Nat
    BY <1>1, Indices DEF BufferIInv, TypeInv, BufferTypeOK, RingInv
  <2>2. GetUseSize \in 0 .. GetUseSize /\ taken + GetUseSize = arrived
    BY <2>1
  <2>3. Read(GetUseSize) = Bytes(taken + 1, taken + GetUseSize)
    BY <1>1, <2>2, ReadStream DEF BufferIInv
  <2> QED BY <2>1, <2>2, <2>3 DEF RingHoldsStream
<1> QED BY <1>1, BufferInductive, PTL

(* PrepareRecv gives the kernel the free cells, each once, and none only when  *)
(* the packet in turn is longer than the ring.                               *)
THEOREM FreeCells == BufferSpec => []RecvIntoFreeCells
<1>1. ASSUME BufferIInv, stage = "kernel"
      PROVE  /\ \A i \in DOMAIN wsabufs : wsabufs[i].len >= 0
             /\ Room = BufferSize - (arrived - taken) /\ (Room = 0 => TooLong)
             /\ \A i \in 1 .. Room :
                  /\ Target(i) \in (0 .. BufferSize) \ Used
                  /\ \A j \in 1 .. Room : Target(i) = Target(j) => i = j
  <2> USE DEF BufferIInv
  <2> DEFINE use == GetUseSize
  <2>1. /\ BufferSize \in Nat \ {0} /\ front \in 0 .. BufferSize /\ use \in 0 .. BufferSize
        /\ GetFreeSize = BufferSize - use /\ rear = Moved(front, use) /\ rear \in 0 .. BufferSize
    BY <1>1, Indices
  <2>2. use = arrived - taken /\ arrived \in Nat /\ taken \in Nat /\ (arrived - taken < BufferSize \/ TooLong)
    BY <1>1 DEF RingInv, KernelInv, TypeInv, BufferTypeOK
  <2>3. /\ Room = GetFreeSize
        /\ \A i \in DOMAIN wsabufs : wsabufs[i].len >= 0
        /\ \A i \in 1 .. Room : Target(i) = Moved(rear, i - 1)
    BY <1>1, PostedIs DEF KernelInv
  <2>4. Used = {Moved(front, i) : i \in 0 .. use - 1}
    BY DEF Used
  <2> HIDE DEF use
  <2>5. \A i \in 1 .. Room : /\ use + i - 1 \in 0 .. BufferSize
                             /\ Target(i) = Moved(front, use + i - 1)
                             /\ Target(i) \in 0 .. BufferSize
    <3> SUFFICES ASSUME NEW i \in 1 .. Room
                 PROVE  /\ use + i - 1 \in 0 .. BufferSize
                        /\ Target(i) = Moved(front, use + i - 1)
                        /\ Target(i) \in 0 .. BufferSize
      OBVIOUS
    <3>1. i - 1 \in 0 .. BufferSize /\ use + (i - 1) <= BufferSize /\ use + (i - 1) = use + i - 1
          /\ use + i - 1 \in 0 .. BufferSize
      BY <2>1, <2>3
    <3>2. Moved(Moved(front, use), i - 1) = Moved(front, use + (i - 1))
      BY <2>1, <3>1, MovedTwice
    <3>3. Moved(rear, i - 1) \in 0 .. BufferSize
      BY <2>1, <3>1, MovedIs
    <3> QED BY <2>1, <2>3, <3>1, <3>2, <3>3
  <2>6. \A i \in 1 .. Room : Target(i) \notin Used
    <3> SUFFICES ASSUME NEW i \in 1 .. Room, NEW j \in 0 .. use - 1, Target(i) = Moved(front, j)
                 PROVE  FALSE
      BY <2>4
    <3>1. j \in 0 .. BufferSize
      BY <2>1
    <3>2. use + i - 1 = j
      BY <2>1, <2>5, <3>1, MovedTwice
    <3> QED BY <2>1, <2>3, <3>2
  <2>7. \A i, j \in 1 .. Room : Target(i) = Target(j) => i = j
    <3> SUFFICES ASSUME NEW i \in 1 .. Room, NEW j \in 1 .. Room, Target(i) = Target(j) PROVE i = j
      OBVIOUS
    <3>1. use + i - 1 = use + j - 1
      BY <2>1, <2>5, MovedTwice
    <3> QED BY <2>1, <2>3, <3>1
  <2> QED BY <2>1, <2>2, <2>3, <2>5, <2>6, <2>7
<1>2. BufferIInv => RecvIntoFreeCells
  BY <1>1 DEF RecvIntoFreeCells, BufferIInv, KernelInv
<1> QED BY <1>2, BufferInductive, PTL

(* However the stream is cut into receives, OnRecv gets the packets of this      *)
(* session's client, whole and in order.                                     *)
THEOREM InOrder == BufferSpec => []ExtractedInOrder
<1>1. BufferIInv => ExtractedInOrder
  BY DEF BufferIInv
<1> QED BY <1>1, BufferInductive, PTL
=============================================================================

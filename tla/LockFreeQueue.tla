---------------------------- MODULE LockFreeQueue ----------------------------
(***************************************************************************)
(* LockFreeQueue.hpp on the nodes of its own ObjectPool (ObjectPool.hpp),    *)
(* each interlocked instruction, and what is read for it, a step.           *)
(* It stands under a session's received packets and packets to send and     *)
(* under every job queue: any number of threads push, one at a time pops,   *)
(* and only after it has seen Size() > 0.                                   *)
(*                                                                         *)
(* A pointer is an address with a tag (the upper NUM_OF_ID_BITS bits).       *)
(***************************************************************************)
EXTENDS Integers, Sequences, FiniteSets

CONSTANTS
  Pushers, Popper,   (* threads                                             *)
  MaxPush,           (* bound: calls of Push                                *)
  TagMod             (* tags there are: 2^17 in the code                    *)

ASSUME QueueAssumption ==
  /\ Popper \notin Pushers
  /\ MaxPush \in Nat /\ TagMod \in Nat \ {0}

Threads == Pushers \cup {Popper}
Nodes == 1 .. MaxPush + 1
Null == [at |-> 0, tag |-> 0]
Pointers == {Null} \cup [at : Nodes, tag : 0 .. TagMod - 1]
Tagged(n, id) == [at |-> n, tag |-> id % TagMod]
NoValue == 0

VARIABLES
  head, tail, queueId, size,     \* LockFreeQueue
  next, data,                    \* Node
  top, poolId, below,            \* ObjectPool: _head, _id, and BlockNode::next
  fresh,                         \* nodes the pool has allocated with new
  pc, node, p, q, r, value,      \* threads: the node in hand, pointers read, the value
  pushed, popped, displaced      \* history: values by pusher; popped; linked outside the queue

queueVars == <<head, tail, queueId, size, next, data>>
poolVars == <<top, poolId, below, fresh>>
localVars == <<node, p, q, r, value>>
history == <<pushed, popped, displaced>>
vars == <<queueVars, poolVars, pc, localVars, history>>

(* The nodes linked behind pointer x, x's own first, in order.               *)
Chain(x) ==
  LET walk[k \in 0 .. MaxPush] ==
        IF k = 0 THEN <<x.at>>
        ELSE LET s == walk[k - 1]
                 n == next[s[Len(s)]].at
             IN  IF n = 0 THEN s ELSE Append(s, n)
  IN  walk[MaxPush]
Elements(s) == {s[i] : i \in DOMAIN s}

(* The constructor allocates the dummy node.                                 *)
Init ==
  /\ head = Tagged(1, 0) /\ tail = Tagged(1, 0) /\ queueId = 0 /\ size = 0
  /\ next = [n \in Nodes |-> Null] /\ data = [n \in Nodes |-> NoValue]
  /\ top = Null /\ poolId = 0 /\ below = [n \in Nodes |-> Null] /\ fresh = 1
  /\ pc = [t \in Threads |-> "idle"] /\ node = [t \in Threads |-> 0]
  /\ p = [t \in Threads |-> Null] /\ q = [t \in Threads |-> Null]
  /\ r = [t \in Threads |-> Null] /\ value = [t \in Threads |-> NoValue]
  /\ pushed = <<>> /\ popped = <<>> /\ displaced = {}

Step(t, from, to) == pc[t] = from /\ pc' = [pc EXCEPT ![t] = to]

(* The end of a call: its local variables are gone.                          *)
Return(t, from) ==
  /\ Step(t, from, "idle")
  /\ p' = [p EXCEPT ![t] = Null] /\ q' = [q EXCEPT ![t] = Null]
  /\ r' = [r EXCEPT ![t] = Null] /\ node' = [node EXCEPT ![t] = 0]
  /\ value' = [value EXCEPT ![t] = NoValue]
-----------------------------------------------------------------------------
(* Push(data).  The values are numbered in the order of the calls; pushed[v]  *)
(* is the pusher of v.                                                       *)
CallPush(t) ==
  /\ Len(pushed) < MaxPush
  /\ Step(t, "idle", "allocRead")
  /\ pushed' = Append(pushed, t) /\ value' = [value EXCEPT ![t] = Len(pushed')]
  /\ UNCHANGED <<queueVars, poolVars, node, p, q, r, popped, displaced>>

(* ObjectPool::Alloc: a block from the stack of free ones, or a new one.  The  *)
(* block's next is read with the top, not after it: it changes only when the  *)
(* block is freed again, and then the top has another tag.                   *)
AllocRead(t) ==
  /\ IF top = Null
     THEN /\ Step(t, "allocRead", "init")
          /\ fresh' = fresh + 1 /\ node' = [node EXCEPT ![t] = fresh']
          /\ UNCHANGED <<p, q>>
     ELSE /\ Step(t, "allocRead", "allocCas")
          /\ p' = [p EXCEPT ![t] = top] /\ q' = [q EXCEPT ![t] = below[top.at]]
          /\ UNCHANGED <<fresh, node>>
  /\ UNCHANGED <<queueVars, top, poolId, below, r, value, history>>

AllocCas(t) ==
  /\ IF top = p[t]
     THEN /\ Step(t, "allocCas", "init")
          /\ top' = q[t] /\ node' = [node EXCEPT ![t] = p[t].at]
     ELSE Step(t, "allocCas", "allocRead") /\ UNCHANGED <<top, node>>
  /\ UNCHANGED <<queueVars, poolId, below, fresh, p, q, r, value, history>>

PushInit_Counts(t) ==   \* mutant: the element is counted before it is linked
  /\ Step(t, "init", "readTail")
  /\ data' = [data EXCEPT ![node[t]] = value[t]] /\ next' = [next EXCEPT ![node[t]] = Null]
  /\ queueId' = queueId + 1 /\ r' = [r EXCEPT ![t] = Tagged(node[t], queueId')]
  /\ size' = size + 1
  /\ UNCHANGED <<head, tail, poolVars, node, p, q, value, history>>

(* The node is filled and its pointer gets the next tag.                     *)
PushInit(t) ==
  /\ Step(t, "init", "readTail")
  /\ data' = [data EXCEPT ![node[t]] = value[t]]
  /\ next' = [next EXCEPT ![node[t]] = Null]
  /\ queueId' = queueId + 1 /\ r' = [r EXCEPT ![t] = Tagged(node[t], queueId')]
  /\ UNCHANGED <<head, tail, size, poolVars, node, p, q, value, history>>

PushReadTail(t) ==
  /\ Step(t, "readTail", "readNext")
  /\ p' = [p EXCEPT ![t] = tail]
  /\ UNCHANGED <<queueVars, poolVars, node, q, r, value, history>>

PushReadNext(t) ==
  /\ pc[t] = "readNext"
  /\ q' = [q EXCEPT ![t] = next[p[t].at]]
  /\ Step(t, "readNext", IF q'[t] = Null THEN "link" ELSE "help")
  /\ UNCHANGED <<queueVars, poolVars, node, p, r, value, history>>

CasTail(t, to) == tail' = IF tail = p[t] THEN to ELSE tail

PushHelp(t) ==
  /\ Step(t, "help", "readTail")
  /\ CasTail(t, q[t])
  /\ UNCHANGED <<head, queueId, size, next, data, poolVars, localVars, history>>

PushLink_Store(t) ==   \* mutant: a store instead of the compare-exchange
  /\ Step(t, "link", "swing")
  /\ next' = [next EXCEPT ![p[t].at] = r[t]]
  /\ UNCHANGED <<head, tail, queueId, size, data, poolVars, localVars, history>>

(* The first CAS.  The node p may have left the queue since it was read, and  *)
(* be in another pusher's hand: its next is null again then.                 *)
PushLink(t) ==
  /\ pc[t] = "link"
  /\ IF next[p[t].at] = Null
     THEN /\ Step(t, "link", "swing")
          /\ next' = [next EXCEPT ![p[t].at] = r[t]]
          /\ displaced' = IF p[t].at \in Elements(Chain(head)) THEN displaced
                          ELSE displaced \cup {value[t]}
     ELSE Step(t, "link", "readTail") /\ UNCHANGED <<next, displaced>>
  /\ UNCHANGED <<head, tail, queueId, size, data, poolVars, localVars, pushed, popped>>

(* The second CAS, which may fail; whoever finds tail behind moves it on.    *)
PushSwing(t) ==
  /\ Step(t, "swing", "count")
  /\ CasTail(t, r[t])
  /\ UNCHANGED <<head, queueId, size, next, data, poolVars, localVars, history>>

PushCount(t) ==
  /\ Return(t, "count")
  /\ size' = size + 1
  /\ UNCHANGED <<head, tail, queueId, next, data, poolVars, history>>
-----------------------------------------------------------------------------
(* Pop(data), by a caller that has seen elements.                            *)
CallPop(t) ==
  /\ size > 0
  /\ Step(t, "idle", "popRead")
  /\ UNCHANGED <<queueVars, poolVars, localVars, history>>

(* Head and tail are read.  Only the popper itself changes head.             *)
PopRead(t) ==
  /\ Step(t, "popRead", "popNext")
  /\ r' = [r EXCEPT ![t] = head] /\ p' = [p EXCEPT ![t] = tail]
  /\ UNCHANGED <<queueVars, poolVars, node, q, value, history>>

PopReadNext(t) ==
  /\ pc[t] = "popNext"
  /\ LET n == next[r[t].at] IN
     IF n = Null
     THEN Return(t, "popNext")
     ELSE /\ q' = [q EXCEPT ![t] = n]
          /\ IF r[t] = p[t]
             THEN Step(t, "popNext", "popHelp") /\ UNCHANGED value
             ELSE Step(t, "popNext", "popCas") /\ value' = [value EXCEPT ![t] = data[n.at]]
          /\ UNCHANGED <<node, p, r>>
  /\ UNCHANGED <<queueVars, poolVars, history>>

PopHelp_Waits(t) ==   \* mutant: Pop waits for the pusher to move tail on
  /\ Step(t, "popHelp", "popRead")
  /\ UNCHANGED <<queueVars, poolVars, localVars, history>>

PopHelp(t) ==
  /\ Step(t, "popHelp", "popRead")
  /\ CasTail(t, q[t])
  /\ UNCHANGED <<head, queueId, size, next, data, poolVars, localVars, history>>

PopCas(t) ==
  /\ IF head = r[t]
     THEN /\ Step(t, "popCas", "freeRead")
          /\ head' = q[t] /\ popped' = Append(popped, value[t])
          /\ node' = [node EXCEPT ![t] = r[t].at]
     ELSE Step(t, "popCas", "popRead") /\ UNCHANGED <<head, popped, node>>
  /\ UNCHANGED <<tail, queueId, size, next, data, poolVars, p, q, r, value, pushed, displaced>>

(* ObjectPool::Free of the old dummy.  The tag is taken once, before the loop. *)
FreeRead(t) ==
  /\ \/ Step(t, "freeRead", "freeCas") /\ poolId' = poolId + 1
        /\ r' = [r EXCEPT ![t] = Tagged(node[t], poolId')]
     \/ Step(t, "freeAgain", "freeCas") /\ UNCHANGED <<poolId, r>>
  /\ p' = [p EXCEPT ![t] = top] /\ below' = [below EXCEPT ![node[t]] = top]
  /\ UNCHANGED <<queueVars, top, fresh, node, q, value, history>>

FreeCas(t) ==
  /\ IF top = p[t]
     THEN Step(t, "freeCas", "uncount") /\ top' = r[t]
     ELSE Step(t, "freeCas", "freeAgain") /\ UNCHANGED top
  /\ UNCHANGED <<queueVars, poolId, below, fresh, localVars, history>>

PopCount(t) ==
  /\ Return(t, "uncount")
  /\ size' = size - 1
  /\ UNCHANGED <<head, tail, queueId, next, data, poolVars, history>>

PushStep(t) ==
  \/ AllocRead(t)
  \/ AllocCas(t)
  \/ PushInit(t)
  \/ PushReadTail(t)
  \/ PushReadNext(t)
  \/ PushHelp(t)
  \/ PushLink(t)
  \/ PushSwing(t)
  \/ PushCount(t)

PopStep(t) ==
  \/ PopRead(t)
  \/ PopReadNext(t)
  \/ PopHelp(t)
  \/ PopCas(t)
  \/ FreeRead(t)
  \/ FreeCas(t)
  \/ PopCount(t)

(* Every Push has returned and every element is popped.                      *)
Done ==
  /\ Len(pushed) = MaxPush /\ size = 0 /\ \A t \in Threads : pc[t] = "idle"
  /\ UNCHANGED vars

Next ==
  \/ Done
  \/ \E t \in Pushers : CallPush(t) \/ PushStep(t)
  \/ CallPop(Popper) \/ PopStep(Popper)

(* Threads inside a call are scheduled; a consumer looks at Size() again and  *)
(* again.                                                                    *)
Fairness ==
  /\ \A t \in Pushers : WF_vars(PushStep(t))
  /\ WF_vars(CallPop(Popper)) /\ WF_vars(PopStep(Popper))

Spec == Init /\ [][Next]_vars
FairSpec == Spec /\ Fairness
-----------------------------------------------------------------------------
Labels == {"idle", "allocRead", "allocCas", "init", "readTail", "readNext", "help",
           "link", "swing", "count", "popRead", "popNext", "popHelp",
           "popCas", "freeRead", "freeCas", "freeAgain", "uncount"}

(* Every variable has its type.                                              *)
TypeOK ==
  /\ {head, tail, top} \subseteq Pointers /\ {queueId, poolId, size} \subseteq Nat
  /\ next \in [Nodes -> Pointers] /\ below \in [Nodes -> Pointers] /\ fresh \in Nodes
  /\ data \in [Nodes -> 0 .. MaxPush] /\ value \in [Threads -> 0 .. MaxPush]
  /\ pc \in [Threads -> Labels] /\ node \in [Threads -> Nodes \cup {0}]
  /\ {p, q, r} \subseteq [Threads -> Pointers]
  /\ pushed \in Seq(Pushers) /\ popped \in Seq(1 .. MaxPush) /\ displaced \subseteq 1 .. MaxPush

(* Pushers whose node is filled but in no list yet.                           *)
InHand(t) == pc[t] \in {"readTail", "readNext", "help", "link"}
Unlinked(v) == \E t \in Pushers : value[t] = v /\
                 (InHand(t) \/ pc[t] \in {"allocRead", "allocCas", "init"})
Behind(x) == Tail(Chain(x))
Values(s) == [i \in DOMAIN s |-> data[s[i]]]
Hidden == UNION {Elements(Behind(r[t])) : t \in {u \in Pushers : InHand(u)}}

(* Whatever pushes and pops overlap, and though nodes are recycled under       *)
(* pushers that still point at them: an element that was linked is popped     *)
(* once, or is in the queue, or behind a node that is about to be linked.      *)
(* Elements of one pusher keep their order, unless one was displaced; and     *)
(* tail never falls behind head, though every Push may stop between its two  *)
(* CAS (comment of Pop, LockFreeQueue.hpp 84-97).                            *)
NothingLostOrSwapped ==
  LET inQueue == popped \o Values(Behind(head))
      hidden == {data[n] : n \in Hidden}
  IN  /\ tail.at \in Elements(Chain(head))
      /\ \A i, j \in DOMAIN inQueue : i < j =>
           /\ inQueue[i] # inQueue[j]
           /\ inQueue[i] < inQueue[j] \/ pushed[inQueue[i]] # pushed[inQueue[j]]
              \/ displaced \cap {inQueue[i], inQueue[j]} # {}
      /\ Elements(inQueue) \cap hidden = {}
      /\ Elements(inQueue) \cup hidden = {v \in DOMAIN pushed : ~Unlinked(v)}

(* A consumer that has seen Size() > 0 does find an element: process_job       *)
(* executes what Dequeue left in job without looking at its result.  The one   *)
(* exception: an element linked behind a node that had left the queue.        *)
PopFindsUnlessDisplaced ==
  pc[Popper] = "popNext" /\ next[r[Popper].at] = Null => displaced # {}

(* No call spins for ever (comment of Pop, lines 84-92), and an element that   *)
(* was displaced comes to light: again and again, when nobody is in a call,   *)
(* everything pushed is popped.                                              *)
PushedIsPopped ==
  []<>(Len(popped) = Len(pushed) /\ \A t \in Threads : pc[t] = "idle")
=============================================================================

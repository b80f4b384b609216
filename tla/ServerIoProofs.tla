--------------------------- MODULE ServerIoProofs ---------------------------
(***************************************************************************)
(* Theorems about ServerIo and HeteroIo, for any number of callers, workers  *)
(* and packets: the two servers share one inductive invariant, whose part    *)
(* about the reference count says who holds every single reference.          *)
(***************************************************************************)
EXTENDS HeteroIo, FiniteSetTheorems, SequenceTheorems, TLAPS

-----------------------------------------------------------------------------
(* The inductive invariant, in named parts.                                  *)

(* What a thread may be doing depends on what thread it is.                   *)
CallerLabels == {"idle", "insert", "notify", "release", "lockRecv", "lockSend", "cancelRecv",
                 "cancelSend"}
AcceptorLabels == {"idle", "recvPost", "checkBarred"}

PcInv ==
  /\ \A c \in Callers : pc[c] \in CallerLabels
  /\ \A w \in Workers : pc[w] \notin {"insert", "notify"}
  /\ pc[Acceptor] \in AcceptorLabels

TypeInv == TypeOK /\ PcInv

(* The references a thread holds: its own, and the one it took over from an   *)
(* I/O or will hand over to one; Disconnect in a worker Acquires for itself.  *)
HandingOver == {"lockRecv", "lockSend", "cancelRecv", "cancelSend", "discRelease", "dropIo",
                "freeSent", "wsaSend", "recvPost", "badPacket"}
HoldsOwn(t, l) == l # "idle" /\ ~(t = Acceptor /\ l = "checkBarred")
HoldsIo(t, l) == t \in Workers /\ l \in HandingOver

Own == {t \in Threads : HoldsOwn(t, pc[t])}
Extra == {t \in Threads : HoldsIo(t, pc[t])}
Pending(io) == IF io = "none" THEN 0 ELSE 1

(* The count is the number of references, and a closed session has none.      *)
RefInv ==
  /\ IsFiniteSet(Own) /\ IsFiniteSet(Extra)
  /\ refs = Cardinality(Own) + Cardinality(Extra) + Pending(sendIo) + Pending(recvIo)
  /\ ~open => refs = 0

(* Who owns the send lock: one thread or the send in the kernel.  Disconnect   *)
(* may lock it too, and then shares it with the owner.                        *)
Locking == {"checkEmpty", "unlockEmpty", "prepare", "wsaSend", "freeSent", "unlockSent"}
SendInv ==
  /\ \A t \in Threads : pc[t] \in Locking =>
       /\ sendLocked /\ sendIo = "none"
       /\ \A u \in Threads : pc[u] \in Locking => u = t
  /\ sendIo # "none" => sendLocked
  /\ inflight # <<>> =>
       /\ sendLocked
       /\ \A t \in Threads : pc[t] \notin {"checkEmpty", "unlockEmpty", "prepare", "unlockSent"}
  /\ \A t \in Threads : pc[t] = "prepare" => ~IsEmpty

(* One thread at most has the receive, and then the kernel has not.           *)
RecvInv ==
  \A t \in Threads : pc[t] \in {"recvPost", "badPacket"} =>
    recvIo = "none" /\ \A u \in Threads : pc[u] \in {"recvPost", "badPacket"} => u = t

(* What was queued is on the wire, in flight or queued, in this order.         *)
Freeing == \E t \in Threads : pc[t] = "freeSent"
Untransmitted == IF sendIo = "done" \/ Freeing THEN <<>> ELSE inflight
WireInv ==
  IF open THEN queued = wire \o (Untransmitted \o sendQ) ELSE WireInOrder

Running == TypeInv /\ RefInv /\ SendInv /\ RecvInv /\ WireInv

(* What Crash leaves: nobody runs, nothing is in the kernel.                  *)
Crashed ==
  /\ TypeOK /\ WireInOrder
  /\ \A t \in Threads : pc[t] = "crashed"
  /\ ~open /\ sendIo = "none" /\ recvIo = "none"

IInv == Running \/ Crashed
-----------------------------------------------------------------------------
(* Sequences: what was queued is cut into what is on the wire, in flight and   *)
(* in the queue. *)
Cat(a, b) == a \o b

(* Joining a sequence to the last of three pieces. (Cat stands for \o, which   *)
(* the provers rewrite before they look for an instance of the lemma.)        *)
LEMMA JoinInside ==
  ASSUME NEW S, NEW a \in Seq(S), NEW b \in Seq(S), NEW c \in Seq(S), NEW d \in Seq(S)
  PROVE  Cat(Cat(a, Cat(b, c)), d) = Cat(a, Cat(b, Cat(c, d)))
<1>1. b \o c \in Seq(S)
  BY ConcatProperties
<1>2. (a \o (b \o c)) \o d = a \o ((b \o c) \o d)
  BY <1>1, ConcatAssociative
<1>3. (b \o c) \o d = b \o (c \o d)
  BY ConcatAssociative
<1> QED BY <1>2, <1>3 DEF Cat

(* A prefix, as WireInOrder states it, of a sequence that grows. *)
LEMMA PrefixOf ==
  ASSUME NEW S, NEW a \in Seq(S), NEW b \in Seq(S)
  PROVE  Len(a) <= Len(a \o b) /\ a = SubSeq(a \o b, 1, Len(a))
<1>1. /\ a \o b \in Seq(S) /\ Len(a \o b) = Len(a) + Len(b)
      /\ Len(a) \in Nat /\ Len(b) \in Nat
  BY ConcatProperties, LenProperties
<1>2. CASE Len(a) = 0
  <2>1. SubSeq(a \o b, 1, Len(a)) = <<>>
    BY <1>2, SubSeqEmpty
  <2>2. a = <<>>
    BY <1>2, EmptySeq, SeqEqual
  <2> QED BY <1>1, <1>2, <2>1, <2>2
<1>3. CASE Len(a) # 0
  <2>1. 1 \in 1 .. Len(a) /\ Len(a) \in 1 .. Len(a)
    BY <1>1, <1>3
  <2>2. SubSeq(a \o b, 1, Len(a)) = SubSeq(a, 1, Len(a))
    BY <2>1, SubSeqOfConcat1
  <2>3. SubSeq(a, 1, Len(a)) = a
    BY SubSeqFull
  <2> QED BY <1>1, <2>2, <2>3
<1> QED BY <1>2, <1>3
-----------------------------------------------------------------------------
(* Counting references. *)
One(b) == IF b THEN 1 ELSE 0
Weight(t, l) == One(HoldsOwn(t, l)) + One(HoldsIo(t, l))

(* Two finite sets that differ in one element at most. *)
LEMMA CountOne ==
  ASSUME NEW S, NEW T, NEW x, IsFiniteSet(S), S \ {x} = T \ {x}
  PROVE  /\ IsFiniteSet(T) /\ Cardinality(S) \in Nat /\ Cardinality(T) \in Nat
         /\ Cardinality(T) = Cardinality(S) - One(x \in S) + One(x \in T)
<1> DEFINE R == S \ {x}
<1>1. IsFiniteSet(R) /\ Cardinality(R) \in Nat /\ x \notin R
  BY FS_Subset, FS_CardinalityType
<1>2. /\ IsFiniteSet(R \cup {x}) /\ Cardinality(R \cup {x}) = Cardinality(R) + 1
  BY <1>1, FS_AddElement
<1>3. Cardinality(S) = Cardinality(R) + One(x \in S)
  <2>1. CASE x \in S
    <3>1. S = R \cup {x}
      BY <2>1
    <3> QED BY <1>2, <2>1, <3>1 DEF One
  <2>2. CASE x \notin S
    <3>1. S = R /\ One(x \in S) = 0
      BY <2>2 DEF One
    <3> HIDE DEF R
    <3> QED BY <1>1, <3>1
  <2> QED BY <2>1, <2>2
<1>4. IsFiniteSet(T) /\ Cardinality(T) = Cardinality(R) + One(x \in T)
  <2>1. CASE x \in T
    <3>1. T = R \cup {x}
      BY <2>1
    <3> QED BY <1>2, <2>1, <3>1 DEF One
  <2>2. CASE x \notin T
    <3>1. T = R
      BY <2>2
    <3> QED BY <1>1, <2>2, <3>1 DEF One
  <2> QED BY <2>1, <2>2
<1> HIDE DEF R
<1> QED BY <1>1, <1>3, <1>4 DEF One

(* The kinds of threads are disjoint. *)
LEMMA Kinds ==
  /\ Callers \subseteq Threads /\ Workers \subseteq Threads /\ Acceptor \in Threads
  /\ Acceptor \notin Workers /\ Acceptor \notin Callers
  /\ \A c \in Callers : c \notin Workers /\ c # Acceptor
  /\ \A w \in Workers : w \notin Callers /\ w # Acceptor
BY IoAssumption DEF Threads

(* The references of a thread at each label. *)
LEMMA Weights ==
  /\ \A t \in Threads : Weight(t, "idle") = 0
  /\ \A c \in Callers, l \in CallerLabels \ {"idle"} : Weight(c, l) = 1
  /\ \A w \in Workers, l \in HandingOver : Weight(w, l) = 2
  /\ \A w \in Workers, l \in Labels \ (HandingOver \cup {"idle"}) : Weight(w, l) = 1
  /\ Weight(Acceptor, "recvPost") = 1 /\ Weight(Acceptor, "checkBarred") = 0
<1>1. \A t \in Threads : Weight(t, "idle") = 0
  BY DEF Weight, One, HoldsOwn, HoldsIo, HandingOver
<1>2. \A c \in Callers, l \in CallerLabels \ {"idle"} : Weight(c, l) = 1
  BY Kinds DEF Weight, One, HoldsOwn, HoldsIo, HandingOver
<1>3. \A w \in Workers, l \in HandingOver : Weight(w, l) = 2
  BY Kinds DEF Weight, One, HoldsOwn, HoldsIo, HandingOver
<1>4. \A w \in Workers, l \in Labels \ (HandingOver \cup {"idle"}) : Weight(w, l) = 1
  BY Kinds DEF Weight, One, HoldsOwn, HoldsIo
<1>5. Weight(Acceptor, "recvPost") = 1 /\ Weight(Acceptor, "checkBarred") = 0
  BY Kinds DEF Weight, One, HoldsOwn, HoldsIo, HandingOver
<1> QED BY <1>1, <1>2, <1>3, <1>4, <1>5

(* Where no operation begins or ends, only the thread's label counts. *)
LEMMA Balance ==
  ASSUME NEW t, NEW l, refs \in Nat,
         sendIo' = "none" <=> sendIo = "none", recvIo' = "none" <=> recvIo = "none",
         refs' = refs - Weight(t, pc[t]) + Weight(t, l)
  PROVE  refs' = refs - Weight(t, pc[t]) + Weight(t, l) - Pending(sendIo) - Pending(recvIo)
                   + Pending(sendIo') + Pending(recvIo')
<1>1. Weight(t, pc[t]) \in Nat /\ Weight(t, l) \in Nat
  BY DEF Weight, One
<1>2. /\ Pending(sendIo') = Pending(sendIo) /\ Pending(recvIo') = Pending(recvIo)
      /\ Pending(sendIo) \in Nat /\ Pending(recvIo) \in Nat
  BY DEF Pending
<1> QED BY <1>1, <1>2

(* A thread that goes from one label to another.  The session is open unless  *)
(* the step has nothing to do with references.                               *)
LEMMA RefFrame ==
  ASSUME TypeInv, RefInv, NEW t \in Threads, NEW l \in Labels,
         pc' = [pc EXCEPT ![t] = l],
         refs' = refs - Weight(t, pc[t]) + Weight(t, l) - Pending(sendIo) - Pending(recvIo)
                   + Pending(sendIo') + Pending(recvIo'),
         open' = open, open \/ refs' = refs
  PROVE  RefInv' /\ refs' \in Nat
<1>1. pc \in [Threads -> Labels] /\ refs \in Nat
  BY DEF TypeInv, TypeOK
<1>2. /\ Own \ {t} = Own' \ {t} /\ Extra \ {t} = Extra' \ {t}
      /\ (t \in Own <=> HoldsOwn(t, pc[t])) /\ (t \in Own' <=> HoldsOwn(t, l))
      /\ (t \in Extra <=> HoldsIo(t, pc[t])) /\ (t \in Extra' <=> HoldsIo(t, l))
  BY <1>1 DEF Own, Extra
<1>3. /\ IsFiniteSet(Own') /\ Cardinality(Own) \in Nat /\ Cardinality(Own') \in Nat
      /\ Cardinality(Own') = Cardinality(Own) - One(t \in Own) + One(t \in Own')
  BY <1>2, CountOne DEF RefInv
<1>4. /\ IsFiniteSet(Extra') /\ Cardinality(Extra) \in Nat /\ Cardinality(Extra') \in Nat
      /\ Cardinality(Extra') = Cardinality(Extra) - One(t \in Extra) + One(t \in Extra')
  BY <1>2, CountOne DEF RefInv
<1>5. /\ Weight(t, pc[t]) = One(t \in Own) + One(t \in Extra)
      /\ Weight(t, l) = One(t \in Own') + One(t \in Extra')
  BY <1>2 DEF Weight, One
<1>6. \A b : One(b) \in Nat /\ Pending(b) \in Nat
  BY DEF One, Pending
<1>7. refs = Cardinality(Own) + Cardinality(Extra) + Pending(sendIo) + Pending(recvIo)
  BY DEF RefInv
<1>8. refs' = Cardinality(Own') + Cardinality(Extra') + Pending(sendIo') + Pending(recvIo')
  BY <1>1, <1>3, <1>4, <1>5, <1>6, <1>7
<1>9. ~open' => refs' = 0
  BY DEF RefInv
<1>10. refs' \in Nat
  BY <1>3, <1>4, <1>6, <1>8
<1> QED BY <1>3, <1>4, <1>8, <1>9, <1>10 DEF RefInv

(* Whoever holds a reference has an open session. *)
LEMMA HolderOpen ==
  ASSUME TypeInv, RefInv,
         sendIo # "none" \/ recvIo # "none" \/ \E t \in Threads : HoldsOwn(t, pc[t])
  PROVE  open /\ refs > 0 /\ refs \in Nat
<1>1. Cardinality(Own) \in Nat /\ Cardinality(Extra) \in Nat /\ refs \in Nat
  BY FS_CardinalityType DEF RefInv, TypeInv, TypeOK
<1>2. CASE sendIo # "none" \/ recvIo # "none"
  <2>1. Pending(sendIo) + Pending(recvIo) > 0 /\ Pending(sendIo) \in Nat /\ Pending(recvIo) \in Nat
    BY <1>2 DEF Pending
  <2> QED BY <1>1, <2>1 DEF RefInv
<1>3. CASE \E t \in Threads : HoldsOwn(t, pc[t])
  <2>1. PICK t \in Threads : HoldsOwn(t, pc[t])
    BY <1>3
  <2>2. t \in Own
    BY <2>1 DEF Own
  <2>3. Cardinality(Own) # 0
    BY <2>2, FS_EmptySet DEF RefInv
  <2>4. Pending(sendIo) \in Nat /\ Pending(recvIo) \in Nat
    BY DEF Pending
  <2> QED BY <1>1, <2>3, <2>4 DEF RefInv
<1> QED BY <1>2, <1>3
-----------------------------------------------------------------------------
(* A thread that moves without the send lock, the receive or the queues: the    *)
(* part of the invariant that is about them is not disturbed.                 *)
SendQuietly(t, l) ==
  /\ pc' = [pc EXCEPT ![t] = l] /\ l \in Labels \ Locking /\ pc[t] # "freeSent"
  /\ sendIo' = sendIo \/ (sendIo = "kernel" /\ sendIo' = "failed")
  /\ sendLocked => sendLocked'
  /\ UNCHANGED <<open, inflight, sendQ, behind, queued, wire>>

Quietly(t, l) ==
  /\ SendQuietly(t, l)
  /\ l \notin {"recvPost", "badPacket"}
  /\ recvIo' = "none" \/ recvIo # "none" \/ pc[t] \in {"recvPost", "badPacket"}

(* A thread without the send lock that starts no send disturbs neither the    *)
(* lock's owner nor the stream.                                               *)
LEMMA SendFrame ==
  ASSUME Running, NEW t \in Threads, NEW l, SendQuietly(t, l)
  PROVE  SendInv' /\ WireInv'
<1> USE DEF Running
<1>1. pc \in [Threads -> Labels]
  BY DEF TypeInv, TypeOK
<1>2. SendInv'
  BY <1>1 DEF SendInv, SendQuietly, Locking, IsEmpty
<1>3. WireInv'
  <2>1. Freeing' <=> Freeing
    BY <1>1 DEF Freeing, SendQuietly, Locking
  <2>2. Untransmitted' = Untransmitted
    BY <2>1 DEF Untransmitted, SendQuietly
  <2> QED BY <2>2 DEF WireInv, WireInOrder, SendQuietly
<1> QED BY <1>2, <1>3

(* ... and, if it has nothing to do with the receive either, not its owner.   *)
LEMMA QuietFrame ==
  ASSUME Running, NEW t \in Threads, NEW l, Quietly(t, l)
  PROVE  SendInv' /\ RecvInv' /\ WireInv'
<1>1. pc \in [Threads -> Labels]
  BY DEF Running, TypeInv, TypeOK
<1>2. RecvInv'
  BY <1>1 DEF Running, RecvInv, Quietly, SendQuietly
<1> QED BY <1>2, SendFrame DEF Quietly

(* A quiet move whose reference is accounted for keeps the invariant.         *)
LEMMA QuietStep ==
  ASSUME Running, NEW t \in Threads, NEW l \in Labels, Quietly(t, l), TypeInv',
         refs' = refs - Weight(t, pc[t]) + Weight(t, l) - Pending(sendIo) - Pending(recvIo)
                   + Pending(sendIo') + Pending(recvIo'),
         open \/ refs' = refs
  PROVE  Running'
<1>1. RefInv'
  BY RefFrame DEF Running, Quietly, SendQuietly
<1>2. SendInv' /\ RecvInv' /\ WireInv'
  BY QuietFrame
<1> QED BY <1>1, <1>2 DEF Running

(* A call begins, of SendPacket, Disconnect or in a group's frame. *)
LEMMA CallStep ==
  ASSUME Running, NEW c \in Callers,
         SendAcquire(c) \/ DisconnectAcquire(c, "idle") \/ FrameAcquire(c)
  PROVE  Running'
<1> USE DEF Running
<1>1. PICK l \in {"insert", "lockRecv", "notify"} :
        /\ pc[c] = "idle" /\ pc' = [pc EXCEPT ![c] = l] /\ refs' = refs + 1 /\ open
        /\ UNCHANGED <<open, sendQ, inflight, behind, queued, wire, sendLocked, recvBarred, posts,
                       sendIo, recvIo, peerUp, chunks>>
        /\ pkt' \in [Callers -> Packets] /\ unsent' \subseteq Packets
        /\ disconnects' \in 0 .. MaxDisconnect
  <2>1. /\ pkt \in [Callers -> Packets] /\ unsent \subseteq Packets
        /\ disconnects \in 0 .. MaxDisconnect /\ MaxDisconnect \in Nat
    BY IoAssumption DEF TypeInv, TypeOK
  <2>2. CASE SendAcquire(c)
    <3> DEFINE p == CHOOSE u \in unsent : TRUE
    <3>1. p \in Packets
      BY <2>1, <2>2 DEF SendAcquire
    <3> HIDE DEF p
    <3>2. /\ pkt' = [pkt EXCEPT ![c] = p] /\ unsent' = unsent \ {p} /\ open
          /\ pc[c] = "idle" /\ pc' = [pc EXCEPT ![c] = "insert"] /\ refs' = refs + 1
          /\ UNCHANGED <<open, queueVars, flagVars, posts, kernelVars, disconnects>>
      BY <2>2 DEF SendAcquire, Step, p
    <3> QED BY <2>1, <3>1, <3>2 DEF queueVars, flagVars, kernelVars
  <2>3. CASE DisconnectAcquire(c, "idle")
    BY <2>1, <2>3 DEF DisconnectAcquire, Step, queueVars, flagVars, kernelVars
  <2>4. CASE FrameAcquire(c)
    BY <2>1, <2>4 DEF FrameAcquire, Step, queueVars, flagVars, kernelVars, callVars
  <2> QED BY <2>2, <2>3, <2>4
<1>2. pc \in [Threads -> Labels] /\ refs \in Nat /\ c \in Threads /\ l \in Labels
      /\ l \in CallerLabels \ {"idle"}
  BY Kinds DEF TypeInv, TypeOK, Labels, CallerLabels
<1>3. TypeInv'
  <2>1. pc' \in [Threads -> Labels] /\ refs' \in Nat
    BY <1>1, <1>2
  <2>2. PcInv'
    BY <1>1, <1>2, Kinds DEF TypeInv, PcInv
  <2> QED BY <1>1, <2>1, <2>2 DEF TypeInv, TypeOK
<1>4. Weight(c, pc[c]) = 0 /\ Weight(c, l) = 1
  BY <1>1, <1>2, Weights
<1>5. Quietly(c, l)
  BY <1>1, <1>2 DEF Quietly, SendQuietly, Locking
<1>6. refs' = refs - Weight(c, pc[c]) + Weight(c, l) - Pending(sendIo) - Pending(recvIo)
                   + Pending(sendIo') + Pending(recvIo')
  BY <1>1, <1>2, <1>4, Balance
<1> QED BY <1>1, <1>2, <1>3, <1>5, <1>6, QuietStep

(* A packet is linked, with what hangs on its node, to the queue's end or      *)
(* behind another unfinished Push: to what is to be transmitted, or not yet.  *)
LEMMA InsertStep ==
  ASSUME Running, NEW c \in Callers, NEW l \in {"notify", "release"}, InsertPacket(c, l)
  PROVE  Running'
<1> USE DEF Running
<1> DEFINE linked == <<pkt[c]>> \o behind[c]
<1>1. /\ pc[c] = "insert" /\ pc' = [pc EXCEPT ![c] = l]
      /\ \/ /\ sendQ' = sendQ \o linked /\ queued' = queued \o linked
            /\ behind' = [behind EXCEPT ![c] = <<>>]
         \/ \E d \in Callers \ {c} :
              /\ behind' = [behind EXCEPT ![c] = <<>>, ![d] = @ \o linked]
              /\ sendQ' = sendQ /\ queued' = queued
      /\ UNCHANGED <<open, refs, inflight, wire, sendLocked, recvBarred, posts,
                     sendIo, recvIo, peerUp, chunks, pkt, unsent, disconnects>>
  BY DEF InsertPacket, Step, sessionVars, flagVars, kernelVars, callVars
<1>2. /\ pc \in [Threads -> Labels] /\ refs \in Nat /\ c \in Threads /\ l \in Labels
      /\ l \in CallerLabels \ {"idle"} /\ "insert" \in CallerLabels \ {"idle"}
      /\ pkt[c] \in Packets /\ sendQ \in Seq(Packets) /\ queued \in Seq(Packets)
      /\ wire \in Seq(Packets) /\ inflight \in Seq(Packets)
      /\ behind \in [Callers -> Seq(Packets)]
  BY Kinds DEF TypeInv, TypeOK, Labels, CallerLabels
<1>3. linked \in Seq(Packets) /\ linked # <<>>
  <2>1. <<pkt[c]>> \in Seq(Packets) /\ Len(<<pkt[c]>>) = 1 /\ behind[c] \in Seq(Packets)
    BY <1>2
  <2>2. linked \in Seq(Packets) /\ Len(linked) = 1 + Len(behind[c]) /\ Len(behind[c]) \in Nat
    BY <2>1, ConcatProperties, LenProperties
  <2> QED BY <2>2, EmptySeq
<1> HIDE DEF linked
<1>4. /\ sendQ' \in Seq(Packets) /\ queued' \in Seq(Packets)
      /\ behind' \in [Callers -> Seq(Packets)] /\ ~IsEmpty'
  <2>1. ASSUME NEW q \in Seq(Packets) PROVE q \o linked \in Seq(Packets) /\ q \o linked # <<>>
    <3>1. /\ q \o linked \in Seq(Packets) /\ Len(q \o linked) = Len(q) + Len(linked)
          /\ Len(q) \in Nat /\ Len(linked) \in Nat
      BY <1>3, ConcatProperties, LenProperties
    <3>2. Len(linked) # 0
      BY <1>3, EmptySeq
    <3> QED BY <3>1, <3>2, EmptySeq
  <2>2. <<>> \in Seq(Packets)
    BY EmptySeq
  <2>3. CASE sendQ' = sendQ \o linked /\ queued' = queued \o linked
             /\ behind' = [behind EXCEPT ![c] = <<>>]
    BY <1>2, <2>1, <2>2, <2>3 DEF IsEmpty
  <2>4. ASSUME NEW d \in Callers \ {c},
               behind' = [behind EXCEPT ![c] = <<>>, ![d] = @ \o linked],
               sendQ' = sendQ, queued' = queued
        PROVE  /\ behind' \in [Callers -> Seq(Packets)] /\ ~IsEmpty'
    <3>1. behind'[d] = behind[d] \o linked /\ behind[d] \in Seq(Packets)
      BY <1>2, <2>4
    <3>2. behind' \in [Callers -> Seq(Packets)]
      BY <1>2, <2>1, <2>2, <2>4, <3>1
    <3> QED BY <2>1, <3>1, <3>2 DEF IsEmpty
  <2> QED BY <1>1, <1>2, <2>3, <2>4
<1>5. TypeInv'
  <2>1. pc' \in [Threads -> Labels]
    BY <1>1, <1>2
  <2>2. PcInv'
    BY <1>1, <1>2, Kinds DEF TypeInv, PcInv
  <2> QED BY <1>1, <1>4, <2>1, <2>2 DEF TypeInv, TypeOK
<1>6. RefInv'
  <2>1. Weight(c, pc[c]) = 1 /\ Weight(c, l) = 1
    BY <1>1, <1>2, Weights
  <2>2. refs' = refs - Weight(c, pc[c]) + Weight(c, l) - Pending(sendIo) - Pending(recvIo)
                   + Pending(sendIo') + Pending(recvIo')
    <3>1. refs' = refs - Weight(c, pc[c]) + Weight(c, l)
      BY <1>1, <1>2, <2>1
    <3> QED BY <1>1, <1>2, <3>1, Balance
  <2> QED BY <1>1, <1>2, <2>2, RefFrame
<1>7. SendInv'
  BY <1>1, <1>2, <1>4 DEF SendInv, Locking
<1>8. RecvInv'
  BY <1>1, <1>2 DEF RecvInv
<1>9. Untransmitted' = Untransmitted /\ Untransmitted \in Seq(Packets)
  <2>1. Freeing' <=> Freeing
    BY <1>1, <1>2 DEF Freeing
  <2>2. <<>> \in Seq(Packets)
    BY EmptySeq
  <2> QED BY <1>1, <1>2, <2>1, <2>2 DEF Untransmitted
<1>10. WireInv'
  <2> DEFINE U == Untransmitted
  <2>1. U \in Seq(Packets) /\ U' = U
    BY <1>9
  <2> HIDE DEF U
  <2>2. queued = wire \o (U \o sendQ) /\ open'
    <3>1. open
      BY <1>1, <1>2, Kinds, HolderOpen DEF HoldsOwn
    <3> QED BY <1>1, <3>1 DEF WireInv, U
  <2>3. (wire \o (U \o sendQ)) \o linked = wire \o (U \o (sendQ \o linked))
    <3>1. Cat(Cat(wire, Cat(U, sendQ)), linked) = Cat(wire, Cat(U, Cat(sendQ, linked)))
      BY <1>2, <1>3, <2>1, JoinInside
    <3> QED BY <3>1 DEF Cat
  <2>4. queued' = wire' \o (U' \o sendQ')
    BY <1>1, <2>1, <2>2, <2>3
  <2> QED BY <2>2, <2>4 DEF WireInv, U
<1> QED BY <1>5, <1>6, <1>7, <1>8, <1>10

(* Which labels a thread may go to. *)
Fits(t, l) ==
  /\ t \in Callers => l \in CallerLabels
  /\ t \in Workers => l \notin {"insert", "notify"}
  /\ t = Acceptor => l \in AcceptorLabels

(* A thread that goes where its kind may go keeps the types of the labels.    *)
LEMMA PcTyped ==
  ASSUME TypeInv, NEW t \in Threads, NEW l \in Labels, Fits(t, l), pc' = [pc EXCEPT ![t] = l]
  PROVE  pc' \in [Threads -> Labels] /\ PcInv'
<1>1. pc \in [Threads -> Labels] /\ PcInv
  BY DEF TypeInv, TypeOK
<1>2. pc' \in [Threads -> Labels]
  BY <1>1
<1>3. PcInv'
  BY <1>1, Kinds DEF PcInv, Fits
<1> QED BY <1>2, <1>3

(* A quiet move that begins or ends no operation. *)
LEMMA QuietMove ==
  ASSUME Running, NEW t \in Threads, NEW l \in Labels, Quietly(t, l), Fits(t, l), open,
         refs' = refs - Weight(t, pc[t]) + Weight(t, l),
         recvIo' \in IoStates \ {"done"}, recvIo' = "none" <=> recvIo = "none",
         posts' \in Nat, recvBarred' \in BOOLEAN, sendLocked' \in BOOLEAN,
         UNCHANGED <<peerUp, chunks, pkt, unsent, disconnects>>
  PROVE  Running'
<1> USE DEF Running
<1>1. refs \in Nat /\ (sendIo' = "none" <=> sendIo = "none")
  BY DEF TypeInv, TypeOK, Quietly, SendQuietly
<1>2. refs' = refs - Weight(t, pc[t]) + Weight(t, l) - Pending(sendIo) - Pending(recvIo)
                   + Pending(sendIo') + Pending(recvIo')
  BY <1>1, Balance
<1>3. RefInv' /\ refs' \in Nat
  BY <1>2, RefFrame DEF Quietly, SendQuietly
<1>4. pc' \in [Threads -> Labels] /\ PcInv'
  BY PcTyped DEF Quietly, SendQuietly
<1>5. sendIo' \in IoStates \ {"data", "bad", "lost"}
  BY DEF TypeInv, TypeOK, Quietly, SendQuietly, IoStates
<1>6. TypeInv'
  BY <1>3, <1>4, <1>5 DEF TypeInv, TypeOK, Quietly, SendQuietly
<1> QED BY <1>3, <1>6, QuietFrame

(* SendPacket notifies a worker, or a frame does if the queue is not empty.   *)
LEMMA NotifyStep ==
  ASSUME Running, NEW c \in Callers, SendNotify(c) \/ FramePost(c)
  PROVE  Running'
<1> USE DEF Running
<1>1. /\ pc[c] = "notify" /\ pc' = [pc EXCEPT ![c] = "release"] /\ posts' \in {posts, posts + 1}
      /\ UNCHANGED <<open, refs, sendQ, inflight, behind, queued, wire, sendLocked, recvBarred,
                     sendIo, recvIo, peerUp, chunks, pkt, unsent, disconnects>>
  BY DEF SendNotify, FramePost, Step, sessionVars, queueVars, flagVars, kernelVars, callVars
<1>2. /\ refs \in Nat /\ posts \in Nat /\ recvBarred \in BOOLEAN /\ sendLocked \in BOOLEAN
      /\ recvIo \in IoStates \ {"done"}
  BY DEF TypeInv, TypeOK
<1>3. c \in Threads /\ Fits(c, "release") /\ "release" \in Labels /\ open
  BY <1>1, Kinds, HolderOpen DEF Fits, CallerLabels, Labels, HoldsOwn
<1>4. Weight(c, pc[c]) = 1 /\ Weight(c, "release") = 1
  BY <1>1, Weights DEF CallerLabels
<1>5. Quietly(c, "release")
  BY <1>1, <1>3 DEF Quietly, SendQuietly, Locking
<1>6. refs' = refs - Weight(c, pc[c]) + Weight(c, "release")
  BY <1>1, <1>2, <1>4
<1>7. posts' \in Nat /\ recvBarred' \in BOOLEAN /\ sendLocked' \in BOOLEAN
      /\ recvIo' \in IoStates \ {"done"} /\ (recvIo' = "none" <=> recvIo = "none")
  BY <1>1, <1>2
<1> QED BY <1>1, <1>3, <1>5, <1>6, <1>7, QuietMove

(* A call ends and gives its reference back.                                  *)
LEMMA ReleaseStep ==
  ASSUME Running, NEW t \in Callers \cup Workers, Release(t)
  PROVE  Running'
<1> USE DEF Running
<1>1. /\ pc[t] = "release" /\ pc' = [pc EXCEPT ![t] = "idle"] /\ refs' = refs - 1
      /\ UNCHANGED <<open, sendQ, inflight, behind, queued, wire, sendLocked, recvBarred, posts,
                     sendIo, recvIo, peerUp, chunks, pkt, unsent, disconnects>>
  BY DEF Release, Step, queueVars, flagVars, kernelVars, callVars
<1>2. /\ refs \in Nat /\ posts \in Nat /\ recvBarred \in BOOLEAN /\ sendLocked \in BOOLEAN
      /\ recvIo \in IoStates \ {"done"}
  BY DEF TypeInv, TypeOK
<1>3. t \in Threads /\ Fits(t, "idle") /\ "idle" \in Labels /\ open
  BY <1>1, Kinds, HolderOpen DEF Fits, CallerLabels, AcceptorLabels, Labels, HoldsOwn
<1>4. Weight(t, pc[t]) = 1 /\ Weight(t, "idle") = 0
  BY <1>1, <1>3, Weights DEF CallerLabels, Labels, HandingOver
<1>5. Quietly(t, "idle")
  BY <1>1, <1>3 DEF Quietly, SendQuietly, Locking
<1>6. refs' = refs - Weight(t, pc[t]) + Weight(t, "idle")
  BY <1>1, <1>2, <1>4
<1>7. posts' \in Nat /\ recvBarred' \in BOOLEAN /\ sendLocked' \in BOOLEAN
      /\ recvIo' \in IoStates \ {"done"} /\ (recvIo' = "none" <=> recvIo = "none")
  BY <1>1, <1>2
<1> QED BY <1>1, <1>3, <1>5, <1>6, <1>7, QuietMove

(* Disconnect's steps, in a caller or in a worker that was sent a bad packet.  *)
LEMMA DisconnectSteps ==
  ASSUME Running, NEW t \in Callers \cup Workers, DisconnectStep(t)
  PROVE  Running'
<1> USE DEF Running
<1>1. PICK l \in {"lockSend", "cancelRecv", "cancelSend", "discRelease", "release"} :
        /\ pc[t] \in {"lockRecv", "lockSend", "cancelRecv", "cancelSend"}
        /\ l = "discRelease" => t \in Workers
        /\ l = "release" => t \notin Workers
        /\ pc' = [pc EXCEPT ![t] = l]
        /\ recvIo' \in {recvIo, Cancel(recvIo)} /\ sendIo' \in {sendIo, Cancel(sendIo)}
        /\ recvBarred' \in {recvBarred, TRUE} /\ sendLocked' \in {sendLocked, TRUE}
        /\ UNCHANGED <<open, refs, sendQ, inflight, behind, queued, wire, posts, peerUp, chunks, pkt,
                       unsent, disconnects>>
  <2>1. CASE DisconnectLockRecv(t)
    BY <2>1 DEF DisconnectLockRecv, Step, sessionVars, queueVars, kernelVars, callVars
  <2>2. CASE DisconnectLockSend(t)
    BY <2>2 DEF DisconnectLockSend, Step, sessionVars, queueVars, kernelVars, callVars
  <2>3. CASE DisconnectCancelRecv(t)
    BY <2>3 DEF DisconnectCancelRecv, Step, sessionVars, queueVars, flagVars, callVars
  <2>4. CASE DisconnectCancelSend(t)
    BY <2>4 DEF DisconnectCancelSend, Step, sessionVars, queueVars, flagVars, callVars
  <2> QED BY <2>1, <2>2, <2>3, <2>4 DEF DisconnectStep
<1>2. /\ refs \in Nat /\ posts \in Nat /\ recvBarred \in BOOLEAN /\ sendLocked \in BOOLEAN
      /\ recvIo \in IoStates \ {"done"}
  BY DEF TypeInv, TypeOK
<1>3. t \in Threads /\ Fits(t, l) /\ l \in Labels /\ open
  <2>1. open
    BY <1>1, Kinds, HolderOpen DEF HoldsOwn
  <2> QED BY <1>1, <2>1, Kinds DEF Fits, CallerLabels, Labels
<1>4. Weight(t, pc[t]) = Weight(t, l) /\ Weight(t, l) \in Nat
  <2>1. CASE t \in Callers
    BY <1>1, <2>1, Weights, Kinds DEF CallerLabels
  <2>2. CASE t \in Workers
    BY <1>1, <2>2, Weights DEF HandingOver
  <2> QED BY <2>1, <2>2
<1>5. Quietly(t, l)
  <2>1. sendLocked => sendLocked'
    BY <1>1, Zenon
  <2>2. /\ sendIo' = sendIo \/ (sendIo = "kernel" /\ sendIo' = "failed")
        /\ recvIo' = "none" \/ recvIo # "none"
    BY <1>1 DEF Cancel
  <2> QED BY <1>1, <1>3, <2>1, <2>2 DEF Quietly, SendQuietly, Locking
<1>6. refs' = refs - Weight(t, pc[t]) + Weight(t, l)
  BY <1>1, <1>2, <1>4
<1>7. posts' \in Nat /\ recvBarred' \in BOOLEAN /\ sendLocked' \in BOOLEAN
      /\ recvIo' \in IoStates \ {"done"} /\ (recvIo' = "none" <=> recvIo = "none")
  BY <1>1, <1>2 DEF Cancel, IoStates
<1> QED BY <1>1, <1>3, <1>5, <1>6, <1>7, QuietMove

(* A worker's steps that have to do with neither the send nor the receive. *)
LEMMA WorkerQuietSteps ==
  ASSUME Running, NEW w \in Workers,
         DisconnectRelease(w) \/ DropIo(w) \/ RecheckQueue(w)
  PROVE  Running'
<1> USE DEF Running
<1>1. PICK l \in {"release", "trySend"} :
        /\ \/ pc[w] \in {"discRelease", "dropIo"} /\ refs' = refs - 1
           \/ pc[w] = "recheck" /\ refs' = refs
        /\ pc' = [pc EXCEPT ![w] = l]
        /\ UNCHANGED <<open, sendQ, inflight, behind, queued, wire, sendLocked, recvBarred, posts,
                       sendIo, recvIo, peerUp, chunks, pkt, unsent, disconnects>>
  BY DEF DisconnectRelease, DropIo, RecheckQueue, Step, sessionVars, queueVars, flagVars,
         kernelVars, callVars
<1>2. /\ refs \in Nat /\ posts \in Nat /\ recvBarred \in BOOLEAN /\ sendLocked \in BOOLEAN
      /\ recvIo \in IoStates \ {"done"}
  BY DEF TypeInv, TypeOK
<1>3. w \in Threads /\ Fits(w, l) /\ l \in Labels /\ open
  <2>1. open
    BY <1>1, Kinds, HolderOpen DEF HoldsOwn
  <2> QED BY <1>1, <2>1, Kinds DEF Fits, Labels
<1>4. Weight(w, l) = 1
  BY <1>1, Weights DEF Labels, HandingOver
<1>5. \/ Weight(w, pc[w]) = 2 /\ refs' = refs - 1
      \/ Weight(w, pc[w]) = 1 /\ refs' = refs
  BY <1>1, Weights DEF Labels, HandingOver
<1>6. refs' = refs - Weight(w, pc[w]) + Weight(w, l)
  BY <1>2, <1>4, <1>5
<1>7. Quietly(w, l)
  BY <1>1, <1>3 DEF Quietly, SendQuietly, Locking
<1>8. posts' \in Nat /\ recvBarred' \in BOOLEAN /\ sendLocked' \in BOOLEAN
      /\ recvIo' \in IoStates \ {"done"} /\ (recvIo' = "none" <=> recvIo = "none")
  BY <1>1, <1>2
<1> QED BY <1>1, <1>3, <1>6, <1>7, <1>8, QuietMove

(* Steps that leave the threads and the queues alone, and of an operation at   *)
(* most how it ends.                                                         *)
LEMMA OnlyIo ==
  ASSUME Running, TypeInv',
         sendIo' = "none" <=> sendIo = "none", sendIo' = "done" <=> sendIo = "done",
         recvIo' = "none" <=> recvIo = "none",
         UNCHANGED <<open, refs, sendQ, inflight, behind, queued, wire, sendLocked, pc>>
  PROVE  Running'
<1> USE DEF Running
<1>1. RefInv'
  BY DEF RefInv, Own, Extra, Pending
<1>2. SendInv' /\ RecvInv'
  BY DEF SendInv, RecvInv, IsEmpty
<1>3. WireInv'
  <2>1. Untransmitted' = Untransmitted
    BY DEF Untransmitted, Freeing
  <2> QED BY <2>1 DEF WireInv, WireInOrder
<1> QED BY <1>1, <1>2, <1>3

(* A notification is dequeued; for a closed session it is dropped. *)
LEMMA DispatchNotifyStep ==
  ASSUME Running, NEW w \in Workers, DispatchNotify(w)
  PROVE  Running'
<1> USE DEF Running
<1>1. /\ posts > 0 /\ posts' = posts - 1 /\ pc[w] = "idle"
      /\ IF open THEN pc' = [pc EXCEPT ![w] = "trySend"] /\ refs' = refs + 1
                 ELSE pc' = [pc EXCEPT ![w] = "idle"] /\ refs' = refs
      /\ UNCHANGED <<open, sendQ, inflight, behind, queued, wire, sendLocked, recvBarred,
                     sendIo, recvIo, peerUp, chunks, pkt, unsent, disconnects>>
  BY DEF DispatchNotify, Step, queueVars, flagVars, kernelVars, callVars
<1>2. /\ refs \in Nat /\ posts \in Nat /\ recvBarred \in BOOLEAN /\ sendLocked \in BOOLEAN
      /\ recvIo \in IoStates \ {"done"} /\ w \in Threads /\ pc \in [Threads -> Labels]
  BY Kinds DEF TypeInv, TypeOK
<1>3. posts' \in Nat /\ recvBarred' \in BOOLEAN /\ sendLocked' \in BOOLEAN
      /\ recvIo' \in IoStates \ {"done"} /\ (recvIo' = "none" <=> recvIo = "none")
  BY <1>1, <1>2
<1>4. CASE open
  <2>1. Fits(w, "trySend") /\ "trySend" \in Labels
    BY Kinds DEF Fits, Labels
  <2>2. Weight(w, pc[w]) = 0 /\ Weight(w, "trySend") = 1
    BY <1>1, <1>2, Weights DEF Labels, HandingOver
  <2>3. Quietly(w, "trySend")
    BY <1>1, <1>4, <2>1 DEF Quietly, SendQuietly, Locking
  <2>4. refs' = refs - Weight(w, pc[w]) + Weight(w, "trySend")
    BY <1>1, <1>2, <1>4, <2>2
  <2> QED BY <1>1, <1>2, <1>3, <1>4, <2>1, <2>3, <2>4, QuietMove
<1>5. CASE ~open
  <2>1. pc' = pc /\ refs' = refs
    BY <1>1, <1>2, <1>5
  <2>2. TypeInv'
    BY <1>1, <1>3, <2>1 DEF TypeInv, TypeOK, PcInv
  <2> QED BY <1>1, <2>1, <2>2, OnlyIo
<1> QED BY <1>4, <1>5
-----------------------------------------------------------------------------
(* A worker takes over a completed receive, and the reference it had. *)
LEMMA DispatchRecvStep ==
  ASSUME Running, NEW w \in Workers, DispatchRecv(w)
  PROVE  Running'
<1> USE DEF Running
<1>1. PICK l \in {"recvPost", "badPacket", "dropIo"} :
        /\ open /\ recvIo # "none" /\ pc[w] = "idle" /\ pc' = [pc EXCEPT ![w] = l]
        /\ recvIo' = "none" /\ refs' = refs + 1
        /\ UNCHANGED <<open, sendQ, inflight, behind, queued, wire, sendLocked, recvBarred, posts, sendIo,
                       peerUp, chunks, pkt, unsent, disconnects>>
  BY DEF DispatchRecv, Step, queueVars, flagVars, callVars
<1>2. /\ w \in Threads /\ l \in Labels /\ Fits(w, l) /\ refs \in Nat /\ pc \in [Threads -> Labels]
  BY Kinds DEF TypeInv, TypeOK, Labels, Fits
<1>3. pc' \in [Threads -> Labels] /\ PcInv'
  BY <1>1, <1>2, PcTyped
<1>4. RefInv' /\ refs' \in Nat
  <2>1. Weight(w, pc[w]) = 0 /\ Weight(w, l) = 2
    BY <1>1, <1>2, Weights DEF HandingOver
  <2>2. Pending(recvIo) = 1 /\ Pending(recvIo') = 0 /\ Pending(sendIo') = Pending(sendIo)
        /\ Pending(sendIo) \in Nat
    BY <1>1 DEF Pending
  <2>3. refs' = refs - Weight(w, pc[w]) + Weight(w, l) - Pending(sendIo) - Pending(recvIo)
                   + Pending(sendIo') + Pending(recvIo')
    BY <1>1, <1>2, <2>1, <2>2
  <2> QED BY <1>1, <1>2, <2>3, RefFrame
<1>5. TypeInv'
  <2>1. recvIo' \in IoStates \ {"done"}
    BY <1>1 DEF IoStates
  <2> QED BY <1>1, <1>3, <1>4, <2>1 DEF TypeInv, TypeOK
<1>6. SendInv' /\ WireInv'
  <2>1. SendQuietly(w, l)
    BY <1>1, <1>2 DEF SendQuietly, Locking
  <2> QED BY <1>2, <2>1, SendFrame
<1>7. RecvInv'
  BY <1>1, <1>2 DEF RecvInv
<1> QED BY <1>4, <1>5, <1>6, <1>7

(* A packet that cannot be extracted: the receive is lost with its reference. *)
LEMMA BadPacketStep ==
  ASSUME Running, NEW w \in Workers, BadPacketReturn(w) \/ BadPacketDisconnect(w)
  PROVE  Running'
<1> USE DEF Running
<1>1. PICK l \in {"release", "lockRecv"} :
        /\ pc[w] = "badPacket" /\ pc' = [pc EXCEPT ![w] = l] /\ recvIo' = "lost"
        /\ refs' = IF l = "release" THEN refs ELSE refs + 1
        /\ UNCHANGED <<open, sendQ, inflight, behind, queued, wire, sendLocked, recvBarred, posts, sendIo,
                       peerUp, chunks, pkt, unsent, disconnects>>
  <2>1. CASE BadPacketReturn(w)
    BY <2>1 DEF BadPacketReturn, Step, sessionVars, queueVars, flagVars, callVars
  <2>2. CASE BadPacketDisconnect(w)
    BY <2>2 DEF BadPacketDisconnect, Step, queueVars, flagVars, callVars
  <2> QED BY <2>1, <2>2
<1>2. /\ w \in Threads /\ l \in Labels /\ Fits(w, l) /\ refs \in Nat /\ pc \in [Threads -> Labels]
  BY Kinds DEF TypeInv, TypeOK, Labels, Fits
<1>3. open /\ recvIo = "none"
  BY <1>1, <1>2, Kinds, HolderOpen DEF HoldsOwn, RecvInv
<1>4. Quietly(w, l)
  BY <1>1, <1>2 DEF Quietly, SendQuietly, Locking
<1>5. refs' = refs - Weight(w, pc[w]) + Weight(w, l) - Pending(sendIo) - Pending(recvIo)
                   + Pending(sendIo') + Pending(recvIo')
  <2>1. Weight(w, pc[w]) = 2 /\ Weight(w, l) = IF l = "release" THEN 1 ELSE 2
    BY <1>1, <1>2, Weights DEF HandingOver
  <2>2. Pending(recvIo) = 0 /\ Pending(recvIo') = 1 /\ Pending(sendIo') = Pending(sendIo)
        /\ Pending(sendIo) \in Nat
    BY <1>1, <1>3 DEF Pending
  <2> QED BY <1>1, <1>2, <2>1, <2>2
<1>6. RefInv' /\ refs' \in Nat
  BY <1>1, <1>2, <1>3, <1>5, RefFrame
<1>7. TypeInv'
  <2>1. pc' \in [Threads -> Labels] /\ PcInv'
    BY <1>1, <1>2, PcTyped
  <2>2. recvIo' \in IoStates \ {"done"}
    BY <1>1 DEF IoStates
  <2> QED BY <1>1, <1>6, <2>1, <2>2 DEF TypeInv, TypeOK
<1> QED BY <1>2, <1>4, <1>6, <1>7, QuietFrame

(* The receive is posted with the thread's reference, or it is dropped. *)
LEMMA RecvPostStep ==
  ASSUME Running, NEW t \in Workers \cup {Acceptor}, RecvPost(t)
  PROVE  Running'
<1> USE DEF Running
<1>1. PICK l \in {"checkBarred", "idle", "release"} :
        /\ pc[t] = "recvPost" /\ pc' = [pc EXCEPT ![t] = l]
        /\ \/ l = "checkBarred" /\ recvIo' = "kernel" /\ refs' = refs
           \/ l = Leave(t) /\ recvIo' = recvIo /\ refs' = refs - 1
        /\ UNCHANGED <<open, sendQ, inflight, behind, queued, wire, sendLocked, recvBarred, posts, sendIo,
                       peerUp, chunks, pkt, unsent, disconnects>>
  BY DEF RecvPost, Step, Leave, queueVars, flagVars, callVars
<1>2. /\ t \in Threads /\ l \in Labels /\ refs \in Nat /\ pc \in [Threads -> Labels]
  BY Kinds DEF TypeInv, TypeOK, Labels
<1>3. open /\ recvIo = "none"
  BY <1>1, <1>2, HolderOpen DEF HoldsOwn, RecvInv
<1>4. Fits(t, l)
  BY <1>1, Kinds DEF Fits, AcceptorLabels, Leave
<1>5. Quietly(t, l)
  BY <1>1, <1>2 DEF Quietly, SendQuietly, Locking
<1>6. refs' = refs - Weight(t, pc[t]) + Weight(t, l) - Pending(sendIo) - Pending(recvIo)
                   + Pending(sendIo') + Pending(recvIo')
  <2>1. Pending(recvIo) = 0 /\ Pending(sendIo') = Pending(sendIo) /\ Pending(sendIo) \in Nat
        /\ Pending("kernel") = 1
    BY <1>1, <1>3 DEF Pending
  <2>2. CASE t \in Workers
    <3>1. Weight(t, pc[t]) = 2 /\ Weight(t, "checkBarred") = 1 /\ Weight(t, "release") = 1
      BY <1>1, <2>2, Weights DEF HandingOver, Labels
    <3>2. Leave(t) = "release"
      BY <2>2, Kinds DEF Leave
    <3> QED BY <1>1, <1>2, <2>1, <3>1, <3>2
  <2>3. CASE t = Acceptor
    <3>1. Weight(t, pc[t]) = 1 /\ Weight(t, "checkBarred") = 0 /\ Weight(t, "idle") = 0
      BY <1>1, <1>2, <2>3, Weights
    <3>2. Leave(t) = "idle"
      BY <2>3 DEF Leave
    <3> QED BY <1>1, <1>2, <2>1, <3>1, <3>2
  <2> QED BY <2>2, <2>3
<1>7. RefInv' /\ refs' \in Nat
  BY <1>1, <1>2, <1>3, <1>6, RefFrame
<1>8. TypeInv'
  <2>1. pc' \in [Threads -> Labels] /\ PcInv'
    BY <1>1, <1>2, <1>4, PcTyped
  <2>2. recvIo' \in IoStates \ {"done"}
    BY <1>1, <1>3 DEF IoStates
  <2> QED BY <1>1, <1>7, <2>1, <2>2 DEF TypeInv, TypeOK
<1> QED BY <1>2, <1>5, <1>7, <1>8, QuietFrame

(* ... and cancelled if a Disconnect came before. *)
LEMMA CheckBarredStep ==
  ASSUME Running, NEW t \in Workers \cup {Acceptor}, CheckBarred(t)
  PROVE  Running'
<1> USE DEF Running
<1>1. /\ pc[t] = "checkBarred" /\ pc' = [pc EXCEPT ![t] = Leave(t)]
      /\ recvIo' \in {recvIo, Cancel(recvIo)}
      /\ UNCHANGED <<open, refs, sendQ, inflight, behind, queued, wire, sendLocked, recvBarred, posts,
                     sendIo, peerUp, chunks, pkt, unsent, disconnects>>
  BY DEF CheckBarred, Step, sessionVars, queueVars, flagVars, callVars
<1>2. /\ t \in Threads /\ Leave(t) \in Labels /\ refs \in Nat /\ pc \in [Threads -> Labels]
      /\ recvIo \in IoStates \ {"done"}
  BY Kinds DEF TypeInv, TypeOK, Labels, Leave
<1>3. Fits(t, Leave(t))
  BY Kinds DEF Fits, AcceptorLabels, Leave
<1>4. /\ recvIo' \in IoStates \ {"done"} /\ (recvIo' = "none" <=> recvIo = "none")
  BY <1>1, <1>2 DEF Cancel, IoStates
<1>5. Quietly(t, Leave(t))
  BY <1>1, <1>2, <1>4 DEF Quietly, SendQuietly, Locking, Leave
<1>6. Weight(t, pc[t]) = Weight(t, Leave(t)) /\ Weight(t, pc[t]) \in Nat
  <2>1. CASE t \in Workers
    <3>1. Weight(t, "checkBarred") = 1 /\ Weight(t, "release") = 1
      BY <2>1, Weights DEF HandingOver, Labels
    <3> QED BY <1>1, <2>1, <3>1, Kinds DEF Leave
  <2>2. CASE t = Acceptor
    <3>1. Weight(t, "checkBarred") = 0 /\ Weight(t, "idle") = 0
      BY <1>2, <2>2, Weights
    <3> QED BY <1>1, <2>2, <3>1 DEF Leave
  <2> QED BY <2>1, <2>2
<1>7. RefInv' /\ refs' \in Nat
  <2>1. refs' = refs - Weight(t, pc[t]) + Weight(t, Leave(t))
    BY <1>1, <1>2, <1>6
  <2>2. refs' = refs - Weight(t, pc[t]) + Weight(t, Leave(t)) - Pending(sendIo) - Pending(recvIo)
                   + Pending(sendIo') + Pending(recvIo')
    BY <1>1, <1>2, <1>4, <2>1, Balance
  <2> QED BY <1>1, <1>2, <2>2, RefFrame
<1>8. TypeInv'
  <2>1. pc' \in [Threads -> Labels] /\ PcInv'
    BY <1>1, <1>2, <1>3, PcTyped
  <2> QED BY <1>1, <1>4, <1>7, <2>1 DEF TypeInv, TypeOK
<1> QED BY <1>2, <1>5, <1>7, <1>8, QuietFrame
-----------------------------------------------------------------------------
(* What a worker's step in the send does besides: the rest of the invariant. *)
LEMMA SenderStep ==
  ASSUME Running, NEW w \in Workers, NEW l \in Labels,
         pc' = [pc EXCEPT ![w] = l], l \notin {"insert", "notify", "recvPost", "badPacket"},
         refs' = refs - Weight(w, pc[w]) + Weight(w, l) - Pending(sendIo) + Pending(sendIo'),
         open, sendQ' \in Seq(Packets), inflight' \in Seq(Packets), sendLocked' \in BOOLEAN,
         sendIo' \in IoStates \ {"data", "bad", "lost"},
         UNCHANGED <<open, behind, queued, wire, recvBarred, posts, recvIo, peerUp, chunks, pkt,
                     unsent, disconnects>>,
         SendInv', WireInv'
  PROVE  Running'
<1> USE DEF Running
<1>1. w \in Threads /\ refs \in Nat /\ pc \in [Threads -> Labels] /\ Fits(w, l)
  BY Kinds DEF TypeInv, TypeOK, Fits
<1>2. RefInv' /\ refs' \in Nat
  <2>1. Pending(recvIo') = Pending(recvIo) /\ Pending(recvIo) \in Nat /\ Pending(sendIo) \in Nat
        /\ Pending(sendIo') \in Nat /\ Weight(w, pc[w]) \in Nat /\ Weight(w, l) \in Nat
    BY DEF Pending, Weight, One
  <2>2. refs' = refs - Weight(w, pc[w]) + Weight(w, l) - Pending(sendIo) - Pending(recvIo)
                   + Pending(sendIo') + Pending(recvIo')
    BY <1>1, <2>1
  <2> QED BY <1>1, <2>2, RefFrame
<1>3. pc' \in [Threads -> Labels] /\ PcInv'
  BY <1>1, PcTyped
<1>4. TypeInv'
  BY <1>2, <1>3 DEF TypeInv, TypeOK
<1>5. RecvInv'
  BY <1>1 DEF RecvInv
<1> QED BY <1>2, <1>4, <1>5

(* Nothing is moved from one sequence to another. *)
LEMMA WireFrame ==
  ASSUME Running, NEW w \in Threads, NEW l,
         pc' = [pc EXCEPT ![w] = l], pc[w] # "freeSent", l # "freeSent",
         sendIo' = "done" <=> sendIo = "done",
         UNCHANGED <<open, sendQ, inflight, behind, queued, wire>>
  PROVE  WireInv'
<1>1. pc \in [Threads -> Labels]
  BY DEF Running, TypeInv, TypeOK
<1>2. Freeing' <=> Freeing
  BY <1>1 DEF Freeing
<1>3. Untransmitted' = Untransmitted
  BY <1>2 DEF Untransmitted
<1> QED BY <1>3 DEF Running, WireInv, WireInOrder

(* The lock is taken, looked under and given back. *)
LEMMA LockSteps ==
  ASSUME Running, NEW w \in Workers,
         TryLockSend(w) \/ CheckEmpty(w) \/ UnlockEmpty(w) \/ UnlockSent(w)
  PROVE  Running'
<1> USE DEF Running
<1>1. PICK l \in {"release", "checkEmpty", "unlockEmpty", "prepare", "recheck"} :
        /\ pc' = [pc EXCEPT ![w] = l]
        /\ \/ pc[w] = "trySend" /\ sendLocked /\ l = "release" /\ sendLocked' = TRUE
           \/ pc[w] = "trySend" /\ ~sendLocked /\ l = "checkEmpty" /\ sendLocked' = TRUE
           \/ pc[w] = "checkEmpty" /\ sendLocked' = sendLocked
              /\ \/ l = "unlockEmpty"
                 \/ l = "prepare" /\ ~IsEmpty
           \/ pc[w] = "unlockEmpty" /\ l = "release" /\ sendLocked' = FALSE
           \/ pc[w] = "unlockSent" /\ l = "recheck" /\ sendLocked' = FALSE
        /\ UNCHANGED <<open, refs, sendQ, inflight, behind, queued, wire, recvBarred, posts, sendIo, recvIo,
                       peerUp, chunks, pkt, unsent, disconnects>>
  <2>1. CASE TryLockSend(w)
    BY <2>1 DEF TryLockSend, Step, sessionVars, queueVars, kernelVars, callVars
  <2>2. CASE CheckEmpty(w)
    BY <2>2 DEF CheckEmpty, Step, sessionVars, queueVars, flagVars, kernelVars, callVars
  <2>3. CASE UnlockEmpty(w)
    BY <2>3 DEF UnlockEmpty, Step, sessionVars, queueVars, kernelVars, callVars
  <2>4. CASE UnlockSent(w)
    BY <2>4 DEF UnlockSent, Step, sessionVars, queueVars, kernelVars, callVars
  <2> QED BY <2>1, <2>2, <2>3, <2>4
<1>2. /\ w \in Threads /\ l \in Labels /\ refs \in Nat /\ pc \in [Threads -> Labels]
      /\ sendQ \in Seq(Packets) /\ inflight \in Seq(Packets) /\ sendLocked \in BOOLEAN
      /\ sendIo \in IoStates \ {"data", "bad", "lost"}
  BY Kinds DEF TypeInv, TypeOK, Labels
<1>3. open
  BY <1>1, <1>2, Kinds, HolderOpen DEF HoldsOwn
<1>4. Weight(w, pc[w]) = 1 /\ Weight(w, l) = 1
  BY <1>1, Weights DEF HandingOver, Labels
<1>5. refs' = refs - Weight(w, pc[w]) + Weight(w, l) - Pending(sendIo) + Pending(sendIo')
  <2>1. Pending(sendIo') = Pending(sendIo) /\ Pending(sendIo) \in Nat
    BY <1>1 DEF Pending
  <2> QED BY <1>1, <1>2, <1>4, <2>1
<1>6. sendLocked' \in BOOLEAN
  BY <1>1, <1>2
<1>7. SendInv'
  BY <1>1, <1>2 DEF SendInv, Locking, IsEmpty
<1>8. WireInv'
  BY <1>1, <1>2, WireFrame
<1> QED BY <1>1, <1>2, <1>3, <1>5, <1>6, <1>7, <1>8, SenderStep

(* Packets go from the queue to the send, with a reference for it. *)
LEMMA PrepareStep ==
  ASSUME Running, NEW w \in Workers, PrepareSend(w)
  PROVE  Running'
<1> USE DEF Running
<1> DEFINE n == IF Len(sendQ) < MaxBatch THEN Len(sendQ) ELSE MaxBatch
           a == SubSeq(sendQ, 1, n)
           b == SubSeq(sendQ, n + 1, Len(sendQ))
<1>1. /\ pc[w] = "prepare" /\ pc' = [pc EXCEPT ![w] = "wsaSend"] /\ refs' = refs + 1
      /\ inflight' = inflight \o a /\ sendQ' = b
      /\ UNCHANGED <<open, behind, queued, wire, sendLocked, recvBarred, posts, sendIo, recvIo,
                     peerUp, chunks, pkt, unsent, disconnects>>
  BY DEF PrepareSend, Step, flagVars, kernelVars, callVars
<1>2. /\ w \in Threads /\ "wsaSend" \in Labels /\ refs \in Nat /\ pc \in [Threads -> Labels]
      /\ sendQ \in Seq(Packets) /\ inflight \in Seq(Packets) /\ sendLocked \in BOOLEAN
      /\ sendIo \in IoStates \ {"data", "bad", "lost"}
  BY Kinds DEF TypeInv, TypeOK, Labels
<1>3. open
  BY <1>1, <1>2, Kinds, HolderOpen DEF HoldsOwn
<1>4. inflight = <<>> /\ sendIo = "none" /\ ~Freeing
  BY <1>1, <1>2 DEF SendInv, Freeing, Locking
<1>5. a \in Seq(Packets) /\ b \in Seq(Packets) /\ a \o b = sendQ
  <2>1. Len(sendQ) \in Nat /\ n \in 0 .. Len(sendQ)
    BY <1>2, LenProperties, IoAssumption
  <2> HIDE DEF n
  <2>2. /\ \A i \in 1 .. n : sendQ[i] \in Packets
        /\ \A i \in n + 1 .. Len(sendQ) : sendQ[i] \in Packets
    BY <1>2, <2>1, ElementOfSeq
  <2>3. a \in Seq(Packets) /\ b \in Seq(Packets)
    BY <2>1, <2>2, SubSeqProperties
  <2>4. a \o b = SubSeq(sendQ, 1, Len(sendQ))
    <3>1. /\ 1 \in 1 .. Len(sendQ) + 1 /\ n \in 1 - 1 .. Len(sendQ) /\ Len(sendQ) \in n .. Len(sendQ)
      BY <2>1
    <3> QED BY <1>2, <3>1, ConcatAdjacentSubSeq
  <2> QED BY <1>2, <2>3, <2>4, SubSeqFull
<1> HIDE DEF n, a, b
<1>6. inflight' = a /\ sendQ' = b
  BY <1>1, <1>4, <1>5, ConcatEmptySeq
<1>7. refs' = refs - Weight(w, pc[w]) + Weight(w, "wsaSend") - Pending(sendIo) + Pending(sendIo')
  <2>1. Weight(w, pc[w]) = 1 /\ Weight(w, "wsaSend") = 2
    BY <1>1, Weights DEF HandingOver, Labels
  <2>2. Pending(sendIo') = Pending(sendIo) /\ Pending(sendIo) \in Nat
    BY <1>1 DEF Pending
  <2> QED BY <1>1, <1>2, <2>1, <2>2
<1>8. SendInv'
  BY <1>1, <1>2 DEF SendInv, Locking, IsEmpty
<1>9. WireInv'
  <2>1. Untransmitted = <<>> /\ Untransmitted' = a
    <3>1. ~Freeing'
      BY <1>1, <1>2, <1>4 DEF Freeing
    <3> QED BY <1>1, <1>4, <1>6, <3>1 DEF Untransmitted
  <2>2. queued = wire \o (<<>> \o sendQ)
    BY <1>3, <2>1 DEF WireInv
  <2>3. <<>> \o sendQ = a \o b
    BY <1>2, <1>5, ConcatEmptySeq
  <2>4. queued' = wire' \o (Untransmitted' \o sendQ')
    BY <1>1, <1>6, <2>1, <2>2, <2>3
  <2> QED BY <1>1, <1>3, <2>4 DEF WireInv
<1> QED BY <1>1, <1>2, <1>3, <1>5, <1>6, <1>7, <1>8, <1>9, SenderStep

(* The send is posted with the reference taken for it, or it is given back. *)
LEMMA WsaSendStep ==
  ASSUME Running, NEW w \in Workers, WsaSend(w)
  PROVE  Running'
<1> USE DEF Running
<1>1. /\ pc[w] = "wsaSend" /\ pc' = [pc EXCEPT ![w] = "release"]
      /\ \/ sendIo' = "kernel" /\ refs' = refs
         \/ sendIo' = sendIo /\ refs' = refs - 1
      /\ UNCHANGED <<open, sendQ, inflight, behind, queued, wire, sendLocked, recvBarred, posts, recvIo,
                     peerUp, chunks, pkt, unsent, disconnects>>
  BY DEF WsaSend, Step, queueVars, flagVars, callVars
<1>2. /\ w \in Threads /\ "release" \in Labels /\ refs \in Nat /\ pc \in [Threads -> Labels]
      /\ sendQ \in Seq(Packets) /\ inflight \in Seq(Packets) /\ sendLocked \in BOOLEAN
  BY Kinds DEF TypeInv, TypeOK, Labels
<1>3. open /\ sendIo = "none"
  BY <1>1, <1>2, Kinds, HolderOpen DEF HoldsOwn, SendInv, Locking
<1>4. sendIo' \in IoStates \ {"data", "bad", "lost"}
  BY <1>1, <1>3 DEF IoStates
<1>5. refs' = refs - Weight(w, pc[w]) + Weight(w, "release") - Pending(sendIo) + Pending(sendIo')
  <2>1. Weight(w, pc[w]) = 2 /\ Weight(w, "release") = 1
    BY <1>1, Weights DEF HandingOver, Labels
  <2>2. Pending("none") = 0 /\ Pending("kernel") = 1
    BY DEF Pending
  <2> QED BY <1>1, <1>2, <1>3, <2>1, <2>2
<1>6. SendInv'
  BY <1>1, <1>2 DEF SendInv, Locking, IsEmpty
<1>7. WireInv'
  BY <1>1, <1>2, <1>3, WireFrame
<1> QED BY <1>1, <1>2, <1>3, <1>4, <1>5, <1>6, <1>7, SenderStep

(* A completed send is taken over with its reference; its packets are freed.   *)
LEMMA DispatchSendStep ==
  ASSUME Running, NEW w \in Workers, DispatchSend(w)
  PROVE  Running'
<1> USE DEF Running
<1>1. PICK l \in {"freeSent", "dropIo"} :
        /\ pc[w] = "idle" /\ pc' = [pc EXCEPT ![w] = l] /\ refs' = refs + 1 /\ open
        /\ sendIo \in {"done", "failed"} /\ (l = "freeSent" <=> sendIo = "done") /\ sendIo' = "none"
        /\ UNCHANGED <<open, sendQ, inflight, behind, queued, wire, sendLocked, recvBarred, posts, recvIo,
                       peerUp, chunks, pkt, unsent, disconnects>>
  BY DEF DispatchSend, Step, queueVars, flagVars, callVars
<1>2. /\ w \in Threads /\ l \in Labels /\ refs \in Nat /\ pc \in [Threads -> Labels]
      /\ sendQ \in Seq(Packets) /\ inflight \in Seq(Packets) /\ sendLocked \in BOOLEAN
      /\ sendIo' \in IoStates \ {"data", "bad", "lost"}
  BY <1>1, Kinds DEF TypeInv, TypeOK, Labels, IoStates
<1>3. refs' = refs - Weight(w, pc[w]) + Weight(w, l) - Pending(sendIo) + Pending(sendIo')
  <2>1. Weight(w, pc[w]) = 0 /\ Weight(w, l) = 2
    BY <1>1, <1>2, Weights DEF HandingOver
  <2>2. Pending(sendIo) = 1 /\ Pending(sendIo') = 0
    BY <1>1 DEF Pending
  <2> QED BY <1>1, <1>2, <2>1, <2>2
<1>4. sendLocked /\ \A t \in Threads : pc[t] \notin Locking
  BY <1>1 DEF SendInv
<1>5. SendInv'
  BY <1>1, <1>2, <1>4 DEF SendInv, Locking, IsEmpty
<1>6. WireInv'
  <2>1. ~Freeing /\ (Freeing' <=> l = "freeSent")
    BY <1>1, <1>2, <1>4 DEF Freeing, Locking
  <2>2. Untransmitted' = Untransmitted
    BY <1>1, <2>1 DEF Untransmitted
  <2> QED BY <1>1, <2>2 DEF WireInv
<1> QED BY <1>1, <1>2, <1>3, <1>5, <1>6, SenderStep

(* The packets of a completed send are freed and its reference given back.    *)
LEMMA FreeSentStep ==
  ASSUME Running, NEW w \in Workers, FreeSentPackets(w)
  PROVE  Running'
<1> USE DEF Running
<1>1. /\ pc[w] = "freeSent" /\ pc' = [pc EXCEPT ![w] = "unlockSent"] /\ refs' = refs - 1
      /\ inflight' = <<>>
      /\ UNCHANGED <<open, sendQ, behind, queued, wire, sendLocked, recvBarred, posts, sendIo, recvIo,
                     peerUp, chunks, pkt, unsent, disconnects>>
  BY DEF FreeSentPackets, Step, flagVars, kernelVars, callVars
<1>2. /\ w \in Threads /\ "unlockSent" \in Labels /\ refs \in Nat /\ pc \in [Threads -> Labels]
      /\ sendQ \in Seq(Packets) /\ inflight' \in Seq(Packets) /\ sendLocked \in BOOLEAN
      /\ sendIo \in IoStates \ {"data", "bad", "lost"}
  BY <1>1, Kinds, EmptySeq DEF TypeInv, TypeOK, Labels
<1>3. open
  BY <1>1, <1>2, Kinds, HolderOpen DEF HoldsOwn
<1>4. refs' = refs - Weight(w, pc[w]) + Weight(w, "unlockSent") - Pending(sendIo) + Pending(sendIo')
  <2>1. Weight(w, pc[w]) = 2 /\ Weight(w, "unlockSent") = 1
    BY <1>1, Weights DEF HandingOver, Labels
  <2>2. Pending(sendIo') = Pending(sendIo) /\ Pending(sendIo) \in Nat
    BY <1>1 DEF Pending
  <2> QED BY <1>1, <1>2, <2>1, <2>2
<1>5. SendInv'
  BY <1>1, <1>2 DEF SendInv, Locking, IsEmpty
<1>6. WireInv'
  <2>1. Untransmitted = <<>> /\ Untransmitted' = <<>>
    BY <1>1, <1>2 DEF Untransmitted, Freeing
  <2> QED BY <1>1, <2>1 DEF WireInv, WireInOrder
<1> QED BY <1>1, <1>2, <1>3, <1>4, <1>5, <1>6, SenderStep

(* While the session is open, the stream's parts show that its order is kept. *)
LEMMA OpenInOrder == ASSUME TypeInv, WireInv, open PROVE WireInOrder
<1>1. /\ wire \in Seq(Packets) /\ sendQ \in Seq(Packets) /\ inflight \in Seq(Packets)
      /\ <<>> \in Seq(Packets)
  BY EmptySeq DEF TypeInv, TypeOK
<1> DEFINE rest == Untransmitted \o sendQ
<1>2. rest \in Seq(Packets)
  <2>1. Untransmitted \in Seq(Packets)
    BY <1>1 DEF Untransmitted
  <2> QED BY <1>1, <2>1, ConcatProperties
<1>3. queued = wire \o rest
  BY DEF WireInv
<1> HIDE DEF rest
<1>4. Len(wire) <= Len(wire \o rest) /\ wire = SubSeq(wire \o rest, 1, Len(wire))
  BY <1>1, <1>2, PrefixOf
<1> QED BY <1>3, <1>4 DEF WireInOrder
-----------------------------------------------------------------------------
(* The last reference closes the session: nobody is in a call or an operation. *)
LEMMA CloseStep == ASSUME Running, Close PROVE Running'
<1> USE DEF Running
<1>1. /\ open /\ refs = 0 /\ open' = FALSE /\ sendQ' = <<>> /\ inflight' = <<>>
      /\ UNCHANGED <<refs, behind, queued, wire, sendLocked, recvBarred, posts, sendIo, recvIo,
                     peerUp, chunks, pc, pkt, unsent, disconnects>>
  BY DEF Close, flagVars, kernelVars, callVars
<1>2. sendIo = "none" /\ \A t \in Threads : ~HoldsOwn(t, pc[t])
  BY <1>1, HolderOpen
<1>3. \A t \in Threads : pc[t] \notin Locking
  BY <1>2 DEF HoldsOwn, Locking
<1>4. TypeInv'
  <2>1. <<>> \in Seq(Packets)
    BY EmptySeq
  <2> QED BY <1>1, <2>1 DEF TypeInv, TypeOK, PcInv
<1>5. RefInv'
  BY <1>1 DEF RefInv, Own, Extra, Pending
<1>6. SendInv' /\ RecvInv'
  BY <1>1, <1>2, <1>3 DEF SendInv, RecvInv, Locking, IsEmpty
<1>7. WireInOrder
  BY <1>1, OpenInOrder
<1> QED BY <1>1, <1>4, <1>5, <1>6, <1>7 DEF WireInv, WireInOrder

(* The packets of the send are transmitted, in their order. *)
LEMMA SendCompletesStep == ASSUME Running, SendCompletes PROVE Running'
<1> USE DEF Running
<1>1. /\ sendIo = "kernel" /\ sendIo' = "done" /\ wire' = wire \o inflight
      /\ UNCHANGED <<open, refs, sendQ, inflight, behind, queued, sendLocked, recvBarred, posts, recvIo,
                     peerUp, chunks, pc, pkt, unsent, disconnects>>
  BY DEF SendCompletes, sessionVars, queueVars, flagVars, callVars
<1>2. wire \in Seq(Packets) /\ inflight \in Seq(Packets) /\ sendQ \in Seq(Packets)
  BY DEF TypeInv, TypeOK
<1>3. TypeInv'
  <2>1. wire' \in Seq(Packets) /\ sendIo' \in IoStates \ {"data", "bad", "lost"}
    BY <1>1, <1>2, ConcatProperties DEF IoStates
  <2> QED BY <1>1, <2>1 DEF TypeInv, TypeOK, PcInv
<1>4. RefInv'
  BY <1>1 DEF RefInv, Own, Extra, Pending
<1>5. SendInv' /\ RecvInv'
  BY <1>1 DEF SendInv, RecvInv, IsEmpty
<1>6. WireInv'
  <2>1. open
    BY <1>1, HolderOpen
  <2>2. Untransmitted = inflight
    BY <1>1 DEF Untransmitted, Freeing, SendInv, Locking
  <2>3. queued = wire \o (inflight \o sendQ)
    BY <2>1, <2>2 DEF WireInv
  <2>4. (wire \o inflight) \o sendQ = wire \o (inflight \o sendQ)
    BY <1>2, ConcatAssociative
  <2>5. Untransmitted' = <<>>
    BY <1>1 DEF Untransmitted
  <2>6. Untransmitted' \o sendQ' = sendQ
    BY <1>1, <1>2, <2>5, ConcatEmptySeq
  <2> QED BY <1>1, <2>1, <2>3, <2>4, <2>6 DEF WireInv
<1> QED BY <1>3, <1>4, <1>5, <1>6

(* An operation fails, data arrives, the client leaves. *)
LEMMA OutsideSteps ==
  ASSUME Running, IoFails \/ RecvCompletes \/ PeerLeaves \/ UNCHANGED vars
  PROVE  Running'
<1> USE DEF Running
<1>1. /\ UNCHANGED <<open, refs, sendQ, inflight, behind, queued, wire, pc, sendLocked, recvBarred, posts,
                     pkt, unsent, disconnects>>
      /\ sendIo' = sendIo \/ (sendIo = "kernel" /\ sendIo' = "failed")
      /\ recvIo' = recvIo \/ (recvIo = "kernel" /\ recvIo' \in {"failed", "data", "bad"})
      /\ peerUp' = peerUp \/ peerUp' = FALSE
      /\ chunks' = chunks \/ (chunks' = chunks + 1 /\ chunks < MaxRecv)
  <2>1. CASE IoFails
    BY <2>1 DEF IoFails, sessionVars, queueVars, flagVars, callVars
  <2>2. CASE RecvCompletes
    BY <2>2 DEF RecvCompletes, sessionVars, queueVars, flagVars, callVars
  <2>3. CASE PeerLeaves
    BY <2>3 DEF PeerLeaves, sessionVars, queueVars, flagVars, callVars
  <2>4. CASE UNCHANGED vars
    BY <2>4 DEF vars, sessionVars, queueVars, flagVars, kernelVars, callVars
  <2> QED BY <2>1, <2>2, <2>3, <2>4
<1>2. /\ sendIo' \in IoStates \ {"data", "bad", "lost"} /\ recvIo' \in IoStates \ {"done"}
      /\ chunks' \in 0 .. MaxRecv
  BY <1>1, IoAssumption DEF TypeInv, TypeOK, IoStates
<1>3. peerUp' \in BOOLEAN
  BY <1>1 DEF TypeInv, TypeOK
<1>4. TypeInv'
  BY <1>1, <1>2, <1>3 DEF TypeInv, TypeOK, PcInv
<1> QED BY <1>1, <1>4, OnlyIo
-----------------------------------------------------------------------------
(* Initially the accept thread has the only reference and nothing is queued.  *)
LEMMA InitRunning == Init => Running
<1> SUFFICES ASSUME Init PROVE Running
  OBVIOUS
<1>1. /\ open = TRUE /\ refs = 1 /\ sendQ = <<>> /\ inflight = <<>> /\ queued = <<>> /\ wire = <<>>
      /\ behind = [c \in Callers |-> <<>>]
      /\ sendLocked = FALSE /\ recvBarred = FALSE /\ posts = 0 /\ sendIo = "none" /\ recvIo = "none"
      /\ peerUp = TRUE /\ chunks = 0 /\ unsent = Packets /\ disconnects = 0
      /\ pc = [t \in Threads |-> IF t = Acceptor THEN "recvPost" ELSE "idle"]
      /\ pkt = [c \in Callers |-> CHOOSE p \in Packets : TRUE]
  BY DEF Init
<1>2. TypeInv
  <2>1. <<>> \in Seq(Packets)
    BY EmptySeq
  <2>2. pkt \in [Callers -> Packets]
    BY <1>1, IoAssumption
  <2>3. pc \in [Threads -> Labels] /\ PcInv
    BY <1>1, Kinds DEF PcInv, Labels, CallerLabels, AcceptorLabels
  <2>4. chunks \in 0 .. MaxRecv /\ disconnects \in 0 .. MaxDisconnect
    BY <1>1, IoAssumption
  <2> QED BY <1>1, <2>1, <2>2, <2>3, <2>4 DEF TypeInv, TypeOK, IoStates
<1>3. RefInv
  <2>1. Own = {Acceptor} /\ Extra = {}
    BY <1>1, Kinds DEF Own, Extra, HoldsOwn, HoldsIo, HandingOver
  <2>2. IsFiniteSet(Own) /\ Cardinality(Own) = 1 /\ IsFiniteSet(Extra) /\ Cardinality(Extra) = 0
    BY <2>1, FS_Singleton, FS_EmptySet
  <2> QED BY <1>1, <2>2 DEF RefInv, Pending
<1>4. SendInv /\ RecvInv
  BY <1>1, Kinds DEF SendInv, RecvInv, Locking, IsEmpty
<1>5. WireInv
  <2>1. Untransmitted = <<>>
    BY <1>1 DEF Untransmitted
  <2>2. <<>> \o <<>> = <<>>
    BY EmptySeq, ConcatEmptySeq
  <2> QED BY <1>1, <2>1, <2>2 DEF WireInv
<1> QED BY <1>2, <1>3, <1>4, <1>5 DEF Running

(* The assertion that ends the process. *)
LEMMA CrashStep == ASSUME Running, NEW w \in Workers, Crash(w) PROVE Crashed'
<1> USE DEF Running
<1>1. /\ pc[w] = "prepare" /\ pc' = [t \in Threads |-> "crashed"]
      /\ open' = FALSE /\ sendIo' = "none" /\ recvIo' = "none"
      /\ UNCHANGED <<refs, sendQ, inflight, behind, queued, wire, sendLocked, recvBarred, posts,
                     peerUp, chunks, pkt, unsent, disconnects>>
  BY DEF Crash, queueVars, flagVars, callVars
<1>2. TypeOK'
  <2>1. pc' \in [Threads -> Labels]
    BY <1>1 DEF Labels
  <2> QED BY <1>1, <2>1 DEF TypeInv, TypeOK, IoStates
<1>3. open
  <2>1. w \in Threads /\ HoldsOwn(w, pc[w])
    BY <1>1, Kinds DEF HoldsOwn
  <2> QED BY <2>1, HolderOpen
<1>4. WireInOrder'
  BY <1>1, <1>3, OpenInOrder DEF WireInOrder
<1> QED BY <1>1, <1>2, <1>4 DEF Crashed

(* Afterwards only the client can still do anything. *)
LEMMA AfterCrash ==
  ASSUME Crashed, [Next]_vars \/ [HeteroNext]_vars PROVE Crashed'
<1>1. Acceptor \in Threads /\ Callers \subseteq Threads /\ Workers \subseteq Threads
  BY Kinds
<1>2. \A t \in Threads : pc[t] = "crashed"
  BY DEF Crashed
<1>3. ASSUME NEW t \in Threads, NEW l, NEW m, Step(t, l, m) PROVE l = "crashed"
  BY <1>2, <1>3 DEF Step
<1>4. ~open /\ sendIo = "none" /\ recvIo = "none"
  BY DEF Crashed
<1>5. ASSUME NEW c \in Callers, SendAcquire(c) \/ DisconnectAcquire(c, "idle") \/ FrameAcquire(c)
      PROVE  FALSE
  BY <1>4, <1>5 DEF SendAcquire, DisconnectAcquire, FrameAcquire
<1>6. ASSUME NEW t \in Threads, DisconnectStep(t) PROVE FALSE
  BY <1>3, <1>6 DEF DisconnectStep, DisconnectLockRecv, DisconnectLockSend, DisconnectCancelRecv,
                    DisconnectCancelSend
<1>7. ASSUME NEW c \in Callers, CallerStep(c) \/ HeteroCallerStep(c) PROVE FALSE
  BY <1>1, <1>3, <1>6, <1>7 DEF CallerStep, HeteroCallerStep, HeteroInsertPacket, InsertPacket,
                                SendNotify, FramePost, Release
<1>8. ASSUME NEW w \in Workers, Dispatch(w) PROVE FALSE
  BY <1>1, <1>3, <1>4, <1>8 DEF Dispatch, DispatchNotify, DispatchSend, DispatchRecv
<1>9. ASSUME NEW w \in Workers, SendStep(w) PROVE FALSE
  <2>1. pc[w] = "crashed"
    BY <1>1, <1>2
  <2> QED BY <1>1, <1>3, <1>9, <2>1
          DEF SendStep, TryLockSend, CheckEmpty, UnlockEmpty, PrepareSend, Crash, WsaSend,
              FreeSentPackets, UnlockSent, RecheckQueue
<1>10. ASSUME NEW t \in Threads, RecvStep(t) PROVE FALSE
  BY <1>3, <1>10 DEF RecvStep, RecvPost, CheckBarred
<1>11. ASSUME NEW w \in Workers, WorkerStep(w) \/ HeteroWorkerStep(w) PROVE FALSE
  BY <1>1, <1>3, <1>6, <1>8, <1>9, <1>10, <1>11
     DEF WorkerStep, HeteroWorkerStep, BadPacketReturn, BadPacketDisconnect, DisconnectRelease,
         DropIo, Release
<1>12. Environment => FALSE
  BY <1>4 DEF Environment, SendCompletes, IoFails, RecvCompletes, PeerLeaves
<1>13. UNCHANGED vars
  BY <1>1, <1>4, <1>5, <1>7, <1>10, <1>11, <1>12 DEF Next, HeteroNext, Close, Done
<1>14. UNCHANGED <<open, refs, sendQ, inflight, behind, queued, wire, pc, sendLocked, recvBarred,
                   posts, sendIo, recvIo, peerUp, chunks, pkt, unsent, disconnects>>
  BY <1>13 DEF vars, sessionVars, queueVars, flagVars, kernelVars, callVars
<1> QED BY <1>14 DEF Crashed, TypeOK, WireInOrder

(* The steps of a worker that both servers have. *)
LEMMA WorkerSteps ==
  ASSUME Running, NEW w \in Workers, Dispatch(w) \/ SendStep(w) \/ RecvStep(w)
  PROVE  IInv'
<1>1. CASE Dispatch(w)
  BY <1>1, DispatchNotifyStep, DispatchSendStep, DispatchRecvStep DEF Dispatch, IInv
<1>2. CASE SendStep(w)
  BY <1>2, LockSteps, PrepareStep, CrashStep, WsaSendStep, FreeSentStep, WorkerQuietSteps
     DEF SendStep, IInv
<1>3. CASE RecvStep(w)
  BY <1>3, RecvPostStep, CheckBarredStep DEF RecvStep, IInv
<1> QED BY <1>1, <1>2, <1>3

(* ... and what happens outside. *)
LEMMA OtherSteps ==
  ASSUME Running, RecvStep(Acceptor) \/ Close \/ Environment \/ Done \/ UNCHANGED vars
  PROVE  Running'
<1>1. CASE RecvStep(Acceptor)
  BY <1>1, RecvPostStep, CheckBarredStep DEF RecvStep
<1>2. CASE Close
  BY <1>2, CloseStep
<1>3. CASE Environment
  BY <1>3, SendCompletesStep, OutsideSteps DEF Environment
<1>4. CASE Done \/ UNCHANGED vars
  BY <1>4, OutsideSteps DEF Done
<1> QED BY <1>1, <1>2, <1>3, <1>4

(* IInv is inductive for ServerBase... *)
THEOREM Inductive == Spec => []IInv
<1>1. ASSUME IInv, [Next]_vars PROVE IInv'
  <2> SUFFICES ASSUME Running PROVE IInv'
    BY <1>1, AfterCrash DEF IInv
  <2>1. ASSUME NEW c \in Callers,
               SendAcquire(c) \/ DisconnectAcquire(c, "idle") \/ CallerStep(c)
        PROVE  Running'
    BY <2>1, CallStep, InsertStep, NotifyStep, DisconnectSteps, ReleaseStep DEF CallerStep
  <2>2. ASSUME NEW w \in Workers, WorkerStep(w) PROVE IInv'
    BY <2>2, WorkerSteps, BadPacketStep, WorkerQuietSteps, ReleaseStep DEF WorkerStep, IInv
  <2>3. CASE RecvStep(Acceptor) \/ Close \/ Environment \/ Done \/ UNCHANGED vars
    BY <2>3, OtherSteps DEF IInv
  <2> QED BY <1>1, <2>1, <2>2, <2>3 DEF Next, IInv
<1>2. Init => IInv
  BY InitRunning DEF IInv
<1> QED BY <1>1, <1>2, PTL DEF Spec

(* ... and for HeteroServerBase. *)
THEOREM HeteroInductive == HeteroSpec => []IInv
<1>1. ASSUME IInv, [HeteroNext]_vars PROVE IInv'
  <2> SUFFICES ASSUME Running PROVE IInv'
    BY <1>1, AfterCrash DEF IInv
  <2>1. ASSUME NEW c \in Callers,
               SendAcquire(c) \/ DisconnectAcquire(c, "idle") \/ FrameAcquire(c)
        PROVE  Running'
    BY <2>1, CallStep
  <2>2. ASSUME NEW c \in Callers, HeteroCallerStep(c) PROVE Running'
    BY <2>2, InsertStep, NotifyStep, DisconnectSteps, ReleaseStep
       DEF HeteroCallerStep, HeteroInsertPacket
  <2>3. ASSUME NEW w \in Workers, HeteroWorkerStep(w) PROVE IInv'
    BY <2>3, WorkerSteps, BadPacketStep, DisconnectSteps, WorkerQuietSteps, ReleaseStep
       DEF HeteroWorkerStep, IInv
  <2>4. CASE RecvStep(Acceptor) \/ Close \/ Environment \/ Done \/ UNCHANGED vars
    BY <2>4, OtherSteps DEF IInv
  <2> QED BY <1>1, <2>1, <2>2, <2>3, <2>4 DEF HeteroNext, IInv
<1>2. Init => IInv
  BY InitRunning DEF IInv
<1> QED BY <1>1, <1>2, PTL DEF HeteroSpec
-----------------------------------------------------------------------------
(* What IInv says of sends, of the stream and of the session's life. *)
LEMMA OneSendOnly == IInv => OneSendAtATime
<1>1. ASSUME Running PROVE OneSendAtATime
  <2>1. \A t \in Workers : Sending(t) => pc[t] \in Locking /\ HoldsOwn(t, pc[t]) /\ t \in Threads
    BY Kinds DEF Sending, Locking, HoldsOwn
  <2>2. \A t \in Workers : Sending(t) => refs > 0
    BY <1>1, <2>1, HolderOpen DEF Running
  <2> QED BY <1>1, <2>1, <2>2 DEF Running, SendInv, OneSendAtATime, Sending, IsEmpty
<1>2. ASSUME Crashed PROVE OneSendAtATime
  BY <1>2, Kinds DEF Crashed, OneSendAtATime, Sending
<1> QED BY <1>1, <1>2 DEF IInv

(* The stream's parts put together are what was queued.                       *)
LEMMA InOrder == IInv => WireInOrder
BY OpenInOrder DEF IInv, Running, Crashed, WireInv

(* Who uses the session holds a reference, and references keep it open.       *)
LEMMA Outlives == IInv => SessionOutlivesUse
<1>1. ASSUME Running PROVE SessionOutlivesUse
  BY <1>1, HolderOpen DEF Running, SessionOutlivesUse, HoldsOwn
<1>2. ASSUME Crashed PROVE SessionOutlivesUse
  BY <1>2 DEF Crashed, SessionOutlivesUse
<1> QED BY <1>1, <1>2 DEF IInv

(* Every variable has its type, in either server.                             *)
THEOREM Types == (Spec => []TypeOK) /\ (HeteroSpec => []TypeOK)
<1>1. IInv => TypeOK
  BY DEF IInv, Running, Crashed, TypeInv
<1> QED BY <1>1, Inductive, HeteroInductive, PTL

(* send_post rules out overlapping sends, whatever notifications, completions   *)
(* and Disconnects race for the send lock, and prepares only for a referenced *)
(* session; PrepareSend finds no packet only if one is linked behind a Push.  *)
THEOREM OneSend == (Spec => []OneSendAtATime) /\ (HeteroSpec => []OneSendAtATime)
BY OneSendOnly, Inductive, HeteroInductive, PTL

(* The client receives the packets in the order they came into the queue,      *)
(* however many workers take turns sending.                                   *)
THEOREM WireOrder == (Spec => []WireInOrder) /\ (HeteroSpec => []WireInOrder)
BY InOrder, Inductive, HeteroInductive, PTL

(* No session is closed under a thread in a call or an operation in the kernel, *)
(* whoever hands references to whom.                                         *)
THEOREM OpenWhileUsed == (Spec => []SessionOutlivesUse) /\ (HeteroSpec => []SessionOutlivesUse)
BY Outlives, Inductive, HeteroInductive, PTL
=============================================================================

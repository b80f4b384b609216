------------------------------ MODULE RecvBuffer ------------------------------
(***************************************************************************)
(* A session's RecvBuffer on its RingBuffer, driven by recv_post and          *)
(* handle_recv_completion: the kernel scatters a stream of bytes into the   *)
(* free part of the ring, the worker cuts packets out of it.  One thread at  *)
(* a time works on it, the one that handles the session's receive.          *)
(*                                                                         *)
(* A byte is its number in what the clients of this slot ever sent, so that  *)
(* any byte lost, doubled or left over from an earlier session shows.  With  *)
(* HeaderSize 5 this is the net format, with 2 and no Faults the LAN one.    *)
(* Nothing checks header.size: a packet may be longer than the RawPacket it   *)
(* is copied to, and longer than the ring.  It is as long as its header says, *)
(* and takes in what the client sends next.                                  *)
(***************************************************************************)
EXTENDS Integers, Sequences

CONSTANTS
  BufferSize,    (* RingBuffer::_bufferSize                                 *)
  HeaderSize,    (* sizeof(NetPacketHeader) or sizeof(LanPacketHeader)      *)
  PacketSize,    (* RawPacket::BUFFER_DEFAULT_SIZE                          *)
  Sizes,         (* values of header.size                                   *)
  Faults,        (* what may be wrong with a packet: "code", "checksum"     *)
  MaxPackets,    (* bound: packets sent                                     *)
  MaxSessions    (* bound: sessions on the slot                             *)

ASSUME BufferAssumption ==
  /\ BufferSize \in Nat /\ HeaderSize \in 1 .. BufferSize
  /\ PacketSize \in Nat /\ Sizes \subseteq Nat
  /\ Faults \subseteq {"code", "checksum"}
  /\ MaxPackets \in Nat /\ MaxSessions \in Nat \ {0}

AllocSize == BufferSize + 1
NoFault == "none"

VARIABLES
  buf, front, rear,   \* RingBuffer: _buffer, _front, _rear
  wsabufs,            \* the buffers of the receive in the kernel
  stage,              \* the handler: post, kernel, extract; failed, closed, overrun
  sent, bytes,        \* packets of this session's client; bytes sent on the slot
  arrived, taken,     \* bytes the kernel delivered, bytes dequeued
  extracted,          \* packets handed to OnRecv, header included
  sessions

ringVars == <<buf, front, rear>>
bufferVars == <<ringVars, wsabufs, stage, sent, bytes, arrived, taken, extracted, sessions>>

BufferInit ==
  /\ buf = [a \in 0 .. BufferSize |-> 0] /\ front = 0 /\ rear = 0
  /\ wsabufs = <<>> /\ stage = "post"
  /\ sent = <<>> /\ bytes = 0 /\ arrived = 0 /\ taken = 0 /\ extracted = <<>> /\ sessions = 1
-----------------------------------------------------------------------------
GetUseSize == IF rear >= front THEN rear - front ELSE BufferSize + rear - front + 1
GetFreeSize == IF rear >= front THEN BufferSize - rear + front ELSE front - rear - 1

DirectEnqueueSize_AnyFront ==   \* mutant: the cell that stays free is forgotten
  IF rear >= front THEN BufferSize - rear + 1 ELSE front - rear - 1

(* The free cells from rear to the end of the array; all but the last one     *)
(* when front is at its start.                                               *)
DirectEnqueueSize ==
  CASE rear >= front /\ front = 0 -> BufferSize - rear
    [] rear >= front /\ front # 0 -> BufferSize - rear + 1
    [] rear < front -> front - rear - 1

Read_Short(span) ==   \* mutant: the first chunk ends a cell early
  LET chunk == IF front + span > BufferSize THEN BufferSize - front ELSE span
  IN  [i \in 1 .. span |-> IF i <= chunk THEN buf[front + i - 1] ELSE buf[i - 1 - chunk]]

(* What Peek and Dequeue copy out: up to the end of the array, then from its  *)
(* start.                                                                    *)
Read(span) ==
  LET chunk == IF front + span > BufferSize THEN AllocSize - front ELSE span
  IN  [i \in 1 .. span |-> IF i <= chunk THEN buf[front + i - 1] ELSE buf[i - 1 - chunk]]

Moved(index, span) == (index + span) % AllocSize
-----------------------------------------------------------------------------
(* The packet whose header these bytes are.                                  *)
Bytes(from, to) == [i \in 1 .. to - from + 1 |-> from + i - 1]
HeaderOf(pkt) == Bytes(pkt.at, pkt.at + HeaderSize - 1)
WholeOf(pkt) == Bytes(pkt.at, pkt.at + HeaderSize + pkt.size - 1)
Garbage == [at |-> 0, size |-> 0, fault |-> NoFault]
Parse(header) ==
  IF \E k \in DOMAIN sent : HeaderOf(sent[k]) = header
  THEN sent[CHOOSE k \in DOMAIN sent : HeaderOf(sent[k]) = header]
  ELSE Garbage

CanExtract_More ==   \* mutant: a complete packet waits for one more byte
  /\ GetUseSize >= HeaderSize
  /\ GetUseSize > Parse(Read(HeaderSize)).size + HeaderSize

(* CanExtractNetPacket, CanExtractLanPacket: a whole header, then all of it.  *)
CanExtract ==
  /\ GetUseSize >= HeaderSize
  /\ GetUseSize >= Parse(Read(HeaderSize)).size + HeaderSize
-----------------------------------------------------------------------------
(* The client sends a packet.                                                *)
Send(load, fault) ==
  /\ Len(sent) < MaxPackets
  /\ sent' = Append(sent, [at |-> bytes + 1, size |-> load, fault |-> fault])
  /\ bytes' = bytes + HeaderSize + load
  /\ UNCHANGED <<ringVars, wsabufs, stage, arrived, taken, extracted, sessions>>

(* recv_post: PrepareRecv describes the free part in one piece or in two.    *)
RecvPost ==
  /\ stage = "post" /\ stage' = "kernel"
  /\ wsabufs' = <<[at |-> rear, len |-> DirectEnqueueSize]>> \o
                (IF GetFreeSize = DirectEnqueueSize THEN <<>>
                 ELSE <<[at |-> 0, len |-> GetFreeSize - DirectEnqueueSize]>>)
  /\ UNCHANGED <<ringVars, sent, bytes, arrived, taken, extracted, sessions>>

Room == IF Len(wsabufs) = 1 THEN wsabufs[1].len ELSE wsabufs[1].len + wsabufs[2].len
Target(i) ==
  IF i <= wsabufs[1].len THEN wsabufs[1].at + i - 1 ELSE wsabufs[2].at + i - wsabufs[1].len - 1

(* The receive completes with n bytes: MoveRear.                             *)
RecvCompletes(n) ==
  /\ stage = "kernel" /\ stage' = "extract"
  /\ n <= Room /\ arrived + n <= bytes
  /\ buf' = [a \in 0 .. BufferSize |->
               IF \E i \in 1 .. n : Target(i) = a
               THEN arrived + CHOOSE i \in 1 .. n : Target(i) = a ELSE buf[a]]
  /\ rear' = Moved(rear, n)
  /\ arrived' = arrived + n /\ wsabufs' = <<>>
  /\ UNCHANGED <<front, sent, bytes, taken, extracted, sessions>>

(* A receive that was posted without room completes with no bytes when there  *)
(* are some to read; the worker takes that for the end of the connection.    *)
RecvEmpty ==
  /\ stage = "kernel" /\ stage' = "closed"
  /\ Room = 0 /\ arrived < bytes
  /\ wsabufs' = <<>>
  /\ UNCHANGED <<ringVars, sent, bytes, arrived, taken, extracted, sessions>>

(* The loop of handle_recv_completion.  A wrong code is noticed before the    *)
(* packet is dequeued, a wrong checksum after; either ends the handler.  A    *)
(* packet too long for its RawPacket is copied past the end of it: nothing    *)
(* is said of what follows.                                                  *)
Extract ==
  LET pkt == Parse(Read(HeaderSize))
      span == HeaderSize + pkt.size
  IN
  /\ stage = "extract"
  /\ CASE ~CanExtract -> stage' = "post" /\ UNCHANGED <<front, taken, extracted>>
       [] CanExtract /\ pkt.fault = "code" ->
            stage' = "failed" /\ UNCHANGED <<front, taken, extracted>>
       [] CanExtract /\ pkt.fault # "code" /\ pkt.size > PacketSize ->
            stage' = "overrun" /\ UNCHANGED <<front, taken, extracted>>
       [] CanExtract /\ pkt.fault # "code" /\ pkt.size <= PacketSize ->
            /\ front' = Moved(front, span) /\ taken' = taken + span
            /\ IF pkt.fault = "checksum"
               THEN stage' = "failed" /\ UNCHANGED extracted
               ELSE stage' = stage /\ extracted' = Append(extracted, Read(span))
  /\ UNCHANGED <<buf, rear, wsabufs, sent, bytes, arrived, sessions>>

Recycle_NoClear ==   \* mutant: release() does not clear the buffer
  /\ stage \in {"kernel", "failed", "closed"} /\ sessions < MaxSessions
  /\ sessions' = sessions + 1 /\ stage' = "post" /\ wsabufs' = <<>>
  /\ sent' = <<>> /\ extracted' = <<>> /\ arrived' = bytes /\ taken' = bytes
  /\ UNCHANGED <<ringVars, bytes>>

(* The client is gone or disconnected: release() clears the indices, and the   *)
(* slot's next session has the ring with the old bytes in it.                 *)
Recycle ==
  /\ stage \in {"kernel", "failed", "closed"} /\ sessions < MaxSessions
  /\ sessions' = sessions + 1 /\ stage' = "post" /\ wsabufs' = <<>>
  /\ front' = 0 /\ rear' = 0
  /\ sent' = <<>> /\ extracted' = <<>> /\ arrived' = bytes /\ taken' = bytes
  /\ UNCHANGED <<buf, bytes>>

BufferNext ==
  \/ \E s \in Sizes, f \in Faults \cup {NoFault} : Send(s, f)
  \/ RecvPost
  \/ \E n \in 1 .. BufferSize : RecvCompletes(n)
  \/ RecvEmpty
  \/ Extract
  \/ Recycle

(* The handler runs, and what the client sent arrives.                       *)
BufferFairness ==
  /\ WF_bufferVars(RecvPost) /\ WF_bufferVars(Extract)
  /\ WF_bufferVars(RecvEmpty \/ \E n \in 1 .. BufferSize : RecvCompletes(n))

BufferSpec == BufferInit /\ [][BufferNext]_bufferVars
BufferFairSpec == BufferSpec /\ BufferFairness
-----------------------------------------------------------------------------
Packet == [at : Nat, size : Nat, fault : Faults \cup {NoFault}]

(* Every variable has its type; the indices stay in the array.               *)
BufferTypeOK ==
  /\ buf \in [0 .. BufferSize -> Nat] /\ {front, rear} \subseteq 0 .. BufferSize
  /\ wsabufs \in Seq([at : 0 .. BufferSize, len : Int])
  /\ stage \in {"post", "kernel", "extract", "failed", "closed", "overrun"} /\ sent \in Seq(Packet)
  /\ {bytes, arrived, taken} \subseteq Nat /\ sessions \in 1 .. MaxSessions

(* The ring is a queue of bytes: it holds what arrived and was not dequeued,   *)
(* in order, wherever the indices stand and whatever lies in the other cells. *)
RingHoldsStream ==
  GetUseSize = arrived - taken /\ Read(GetUseSize) = Bytes(taken + 1, arrived)

(* A receive in the kernel writes into free cells only, and has all of them:  *)
(* in the array, no two the same, none between front and rear, no length       *)
(* negative (len is unsigned).  There is none, and the connection ends for    *)
(* it, only when the packet in turn says it is longer than the ring           *)
(* (RecvBuffer.cpp 6-22; nothing checks header.size).                         *)
Used == {Moved(front, i) : i \in 0 .. GetUseSize - 1}
TooLong ==
  LET m == Len(extracted) + 1 IN m \in DOMAIN sent /\ HeaderSize + sent[m].size > BufferSize
RecvIntoFreeCells ==
  /\ stage = "kernel" =>
       /\ \A i \in DOMAIN wsabufs : wsabufs[i].len >= 0
       /\ Room = BufferSize - (arrived - taken)
       /\ \A i \in 1 .. Room :
            /\ Target(i) \in (0 .. BufferSize) \ Used
            /\ \A j \in 1 .. Room : Target(i) = Target(j) => i = j
  /\ stage = "closed" \/ (stage = "kernel" /\ Room = 0) => TooLong

(* OnRecv gets the packets that were sent, whole, in order, from the first    *)
(* one on, however the stream was cut into receives (RecvBuffer.cpp 84-115).  *)
ExtractedInOrder ==
  /\ Len(extracted) <= Len(sent)
  /\ \A k \in DOMAIN extracted :
       sent[k].fault = NoFault /\ sent[k].size <= PacketSize /\ extracted[k] = WholeOf(sent[k])

(* A packet that was sent is extracted, unless the connection ends over it or  *)
(* over a packet before it: a fault, a length no ring or no RawPacket holds    *)
(* (ServerBase.cpp 328-382).                                                 *)
Sound(k) ==
  sent[k].fault = NoFault /\ sent[k].size <= PacketSize /\ HeaderSize + sent[k].size <= BufferSize
PacketsAreExtracted ==
  \A k \in 1 .. MaxPackets :
    Len(sent) >= k ~>
      \/ Len(extracted) >= k
      \/ Len(sent) < k
      \/ stage \in {"failed", "closed", "overrun"} /\ \E j \in 1 .. k : ~Sound(j)
=============================================================================

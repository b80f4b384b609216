------------------------------ MODULE ServerIo ------------------------------
(***************************************************************************)
(* How ServerBase.cpp drives one open session: API callers queue packets    *)
(* and disconnect, IOCP workers post sends and receives and handle their    *)
(* completions, the kernel completes them in any order.                     *)
(*                                                                         *)
(* Acquire, Release and the closing of the session are single steps here,   *)
(* as in SessionLife: SessionManager shows that they look so to callers.    *)
(* SendBuffer's lock-free queue is a sequence, and behind every unfinished    *)
(* Push what other pushers linked to its node.  LockFreeQueue shows when that *)
(* happens (its displaced); here it may whenever two Pushes overlap.         *)
(***************************************************************************)
EXTENDS Integers, Sequences, FiniteSets

CONSTANTS
  Callers,         (* threads of the application calling the API            *)
  Workers,         (* IOCP worker threads                                   *)
  Acceptor,        (* the accept thread, which posts the first recv         *)
  Packets,         (* packets the application may send, each once           *)
  MaxBatch,        (* buffers in one WSASend (wsabufs[256])                 *)
  MaxRecv,         (* bound: chunks of data the client sends                *)
  MaxDisconnect,   (* bound: calls of Disconnect                            *)
  Malformed        (* may the client send a packet that cannot be extracted?*)

ASSUME IoAssumption ==
  /\ MaxBatch \in Nat \ {0} /\ MaxRecv \in Nat /\ MaxDisconnect \in Nat
  /\ Malformed \in BOOLEAN /\ Packets # {}
  /\ Acceptor \notin Workers \cup Callers /\ Workers \cap Callers = {}

Threads == Callers \cup Workers \cup {Acceptor}

VARIABLES
  open, refs,              \* the session and its reference count
  sendQ, inflight,         \* SendBuffer::_packetQueue, _sentPackets
  behind,                  \* packets counted in the queue, linked behind a Push
  sendLocked, recvBarred,  \* _isSendRestricted, _isRecvRestricted
  posts,                   \* notifications (0xFFFFFFFF) in the IOCP queue
  sendIo, recvIo,          \* the session's two overlapped operations
  peerUp, chunks,          \* the client: connected? chunks sent so far
  pc, pkt,                 \* threads: what next, the packet of a SendPacket
  unsent, disconnects,     \* calls still to come, and Disconnects begun
  queued, wire             \* packets queued so far, and those transmitted

callVars == <<unsent, disconnects>>
queueVars == <<sendQ, inflight, behind, queued>>
flagVars == <<sendLocked, recvBarred>>
kernelVars == <<sendIo, recvIo, peerUp, chunks, wire>>
sessionVars == <<open, refs>>
vars == <<sessionVars, queueVars, flagVars, posts, kernelVars, pc, pkt, callVars>>

(* The accept thread has created the session and called OnAccept: it owns    *)
(* the first reference, for the first recv.                                  *)
Init ==
  /\ open = TRUE /\ refs = 1
  /\ sendQ = <<>> /\ inflight = <<>> /\ queued = <<>> /\ wire = <<>>
  /\ behind = [c \in Callers |-> <<>>]
  /\ sendLocked = FALSE /\ recvBarred = FALSE
  /\ posts = 0 /\ sendIo = "none" /\ recvIo = "none"
  /\ peerUp = TRUE /\ chunks = 0
  /\ pc = [t \in Threads |-> IF t = Acceptor THEN "recvPost" ELSE "idle"]
  /\ pkt = [c \in Callers |-> CHOOSE p \in Packets : TRUE] /\ unsent = Packets /\ disconnects = 0

Step(t, from, to) == pc[t] = from /\ pc' = [pc EXCEPT ![t] = to]

(* The rest of a call: a worker's or caller's Release; the accept thread     *)
(* holds no reference of its own.                                            *)
Leave(t) == IF t = Acceptor THEN "idle" ELSE "release"
-----------------------------------------------------------------------------
(* SendPacket: Acquire, insert, notify a worker, Release.  The packets differ  *)
(* in nothing: any one that was not sent yet will do.                        *)
SendAcquire(c) ==
  LET p == CHOOSE u \in unsent : TRUE IN
  /\ open /\ unsent # {}
  /\ Step(c, "idle", "insert")
  /\ refs' = refs + 1 /\ unsent' = unsent \ {p} /\ pkt' = [pkt EXCEPT ![c] = p]
  /\ UNCHANGED <<open, queueVars, flagVars, posts, kernelVars, disconnects>>

(* The Push of the packet, with what hangs on its node: at the end of the      *)
(* queue, or behind the node of another unfinished Push.                      *)
InsertPacket(c, next) ==
  LET linked == <<pkt[c]>> \o behind[c] IN
  /\ Step(c, "insert", next)
  /\ \/ /\ sendQ' = sendQ \o linked /\ queued' = queued \o linked
        /\ behind' = [behind EXCEPT ![c] = <<>>]
     \/ \E d \in Callers \ {c} :
          /\ pc[d] = "insert"
          /\ behind' = [behind EXCEPT ![c] = <<>>, ![d] = @ \o linked]
          /\ UNCHANGED <<sendQ, queued>>
  /\ UNCHANGED <<sessionVars, inflight, flagVars, posts, kernelVars, pkt, callVars>>

SendNotify(c) ==
  /\ Step(c, "notify", "release")
  /\ posts' = posts + 1
  /\ UNCHANGED <<sessionVars, queueVars, flagVars, kernelVars, pkt, callVars>>

Release(t) ==
  /\ Step(t, "release", "idle")
  /\ refs' = refs - 1
  /\ UNCHANGED <<open, queueVars, flagVars, posts, kernelVars, pkt, callVars>>
-----------------------------------------------------------------------------
(* Disconnect bars both directions, then cancels what is in the kernel.      *)
DisconnectAcquire(t, from) ==
  /\ open /\ disconnects < MaxDisconnect
  /\ Step(t, from, "lockRecv")
  /\ refs' = refs + 1 /\ disconnects' = disconnects + 1
  /\ UNCHANGED <<open, queueVars, flagVars, posts, kernelVars, pkt, unsent>>

DisconnectLockRecv(t) ==
  /\ Step(t, "lockRecv", "lockSend")
  /\ recvBarred' = TRUE
  /\ UNCHANGED <<sessionVars, queueVars, sendLocked, posts, kernelVars, pkt, callVars>>

DisconnectLockSend(t) ==
  /\ Step(t, "lockSend", "cancelRecv")
  /\ sendLocked' = TRUE
  /\ UNCHANGED <<sessionVars, queueVars, recvBarred, posts, kernelVars, pkt, callVars>>

(* CancelIoEx fails an operation that is in the kernel, and only that.       *)
Cancel(io) == IF io = "kernel" THEN "failed" ELSE io

DisconnectCancelRecv(t) ==
  /\ Step(t, "cancelRecv", "cancelSend")
  /\ recvIo' = Cancel(recvIo)
  /\ UNCHANGED <<sessionVars, queueVars, flagVars, posts, sendIo, peerUp, chunks, wire, pkt, callVars>>

DisconnectCancelSend(t) ==
  /\ Step(t, "cancelSend", IF t \in Workers THEN "discRelease" ELSE "release")
  /\ sendIo' = Cancel(sendIo)
  /\ UNCHANGED <<sessionVars, queueVars, flagVars, posts, recvIo, peerUp, chunks, wire, pkt, callVars>>
-----------------------------------------------------------------------------
(* func_worker_thread dequeues something for the session and Acquires it; a  *)
(* notification for a closed session is dropped.                             *)
DispatchNotify(w) ==
  /\ posts > 0 /\ posts' = posts - 1
  /\ IF open THEN Step(w, "idle", "trySend") /\ refs' = refs + 1
             ELSE Step(w, "idle", "idle") /\ UNCHANGED refs
  /\ UNCHANGED <<open, queueVars, flagVars, kernelVars, pkt, callVars>>

DispatchSend(w) ==
  /\ open /\ sendIo \in {"done", "failed"}
  /\ Step(w, "idle", IF sendIo = "done" THEN "freeSent" ELSE "dropIo")
  /\ sendIo' = "none" /\ refs' = refs + 1
  /\ UNCHANGED <<open, queueVars, flagVars, posts, recvIo, peerUp, chunks, wire, pkt, callVars>>

DispatchRecv(w) ==
  /\ open /\ recvIo \in {"data", "bad", "failed"}
  /\ Step(w, "idle", CASE recvIo = "data" -> "recvPost"
                       [] recvIo = "bad" -> "badPacket"
                       [] recvIo = "failed" -> "dropIo")
  /\ recvIo' = "none" /\ refs' = refs + 1
  /\ UNCHANGED <<open, queueVars, flagVars, posts, sendIo, peerUp, chunks, wire, pkt, callVars>>

(* A failed or zero-length completion: the I/O's reference is dropped.       *)
DropIo(w) ==
  /\ Step(w, "dropIo", "release")
  /\ refs' = refs - 1
  /\ UNCHANGED <<open, queueVars, flagVars, posts, kernelVars, pkt, callVars>>
-----------------------------------------------------------------------------
TryLockSend_Store(w) ==   \* mutant: what the exchange returned is not looked at
  /\ Step(w, "trySend", "checkEmpty")
  /\ sendLocked' = TRUE
  /\ UNCHANGED <<sessionVars, queueVars, recvBarred, posts, kernelVars, pkt, callVars>>

(* send_post: the exchange on _isSendRestricted lets one thread through...   *)
TryLockSend(w) ==
  /\ Step(w, "trySend", IF sendLocked THEN "release" ELSE "checkEmpty")
  /\ sendLocked' = TRUE
  /\ UNCHANGED <<sessionVars, queueVars, recvBarred, posts, kernelVars, pkt, callVars>>

(* SendBuffer::IsEmpty: Size() counts the packets behind a Push too.          *)
IsEmpty == sendQ = <<>> /\ \A c \in Callers : behind[c] = <<>>

CheckEmpty(w) ==
  /\ Step(w, "checkEmpty", IF IsEmpty THEN "unlockEmpty" ELSE "prepare")
  /\ UNCHANGED <<sessionVars, queueVars, flagVars, posts, kernelVars, pkt, callVars>>

UnlockEmpty(w) ==
  /\ Step(w, "unlockEmpty", "release")
  /\ sendLocked' = FALSE
  /\ UNCHANGED <<sessionVars, queueVars, recvBarred, posts, kernelVars, pkt, callVars>>

PrepareSend_NoInc(w) ==   \* mutant: the send has no reference of its own
  LET n == IF Len(sendQ) < MaxBatch THEN Len(sendQ) ELSE MaxBatch IN
  /\ sendQ # <<>> /\ Step(w, "prepare", "wsaSend")
  /\ inflight' = inflight \o SubSeq(sendQ, 1, n)
  /\ sendQ' = SubSeq(sendQ, n + 1, Len(sendQ))
  /\ UNCHANGED <<open, refs, behind, queued, flagVars, posts, kernelVars, pkt, callVars>>

(* ... which references the session for the send and moves up to MaxBatch    *)
(* packets from the queue to _sentPackets, until Pop fails.                   *)
PrepareSend(w) ==
  LET n == IF Len(sendQ) < MaxBatch THEN Len(sendQ) ELSE MaxBatch IN
  /\ sendQ # <<>> /\ Step(w, "prepare", "wsaSend")
  /\ refs' = refs + 1
  /\ inflight' = inflight \o SubSeq(sendQ, 1, n)
  /\ sendQ' = SubSeq(sendQ, n + 1, Len(sendQ))
  /\ UNCHANGED <<open, behind, queued, flagVars, posts, kernelVars, pkt, callVars>>

(* Pop may fail at once though Size() > 0: CRASH_ASSERT(sendCnt != 0) ends the *)
(* process, and with it every thread and the connection.                      *)
Crash(w) ==
  /\ pc[w] = "prepare" /\ sendQ = <<>>
  /\ pc' = [t \in Threads |-> "crashed"]
  /\ open' = FALSE /\ sendIo' = "none" /\ recvIo' = "none"
  /\ UNCHANGED <<refs, queueVars, flagVars, posts, peerUp, chunks, wire, pkt, callVars>>

(* WSASend fails only on a lost connection; then the send stays locked.      *)
WsaSend(w) ==
  /\ Step(w, "wsaSend", "release")
  /\ \/ sendIo' = "kernel" /\ UNCHANGED refs
     \/ ~peerUp /\ refs' = refs - 1 /\ UNCHANGED sendIo
  /\ UNCHANGED <<open, queueVars, flagVars, posts, recvIo, peerUp, chunks, wire, pkt, callVars>>

FreeSentPackets_NoReset(w) ==   \* mutant: _sentSize is not reset
  /\ Step(w, "freeSent", "unlockSent")
  /\ refs' = refs - 1
  /\ UNCHANGED <<open, queueVars, flagVars, posts, kernelVars, pkt, callVars>>

FreeSentPackets(w) ==
  /\ Step(w, "freeSent", "unlockSent")
  /\ inflight' = <<>> /\ refs' = refs - 1
  /\ UNCHANGED <<open, sendQ, behind, queued, flagVars, posts, kernelVars, pkt, callVars>>


UnlockSent(w) ==
  /\ Step(w, "unlockSent", "recheck")
  /\ sendLocked' = FALSE
  /\ UNCHANGED <<sessionVars, queueVars, recvBarred, posts, kernelVars, pkt, callVars>>

RecheckQueue(w) ==
  /\ Step(w, "recheck", IF IsEmpty THEN "release" ELSE "trySend")
  /\ UNCHANGED <<sessionVars, queueVars, flagVars, posts, kernelVars, pkt, callVars>>
-----------------------------------------------------------------------------
(* recv_post, by the accept thread once and by a worker after each chunk.    *)
RecvPost(t) ==
  /\ \/ Step(t, "recvPost", "checkBarred") /\ recvIo' = "kernel" /\ UNCHANGED refs
     \/ ~peerUp /\ Step(t, "recvPost", Leave(t)) /\ refs' = refs - 1 /\ UNCHANGED recvIo
  /\ UNCHANGED <<open, queueVars, flagVars, posts, sendIo, peerUp, chunks, wire, pkt, callVars>>

CheckBarred_NoCheck(t) ==   \* mutant: a receive posted during Disconnect stays
  /\ Step(t, "checkBarred", Leave(t))
  /\ UNCHANGED <<sessionVars, queueVars, flagVars, posts, kernelVars, pkt, callVars>>

CheckBarred(t) ==
  /\ Step(t, "checkBarred", Leave(t))
  /\ recvIo' = IF recvBarred THEN Cancel(recvIo) ELSE recvIo
  /\ UNCHANGED <<sessionVars, queueVars, flagVars, posts, sendIo, peerUp, chunks, wire, pkt, callVars>>

(* A packet that cannot be extracted: handle_recv_completion returns; the     *)
(* receive is not posted again and its reference never given back ("lost").  *)
BadPacketReturn(w) ==
  /\ Step(w, "badPacket", "release")
  /\ recvIo' = "lost"
  /\ UNCHANGED <<sessionVars, queueVars, flagVars, posts, sendIo, peerUp, chunks, wire, pkt, callVars>>
-----------------------------------------------------------------------------
(* The last Release or DecUsage closes the session and empties its buffers.  *)
Close ==
  /\ open /\ refs = 0
  /\ open' = FALSE /\ sendQ' = <<>> /\ inflight' = <<>>
  /\ UNCHANGED <<refs, behind, queued, flagVars, posts, kernelVars, pc, pkt, callVars>>

(* The kernel and the client.                                                *)
SendCompletes ==
  /\ sendIo = "kernel" /\ peerUp
  /\ sendIo' = "done" /\ wire' = wire \o inflight
  /\ UNCHANGED <<sessionVars, queueVars, flagVars, posts, recvIo, peerUp, chunks, pc, pkt, callVars>>

IoFails ==
  /\ ~peerUp
  /\ \/ sendIo = "kernel" /\ sendIo' = "failed" /\ UNCHANGED recvIo
     \/ recvIo = "kernel" /\ recvIo' = "failed" /\ UNCHANGED sendIo
  /\ UNCHANGED <<sessionVars, queueVars, flagVars, posts, peerUp, chunks, wire, pc, pkt, callVars>>

RecvCompletes ==
  /\ recvIo = "kernel" /\ peerUp /\ chunks < MaxRecv
  /\ chunks' = chunks + 1
  /\ \E io \in {"data"} \cup (IF Malformed THEN {"bad"} ELSE {}) : recvIo' = io
  /\ UNCHANGED <<sessionVars, queueVars, flagVars, posts, sendIo, peerUp, wire, pc, pkt, callVars>>

PeerLeaves ==
  /\ open /\ peerUp /\ peerUp' = FALSE
  /\ UNCHANGED <<sessionVars, queueVars, flagVars, posts, sendIo, recvIo, chunks, wire, pc, pkt, callVars>>

Quiet == ~open /\ posts = 0 /\ \A t \in Threads : pc[t] = "idle"
Done == Quiet /\ UNCHANGED vars
-----------------------------------------------------------------------------
DisconnectStep(t) ==
  \/ DisconnectLockRecv(t)
  \/ DisconnectLockSend(t)
  \/ DisconnectCancelRecv(t)
  \/ DisconnectCancelSend(t)

(* Steps inside a call, each by a thread that is scheduled.                  *)
CallerStep(c) ==
  \/ InsertPacket(c, "notify")
  \/ SendNotify(c)
  \/ DisconnectStep(c)
  \/ Release(c)

Dispatch(w) == DispatchNotify(w) \/ DispatchSend(w) \/ DispatchRecv(w)

SendStep(w) ==
  \/ TryLockSend(w)
  \/ CheckEmpty(w)
  \/ UnlockEmpty(w)
  \/ PrepareSend(w)
  \/ Crash(w)
  \/ WsaSend(w)
  \/ FreeSentPackets(w)
  \/ UnlockSent(w)
  \/ RecheckQueue(w)

RecvStep(t) == RecvPost(t) \/ CheckBarred(t)

WorkerStep(w) ==
  \/ Dispatch(w)
  \/ SendStep(w)
  \/ RecvStep(w)
  \/ BadPacketReturn(w)
  \/ DropIo(w)
  \/ Release(w)

Environment == SendCompletes \/ IoFails \/ RecvCompletes \/ PeerLeaves

Next ==
  \/ \E c \in Callers :
        \/ SendAcquire(c)
        \/ DisconnectAcquire(c, "idle")
        \/ CallerStep(c)
  \/ \E w \in Workers : WorkerStep(w)
  \/ RecvStep(Acceptor)
  \/ Close
  \/ Environment
  \/ Done

(* The IOCP queue is first in, first out: what is in it gets a worker.        *)
QueueFairness ==
  /\ SF_vars(\E w \in Workers : DispatchNotify(w))
  /\ SF_vars(\E w \in Workers : DispatchSend(w))
  /\ SF_vars(\E w \in Workers : DispatchRecv(w))

(* Threads are scheduled and the last reference closes the session.          *)
ThreadFairness ==
  /\ QueueFairness
  /\ \A c \in Callers : WF_vars(CallerStep(c))
  /\ \A w \in Workers : WF_vars(WorkerStep(w))
  /\ WF_vars(RecvStep(Acceptor)) /\ WF_vars(Close)

(* TCP delivers, or reports the connection lost; a client whose receive       *)
(* window stays shut does neither.                                           *)
KernelFairness == WF_vars(SendCompletes) /\ WF_vars(IoFails)

Spec == Init /\ [][Next]_vars
FairSpec == Spec /\ ThreadFairness /\ KernelFairness
-----------------------------------------------------------------------------
IoStates == {"none", "kernel", "done", "data", "bad", "failed", "lost"}
Labels == {"idle", "insert", "notify", "release", "lockRecv", "lockSend", "cancelRecv",
           "cancelSend", "discRelease", "trySend", "checkEmpty", "unlockEmpty", "prepare",
           "wsaSend", "freeSent", "unlockSent", "recheck", "recvPost", "checkBarred",
           "badPacket", "dropIo", "crashed"}

(* Every variable has its type.                                              *)
TypeOK ==
  /\ open \in BOOLEAN /\ refs \in Nat /\ posts \in Nat
  /\ sendQ \in Seq(Packets) /\ inflight \in Seq(Packets)
  /\ behind \in [Callers -> Seq(Packets)] /\ queued \in Seq(Packets) /\ wire \in Seq(Packets)
  /\ sendLocked \in BOOLEAN /\ recvBarred \in BOOLEAN /\ peerUp \in BOOLEAN
  /\ sendIo \in IoStates \ {"data", "bad", "lost"} /\ recvIo \in IoStates \ {"done"}
  /\ chunks \in 0 .. MaxRecv /\ disconnects \in 0 .. MaxDisconnect
  /\ pc \in [Threads -> Labels] /\ pkt \in [Callers -> Packets] /\ unsent \subseteq Packets

(* send_post is meant to rule out overlapping sends (ServerBase.cpp 199),     *)
(* whatever Disconnects, completions and notifications race for the lock:    *)
(* who prepares a send finds no other in preparation or in flight, the       *)
(* session is referenced (assertion 220), and the packet IsEmpty saw is still *)
(* there for PrepareSend (assertion 226): unless it is linked behind a Push   *)
(* that has not finished, where Pop does not find it (SendBuffer.cpp 38-42).  *)
Sending(t) == pc[t] \in {"prepare", "wsaSend"}
OneSendAtATime ==
  \A t \in Workers : Sending(t) =>
    /\ sendIo = "none"
    /\ (pc[t] = "prepare" =>
          inflight = <<>> /\ refs > 0 /\ (sendQ = <<>> => \E c \in Callers : behind[c] # <<>>))
    /\ \A u \in Workers : Sending(u) => u = t

(* Packets reach the client in the order they came into the queue, none twice, *)
(* none skipped, however many callers and workers take turns.  Two that were   *)
(* linked behind a Push come in with it.                                      *)
WireInOrder ==
  Len(wire) <= Len(queued) /\ wire = SubSeq(queued, 1, Len(wire))

(* The session stays open under every thread in a call and every operation    *)
(* in the kernel or in the IOCP queue.  The accept thread is the exception:  *)
(* it reads the receive flag after the recv took over its only reference.    *)
SessionOutlivesUse ==
  (\/ sendIo # "none" \/ recvIo # "none"
   \/ \E t \in Threads : pc[t] \notin {"idle", "crashed"} /\ ~(t = Acceptor /\ pc[t] = "checkBarred"))
  => open /\ refs > 0

(* Once Disconnect has begun the session does close, though receives and      *)
(* completions that were being handled re-post and re-open the send lock;     *)
(* unless a packet that could not be extracted has leaked its reference.  A   *)
(* crash closes it too.                                                      *)
DisconnectCloses == disconnects > 0 ~> ~open \/ recvIo = "lost"

(* A packet SendPacket accepted is transmitted, unless the connection is lost *)
(* or Disconnect, which bars the receive, ends it.                           *)
InQueue(p) == \E i \in DOMAIN queued : queued[i] = p
Transmitted(p) == \E i \in DOMAIN wire : wire[i] = p
=============================================================================

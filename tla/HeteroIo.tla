------------------------------ MODULE HeteroIo ------------------------------
(***************************************************************************)
(* HeteroServerBase.cpp, the server whose sessions belong to groups.  It    *)
(* repeats ServerBase's send_post, completions and Disconnect; it differs   *)
(* where this module defines an action of its own: SendPacket only queues,  *)
(* a group's thread posts the notification once a frame for every session   *)
(* with a queue (GroupBase::process_packet), received packets are queued    *)
(* for the group, and a packet that cannot be extracted is answered with    *)
(* Disconnect.                                                              *)
(***************************************************************************)
EXTENDS ServerIo

CONSTANTS
  GroupThreads,   (* the callers that run a group's frame                   *)
  MaxPosts        (* bound: notifications in the IOCP queue at a time       *)

ASSUME HeteroAssumption == GroupThreads \subseteq Callers /\ MaxPosts \in Nat \ {0}

(* SendPacket queues the packet and releases the session.                    *)
HeteroInsertPacket(c) == InsertPacket(c, "release")

(* process_packet, lines 121 and 144-149: Acquire; a notification if there   *)
(* is something to send; Release.                                            *)
FrameAcquire(c) ==
  /\ c \in GroupThreads /\ open /\ posts < MaxPosts
  /\ Step(c, "idle", "notify")
  /\ refs' = refs + 1
  /\ UNCHANGED <<open, queueVars, flagVars, posts, kernelVars, pkt, callVars>>

FramePost(c) ==
  /\ Step(c, "notify", "release")
  /\ posts' = IF IsEmpty THEN posts ELSE posts + 1
  /\ UNCHANGED <<sessionVars, queueVars, flagVars, kernelVars, pkt, callVars>>

(* handle_recv_completion, lines 363-369: the worker calls Disconnect and    *)
(* returns; the reference of the receive is never given back, so that this   *)
(* Disconnect cannot close the session.                                      *)
BadPacketDisconnect(w) ==
  /\ Step(w, "badPacket", "lockRecv")
  /\ refs' = refs + 1 /\ recvIo' = "lost"
  /\ UNCHANGED <<open, queueVars, flagVars, posts, sendIo, peerUp, chunks, wire, pkt, callVars>>

(* The Release inside that Disconnect; the worker's own comes next.          *)
DisconnectRelease(w) ==
  /\ Step(w, "discRelease", "release")
  /\ refs' = refs - 1
  /\ UNCHANGED <<open, queueVars, flagVars, posts, kernelVars, pkt, callVars>>
-----------------------------------------------------------------------------
HeteroCallerStep(c) ==
  \/ HeteroInsertPacket(c)
  \/ FramePost(c)
  \/ DisconnectStep(c)
  \/ Release(c)

HeteroWorkerStep(w) ==
  \/ Dispatch(w)
  \/ SendStep(w)
  \/ RecvStep(w)
  \/ BadPacketDisconnect(w)
  \/ DisconnectStep(w)
  \/ DisconnectRelease(w)
  \/ DropIo(w)
  \/ Release(w)

HeteroNext ==
  \/ \E c \in Callers :
        \/ SendAcquire(c)
        \/ DisconnectAcquire(c, "idle")
        \/ FrameAcquire(c)
        \/ HeteroCallerStep(c)
  \/ \E w \in Workers : HeteroWorkerStep(w)
  \/ RecvStep(Acceptor)
  \/ Close
  \/ Environment
  \/ Done

(* A group's thread visits its sessions again and again.  Closing is strongly *)
(* fair: a frame takes and gives back its reference some fifty times a       *)
(* second, it cannot forever come between a decrement and the                *)
(* compare-exchange that follows it.                                         *)
HeteroFairness ==
  /\ QueueFairness
  /\ \A c \in Callers : WF_vars(HeteroCallerStep(c))
  /\ \A c \in GroupThreads : WF_vars(FrameAcquire(c))
  /\ \A w \in Workers : WF_vars(HeteroWorkerStep(w))
  /\ WF_vars(RecvStep(Acceptor)) /\ SF_vars(Close)

HeteroSpec == Init /\ [][HeteroNext]_vars
HeteroFairSpec == HeteroSpec /\ HeteroFairness /\ KernelFairness
=============================================================================

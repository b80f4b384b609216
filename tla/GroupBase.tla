------------------------------ MODULE GroupBase ------------------------------
(***************************************************************************)
(* The groups of a HeteroServerBase (GroupBase, GroupJob) under GameServer.  *)
(* Each group is a thread that runs frames: jobs queued for it, then the     *)
(* packets of the sessions it lists.  A session belongs to one group at a   *)
(* time, by its groupId, and a handler may move it to another.              *)
(*                                                                         *)
(* Acquire, Release and the closing of a session are single steps, as in    *)
(* SessionLife; sends are HeteroIo's.  The two lock-free queues (jobs and    *)
(* received messages) are sequences.  A game group's players and the         *)
(* server's hosts are sets of session ids.                                  *)
(***************************************************************************)
EXTENDS Integers, Sequences

CONSTANTS
  Groups,      (* group indices, one thread each                             *)
  Login,       (* the group OnAccept puts a session in                       *)
  Routes,      (* pairs <<g, h>>: handlers of g that call MoveGroup(.., h)   *)
  Slots,       (* indices of the session array                               *)
  MaxKey,      (* bound: sessions accepted                                   *)
  MaxMsgs      (* bound: packets received on a slot                          *)

ASSUME GroupAssumption ==
  /\ Login \in Groups /\ Groups \subseteq Nat
  /\ Routes \subseteq Groups \X Groups
  /\ MaxKey \in Nat /\ MaxMsgs \in Nat

GroupNull == -1
Id == [key : 1 .. MaxKey, idx : Slots]

(* A packet is its number on its slot; its handler stays or moves the session. *)
NoMsg == 0

VARIABLES
  keys,                                \* sessions accepted so far
  id, open, io, groupId,               \* Session: id, unreleased, referenced by I/O, groupId
  msgs, received, handled,             \* messegeQueue; packets queued and handled so far
  hosts,                               \* GameServer::_hosts
  jobs, sessionList, eraseList,        \* GroupBase
  players,                             \* GameGroupBase::_players
  pc, cur, todo, left, pkt, dest,      \* a group's thread
  rushed                               \* slots whose session came back to a group too soon

slotVars  == <<keys, id, open, io>>
msgVars   == <<msgs, received, handled>>
listVars  == <<sessionList, eraseList, players>>
localVars == <<cur, todo, left, pkt, dest>>
vars == <<slotVars, groupId, msgVars, hosts, jobs, listVars, pc, localVars, rushed>>

Current(i) == open[i.idx] /\ id[i.idx] = i
NoId == [key |-> 0, idx |-> CHOOSE s \in Slots : TRUE]

Enter(i) == [do |-> "enter", id |-> i]
Leave(i) == [do |-> "leave", id |-> i]

(* A group's thread holds the session of the packet it is handling.          *)
Visiting == {"check", "pop", "recv", "move", "enqueue", "tail", "post"}
Held(s) == \E g \in Groups : pc[g] \in Visiting /\ cur[g].idx = s

Init ==
  /\ keys = 0 /\ id = [s \in Slots |-> NoId]
  /\ open = [s \in Slots |-> FALSE] /\ io = [s \in Slots |-> FALSE]
  /\ groupId = [s \in Slots |-> GroupNull]
  /\ msgs = [s \in Slots |-> <<>>] /\ received = [s \in Slots |-> 0]
  /\ handled = [s \in Slots |-> <<>>]
  /\ hosts = {} /\ jobs = [g \in Groups |-> <<>>]
  /\ sessionList = [g \in Groups |-> {}] /\ eraseList = [g \in Groups |-> {}]
  /\ players = [g \in Groups |-> {}]
  /\ pc = [g \in Groups |-> "idle"] /\ cur = [g \in Groups |-> NoId]
  /\ todo = [g \in Groups |-> {}] /\ left = [g \in Groups |-> 0]
  /\ pkt = [g \in Groups |-> NoMsg] /\ dest = [g \in Groups |-> g] /\ rushed = {}

Step(g, from, to) == pc[g] = from /\ pc' = [pc EXCEPT ![g] = to]
Enqueue(g, j) == jobs' = [jobs EXCEPT ![g] = Append(@, j)]
-----------------------------------------------------------------------------
(* func_accept_thread and GameServer::OnAccept: a session on a free slot, a  *)
(* host for it, SetGroup(LOGIN), the first recv.                             *)
Accept(s) ==
  LET i == [key |-> keys + 1, idx |-> s] IN
  /\ ~open[s] /\ keys < MaxKey
  /\ keys' = keys + 1 /\ id' = [id EXCEPT ![s] = i]
  /\ open' = [open EXCEPT ![s] = TRUE] /\ io' = [io EXCEPT ![s] = TRUE]
  /\ hosts' = hosts \cup {i}
  /\ groupId' = [groupId EXCEPT ![s] = Login]
  /\ Enqueue(Login, Enter(i))
  /\ UNCHANGED <<msgVars, listVars, pc, localVars, rushed>>

(* handle_recv_completion: a worker queues a packet, the next recv is posted. *)
Receive(s) ==
  /\ io[s] /\ received[s] < MaxMsgs
  /\ received' = [received EXCEPT ![s] = @ + 1]
  /\ msgs' = [msgs EXCEPT ![s] = Append(@, received'[s])]
  /\ UNCHANGED <<slotVars, groupId, handled, hosts, jobs, listVars, pc, localVars, rushed>>

(* The client leaves or is disconnected: no recv is posted any more.         *)
StopReceiving(s) ==
  /\ io[s] /\ io' = [io EXCEPT ![s] = FALSE]
  /\ UNCHANGED <<keys, id, open, groupId, msgVars, hosts, jobs, listVars, pc, localVars, rushed>>

CloseIf(s, unused) ==
  /\ open[s] /\ unused
  /\ open' = [open EXCEPT ![s] = FALSE]
  /\ IF groupId[s] = GroupNull THEN UNCHANGED jobs ELSE Enqueue(groupId[s], Leave(id[s]))
  /\ groupId' = [groupId EXCEPT ![s] = GroupNull]
  /\ UNCHANGED <<keys, id, io, msgVars, hosts, listVars, pc, localVars, rushed>>

Close_WhileHeld(s) == CloseIf(s, ~io[s])   \* mutant: process_packet does not Acquire

Close_NoLeave(s) ==   \* mutant: the group is not told
  /\ open[s] /\ ~io[s] /\ ~Held(s)
  /\ open' = [open EXCEPT ![s] = FALSE] /\ groupId' = [groupId EXCEPT ![s] = GroupNull]
  /\ UNCHANGED <<keys, id, io, jobs, msgVars, hosts, listVars, pc, localVars, rushed>>

(* The last reference goes: Return queues a Leave for the session's group.   *)
(* The messages stay in the slot's queue.                                    *)
Close(s) == CloseIf(s, ~io[s] /\ ~Held(s))
-----------------------------------------------------------------------------
(* process_job: as many jobs as there are when the frame starts.             *)
StartFrame(g) ==
  /\ Step(g, "idle", "jobs")
  /\ left' = [left EXCEPT ![g] = Len(jobs[g])]
  /\ UNCHANGED <<slotVars, groupId, msgVars, hosts, jobs, listVars, cur, todo, pkt, dest, rushed>>

Dequeue(g, what) ==
  /\ left[g] > 0 /\ jobs[g] # <<>> /\ Head(jobs[g]).do = what
  /\ jobs' = [jobs EXCEPT ![g] = Tail(@)]
  /\ left' = [left EXCEPT ![g] = @ - 1]

(* GroupJob_EnterSession: the session is listed if it is still open...       *)
EnterSession(g) ==
  LET i == Head(jobs[g]).id IN
  /\ Dequeue(g, "enter")
  /\ IF Current(i)
     THEN /\ Step(g, "jobs", "enter")
          /\ sessionList' = [sessionList EXCEPT ![g] = @ \cup {i}]
          /\ cur' = [cur EXCEPT ![g] = i]
     ELSE Step(g, "jobs", "jobs") /\ UNCHANGED <<sessionList, cur>>
  /\ UNCHANGED <<slotVars, groupId, msgVars, hosts, eraseList, players, todo, pkt, dest, rushed>>

(* ... and, no longer held, it enters: its host becomes a player.            *)
OnEnter(g) ==
  /\ Step(g, "enter", "jobs")
  /\ players' = [players EXCEPT ![g] = @ \cup {cur[g]}]
  /\ UNCHANGED <<slotVars, groupId, msgVars, hosts, jobs, sessionList, eraseList, localVars, rushed>>

(* What _sessionList.erase of the next job's session will return.            *)
Listed(g) == Head(jobs[g]).id \in sessionList[g]

(* GroupJob_LeaveSession: OnLeave deletes the player, OnDisconnect the host.  *)
LeaveSession(g) ==
  LET i == Head(jobs[g]).id IN
  /\ Step(g, "jobs", "jobs") /\ Dequeue(g, "leave")
  /\ sessionList' = [sessionList EXCEPT ![g] = @ \ {i}]
  /\ IF Listed(g) THEN /\ players' = [players EXCEPT ![g] = @ \ {i}]
                      /\ hosts' = hosts \ {i}
                 ELSE UNCHANGED <<players, hosts>>
  /\ UNCHANGED <<slotVars, groupId, msgVars, eraseList, cur, todo, pkt, dest, rushed>>
-----------------------------------------------------------------------------
(* process_packet: every listed session once, in the order of a hash set.     *)
StartPackets(g) ==
  /\ Step(g, "jobs", "packets") /\ left[g] = 0
  /\ todo' = [todo EXCEPT ![g] = sessionList[g]]
  /\ UNCHANGED <<slotVars, groupId, msgVars, hosts, jobs, listVars, cur, left, pkt, dest, rushed>>

(* Lines 121-128: a session that can be Acquired, with as many packets as     *)
(* its queue has now.                                                        *)
Visit(g, i) ==
  /\ i \in todo[g] /\ todo' = [todo EXCEPT ![g] = @ \ {i}]
  /\ IF Current(i)
     THEN /\ Step(g, "packets", "check")
          /\ cur' = [cur EXCEPT ![g] = i]
          /\ left' = [left EXCEPT ![g] = Len(msgs[i.idx])]
     ELSE Step(g, "packets", "packets") /\ UNCHANGED <<cur, left>>
  /\ UNCHANGED <<slotVars, groupId, msgVars, hosts, jobs, listVars, pkt, dest, rushed>>

CheckIf(g, more) ==
  /\ Step(g, "check", IF more THEN "pop" ELSE "post")
  /\ UNCHANGED <<slotVars, groupId, msgVars, hosts, jobs, listVars, localVars, rushed>>

Check_AnyGroup(g) == CheckIf(g, left[g] > 0)   \* mutant: line 132 left out
Check_OneMore(g) ==   \* mutant: >= for >
  CheckIf(g, left[g] >= 0 /\ groupId[cur[g].idx] = g)

(* Lines 130-135: the session may have been moved by the last packet.         *)
Check(g) == CheckIf(g, left[g] > 0 /\ groupId[cur[g].idx] = g)

(* Line 137: the result of Pop is not looked at; pkt keeps its old value.     *)
Pop(g) ==
  LET s == cur[g].idx IN
  /\ Step(g, "pop", "recv")
  /\ IF msgs[s] = <<>> THEN UNCHANGED <<msgs, pkt>>
     ELSE /\ msgs' = [msgs EXCEPT ![s] = Tail(@)]
          /\ pkt' = [pkt EXCEPT ![g] = Head(msgs[s])]
  /\ left' = [left EXCEPT ![g] = @ - 1]
  /\ UNCHANGED <<slotVars, groupId, received, handled, hosts, jobs, listVars, cur, todo, dest, rushed>>

Handles(g) ==
  handled' = [handled EXCEPT ![cur[g].idx] = Append(@, pkt[g])]

(* OnRecv: nothing for a session that is no player of the group; else the     *)
(* packet's handler, which may end here...                                   *)
OnRecv(g) ==
  /\ Step(g, "recv", "check")
  /\ IF cur[g] \in players[g] THEN Handles(g) ELSE UNCHANGED handled
  /\ UNCHANGED <<slotVars, groupId, msgs, received, hosts, jobs, listVars, localVars, rushed>>

MoveIf(g, h, leaves) ==
  /\ <<g, h>> \in Routes /\ cur[g] \in players[g]
  /\ Step(g, "recv", "move") /\ Handles(g)
  /\ dest' = [dest EXCEPT ![g] = h]
  /\ IF leaves THEN /\ eraseList' = [eraseList EXCEPT ![g] = @ \cup {cur[g]}]
                   /\ players' = [players EXCEPT ![g] = @ \ {cur[g]}]
              ELSE UNCHANGED <<eraseList, players>>
  /\ UNCHANGED <<slotVars, groupId, msgs, received, hosts, jobs, sessionList,
                 cur, todo, left, pkt, rushed>>

MoveGroup_NoLeave(g, h) == MoveIf(g, h, FALSE)   \* mutant: lines 37-41 left out

(* ... or call MoveGroup: the session leaves this group (lines 37-41),        *)
MoveGroup(g, h) == MoveIf(g, h, cur[g] \in sessionList[g])

(* is another group's (line 43); it may be one it left in a frame that is not *)
(* over, and still lists it,                                                 *)
MoveExchange(g) ==
  /\ Step(g, "move", "enqueue")
  /\ groupId' = [groupId EXCEPT ![cur[g].idx] = dest[g]]
  /\ rushed' = IF cur[g] \in sessionList[dest[g]] THEN rushed \cup {cur[g].idx} ELSE rushed
  /\ UNCHANGED <<slotVars, msgVars, hosts, jobs, listVars, localVars>>

MoveEnqueue_Early(g) ==   \* mutant: the Enter is queued for the old group
  /\ Step(g, "enqueue", "tail")
  /\ Enqueue(g, Enter(cur[g]))
  /\ UNCHANGED <<slotVars, groupId, msgVars, hosts, listVars, localVars, rushed>>

(* and is to enter it (line 45).                                             *)
MoveEnqueue(g) ==
  /\ Step(g, "enqueue", "tail")
  /\ Enqueue(dest[g], Enter(cur[g]))
  /\ UNCHANGED <<slotVars, groupId, msgVars, hosts, listVars, localVars, rushed>>

(* The handler goes on with the player (LobbyGroup.cpp 81-84).               *)
HandlerTail(g) ==
  /\ Step(g, "tail", "check")
  /\ UNCHANGED <<slotVars, groupId, msgVars, hosts, jobs, listVars, localVars, rushed>>

(* Lines 144-149: the notification of HeteroIo, and Release.                 *)
PostRelease(g) ==
  /\ Step(g, "post", "packets")
  /\ cur' = [cur EXCEPT ![g] = NoId]
  /\ UNCHANGED <<slotVars, groupId, msgVars, hosts, jobs, listVars, todo, left, pkt, dest, rushed>>

(* UpdateFrame, then the sessions that left are taken off the list.          *)
EndFrame(g) ==
  /\ Step(g, "packets", "idle") /\ todo[g] = {}
  /\ sessionList' = [sessionList EXCEPT ![g] = @ \ eraseList[g]]
  /\ eraseList' = [eraseList EXCEPT ![g] = {}]
  /\ left' = [left EXCEPT ![g] = 0] /\ pkt' = [pkt EXCEPT ![g] = NoMsg]
  /\ dest' = [dest EXCEPT ![g] = g] /\ cur' = [cur EXCEPT ![g] = NoId]
  /\ UNCHANGED <<slotVars, groupId, msgVars, hosts, jobs, players, todo, rushed>>
-----------------------------------------------------------------------------
Frame(g) ==
  \/ StartFrame(g)
  \/ EnterSession(g)
  \/ OnEnter(g)
  \/ LeaveSession(g)
  \/ StartPackets(g)
  \/ \E i \in todo[g] : Visit(g, i)
  \/ Check(g)
  \/ Pop(g)
  \/ OnRecv(g)
  \/ \E h \in Groups : MoveGroup(g, h)
  \/ MoveExchange(g)
  \/ MoveEnqueue(g)
  \/ HandlerTail(g)
  \/ PostRelease(g)
  \/ EndFrame(g)

Next ==
  \/ \E s \in Slots : Accept(s) \/ Receive(s) \/ StopReceiving(s) \/ Close(s)
  \/ \E g \in Groups : Frame(g)

Spec == Init /\ [][Next]_vars

(* A group's thread runs its frames.                                         *)
FairSpec == Spec /\ \A g \in Groups : WF_vars(Frame(g))
-----------------------------------------------------------------------------
Labels == {"idle", "jobs", "enter", "packets"} \cup Visiting
Jobs == [do : {"enter", "leave"}, id : Id]
Packets == 1 .. MaxMsgs

(* Every variable has its type; a count of jobs or packets is not negative.  *)
TypeOK ==
  /\ keys \in 0 .. MaxKey /\ id \in [Slots -> Id \cup {NoId}]
  /\ open \in [Slots -> BOOLEAN] /\ io \in [Slots -> BOOLEAN]
  /\ groupId \in [Slots -> Groups \cup {GroupNull}]
  /\ msgs \in [Slots -> Seq(Packets)] /\ received \in [Slots -> 0 .. MaxMsgs]
  /\ handled \in [Slots -> Seq(Packets)]
  /\ hosts \subseteq Id /\ jobs \in [Groups -> Seq(Jobs)]
  /\ sessionList \in [Groups -> SUBSET Id] /\ eraseList \in [Groups -> SUBSET Id]
  /\ players \in [Groups -> SUBSET Id] /\ todo \in [Groups -> SUBSET Id]
  /\ pc \in [Groups -> Labels] /\ cur \in [Groups -> Id \cup {NoId}]
  /\ left \in [Groups -> Nat] /\ pkt \in [Groups -> Packets \cup {NoMsg}]
  /\ dest \in [Groups -> Groups] /\ rushed \subseteq Slots

(* OnLeave and OnDisconnect crash when the player or the host is missing      *)
(* (GameGroupBase.cpp 205, GameServer.cpp 40) and OnEnter dereferences the    *)
(* host: whatever moves and closings race, each finds what it looks for; and  *)
(* the player a packet's handler works on is not freed under it, though      *)
(* another group's thread may be the one that frees it.                      *)
HandlersFindPlayer ==
  \A g \in Groups :
    /\ pc[g] = "jobs" /\ left[g] > 0 /\ Head(jobs[g]).do = "leave" /\ Listed(g) =>
         Head(jobs[g]).id \in players[g] \cap hosts
    /\ pc[g] \in {"enter"} \cup Visiting => cur[g] \in hosts

(* A player is in at most one group.                                         *)
OneGroupAtATime ==
  \A g, h \in Groups : g # h => players[g] \cap players[h] = {}

(* The packets of a slot are handled in the order they came, none twice and   *)
(* none dropped, by whichever groups the session passes through, as long as   *)
(* it does not come back to a group before the frame it left there is over.  *)
HandledInOrder ==
  \A s \in Slots \ rushed : handled[s] = [n \in 1 .. Len(handled[s]) |-> n]

(* The threads are split so that content needs no synchronisation (README.md  *)
(* 83): the packets a group has counted are still there when it pops them,    *)
(* and process_packet does not look at what Pop returned.  They are missing   *)
(* only after a session came back to a group before the frame it left there  *)
(* was over: then the packet of the round before is handled again.           *)
PopFindsPacketUnlessRushed ==
  \A g \in Groups : pc[g] = "pop" /\ cur[g].idx \notin rushed => msgs[cur[g].idx] # <<>>

(* A received packet is handled, or its session closes (or comes back early). *)
PacketsAreHandled ==
  \A s \in Slots : \A n \in Packets :
    received[s] = n ~> Len(handled[s]) >= n \/ ~open[s] \/ s \in rushed

(* A session that closes as a player of a group is reported to the            *)
(* application: its host is removed.                                         *)
PlayersAreReported ==
  \A i \in Id :
    (~Current(i) /\ \E g \in Groups : i \in players[g]) ~> i \notin hosts
=============================================================================

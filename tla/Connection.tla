----------------------------- MODULE Connection -----------------------------
(***************************************************************************)
(* The virtual connection between two processes over sockets, from the     *)
(* first packet to the end of the close protocol: the send queue           *)
(* (MPIDI_CH3_SendRequest), the making of a connection, which both may     *)
(* begin at once (channels/ch3_progress_sock.cpp), and the close packets   *)
(* of MPI_Finalize (mpid/vc.cpp, mpid/packethandling.cpp).                 *)
(*                                                                         *)
(* The processes are 0 and 1, their ranks.  Connection c is the one that   *)
(* process c asks for; each has an end at either process.                  *)
(***************************************************************************)
EXTENDS Integers, Sequences, FiniteSets

CONSTANTS
  Plans,      \* what the program does: how many messages process 0 and process 1
              \* send, and whether threads send while another makes progress
  None        \* no connection

ASSUME PlansAssumption == Plans \subseteq [messages : Nat \X Nat, threads : BOOLEAN]
ASSUME NoneAssumption == None \notin {0, 1}

Proc == {0, 1}
Peer(p) == 1 - p

VARIABLES
  plan,
  mpi,            \* mpi[p]: "running", "finalizing" or "finalized"
  \* the virtual connection of a process
  state,          \* of the close protocol
  chState,        \* vc->ch.state
  conn,           \* vc->ch.conn
  sendq,
  outstanding,    \* MPIDI_Outstanding_close_ops
  completing,     \* the connection that connection_complete_ex is about to use
  deferConnect,   \* whether a connect is deferred to the progress engine
  deferWrites,    \* how many writes are
  \* sockets
  stage,          \* stage[c][p]: how far the end of connection c at p is
  writes,         \* writes[c][p]: writes of the head of the queue not complete
  wire,           \* wire[c][p]: what p has written and the peer has not read
  \* history
  sent,
  received

vcs == <<state, chState, conn, sendq, outstanding, completing, deferConnect, deferWrites>>
vars == <<plan, mpi, vcs, stage, writes, wire, sent, received>>

Numbers == UNION {(1 .. pl.messages[1]) \cup (1 .. pl.messages[2]) : pl \in Plans}

Packets == [type : {"DATA"}, n : Numbers] \cup [type : {"CLOSE"}, ack : BOOLEAN]
Data(n) == [type |-> "DATA", n |-> n]
Close(ack) == [type |-> "CLOSE", ack |-> ack]
OpenReq == [type |-> "OPEN_REQ"]
OpenResp(ack) == [type |-> "OPEN_RESP", ack |-> ack]
Fin == [type |-> "FIN"]

Ends(x) == [c \in Proc |-> [p \in Proc |-> x]]

Init ==
  /\ plan \in Plans
  /\ mpi = [p \in Proc |-> "running"]
  /\ state = [p \in Proc |-> "INACTIVE"]
  /\ chState = [p \in Proc |-> "UNCONNECTED"]
  /\ conn = [p \in Proc |-> None]
  /\ sendq = [p \in Proc |-> <<>>]
  /\ outstanding = [p \in Proc |-> 0]
  /\ completing = [p \in Proc |-> None]
  /\ deferConnect = [p \in Proc |-> FALSE]
  /\ deferWrites = [p \in Proc |-> 0]
  /\ stage = Ends("none")
  /\ writes = Ends(0)
  /\ wire = Ends(<<>>)
  /\ sent = [p \in Proc |-> <<>>]
  /\ received = [p \in Proc |-> <<>>]

-----------------------------------------------------------------------------
(* The progress engine of p is between two callbacks. *)
Idle(p) == mpi[p] # "finalized" /\ completing[p] = None

Put(c, p, items) == wire' = [wire EXCEPT ![c][p] = @ \o items]
Take(c, p) == wire' = [wire EXCEPT ![c][Peer(p)] = Tail(@)]
Arrived(c, p, type) == wire[c][Peer(p)] # <<>> /\ Head(wire[c][Peer(p)]).type = type

Move(c, p, s) == stage' = [stage EXCEPT ![c][p] = s]

StartConnect(p) ==
  /\ conn[p] = None
  /\ conn' = [conn EXCEPT ![p] = p]
  /\ chState' = [chState EXCEPT ![p] = "CONNECTING"]
  /\ Move(p, p, "connecting")

(* Mutant: a packet does not queue up behind others. *)
WaysPastQueue(p, alone) == {"whole", "part"}

(***************************************************************************)
(* How a packet leaves: written at once, "whole" or in part, with the rest *)
(* to follow from the queue; "deferred" to the thread that makes progress; *)
(* or "queued" behind others.                                              *)
(***************************************************************************)
Ways(p, alone) ==
  IF sendq[p] # <<>> THEN {"queued"}
  ELSE (IF completing[p] = None THEN {"whole", "part"} ELSE {})
       \cup (IF plan.threads /\ ~alone THEN {"deferred"} ELSE {})

SendConnected(p, m, way) ==
  LET c == conn[p]
  IN /\ IF way \in {"whole", "part"} THEN Put(c, p, <<m>>) ELSE UNCHANGED wire
     /\ sendq' = [sendq EXCEPT ![p] = IF way = "whole" THEN @ ELSE Append(@, m)]
     /\ writes' = [writes EXCEPT ![c][p] = IF way = "part" THEN @ + 1 ELSE @]
     /\ deferWrites' = [deferWrites EXCEPT ![p] = IF way = "deferred" THEN @ + 1 ELSE @]
     /\ UNCHANGED <<chState, conn, deferConnect, stage>>

(***************************************************************************)
(* MPIDI_CH3_SendRequest in a call of the program; "alone" if no other     *)
(* thread is in a call.                                                    *)
(***************************************************************************)
SendRequest(p, m, alone) ==
  /\ plan.threads \/ Idle(p)
  /\ sent' = [sent EXCEPT ![p] = Append(@, m)]
  /\ \/ /\ chState[p] = "UNCONNECTED"
        /\ IF sendq[p] # <<>> THEN UNCHANGED <<chState, conn, stage, deferConnect>>
           ELSE IF plan.threads /\ ~alone
           THEN /\ deferConnect' = [deferConnect EXCEPT ![p] = TRUE]
                /\ UNCHANGED <<chState, conn, stage>>
           ELSE StartConnect(p) /\ UNCHANGED deferConnect
        /\ sendq' = [sendq EXCEPT ![p] = Append(@, m)]
        /\ UNCHANGED <<writes, wire, deferWrites>>
     \/ /\ chState[p] = "CONNECTING"
        /\ sendq' = [sendq EXCEPT ![p] = Append(@, m)]
        /\ UNCHANGED <<chState, conn, stage, deferConnect, writes, wire, deferWrites>>
     \/ /\ chState[p] = "CONNECTED"
        /\ \E way \in Ways(p, alone) : SendConnected(p, m, way)

MayCall(p) == mpi[p] = "running"

(* How many messages of the program are in a sequence of packets. *)
Messages(packets) == Cardinality({i \in DOMAIN packets : packets[i].type = "DATA"})

SendMessage(p) ==
  /\ MayCall(p) /\ Messages(sent[p]) < plan.messages[p + 1]
  /\ state' = [state EXCEPT ![p] = IF @ = "INACTIVE" THEN "ACTIVE" ELSE @]
  /\ SendRequest(p, Data(Messages(sent[p]) + 1), FALSE)
  /\ UNCHANGED <<plan, mpi, outstanding, completing, received>>

(* MPIDI_PG_Close_VCs; a program has received what it was sent before. *)
Finalize(p) ==
  /\ MayCall(p) /\ Idle(p)
  /\ Messages(sent[p]) = plan.messages[p + 1]
  /\ Messages(received[p]) = plan.messages[Peer(p) + 1]
  /\ mpi' = [mpi EXCEPT ![p] = "finalizing"]
  /\ \/ /\ state[p] \in {"ACTIVE", "REMOTE_CLOSE"}
        /\ outstanding' = [outstanding EXCEPT ![p] = @ + 1]
        /\ state' = [state EXCEPT ![p] = IF @ = "ACTIVE" THEN "LOCAL_CLOSE" ELSE "CLOSE_ACKED"]
        /\ SendRequest(p, Close(state[p] # "ACTIVE"), TRUE)
     \/ /\ state[p] \notin {"ACTIVE", "REMOTE_CLOSE"}
        /\ UNCHANGED <<outstanding, state, sent, chState, conn, stage, deferConnect, sendq,
                       writes, wire, deferWrites>>
  /\ UNCHANGED <<plan, completing, received>>

(* MPIDI_CH3U_VC_WaitForClose *)
FinalizeReturn(p) ==
  /\ Idle(p) /\ mpi[p] = "finalizing" /\ outstanding[p] = 0
  /\ mpi' = [mpi EXCEPT ![p] = "finalized"]
  /\ UNCHANGED <<plan, vcs, stage, writes, wire, sent, received>>

-----------------------------------------------------------------------------
(* Connecting. *)
ConnectDeferred(p) ==
  /\ Idle(p) /\ deferConnect[p]
  /\ deferConnect' = [deferConnect EXCEPT ![p] = FALSE]
  /\ IF chState[p] = "UNCONNECTED" THEN StartConnect(p) ELSE UNCHANGED <<conn, chState, stage>>
  /\ UNCHANGED <<plan, mpi, state, sendq, outstanding, completing, deferWrites, writes, wire,
                 sent, received>>

OnlySockets == UNCHANGED <<plan, mpi, vcs, writes, sent, received>>

(* The network connects; the callback comes later. *)
Establish(c) ==
  /\ stage[c][c] = "connecting"
  /\ Move(c, c, "established")
  /\ UNCHANGED wire /\ OnlySockets

ConnectSucceeded(c) ==
  /\ Idle(c) /\ stage[c][c] = "established"
  /\ Move(c, c, "requesting")
  /\ Put(c, c, <<OpenReq>>) /\ OnlySockets

SendOpenRequestSucceeded(c) ==
  /\ Idle(c) /\ stage[c][c] = "requesting"
  /\ Move(c, c, "awaiting")
  /\ UNCHANGED wire /\ OnlySockets

AcceptNewConnection(c) ==
  LET p == Peer(c)
  IN /\ Idle(p) /\ stage[c][p] = "none"
     /\ stage[c][c] \notin {"none", "connecting", "aborted"}
     /\ Move(c, p, "accepted")
     /\ UNCHANGED wire /\ OnlySockets

(***************************************************************************)
(* Closing of the connection that lost: the write side is shut down, or,   *)
(* before the callback of the connect, the socket is closed.               *)
(***************************************************************************)
StageAfterClose(s) ==
  CASE s = "connecting" -> "aborted" [] s = "established" -> "closed" [] OTHER -> "closing"

(* Mutant: every open request is accepted. *)
RefusesNobody(p, c) == FALSE

(* Mutant: both ranks of a head-to-head refuse. *)
RefusesBoth(p, c) == conn[p] # None

(***************************************************************************)
(* An open request is accepted if there is no connection; if there is one, *)
(* the lower rank accepts and the higher rank refuses.                     *)
(***************************************************************************)
Refuses(p, c) == conn[p] # None /\ ~(p < c)

RecvOpenRequestData(c) ==
  LET p == Peer(c)
      old == conn[p]
  IN /\ Idle(p) /\ stage[c][p] = "accepted" /\ Arrived(c, p, "OPEN_REQ")
     /\ state' = [state EXCEPT ![p] = IF @ = "INACTIVE" THEN "ACTIVE" ELSE @]
     /\ \/ /\ Refuses(p, c)
           /\ Move(c, p, "rejecting")
           /\ wire' = [wire EXCEPT ![c][c] = Tail(@), ![c][p] = Append(@, OpenResp(FALSE))]
           /\ UNCHANGED <<conn, chState>>
        \/ /\ ~Refuses(p, c)
           /\ conn' = [conn EXCEPT ![p] = c]
           /\ chState' = [chState EXCEPT ![p] = IF old = None THEN "CONNECTING" ELSE @]
           /\ \/ /\ old = None
                 /\ Move(c, p, "accepting")
                 /\ wire' = [wire EXCEPT ![c][c] = Tail(@), ![c][p] = Append(@, OpenResp(TRUE))]
              \/ /\ old # None
                 /\ stage' = [stage EXCEPT ![c][p] = "accepting", ![old][p] = StageAfterClose(@)]
                 /\ wire' = [wire EXCEPT ![c][c] = Tail(@), ![c][p] = Append(@, OpenResp(TRUE)),
                                         ![old][p] = IF stage[old][p] = "connecting" THEN @
                                                     ELSE Append(@, Fin)]
     /\ UNCHANGED <<plan, mpi, sendq, outstanding, completing, deferConnect, deferWrites, writes,
                    sent, received>>

RecvOpenRequestFailed(c) ==
  LET p == Peer(c)
  IN /\ Idle(p) /\ stage[c][p] = "accepted" /\ Arrived(c, p, "FIN")
     /\ Move(c, p, "closed")
     /\ wire' = [wire EXCEPT ![c][c] = Tail(@), ![c][p] = Append(@, Fin)]
     /\ OnlySockets

(***************************************************************************)
(* connection_complete_ex, without the lock of the queue; SendHead is the  *)
(* part of it that has the lock.                                           *)
(***************************************************************************)
ConnectionComplete(c, p) ==
  /\ chState' = [chState EXCEPT ![p] = "CONNECTED"]
  /\ completing' = [completing EXCEPT ![p] = c]
  /\ Move(c, p, "open")
  /\ UNCHANGED <<plan, mpi, state, conn, sendq, outstanding, deferConnect, deferWrites, writes,
                 sent, received>>

SendOpenResponseSucceeded(c) ==
  LET p == Peer(c)
  IN /\ Idle(p)
     /\ \/ stage[c][p] = "accepting" /\ ConnectionComplete(c, p) /\ UNCHANGED wire
        \/ /\ stage[c][p] = "rejecting"
           /\ Move(c, p, "closing")
           /\ Put(c, p, <<Fin>>) /\ OnlySockets

(* Who is refused waits for the connection of the other side. *)
RecvOpenResponse(c) ==
  /\ Idle(c) /\ stage[c][c] = "awaiting" /\ Arrived(c, c, "OPEN_RESP")
  /\ Take(c, c)
  /\ IF Head(wire[c][Peer(c)]).ack THEN ConnectionComplete(c, c)
     ELSE Move(c, c, "refused") /\ OnlySockets

(* send_head_of_queue_ex *)
SendHead(p) ==
  /\ completing[p] # None
  /\ LET c == completing[p]
     IN IF sendq[p] = <<>> THEN UNCHANGED <<wire, writes>>
        ELSE Put(c, p, <<Head(sendq[p])>>) /\ writes' = [writes EXCEPT ![c][p] = @ + 1]
  /\ completing' = [completing EXCEPT ![p] = None]
  /\ UNCHANGED <<plan, mpi, state, chState, conn, sendq, outstanding, deferConnect, deferWrites,
                 stage, sent, received>>

-----------------------------------------------------------------------------
(* Writing.  A connection that is "draining" closes when the queue is empty. *)
SendMessageSucceeded(c, p) ==
  /\ Idle(p) /\ writes[c][p] > 0 /\ sendq[p] # <<>>
  /\ sendq' = [sendq EXCEPT ![p] = Tail(@)]
  /\ \/ /\ Len(sendq[p]) > 1
        /\ Put(c, p, <<sendq[p][2]>>)
        /\ UNCHANGED <<writes, stage>>
     \/ /\ Len(sendq[p]) = 1
        /\ writes' = [writes EXCEPT ![c][p] = @ - 1]
        /\ IF stage[c][p] = "draining" THEN Put(c, p, <<Fin>>) /\ Move(c, p, "closing")
           ELSE UNCHANGED <<wire, stage>>
  /\ UNCHANGED <<plan, mpi, state, chState, conn, outstanding, completing, deferConnect,
                 deferWrites, sent, received>>

(* progress_defer_write: n packets of the queue whole and the next in part. *)
WriteDeferred(p) ==
  /\ Idle(p) /\ deferWrites[p] > 0
  /\ deferWrites' = [deferWrites EXCEPT ![p] = @ - 1]
  /\ LET c == conn[p]
         q == sendq[p]
     IN \/ /\ state[p] # "CLOSE_ACKED" /\ q # <<>>
           /\ \E n \in 0 .. Len(q) :
                /\ Put(c, p, SubSeq(q, 1, IF n < Len(q) THEN n + 1 ELSE n))
                /\ sendq' = [sendq EXCEPT ![p] = SubSeq(q, n + 1, Len(q))]
                /\ writes' = [writes EXCEPT ![c][p] = IF n < Len(q) THEN @ + 1 ELSE @]
        \/ /\ state[p] = "CLOSE_ACKED" \/ q = <<>>
           /\ UNCHANGED <<wire, sendq, writes>>
  /\ UNCHANGED <<plan, mpi, state, chState, conn, outstanding, completing, deferConnect, stage,
                 sent, received>>

-----------------------------------------------------------------------------
(* Reading; after the connection began to close, nothing is read. *)
Reads(c, p, type) == Idle(p) /\ stage[c][p] = "open" /\ Arrived(c, p, type)

Handled(c, p) == received' = [received EXCEPT ![p] = Append(@, Head(wire[c][Peer(p)]))]

HandleData(c, p) ==
  /\ Reads(c, p, "DATA")
  /\ Take(c, p) /\ Handled(c, p)
  /\ UNCHANGED <<plan, mpi, vcs, stage, writes, sent>>

(* Mutant: a connection closes under the packets of its queue. *)
TerminateAtOnce(queue) == "closing"

(* MPIDI_CH3I_Post_close_connection *)
Terminate(queue) == IF queue = <<>> THEN "closing" ELSE "draining"

(* Handle_MPIDI_CH3_PKT_CLOSE *)
HandleClose(c, p) ==
  /\ Reads(c, p, "CLOSE") /\ Handled(c, p)
  /\ LET ack == Head(wire[c][Peer(p)]).ack
         reply == IF state[p] = "LOCAL_CLOSE" THEN <<Close(TRUE)>> ELSE <<>>
     IN /\ state' = [state EXCEPT ![p] =
             IF ack \/ @ = "LOCAL_CLOSE" THEN "CLOSE_ACKED" ELSE "REMOTE_CLOSE"]
        /\ sent' = [sent EXCEPT ![p] = @ \o reply]
        /\ \E way \in IF reply = <<>> THEN {"queued"} ELSE Ways(p, TRUE) :
             LET q == IF way = "whole" THEN sendq[p] ELSE sendq[p] \o reply
                 next == IF ack THEN Terminate(q) ELSE "open"
                 fin == IF next = "closing" THEN <<Fin>> ELSE <<>>
                 out == IF way = "queued" THEN fin ELSE reply \o fin
             IN /\ sendq' = [sendq EXCEPT ![p] = q]
                /\ writes' = [writes EXCEPT ![c][p] = IF way = "part" THEN @ + 1 ELSE @]
                /\ wire' = [wire EXCEPT ![c][Peer(p)] = Tail(@), ![c][p] = @ \o out]
                /\ Move(c, p, next)
  /\ UNCHANGED <<plan, mpi, chState, conn, outstanding, completing, deferConnect, deferWrites>>

(* The end of the peer's bytes, for a connection that is not closing. *)
RecvFailed(c, p) ==
  /\ Idle(p) /\ stage[c][p] \in {"open", "awaiting"} /\ Arrived(c, p, "FIN")
  /\ Move(c, p, "ended")
  /\ Take(c, p) /\ OnlySockets

(* A socket that is closing reads, and forgets, until the peer closes too. *)
GracefulCloseDiscard(c, p) ==
  /\ Idle(p) /\ stage[c][p] = "closing"
  /\ wire[c][Peer(p)] # <<>> /\ ~Arrived(c, p, "FIN")
  /\ Take(c, p)
  /\ UNCHANGED stage /\ OnlySockets

(* Mutant: a connection that lost is still that of the virtual connection. *)
HandleConnectionOfAny(c, p) ==
  /\ conn' = [conn EXCEPT ![p] = None]
  /\ chState' = [chState EXCEPT ![p] = "UNCONNECTED"]
  /\ state' = [state EXCEPT ![p] = "INACTIVE"]
  /\ outstanding' = [outstanding EXCEPT ![p] = @ - 1]

(* MPIDI_CH3U_Handle_connection: a connection that lost has no virtual connection. *)
HandleConnection(c, p) ==
  \/ /\ conn[p] = c
     /\ conn' = [conn EXCEPT ![p] = None]
     /\ chState' = [chState EXCEPT ![p] = "UNCONNECTED"]
     /\ IF state[p] = "CLOSE_ACKED"
        THEN /\ state' = [state EXCEPT ![p] = "INACTIVE"]
             /\ outstanding' = [outstanding EXCEPT ![p] = @ - 1]
        ELSE UNCHANGED <<state, outstanding>>
  \/ conn[p] # c /\ UNCHANGED <<conn, chState, state, outstanding>>

CloseConnectionComplete(c, p) ==
  /\ Idle(p) /\ stage[c][p] = "closing" /\ Arrived(c, p, "FIN")
  /\ Take(c, p)
  /\ Move(c, p, "closed")
  /\ HandleConnection(c, p)
  /\ UNCHANGED <<plan, mpi, sendq, completing, deferConnect, deferWrites, writes, sent, received>>

-----------------------------------------------------------------------------
Connect(c) ==
  \/ ConnectSucceeded(c) \/ SendOpenRequestSucceeded(c) \/ AcceptNewConnection(c)
  \/ RecvOpenRequestData(c) \/ RecvOpenRequestFailed(c)
  \/ SendOpenResponseSucceeded(c) \/ RecvOpenResponse(c)

Progress(p) ==
  \/ ConnectDeferred(p) \/ WriteDeferred(p) \/ SendHead(p) \/ FinalizeReturn(p)
  \/ \E c \in Proc :
       \/ SendMessageSucceeded(c, p) \/ HandleData(c, p) \/ HandleClose(c, p)
       \/ RecvFailed(c, p) \/ GracefulCloseDiscard(c, p) \/ CloseConnectionComplete(c, p)

Next ==
  \E p \in Proc :
    SendMessage(p) \/ Finalize(p) \/ Establish(p) \/ Connect(p) \/ Progress(p)

(* Every callback is called in the end, and every program sends its messages *)
(* and finalizes.                                                            *)
Spec ==
  /\ Init /\ [][Next]_vars
  /\ \A p \in Proc :
       /\ WF_vars(SendMessage(p)) /\ WF_vars(Finalize(p))
       /\ WF_vars(Establish(p)) /\ WF_vars(Connect(p)) /\ WF_vars(Progress(p))

-----------------------------------------------------------------------------
Stages ==
  {"none", "connecting", "established", "requesting", "awaiting", "refused", "aborted", "accepted",
   "accepting", "rejecting", "open", "draining", "ended", "closing", "closed"}

Wired == Packets \cup [type : {"OPEN_REQ", "FIN"}] \cup [type : {"OPEN_RESP"}, ack : BOOLEAN]

TypeOK ==
  /\ plan \in Plans
  /\ mpi \in [Proc -> {"running", "finalizing", "finalized"}]
  /\ state \in [Proc -> {"INACTIVE", "ACTIVE", "LOCAL_CLOSE", "REMOTE_CLOSE", "CLOSE_ACKED"}]
  /\ chState \in [Proc -> {"UNCONNECTED", "CONNECTING", "CONNECTED"}]
  /\ conn \in [Proc -> Proc \cup {None}]
  /\ sendq \in [Proc -> Seq(Packets)]
  /\ outstanding \in [Proc -> {0, 1}]
  /\ completing \in [Proc -> Proc \cup {None}]
  /\ deferConnect \in [Proc -> BOOLEAN]
  /\ deferWrites \in [Proc -> Nat]
  /\ stage \in [Proc -> [Proc -> Stages]]
  /\ writes \in [Proc -> [Proc -> Nat]]
  /\ wire \in [Proc -> [Proc -> Seq(Wired)]]
  /\ sent \in [Proc -> Seq(Packets)]
  /\ received \in [Proc -> Seq(Packets)]

(***************************************************************************)
(* When a write is complete its packet is the head of the queue, and no    *)
(* other write of it is under way (the assertion that SendMessageSucceeded *)
(* makes): nobody else writes or takes the head of the queue.              *)
(***************************************************************************)
OneWriter ==
  \A c, p \in Proc : writes[c][p] > 0 =>
    sendq[p] # <<>> /\ writes[c][p] = 1 /\ writes[1 - c][p] = 0

(***************************************************************************)
(* Both sides never use, and never settle for, different connections: of   *)
(* two that are begun at once one wins, and the other carries nothing.     *)
(***************************************************************************)
OneConnection ==
  /\ ~\E c \in Proc : stage[c][0] = "open" /\ stage[1 - c][1] = "open"
  /\ \A c, p \in Proc :
       /\ stage[c][p] \in {"open", "draining"} => conn[p] = c
       /\ (\E i \in DOMAIN wire[c][p] : wire[c][p][i] \in Packets) =>
            conn[Peer(p)] \in {c, None}

(***************************************************************************)
(* The close protocol never handles a close packet in a state for which it *)
(* has no answer, never closes under packets of the queue, and ends once   *)
(* for each time it was begun (the assertions of its handlers).            *)
(***************************************************************************)
CloseInOrder ==
  \A p \in Proc :
    /\ outstanding[p] = 1 <=> state[p] \in {"LOCAL_CLOSE", "CLOSE_ACKED"}
    /\ \A c \in Proc :
         /\ stage[c][p] = "closing" /\ conn[p] = c => sendq[p] = <<>> /\ state[p] = "CLOSE_ACKED"
         /\ stage[c][p] = "open" /\ Arrived(c, p, "CLOSE") =>
              state[p] \in (IF Head(wire[c][Peer(p)]).ack THEN {"LOCAL_CLOSE", "CLOSE_ACKED"}
                            ELSE {"ACTIVE", "LOCAL_CLOSE"})

(* A process has terminated its connection: nothing of it is left. *)
ended == [p \in Proc |-> mpi[p] # "running" /\ outstanding[p] = 0 /\ sent[p] # <<>>]

(***************************************************************************)
(* The connection is the Channel it is meant to be: over all of connecting *)
(* twice, queueing and closing, each packet is handled once and in order,  *)
(* and a side that has ended has left nothing unread on either side.       *)
(***************************************************************************)
C == INSTANCE Channel WITH Packet <- Packets
ChannelSpec == C!Spec

(***************************************************************************)
(* Every message arrives and MPI_Finalize returns: a refused connection    *)
(* always finds the one that won, no packet stays in the queue, and the    *)
(* close protocol comes to its end whoever begins it.                      *)
(***************************************************************************)
FinalizeReturns == \A p \in Proc : <>(mpi[p] = "finalized")
=============================================================================

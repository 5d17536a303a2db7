---------------------------- MODULE ConnectionInv ----------------------------
(***************************************************************************)
(* The inductive invariant of Connection: why what a virtual connection    *)
(* promises holds, in terms of its two ends, the wires and the queues.     *)
(***************************************************************************)
EXTENDS Connection

(* If threads send while another makes progress, only one process does.    *)
OneSender ==
  \A pl \in Plans : pl.threads => pl.messages[1] = 0 \/ pl.messages[2] = 0

(***************************************************************************)
(* Of two connections that are asked for, the one of process 1 wins: c is  *)
(* the main connection, its asker is process c.                            *)
(***************************************************************************)
Main == IF stage[1][1] = "none" THEN 0 ELSE 1

Asking == {"connecting", "established", "requesting", "awaiting"}
Requested == {"requesting", "awaiting"}
Over == {"open", "draining", "closing", "closed"}   \* the handshake is
Agreed == {"accepting"} \cup Over
Live == {"open", "draining", "closing"}

Closed(p) == stage[Main][p] = "closed"

Handshake ==
  LET a == stage[Main][Main]
      b == stage[Main][1 - Main]
  IN /\ a \in {"none"} \cup Asking \cup Over
     /\ b \in {"none", "accepted"} \cup Agreed
     /\ a \in {"none", "connecting"} => b = "none"
     /\ a = "established" => b \in {"none", "accepted"}
     /\ a \in Requested => b \in {"none", "accepted", "accepting", "open"}
     /\ a \in Over => b \in Agreed
     /\ \A p \in Proc : Closed(p) => stage[Main][1 - p] \in {"closing", "closed"}

(* What p has put on the main connection's wire before and after packets. *)
Before(p) ==
  IF stage[Main][Main] \in Requested
  THEN CASE p = Main /\ stage[Main][1 - Main] \in {"none", "accepted"} -> <<OpenReq>>
         [] p # Main /\ stage[Main][1 - Main] \in Agreed -> <<OpenResp(TRUE)>>
         [] OTHER -> <<>>
  ELSE <<>>

After(p) ==
  IF stage[Main][p] \in {"closing", "closed"} /\ ~Closed(1 - p) THEN <<Fin>> ELSE <<>>

(* The packets of p on the way. *)
Way(p) ==
  SubSeq(wire[Main][p], Len(Before(p)) + 1, Len(wire[Main][p]) - Len(After(p)))

(* The packets of p that are yet to be written: the head of the queue may have been. *)
Unwritten(p) == IF writes[Main][p] = 0 THEN sendq[p] ELSE Tail(sendq[p])

Flow(p) ==
  /\ Way(p) \in Seq(Packets)
  /\ wire[Main][p] = Before(p) \o Way(p) \o After(p)
  /\ sent[p] = received[1 - p] \o Way(p) \o Unwritten(p)
  /\ stage[Main][p] \notin Over => Way(p) = <<>>

-----------------------------------------------------------------------------
(* Which connection a process uses. *)
Conns ==
  /\ stage[Main][Main] \in Asking \cup Live => conn[Main] = Main
  /\ stage[Main][Main] = "none" => conn[Main] = None
  /\ stage[Main][1 - Main] \in {"accepting"} \cup Live => conn[1 - Main] = Main
  /\ stage[Main][1 - Main] \in {"none", "accepted"} => conn[1 - Main] \in {None, 0}
  /\ Closed(1 - Main) => conn[1 - Main] = None
  /\ Closed(Main) => conn[Main] \in {None, 0}
  /\ Main = 0 => conn[1] \in {None, 0} /\ (conn[1] = 0 => stage[0][1] \in {"accepting"} \cup Live)
  /\ conn[0] = 0 => stage[0][0] # "none"

(***************************************************************************)
(* A late acceptance of the connection that lost, whose asker has long     *)
(* left it, after all of the main connection is over.                      *)
(***************************************************************************)
Late == Main = 1 /\ conn[1] = 0

(* The other connection carries no packets and comes to nothing. *)
Other ==
  /\ Main = 0 => /\ \A p \in Proc : stage[1][p] = "none" /\ wire[1][p] = <<>>
  /\ Main = 1 =>
       /\ stage[0][0] = "none" => stage[0][1] = "none" /\ wire[0][0] = <<>> /\ wire[0][1] = <<>>
       /\ conn[0] # 0 => stage[0][0] \in {"none", "aborted", "closing", "closed"}
       /\ conn[0] = 0 => /\ stage[0][0] \in Asking \cup {"refused", "ended"}
                         /\ stage[1][0] \in {"none", "accepted"}
                         /\ wire[0][1] \in Seq({OpenResp(FALSE), Fin})
       /\ conn[0] = None => stage[0][0] = "none" \/ stage[1][0] = "closed"
       /\ wire[0][0] \in Seq({OpenReq, Fin})
       /\ wire[0][1] \in Seq({OpenResp(TRUE), OpenResp(FALSE), Fin})
       /\ stage[0][1] \in {"none", "accepted", "rejecting", "closing", "closed", "accepting", "open", "ended"}
       /\ Late <=> stage[0][1] \in {"accepting", "open", "ended"}
       /\ Late => stage[1][1] = "closed"

-----------------------------------------------------------------------------
(* Queues and who writes. *)
Queue(p) ==
  /\ conn[p] = None <=> chState[p] = "UNCONNECTED"
  /\ chState[p] = "CONNECTED" =>
       \/ conn[p] = Main /\ stage[Main][p] \in Live
       \/ p = 1 /\ Late
  /\ completing[p] # None =>
       /\ conn[p] = completing[p] /\ chState[p] = "CONNECTED"
       /\ stage[conn[p]][p] = "open" /\ writes[Main][p] = 0
       /\ completing[p] = p => sendq[p] # <<>>
  /\ writes[Main][p] \in {0, 1} /\ writes[1 - Main][p] = 0
  /\ writes[Main][p] = 1 => sendq[p] # <<>> /\ stage[Main][p] \in {"open", "draining"}
  /\ stage[Main][p] \in {"closing", "closed"} => sendq[p] = <<>>
  /\ conn[p] = p /\ stage[p][p] \notin Over => sendq[p] # <<>>
  /\ conn[p] = None /\ ~Closed(p) /\ state[p] # "INACTIVE" => sendq[p] # <<>>

Deferrals(p) ==
  /\ plan.threads /\ plan.messages[p + 1] = 0 => stage[p][p] = "none" /\ ~deferConnect[p]
  /\ deferConnect[p] =>
       plan.threads /\ conn[p] = None /\ sendq[p] # <<>> /\ ~Closed(p) /\ state[p] # "INACTIVE"
  /\ deferWrites[p] \in {0, 1}
  /\ deferWrites[p] > 0 =>
       /\ sendq[p] # <<>> /\ writes[Main][p] = 0 /\ completing[p] = None
       /\ conn[p] = Main /\ stage[Main][p] \in {"open", "draining"}

-----------------------------------------------------------------------------
(* The close packets in what a process has sent or received: none, one that *)
(* asks, one that answers, or both, and nothing behind them.                *)
NoClose(s) == \A i \in 1 .. Len(s) : s[i].type = "DATA"

Asks(s) ==
  /\ Len(s) > 0 /\ s[Len(s)] = Close(FALSE)
  /\ \A i \in 1 .. Len(s) : i < Len(s) => s[i].type = "DATA"

Answers(s) ==
  /\ Len(s) > 0 /\ s[Len(s)] = Close(TRUE)
  /\ \A i \in 1 .. Len(s) : i < Len(s) => s[i].type = "DATA"

Both(s) ==
  /\ Len(s) > 1 /\ s[Len(s)] = Close(TRUE) /\ s[Len(s) - 1] = Close(FALSE)
  /\ \A i \in 1 .. Len(s) : i < Len(s) - 1 => s[i].type = "DATA"

Complete(s) == Answers(s) \/ Both(s)

Protocol(p) ==
  /\ mpi[p] = "running" => NoClose(sent[p])
  /\ ended[p] <=> Closed(p)
  /\ Closed(p) => /\ mpi[p] # "running" /\ outstanding[p] = 0
                  /\ Complete(sent[p]) /\ Complete(received[p])
                  /\ state[p] = IF p = 1 /\ Late THEN "ACTIVE" ELSE "INACTIVE"
  /\ ~Closed(p) =>
       /\ state[p] = "INACTIVE" => /\ sent[p] = <<>> /\ received[p] = <<>>
                                   /\ outstanding[p] = 0 /\ conn[p] = None
       /\ state[p] = "ACTIVE" => /\ NoClose(sent[p]) /\ NoClose(received[p])
                                 /\ outstanding[p] = 0
       /\ state[p] = "LOCAL_CLOSE" => /\ Asks(sent[p]) /\ NoClose(received[p])
                                      /\ outstanding[p] = 1 /\ mpi[p] # "running"
       /\ state[p] = "REMOTE_CLOSE" => /\ NoClose(sent[p]) /\ Asks(received[p])
                                       /\ outstanding[p] = 0
       /\ state[p] = "CLOSE_ACKED" =>
            /\ outstanding[p] = 1 /\ mpi[p] # "running"
            /\ \/ Both(sent[p]) /\ (Asks(received[p]) \/ Complete(received[p]))
               \/ Answers(sent[p]) /\ (Asks(received[p]) \/ Both(received[p]))
            /\ Complete(received[p]) => stage[Main][p] \in {"draining", "closing"}
       /\ stage[Main][p] \in {"draining", "closing"} =>
            state[p] = "CLOSE_ACKED" /\ Complete(received[p])

(***************************************************************************)
(* The connection is always in order: its ends fit each other, what is on  *)
(* the wires and in the queues is what was sent and not yet received, one  *)
(* connection at most is in use, and the close packets say how far both    *)
(* sides are.                                                              *)
(***************************************************************************)
Inv ==
  /\ TypeOK
  /\ Handshake /\ Conns /\ Other
  /\ \A p \in Proc : Flow(p) /\ Queue(p) /\ Deferrals(p) /\ Protocol(p)
=============================================================================

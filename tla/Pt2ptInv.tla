------------------------------ MODULE Pt2ptInv ------------------------------
(***************************************************************************)
(* What is true of Pt2pt in every state: where the messages are, and which *)
(* send a handle names.                                                    *)
(***************************************************************************)
EXTENDS Pt2pt

(* Does s have an element of S? *)
In(s, S) == \E x \in Range(s) : x \in S

(* What p has sent to q and q has not handled, in the order of sending. *)
Flow(p, q) == wire[p][q] \o sendq[p][q]

OfType(T, h) == {k \in Packet : k.type \in T /\ k.sreq = h}

-----------------------------------------------------------------------------
(* A request to cancel send h of p is on its way to q. *)
CancelAsked(p, q, h) == In(Flow(p, q), OfType({"CANCEL_SEND_REQ"}, h))

(* Does a send of these fields end with an answer of its receiver? *)
Awaits(r) == r.msgType = "RNDV" \/ r.type = "SSEND"

-----------------------------------------------------------------------------
(* A packet that is, or announces, a message. *)
Message(k) == k.type \in EagerTypes \cup {"RTS"}

(* Message n of p, to q with tag t, has not been matched or cancelled. *)
IsPending(p, n, q, t) ==
  /\ n \in 1 .. Len(sent[p])
  /\ sent[p][n].dst = q /\ sent[p][n].tag = t /\ sent[p][n].fate = "pending"

Messages(p, q) == {k \in Range(Flow(p, q)) : Message(k)}
Arrivals(p, q) == {e \in Range(unexpected[q]) : e.rank = p}

(* Receive n of q, of rank r and tag t, has not been matched or cancelled. *)
IsOpen(q, n, r, t) ==
  /\ n \in 1 .. Len(rcvd[q])
  /\ rcvd[q][n].rank = r /\ rcvd[q][n].tag = t /\ rcvd[q][n].fate = "pending"

(* The messages of a connection are in the order of the calls, and so are  *)
(* those of one sender in the unexpected queue. *)
InOrder(s) ==
  \A i, j \in 1 .. Len(s) : i < j /\ Message(s[i]) /\ Message(s[j]) => s[i].id < s[j].id
InRankOrder(s) ==
  \A i, j \in 1 .. Len(s) : i < j /\ s[i].rank = s[j].rank => s[i].id < s[j].id
InPostOrder(s) == \A i, j \in 1 .. Len(s) : i < j => s[i].id < s[j].id

(***************************************************************************)
(* Every message that is not matched or cancelled is on its connection or  *)
(* in the unexpected queue of its receiver, once, behind the earlier ones. *)
(***************************************************************************)
InTransit(p, q) ==
  /\ InOrder(Flow(p, q))
  /\ \A k \in Messages(p, q) : p # q /\ IsPending(p, k.id, q, k.tag)
  /\ \A e \in Arrivals(p, q) : IsPending(p, e.id, q, e.tag)
  /\ \A k \in Messages(p, q), e \in Arrivals(p, q) : e.id < k.id
  /\ \A n \in 1 .. Len(sent[p]), t \in Tag : IsPending(p, n, q, t) =>
       \/ \E k \in Messages(p, q) : k.id = n
       \/ \E e \in Arrivals(p, q) : e.id = n

(* The posted receives are those not yet matched or cancelled, in order. *)
PostedInv(q) ==
  /\ InPostOrder(posted[q])
  /\ \A e \in Range(posted[q]) : IsOpen(q, e.id, e.rank, e.tag)
  /\ \A n \in 1 .. Len(rcvd[q]) :
       IsOpen(q, n, rcvd[q][n].rank, rcvd[q][n].tag) =>
         \E e \in Range(posted[q]) : e.id = n

(* A send to oneself names the process itself. *)
SelfInv == \A p \in Proc, h \in Handle :
  IsSend(req[p][h]) /\ req[p][h].msgType = "SELF" => req[p][h].rank = p

MessageInv ==
  /\ \A p, q \in Proc : InTransit(p, q)
  /\ \A q \in Proc : InRankOrder(unexpected[q]) /\ PostedInv(q)

-----------------------------------------------------------------------------
(***************************************************************************)
(* What a cancel relies on.  A handle is reused, so the invariant is that  *)
(* of a process that allocates none twice: a handle in a packet or in a    *)
(* queue then stands for one send or one receive for ever.                 *)
(***************************************************************************)
SendOf(p, h) == sent[p][req[p][h].id]
Used(p, h) == req[p][h].gen > 0

(* Handle h of p is that of the send of message n, or was. *)
NamesSend(p, h, n) == Used(p, h) /\ (IsSend(req[p][h]) => req[p][h].id = n)

NamesRecv(q, g) == Used(q, g) /\ ~IsSend(req[q][g])

AllAsked(p, q, h) ==
  /\ \A k \in Messages(p, q) : k.sreq = h => sent[p][k.id].asked
  /\ \A e \in Arrivals(p, q) : e.sreq = h => sent[p][e.id].asked

HandleInv ==
  /\ \A p \in Proc, h \in Handle : req[p][h].type # "FREE" => Used(p, h)
  /\ \A p, q \in Proc :
       /\ \A k \in Messages(p, q) : NamesSend(p, k.sreq, k.id)
       /\ \A e \in Arrivals(p, q) : e.sreq # None => NamesSend(p, e.sreq, e.id)
  /\ \A q \in Proc :
       /\ \A e \in Range(posted[q]) : NamesRecv(q, e.rreq)
       /\ \A e \in Range(unexpected[q]) : NamesRecv(q, e.rreq)

(* The cancel of a send is recorded where it was asked for. *)
LedgerInv ==
  /\ \A p \in Proc, h \in Handle : IsSend(req[p][h]) =>
       /\ req[p][h].id \in 1 .. Len(sent[p])
       /\ SendOf(p, h).asked = req[p][h].cancelPending
  /\ \A p \in Proc, h, g \in Handle :
       IsSend(req[p][h]) /\ IsSend(req[p][g]) /\ req[p][h].id = req[p][g].id => h = g

AskedInv ==
  \A p, q \in Proc, h \in Handle : CancelAsked(p, q, h) =>
    Cancelling /\ Used(p, h) /\ AllAsked(p, q, h)

CancelInv ==
  /\ AskedInv
  /\ Cancelling => HandleInv /\ LedgerInv

(***************************************************************************)
(* The invariant under which every step of Pt2pt is one of Matching: what  *)
(* is pending is where its receiver will find it and in order, and the     *)
(* handle in a request to cancel still names the send that is cancelled.   *)
(* MPID_Recvq_dq_msg_by_id and the queues rely on it.                      *)
(***************************************************************************)
MatchingInv == MessageInv /\ SelfInv /\ CancelInv

-----------------------------------------------------------------------------
(***************************************************************************)
(* Who holds the references of a request.  Whatever does counts for one:   *)
(* the application, a packet, an entry of a queue, a payload being read,   *)
(* a receiver that still owes an answer.  No step creates or destroys more *)
(* of them than the references it takes or gives up.                       *)
(***************************************************************************)
Num(b) == IF b THEN 1 ELSE 0
NumIn(s, S) == Cardinality({i \in DOMAIN s : s[i] \in S})

(* What carries a request of the sender, asks for an answer, or is one. *)
Carriers == EagerTypes \cup {"RNDV_SEND"}
Asks == {"RTS", "EAGER_SYNC_SEND"}
Questions == Asks \cup {"CANCEL_SEND_REQ"}
Answers == {"CTS", "SYNC_ACK", "CANCEL_SEND_RESP"}

(* The positive answers to a cancel of send h: they stand for the answer   *)
(* to the message as well, when the message awaits one.                    *)
AcksOf(h) == {k \in Packet : k.type = "CANCEL_SEND_RESP" /\ k.sreq = h /\ k.ack}
ForRecv(T, g) == {k \in Packet : k.type \in T /\ k.rreq = g}
PostingsOf(g) == {e \in Posting : e.rreq = g}
ArrivalsOf(g) == {e \in Arrival : e.rreq = g}

(* The receives of q that owe send h of p an answer. *)
Debtors(p, q, h) == {g \in Handle : OwesAnswer(q, g, p, h)}

(* What holds a reference to send h of p, as a send to q. *)
SendTokens(p, q, h) ==
  NumIn(sendq[p][q], OfType(Carriers, h)) + NumIn(Flow(p, q), OfType(Questions, h))
  + Cardinality(Debtors(p, q, h)) + NumIn(Flow(q, p), OfType(Answers, h))
  + IF Awaits(req[p][h]) THEN NumIn(Flow(q, p), AcksOf(h)) ELSE 0

(* The last step of a call takes a reference that is counted already. *)
SendRefs(p, h) ==
  LET r == req[p][h] IN
  /\ \A q \in Proc :
       /\ IsFiniteSet(Debtors(p, q, h))
       /\ SendTokens(p, q, h) > 0 => IsSend(r) /\ r.rank = q
  /\ IsSend(r) =>
       /\ r.rank \in Proc /\ r.ref > 0
       /\ r.ref + Num(call[p] = h) = Num(user[p][h] # "none") + SendTokens(p, r.rank, h)

(* Does a receive of these fields owe its sender an answer? *)
Owes(r) == r.msgType = "RNDV" \/ r.syncAck

(* What holds a reference to receive g of q: its two queues, and what the  *)
(* connection with p has under way for it. *)
NumPosted(q, g) == NumIn(posted[q], PostingsOf(g))
NumQueued(q, g) == NumIn(unexpected[q], ArrivalsOf(g))
UnderWay(q, p, g) ==
  NumIn(Flow(q, p), ForRecv({"CTS"}, g)) + NumIn(Flow(p, q), ForRecv({"RNDV_SEND"}, g))
  + Num(reading[q][p] = g)

RecvIdle(q, g) ==
  /\ NumPosted(q, g) = 0 /\ NumQueued(q, g) = 0 /\ user[q][g] # "message"
  /\ \A p \in Proc : UnderWay(q, p, g) = 0

(* Receive g of q has to do with p only. *)
RecvWith(q, p, g) ==
  LET r == req[q][g] IN
  /\ \A a \in Proc : a # p => UnderWay(q, a, g) = 0
  /\ NumQueued(q, g) > 0 \/ user[q][g] = "message" =>
       /\ r.rank = p
       /\ Owes(r) => r.senderReq \in Handle /\ p # q /\ r.msgType # "SELF"
  /\ r.ref = Num(user[q][g] # "none") + NumPosted(q, g) + NumQueued(q, g) + UnderWay(q, p, g)

RecvRefs(q, g) ==
  IF req[q][g].type # "RECV" THEN RecvIdle(q, g)
  ELSE /\ req[q][g].ref > 0
       /\ \E p \in Proc : RecvWith(q, p, g)
       /\ NumQueued(q, g) > 0 => NumQueued(q, g) = 1 /\ user[q][g] = "none"
       /\ NumPosted(q, g) > 0 =>
            /\ NumPosted(q, g) = 1 /\ NumQueued(q, g) = 0 /\ user[q][g] # "message"
            /\ \A p \in Proc : UnderWay(q, p, g) = 0

KeptInv(p, h) ==
  LET r == req[p][h] IN
  /\ r.type = "FREE" => user[p][h] = "none" /\ r.ref = 0
  /\ IsSend(r) /\ r.msgType # "SELF" => r.rank # p
  /\ call[p] = h => IsSend(r)

(* A message that waits says who sent it and by which request. *)
SaysWho(q, e) == req[q][e.rreq].rank = e.rank /\ req[q][e.rreq].senderReq = e.sreq

(* A packet asks for an answer exactly when its send awaits one, and the   *)
(* receive that waits for its message owes one then. *)
NamesInv ==
  /\ \A p, q \in Proc : \A k \in Messages(p, q) :
       IsSend(req[p][k.sreq]) => (k.type \in Asks <=> Awaits(req[p][k.sreq]))
  /\ \A p, q \in Proc : \A e \in Arrivals(p, q) :
       p # q /\ e.sreq # None /\ IsSend(req[p][e.sreq]) =>
         (Owes(req[q][e.rreq]) <=> Awaits(req[p][e.sreq]))

RefInv ==
  /\ \A p \in Proc, h \in Handle : SendRefs(p, h) /\ RecvRefs(p, h) /\ KeptInv(p, h)
  /\ \A p \in Proc : wire[p][p] = <<>> /\ sendq[p][p] = <<>>
  /\ \A p, q \in Proc : \A k \in Range(Flow(p, q)) :
       k.type \in Answers \cup {"RNDV_SEND"} => k.sreq \in Handle
  /\ \A q \in Proc : \A e \in Range(unexpected[q]) : SaysWho(q, e)
  /\ Cancelling => NamesInv
=============================================================================

-------------------------------- MODULE Pt2pt --------------------------------
(***************************************************************************)
(* The point-to-point core of the MS-MPI device (mpid/pt2pt.cpp,           *)
(* mpid/packethandling.cpp, include/request.inl): requests and their two   *)
(* counters, the posted and unexpected receive queues, and the eager,      *)
(* synchronous, ready, rendezvous, self-send and cancel protocols over one *)
(* FIFO connection per ordered pair of processes.                          *)
(*                                                                         *)
(* Left out: datatypes and truncation (a message has a size class), more   *)
(* than one communicator, connection failure, persistent requests.         *)
(***************************************************************************)
EXTENDS Integers, SequencesExt

CONSTANTS
  Proc,           \* the processes of one communicator
  Tag, UserTag,   \* all tags, and those MPI_ANY_TAG accepts (tag >= 0)
  Wildcard, None, \* MPI_ANY_SOURCE / MPI_ANY_TAG, and "no handle / no value"
  Handle,         \* the request handles of one process (MPID_Request_mem)
  Mode,           \* send modes in use, among "SEND", "SSEND", "RSEND"
  Size,           \* size classes in use, among "zero", "eager", "rndv"
  Route,          \* the pairs <<sender, destination>> the application uses
  Filters,        \* the [rank, tag] pairs its receives and probes name
  Probing,        \* does the application call MPI_Improbe / MPI_Imrecv?
  Cancelling,     \* does it call MPI_Cancel?
  FreeActive,     \* does it call MPI_Request_free on active requests?
  MultiThreaded,  \* MPI_THREAD_MULTIPLE: another thread may make progress
  MaxSend,        \* bound: sends by each process, a function of the process
  MaxRecv,        \* bound: receives by each process, likewise
  MaxGen,         \* bound: how often one handle is allocated
  MaxWire         \* bound: packets a connection holds in flight

ASSUME TagAssumption == UserTag \subseteq Tag
ASSUME WildcardAssumption == Wildcard \notin Proc \cup Tag
ASSUME NoneAssumption == None \notin Handle \cup Proc \cup (Proc \X Nat)
ASSUME ModeAssumption == Mode \subseteq {"SEND", "SSEND", "RSEND"}
ASSUME SizeAssumption == Size \subseteq {"zero", "eager", "rndv"}
ASSUME RouteAssumption == Route \subseteq Proc \X Proc
ASSUME FilterAssumption ==
  Filters \subseteq [rank : Proc \cup {Wildcard}, tag : Tag \cup {Wildcard}]
ASSUME BoundAssumption ==
  /\ MaxSend \in [Proc -> Nat] /\ MaxRecv \in [Proc -> Nat]
  /\ MaxGen \in Nat /\ MaxWire \in Nat \ {0}
ASSUME SwitchAssumption ==
  {Probing, Cancelling, FreeActive, MultiThreaded} \subseteq BOOLEAN

VARIABLES
  req,         \* req[p][h]: the request object behind handle h of process p
  user,        \* user[p][h]: how the application holds h, if it does
  posted,      \* posted[p]: recvq_posted, with each request's dev.match
  unexpected,  \* unexpected[p]: recvq_unexpected, likewise
  sendq,       \* sendq[p][q]: the SendQ of p's virtual connection to q
  wire,        \* wire[p][q]: what p has written to q and q has not read
  reading,     \* reading[q][p]: the request whose payload q reads from p
  call,        \* call[p]: a request whose call has sent a packet but has
               \* still to take the reference that packet's answer needs
  sent, rcvd   \* the sends and receives of each process so far (history)

queues == <<posted, unexpected>>
net == <<sendq, wire, reading>>
history == <<sent, rcvd>>
vars == <<req, user, queues, net, call, history>>

-----------------------------------------------------------------------------
(***************************************************************************)
(* Requests (MPID_Request).  ref is ref_count, cc the completion counter,  *)
(* rank and tag are dev.match; onUe says that OnDataAvail is               *)
(* UnpackUEBufComplete; id is the position in sent or rcvd (history).      *)
(***************************************************************************)
Request ==
  [type : {"FREE", "RECV", "SEND", "SSEND", "RSEND"}, gen : Nat,
   ref : Int, cc : Int, msgType : {"NONE", "EAGER", "RNDV", "SELF"},
   rank : Proc \cup {None}, tag : Tag \cup {None},
   size : {"zero", "eager", "rndv"},
   pending : Int, onUe : BOOLEAN, syncAck : BOOLEAN,
   senderReq : Handle \cup {None}, partner : Handle \cup {None},
   cancelled : BOOLEAN, cancelPending : BOOLEAN,
   error : BOOLEAN, delivered : BOOLEAN, id : Nat]

(* A request in the free list of the pool: nobody resets recv_pending_count. *)
FreeRequest(gen, pending) ==
  [type |-> "FREE", gen |-> gen, ref |-> 0, cc |-> 0, msgType |-> "NONE",
   rank |-> None, tag |-> None, size |-> "zero",
   pending |-> pending, onUe |-> FALSE, syncAck |-> FALSE,
   senderReq |-> None, partner |-> None,
   cancelled |-> FALSE, cancelPending |-> FALSE,
   error |-> FALSE, delivered |-> FALSE, id |-> 0]

(* MPID_Request_create_base: one reference, one completion to come. *)
NewRequest(r, type) ==
  [FreeRequest(r.gen + 1, r.pending) EXCEPT !.type = type, !.ref = 1, !.cc = 1]

AddRef(r) == [r EXCEPT !.ref = @ + 1]
Release(r) ==
  IF r.ref = 1 THEN FreeRequest(r.gen, r.pending) ELSE [r EXCEPT !.ref = @ - 1]
SignalCompletion(r) == [r EXCEPT !.cc = @ - 1]
PostponeCompletion(r) == [r EXCEPT !.cc = @ + 1]

(* Handles MPIU_Handle_obj_alloc can return: destroyed ones are reused. *)
FreeHandles(p) ==
  {h \in Handle : req[p][h].type = "FREE" /\ req[p][h].gen < MaxGen}

(***************************************************************************)
(* Packets.  sreq in RNDV_SEND is the request being written, which only    *)
(* the sender's queue looks at.  An answer carries the sender_req_id of a  *)
(* receive request, which its type allows to be MPI_REQUEST_NULL.          *)
(***************************************************************************)
EagerTypes == {"EAGER_SEND", "EAGER_SYNC_SEND", "READY_SEND"}

Packet ==
  [type : EagerTypes \cup {"RTS"}, sreq : Handle, tag : Tag,
   size : {"zero", "eager", "rndv"}, id : Nat]
  \cup [type : {"SYNC_ACK"}, sreq : Handle \cup {None}]
  \cup [type : {"CTS", "RNDV_SEND"}, sreq : Handle \cup {None}, rreq : Handle]
  \cup [type : {"CANCEL_SEND_REQ"}, sreq : Handle, tag : Tag \cup {None}]
  \cup [type : {"CANCEL_SEND_RESP"}, sreq : Handle, ack : BOOLEAN]

(* Mutant: a request-to-send goes out as the user's request and completes it. *)
CarriesRequestEarly(k) == k.type \in EagerTypes \cup {"RTS"}

(* Packets that are part of the user's request, rather than ffSend's own. *)
CarriesRequest(k) == k.type \in EagerTypes \cup {"RNDV_SEND"}

EagerPacketType(mode) ==
  CASE mode = "SEND" -> "EAGER_SEND"
    [] mode = "SSEND" -> "EAGER_SYNC_SEND"
    [] mode = "RSEND" -> "READY_SEND"

Envelope(type, h, r) ==
  [type |-> type, sreq |-> h, tag |-> r.tag, size |-> r.size, id |-> r.id]

Posting == [rreq : Handle, rank : Proc \cup {Wildcard}, tag : Tag \cup {Wildcard}, id : Nat]
Arrival == [rreq : Handle, rank : Proc, tag : Tag,
            sreq : Handle \cup {None}, id : Nat]

SendRec == [dst : Proc, tag : Tag, asked : BOOLEAN,
            fate : {"pending", "matched", "cancelled"}, mode : Mode,
            outcome : {"active", "done", "cancelled", "freed"}]
RecvRec == [rank : Proc \cup {Wildcard}, tag : Tag \cup {Wildcard},
            fate : {"pending", "matched", "cancelled"},
            msg : (Proc \X Nat) \cup {None}]

-----------------------------------------------------------------------------
(***************************************************************************)
(* matching(match, filter), and the searches of the two queues: each takes *)
(* the first entry from the head that matches.                             *)
(***************************************************************************)
Matches(p, t, f) ==
  /\ f.rank # Wildcard => f.rank = p
  /\ IF f.tag = Wildcard THEN t \in UserTag ELSE f.tag = t

FirstPosted(q, p, t, i) ==
  /\ i \in 1 .. Len(posted[q])
  /\ Matches(p, t, posted[q][i])
  /\ \A k \in 1 .. i - 1 : ~Matches(p, t, posted[q][k])

(* Mutant: wildcards are compared like any other rank and tag. *)
NonePostedByName(q, p, t) ==
  \A k \in 1 .. Len(posted[q]) : posted[q][k].rank # p \/ posted[q][k].tag # t

NonePosted(q, p, t) == \A k \in 1 .. Len(posted[q]) : ~Matches(p, t, posted[q][k])

(* Mutant: takes any entry that matches. *)
AnyUnexpected(q, f, i) ==
  /\ i \in 1 .. Len(unexpected[q])
  /\ Matches(unexpected[q][i].rank, unexpected[q][i].tag, f)

FirstUnexpected(q, f, i) ==
  /\ i \in 1 .. Len(unexpected[q])
  /\ Matches(unexpected[q][i].rank, unexpected[q][i].tag, f)
  /\ \A k \in 1 .. i - 1 :
       ~Matches(unexpected[q][k].rank, unexpected[q][k].tag, f)

NoneUnexpected(q, f) ==
  \A k \in 1 .. Len(unexpected[q]) :
    ~Matches(unexpected[q][k].rank, unexpected[q][k].tag, f)

(* Mutant: the sender's handle without the sender. *)
IsMessageOfAnyone(e, h, p, t) == e.sreq = h /\ e.tag = t

(* MPID_Recvq_dq_msg_by_id: by the sender's handle and the envelope. *)
IsMessage(e, h, p, t) == e.sreq = h /\ e.rank = p /\ e.tag = t

FirstById(q, h, p, t, i) ==
  /\ i \in 1 .. Len(unexpected[q])
  /\ IsMessage(unexpected[q][i], h, p, t)
  /\ \A k \in 1 .. i - 1 : ~IsMessage(unexpected[q][k], h, p, t)

NoneById(q, h, p, t) ==
  \A k \in 1 .. Len(unexpected[q]) : ~IsMessage(unexpected[q][k], h, p, t)

(* History: message i of p is taken by the receive j of q. *)
MarkMatched(p, i, q, j) ==
  /\ sent' = [sent EXCEPT ![p][i].fate = "matched"]
  /\ rcvd' = [rcvd EXCEPT ![q][j].fate = "matched", ![q][j].msg = <<p, i>>]

-----------------------------------------------------------------------------
(***************************************************************************)
(* Sending: MPID_Send, MPID_Ssend, MPID_Rsend and the execute_ functions.  *)
(* SendRequest always queues here and Write below empties the queue; the   *)
(* code's inline write is the two steps taken one after the other.         *)
(***************************************************************************)
(* Mutant: rank and tag in the wrong order. *)
NewSreqSwapped(p, h, q, t, mode, size) ==
  [NewRequest(req[p][h], mode) EXCEPT
     !.rank = t, !.tag = q, !.size = size, !.id = Len(sent[p]) + 1]

NewSreq(p, h, q, t, mode, size) ==
  [NewRequest(req[p][h], mode) EXCEPT
     !.rank = q, !.tag = t, !.size = size, !.id = Len(sent[p]) + 1]

RecordSend(p, q, t, mode, fate, rest) ==
  Append(rest, [dst |-> q, tag |-> t, asked |-> FALSE, fate |-> fate,
                mode |-> mode, outcome |-> "active"])

IsEager(mode, size) == mode = "RSEND" \/ size # "rndv"

SendPacket(p, q, k) == sendq' = [sendq EXCEPT ![p][q] = Append(@, k)]

MayCall(p) == call[p] = None
MaySend(p, q) ==
  /\ MayCall(p)
  /\ <<p, q>> \in Route
  /\ Len(sent[p]) < MaxSend[p]

(* Mutant: a synchronous send ends like a standard one. *)
SendEagerAlike(p, q, h, r) ==
  /\ req' = [req EXCEPT ![p][h] = AddRef([r EXCEPT !.msgType = "EAGER"])]
  /\ SendPacket(p, q, Envelope(EagerPacketType(r.type), h, r))
  /\ UNCHANGED call

(* The reference is the queue's; execute_ssend takes another afterwards. *)
SendEager(p, q, h, r) ==
  /\ req' = [req EXCEPT ![p][h] = AddRef([r EXCEPT !.msgType = "EAGER"])]
  /\ SendPacket(p, q, Envelope(EagerPacketType(r.type), h, r))
  /\ call' = [call EXCEPT ![p] = IF r.type = "SSEND" THEN h ELSE None]

(* Mutant: no reference for the clear-to-send. *)
SendRndvUnkept(p, q, h, r) ==
  /\ req' = [req EXCEPT ![p][h] = [r EXCEPT !.msgType = "RNDV"]]
  /\ SendPacket(p, q, Envelope("RTS", h, r))
  /\ UNCHANGED call

(* The reference keeps the request until the clear-to-send comes back. *)
SendRndv(p, q, h, r) ==
  /\ req' = [req EXCEPT ![p][h] = AddRef([r EXCEPT !.msgType = "RNDV"])]
  /\ SendPacket(p, q, Envelope("RTS", h, r))
  /\ UNCHANGED call

Isend(p, q, t, mode, size, h) ==
  /\ MaySend(p, q) /\ p # q
  /\ h \in FreeHandles(p)
  /\ LET r == NewSreq(p, h, q, t, mode, size) IN
       IF IsEager(mode, size) THEN SendEager(p, q, h, r) ELSE SendRndv(p, q, h, r)
  /\ user' = [user EXCEPT ![p][h] = "request"]
  /\ sent' = [sent EXCEPT ![p] = RecordSend(p, q, t, mode, "pending", @)]
  /\ UNCHANGED <<queues, wire, reading, rcvd>>

(* Mutant: the completion is postponed, but the request is not kept. *)
FinishCallUnkept(p) ==
  /\ call[p] # None
  /\ req' = [req EXCEPT ![p][call[p]] = PostponeCompletion(@)]
  /\ call' = [call EXCEPT ![p] = None]
  /\ UNCHANGED <<user, queues, net, history>>

(* The end of execute_ssend and of MPID_Cancel_send, after the packet. *)
FinishCall(p) ==
  /\ call[p] # None
  /\ req' = [req EXCEPT ![p][call[p]] = PostponeCompletion(AddRef(@))]
  /\ call' = [call EXCEPT ![p] = None]
  /\ UNCHANGED <<user, queues, net, history>>

(* MPIDI_Isend_self when a posted receive matches: copy and complete both. *)
IsendSelfFound(p, t, mode, size, h, i) ==
  /\ MaySend(p, p)
  /\ h \in FreeHandles(p)
  /\ FirstPosted(p, p, t, i)
  /\ LET e == posted[p][i]
         s == [NewSreq(p, h, p, t, mode, size) EXCEPT !.msgType = "SELF"]
         r == [req[p][e.rreq] EXCEPT !.delivered = TRUE]
     IN /\ req' = [req EXCEPT ![p] = [@ EXCEPT ![h] = SignalCompletion(s),
                                    ![e.rreq] = Release(SignalCompletion(r))]]
        /\ sent' = [sent EXCEPT ![p] = RecordSend(p, p, t, mode, "matched", @)]
        /\ rcvd' = [rcvd EXCEPT ![p][e.id].fate = "matched",
                                ![p][e.id].msg = <<p, Len(sent[p]) + 1>>]
  /\ posted' = [posted EXCEPT ![p] = RemoveAt(@, i)]
  /\ user' = [user EXCEPT ![p][h] = "request"]
  /\ UNCHANGED <<unexpected, net, call>>

(* Mutant: every send to oneself completes at once, as if it were copied. *)
SelfSendDone(s) == SignalCompletion([s EXCEPT !.error = s.type = "RSEND"])

SelfSend(s) ==
  IF s.type = "RSEND" THEN SignalCompletion([s EXCEPT !.error = TRUE]) ELSE s

(***************************************************************************)
(* MPIDI_Isend_self when none does: the new unexpected request points at   *)
(* the send request, without a reference to it.  A ready send is completed *)
(* with an error instead, and its partner is left null.                    *)
(***************************************************************************)
IsendSelfUnexpected(p, t, mode, size, h, g) ==
  /\ MaySend(p, p)
  /\ h # g /\ {h, g} \subseteq FreeHandles(p)
  /\ NonePosted(p, p, t)
  /\ LET s == [NewSreq(p, h, p, t, mode, size) EXCEPT !.msgType = "SELF"]
         ready == mode = "RSEND"
         r == [NewRequest(req[p][g], "RECV") EXCEPT
                 !.msgType = "SELF", !.rank = p, !.tag = t, !.size = size,
                 !.partner = IF ready THEN None ELSE h,
                 !.senderReq = IF ready THEN None ELSE h,
                 !.error = ready]
     IN /\ req' = [req EXCEPT ![p] = [@ EXCEPT
              ![h] = SelfSend(s),
              ![g] = Release(AddRef(r))]]
        /\ unexpected' = [unexpected EXCEPT ![p] =
              Append(@, [rreq |-> g, rank |-> p, tag |-> t,
                         sreq |-> IF ready THEN None ELSE h, id |-> s.id])]
  /\ user' = [user EXCEPT ![p][h] = "request"]
  /\ sent' = [sent EXCEPT ![p] = RecordSend(p, p, t, mode, "pending", @)]
  /\ UNCHANGED <<posted, net, call, rcvd>>

-----------------------------------------------------------------------------
(***************************************************************************)
(* Receiving: MPID_Recv, MPID_Improbe and MPID_Imrecv.                     *)
(***************************************************************************)
MayRecv(p) == MayCall(p) /\ Len(rcvd[p]) < MaxRecv[p]

RecordRecv(f, fate, m, rest) ==
  Append(rest, [rank |-> f.rank, tag |-> f.tag, fate |-> fate, msg |-> m])

(* Nothing waits: MPID_Recvq_dq_unexpected_or_new_posted posts a request. *)
RecvPost(p, f, h) ==
  /\ MayRecv(p)
  /\ NoneUnexpected(p, f)
  /\ h \in FreeHandles(p)
  /\ LET j == Len(rcvd[p]) + 1
         r == [NewRequest(req[p][h], "RECV") EXCEPT !.pending = 1, !.id = j]
     IN /\ req' = [req EXCEPT ![p][h] = AddRef(r)]
        /\ posted' = [posted EXCEPT ![p] =
              Append(@, [rreq |-> h, rank |-> f.rank, tag |-> f.tag, id |-> j])]
  /\ user' = [user EXCEPT ![p][h] = "request"]
  /\ rcvd' = [rcvd EXCEPT ![p] = RecordRecv(f, "pending", None, @)]
  /\ UNCHANGED <<unexpected, net, call, sent>>

(* Nothing is to be unpacked, or the payload and the receive are both here. *)
Unpacked(r) == IF r.size = "zero" THEN ~r.error ELSE r.pending = 1

(* Mutant: does not count the receive off recv_pending_count. *)
TakeEagerUncounted(p, h, r) ==
  /\ r.msgType = "EAGER"
  /\ req' = [req EXCEPT ![p][h] = [r EXCEPT !.delivered = Unpacked(r)]]
  /\ IF r.syncAck
     THEN SendPacket(p, r.rank, [type |-> "SYNC_ACK", sreq |-> r.senderReq])
     ELSE UNCHANGED sendq

(***************************************************************************)
(* MPIDI_CH3_HandleRecvMsgType for an eager message: acknowledge it if it  *)
(* is synchronous, and when recv_pending_count says that the payload is    *)
(* here already, unpack the temporary buffer and free it.  Nobody set the  *)
(* count for a ready send: it is what the handle's last use left.          *)
(***************************************************************************)
TakeEager(p, h, r) ==
  /\ r.msgType = "EAGER"
  /\ req' = [req EXCEPT ![p][h] =
        [r EXCEPT !.pending = @ - 1, !.delivered = Unpacked(r)]]
  /\ IF r.syncAck
     THEN SendPacket(p, r.rank, [type |-> "SYNC_ACK", sreq |-> r.senderReq])
     ELSE UNCHANGED sendq

(* Mutant: the clear-to-send is forgotten. *)
TakeRndvSilent(p, h, r) ==
  /\ r.msgType = "RNDV"
  /\ req' = [req EXCEPT ![p][h] = AddRef(r)]
  /\ UNCHANGED sendq

(* MPIDI_CH3_RecvRndv: the reference is for the payload to come. *)
TakeRndv(p, h, r) ==
  /\ r.msgType = "RNDV"
  /\ req' = [req EXCEPT ![p][h] = AddRef(r)]
  /\ SendPacket(p, r.rank, [type |-> "CTS", sreq |-> r.senderReq, rreq |-> h])

(* MPIDI_CH3_RecvFromSelf *)
TakeSelf(p, h, r) ==
  /\ r.msgType = "SELF"
  /\ IF r.partner # None
     THEN req' = [req EXCEPT ![p] = [@ EXCEPT
             ![r.partner] = SignalCompletion(req[p][r.partner]),
             ![h] = SignalCompletion([r EXCEPT !.delivered = TRUE])]]
     ELSE req' = [req EXCEPT ![p][h] = SignalCompletion(r)]
  /\ UNCHANGED sendq

HandleRecvMsgType(p, h, r) ==
  TakeEager(p, h, r) \/ TakeRndv(p, h, r) \/ TakeSelf(p, h, r)

(* A message waits: it leaves the queue for this receive. *)
DequeueFor(p, f, i) ==
  LET e == unexpected[p][i] IN
  /\ FirstUnexpected(p, f, i)
  /\ unexpected' = [unexpected EXCEPT ![p] = RemoveAt(@, i)]
  /\ sent' = [sent EXCEPT ![e.rank][e.id].fate = "matched"]
  /\ rcvd' = [rcvd EXCEPT ![p] =
        RecordRecv(f, "matched", <<e.rank, e.id>>, @)]

RecvFound(p, f, i) ==
  /\ MayRecv(p)
  /\ DequeueFor(p, f, i)
  /\ LET h == unexpected[p][i].rreq IN
       /\ HandleRecvMsgType(p, h, [req[p][h] EXCEPT !.id = Len(rcvd[p]) + 1])
       /\ user' = [user EXCEPT ![p][h] = "request"]
  /\ UNCHANGED <<posted, wire, reading, call>>

Improbe(p, f, i) ==
  /\ Probing
  /\ MayRecv(p)
  /\ DequeueFor(p, f, i)
  /\ LET h == unexpected[p][i].rreq IN
       /\ req' = [req EXCEPT ![p][h].id = Len(rcvd[p]) + 1]
       /\ user' = [user EXCEPT ![p][h] = "message"]
  /\ UNCHANGED <<posted, net, call>>

Imrecv(p, h) ==
  /\ MayCall(p)
  /\ user[p][h] = "message"
  /\ HandleRecvMsgType(p, h, req[p][h])
  /\ user' = [user EXCEPT ![p][h] = "request"]
  /\ UNCHANGED <<queues, wire, reading, call, history>>

-----------------------------------------------------------------------------
(***************************************************************************)
(* Ending a request: MPI_Test and MPI_Wait (MPIR_Request_complete),        *)
(* MPI_Request_free and MPI_Cancel.                                        *)
(***************************************************************************)
IsSend(r) == r.type \in {"SEND", "SSEND", "RSEND"}

DropHandle(p, h) ==
  /\ user' = [user EXCEPT ![p][h] = "none"]
  /\ req' = [req EXCEPT ![p][h] = Release(@)]
  /\ UNCHANGED <<queues, net, call, rcvd>>

Wait(p, h) ==
  /\ MayCall(p)
  /\ user[p][h] = "request"
  /\ req[p][h].cc = 0
  /\ sent' = IF IsSend(req[p][h])
             THEN [sent EXCEPT ![p][req[p][h].id].outcome =
                     IF req[p][h].cancelled THEN "cancelled" ELSE "done"]
             ELSE sent
  /\ DropHandle(p, h)

RequestFree(p, h) ==
  /\ FreeActive
  /\ MayCall(p)
  /\ user[p][h] = "request"
  /\ sent' = IF IsSend(req[p][h])
             THEN [sent EXCEPT ![p][req[p][h].id].outcome = "freed"]
             ELSE sent
  /\ DropHandle(p, h)

(* MPID_Cancel_recv: only a request that is still posted is cancelled. *)
CancelRecv(p, i) ==
  LET e == posted[p][i] IN
  /\ Cancelling
  /\ MayCall(p)
  /\ i \in 1 .. Len(posted[p])
  /\ user[p][e.rreq] = "request"
  /\ posted' = [posted EXCEPT ![p] = RemoveAt(@, i)]
  /\ req' = [req EXCEPT ![p][e.rreq] =
        Release(SignalCompletion([@ EXCEPT !.cancelled = TRUE]))]
  /\ rcvd' = [rcvd EXCEPT ![p][e.id].fate = "cancelled"]
  /\ UNCHANGED <<user, unexpected, net, call, sent>>

MayCancelSend(p, h) ==
  /\ Cancelling
  /\ MayCall(p)
  /\ user[p][h] = "request"
  /\ IsSend(req[p][h])
  /\ ~req[p][h].cancelPending

(* MPID_Cancel_send asks the receiver; FinishCall takes the reference. *)
CancelSend(p, h) ==
  LET r == req[p][h] IN
  /\ MayCancelSend(p, h)
  /\ r.msgType # "SELF"
  /\ SendPacket(p, r.rank,
       [type |-> "CANCEL_SEND_REQ", sreq |-> h, tag |-> r.tag])
  /\ req' = [req EXCEPT ![p][h].cancelPending = TRUE]
  /\ call' = [call EXCEPT ![p] = h]
  /\ sent' = [sent EXCEPT ![p][r.id].asked = TRUE]
  /\ UNCHANGED <<user, queues, wire, reading, rcvd>>

(* Mutant: completes the send even when its message was not found. *)
SelfVerdictTwice(s, found) ==
  SignalCompletion([s EXCEPT !.cancelled = found, !.cancelPending = TRUE])

(* The cancel of a send to oneself is settled within the call. *)
SelfVerdict(s, found) ==
  LET r == [s EXCEPT !.cancelled = found, !.cancelPending = TRUE] IN
  IF found THEN SignalCompletion(r) ELSE r

CancelSelfFound(p, h, i) ==
  LET s == req[p][h]
      e == unexpected[p][i]
  IN
  /\ MayCancelSend(p, h)
  /\ s.msgType = "SELF"
  /\ FirstById(p, h, s.rank, s.tag, i)
  /\ unexpected' = [unexpected EXCEPT ![p] = RemoveAt(@, i)]
  /\ req' = [req EXCEPT ![p] = [@ EXCEPT
       ![e.rreq] = Release(req[p][e.rreq]),
       ![h] = SelfVerdict(s, TRUE)]]
  /\ sent' = [sent EXCEPT ![p][s.id].asked = TRUE, ![p][e.id].fate = "cancelled"]
  /\ UNCHANGED <<user, posted, net, call, rcvd>>

CancelSelfMissed(p, h) ==
  LET s == req[p][h] IN
  /\ MayCancelSend(p, h)
  /\ s.msgType = "SELF"
  /\ NoneById(p, h, s.rank, s.tag)
  /\ req' = [req EXCEPT ![p][h] = SelfVerdict(s, FALSE)]
  /\ sent' = [sent EXCEPT ![p][s.id].asked = TRUE]
  /\ UNCHANGED <<user, queues, net, call, rcvd>>

-----------------------------------------------------------------------------
(***************************************************************************)
(* The progress engine: writing send queues, reading packets and payloads. *)
(* One process's progress is made by one thread at a time; when the        *)
(* process is single threaded that thread is the one inside the call.      *)
(***************************************************************************)
MayProgress(p) == MultiThreaded \/ call[p] = None

(* MPIDI_CH3U_Handle_send_req, then the queue gives up its reference. *)
Write(p, q) ==
  /\ MayProgress(p)
  /\ sendq[p][q] # <<>>
  /\ Len(wire[p][q]) < MaxWire
  /\ LET k == Head(sendq[p][q]) IN
       /\ wire' = [wire EXCEPT ![p][q] = Append(@, k)]
       /\ req' = IF CarriesRequest(k)
                 THEN [req EXCEPT ![p][k.sreq] = Release(SignalCompletion(@))]
                 ELSE req
  /\ sendq' = [sendq EXCEPT ![p][q] = Tail(@)]
  /\ UNCHANGED <<user, queues, reading, call, history>>

(* q takes the packet k off its connection with p. *)
ReadPacket(q, p, k) ==
  /\ MayProgress(q)
  /\ reading[q][p] = None
  /\ wire[p][q] # <<>>
  /\ k = Head(wire[p][q])
  /\ wire' = [wire EXCEPT ![p][q] = Tail(@)]

(* set_request_info *)
WithInfo(r, k, msgType) ==
  [r EXCEPT !.senderReq = k.sreq, !.size = k.size, !.msgType = msgType]

(***************************************************************************)
(* EAGER_SEND, READY_SEND and EAGER_SYNC_SEND that meet a posted receive.  *)
(* Without a payload the receive is complete; with one the connection      *)
(* keeps the queue's reference while it reads into the user's buffer.      *)
(***************************************************************************)
HandleEagerFound(q, p, k, i) ==
  /\ k.type \in EagerTypes
  /\ FirstPosted(q, p, k.tag, i)
  /\ LET h == posted[q][i].rreq
         r == WithInfo(req[q][h], k, "EAGER")
     IN IF k.size = "zero"
        THEN /\ req' = [req EXCEPT ![q][h] =
                   Release(SignalCompletion([r EXCEPT !.delivered = TRUE]))]
             /\ UNCHANGED reading
        ELSE /\ req' = [req EXCEPT ![q][h] = r]
             /\ reading' = [reading EXCEPT ![q][p] = h]
  /\ MarkMatched(p, k.id, q, posted[q][i].id)
  /\ posted' = [posted EXCEPT ![q] = RemoveAt(@, i)]
  /\ IF k.type = "EAGER_SYNC_SEND"
     THEN SendPacket(q, p, [type |-> "SYNC_ACK", sreq |-> k.sreq])
     ELSE UNCHANGED sendq
  /\ UNCHANGED <<user, unexpected, call>>

(***************************************************************************)
(* The same packets when no receive is posted.  The payload goes to a      *)
(* temporary buffer, and recv_pending_count says that both the payload and *)
(* the receive are still to come; a ready send's payload is read into a    *)
(* scratch buffer to be thrown away, and the count is left as it is.       *)
(***************************************************************************)
NewUnexpected(q, p, k, h, msgType) ==
  AddRef(WithInfo([NewRequest(req[q][h], "RECV") EXCEPT
                     !.rank = p, !.tag = k.tag], k, msgType))

QueueUnexpected(q, p, k, h) ==
  unexpected' = [unexpected EXCEPT ![q] =
    Append(@, [rreq |-> h, rank |-> p, tag |-> k.tag, sreq |-> k.sreq, id |-> k.id])]

HandleEagerUnexpected(q, p, k, h) ==
  /\ k.type \in EagerTypes
  /\ NonePosted(q, p, k.tag)
  /\ h \in FreeHandles(q)
  /\ LET ready == k.type = "READY_SEND"
         r == [NewUnexpected(q, p, k, h, "EAGER") EXCEPT
                 !.error = ready, !.syncAck = k.type = "EAGER_SYNC_SEND"]
     IN IF k.size = "zero"
        THEN /\ req' = [req EXCEPT ![q][h] = Release(SignalCompletion(r))]
             /\ UNCHANGED reading
        ELSE /\ req' = [req EXCEPT ![q][h] =
                   IF ready THEN r ELSE [r EXCEPT !.pending = 2, !.onUe = TRUE]]
             /\ reading' = [reading EXCEPT ![q][p] = h]
  /\ QueueUnexpected(q, p, k, h)
  /\ UNCHANGED <<user, posted, sendq, call, history>>

(* MPIDI_CH3U_Handle_recv_req once the whole payload is there. *)
PayloadArrives(q, p) ==
  /\ MayProgress(q)
  /\ reading[q][p] # None
  /\ LET h == reading[q][p]
         r == req[q][h]
         unpacked == IF r.onUe
                     THEN [r EXCEPT !.pending = @ - 1, !.delivered = r.pending = 1]
                     ELSE [r EXCEPT !.delivered = @ \/ ~r.error]
     IN req' = [req EXCEPT ![q][h] = Release(SignalCompletion(unpacked))]
  /\ reading' = [reading EXCEPT ![q][p] = None]
  /\ UNCHANGED <<user, queues, sendq, wire, call, history>>

(* RNDV_REQ_TO_SEND: the reference taken for the payload replaces the queue's. *)
HandleRtsFound(q, p, k, i) ==
  /\ k.type = "RTS"
  /\ FirstPosted(q, p, k.tag, i)
  /\ LET h == posted[q][i].rreq IN
       /\ req' = [req EXCEPT ![q][h] = Release(AddRef(WithInfo(@, k, "RNDV")))]
       /\ SendPacket(q, p, [type |-> "CTS", sreq |-> k.sreq, rreq |-> h])
  /\ MarkMatched(p, k.id, q, posted[q][i].id)
  /\ posted' = [posted EXCEPT ![q] = RemoveAt(@, i)]
  /\ UNCHANGED <<user, unexpected, reading, call>>

HandleRtsUnexpected(q, p, k, h) ==
  /\ k.type = "RTS"
  /\ NonePosted(q, p, k.tag)
  /\ h \in FreeHandles(q)
  /\ req' = [req EXCEPT ![q][h] = Release(NewUnexpected(q, p, k, h, "RNDV"))]
  /\ QueueUnexpected(q, p, k, h)
  /\ UNCHANGED <<user, posted, sendq, reading, call, history>>

(* RNDV_CLR_TO_SEND: the payload is queued, with a reference of its own. *)
HandleCts(q, p, k) ==
  /\ k.type = "CTS"
  /\ req' = [req EXCEPT ![q][k.sreq] = Release(AddRef(@))]
  /\ SendPacket(q, p, [type |-> "RNDV_SEND", sreq |-> k.sreq, rreq |-> k.rreq])
  /\ UNCHANGED <<user, queues, reading, call, history>>

HandleRndvSend(q, p, k) ==
  /\ k.type = "RNDV_SEND"
  /\ reading' = [reading EXCEPT ![q][p] = k.rreq]
  /\ UNCHANGED <<req, user, queues, sendq, call, history>>

(* Mutant: releases the send and does not complete it. *)
HandleSyncAckMute(q, p, k) ==
  /\ k.type = "SYNC_ACK"
  /\ req' = [req EXCEPT ![q][k.sreq] = Release(@)]
  /\ UNCHANGED <<user, queues, sendq, reading, call, history>>

HandleSyncAck(q, p, k) ==
  /\ k.type = "SYNC_ACK"
  /\ req' = [req EXCEPT ![q][k.sreq] = Release(SignalCompletion(@))]
  /\ UNCHANGED <<user, queues, sendq, reading, call, history>>

CancelResp(h, ack) == [type |-> "CANCEL_SEND_RESP", sreq |-> h, ack |-> ack]

HandleCancelReqFound(q, p, k, i) ==
  /\ k.type = "CANCEL_SEND_REQ"
  /\ FirstById(q, k.sreq, p, k.tag, i)
  /\ LET e == unexpected[q][i] IN
       /\ req' = [req EXCEPT ![q][e.rreq] = Release(@)]
       /\ sent' = [sent EXCEPT ![p][e.id].fate = "cancelled"]
  /\ unexpected' = [unexpected EXCEPT ![q] = RemoveAt(@, i)]
  /\ SendPacket(q, p, CancelResp(k.sreq, TRUE))
  /\ UNCHANGED <<user, posted, reading, call, rcvd>>

(* Mutant: a cancel that comes too late gets no answer. *)
HandleCancelReqIgnored(q, p, k) ==
  /\ k.type = "CANCEL_SEND_REQ"
  /\ NoneById(q, k.sreq, p, k.tag)
  /\ UNCHANGED <<req, user, queues, sendq, reading, call, history>>

HandleCancelReqMissed(q, p, k) ==
  /\ k.type = "CANCEL_SEND_REQ"
  /\ NoneById(q, k.sreq, p, k.tag)
  /\ SendPacket(q, p, CancelResp(k.sreq, FALSE))
  /\ UNCHANGED <<req, user, queues, reading, call, history>>

(* Mutant: forgets the answer that is not coming any more. *)
HandleCancelRespOnce(q, p, k) ==
  /\ k.type = "CANCEL_SEND_RESP"
  /\ LET r == [req[q][k.sreq] EXCEPT !.cancelled = k.ack]
     IN req' = [req EXCEPT ![q][k.sreq] = Release(SignalCompletion(r))]
  /\ UNCHANGED <<user, queues, sendq, reading, call, history>>

(***************************************************************************)
(* A cancelled rendezvous or synchronous send will get no CTS or ack: what *)
(* that answer would have signalled and released is done here.             *)
(***************************************************************************)
HandleCancelResp(q, p, k) ==
  /\ k.type = "CANCEL_SEND_RESP"
  /\ LET r == [req[q][k.sreq] EXCEPT !.cancelled = k.ack]
         awaited == r.msgType = "RNDV" \/ r.type = "SSEND"
         s == IF k.ack /\ awaited THEN Release(SignalCompletion(r)) ELSE r
     IN req' = [req EXCEPT ![q][k.sreq] = Release(SignalCompletion(s))]
  /\ UNCHANGED <<user, queues, sendq, reading, call, history>>

HandlePacket(q, p, k) ==
  /\ ReadPacket(q, p, k)
  /\ \/ \E i \in 1 .. Len(posted[q]) :
          HandleEagerFound(q, p, k, i) \/ HandleRtsFound(q, p, k, i)
     \/ \E h \in Handle :
          HandleEagerUnexpected(q, p, k, h) \/ HandleRtsUnexpected(q, p, k, h)
     \/ \E i \in 1 .. Len(unexpected[q]) : HandleCancelReqFound(q, p, k, i)
     \/ HandleCts(q, p, k)
     \/ HandleRndvSend(q, p, k)
     \/ HandleSyncAck(q, p, k)
     \/ HandleCancelReqMissed(q, p, k)
     \/ HandleCancelResp(q, p, k)

-----------------------------------------------------------------------------
Init ==
  /\ req = [p \in Proc |-> [h \in Handle |-> FreeRequest(0, 0)]]
  /\ user = [p \in Proc |-> [h \in Handle |-> "none"]]
  /\ posted = [p \in Proc |-> <<>>]
  /\ unexpected = [p \in Proc |-> <<>>]
  /\ sendq = [p \in Proc |-> [q \in Proc |-> <<>>]]
  /\ wire = [p \in Proc |-> [q \in Proc |-> <<>>]]
  /\ reading = [p \in Proc |-> [q \in Proc |-> None]]
  /\ call = [p \in Proc |-> None]
  /\ sent = [p \in Proc |-> <<>>]
  /\ rcvd = [p \in Proc |-> <<>>]

(* Calls of the application on process p. *)
SendCall(p) ==
  \E t \in Tag, mode \in Mode, size \in Size, h \in Handle :
    \/ \E q \in Proc : Isend(p, q, t, mode, size, h)
    \/ \E i \in 1 .. Len(posted[p]) : IsendSelfFound(p, t, mode, size, h, i)
    \/ \E g \in Handle : IsendSelfUnexpected(p, t, mode, size, h, g)

RecvCall(p) ==
  \/ \E f \in Filters :
       \/ \E h \in Handle : RecvPost(p, f, h)
       \/ \E i \in 1 .. Len(unexpected[p]) :
            RecvFound(p, f, i) \/ Improbe(p, f, i)
  \/ \E h \in Handle : Imrecv(p, h)

EndCall(p) ==
  \/ \E h \in Handle :
       Wait(p, h) \/ RequestFree(p, h) \/ CancelSend(p, h) \/ CancelSelfMissed(p, h)
  \/ \E h \in Handle, i \in 1 .. Len(unexpected[p]) : CancelSelfFound(p, h, i)
  \/ \E i \in 1 .. Len(posted[p]) : CancelRecv(p, i)

Deliver(q, p) ==
  \/ wire[p][q] # <<>> /\ HandlePacket(q, p, Head(wire[p][q]))
  \/ PayloadArrives(q, p)

Next ==
  \/ \E p \in Proc : SendCall(p) \/ RecvCall(p) \/ EndCall(p) \/ FinishCall(p)
  \/ \E p, q \in Proc : Write(p, q) \/ Deliver(q, p)

Spec == Init /\ [][Next]_vars

(***************************************************************************)
(* Every process that has started a communication goes on calling MPI, so  *)
(* its progress engine runs: each connection's writes and reads are fair.  *)
(***************************************************************************)
Fairness ==
  /\ \A p \in Proc : WF_vars(FinishCall(p))
  /\ \A p, q \in Proc : WF_vars(Write(p, q)) /\ WF_vars(Deliver(q, p))

FairSpec == Spec /\ Fairness

-----------------------------------------------------------------------------
(***************************************************************************)
(* Types.                                                                  *)
(***************************************************************************)
TypeOK ==
  /\ req \in [Proc -> [Handle -> Request]]
  /\ user \in [Proc -> [Handle -> {"none", "request", "message"}]]
  /\ posted \in [Proc -> Seq(Posting)]
  /\ unexpected \in [Proc -> Seq(Arrival)]
  /\ sendq \in [Proc -> [Proc -> Seq(Packet)]]
  /\ wire \in [Proc -> [Proc -> Seq(Packet)]]
  /\ reading \in [Proc -> [Proc -> Handle \cup {None}]]
  /\ call \in [Proc -> Handle \cup {None}]
  /\ sent \in [Proc -> Seq(SendRec)]
  /\ rcvd \in [Proc -> Seq(RecvRec)]

(***************************************************************************)
(* No receive waits in the posted queue for a message that waits in the    *)
(* unexpected queue: each search-or-append of the two queues leaves        *)
(* nothing behind that the other side would have taken.                    *)
(***************************************************************************)
NoMissedMatch ==
  \A q \in Proc :
    \A i \in 1 .. Len(posted[q]), j \in 1 .. Len(unexpected[q]) :
      ~Matches(unexpected[q][j].rank, unexpected[q][j].tag, posted[q][i])

(***************************************************************************)
(* Whoever can still touch a request keeps it alive: the application, the  *)
(* queues, the connections that read or write it, the call that has yet to *)
(* finish, and every packet that names it and expects or brings an answer. *)
(* An eager packet names its request only for a cancel, and keeps nothing. *)
(***************************************************************************)
LiveSend(p, h) == IsSend(req[p][h]) /\ req[p][h].ref > 0
LiveRecv(p, h) == req[p][h].type = "RECV" /\ req[p][h].ref > 0

PacketKept(p, q, k) ==
  /\ k.type \in {"RTS", "CANCEL_SEND_REQ"} => LiveSend(p, k.sreq)
  /\ k.type \in {"CTS", "SYNC_ACK", "CANCEL_SEND_RESP"} => LiveSend(q, k.sreq)
  /\ k.type = "CTS" => LiveRecv(p, k.rreq)
  /\ k.type = "RNDV_SEND" => LiveRecv(q, k.rreq)

NothingDangles ==
  \A p \in Proc :
    /\ \A h \in Handle : user[p][h] # "none" => req[p][h].ref > 0
    /\ \A i \in DOMAIN posted[p] : LiveRecv(p, posted[p][i].rreq)
    /\ \A i \in DOMAIN unexpected[p] : LiveRecv(p, unexpected[p][i].rreq)
    /\ call[p] # None => LiveSend(p, call[p])
    /\ \A q \in Proc :
         /\ reading[p][q] # None => LiveRecv(p, reading[p][q])
         /\ \A i \in DOMAIN sendq[p][q] :
              /\ PacketKept(p, q, sendq[p][q][i])
              /\ CarriesRequest(sendq[p][q][i]) => LiveSend(p, sendq[p][q][i].sreq)
         /\ \A i \in DOMAIN wire[p][q] : PacketKept(p, q, wire[p][q][i])

(***************************************************************************)
(* A message to oneself that waits to be received points at its sender's   *)
(* request, which the receive will read: it must be that send, still.      *)
(***************************************************************************)
PartnerAlive ==
  \A p \in Proc : \A i \in DOMAIN unexpected[p] :
    LET e == unexpected[p][i]
        partner == req[p][e.rreq].partner
    IN partner # None => LiveSend(p, partner) /\ req[p][partner].id = e.id

(***************************************************************************)
(* Nothing leaks: when the connections are quiet, a request has exactly    *)
(* the references of the application, of the queue it is in, and of the    *)
(* receiver that still owes it an answer.                                  *)
(***************************************************************************)
Quiet ==
  \A p, q \in Proc : /\ sendq[p][q] = <<>> /\ wire[p][q] = <<>>
                     /\ reading[p][q] = None /\ call[p] = None

(* Message g of q waits, and its sender p gets no answer before it is taken. *)
OwesAnswer(q, g, p, h) ==
  LET r == req[q][g] IN
  /\ r.type = "RECV" /\ r.rank = p /\ r.senderReq = h
  /\ r.msgType = "RNDV" \/ r.syncAck
  /\ \/ user[q][g] = "message"
     \/ \E i \in DOMAIN unexpected[q] : unexpected[q][i].rreq = g

References(p, h) ==
  (IF user[p][h] # "none" THEN 1 ELSE 0)
  + Cardinality({i \in DOMAIN posted[p] : posted[p][i].rreq = h})
  + Cardinality({i \in DOMAIN unexpected[p] : unexpected[p][i].rreq = h})
  + Cardinality({a \in Proc \X Handle : IsSend(req[p][h]) /\ OwesAnswer(a[1], a[2], p, h)})

NothingLeaks ==
  Quiet => \A p \in Proc, h \in Handle : req[p][h].ref = References(p, h)

(***************************************************************************)
(* A send whose completion means that the message was received is complete *)
(* only once a receive took the message or the cancel took it back: a      *)
(* synchronous, a rendezvous and a non-ready send to oneself.              *)
(***************************************************************************)
SyncSendMatched ==
  \A p \in Proc, h \in Handle :
    LET r == req[p][h] IN
    /\ user[p][h] = "request" /\ r.cc = 0 /\ call[p] # h
    /\ IsSend(r)
    /\ \/ r.type = "SSEND"
       \/ r.msgType = "RNDV"
       \/ r.msgType = "SELF" /\ r.type # "RSEND"
    => sent[p][r.id].fate # "pending"

(***************************************************************************)
(* A receive is complete only when it was cancelled, or when it matched    *)
(* and either its payload is in the user's buffer or it was refused with   *)
(* an error and nothing was unpacked, whichever of the receive call and    *)
(* the payload came first.                                                 *)
(***************************************************************************)
RecvHasPayload ==
  \A p \in Proc, h \in Handle :
    LET r == req[p][h] IN
    user[p][h] = "request" /\ r.type = "RECV" /\ r.cc = 0 =>
      \/ r.cancelled /\ rcvd[p][r.id].fate = "cancelled"
      \/ rcvd[p][r.id].fate = "matched" /\ (r.delivered # r.error)

(***************************************************************************)
(* "All of the data has arrived, we need to copy the data and then free    *)
(* the buffer" (mpid/pt2pt.cpp): no receive unpacks and frees the buffer   *)
(* of a message while its connection still reads the payload into it.      *)
(***************************************************************************)
UnpacksArrived ==
  \A q, p \in Proc : reading[q][p] # None => ~req[q][reading[q][p]].delivered

(***************************************************************************)
(* The two ends agree on a cancelled send: a send that reports itself      *)
(* cancelled was taken back before any receive matched it, and a send that *)
(* does not is never taken back.                                           *)
(***************************************************************************)
CancelAgreed ==
  \A p \in Proc : \A i \in DOMAIN sent[p] :
    /\ sent[p][i].outcome = "cancelled" => sent[p][i].fate = "cancelled"
    /\ sent[p][i].outcome = "done" => sent[p][i].fate # "cancelled"

(***************************************************************************)
(* Completion is final: while the application holds a request that is      *)
(* complete, no step signals it a second time or postpones it again.  Only *)
(* the end of MPID_Cancel_send may reopen one, until the verdict comes.    *)
(***************************************************************************)
CompletionIsFinal ==
  [][\A p \in Proc, h \in Handle :
       /\ user[p][h] = "request" /\ user'[p][h] = "request"
       /\ req[p][h].cc = 0 /\ call[p] # h
       => req'[p][h].cc = 0]_vars

(***************************************************************************)
(* Refinement: what this module does to messages is what Matching allows.  *)
(***************************************************************************)
Abstract == INSTANCE Matching WITH
  sends <- [p \in Proc |-> [i \in DOMAIN sent[p] |->
              [dst |-> sent[p][i].dst, tag |-> sent[p][i].tag,
               asked |-> sent[p][i].asked, fate |-> sent[p][i].fate]]],
  recvs <- rcvd

MatchingSpec == Abstract!Spec

(* Request number i of p is complete, or the application has given it up. *)
SendComplete(p, i) ==
  \A h \in Handle : IsSend(req[p][h]) /\ req[p][h].id = i =>
                      req[p][h].cc = 0 /\ call[p] # h
RecvComplete(q, j) ==
  \A h \in Handle : req[q][h].type = "RECV" /\ req[q][h].id = j =>
                      req[q][h].cc = 0 \/ user[q][h] = "message"

(***************************************************************************)
(* A send whose message was matched completes, whatever the protocol: the  *)
(* acknowledgement or the clear-to-send it waits for always comes.         *)
(***************************************************************************)
MatchCompletes ==
  \A p \in Proc : \A i \in 1 .. MaxSend[p] :
    (i \in DOMAIN sent[p] /\ sent[p][i].fate = "matched") ~> SendComplete(p, i)

(***************************************************************************)
(* A receive that was matched gets its payload and completes; a message    *)
(* that MPI_Improbe took waits for its MPI_Imrecv.                         *)
(***************************************************************************)
MatchDelivers ==
  \A q \in Proc : \A j \in 1 .. MaxRecv[q] :
    (j \in DOMAIN rcvd[q] /\ rcvd[q][j].fate = "matched") ~> RecvComplete(q, j)

(***************************************************************************)
(* A send that the application asked to cancel completes: either the       *)
(* message is taken back or the send ends as it would have.  MPI_Cancel    *)
(* never leaves MPI_Wait waiting for an answer that does not come.         *)
(***************************************************************************)
CancelSettles ==
  \A p \in Proc : \A i \in 1 .. MaxSend[p] :
    (i \in DOMAIN sent[p] /\ sent[p][i].asked) ~> SendComplete(p, i)
=============================================================================

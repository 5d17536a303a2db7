---------------------------- MODULE Pt2ptMatching ---------------------------
(***************************************************************************)
(* That the protocols of Pt2pt do what Matching allows, for every set of   *)
(* processes, handles and tags and every bound.  First what each step does *)
(* to the requests, then that a handle in a packet or a queue names the    *)
(* send it was put there for (CancelInv), then the refinement: each action *)
(* is shown to be one of Matching's, or none, from what the queues hold.   *)
(***************************************************************************)
EXTENDS Pt2ptProofs

-----------------------------------------------------------------------------
(***************************************************************************)
(* What each step does to the requests.  Same says that a request is still *)
(* the one it was, whatever was counted or noted in it.                    *)
(***************************************************************************)
Core(r, s) ==
  /\ s.type = r.type /\ s.gen = r.gen
  /\ s.msgType = r.msgType /\ s.rank = r.rank /\ s.tag = r.tag
  /\ s.senderReq = r.senderReq /\ s.syncAck = r.syncAck /\ s.partner = r.partner

Same(r, s) == Core(r, s) /\ s.id = r.id /\ s.cancelPending = r.cancelPending

(* s is r, back in the free list: only recv_pending_count may be different. *)
Returned(r, s) == s = FreeRequest(r.gen, s.pending)

Dropped(r, s) ==
  IF r.ref = 1 THEN Returned(r, s) ELSE Same(r, s) /\ s.ref = r.ref - 1

Others(p, S) ==
  \A a \in Proc, g \in Handle : a # p \/ g \notin S => req'[a][g] = req[a][g]

LEMMA Field ==
  ASSUME NEW r \in Request
  PROVE  /\ \A v : LET s == [r EXCEPT !.ref = v] IN Same(r, s) /\ s.ref = v
         /\ \A v : LET s == [r EXCEPT !.cc = v] IN Same(r, s) /\ s.ref = r.ref
         /\ \A v : LET s == [r EXCEPT !.delivered = v] IN Same(r, s) /\ s.ref = r.ref
         /\ \A v : LET s == [r EXCEPT !.pending = v] IN Same(r, s) /\ s.ref = r.ref
         /\ \A v : LET s == [r EXCEPT !.cancelled = v] IN Same(r, s) /\ s.ref = r.ref
         /\ \A v : LET s == [r EXCEPT !.cancelPending = v] IN
                  Core(r, s) /\ s.id = r.id /\ s.cancelPending = v /\ s.ref = r.ref
         /\ \A v : LET s == [r EXCEPT !.id = v] IN
                  Core(r, s) /\ s.cancelPending = r.cancelPending /\ s.id = v /\ s.ref = r.ref
         /\ \A v : LET s == [r EXCEPT !.error = v] IN Same(r, s) /\ s.ref = r.ref
BY DEF Request, Same, Core

LEMMA Counted ==
  ASSUME NEW r \in Request
  PROVE  /\ AddRef(r) \in Request /\ Same(r, AddRef(r)) /\ AddRef(r).ref = r.ref + 1
         /\ SignalCompletion(r) \in Request
         /\ Same(r, SignalCompletion(r)) /\ SignalCompletion(r).ref = r.ref
         /\ PostponeCompletion(r) \in Request
         /\ Same(r, PostponeCompletion(r)) /\ PostponeCompletion(r).ref = r.ref
         /\ Release(r) \in Request /\ Dropped(r, Release(r))
<1>1. /\ Same(r, AddRef(r)) /\ AddRef(r).ref = r.ref + 1
      /\ Same(r, SignalCompletion(r)) /\ SignalCompletion(r).ref = r.ref
      /\ Same(r, PostponeCompletion(r)) /\ PostponeCompletion(r).ref = r.ref
  BY Field DEF AddRef, SignalCompletion, PostponeCompletion
<1>2. Dropped(r, Release(r))
  BY Field DEF Release, Dropped, Returned, FreeRequest
<1> QED
  BY <1>1, <1>2, CountersType

LEMMA Chained ==
  ASSUME NEW r, NEW s, NEW t, Same(r, s), s.ref = r.ref, Dropped(s, t)
  PROVE  Dropped(r, t)
BY DEF Same, Core, Dropped, Returned

(* A new request. *)
LEMMA NewFields ==
  ASSUME NEW r \in Request, NEW type \in {"RECV", "SEND", "SSEND", "RSEND"}
  PROVE  LET s == NewRequest(r, type) IN
         /\ s \in Request /\ s.type = type /\ s.gen = r.gen + 1 /\ s.ref = 1
         /\ s.msgType = "NONE" /\ s.id = 0 /\ s.partner = None
         /\ ~s.syncAck /\ ~s.cancelPending
BY NewRequestType DEF NewRequest, Returned, FreeRequest

(* The request h of a send from p to q, as it is first seen. *)
NewSend(p, h, q, t, mode, msgType, s) ==
  /\ s.type = mode /\ s.gen = req[p][h].gen + 1 /\ s.id = Len(sent[p]) + 1
  /\ s.msgType = msgType /\ s.rank = q /\ s.tag = t /\ s.partner = None
  /\ ~s.cancelPending

TypedSreq(p, h, q, t, mode, size, type) ==
  [NewSreq(p, h, q, t, mode, size) EXCEPT !.msgType = type]

LEMMA NewSendFields ==
  ASSUME TypeOK, NEW p \in Proc, NEW h \in Handle, NEW q \in Proc, NEW t \in Tag,
         NEW mode \in Mode, NEW size \in Size,
         NEW type \in {"EAGER", "RNDV", "SELF"}
  PROVE  /\ TypedSreq(p, h, q, t, mode, size, type) \in Request
         /\ NewSend(p, h, q, t, mode, type, TypedSreq(p, h, q, t, mode, size, type))
         /\ TypedSreq(p, h, q, t, mode, size, type).ref = 1
<1> DEFINE r == NewSreq(p, h, q, t, mode, size)
<1>1. r \in Request
  BY NewSreqType, Zenon DEF TypeOK
<1>2. /\ r.type = mode /\ r.gen = req[p][h].gen + 1 /\ r.id = Len(sent[p]) + 1 /\ r.ref = 1
      /\ r.rank = q /\ r.tag = t /\ r.partner = None /\ ~r.cancelPending
  BY DEF NewSreq, NewRequest, Returned, FreeRequest
<1> HIDE DEF r
<1>3. [r EXCEPT !.msgType = type] \in Request
  BY <1>1, FieldType
<1>4. NewSend(p, h, q, t, mode, type, [r EXCEPT !.msgType = type])
      /\ [r EXCEPT !.msgType = type].ref = 1
  BY <1>1, <1>2 DEF NewSend, Request
<1> QED
  BY <1>3, <1>4 DEF r, TypedSreq

LEMMA FreeIsFree ==
  ASSUME TypeOK, NEW p \in Proc, NEW h, h \in FreeHandles(p)
  PROVE  h \in Handle /\ req[p][h] \in Request /\ req[p][h].type = "FREE"
         /\ req[p][h].gen < MaxGen /\ req[p][h].gen \in Nat
BY RequestFields DEF FreeHandles, TypeOK

LEMMA SetOne ==
  ASSUME TypeOK, NEW p \in Proc, NEW h \in Handle, NEW r,
         req' = [req EXCEPT ![p][h] = r]
  PROVE  req'[p][h] = r /\ Others(p, {h})
BY DEF TypeOK, Others

LEMMA SetTwo ==
  ASSUME TypeOK, NEW p \in Proc, NEW h \in Handle, NEW g \in Handle, NEW r, NEW s, h # g,
         req' = [req EXCEPT ![p] = [@ EXCEPT ![h] = r, ![g] = s]]
  PROVE  req'[p][h] = r /\ req'[p][g] = s /\ Others(p, {h, g})
BY DEF TypeOK, Others

LEMMA IsendReq ==
  ASSUME TypeOK, NEW p \in Proc, NEW q \in Proc, NEW t \in Tag, NEW mode \in Mode,
         NEW size \in Size, NEW h \in Handle, Isend(p, q, t, mode, size, h)
  PROVE  /\ Others(p, {h}) /\ h \in FreeHandles(p) /\ req'[p][h].ref = 2 /\ p # q
         /\ NewSend(p, h, q, t, mode, IF IsEager(mode, size) THEN "EAGER" ELSE "RNDV",
                    req'[p][h])
<1> DEFINE r == NewSreq(p, h, q, t, mode, size)
           type == IF IsEager(mode, size) THEN "EAGER" ELSE "RNDV"
           s == TypedSreq(p, h, q, t, mode, size, type)
<1>2. req' = [req EXCEPT ![p][h] = AddRef(s)]
  BY DEF Isend, SendEager, SendRndv, TypedSreq
<1>6. type \in {"EAGER", "RNDV", "SELF"}
  OBVIOUS
<1> HIDE DEF type
<1>1. s \in Request /\ NewSend(p, h, q, t, mode, type, s) /\ s.ref = 1
  BY <1>6, NewSendFields
<1> HIDE DEF s
<1>3. Same(s, AddRef(s)) /\ AddRef(s).ref = 2
  BY <1>1, Counted
<1>5. req'[p][h] = AddRef(s) /\ Others(p, {h})
  BY <1>2, SetOne
<1> QED
  BY <1>1, <1>3, <1>5 DEF Isend, NewSend, Same, Core, type

LEMMA FinishCallReq ==
  ASSUME TypeOK, NEW p \in Proc, FinishCall(p)
  PROVE  LET c == call[p] IN
         /\ c \in Handle /\ Others(p, {c})
         /\ Same(req[p][c], req'[p][c]) /\ req'[p][c].ref = req[p][c].ref + 1
<1> DEFINE c == call[p]
           r == req[p][c]
<1>1. c \in Handle /\ r \in Request
  BY DEF FinishCall, TypeOK
<1>2. req' = [req EXCEPT ![p][c] = PostponeCompletion(AddRef(r))]
  BY DEF FinishCall
<1> HIDE DEF c, r
<1>3. req'[p][c] = PostponeCompletion(AddRef(r)) /\ Others(p, {c})
  BY <1>1, <1>2, SetOne
<1>4. Same(r, AddRef(r)) /\ AddRef(r).ref = r.ref + 1 /\ AddRef(r) \in Request
  BY <1>1, Counted
<1>5. Same(AddRef(r), PostponeCompletion(AddRef(r)))
      /\ PostponeCompletion(AddRef(r)).ref = r.ref + 1
  BY <1>4, Counted
<1> QED
  BY <1>1, <1>3, <1>4, <1>5 DEF c, r, Same, Core

LEMMA IsendSelfFoundReq ==
  ASSUME TypeOK, NEW p \in Proc, NEW t \in Tag, NEW mode \in Mode,
         NEW size \in Size, NEW h \in Handle, NEW i \in 1 .. Len(posted[p]),
         IsendSelfFound(p, t, mode, size, h, i), posted[p][i].rreq # h
  PROVE  LET g == posted[p][i].rreq IN
         /\ g \in Handle /\ Others(p, {h, g}) /\ h \in FreeHandles(p)
         /\ NewSend(p, h, p, t, mode, "SELF", req'[p][h]) /\ req'[p][h].ref = 1
         /\ Dropped(req[p][g], req'[p][g])
<1> DEFINE g == posted[p][i].rreq
           s == TypedSreq(p, h, p, t, mode, size, "SELF")
           r == [req[p][g] EXCEPT !.delivered = TRUE]
<1>1. g \in Handle /\ req[p][g] \in Request
  BY EntryTypes DEF TypeOK
<1>2. req' = [req EXCEPT ![p] = [@ EXCEPT ![h] = SignalCompletion(s),
                                          ![g] = Release(SignalCompletion(r))]]
  BY DEF IsendSelfFound, TypedSreq
<1>3. s \in Request /\ NewSend(p, h, p, t, mode, "SELF", s) /\ s.ref = 1
  BY NewSendFields
<1>4. r \in Request /\ Same(req[p][g], r) /\ r.ref = req[p][g].ref
  BY <1>1, FieldType, Field
<1>5. h # g
  OBVIOUS
<1> HIDE DEF g, s, r
<1>6. /\ Same(s, SignalCompletion(s)) /\ SignalCompletion(s).ref = 1
  BY <1>3, Counted
<1>7. Dropped(req[p][g], Release(SignalCompletion(r)))
  <2>1. SignalCompletion(r) \in Request /\ Same(r, SignalCompletion(r))
        /\ SignalCompletion(r).ref = r.ref
    BY <1>4, Counted
  <2>2. Dropped(SignalCompletion(r), Release(SignalCompletion(r)))
    BY <2>1, Counted
  <2>3. Dropped(r, Release(SignalCompletion(r)))
    BY <2>1, <2>2, Chained
  <2> QED
    BY <1>4, <2>3, Chained
<1>8. /\ req'[p][h] = SignalCompletion(s) /\ req'[p][g] = Release(SignalCompletion(r))
      /\ Others(p, {h, g})
  BY <1>1, <1>2, <1>5, SetTwo
<1> QED
  BY <1>1, <1>3, <1>6, <1>7, <1>8 DEF g, NewSend, Same, Core, IsendSelfFound

Kept(p, h) == Same(req[p][h], req'[p][h]) /\ req'[p][h].ref = req[p][h].ref

OthersKept(p, h) ==
  \A a \in Proc, g \in Handle : a # p \/ g # h => Kept(a, g)

LEMMA KeptWhenSame ==
  ASSUME NEW p, NEW h, req'[p][h] = req[p][h]
  PROVE  Kept(p, h)
BY DEF Kept, Same, Core

(* The request g of a receive, as it is first seen. *)
NewRecv(q, g, s) ==
  s.type = "RECV" /\ s.gen = req[q][g].gen + 1 /\ ~s.cancelPending

LEMMA IsendSelfUnexpectedReq ==
  ASSUME TypeOK, NEW p \in Proc, NEW t \in Tag, NEW mode \in Mode,
         NEW size \in Size, NEW h \in Handle, NEW g \in Handle,
         IsendSelfUnexpected(p, t, mode, size, h, g)
  PROVE  /\ h # g /\ {h, g} \subseteq FreeHandles(p) /\ Others(p, {h, g})
         /\ NewSend(p, h, p, t, mode, "SELF", req'[p][h]) /\ req'[p][h].ref = 1
         /\ NewRecv(p, g, req'[p][g]) /\ req'[p][g].ref = 1
         /\ req'[p][g].msgType = "SELF" /\ req'[p][g].rank = p /\ ~req'[p][g].syncAck
         /\ req'[p][g].partner = IF mode = "RSEND" THEN None ELSE h
         /\ req'[p][g].senderReq = req'[p][g].partner
<1> DEFINE s == TypedSreq(p, h, p, t, mode, size, "SELF")
           r == [NewRequest(req[p][g], "RECV") EXCEPT
                  !.msgType = "SELF", !.rank = p, !.tag = t, !.size = size,
                  !.partner = IF mode = "RSEND" THEN None ELSE h,
                  !.senderReq = IF mode = "RSEND" THEN None ELSE h,
                  !.error = mode = "RSEND"]
<1>1. s \in Request /\ NewSend(p, h, p, t, mode, "SELF", s) /\ s.ref = 1
  BY NewSendFields
<1>2. req[p][g] \in Request
  BY DEF TypeOK
<1>3. r \in Request
  <2> DEFINE x == NewRequest(req[p][g], "RECV")
             w == IF mode = "RSEND" THEN None ELSE h
  <2>1. x \in Request
    BY <1>2, NewRequestType
  <2>2. /\ w \in Handle \cup {None} /\ size \in {"zero", "eager", "rndv"}
        /\ t \in Tag \cup {None} /\ p \in Proc \cup {None} /\ (mode = "RSEND") \in BOOLEAN
    BY SizeAssumption
  <2> HIDE DEF x, w
  <2> DEFINE y == [x EXCEPT !.msgType = "SELF", !.rank = p, !.tag = t]
             z == [y EXCEPT !.size = size, !.partner = w]
  <2>3. y \in Request
    BY <2>1, <2>2 DEF Request
  <2> HIDE DEF y
  <2>4. z \in Request
    BY <2>2, <2>3 DEF Request
  <2> HIDE DEF z
  <2>5. [z EXCEPT !.senderReq = w, !.error = mode = "RSEND"] \in Request
    BY <2>2, <2>4 DEF Request
  <2> QED
    BY <2>5 DEF x, w, y, z
<1>4. /\ r.type = "RECV" /\ r.gen = req[p][g].gen + 1 /\ ~r.cancelPending /\ r.ref = 1
      /\ r.msgType = "SELF" /\ r.rank = p /\ ~r.syncAck
      /\ r.partner = (IF mode = "RSEND" THEN None ELSE h) /\ r.senderReq = r.partner
  BY DEF NewRequest, Returned, FreeRequest
<1>5. h # g /\ {h, g} \subseteq FreeHandles(p)
      /\ req' = [req EXCEPT ![p] = [@ EXCEPT ![h] = SelfSend(s), ![g] = Release(AddRef(r))]]
  BY DEF IsendSelfUnexpected, TypedSreq
<1> HIDE DEF s, r
<1>6. req'[p][h] = SelfSend(s) /\ req'[p][g] = Release(AddRef(r)) /\ Others(p, {h, g})
  BY <1>5, SetTwo
<1>7. Same(s, SelfSend(s)) /\ SelfSend(s).ref = 1
  <2>1. CASE s.type = "RSEND"
    <3> DEFINE z == [s EXCEPT !.error = TRUE]
    <3>1. z \in Request /\ Same(s, z) /\ z.ref = 1
      BY <1>1, Field, FieldType
    <3> HIDE DEF z
    <3>2. Same(z, SignalCompletion(z)) /\ SignalCompletion(z).ref = 1
      BY <3>1, Counted
    <3> QED
      BY <2>1, <3>1, <3>2 DEF SelfSend, z, Same, Core
  <2>2. CASE s.type # "RSEND"
    BY <1>1, <2>2 DEF SelfSend, Same, Core
  <2> QED
    BY <2>1, <2>2
<1>8. Same(r, Release(AddRef(r))) /\ Release(AddRef(r)).ref = 1
  <2>1. AddRef(r) \in Request /\ Same(r, AddRef(r)) /\ AddRef(r).ref = 2
    BY <1>3, <1>4, Counted
  <2>2. Dropped(AddRef(r), Release(AddRef(r)))
    BY <2>1, Counted
  <2> QED
    BY <2>1, <2>2 DEF Dropped, Same, Core
<1> QED
  BY <1>1, <1>4, <1>5, <1>6, <1>7, <1>8 DEF NewSend, NewRecv, Same, Core

LEMMA RecvPostReq ==
  ASSUME TypeOK, NEW p \in Proc, NEW f \in Filters, NEW h \in Handle, RecvPost(p, f, h)
  PROVE  /\ h \in FreeHandles(p) /\ Others(p, {h})
         /\ NewRecv(p, h, req'[p][h]) /\ req'[p][h].ref = 2
         /\ req'[p][h].msgType = "NONE" /\ ~req'[p][h].syncAck
         /\ req'[p][h].partner = None
         /\ req'[p][h].id = Len(rcvd[p]) + 1
<1> DEFINE x == NewRequest(req[p][h], "RECV")
           y == [x EXCEPT !.pending = 1]
           r == [y EXCEPT !.id = Len(rcvd[p]) + 1]
<1>1. x \in Request /\ x.type = "RECV" /\ x.gen = req[p][h].gen + 1 /\ x.ref = 1
      /\ x.msgType = "NONE" /\ x.partner = None /\ ~x.syncAck /\ ~x.cancelPending
  <2>1. req[p][h] \in Request
    BY DEF TypeOK
  <2> QED
    BY <2>1, NewRequestType DEF NewRequest, Returned, FreeRequest
<1>2. req' = [req EXCEPT ![p][h] = AddRef(r)] /\ h \in FreeHandles(p)
  BY DEF RecvPost
<1>3. Len(rcvd[p]) + 1 \in Nat /\ 1 \in Int
  BY DEF TypeOK
<1> HIDE DEF x
<1>4. y \in Request /\ Same(x, y) /\ y.ref = 1
  <2>1. y \in Request
    BY <1>1, <1>3, FieldType, Zenon
  <2>2. Same(x, y) /\ y.ref = x.ref
    BY <1>1, Field
  <2> QED
    BY <1>1, <2>1, <2>2
<1> HIDE DEF y
<1>5. r \in Request /\ Core(y, r) /\ r.cancelPending = y.cancelPending
      /\ r.id = Len(rcvd[p]) + 1 /\ r.ref = 1
  <2>1. r \in Request
    BY <1>3, <1>4, FieldType, Zenon
  <2> DEFINE j == Len(rcvd[p]) + 1
  <2> HIDE DEF j
  <2>2. LET z == [y EXCEPT !.id = j] IN
          Core(y, z) /\ z.cancelPending = y.cancelPending /\ z.id = j /\ z.ref = y.ref
    BY <1>4, Field
  <2> QED
    BY <1>4, <2>1, <2>2 DEF j
<1> HIDE DEF r
<1>6. Same(r, AddRef(r)) /\ AddRef(r).ref = 2
  BY <1>5, Counted
<1>7. req'[p][h] = AddRef(r) /\ Others(p, {h})
  BY <1>2, SetOne
<1> QED
  BY <1>1, <1>2, <1>4, <1>5, <1>6, <1>7 DEF NewRecv, Same, Core

LEMMA RecvTypeReq ==
  ASSUME TypeOK, NEW p \in Proc, NEW h \in Handle, NEW r \in Request,
         HandleRecvMsgType(p, h, r)
  PROVE  /\ OthersKept(p, h) /\ Same(r, req'[p][h])
         /\ req'[p][h].ref = r.ref + IF r.msgType = "RNDV" THEN 1 ELSE 0
<1>1. CASE TakeEager(p, h, r)
  <2> DEFINE x == [r EXCEPT !.pending = @ - 1]
             v == Unpacked(r)
             y == [x EXCEPT !.delivered = v]
  <2>1. x \in Request /\ Same(r, x) /\ x.ref = r.ref
    <3>1. r.pending - 1 \in Int
      BY RequestFields
    <3> QED
      BY <3>1, FieldType, Field
  <2>2. req' = [req EXCEPT ![p][h] = y] /\ r.msgType = "EAGER"
    BY <1>1 DEF TakeEager
  <2> HIDE DEF x, v
  <2>3. Same(x, y) /\ y.ref = x.ref
    BY <2>1, Field
  <2> HIDE DEF y
  <2>4. req'[p][h] = y /\ Others(p, {h})
    BY <2>2, SetOne
  <2>5. OthersKept(p, h)
    BY <2>4, KeptWhenSame DEF Others, OthersKept
  <2> QED
    BY <2>1, <2>2, <2>3, <2>4, <2>5, RequestFields DEF Same, Core
<1>2. CASE TakeRndv(p, h, r)
  <2>1. req' = [req EXCEPT ![p][h] = AddRef(r)] /\ r.msgType = "RNDV"
    BY <1>2 DEF TakeRndv
  <2>2. req'[p][h] = AddRef(r) /\ Others(p, {h})
    BY <2>1, SetOne
  <2>3. Same(r, AddRef(r)) /\ AddRef(r).ref = r.ref + 1
    BY Counted
  <2>4. OthersKept(p, h)
    BY <2>2, KeptWhenSame DEF Others, OthersKept
  <2> QED
    BY <2>1, <2>2, <2>3, <2>4
<1>3. CASE TakeSelf(p, h, r) /\ r.partner = None
  <2>1. req' = [req EXCEPT ![p][h] = SignalCompletion(r)] /\ r.msgType = "SELF"
    BY <1>3 DEF TakeSelf
  <2>2. req'[p][h] = SignalCompletion(r) /\ Others(p, {h})
    BY <2>1, SetOne
  <2>3. Same(r, SignalCompletion(r)) /\ SignalCompletion(r).ref = r.ref
    BY Counted
  <2>4. OthersKept(p, h)
    BY <2>2, KeptWhenSame DEF Others, OthersKept
  <2> QED
    BY <2>1, <2>2, <2>3, <2>4, RequestFields
<1>4. CASE TakeSelf(p, h, r) /\ r.partner # None
  <2> DEFINE g == r.partner
             x == [r EXCEPT !.delivered = TRUE]
             z == req[p][g]
  <2>1. g \in Handle /\ z \in Request
    BY <1>4, RequestFields DEF TypeOK
  <2>2. req' = [req EXCEPT ![p] = [@ EXCEPT ![g] = SignalCompletion(z),
                                            ![h] = SignalCompletion(x)]]
        /\ r.msgType = "SELF"
    BY <1>4 DEF TakeSelf
  <2>3. x \in Request /\ Same(r, x) /\ x.ref = r.ref
    BY FieldType, Field
  <2> HIDE DEF g, x, z
  <2>4. Same(x, SignalCompletion(x)) /\ SignalCompletion(x).ref = x.ref
    BY <2>3, Counted
  <2>5. Same(z, SignalCompletion(z)) /\ SignalCompletion(z).ref = z.ref
    BY <2>1, Counted
  <2>6. req'[p][h] = SignalCompletion(x)
    BY <2>1, <2>2 DEF TypeOK
  <2>7. \A a \in Proc, b \in Handle : a # p \/ b # h =>
          \/ req'[a][b] = req[a][b]
          \/ a = p /\ b = g /\ req'[a][b] = SignalCompletion(z)
    BY <2>1, <2>2 DEF TypeOK
  <2>8. OthersKept(p, h)
    <3> SUFFICES ASSUME NEW a \in Proc, NEW b \in Handle, a # p \/ b # h
                 PROVE  Kept(a, b)
      BY DEF OthersKept
    <3>1. CASE req'[a][b] = req[a][b]
      BY <3>1, KeptWhenSame
    <3>2. CASE a = p /\ b = g /\ req'[a][b] = SignalCompletion(z)
      BY <3>2, <2>5 DEF Kept, z
    <3> QED
      BY <2>7, <3>1, <3>2
  <2>9. Same(r, SignalCompletion(x)) /\ SignalCompletion(x).ref = r.ref
    BY <2>3, <2>4 DEF Same, Core
  <2>10. r.msgType # "RNDV" /\ r.ref \in Int
    BY <2>2, RequestFields
  <2> QED
    BY <2>6, <2>8, <2>9, <2>10
<1>5. TakeSelf(p, h, r) => r.partner = None \/ r.partner # None
  OBVIOUS
<1> QED
  BY <1>1, <1>2, <1>3, <1>4, <1>5 DEF HandleRecvMsgType

LEMMA RecvFoundReq ==
  ASSUME TypeOK, NEW p \in Proc, NEW f \in Filters, NEW i \in 1 .. Len(unexpected[p]),
         RecvFound(p, f, i)
  PROVE  LET h == unexpected[p][i].rreq
             r == req[p][h]
         IN /\ h \in Handle /\ OthersKept(p, h)
            /\ Core(r, req'[p][h]) /\ req'[p][h].cancelPending = r.cancelPending
            /\ req'[p][h].id = Len(rcvd[p]) + 1
            /\ req'[p][h].ref = r.ref + IF r.msgType = "RNDV" THEN 1 ELSE 0
<1> DEFINE h == unexpected[p][i].rreq
           r == req[p][h]
           s == [r EXCEPT !.id = Len(rcvd[p]) + 1]
<1>1. h \in Handle
  BY EntryTypes DEF TypeOK
<1>2. r \in Request /\ Len(rcvd[p]) + 1 \in Nat
  BY <1>1 DEF TypeOK
<1>3. HandleRecvMsgType(p, h, s)
  BY DEF RecvFound
<1> HIDE DEF r
<1>4. s \in Request /\ Core(r, s) /\ s.cancelPending = r.cancelPending
      /\ s.id = Len(rcvd[p]) + 1 /\ s.ref = r.ref
  <2>1. s \in Request
    BY <1>2, FieldType, Zenon
  <2> DEFINE j == Len(rcvd[p]) + 1
  <2> HIDE DEF j
  <2>2. LET z == [r EXCEPT !.id = j] IN
          Core(r, z) /\ z.cancelPending = r.cancelPending /\ z.id = j /\ z.ref = r.ref
    BY <1>2, Field
  <2> QED
    BY <2>1, <2>2 DEF j
<1> HIDE DEF h, s
<1>5. /\ OthersKept(p, h) /\ Same(s, req'[p][h])
      /\ req'[p][h].ref = s.ref + IF s.msgType = "RNDV" THEN 1 ELSE 0
  BY <1>1, <1>3, <1>4, RecvTypeReq
<1> QED
  BY <1>1, <1>4, <1>5 DEF h, r, Same, Core

LEMMA ImprobeReq ==
  ASSUME TypeOK, NEW p \in Proc, NEW f \in Filters, NEW i \in 1 .. Len(unexpected[p]),
         Improbe(p, f, i)
  PROVE  LET h == unexpected[p][i].rreq
             r == req[p][h]
         IN /\ h \in Handle /\ Others(p, {h})
            /\ Core(r, req'[p][h]) /\ req'[p][h].cancelPending = r.cancelPending
            /\ req'[p][h].id = Len(rcvd[p]) + 1 /\ req'[p][h].ref = r.ref
<1> DEFINE h == unexpected[p][i].rreq
           r == req[p][h]
           s == [r EXCEPT !.id = Len(rcvd[p]) + 1]
<1>1. h \in Handle
  BY EntryTypes DEF TypeOK
<1>2. r \in Request /\ Len(rcvd[p]) + 1 \in Nat
  BY <1>1 DEF TypeOK
<1>3. req' = [req EXCEPT ![p][h] = s]
  BY DEF Improbe
<1> HIDE DEF r
<1>4. Core(r, s) /\ s.cancelPending = r.cancelPending
      /\ s.id = Len(rcvd[p]) + 1 /\ s.ref = r.ref
  BY <1>2, Field
<1> HIDE DEF s, h
<1>6. req'[p][h] = s /\ Others(p, {h})
  BY <1>1, <1>3, SetOne
<1> QED
  BY <1>1, <1>4, <1>6 DEF h, r

LEMMA ImrecvReq ==
  ASSUME TypeOK, NEW p \in Proc, NEW h \in Handle, Imrecv(p, h)
  PROVE  /\ OthersKept(p, h) /\ Same(req[p][h], req'[p][h])
         /\ req'[p][h].ref = req[p][h].ref + IF req[p][h].msgType = "RNDV" THEN 1 ELSE 0
<1>1. req[p][h] \in Request /\ HandleRecvMsgType(p, h, req[p][h])
  BY DEF TypeOK, Imrecv
<1> QED
  BY <1>1, RecvTypeReq

(* A note, a completion and a release. *)
LEMMA DoneDropped ==
  ASSUME NEW r \in Request, NEW s \in Request, Same(r, s), s.ref = r.ref
  PROVE  /\ Dropped(r, Release(s)) /\ Dropped(r, Release(SignalCompletion(s)))
         /\ SignalCompletion(s) \in Request /\ Release(s) \in Request
         /\ Release(SignalCompletion(s)) \in Request
<1>1. /\ SignalCompletion(s) \in Request /\ Same(s, SignalCompletion(s))
      /\ SignalCompletion(s).ref = s.ref
      /\ Release(s) \in Request /\ Dropped(s, Release(s))
  BY Counted
<1>2. Release(SignalCompletion(s)) \in Request
      /\ Dropped(SignalCompletion(s), Release(SignalCompletion(s)))
  BY <1>1, Counted
<1>3. Dropped(s, Release(SignalCompletion(s)))
  BY <1>1, <1>2, Chained
<1> QED
  BY <1>1, <1>2, <1>3, Chained

LEMMA SameAsItself ==
  ASSUME NEW r PROVE Same(r, r)
BY DEF Same, Core

LEMMA DropHandleReq ==
  ASSUME TypeOK, NEW p \in Proc, NEW h \in Handle, DropHandle(p, h)
  PROVE  Others(p, {h}) /\ Dropped(req[p][h], req'[p][h])
<1>1. req[p][h] \in Request /\ req' = [req EXCEPT ![p][h] = Release(req[p][h])]
  BY DEF TypeOK, DropHandle
<1>2. req'[p][h] = Release(req[p][h]) /\ Others(p, {h})
  BY <1>1, SetOne
<1> QED
  BY <1>1, <1>2, Counted

LEMMA CancelRecvReq ==
  ASSUME TypeOK, NEW p \in Proc, NEW i \in 1 .. Len(posted[p]), CancelRecv(p, i)
  PROVE  LET h == posted[p][i].rreq IN
         h \in Handle /\ Others(p, {h}) /\ Dropped(req[p][h], req'[p][h])
<1> DEFINE h == posted[p][i].rreq
           r == req[p][h]
           s == [r EXCEPT !.cancelled = TRUE]
<1>1. h \in Handle
  BY EntryTypes DEF TypeOK
<1>2. r \in Request
  BY <1>1 DEF TypeOK
<1>3. req' = [req EXCEPT ![p][h] = Release(SignalCompletion(s))]
  BY DEF CancelRecv
<1> HIDE DEF r
<1>4. s \in Request /\ Same(r, s) /\ s.ref = r.ref
  BY <1>2, FieldType, Field
<1> HIDE DEF h, s
<1>5. Dropped(r, Release(SignalCompletion(s)))
  BY <1>2, <1>4, DoneDropped
<1>6. req'[p][h] = Release(SignalCompletion(s)) /\ Others(p, {h})
  BY <1>1, <1>3, SetOne
<1> QED
  BY <1>1, <1>5, <1>6 DEF h, r

(* The cancel of a send only notes that it was asked for. *)
Asked(r, s) == Core(r, s) /\ s.id = r.id /\ s.cancelPending /\ s.ref = r.ref

LEMMA CancelSendReq ==
  ASSUME TypeOK, NEW p \in Proc, NEW h \in Handle, CancelSend(p, h)
  PROVE  Others(p, {h}) /\ Asked(req[p][h], req'[p][h])
<1> DEFINE r == req[p][h]
           s == [r EXCEPT !.cancelPending = TRUE]
<1>1. r \in Request /\ req' = [req EXCEPT ![p][h] = s]
  BY DEF TypeOK, CancelSend
<1> HIDE DEF r
<1>2. Asked(r, s)
  BY <1>1, Field DEF Asked
<1> HIDE DEF s
<1>3. req'[p][h] = s /\ Others(p, {h})
  BY <1>1, SetOne
<1> QED
  BY <1>2, <1>3 DEF r

LEMMA SelfVerdictFields ==
  ASSUME NEW s \in Request, NEW found \in BOOLEAN
  PROVE  SelfVerdict(s, found) \in Request /\ Asked(s, SelfVerdict(s, found))
<1> DEFINE x == [s EXCEPT !.cancelled = found]
           y == [x EXCEPT !.cancelPending = TRUE]
<1>1. x \in Request /\ Same(s, x) /\ x.ref = s.ref
  BY FieldType, Field
<1>2. SelfVerdict(s, found) = IF found THEN SignalCompletion(y) ELSE y
  BY DEF SelfVerdict
<1> HIDE DEF x
<1>3. y \in Request /\ Asked(x, y)
  BY <1>1, FieldType, Field DEF Asked
<1> HIDE DEF y
<1>4. SignalCompletion(y) \in Request
      /\ Same(y, SignalCompletion(y)) /\ SignalCompletion(y).ref = y.ref
  BY <1>3, Counted
<1> QED
  BY <1>1, <1>2, <1>3, <1>4 DEF Asked, Same, Core

LEMMA CancelSelfFoundReq ==
  ASSUME TypeOK, NEW p \in Proc, NEW h \in Handle, NEW i \in 1 .. Len(unexpected[p]),
         CancelSelfFound(p, h, i)
  PROVE  LET g == unexpected[p][i].rreq IN
         /\ g \in Handle /\ Others(p, {h, g}) /\ Asked(req[p][h], req'[p][h])
         /\ g # h => Dropped(req[p][g], req'[p][g])
<1> DEFINE g == unexpected[p][i].rreq
           s == req[p][h]
           r == req[p][g]
<1>1. g \in Handle
  BY EntryTypes DEF TypeOK
<1>2. r \in Request /\ s \in Request
  BY <1>1 DEF TypeOK
<1>3. req' = [req EXCEPT ![p] = [@ EXCEPT ![g] = Release(r), ![h] = SelfVerdict(s, TRUE)]]
  BY DEF CancelSelfFound
<1>4. Asked(s, SelfVerdict(s, TRUE)) /\ Dropped(r, Release(r))
  BY <1>2, SelfVerdictFields, Counted
<1> HIDE DEF g, s, r
<1>5. req'[p][h] = SelfVerdict(s, TRUE) /\ (g # h => req'[p][g] = Release(r))
      /\ Others(p, {h, g})
  BY <1>1, <1>3 DEF TypeOK, Others
<1> QED
  BY <1>1, <1>4, <1>5 DEF g, s, r

LEMMA CancelSelfMissedReq ==
  ASSUME TypeOK, NEW p \in Proc, NEW h \in Handle, CancelSelfMissed(p, h)
  PROVE  Others(p, {h}) /\ Asked(req[p][h], req'[p][h])
<1> DEFINE s == req[p][h]
<1>1. s \in Request /\ req' = [req EXCEPT ![p][h] = SelfVerdict(s, FALSE)]
  BY DEF TypeOK, CancelSelfMissed
<1>2. Asked(s, SelfVerdict(s, FALSE))
  BY <1>1, SelfVerdictFields
<1> HIDE DEF s
<1>3. req'[p][h] = SelfVerdict(s, FALSE) /\ Others(p, {h})
  BY <1>1, SetOne
<1> QED
  BY <1>2, <1>3 DEF s

(* An update of a request that may be MPI_REQUEST_NULL. *)
LEMMA SetNamed ==
  ASSUME TypeOK, NEW p \in Proc, NEW h, NEW r, req' = [req EXCEPT ![p][h] = r]
  PROVE  (h \in Handle => req'[p][h] = r) /\ Others(p, {h})
BY DEF TypeOK, Others

LEMMA WriteReq ==
  ASSUME TypeOK, NEW p \in Proc, NEW q \in Proc, Write(p, q)
  PROVE  LET k == Head(sendq[p][q]) IN
         IF CarriesRequest(k)
         THEN /\ Others(p, {k.sreq})
              /\ k.sreq \in Handle => Dropped(req[p][k.sreq], req'[p][k.sreq])
         ELSE req' = req
<1> DEFINE k == Head(sendq[p][q])
           h == k.sreq
<1>1. SUFFICES ASSUME CarriesRequest(k)
               PROVE  Others(p, {h}) /\ (h \in Handle => Dropped(req[p][h], req'[p][h]))
  BY DEF Write
<1>2. req' = [req EXCEPT ![p][h] = Release(SignalCompletion(req[p][h]))]
  BY <1>1 DEF Write
<1> HIDE DEF h
<1>3. Others(p, {h}) /\ (h \in Handle => req'[p][h] = Release(SignalCompletion(req[p][h])))
  BY <1>2, SetNamed
<1>4. h \in Handle => Dropped(req[p][h], Release(SignalCompletion(req[p][h])))
  <2> SUFFICES ASSUME h \in Handle
               PROVE  Dropped(req[p][h], Release(SignalCompletion(req[p][h])))
    OBVIOUS
  <2>1. req[p][h] \in Request
    BY DEF TypeOK
  <2> QED
    BY <2>1, DoneDropped, SameAsItself
<1> QED
  BY <1>3, <1>4

(* What set_request_info leaves of a request. *)
Told(r, s, k, msgType) ==
  /\ s.type = r.type /\ s.gen = r.gen /\ s.rank = r.rank /\ s.tag = r.tag
  /\ s.syncAck = r.syncAck /\ s.partner = r.partner
  /\ s.id = r.id /\ s.cancelPending = r.cancelPending
  /\ s.senderReq = k.sreq /\ s.msgType = msgType

LEMMA WithInfoFields ==
  ASSUME NEW r \in Request, NEW k, NEW msgType
  PROVE  Told(r, WithInfo(r, k, msgType), k, msgType)
         /\ WithInfo(r, k, msgType).ref = r.ref
BY DEF Told, WithInfo, Request

LEMMA HandleEagerFoundReq ==
  ASSUME TypeOK, NEW p \in Proc, NEW q \in Proc, NEW k \in Packet,
         NEW i \in 1 .. Len(posted[q]), HandleEagerFound(q, p, k, i)
  PROVE  LET h == posted[q][i].rreq
             r == req[q][h]
             s == req'[q][h]
         IN /\ h \in Handle /\ Others(q, {h})
            /\ IF k.size # "zero" THEN Told(r, s, k, "EAGER") /\ s.ref = r.ref
               ELSE IF r.ref = 1 THEN Returned(r, s)
               ELSE Told(r, s, k, "EAGER") /\ s.ref = r.ref - 1
<1> DEFINE h == posted[q][i].rreq
           r == req[q][h]
           x == WithInfo(r, k, "EAGER")
           y == [x EXCEPT !.delivered = TRUE]
<1>1. h \in Handle
  BY EntryTypes DEF TypeOK
<1>2. r \in Request
  BY <1>1 DEF TypeOK
<1>3. k.type \in EagerTypes
  BY DEF HandleEagerFound
<1>4. x \in Request /\ Told(r, x, k, "EAGER") /\ x.ref = r.ref
  BY <1>2, <1>3, WithInfoType, WithInfoFields, PacketFields
<1>5. req' = [req EXCEPT ![q][h] = IF k.size = "zero" THEN Release(SignalCompletion(y)) ELSE x]
  BY DEF HandleEagerFound
<1> HIDE DEF x
<1>6. y \in Request /\ Same(x, y) /\ y.ref = x.ref
  BY <1>4, FieldType, Field
<1> HIDE DEF y
<1>7. Dropped(x, Release(SignalCompletion(y)))
  BY <1>4, <1>6, DoneDropped
<1> HIDE DEF h
<1>8. req'[q][h] = (IF k.size = "zero" THEN Release(SignalCompletion(y)) ELSE x)
      /\ Others(q, {h})
  BY <1>1, <1>5, SetNamed
<1>9. ASSUME k.size = "zero"
      PROVE  IF r.ref = 1 THEN Returned(r, req'[q][h])
             ELSE Told(r, req'[q][h], k, "EAGER") /\ req'[q][h].ref = r.ref - 1
  BY <1>4, <1>7, <1>8, <1>9 DEF Dropped, Returned, Told, Same, Core
<1> QED
  BY <1>1, <1>4, <1>8, <1>9 DEF h

LEMMA NewUnexpectedFields ==
  ASSUME TypeOK, NEW p \in Proc, NEW q \in Proc, NEW h \in Handle, NEW k \in Packet,
         Message(k), NEW type \in {"EAGER", "RNDV"}
  PROVE  LET s == NewUnexpected(q, p, k, h, type) IN
         /\ s \in Request /\ NewRecv(q, h, s) /\ s.ref = 2
         /\ s.msgType = type /\ s.rank = p /\ s.tag = k.tag
         /\ s.senderReq = k.sreq /\ s.partner = None /\ ~s.syncAck
<1> DEFINE x == [NewRequest(req[q][h], "RECV") EXCEPT !.rank = p, !.tag = k.tag]
<1>1. NewUnexpected(q, p, k, h, type) \in Request
  BY NewUnexpectedType, MessageFields DEF TypeOK
<1>2. /\ x.type = "RECV" /\ x.gen = req[q][h].gen + 1 /\ ~x.cancelPending /\ x.ref = 1
      /\ x.rank = p /\ x.tag = k.tag /\ x.partner = None /\ ~x.syncAck
  BY DEF NewRequest, Returned, FreeRequest
<1>3. x \in Request
  <2>1. NewRequest(req[q][h], "RECV") \in Request
    BY NewRequestType DEF TypeOK
  <2>2. p \in Proc \cup {None} /\ k.tag \in Tag \cup {None}
    BY MessageFields
  <2> DEFINE z == NewRequest(req[q][h], "RECV")
  <2> HIDE DEF z
  <2>3. [z EXCEPT !.rank = p, !.tag = k.tag] \in Request
    BY <2>1, <2>2 DEF Request, z
  <2> QED
    BY <2>3 DEF z
<1>4. NewUnexpected(q, p, k, h, type) = AddRef(WithInfo(x, k, type))
  BY DEF NewUnexpected
<1> HIDE DEF x
<1> DEFINE y == WithInfo(x, k, type)
<1>5. Told(x, y, k, type) /\ y.ref = 1 /\ y \in Request
  BY <1>2, <1>3, WithInfoFields, WithInfoType, MessageFields
<1> HIDE DEF y
<1>6. Same(y, AddRef(y)) /\ AddRef(y).ref = 2
  BY <1>5, Counted
<1> QED
  BY <1>1, <1>2, <1>4, <1>5, <1>6 DEF y, NewRecv, Told, Same, Core

LEMMA HandleEagerUnexpectedReq ==
  ASSUME TypeOK, NEW p \in Proc, NEW q \in Proc, NEW k \in Packet, NEW h \in Handle,
         HandleEagerUnexpected(q, p, k, h)
  PROVE  LET s == req'[q][h] IN
         /\ h \in FreeHandles(q) /\ Others(q, {h}) /\ NewRecv(q, h, s)
         /\ s.ref = IF k.size = "zero" THEN 1 ELSE 2
         /\ s.msgType = "EAGER" /\ s.rank = p /\ s.senderReq = k.sreq /\ s.partner = None
         /\ s.syncAck = (k.type = "EAGER_SYNC_SEND")
<1> DEFINE z == NewUnexpected(q, p, k, h, "EAGER")
           ready == k.type = "READY_SEND"
           sync == k.type = "EAGER_SYNC_SEND"
           y == [z EXCEPT !.error = ready]
           r == [y EXCEPT !.syncAck = sync]
           v == [r EXCEPT !.pending = 2]
           u == [v EXCEPT !.onUe = TRUE]
<1>1. Message(k) /\ h \in FreeHandles(q)
  BY DEF HandleEagerUnexpected, Message
<1>2. /\ z \in Request /\ NewRecv(q, h, z) /\ z.ref = 2 /\ z.msgType = "EAGER" /\ z.rank = p
      /\ z.senderReq = k.sreq /\ z.partner = None /\ ~z.syncAck
  BY <1>1, NewUnexpectedFields
<1>3. req' = [req EXCEPT ![q][h] = IF k.size = "zero" THEN Release(SignalCompletion(r))
                                   ELSE IF ready THEN r ELSE u]
  BY DEF HandleEagerUnexpected
<1>4. ready \in BOOLEAN /\ sync \in BOOLEAN /\ 2 \in Int
  OBVIOUS
<1> HIDE DEF z, ready, sync
<1>5. y \in Request /\ Same(z, y) /\ y.ref = z.ref
  BY <1>2, <1>4, FieldType, Field
<1> HIDE DEF y
<1>6. r \in Request /\ r.syncAck = sync /\ r.ref = y.ref /\ r.type = y.type /\ r.gen = y.gen
      /\ r.cancelPending = y.cancelPending /\ r.msgType = y.msgType /\ r.rank = y.rank
      /\ r.senderReq = y.senderReq /\ r.partner = y.partner
  <2>1. r \in Request
    BY <1>4, <1>5, FieldType
  <2> QED
    BY <1>5, <2>1 DEF Request
<1> HIDE DEF r
<1>7. Same(r, v) /\ v.ref = r.ref /\ v \in Request
  <2>1. v \in Request
    BY <1>4, <1>6, FieldType
  <2> QED
    BY <2>1, <1>6, Field
<1> HIDE DEF v
<1>8. Same(v, u) /\ u.ref = v.ref
  BY <1>7 DEF Same, Core, Request
<1>9. Same(r, u) /\ u.ref = 2
  BY <1>2, <1>5, <1>6, <1>7, <1>8 DEF Same, Core
<1> HIDE DEF u
<1>10. Same(r, Release(SignalCompletion(r))) /\ Release(SignalCompletion(r)).ref = 1
  <2>1. Dropped(r, Release(SignalCompletion(r)))
    BY <1>6, DoneDropped, SameAsItself
  <2>2. r.ref = 2
    BY <1>2, <1>5, <1>6
  <2> QED
    BY <2>1, <2>2 DEF Dropped
<1>11. req'[q][h] = (IF k.size = "zero" THEN Release(SignalCompletion(r))
                     ELSE IF ready THEN r ELSE u) /\ Others(q, {h})
  BY <1>3, SetOne
<1>12. Same(r, req'[q][h]) /\ req'[q][h].ref = IF k.size = "zero" THEN 1 ELSE 2
  BY <1>2, <1>5, <1>6, <1>9, <1>10, <1>11, SameAsItself
<1>13. /\ r.type = "RECV" /\ r.gen = req[q][h].gen + 1 /\ ~r.cancelPending
       /\ r.msgType = "EAGER" /\ r.rank = p /\ r.senderReq = k.sreq /\ r.partner = None
  BY <1>2, <1>5, <1>6 DEF NewRecv, Same, Core
<1> QED
  BY <1>1, <1>6, <1>11, <1>12, <1>13 DEF NewRecv, Same, Core, sync

LEMMA PayloadArrivesReq ==
  ASSUME TypeOK, NEW p \in Proc, NEW q \in Proc, PayloadArrives(q, p)
  PROVE  LET h == reading[q][p] IN
         h \in Handle /\ Others(q, {h}) /\ Dropped(req[q][h], req'[q][h])
<1> DEFINE h == reading[q][p]
           r == req[q][h]
           x == [r EXCEPT !.pending = r.pending - 1]
           d == r.pending = 1
           y == [x EXCEPT !.delivered = d]
           e == r.delivered \/ ~r.error
           z == [r EXCEPT !.delivered = e]
           w == IF r.onUe THEN y ELSE z
<1>1. h \in Handle
  BY DEF PayloadArrives, TypeOK
<1>2. r \in Request
  BY <1>1 DEF TypeOK
<1>3. req' = [req EXCEPT ![q][h] = Release(SignalCompletion(w))]
  <2>1. w = IF r.onUe THEN [r EXCEPT !.pending = @ - 1, !.delivered = r.pending = 1]
                      ELSE [r EXCEPT !.delivered = @ \/ ~r.error]
    OBVIOUS
  <2> HIDE DEF w
  <2> QED
    BY <2>1 DEF PayloadArrives
<1>4. r.pending - 1 \in Int /\ d \in BOOLEAN /\ e \in BOOLEAN
  BY <1>2, RequestFields
<1> HIDE DEF r, d, e
<1>5. x \in Request /\ Same(r, x) /\ x.ref = r.ref
  BY <1>2, <1>4, FieldType, Field
<1> HIDE DEF x
<1>6. y \in Request /\ Same(x, y) /\ y.ref = x.ref
  BY <1>4, <1>5, FieldType, Field
<1>7. z \in Request /\ Same(r, z) /\ z.ref = r.ref
  BY <1>2, <1>4, FieldType, Field
<1> HIDE DEF y, z
<1>8. w \in Request /\ Same(r, w) /\ w.ref = r.ref
  BY <1>5, <1>6, <1>7 DEF Same, Core
<1> HIDE DEF w, h
<1>9. Dropped(r, Release(SignalCompletion(w)))
  BY <1>2, <1>8, DoneDropped
<1>10. req'[q][h] = Release(SignalCompletion(w)) /\ Others(q, {h})
  BY <1>1, <1>3, SetOne
<1> QED
  BY <1>1, <1>9, <1>10 DEF h, r

LEMMA HandleRtsFoundReq ==
  ASSUME TypeOK, NEW p \in Proc, NEW q \in Proc, NEW k \in Packet,
         NEW i \in 1 .. Len(posted[q]), HandleRtsFound(q, p, k, i)
  PROVE  LET h == posted[q][i].rreq
             r == req[q][h]
             s == req'[q][h]
         IN /\ h \in Handle /\ Others(q, {h})
            /\ IF r.ref = 0 THEN Returned(r, s)
               ELSE Told(r, s, k, "RNDV") /\ s.ref = r.ref
<1> DEFINE h == posted[q][i].rreq
           r == req[q][h]
           x == WithInfo(r, k, "RNDV")
<1>1. h \in Handle
  BY EntryTypes DEF TypeOK
<1>2. r \in Request
  BY <1>1 DEF TypeOK
<1>3. k.type = "RTS"
  BY DEF HandleRtsFound
<1>4. x \in Request /\ Told(r, x, k, "RNDV") /\ x.ref = r.ref
  BY <1>2, <1>3, WithInfoType, WithInfoFields, PacketFields
<1>5. req' = [req EXCEPT ![q][h] = Release(AddRef(x))]
  BY DEF HandleRtsFound
<1> HIDE DEF x
<1>6. AddRef(x) \in Request /\ Same(x, AddRef(x)) /\ AddRef(x).ref = x.ref + 1
  BY <1>4, Counted
<1>7. Dropped(AddRef(x), Release(AddRef(x)))
  BY <1>6, Counted
<1> HIDE DEF h
<1>8. req'[q][h] = Release(AddRef(x)) /\ Others(q, {h})
  BY <1>1, <1>5, SetOne
<1>9. r.ref \in Int
  BY <1>2, RequestFields
<1>10. IF r.ref = 0 THEN Returned(r, Release(AddRef(x)))
       ELSE Told(r, Release(AddRef(x)), k, "RNDV") /\ Release(AddRef(x)).ref = r.ref
  BY <1>4, <1>6, <1>7, <1>9 DEF Dropped, Returned, Told, Same, Core
<1> QED
  BY <1>1, <1>8, <1>10 DEF h

LEMMA HandleRtsUnexpectedReq ==
  ASSUME TypeOK, NEW p \in Proc, NEW q \in Proc, NEW k \in Packet, NEW h \in Handle,
         HandleRtsUnexpected(q, p, k, h)
  PROVE  LET s == req'[q][h] IN
         /\ h \in FreeHandles(q) /\ Others(q, {h}) /\ NewRecv(q, h, s) /\ s.ref = 1
         /\ s.msgType = "RNDV" /\ s.rank = p /\ s.senderReq = k.sreq /\ s.partner = None
         /\ ~s.syncAck
<1> DEFINE z == NewUnexpected(q, p, k, h, "RNDV")
<1>1. Message(k) /\ h \in FreeHandles(q) /\ req' = [req EXCEPT ![q][h] = Release(z)]
  BY DEF HandleRtsUnexpected, Message
<1>2. /\ z \in Request /\ NewRecv(q, h, z) /\ z.ref = 2 /\ z.msgType = "RNDV" /\ z.rank = p
      /\ z.senderReq = k.sreq /\ z.partner = None /\ ~z.syncAck
  BY <1>1, NewUnexpectedFields
<1> HIDE DEF z
<1>3. Dropped(z, Release(z))
  BY <1>2, Counted
<1>4. req'[q][h] = Release(z) /\ Others(q, {h})
  BY <1>1, SetOne
<1> QED
  BY <1>1, <1>2, <1>3, <1>4 DEF NewRecv, Dropped, Same, Core

LEMMA HandleCtsReq ==
  ASSUME TypeOK, NEW p \in Proc, NEW q \in Proc, NEW k \in Packet, HandleCts(q, p, k)
  PROVE  /\ Others(q, {k.sreq})
         /\ k.sreq \in Handle =>
              IF req[q][k.sreq].ref = 0
              THEN Returned(req[q][k.sreq], req'[q][k.sreq])
              ELSE Kept(q, k.sreq)
<1> DEFINE h == k.sreq
           r == req[q][h]
<1>1. req' = [req EXCEPT ![q][h] = Release(AddRef(r))]
  BY DEF HandleCts
<1>2. h \in Handle => r \in Request
  BY DEF TypeOK
<1> HIDE DEF h, r
<1>3. Others(q, {h}) /\ (h \in Handle => req'[q][h] = Release(AddRef(r)))
  BY <1>1, SetNamed
<1>4. ASSUME h \in Handle
      PROVE  IF r.ref = 0 THEN Returned(r, Release(AddRef(r)))
             ELSE Same(r, Release(AddRef(r))) /\ Release(AddRef(r)).ref = r.ref
  <2>1. r.ref \in Int /\ r \in Request
    BY <1>2, <1>4, RequestFields
  <2>2. AddRef(r) \in Request /\ Same(r, AddRef(r)) /\ AddRef(r).ref = r.ref + 1
    BY <2>1, Counted
  <2>3. Dropped(AddRef(r), Release(AddRef(r)))
    BY <2>2, Counted
  <2> QED
    BY <2>1, <2>2, <2>3 DEF Dropped, Returned, Same, Core
<1> QED
  BY <1>3, <1>4 DEF h, r, Kept

LEMMA HandleSyncAckReq ==
  ASSUME TypeOK, NEW p \in Proc, NEW q \in Proc, NEW k \in Packet, HandleSyncAck(q, p, k)
  PROVE  /\ Others(q, {k.sreq})
         /\ k.sreq \in Handle => Dropped(req[q][k.sreq], req'[q][k.sreq])
<1> DEFINE h == k.sreq
           r == req[q][h]
<1>1. req' = [req EXCEPT ![q][h] = Release(SignalCompletion(r))]
  BY DEF HandleSyncAck
<1>2. h \in Handle => r \in Request
  BY DEF TypeOK
<1> HIDE DEF h, r
<1>3. Others(q, {h}) /\ (h \in Handle => req'[q][h] = Release(SignalCompletion(r)))
  BY <1>1, SetNamed
<1>4. h \in Handle => Dropped(r, Release(SignalCompletion(r)))
  BY <1>2, DoneDropped, SameAsItself
<1> QED
  BY <1>3, <1>4 DEF h, r

LEMMA HandleCancelReqFoundReq ==
  ASSUME TypeOK, NEW p \in Proc, NEW q \in Proc, NEW k \in Packet,
         NEW i \in 1 .. Len(unexpected[q]), HandleCancelReqFound(q, p, k, i)
  PROVE  LET g == unexpected[q][i].rreq IN
         g \in Handle /\ Others(q, {g}) /\ Dropped(req[q][g], req'[q][g])
<1> DEFINE g == unexpected[q][i].rreq
           r == req[q][g]
<1>1. g \in Handle
  BY EntryTypes DEF TypeOK
<1>2. r \in Request /\ req' = [req EXCEPT ![q][g] = Release(r)]
  BY <1>1 DEF TypeOK, HandleCancelReqFound
<1> HIDE DEF g, r
<1>3. req'[q][g] = Release(r) /\ Others(q, {g})
  BY <1>1, <1>2, SetOne
<1> QED
  BY <1>1, <1>2, <1>3, Counted DEF g, r

LEMMA HandleCancelRespReq ==
  ASSUME TypeOK, NEW p \in Proc, NEW q \in Proc, NEW k \in Packet, HandleCancelResp(q, p, k)
  PROVE  /\ k.sreq \in Handle /\ Others(q, {k.sreq})
         /\ IF k.ack /\ Awaits(req[q][k.sreq])
            THEN \E s \in Request : Dropped(req[q][k.sreq], s) /\ Dropped(s, req'[q][k.sreq])
            ELSE Dropped(req[q][k.sreq], req'[q][k.sreq])
<1> DEFINE h == k.sreq
           r == req[q][h]
           x == [r EXCEPT !.cancelled = k.ack]
           b == k.ack /\ Awaits(r)
           s == IF b THEN Release(SignalCompletion(x)) ELSE x
<1>1. h \in Handle /\ k.ack \in BOOLEAN
  BY PacketFields DEF HandleCancelResp
<1>2. r \in Request
  BY <1>1 DEF TypeOK
<1>3. x \in Request /\ Same(r, x) /\ x.ref = r.ref
  BY <1>1, <1>2, FieldType, Field
<1>4. req' = [req EXCEPT ![q][h] = Release(SignalCompletion(s))]
  <2>1. (x.msgType = "RNDV" \/ x.type = "SSEND") <=> Awaits(r)
    BY <1>3 DEF Awaits, Same, Core
  <2> QED
    BY <2>1 DEF HandleCancelResp
<1> HIDE DEF x, b, h, r
<1>5. Dropped(r, Release(SignalCompletion(x))) /\ Release(SignalCompletion(x)) \in Request
  BY <1>2, <1>3, DoneDropped
<1>6. s \in Request
  BY <1>3, <1>5
<1>7. req'[q][h] = Release(SignalCompletion(s)) /\ Others(q, {h})
  <2> HIDE DEF s
  <2> QED
    BY <1>1, <1>4, SetOne
<1>8. ASSUME b
      PROVE  Dropped(r, s) /\ Dropped(s, Release(SignalCompletion(s)))
  <2>1. Dropped(r, s)
    BY <1>5, <1>8
  <2> HIDE DEF s
  <2>2. Dropped(s, Release(SignalCompletion(s)))
    BY <1>6, DoneDropped, SameAsItself
  <2> QED
    BY <2>1, <2>2
<1>9. ASSUME ~b
      PROVE  Dropped(r, Release(SignalCompletion(s)))
  BY <1>5, <1>9
<1> HIDE DEF s
<1>10. IF b THEN \E z \in Request : Dropped(r, z) /\ Dropped(z, req'[q][h])
       ELSE Dropped(r, req'[q][h])
  BY <1>6, <1>7, <1>8, <1>9
<1> QED
  BY <1>1, <1>7, <1>10 DEF h, r, b

-----------------------------------------------------------------------------
(***************************************************************************)
(* What can happen to a request in a step: it is returned to the pool, it  *)
(* is taken from it, or it goes on.                                        *)
(***************************************************************************)
Freed(r, s) == s.type = "FREE" /\ s.gen = r.gen

RecordsSend(p) ==
  /\ Len(sent'[p]) = Len(sent[p]) + 1 /\ ~sent'[p][Len(sent[p]) + 1].asked
  /\ \A n \in 1 .. Len(sent[p]) : sent'[p][n] = sent[p][n]

Fresh(p, h) ==
  /\ h \in FreeHandles(p) /\ req'[p][h].gen = req[p][h].gen + 1
  /\ ~req'[p][h].cancelPending
  /\ IsSend(req'[p][h]) =>
       /\ req'[p][h].id = Len(sent[p]) + 1 /\ RecordsSend(p)
       /\ \A g \in FreeHandles(p) : g # h => ~IsSend(req'[p][g])
       /\ req'[p][h].msgType = "SELF" => req'[p][h].rank = p

AsksFor(p, h) ==
  \/ CancelSend(p, h) \/ CancelSelfMissed(p, h)
  \/ \E i \in 1 .. Len(unexpected[p]) : CancelSelfFound(p, h, i)

Still(p, h) ==
  LET r == req[p][h]
      s == req'[p][h]
  IN
  /\ s.type = r.type /\ s.gen = r.gen /\ s.rank = r.rank
  /\ s.msgType = r.msgType \/ s.msgType \in {"EAGER", "RNDV"}
  /\ s.id = r.id \/ \E i \in 1 .. Len(unexpected[p]) : unexpected[p][i].rreq = h
  /\ s.cancelPending = r.cancelPending \/ AsksFor(p, h)

Goes(p, h) == Freed(req[p][h], req'[p][h]) \/ Fresh(p, h) \/ Still(p, h)

LEMMA SameStill ==
  ASSUME NEW p, NEW h, Same(req[p][h], req'[p][h])
  PROVE  Goes(p, h)
BY DEF Goes, Still, Same, Core

LEMMA DroppedGoes ==
  ASSUME NEW p, NEW h, Dropped(req[p][h], req'[p][h])
  PROVE  Goes(p, h)
BY SameStill DEF Goes, Freed, Dropped, Returned, FreeRequest

LEMMA FreedGoes ==
  ASSUME NEW p, NEW h, Returned(req[p][h], req'[p][h])
  PROVE  Goes(p, h)
BY DEF Goes, Freed, Returned, FreeRequest

LEMMA OthersGo ==
  ASSUME NEW p, NEW S, Others(p, S), NEW a \in Proc, NEW g \in Handle, a # p \/ g \notin S
  PROVE  Goes(a, g)
<1>1. req'[a][g] = req[a][g]
  BY DEF Others
<1> QED
  BY <1>1, SameAsItself, SameStill

LEMMA OneGoes ==
  ASSUME NEW p, NEW h, Others(p, {h}), Goes(p, h)
  PROVE  \A a \in Proc, g \in Handle : Goes(a, g)
<1> TAKE a \in Proc, g \in Handle
<1>1. CASE a = p /\ g = h
  BY <1>1
<1>2. CASE a # p \/ g # h
  BY <1>2, OthersGo
<1> QED
  BY <1>1, <1>2

LEMMA OneMayGo ==
  ASSUME NEW p, NEW h, Others(p, {h}), h \in Handle => Goes(p, h)
  PROVE  \A a \in Proc, g \in Handle : Goes(a, g)
<1> TAKE a \in Proc, g \in Handle
<1>1. CASE a = p /\ g = h
  BY <1>1
<1>2. CASE a # p \/ g # h
  BY <1>2, OthersGo
<1> QED
  BY <1>1, <1>2

LEMMA KeptOthersGo ==
  ASSUME NEW p, NEW h, OthersKept(p, h), Goes(p, h)
  PROVE  \A a \in Proc, g \in Handle : Goes(a, g)
<1> TAKE a \in Proc, g \in Handle
<1>1. CASE a = p /\ g = h
  BY <1>1
<1>2. CASE a # p \/ g # h
  BY <1>2, SameStill DEF OthersKept, Kept
<1> QED
  BY <1>1, <1>2

LEMMA TwoGo ==
  ASSUME NEW p, NEW h, NEW g, Others(p, {h, g}), Goes(p, h), Goes(p, g)
  PROVE  \A a \in Proc, x \in Handle : Goes(a, x)
<1> TAKE a \in Proc, x \in Handle
<1>1. CASE a = p /\ x \in {h, g}
  BY <1>1
<1>2. CASE a # p \/ x \notin {h, g}
  BY <1>2, OthersGo
<1> QED
  BY <1>1, <1>2

LEMMA OnlySend ==
  ASSUME TypeOK, NEW p \in Proc, NEW h \in Handle, NEW g,
         Others(p, {h, g}), g \in Handle => ~IsSend(req'[p][g])
  PROVE  \A x \in FreeHandles(p) : x # h => ~IsSend(req'[p][x])
BY DEF FreeHandles, Others, IsSend

LEMMA RecordSendRecords ==
  ASSUME TypeOK, NEW p \in Proc, NEW q, NEW t, NEW mode, NEW fate,
         sent' = [sent EXCEPT ![p] = RecordSend(p, q, t, mode, fate, @)]
  PROVE  RecordsSend(p)
<1> DEFINE x == [dst |-> q, tag |-> t, asked |-> FALSE, fate |-> fate,
                 mode |-> mode, outcome |-> "active"]
<1>1. sent[p] \in Seq(SendRec) /\ sent'[p] = Append(sent[p], x)
  BY DEF TypeOK, RecordSend
<1>2. ~x.asked
  OBVIOUS
<1> HIDE DEF x
<1> QED
  BY <1>1, <1>2 DEF RecordsSend

LEMMA SendCallGoes ==
  ASSUME TypeOK, NEW p \in Proc, SendCall(p)
  PROVE  \A a \in Proc, g \in Handle : Goes(a, g)
<1>1. PICK t \in Tag, mode \in Mode, size \in Size, h \in Handle :
        \/ \E q \in Proc : Isend(p, q, t, mode, size, h)
        \/ \E i \in 1 .. Len(posted[p]) : IsendSelfFound(p, t, mode, size, h, i)
        \/ \E g \in Handle : IsendSelfUnexpected(p, t, mode, size, h, g)
  BY DEF SendCall
<1>3. ASSUME NEW q \in Proc, Isend(p, q, t, mode, size, h)
      PROVE  \A a \in Proc, g \in Handle : Goes(a, g)
  <2>1. RecordsSend(p)
    BY <1>3, RecordSendRecords DEF Isend
  <2>2. Fresh(p, h) /\ Others(p, {h})
    <3>1. /\ Others(p, {h}) /\ h \in FreeHandles(p)
          /\ NewSend(p, h, q, t, mode, IF IsEager(mode, size) THEN "EAGER" ELSE "RNDV",
                     req'[p][h])
      BY <1>3, IsendReq
    <3>2. \A x \in FreeHandles(p) : x # h => ~IsSend(req'[p][x])
      BY <3>1 DEF FreeHandles, Others, IsSend
    <3> QED
      BY <2>1, <3>1, <3>2 DEF Fresh, NewSend
  <2> QED
    BY <2>2, OneGoes DEF Goes
<1>4. ASSUME NEW i \in 1 .. Len(posted[p]), IsendSelfFound(p, t, mode, size, h, i)
      PROVE  \A a \in Proc, g \in Handle : Goes(a, g)
  <2> DEFINE g == posted[p][i].rreq
  <2>1. CASE g # h
    <3>1. RecordsSend(p)
      BY <1>4, RecordSendRecords DEF IsendSelfFound
    <3>2. /\ g \in Handle /\ Others(p, {h, g}) /\ h \in FreeHandles(p)
          /\ NewSend(p, h, p, t, mode, "SELF", req'[p][h])
          /\ Dropped(req[p][g], req'[p][g])
      BY <1>4, <2>1, IsendSelfFoundReq
    <3>4. \A x \in FreeHandles(p) : x # h => ~IsSend(req'[p][x])
      <4> SUFFICES ASSUME NEW x \in FreeHandles(p), x # h PROVE ~IsSend(req'[p][x])
        OBVIOUS
      <4>1. CASE x = g
        <5>1. req[p][g].type = "FREE"
          BY <4>1 DEF FreeHandles
        <5> QED
          BY <3>2, <4>1, <5>1 DEF Dropped, Returned, FreeRequest, IsSend, Same, Core
      <4>2. CASE x # g
        BY <3>2, <4>2 DEF FreeHandles, Others, IsSend
      <4> QED
        BY <4>1, <4>2
    <3> HIDE DEF g
    <3>3. Fresh(p, h)
      BY <3>1, <3>2, <3>4 DEF Fresh, NewSend
    <3> QED
      BY <3>2, <3>3, DroppedGoes, TwoGo DEF Goes
  <2>2. CASE g = h
    <3> DEFINE r == [req[p][h] EXCEPT !.delivered = TRUE]
    <3>1. req[p][h] \in Request
      BY DEF TypeOK
    <3>2. r \in Request /\ Same(req[p][h], r) /\ r.ref = req[p][h].ref
      BY <3>1, FieldType, Field
    <3>3. Dropped(req[p][h], Release(SignalCompletion(r)))
      BY <3>1, <3>2, DoneDropped
    <3>4. req'[p][h] = Release(SignalCompletion(r)) /\ Others(p, {h})
      BY <1>4, <2>2 DEF IsendSelfFound, TypeOK, Others
    <3> QED
      BY <3>3, <3>4, DroppedGoes, OneGoes
  <2> QED
    BY <2>1, <2>2
<1>5. ASSUME NEW g \in Handle, IsendSelfUnexpected(p, t, mode, size, h, g)
      PROVE  \A a \in Proc, x \in Handle : Goes(a, x)
  <2>1. RecordsSend(p)
    BY <1>5, RecordSendRecords DEF IsendSelfUnexpected
  <2>2. Fresh(p, h) /\ Fresh(p, g) /\ Others(p, {h, g})
    <3>1. /\ {h, g} \subseteq FreeHandles(p) /\ Others(p, {h, g})
          /\ NewSend(p, h, p, t, mode, "SELF", req'[p][h]) /\ NewRecv(p, g, req'[p][g])
      BY <1>5, IsendSelfUnexpectedReq
    <3>2. ~IsSend(req'[p][g])
      BY <3>1 DEF NewRecv, IsSend
    <3>3. \A x \in FreeHandles(p) : x # h => ~IsSend(req'[p][x])
      BY <3>1, <3>2, OnlySend
    <3> QED
      BY <2>1, <3>1, <3>2, <3>3 DEF Fresh, NewSend, NewRecv
  <2> QED
    BY <2>2, TwoGo DEF Goes
<1> QED
  BY <1>1, <1>3, <1>4, <1>5

LEMMA AskedGoes ==
  ASSUME NEW p, NEW h, Asked(req[p][h], req'[p][h]), AsksFor(p, h)
  PROVE  Goes(p, h)
BY DEF Asked, Core, Goes, Still

LEMMA UserCallGoes ==
  ASSUME TypeOK, NEW p \in Proc, RecvCall(p) \/ EndCall(p) \/ FinishCall(p)
  PROVE  \A a \in Proc, g \in Handle : Goes(a, g)
<1>1. ASSUME NEW f \in Filters, NEW h \in Handle, RecvPost(p, f, h)
      PROVE  \A a \in Proc, g \in Handle : Goes(a, g)
  <2>1. Fresh(p, h) /\ Others(p, {h})
    BY <1>1, RecvPostReq DEF Fresh, NewRecv, IsSend
  <2> QED
    BY <2>1, OneGoes DEF Goes
<1>2. ASSUME NEW f \in Filters, NEW i \in 1 .. Len(unexpected[p]), RecvFound(p, f, i)
      PROVE  \A a \in Proc, g \in Handle : Goes(a, g)
  <2> DEFINE h == unexpected[p][i].rreq
  <2>1. OthersKept(p, h) /\ Core(req[p][h], req'[p][h])
        /\ req'[p][h].cancelPending = req[p][h].cancelPending
    BY <1>2, RecvFoundReq
  <2>2. Goes(p, h)
    BY <2>1 DEF Goes, Still, Core
  <2> HIDE DEF h
  <2> QED
    BY <2>1, <2>2, KeptOthersGo
<1>3. ASSUME NEW f \in Filters, NEW i \in 1 .. Len(unexpected[p]), Improbe(p, f, i)
      PROVE  \A a \in Proc, g \in Handle : Goes(a, g)
  <2> DEFINE h == unexpected[p][i].rreq
  <2>1. Others(p, {h}) /\ Core(req[p][h], req'[p][h])
        /\ req'[p][h].cancelPending = req[p][h].cancelPending
    BY <1>3, ImprobeReq
  <2>2. Goes(p, h)
    BY <2>1 DEF Goes, Still, Core
  <2> HIDE DEF h
  <2> QED
    BY <2>1, <2>2, OneGoes
<1>4. ASSUME NEW h \in Handle, Imrecv(p, h)
      PROVE  \A a \in Proc, g \in Handle : Goes(a, g)
  BY <1>4, ImrecvReq, SameStill, KeptOthersGo
<1>5. ASSUME NEW h \in Handle, Wait(p, h) \/ RequestFree(p, h)
      PROVE  \A a \in Proc, g \in Handle : Goes(a, g)
  BY <1>5, DropHandleReq, DroppedGoes, OneGoes DEF Wait, RequestFree
<1>6. ASSUME NEW h \in Handle, CancelSend(p, h) \/ CancelSelfMissed(p, h)
      PROVE  \A a \in Proc, g \in Handle : Goes(a, g)
  <2>1. Others(p, {h}) /\ Asked(req[p][h], req'[p][h]) /\ AsksFor(p, h)
    BY <1>6, CancelSendReq, CancelSelfMissedReq DEF AsksFor
  <2> QED
    BY <2>1, AskedGoes, OneGoes
<1>7. ASSUME NEW h \in Handle, NEW i \in 1 .. Len(unexpected[p]), CancelSelfFound(p, h, i)
      PROVE  \A a \in Proc, g \in Handle : Goes(a, g)
  <2> DEFINE g == unexpected[p][i].rreq
  <2>1. /\ Others(p, {h, g}) /\ Asked(req[p][h], req'[p][h])
        /\ g # h => Dropped(req[p][g], req'[p][g])
    BY <1>7, CancelSelfFoundReq
  <2>2. Goes(p, h)
    BY <1>7, <2>1, AskedGoes DEF AsksFor
  <2> HIDE DEF g
  <2>3. Goes(p, g)
    BY <2>1, <2>2, DroppedGoes
  <2> QED
    BY <2>1, <2>2, <2>3, TwoGo
<1>8. ASSUME NEW i \in 1 .. Len(posted[p]), CancelRecv(p, i)
      PROVE  \A a \in Proc, g \in Handle : Goes(a, g)
  <2> DEFINE h == posted[p][i].rreq
  <2>1. Others(p, {h}) /\ Dropped(req[p][h], req'[p][h])
    BY <1>8, CancelRecvReq
  <2> HIDE DEF h
  <2> QED
    BY <2>1, DroppedGoes, OneGoes
<1>9. ASSUME FinishCall(p)
      PROVE  \A a \in Proc, g \in Handle : Goes(a, g)
  <2> DEFINE h == call[p]
  <2>1. Others(p, {h}) /\ Same(req[p][h], req'[p][h])
    BY <1>9, FinishCallReq
  <2> HIDE DEF h
  <2> QED
    BY <2>1, SameStill, OneGoes
<1> QED
  BY <1>1, <1>2, <1>3, <1>4, <1>5, <1>6, <1>7, <1>8, <1>9 DEF RecvCall, EndCall

LEMMA ToldGoes ==
  ASSUME NEW p, NEW h, NEW k, NEW m \in {"EAGER", "RNDV"}, Told(req[p][h], req'[p][h], k, m)
  PROVE  Goes(p, h)
BY DEF Told, Goes, Still

LEMMA ProgressGoes ==
  ASSUME TypeOK, NEW p \in Proc, NEW q \in Proc, Write(p, q) \/ Deliver(q, p)
  PROVE  \A a \in Proc, g \in Handle : Goes(a, g)
<1>1. ASSUME Write(p, q)
      PROVE  \A a \in Proc, g \in Handle : Goes(a, g)
  <2>1. CASE CarriesRequest(Head(sendq[p][q]))
    BY <1>1, <2>1, WriteReq, DroppedGoes, OneMayGo
  <2>2. CASE req' = req
    BY <2>2, SameAsItself, SameStill
  <2> QED
    BY <1>1, <2>1, <2>2, WriteReq
<1>2. ASSUME PayloadArrives(q, p)
      PROVE  \A a \in Proc, g \in Handle : Goes(a, g)
  <2> DEFINE h == reading[q][p]
  <2>1. Others(q, {h}) /\ Dropped(req[q][h], req'[q][h])
    BY <1>2, PayloadArrivesReq
  <2> HIDE DEF h
  <2> QED
    BY <2>1, DroppedGoes, OneGoes
<1>3. ASSUME NEW k, HandlePacket(q, p, k)
      PROVE  \A a \in Proc, g \in Handle : Goes(a, g)
  <2>1. k \in Packet
    BY <1>3, ReadHead DEF HandlePacket
  <2>2. ASSUME NEW i \in 1 .. Len(posted[q]), HandleEagerFound(q, p, k, i)
        PROVE  \A a \in Proc, g \in Handle : Goes(a, g)
    <3> DEFINE h == posted[q][i].rreq
    <3>1. /\ Others(q, {h})
          /\ \/ Told(req[q][h], req'[q][h], k, "EAGER")
             \/ Returned(req[q][h], req'[q][h])
      BY <2>1, <2>2, HandleEagerFoundReq
    <3>2. Goes(q, h)
      BY <3>1, ToldGoes, FreedGoes
    <3> HIDE DEF h
    <3> QED
      BY <3>1, <3>2, OneGoes
  <2>3. ASSUME NEW i \in 1 .. Len(posted[q]), HandleRtsFound(q, p, k, i)
        PROVE  \A a \in Proc, g \in Handle : Goes(a, g)
    <3> DEFINE h == posted[q][i].rreq
    <3>1. /\ Others(q, {h})
          /\ \/ Told(req[q][h], req'[q][h], k, "RNDV")
             \/ Returned(req[q][h], req'[q][h])
      BY <2>1, <2>3, HandleRtsFoundReq
    <3>2. Goes(q, h)
      BY <3>1, ToldGoes, FreedGoes
    <3> HIDE DEF h
    <3> QED
      BY <3>1, <3>2, OneGoes
  <2>4. ASSUME NEW h \in Handle,
               HandleEagerUnexpected(q, p, k, h) \/ HandleRtsUnexpected(q, p, k, h)
        PROVE  \A a \in Proc, g \in Handle : Goes(a, g)
    <3>1. h \in FreeHandles(q) /\ Others(q, {h}) /\ NewRecv(q, h, req'[q][h])
      BY <2>1, <2>4, HandleEagerUnexpectedReq, HandleRtsUnexpectedReq
    <3>2. Fresh(q, h)
      BY <3>1 DEF Fresh, NewRecv, IsSend
    <3> QED
      BY <3>1, <3>2, OneGoes DEF Goes
  <2>5. ASSUME NEW i \in 1 .. Len(unexpected[q]), HandleCancelReqFound(q, p, k, i)
        PROVE  \A a \in Proc, g \in Handle : Goes(a, g)
    <3> DEFINE h == unexpected[q][i].rreq
    <3>1. Others(q, {h}) /\ Dropped(req[q][h], req'[q][h])
      BY <2>1, <2>5, HandleCancelReqFoundReq
    <3> HIDE DEF h
    <3> QED
      BY <3>1, DroppedGoes, OneGoes
  <2>6. ASSUME HandleCts(q, p, k)
        PROVE  \A a \in Proc, g \in Handle : Goes(a, g)
    <3>1. ASSUME k.sreq \in Handle PROVE Goes(q, k.sreq)
      BY <2>1, <2>6, <3>1, HandleCtsReq, SameStill, FreedGoes DEF Kept
    <3> QED
      BY <2>1, <2>6, <3>1, HandleCtsReq, OneMayGo
  <2>7. ASSUME HandleSyncAck(q, p, k)
        PROVE  \A a \in Proc, g \in Handle : Goes(a, g)
    BY <2>1, <2>7, HandleSyncAckReq, DroppedGoes, OneMayGo
  <2>8. ASSUME HandleCancelResp(q, p, k)
        PROVE  \A a \in Proc, g \in Handle : Goes(a, g)
    <3> DEFINE h == k.sreq
               r == req[q][h]
    <3>1. /\ Others(q, {h})
          /\ \/ Dropped(r, req'[q][h])
             \/ \E s \in Request : Dropped(r, s) /\ Dropped(s, req'[q][h])
      BY <2>1, <2>8, HandleCancelRespReq
    <3>2. ASSUME NEW s \in Request, Dropped(r, s), Dropped(s, req'[q][h])
          PROVE  Freed(r, req'[q][h]) \/ Same(r, req'[q][h])
      BY <3>2 DEF Dropped, Freed, Returned, FreeRequest, Same, Core
    <3>3. Goes(q, h)
      BY <3>1, <3>2, DroppedGoes, SameStill DEF Goes
    <3> HIDE DEF h
    <3> QED
      BY <3>1, <3>3, OneGoes
  <2>9. ASSUME req' = req
        PROVE  \A a \in Proc, g \in Handle : Goes(a, g)
    BY <2>9, SameAsItself, SameStill
  <2> QED
    BY <1>3, <2>2, <2>3, <2>4, <2>5, <2>6, <2>7, <2>8, <2>9
    DEF HandlePacket, HandleRndvSend, HandleCancelReqMissed
<1> QED
  BY <1>1, <1>2, <1>3 DEF Deliver

LEMMA StepGoes ==
  ASSUME TypeOK, [Next]_vars
  PROVE  \A a \in Proc, g \in Handle : Goes(a, g)
<1>1. CASE Next
  BY <1>1, SendCallGoes, UserCallGoes, ProgressGoes DEF Next
<1>2. CASE UNCHANGED vars
  BY <1>2, SameAsItself, SameStill DEF vars
<1> QED
  BY <1>1, <1>2

LEMMA StepSelf ==
  ASSUME TypeOK, SelfInv, [Next]_vars
  PROVE  SelfInv'
<1> SUFFICES ASSUME NEW p \in Proc, NEW h \in Handle,
                    IsSend(req'[p][h]), req'[p][h].msgType = "SELF"
             PROVE  req'[p][h].rank = p
  BY DEF SelfInv, IsSend
<1>1. Goes(p, h)
  BY StepGoes
<1>2. CASE Freed(req[p][h], req'[p][h])
  BY <1>2 DEF Freed, IsSend
<1>3. CASE Fresh(p, h)
  BY <1>3 DEF Fresh
<1>4. CASE Still(p, h)
  BY <1>4 DEF Still, SelfInv, IsSend
<1> QED
  BY <1>1, <1>2, <1>3, <1>4 DEF Goes

-----------------------------------------------------------------------------
(***************************************************************************)
(* What can happen to the record of a send in a step.                      *)
(***************************************************************************)
AskedSame == \A p \in Proc : \A n \in 1 .. Len(sent[p]) :
  n \in 1 .. Len(sent'[p]) /\ sent'[p][n].asked = sent[p][n].asked

(* The cancel of send h of p is recorded, and no other. *)
Recorded(p, h) ==
  \A a \in Proc : \A n \in 1 .. Len(sent[a]) :
    /\ n \in 1 .. Len(sent'[a])
    /\ sent'[a][n].asked = IF a = p /\ n = req[p][h].id THEN TRUE ELSE sent[a][n].asked

AskedOnce == \E p \in Proc, h \in Handle : AsksFor(p, h) /\ Recorded(p, h)

LEMMA SentUnchanged ==
  ASSUME sent' = sent PROVE AskedSame
BY DEF AskedSame

LEMMA RecordKeepsAsked ==
  ASSUME TypeOK, NEW p \in Proc, NEW q, NEW t, NEW mode, NEW fate,
         sent' = [sent EXCEPT ![p] = RecordSend(p, q, t, mode, fate, @)]
  PROVE  AskedSame
<1>1. RecordsSend(p)
  BY RecordSendRecords
<1>2. \A a \in Proc : a # p => sent'[a] = sent[a]
  BY DEF TypeOK
<1>3. Len(sent[p]) \in Nat
  BY DEF TypeOK
<1>4. SUFFICES ASSUME NEW a \in Proc, NEW n \in 1 .. Len(sent[a])
               PROVE  n \in 1 .. Len(sent'[a]) /\ sent'[a][n].asked = sent[a][n].asked
  BY DEF AskedSame
<1>5. CASE a = p
  BY <1>1, <1>3, <1>5 DEF RecordsSend
<1>6. CASE a # p
  BY <1>2, <1>6
<1> QED
  BY <1>5, <1>6

(* A change of one record. *)
PutSent(p, n, r) == sent' = [sent EXCEPT ![p][n] = r]

LEMMA SetSent ==
  ASSUME TypeOK, NEW p, NEW n, NEW r, PutSent(p, n, r)
  PROVE  \A a \in Proc :
           /\ Len(sent'[a]) = Len(sent[a])
           /\ \A m \in 1 .. Len(sent[a]) :
                sent'[a][m] = IF a = p /\ m = n THEN r ELSE sent[a][m]
<1> TAKE a \in Proc
<1>1. sent[a] \in Seq(SendRec)
  BY DEF TypeOK
<1>2. sent'[a] = IF a = p THEN [sent[p] EXCEPT ![n] = r] ELSE sent[a]
  BY DEF TypeOK, PutSent
<1> QED
  BY <1>1, <1>2

LEMMA SetKeepsAsked ==
  ASSUME TypeOK, NEW p, NEW n, NEW v,
         \/ sent' = [sent EXCEPT ![p][n].fate = v]
         \/ sent' = [sent EXCEPT ![p][n].outcome = v]
  PROVE  AskedSame
<1> DEFINE r == sent[p][n]
           x == [r EXCEPT !.fate = v]
           y == [r EXCEPT !.outcome = v]
<1>1. \A a \in Proc : sent[a] \in Seq(SendRec)
  BY DEF TypeOK
<1>2. p \in Proc /\ n \in 1 .. Len(sent[p]) => r \in SendRec
  BY <1>1, ElementOfSeq
<1>3. p \in Proc /\ n \in 1 .. Len(sent[p]) => x.asked = r.asked /\ y.asked = r.asked
  BY <1>2 DEF SendRec
<1>4. CASE sent' = [sent EXCEPT ![p][n].fate = v]
  <2>1. PutSent(p, n, x)
    BY <1>4 DEF PutSent
  <2> HIDE DEF x
  <2> QED
    BY <1>3, <2>1, SetSent DEF AskedSame
<1>5. CASE sent' = [sent EXCEPT ![p][n].outcome = v]
  <2>1. PutSent(p, n, y)
    BY <1>5 DEF PutSent
  <2> HIDE DEF y
  <2> QED
    BY <1>3, <2>1, SetSent DEF AskedSame
<1> QED
  BY <1>4, <1>5

LEMMA AskRecorded ==
  ASSUME TypeOK, NEW p \in Proc, NEW h \in Handle, CancelSend(p, h) \/ CancelSelfMissed(p, h)
  PROVE  Recorded(p, h)
<1>1. PICK n : n = req[p][h].id
  OBVIOUS
<1>2. PICK x : x = [sent[p][n] EXCEPT !.asked = TRUE]
  OBVIOUS
<1>3. PutSent(p, n, x)
  BY <1>1, <1>2 DEF CancelSend, CancelSelfMissed, PutSent
<1>4. n \in 1 .. Len(sent[p]) => x.asked
  <2>1. sent[p] \in Seq(SendRec)
    BY DEF TypeOK
  <2>2. n \in 1 .. Len(sent[p]) => sent[p][n] \in SendRec
    BY <2>1, ElementOfSeq
  <2> QED
    BY <1>2, <2>2 DEF SendRec
<1>6. \A a \in Proc :
        /\ Len(sent'[a]) = Len(sent[a])
        /\ \A m \in 1 .. Len(sent[a]) :
             sent'[a][m] = IF a = p /\ m = n THEN x ELSE sent[a][m]
  BY <1>3, SetSent
<1>7. \A a \in Proc : \A m \in 1 .. Len(sent[a]) :
        /\ m \in 1 .. Len(sent'[a])
        /\ sent'[a][m].asked = IF a = p /\ m = req[p][h].id THEN TRUE ELSE sent[a][m].asked
  BY <1>1, <1>4, <1>6
<1> QED
  BY <1>7 DEF Recorded

LEMMA AskSelfRecorded ==
  ASSUME TypeOK, NEW p \in Proc, NEW h \in Handle, NEW i \in 1 .. Len(unexpected[p]),
         CancelSelfFound(p, h, i)
  PROVE  Recorded(p, h)
<1> DEFINE n == req[p][h].id
           m == unexpected[p][i].id
           s == sent[p]
           r == [s[n] EXCEPT !.asked = TRUE]
           t == [s EXCEPT ![n] = r]
           u == [t EXCEPT ![m] = [t[m] EXCEPT !.fate = "cancelled"]]
<1>1. sent' = [sent EXCEPT ![p] = u]
  BY DEF CancelSelfFound
<1>2. s \in Seq(SendRec)
  BY DEF TypeOK
<1>3. \A j \in 1 .. Len(s) : s[j] \in SendRec
  BY <1>2, ElementOfSeq
<1>4. n \in 1 .. Len(s) => r.asked /\ r \in SendRec
  BY <1>3 DEF SendRec
<1>6. p \in DOMAIN sent /\ \A a \in Proc : a # p => sent'[a] = sent[a]
  BY <1>1 DEF TypeOK
<1>7. sent'[p] = u
  BY <1>1, <1>6
<1> HIDE DEF r
<1>8. Len(t) = Len(s) /\ DOMAIN t = 1 .. Len(s) /\ t \in Seq(SendRec)
      /\ \A j \in 1 .. Len(s) : t[j] \in SendRec /\ t[j] = IF j = n THEN r ELSE s[j]
  <2>1. t \in Seq(SendRec)
    BY <1>2, <1>4, ExceptKeepsSeq
  <2>2. Len(t) = Len(s) /\ DOMAIN t = 1 .. Len(s)
        /\ \A j \in 1 .. Len(s) : t[j] = IF j = n THEN r ELSE s[j]
    BY <1>2
  <2> QED
    BY <1>3, <1>4, <2>1, <2>2
<1> HIDE DEF t
<1>9. Len(u) = Len(s) /\ \A j \in 1 .. Len(s) : u[j].asked = t[j].asked
  <2> DEFINE y == [t[m] EXCEPT !.fate = "cancelled"]
  <2>1. m \in 1 .. Len(s) => y.asked = t[m].asked
    BY <1>8 DEF SendRec
  <2> HIDE DEF y
  <2>2. u = [t EXCEPT ![m] = y]
    BY DEF y
  <2> QED
    BY <1>8, <2>1, <2>2
<1> HIDE DEF u
<1>10. \A a \in Proc : \A j \in 1 .. Len(sent[a]) :
         /\ j \in 1 .. Len(sent'[a])
         /\ sent'[a][j].asked = IF a = p /\ j = n THEN TRUE ELSE sent[a][j].asked
  <2> TAKE a \in Proc
  <2>1. CASE a = p
    BY <1>4, <1>7, <1>8, <1>9, <2>1
  <2>2. CASE a # p
    BY <1>6, <2>2
  <2> QED
    BY <2>1, <2>2
<1> QED
  BY <1>10 DEF Recorded

LEMMA AsksForRecorded ==
  ASSUME TypeOK, NEW p \in Proc, NEW h \in Handle, AsksFor(p, h)
  PROVE  Recorded(p, h)
BY AskRecorded, AskSelfRecorded DEF AsksFor

LEMMA StepAsked ==
  ASSUME TypeOK, [Next]_vars
  PROVE  AskedSame \/ AskedOnce
<1>1. ASSUME NEW p \in Proc, SendCall(p) PROVE AskedSame
  <2>1. PICK t \in Tag, mode \in Mode, size \in Size, h \in Handle :
          \/ \E q \in Proc : Isend(p, q, t, mode, size, h)
          \/ \E i \in 1 .. Len(posted[p]) : IsendSelfFound(p, t, mode, size, h, i)
          \/ \E g \in Handle : IsendSelfUnexpected(p, t, mode, size, h, g)
    BY <1>1 DEF SendCall
  <2>2. ASSUME NEW q \in Proc, Isend(p, q, t, mode, size, h) PROVE AskedSame
    BY <2>2, RecordKeepsAsked DEF Isend
  <2>3. ASSUME NEW i \in 1 .. Len(posted[p]), IsendSelfFound(p, t, mode, size, h, i)
        PROVE  AskedSame
    BY <2>3, RecordKeepsAsked DEF IsendSelfFound
  <2>4. ASSUME NEW g \in Handle, IsendSelfUnexpected(p, t, mode, size, h, g)
        PROVE  AskedSame
    BY <2>4, RecordKeepsAsked DEF IsendSelfUnexpected
  <2> QED
    BY <2>1, <2>2, <2>3, <2>4
<1>2. ASSUME NEW p \in Proc, RecvCall(p) PROVE AskedSame
  <2>1. ASSUME NEW f \in Filters, NEW i, DequeueFor(p, f, i) PROVE AskedSame
    BY <2>1, SetKeepsAsked DEF DequeueFor
  <2> QED
    BY <1>2, <2>1, SentUnchanged DEF RecvCall, RecvPost, RecvFound, Improbe, Imrecv, history
<1>3. ASSUME NEW p \in Proc, EndCall(p) PROVE AskedSame \/ AskedOnce
  <2>1. ASSUME NEW h \in Handle, Wait(p, h) \/ RequestFree(p, h) PROVE AskedSame
    <3>1. sent' = sent \/ \E n, v : sent' = [sent EXCEPT ![p][n].outcome = v]
      BY <2>1 DEF Wait, RequestFree
    <3> QED
      BY <3>1, SetKeepsAsked, SentUnchanged
  <2> QED
    BY <1>3, <2>1, AsksForRecorded, SentUnchanged DEF EndCall, CancelRecv, AskedOnce, AsksFor
<1>4. ASSUME NEW p \in Proc, NEW q \in Proc, Write(p, q) \/ Deliver(q, p)
      PROVE  AskedSame
  <2>1. ASSUME Write(p, q) \/ PayloadArrives(q, p) PROVE AskedSame
    BY <2>1, SentUnchanged DEF Write, PayloadArrives, history
  <2>2. ASSUME NEW k, HandlePacket(q, p, k) PROVE AskedSame
    <3>1. \/ sent' = sent \/ sent' = [sent EXCEPT ![p][k.id].fate = "matched"]
          \/ \E n : sent' = [sent EXCEPT ![p][n].fate = "cancelled"]
      BY <2>2 DEF HandlePacket, HandleEagerFound, HandleRtsFound, MarkMatched,
        HandleEagerUnexpected, HandleRtsUnexpected, HandleCts, HandleRndvSend, HandleSyncAck,
        HandleCancelReqFound, HandleCancelReqMissed, HandleCancelResp, history
    <3>2. CASE sent' = sent
      BY <3>2, SentUnchanged
    <3>3. CASE sent' = [sent EXCEPT ![p][k.id].fate = "matched"]
      <4>1. PICK n : n = k.id
        OBVIOUS
      <4> QED
        BY <3>3, <4>1, SetKeepsAsked
    <3>4. ASSUME NEW n, sent' = [sent EXCEPT ![p][n].fate = "cancelled"]
          PROVE  AskedSame
      BY <3>4, SetKeepsAsked
    <3> QED
      BY <3>1, <3>2, <3>3, <3>4
  <2> QED
    BY <1>4, <2>1, <2>2 DEF Deliver
<1>5. ASSUME NEW p \in Proc, FinishCall(p) PROVE AskedSame
  BY <1>5, SentUnchanged DEF FinishCall, history
<1>6. CASE UNCHANGED vars
  BY <1>6, SentUnchanged DEF vars, history
<1> QED
  BY <1>1, <1>2, <1>3, <1>4, <1>5, <1>6 DEF Next

-----------------------------------------------------------------------------
(***************************************************************************)
(* Where the packets of a connection come from.                            *)
(***************************************************************************)
Adds(p, q, k) ==
  \A a, b \in Proc : \A x \in Range(Flow(a, b)') :
    x \in Range(Flow(a, b)) \/ (a = p /\ b = q /\ x = k)

AddsNothing ==
  \A a, b \in Proc : \A x \in Range(Flow(a, b)') : x \in Range(Flow(a, b))

LEMMA SameAdds ==
  ASSUME UNCHANGED <<wire, sendq>> PROVE AddsNothing
BY NetSame DEF AddsNothing

LEMMA WriteAdds ==
  ASSUME TypeOK, NEW p \in Proc, NEW q \in Proc, Write(p, q) PROVE AddsNothing
BY NetWrite DEF AddsNothing

LEMMA SendAdds ==
  ASSUME TypeOK, NEW p \in Proc, NEW q, NEW k \in Packet,
         SendPacket(p, q, k), UNCHANGED wire
  PROVE  Adds(p, q, k)
<1>1. CASE q \in Proc
  <2>1. Flow(p, q)' = Append(Flow(p, q), k) /\ Flow(p, q) \in Seq(Packet)
    BY <1>1, NetSend, FlowType
  <2>2. Range(Flow(p, q)') = Range(Flow(p, q)) \cup {k}
    BY <2>1, AppendParts
  <2>3. \A a, b \in Proc : a # p \/ b # q => Flow(a, b)' = Flow(a, b)
    BY <1>1, NetSend
  <2> QED
    BY <2>2, <2>3 DEF Adds
<1>2. CASE q \notin Proc
  <2>1. \A a, b \in Proc : sendq'[a][b] = sendq[a][b]
    BY <1>2 DEF SendPacket, TypeOK
  <2>2. \A a, b \in Proc : Flow(a, b)' = Flow(a, b)
    BY <2>1 DEF Flow
  <2> QED
    BY <2>2 DEF Adds
<1> QED
  BY <1>1, <1>2

LEMMA ReadAdds ==
  ASSUME TypeOK, NEW q \in Proc, NEW p \in Proc, NEW k, ReadPacket(q, p, k), UNCHANGED sendq
  PROVE  AddsNothing
<1>1. Flow(p, q) \in Seq(Packet) /\ Flow(p, q) # <<>> /\ Flow(p, q)' = Tail(Flow(p, q))
  BY ReadHead, NetRead
<1>2. Range(Flow(p, q)) = Range(Flow(p, q)') \cup {Head(Flow(p, q))}
  BY <1>1, TailParts
<1>3. \A a, b \in Proc : a # p \/ b # q => Flow(a, b)' = Flow(a, b)
  BY NetRead
<1> QED
  BY <1>2, <1>3 DEF AddsNothing

LEMMA ReplyAdds ==
  ASSUME TypeOK, NEW q \in Proc, NEW p \in Proc, NEW k, ReadPacket(q, p, k),
         NEW r \in Packet, SendPacket(q, p, r)
  PROVE  Adds(q, p, r)
<1> DEFINE t == Tail(Flow(p, q))
<1>1. Flow(p, q) \in Seq(Packet) /\ Flow(p, q) # <<>> /\ Flow(q, p) \in Seq(Packet)
  BY ReadHead, FlowType
<1>2. Range(Flow(p, q)) = Range(t) \cup {Head(Flow(p, q))} /\ t \in Seq(Packet)
  BY <1>1, TailParts
<1>3. \A a, b \in Proc : (a # p \/ b # q) /\ (a # q \/ b # p) => Flow(a, b)' = Flow(a, b)
  BY NetReply
<1>4. CASE p = q
  <2>1. Flow(q, p)' = Append(t, r)
    BY <1>4, NetReply
  <2> HIDE DEF t
  <2>2. Range(Append(t, r)) = Range(t) \cup {r}
    BY <1>2, AppendParts
  <2> QED
    BY <1>2, <1>3, <1>4, <2>1, <2>2 DEF Adds
<1>5. CASE p # q
  <2>1. Flow(p, q)' = t /\ Flow(q, p)' = Append(Flow(q, p), r)
    BY <1>5, NetReply
  <2>2. Range(Flow(q, p)') = Range(Flow(q, p)) \cup {r}
    BY <1>1, <2>1, AppendParts
  <2>3. \A x \in Range(Flow(p, q)') : x \in Range(Flow(p, q))
    BY <1>2, <2>1
  <2>4. \A x \in Range(Flow(q, p)') : x \in Range(Flow(q, p)) \/ x = r
    BY <2>2
  <2> HIDE DEF t
  <2>5. ASSUME NEW a \in Proc, NEW b \in Proc, NEW x \in Range(Flow(a, b)')
        PROVE  x \in Range(Flow(a, b)) \/ (a = q /\ b = p /\ x = r)
    <3>1. CASE a = p /\ b = q
      BY <2>3, <2>5, <3>1
    <3>2. CASE a = q /\ b = p
      BY <2>4, <2>5, <3>2
    <3>3. CASE (a # p \/ b # q) /\ (a # q \/ b # p)
      BY <1>3, <2>5, <3>3
    <3> QED
      BY <3>1, <3>2, <3>3
  <2> QED
    BY <2>5 DEF Adds
<1> QED
  BY <1>4, <1>5

(* A packet that neither carries a message nor asks for a cancel. *)
Plain(k) == ~Message(k) /\ k.type # "CANCEL_SEND_REQ"

NewMessage(p, k) ==
  Fresh(p, k.sreq) /\ IsSend(req'[p][k.sreq]) /\ k.id = Len(sent[p]) + 1

Origin(a, b, x) ==
  \/ x \in Range(Flow(a, b)) \/ Plain(x) \/ (Message(x) /\ NewMessage(a, x))
  \/ x.type = "CANCEL_SEND_REQ" /\ CancelSend(a, x.sreq) /\ b = req[a][x.sreq].rank

PacketsKnown == \A a, b \in Proc : \A x \in Range(Flow(a, b)') : Origin(a, b, x)

LEMMA AddsNothingKnown ==
  ASSUME AddsNothing PROVE PacketsKnown
BY DEF AddsNothing, PacketsKnown, Origin

LEMMA AddsKnown ==
  ASSUME NEW p \in Proc, NEW q, NEW k, Adds(p, q, k), Origin(p, q, k)
  PROVE  PacketsKnown
BY DEF Adds, PacketsKnown, Origin

LEMMA PlainKnown ==
  ASSUME NEW p \in Proc, NEW q, NEW k, Adds(p, q, k), Plain(k)
  PROVE  PacketsKnown
BY AddsKnown DEF Origin

LEMMA IsendKnown ==
  ASSUME TypeOK, NEW p \in Proc, NEW q \in Proc, NEW t \in Tag,
         NEW mode \in Mode, NEW size \in Size, NEW h \in Handle,
         Isend(p, q, t, mode, size, h)
  PROVE  PacketsKnown
<1> DEFINE r == NewSreq(p, h, q, t, mode, size)
<1>1. /\ Others(p, {h}) /\ h \in FreeHandles(p)
      /\ NewSend(p, h, q, t, mode, IF IsEager(mode, size) THEN "EAGER" ELSE "RNDV",
                 req'[p][h])
  BY IsendReq
<1>2. Fresh(p, h) /\ IsSend(req'[p][h])
  <2>1. RecordsSend(p)
    BY RecordSendRecords DEF Isend
  <2>2. \A x \in FreeHandles(p) : x # h => ~IsSend(req'[p][x])
    BY <1>1 DEF FreeHandles, Others, IsSend
  <2>3. mode \in {"SEND", "SSEND", "RSEND"}
    BY ModeAssumption
  <2> QED
    BY <1>1, <2>1, <2>2, <2>3 DEF Fresh, NewSend, IsSend
<1>3. r.type = mode /\ r.tag = t /\ r.size = size /\ r.id = Len(sent[p]) + 1
  BY NewSreqShape
<1>4. Len(sent[p]) + 1 \in Nat
  BY DEF TypeOK
<1> HIDE DEF r
<1>5. PICK type \in EagerTypes \cup {"RTS"} : SendPacket(p, q, Envelope(type, h, r))
  <2>1. mode \in {"SEND", "SSEND", "RSEND"}
    BY ModeAssumption
  <2>2. EagerPacketType(r.type) \in EagerTypes
    BY <1>3, <2>1 DEF EagerPacketType, EagerTypes
  <2> QED
    BY <2>2 DEF Isend, SendEager, SendRndv, r
<1>6. Envelope(type, h, r) \in Packet
  BY <1>3, <1>4, SizeAssumption DEF Envelope, Packet
<1>7. Message(Envelope(type, h, r)) /\ Envelope(type, h, r).sreq = h
      /\ Envelope(type, h, r).id = Len(sent[p]) + 1
  BY <1>3 DEF Envelope, Message
<1>8. Adds(p, q, Envelope(type, h, r))
  BY <1>5, <1>6, SendAdds DEF Isend
<1> QED
  BY <1>2, <1>7, <1>8, AddsKnown DEF Origin, NewMessage

LEMMA RecvTypeKnown ==
  ASSUME TypeOK, NEW p \in Proc, NEW h \in Handle, NEW r \in Request,
         HandleRecvMsgType(p, h, r), UNCHANGED wire
  PROVE  PacketsKnown
<1>1. r.senderReq \in Handle \cup {None}
  BY RequestFields
<1>2. CASE UNCHANGED sendq
  BY <1>2, SameAdds, AddsNothingKnown
<1>3. CASE SendPacket(p, r.rank, [type |-> "SYNC_ACK", sreq |-> r.senderReq])
  <2> DEFINE k == [type |-> "SYNC_ACK", sreq |-> r.senderReq]
  <2>1. k \in Packet /\ Plain(k)
    BY <1>1 DEF Packet, Plain, Message, EagerTypes
  <2> HIDE DEF k
  <2> QED
    BY <1>3, <2>1, SendAdds, PlainKnown DEF k
<1>4. CASE SendPacket(p, r.rank, [type |-> "CTS", sreq |-> r.senderReq, rreq |-> h])
  <2> DEFINE k == [type |-> "CTS", sreq |-> r.senderReq, rreq |-> h]
  <2>1. k \in Packet /\ Plain(k)
    BY <1>1 DEF Packet, Plain, Message, EagerTypes
  <2> HIDE DEF k
  <2> QED
    BY <1>4, <2>1, SendAdds, PlainKnown DEF k
<1> QED
  BY <1>2, <1>3, <1>4 DEF HandleRecvMsgType, TakeEager, TakeRndv, TakeSelf

LEMMA CancelSendKnown ==
  ASSUME TypeOK, NEW p \in Proc, NEW h \in Handle, CancelSend(p, h)
  PROVE  PacketsKnown
<1> DEFINE k == [type |-> "CANCEL_SEND_REQ", sreq |-> h, tag |-> req[p][h].tag]
<1>1. k \in Packet
  <2>1. req[p][h] \in Request
    BY DEF TypeOK
  <2>2. req[p][h].tag \in Tag \cup {None}
    BY <2>1, RequestFields
  <2> QED
    BY <2>2 DEF Packet
<1>2. SendPacket(p, req[p][h].rank, k) /\ UNCHANGED wire
  BY DEF CancelSend
<1>3. k.type = "CANCEL_SEND_REQ" /\ k.sreq = h
  OBVIOUS
<1> HIDE DEF k
<1>4. Origin(p, req[p][h].rank, k)
  BY <1>3 DEF Origin
<1> QED
  BY <1>1, <1>2, <1>4, SendAdds, AddsKnown

LEMMA PacketKnown ==
  ASSUME TypeOK, NEW q \in Proc, NEW p \in Proc, NEW k, HandlePacket(q, p, k)
  PROVE  PacketsKnown
<1>1. ReadPacket(q, p, k) /\ k \in Packet
  BY ReadHead DEF HandlePacket
<1>2. CASE UNCHANGED sendq
  BY <1>1, <1>2, ReadAdds, AddsNothingKnown
<1>3. ASSUME NEW r \in Packet, Plain(r), SendPacket(q, p, r)
      PROVE  PacketsKnown
  BY <1>1, <1>3, ReplyAdds, PlainKnown
<1>4. ASSUME NEW i \in 1 .. Len(posted[q]), HandleEagerFound(q, p, k, i), ~UNCHANGED sendq
      PROVE  PacketsKnown
  <2> DEFINE r == [type |-> "SYNC_ACK", sreq |-> k.sreq]
  <2>1. k.sreq \in Handle
    BY <1>1, <1>4, PacketFields DEF HandleEagerFound
  <2>2. r \in Packet /\ Plain(r)
    BY <2>1 DEF Packet, Plain, Message, EagerTypes
  <2>3. SendPacket(q, p, r)
    BY <1>4 DEF HandleEagerFound
  <2> HIDE DEF r
  <2> QED
    BY <1>3, <2>2, <2>3
<1>5. ASSUME NEW i \in 1 .. Len(posted[q]), HandleRtsFound(q, p, k, i)
      PROVE  PacketsKnown
  <2> DEFINE g == posted[q][i].rreq
             r == [type |-> "CTS", sreq |-> k.sreq, rreq |-> g]
  <2>1. k.sreq \in Handle /\ g \in Handle
    BY <1>1, <1>5, PacketFields, EntryTypes DEF HandleRtsFound
  <2>2. r \in Packet /\ Plain(r)
    BY <2>1 DEF Packet, Plain, Message, EagerTypes
  <2>3. SendPacket(q, p, r)
    BY <1>5 DEF HandleRtsFound
  <2> HIDE DEF r
  <2> QED
    BY <1>3, <2>2, <2>3
<1>6. ASSUME HandleCts(q, p, k)
      PROVE  PacketsKnown
  <2> DEFINE r == [type |-> "RNDV_SEND", sreq |-> k.sreq, rreq |-> k.rreq]
  <2>1. k.sreq \in Handle \cup {None} /\ k.rreq \in Handle
    BY <1>1, <1>6, PacketFields DEF HandleCts
  <2>2. r \in Packet /\ Plain(r)
    BY <2>1 DEF Packet, Plain, Message, EagerTypes
  <2>3. SendPacket(q, p, r)
    BY <1>6 DEF HandleCts
  <2> HIDE DEF r
  <2> QED
    BY <1>3, <2>2, <2>3
<1>7. ASSUME NEW ack \in BOOLEAN, k.type = "CANCEL_SEND_REQ",
             SendPacket(q, p, CancelResp(k.sreq, ack))
      PROVE  PacketsKnown
  <2> DEFINE r == CancelResp(k.sreq, ack)
  <2>1. k.sreq \in Handle
    BY <1>1, <1>7, PacketFields
  <2>2. r \in Packet /\ Plain(r)
    BY <2>1 DEF Packet, Plain, Message, EagerTypes, CancelResp
  <2>3. SendPacket(q, p, r)
    BY <1>7
  <2> HIDE DEF r
  <2> QED
    BY <1>3, <2>2, <2>3
<1>8. \A i : HandleCancelReqFound(q, p, k, i) =>
        k.type = "CANCEL_SEND_REQ" /\ SendPacket(q, p, CancelResp(k.sreq, TRUE))
  BY DEF HandleCancelReqFound
<1>9. HandleCancelReqMissed(q, p, k) =>
        k.type = "CANCEL_SEND_REQ" /\ SendPacket(q, p, CancelResp(k.sreq, FALSE))
  BY DEF HandleCancelReqMissed
<1>10. \/ \E i \in 1 .. Len(posted[q]) : HandleEagerFound(q, p, k, i) /\ ~UNCHANGED sendq
       \/ \E i \in 1 .. Len(posted[q]) : HandleRtsFound(q, p, k, i)
       \/ HandleCts(q, p, k) \/ HandleCancelReqMissed(q, p, k)
       \/ \E i \in 1 .. Len(unexpected[q]) : HandleCancelReqFound(q, p, k, i)
       \/ UNCHANGED sendq
  BY DEF HandlePacket, HandleEagerUnexpected, HandleRtsUnexpected, HandleRndvSend,
         HandleSyncAck, HandleCancelResp
<1> QED
  BY <1>2, <1>4, <1>5, <1>6, <1>7, <1>8, <1>9, <1>10

LEMMA StepPackets ==
  ASSUME TypeOK, [Next]_vars
  PROVE  PacketsKnown
<1>1. CASE UNCHANGED <<wire, sendq>>
  BY <1>1, SameAdds, AddsNothingKnown
<1>2. ASSUME NEW p \in Proc, SendCall(p) PROVE PacketsKnown
  <2>1. PICK t \in Tag, mode \in Mode, size \in Size, h \in Handle :
          \/ \E q \in Proc : Isend(p, q, t, mode, size, h)
          \/ \E i \in 1 .. Len(posted[p]) : IsendSelfFound(p, t, mode, size, h, i)
          \/ \E g \in Handle : IsendSelfUnexpected(p, t, mode, size, h, g)
    BY <1>2 DEF SendCall
  <2> QED
    BY <1>1, <2>1, IsendKnown DEF IsendSelfFound, IsendSelfUnexpected, net
<1>3. ASSUME NEW p \in Proc, RecvCall(p) PROVE PacketsKnown
  <2>1. ASSUME NEW f \in Filters, NEW i \in 1 .. Len(unexpected[p]), RecvFound(p, f, i)
        PROVE  PacketsKnown
    <3> DEFINE h == unexpected[p][i].rreq
               s == [req[p][h] EXCEPT !.id = Len(rcvd[p]) + 1]
    <3>1. h \in Handle
      BY EntryTypes
    <3>2. s \in Request
      <4>1. req[p][h] \in Request /\ Len(rcvd[p]) + 1 \in Nat
        BY <3>1 DEF TypeOK
      <4> QED
        BY <4>1, FieldType, Zenon
    <3>3. HandleRecvMsgType(p, h, s) /\ UNCHANGED wire
      BY <2>1 DEF RecvFound
    <3> HIDE DEF h, s
    <3> QED
      BY <3>1, <3>2, <3>3, RecvTypeKnown
  <2>2. ASSUME NEW h \in Handle, Imrecv(p, h)
        PROVE  PacketsKnown
    <3>1. req[p][h] \in Request
      BY DEF TypeOK
    <3> QED
      BY <2>2, <3>1, RecvTypeKnown DEF Imrecv
  <2> QED
    BY <1>1, <1>3, <2>1, <2>2 DEF RecvCall, RecvPost, Improbe, net
<1>4. ASSUME NEW p \in Proc, EndCall(p) \/ FinishCall(p) PROVE PacketsKnown
  BY <1>1, <1>4, CancelSendKnown
  DEF EndCall, FinishCall, Wait, RequestFree, DropHandle, CancelSelfMissed, CancelSelfFound,
      CancelRecv, net
<1>5. ASSUME NEW p \in Proc, NEW q \in Proc, Write(p, q) PROVE PacketsKnown
  BY <1>5, WriteAdds, AddsNothingKnown
<1>6. ASSUME NEW p \in Proc, NEW q \in Proc, Deliver(q, p) PROVE PacketsKnown
  BY <1>1, <1>6, PacketKnown DEF Deliver, PayloadArrives
<1> QED
  BY <1>1, <1>2, <1>3, <1>4, <1>5, <1>6 DEF Next, vars, net

-----------------------------------------------------------------------------
(***************************************************************************)
(* Where the entries of the two queues come from.                          *)
(***************************************************************************)
NewHolder(q, g) == Fresh(q, g) /\ ~IsSend(req'[q][g])

(* A queued message was on its connection, or is a new send to oneself. *)
Sender(q, e) ==
  \/ e.sreq = None
  \/ \E k \in Messages(e.rank, q) : k.sreq = e.sreq /\ k.id = e.id
  \/ e.rank = q /\ NewMessage(q, e)

ArrivalsKnown ==
  \A q \in Proc : \A e \in Range(unexpected'[q]) :
    e \in Range(unexpected[q]) \/ (NewHolder(q, e.rreq) /\ Sender(q, e))

PostingsKnown ==
  \A q \in Proc : \A e \in Range(posted'[q]) :
    e \in Range(posted[q]) \/ NewHolder(q, e.rreq)

EntriesKnown == ArrivalsKnown /\ PostingsKnown

LEMMA SameEntries ==
  ASSUME UNCHANGED queues PROVE EntriesKnown
BY DEF EntriesKnown, ArrivalsKnown, PostingsKnown, queues

LEMMA FewerArrivals ==
  ASSUME TypeOK, NEW q \in Proc, NEW i \in 1 .. Len(unexpected[q]),
         unexpected' = [unexpected EXCEPT ![q] = RemoveAt(@, i)], UNCHANGED posted
  PROVE  EntriesKnown
<1>1. unexpected[q] \in Seq(Arrival)
  BY DEF TypeOK
<1>2. Range(unexpected[q]) = Range(RemoveAt(unexpected[q], i)) \cup {unexpected[q][i]}
  BY <1>1, RemoveParts
<1>3. unexpected'[q] = RemoveAt(unexpected[q], i)
      /\ \A a \in Proc : a # q => unexpected'[a] = unexpected[a]
  BY DEF TypeOK
<1> QED
  BY <1>2, <1>3 DEF EntriesKnown, ArrivalsKnown, PostingsKnown

LEMMA FewerPostings ==
  ASSUME TypeOK, NEW q \in Proc, NEW i \in 1 .. Len(posted[q]),
         posted' = [posted EXCEPT ![q] = RemoveAt(@, i)], UNCHANGED unexpected
  PROVE  EntriesKnown
<1>1. posted[q] \in Seq(Posting)
  BY DEF TypeOK
<1>2. Range(posted[q]) = Range(RemoveAt(posted[q], i)) \cup {posted[q][i]}
  BY <1>1, RemoveParts
<1>3. posted'[q] = RemoveAt(posted[q], i)
      /\ \A a \in Proc : a # q => posted'[a] = posted[a]
  BY DEF TypeOK
<1> QED
  BY <1>2, <1>3 DEF EntriesKnown, ArrivalsKnown, PostingsKnown

LEMMA OneMoreArrival ==
  ASSUME TypeOK, NEW q \in Proc, NEW e \in Arrival,
         unexpected' = [unexpected EXCEPT ![q] = Append(@, e)], UNCHANGED posted,
         NewHolder(q, e.rreq), Sender(q, e)
  PROVE  EntriesKnown
<1>1. unexpected[q] \in Seq(Arrival)
  BY DEF TypeOK
<1>2. Range(Append(unexpected[q], e)) = Range(unexpected[q]) \cup {e}
  BY <1>1, AppendParts
<1>3. unexpected'[q] = Append(unexpected[q], e)
      /\ \A a \in Proc : a # q => unexpected'[a] = unexpected[a]
  BY DEF TypeOK
<1>4. ASSUME NEW a \in Proc, NEW x \in Range(unexpected'[a])
      PROVE  x \in Range(unexpected[a]) \/ (NewHolder(a, x.rreq) /\ Sender(a, x))
  <2>1. CASE a = q
    BY <1>2, <1>3, <1>4, <2>1
  <2>2. CASE a # q
    BY <1>3, <1>4, <2>2
  <2> QED
    BY <2>1, <2>2
<1>5. ArrivalsKnown
  BY <1>4 DEF ArrivalsKnown
<1> QED
  BY <1>5 DEF EntriesKnown, PostingsKnown

LEMMA OneMorePosting ==
  ASSUME TypeOK, NEW q \in Proc, NEW e \in Posting,
         posted' = [posted EXCEPT ![q] = Append(@, e)], UNCHANGED unexpected,
         NewHolder(q, e.rreq)
  PROVE  EntriesKnown
<1>1. posted[q] \in Seq(Posting)
  BY DEF TypeOK
<1>2. Range(Append(posted[q], e)) = Range(posted[q]) \cup {e}
  BY <1>1, AppendParts
<1>3. posted'[q] = Append(posted[q], e)
      /\ \A a \in Proc : a # q => posted'[a] = posted[a]
  BY DEF TypeOK
<1>4. ASSUME NEW a \in Proc, NEW x \in Range(posted'[a])
      PROVE  x \in Range(posted[a]) \/ NewHolder(a, x.rreq)
  <2>1. CASE a = q
    BY <1>2, <1>3, <1>4, <2>1
  <2>2. CASE a # q
    BY <1>3, <1>4, <2>2
  <2> QED
    BY <2>1, <2>2
<1>5. PostingsKnown
  BY <1>4 DEF PostingsKnown
<1> QED
  BY <1>5 DEF EntriesKnown, ArrivalsKnown

LEMMA NewRecvHolds ==
  ASSUME NEW q, NEW g, g \in FreeHandles(q), NewRecv(q, g, req'[q][g])
  PROVE  NewHolder(q, g)
BY DEF NewHolder, Fresh, NewRecv, IsSend

LEMMA RecvPostEntries ==
  ASSUME TypeOK, NEW p \in Proc, NEW f \in Filters, NEW h \in Handle, RecvPost(p, f, h)
  PROVE  EntriesKnown
<1> DEFINE e == [rreq |-> h, rank |-> f.rank, tag |-> f.tag, id |-> Len(rcvd[p]) + 1]
<1>1. NewHolder(p, h)
  BY RecvPostReq, NewRecvHolds
<1>2. e \in Posting /\ e.rreq = h
  <2>1. Len(rcvd[p]) + 1 \in Nat
    BY DEF TypeOK
  <2>2. f.rank \in Proc \cup {Wildcard} /\ f.tag \in Tag \cup {Wildcard}
    BY FilterAssumption
  <2> QED
    BY <2>1, <2>2 DEF Posting
<1>3. posted' = [posted EXCEPT ![p] = Append(@, e)] /\ UNCHANGED unexpected
  BY DEF RecvPost
<1> HIDE DEF e
<1> QED
  BY <1>1, <1>2, <1>3, OneMorePosting

LEMMA IsendSelfUnexpectedEntries ==
  ASSUME TypeOK, NEW p \in Proc, NEW t \in Tag, NEW mode \in Mode, NEW size \in Size,
         NEW h \in Handle, NEW g \in Handle, IsendSelfUnexpected(p, t, mode, size, h, g)
  PROVE  EntriesKnown
<1> DEFINE n == Len(sent[p]) + 1
           e == [rreq |-> g, rank |-> p, tag |-> t,
                 sreq |-> IF mode = "RSEND" THEN None ELSE h, id |-> n]
<1>1. /\ h # g /\ {h, g} \subseteq FreeHandles(p) /\ Others(p, {h, g})
      /\ NewSend(p, h, p, t, mode, "SELF", req'[p][h]) /\ NewRecv(p, g, req'[p][g])
  BY IsendSelfUnexpectedReq
<1>2. NewHolder(p, g)
  BY <1>1, NewRecvHolds
<1>3. Fresh(p, h) /\ IsSend(req'[p][h])
  <2>1. RecordsSend(p)
    BY RecordSendRecords DEF IsendSelfUnexpected
  <2>2. \A x \in FreeHandles(p) : x # h => ~IsSend(req'[p][x])
    BY <1>1, OnlySend DEF NewRecv, IsSend
  <2>3. mode \in {"SEND", "SSEND", "RSEND"}
    BY ModeAssumption
  <2> QED
    BY <1>1, <2>1, <2>2, <2>3 DEF Fresh, NewSend, IsSend
<1>4. e \in Arrival /\ e.rreq = g /\ e.rank = p /\ e.id = n /\ e.sreq \in {None, h}
  <2>1. n \in Nat
    BY DEF TypeOK
  <2> QED
    BY <2>1 DEF Arrival
<1>5. unexpected' = [unexpected EXCEPT ![p] = Append(@, e)] /\ UNCHANGED posted
  BY NewSreqShape DEF IsendSelfUnexpected, NewSreq
<1> HIDE DEF e
<1>6. Sender(p, e)
  BY <1>3, <1>4 DEF Sender, NewMessage
<1> QED
  BY <1>2, <1>4, <1>5, <1>6, OneMoreArrival

LEMMA UnexpectedEntries ==
  ASSUME TypeOK, MessageInv, NEW q \in Proc, NEW p \in Proc, NEW k,
         ReadPacket(q, p, k), NEW h \in Handle,
         HandleEagerUnexpected(q, p, k, h) \/ HandleRtsUnexpected(q, p, k, h)
  PROVE  EntriesKnown
<1> DEFINE e == [rreq |-> h, rank |-> p, tag |-> k.tag, sreq |-> k.sreq, id |-> k.id]
<1>1. Message(k) /\ k \in Packet
  BY ReadHead DEF HandleEagerUnexpected, HandleRtsUnexpected, Message
<1>2. NewHolder(q, h)
  <2>1. h \in FreeHandles(q) /\ NewRecv(q, h, req'[q][h])
    BY <1>1, HandleEagerUnexpectedReq, HandleRtsUnexpectedReq
  <2> QED
    BY <2>1, NewRecvHolds
<1>3. k \in Messages(p, q) /\ k.sreq \in Handle /\ k.tag \in Tag /\ k.id \in Nat
  BY <1>1, MessageRead
<1>4. e \in Arrival /\ e.rreq = h /\ e.rank = p /\ e.sreq = k.sreq /\ e.id = k.id
  BY <1>3 DEF Arrival
<1>5. unexpected' = [unexpected EXCEPT ![q] = Append(@, e)] /\ UNCHANGED posted
  BY DEF HandleEagerUnexpected, HandleRtsUnexpected, QueueUnexpected
<1> HIDE DEF e
<1>6. Sender(q, e)
  BY <1>3, <1>4 DEF Sender
<1> QED
  BY <1>2, <1>4, <1>5, <1>6, OneMoreArrival

LEMMA StepEntries ==
  ASSUME TypeOK, MessageInv, [Next]_vars
  PROVE  EntriesKnown
<1>1. CASE UNCHANGED queues
  BY <1>1, SameEntries
<1>2. ASSUME NEW p \in Proc, SendCall(p) PROVE EntriesKnown
  <2>1. PICK t \in Tag, mode \in Mode, size \in Size, h \in Handle :
          \/ \E q \in Proc : Isend(p, q, t, mode, size, h)
          \/ \E i \in 1 .. Len(posted[p]) : IsendSelfFound(p, t, mode, size, h, i)
          \/ \E g \in Handle : IsendSelfUnexpected(p, t, mode, size, h, g)
    BY <1>2 DEF SendCall
  <2>2. ASSUME NEW i \in 1 .. Len(posted[p]), IsendSelfFound(p, t, mode, size, h, i)
        PROVE  EntriesKnown
    BY <2>2, FewerPostings DEF IsendSelfFound
  <2> QED
    BY <1>1, <2>1, <2>2, IsendSelfUnexpectedEntries DEF Isend
<1>3. ASSUME NEW p \in Proc, RecvCall(p) PROVE EntriesKnown
  <2>1. ASSUME NEW f \in Filters, NEW i \in 1 .. Len(unexpected[p]),
               RecvFound(p, f, i) \/ Improbe(p, f, i)
        PROVE  EntriesKnown
    BY <2>1, FewerArrivals DEF RecvFound, Improbe, DequeueFor
  <2> QED
    BY <1>1, <1>3, <2>1, RecvPostEntries DEF RecvCall, Imrecv
<1>4. ASSUME NEW p \in Proc, EndCall(p) PROVE EntriesKnown
  <2>1. ASSUME NEW h \in Handle, NEW i \in 1 .. Len(unexpected[p]), CancelSelfFound(p, h, i)
        PROVE  EntriesKnown
    BY <2>1, FewerArrivals DEF CancelSelfFound
  <2>2. ASSUME NEW i \in 1 .. Len(posted[p]), CancelRecv(p, i)
        PROVE  EntriesKnown
    BY <2>2, FewerPostings DEF CancelRecv
  <2> QED
    BY <1>1, <1>4, <2>1, <2>2
    DEF EndCall, Wait, RequestFree, DropHandle, CancelSend, CancelSelfMissed, queues
<1>5. ASSUME NEW p \in Proc, NEW q \in Proc, NEW k, HandlePacket(q, p, k)
      PROVE  EntriesKnown
  <2>1. ReadPacket(q, p, k)
    BY <1>5 DEF HandlePacket
  <2>2. ASSUME NEW i \in 1 .. Len(posted[q]),
               HandleEagerFound(q, p, k, i) \/ HandleRtsFound(q, p, k, i)
        PROVE  EntriesKnown
    BY <2>2, FewerPostings DEF HandleEagerFound, HandleRtsFound
  <2>3. ASSUME NEW i \in 1 .. Len(unexpected[q]), HandleCancelReqFound(q, p, k, i)
        PROVE  EntriesKnown
    BY <2>3, FewerArrivals DEF HandleCancelReqFound
  <2> QED
    BY <1>1, <1>5, <2>1, <2>2, <2>3, UnexpectedEntries
    DEF HandlePacket, HandleCts, HandleRndvSend, HandleSyncAck, HandleCancelReqMissed,
        HandleCancelResp
<1> QED
  BY <1>1, <1>2, <1>3, <1>4, <1>5 DEF Next, vars, Deliver, FinishCall, Write, PayloadArrives

-----------------------------------------------------------------------------
(***************************************************************************)
(* What a cancel relies on stays true.  No handle is allocated twice.      *)
(***************************************************************************)
LEMMA UsedIsNotFree ==
  ASSUME TypeOK, MaxGen <= 1, NEW p \in Proc, NEW h, Used(p, h)
  PROVE  ~Fresh(p, h)
BY FreeIsFree, BoundAssumption DEF Fresh, Used

LEMMA UsedStays ==
  ASSUME TypeOK, MaxGen <= 1, [Next]_vars, NEW p \in Proc, NEW h \in Handle, Used(p, h)
  PROVE  Used(p, h)' /\ (Freed(req[p][h], req'[p][h]) \/ Still(p, h))
<1>1. Freed(req[p][h], req'[p][h]) \/ Still(p, h)
  BY StepGoes, UsedIsNotFree DEF Goes
<1> QED
  BY <1>1 DEF Used, Freed, Still

LEMMA SendStill ==
  ASSUME TypeOK, MaxGen <= 1, [Next]_vars, HandleInv,
         NEW p \in Proc, NEW h \in Handle, Used(p, h), IsSend(req'[p][h])
  PROVE  Still(p, h) /\ IsSend(req[p][h]) /\ req'[p][h].id = req[p][h].id
<1>1. Still(p, h)
  BY UsedStays DEF Freed, IsSend
<1>2. IsSend(req[p][h])
  BY <1>1 DEF Still, IsSend
<1>3. \A i \in 1 .. Len(unexpected[p]) : unexpected[p][i].rreq # h
  BY <1>2, EntryTypes DEF HandleInv, NamesRecv
<1> QED
  BY <1>1, <1>2, <1>3 DEF Still

LEMMA NamesSendStays ==
  ASSUME TypeOK, MaxGen <= 1, [Next]_vars, HandleInv,
         NEW p \in Proc, NEW h \in Handle, NEW n, NamesSend(p, h, n)
  PROVE  NamesSend(p, h, n)'
<1>1. Used(p, h) /\ Used(p, h)'
  BY UsedStays DEF NamesSend
<1> QED
  BY <1>1, SendStill DEF NamesSend

LEMMA NamesRecvStays ==
  ASSUME TypeOK, MaxGen <= 1, [Next]_vars,
         NEW p \in Proc, NEW h \in Handle, NamesRecv(p, h)
  PROVE  NamesRecv(p, h)'
BY UsedStays DEF NamesRecv, Freed, Still, IsSend

LEMMA NewSendNamed ==
  ASSUME TypeOK, NEW p \in Proc, NEW k, NewMessage(p, k)
  PROVE  NamesSend(p, k.sreq, k.id)'
<1>1. k.sreq \in Handle /\ req[p][k.sreq].gen \in Nat
  BY FreeIsFree DEF NewMessage, Fresh
<1> QED
  BY <1>1 DEF NewMessage, Fresh, NamesSend, Used

LEMMA NewHolderNamed ==
  ASSUME TypeOK, NEW q \in Proc, NEW g, NewHolder(q, g)
  PROVE  NamesRecv(q, g)'
<1>1. req[q][g].gen \in Nat
  BY FreeIsFree DEF NewHolder, Fresh
<1> QED
  BY <1>1 DEF NewHolder, Fresh, NamesRecv, Used

LEMMA MessagesFrom ==
  ASSUME TypeOK, [Next]_vars, NEW p \in Proc, NEW q \in Proc, NEW k \in Messages(p, q)'
  PROVE  k \in Messages(p, q) \/ NewMessage(p, k)
<1>1. k \in Range(Flow(p, q)') /\ Message(k)
  BY DEF Messages
<1>2. Origin(p, q, k)
  BY <1>1, StepPackets DEF PacketsKnown
<1> QED
  BY <1>1, <1>2 DEF Origin, Plain, Messages, Message, EagerTypes

LEMMA ArrivalsFrom ==
  ASSUME TypeOK, MessageInv, [Next]_vars, NEW p \in Proc, NEW q \in Proc,
         NEW e \in Arrivals(p, q)'
  PROVE  \/ e \in Arrivals(p, q)
         \/ e.sreq = None
         \/ \E k \in Messages(p, q) : k.sreq = e.sreq /\ k.id = e.id
         \/ NewMessage(p, e)
<1>1. e \in Range(unexpected'[q]) /\ e.rank = p
  BY DEF Arrivals
<1>2. e \in Range(unexpected[q]) \/ Sender(q, e)
  BY <1>1, StepEntries DEF EntriesKnown, ArrivalsKnown
<1> QED
  BY <1>1, <1>2 DEF Sender, Arrivals

LEMMA HandleTypes ==
  ASSUME TypeOK, NEW p \in Proc, NEW q \in Proc
  PROVE  /\ \A k \in Messages(p, q) : k.sreq \in Handle
         /\ \A e \in Arrivals(p, q) : e.sreq \in Handle \cup {None}
         /\ \A e \in Range(posted[q]) : e.rreq \in Handle
         /\ \A e \in Range(unexpected[q]) : e.rreq \in Handle
<1>1. \A k \in Messages(p, q) : k.sreq \in Handle
  BY TransitTypes, MessageFields DEF Messages
<1>2. posted[q] \in Seq(Posting) /\ unexpected[q] \in Seq(Arrival)
  BY DEF TypeOK
<1>3. \A e \in Range(posted[q]) : e \in Posting
  BY <1>2, RangeOf
<1>4. \A e \in Range(unexpected[q]) : e \in Arrival
  BY <1>2, RangeOf
<1> QED
  BY <1>1, <1>3, <1>4 DEF Posting, Arrival, Arrivals

LEMMA StepHandles ==
  ASSUME TypeOK, MaxGen <= 1, MessageInv, HandleInv, [Next]_vars
  PROVE  HandleInv'
<1>1. ASSUME NEW p \in Proc, NEW h \in Handle, req'[p][h].type # "FREE"
      PROVE  Used(p, h)'
  <2>1. CASE Used(p, h)
    BY <2>1, UsedStays
  <2>2. CASE ~Used(p, h)
    <3>1. req[p][h].type = "FREE"
      BY <2>2 DEF HandleInv
    <3>2. Fresh(p, h)
      BY <1>1, <3>1, StepGoes DEF Goes, Freed, Still
    <3>3. req[p][h].gen \in Nat
      BY <3>2, FreeIsFree DEF Fresh
    <3> QED
      BY <3>2, <3>3 DEF Fresh, Used
  <2> QED
    BY <2>1, <2>2
<1>2. ASSUME NEW p \in Proc, NEW q \in Proc, NEW k \in Messages(p, q)
      PROVE  NamesSend(p, k.sreq, k.id)'
  BY HandleTypes, NamesSendStays DEF HandleInv
<1>3. ASSUME NEW p \in Proc, NEW q \in Proc, NEW k \in Messages(p, q)'
      PROVE  NamesSend(p, k.sreq, k.id)'
  BY <1>2, MessagesFrom, NewSendNamed
<1>4. ASSUME NEW p \in Proc, NEW q \in Proc, NEW e \in Arrivals(p, q)', e.sreq # None
      PROVE  NamesSend(p, e.sreq, e.id)'
  <2>1. e \in Arrivals(p, q) => NamesSend(p, e.sreq, e.id)'
    BY <1>4, HandleTypes, NamesSendStays DEF HandleInv
  <2>2. (\E k \in Messages(p, q) : k.sreq = e.sreq /\ k.id = e.id) =>
          NamesSend(p, e.sreq, e.id)'
    BY <1>2
  <2> QED
    BY <1>4, <2>1, <2>2, ArrivalsFrom, NewSendNamed
<1>5. ASSUME NEW q \in Proc, NEW e \in Range(posted'[q])
      PROVE  NamesRecv(q, e.rreq)'
  <2>1. e \in Range(posted[q]) \/ NewHolder(q, e.rreq)
    BY StepEntries DEF EntriesKnown, PostingsKnown
  <2>2. e \in Range(posted[q]) => NamesRecv(q, e.rreq)'
    BY HandleTypes, NamesRecvStays DEF HandleInv
  <2> QED
    BY <2>1, <2>2, NewHolderNamed
<1>6. ASSUME NEW q \in Proc, NEW e \in Range(unexpected'[q])
      PROVE  NamesRecv(q, e.rreq)'
  <2>1. e \in Range(unexpected[q]) \/ NewHolder(q, e.rreq)
    BY StepEntries DEF EntriesKnown, ArrivalsKnown
  <2>2. e \in Range(unexpected[q]) => NamesRecv(q, e.rreq)'
    BY HandleTypes, NamesRecvStays DEF HandleInv
  <2> QED
    BY <2>1, <2>2, NewHolderNamed
<1> QED
  BY <1>1, <1>3, <1>4, <1>5, <1>6 DEF HandleInv

-----------------------------------------------------------------------------
LEMMA IdsInRange ==
  ASSUME TypeOK, MessageInv, NEW p \in Proc, NEW q \in Proc
  PROVE  /\ \A k \in Messages(p, q) : k.id \in 1 .. Len(sent[p])
         /\ \A e \in Arrivals(p, q) : e.id \in 1 .. Len(sent[p])
BY DEF MessageInv, InTransit, IsPending

LEMMA AskedForGood ==
  ASSUME TypeOK, [Next]_vars, NEW p \in Proc, NEW n \in 1 .. Len(sent[p])
  PROVE  n \in 1 .. Len(sent'[p]) /\ (sent[p][n].asked => sent'[p][n].asked)
BY StepAsked DEF AskedSame, AskedOnce, Recorded

LEMMA NewSendRecorded ==
  ASSUME TypeOK, NEW p \in Proc, NEW h \in Handle, Fresh(p, h), IsSend(req'[p][h])
  PROVE  /\ req'[p][h].id = Len(sent[p]) + 1
         /\ req'[p][h].id \in 1 .. Len(sent'[p])
         /\ ~SendOf(p, h)'.asked /\ ~req'[p][h].cancelPending
<1>1. Len(sent[p]) \in Nat
  BY DEF TypeOK
<1> QED
  BY <1>1 DEF Fresh, RecordsSend, SendOf

LEMMA AskedTogether ==
  ASSUME TypeOK, MaxGen <= 1, HandleInv, LedgerInv, [Next]_vars,
         NEW p \in Proc, NEW h \in Handle, Used(p, h), IsSend(req'[p][h])
  PROVE  /\ req'[p][h].id \in 1 .. Len(sent'[p])
         /\ SendOf(p, h)'.asked = req'[p][h].cancelPending
<1> DEFINE n == req[p][h].id
<1>1. Still(p, h) /\ IsSend(req[p][h]) /\ req'[p][h].id = n
  BY SendStill
<1>2. n \in 1 .. Len(sent[p]) /\ sent[p][n].asked = req[p][h].cancelPending
  BY <1>1 DEF LedgerInv, SendOf
<1>3. n \in 1 .. Len(sent'[p])
  BY <1>2, AskedForGood
<1>4. CASE AsksFor(p, h)
  <2>1. sent'[p][n].asked = TRUE
    BY <1>2, <1>4, AsksForRecorded DEF Recorded
  <2>2. req'[p][h].cancelPending = TRUE
    <3>1. req'[p][h].cancelPending \in BOOLEAN
      BY <1>4, CancelSendReq, CancelSelfMissedReq, CancelSelfFoundReq DEF AsksFor, Asked
    <3> QED
      BY <1>4, <3>1, CancelSendReq, CancelSelfMissedReq, CancelSelfFoundReq DEF AsksFor, Asked
  <2> QED
    BY <1>1, <1>3, <2>1, <2>2 DEF SendOf
<1>5. CASE ~AsksFor(p, h)
  <2>1. req'[p][h].cancelPending = req[p][h].cancelPending
    BY <1>1, <1>5 DEF Still
  <2>2. sent'[p][n].asked = sent[p][n].asked
    <3>1. CASE AskedSame
      BY <1>2, <3>1 DEF AskedSame
    <3>2. ASSUME NEW a \in Proc, NEW g \in Handle, AsksFor(a, g), Recorded(a, g)
          PROVE  sent'[p][n].asked = sent[p][n].asked
      <4>1. IsSend(req[a][g]) /\ (a # p \/ g # h)
        BY <1>5, <3>2 DEF AsksFor, CancelSend, CancelSelfMissed, CancelSelfFound, MayCancelSend
      <4>2. a = p => req[a][g].id # n
        BY <1>1, <4>1 DEF LedgerInv
      <4> QED
        BY <1>2, <3>2, <4>2 DEF Recorded
    <3> QED
      BY <3>1, <3>2, StepAsked DEF AskedOnce
  <2> QED
    BY <1>1, <1>2, <1>3, <2>1, <2>2 DEF SendOf
<1> QED
  BY <1>4, <1>5

LEMMA StepLedger ==
  ASSUME TypeOK, TypeOK', MaxGen <= 1, HandleInv, HandleInv', LedgerInv, [Next]_vars
  PROVE  LedgerInv'
<1>1. ASSUME NEW p \in Proc, NEW h \in Handle, IsSend(req'[p][h]), ~Used(p, h)
      PROVE  Fresh(p, h)
  <2>1. req[p][h].type = "FREE"
    BY <1>1 DEF HandleInv
  <2> QED
    BY <1>1, <2>1, StepGoes DEF Goes, Freed, Still, IsSend
<1>2. ASSUME NEW p \in Proc, NEW h \in Handle, IsSend(req'[p][h])
      PROVE  /\ req'[p][h].id \in 1 .. Len(sent'[p])
             /\ SendOf(p, h)'.asked = req'[p][h].cancelPending
  <2>1. CASE Used(p, h)
    BY <1>2, <2>1, AskedTogether
  <2>2. CASE ~Used(p, h)
    <3>1. ~SendOf(p, h)'.asked /\ ~req'[p][h].cancelPending
          /\ req'[p][h].id \in 1 .. Len(sent'[p])
      BY <1>1, <1>2, <2>2, NewSendRecorded
    <3>2. req'[p][h].cancelPending \in BOOLEAN /\ SendOf(p, h)'.asked \in BOOLEAN
      <4>1. sent'[p] \in Seq(SendRec) /\ req'[p][h] \in Request
        BY DEF TypeOK
      <4>2. sent'[p][req'[p][h].id] \in SendRec
        BY <3>1, <4>1, ElementOfSeq
      <4>3. req'[p][h].cancelPending \in BOOLEAN
        BY <4>1 DEF Request
      <4> QED
        BY <4>2, <4>3 DEF SendOf, SendRec
    <3> QED
      BY <3>1, <3>2
  <2> QED
    BY <2>1, <2>2
<1>3. ASSUME NEW p \in Proc, NEW h \in Handle, NEW g \in Handle,
             IsSend(req'[p][h]), IsSend(req'[p][g]), req'[p][h].id = req'[p][g].id
      PROVE  h = g
  <2>1. ASSUME NEW x \in Handle, IsSend(req'[p][x]), Used(p, x)
        PROVE  IsSend(req[p][x]) /\ req'[p][x].id = req[p][x].id
               /\ req'[p][x].id # Len(sent[p]) + 1
    <3>1. IsSend(req[p][x]) /\ req'[p][x].id = req[p][x].id
      BY <2>1, SendStill
    <3>2. req[p][x].id \in 1 .. Len(sent[p]) /\ Len(sent[p]) \in Nat
      BY <3>1 DEF LedgerInv, TypeOK
    <3> QED
      BY <3>1, <3>2
  <2>2. ASSUME NEW x \in Handle, IsSend(req'[p][x]), ~Used(p, x)
        PROVE  Fresh(p, x) /\ req'[p][x].id = Len(sent[p]) + 1
    BY <1>1, <2>2 DEF Fresh
  <2>3. CASE Used(p, h) /\ Used(p, g)
    BY <1>3, <2>1, <2>3 DEF LedgerInv
  <2>4. CASE ~Used(p, h) /\ ~Used(p, g)
    BY <1>3, <2>2, <2>4 DEF Fresh
  <2> QED
    BY <1>3, <2>1, <2>2, <2>3, <2>4
<1> QED
  BY <1>2, <1>3 DEF LedgerInv, SendOf

LEMMA AllAskedStays ==
  ASSUME TypeOK, MaxGen <= 1, MessageInv, [Next]_vars,
         NEW p \in Proc, NEW q \in Proc, NEW h \in Handle, Used(p, h),
         \A k \in Messages(p, q) : k.sreq = h => sent'[p][k.id].asked,
         \A e \in Arrivals(p, q) : e.sreq = h => sent'[p][e.id].asked
  PROVE  AllAsked(p, q, h)'
<1>1. ~Fresh(p, h)
  BY UsedIsNotFree
<1>2. ASSUME NEW k \in Messages(p, q)', k.sreq = h
      PROVE  sent'[p][k.id].asked
  BY <1>1, <1>2, MessagesFrom DEF NewMessage
<1>3. ASSUME NEW e \in Arrivals(p, q)', e.sreq = h
      PROVE  sent'[p][e.id].asked
  BY <1>1, <1>3, ArrivalsFrom, NoneAssumption DEF NewMessage
<1> QED
  BY <1>2, <1>3 DEF AllAsked

LEMMA StepCancelAsked ==
  ASSUME TypeOK, Cancelling => MaxGen <= 1, MessageInv, CancelInv, [Next]_vars
  PROVE  AskedInv'
<1> SUFFICES ASSUME NEW p \in Proc, NEW q \in Proc, NEW h \in Handle,
                    CancelAsked(p, q, h)'
             PROVE  Cancelling /\ Used(p, h)' /\ AllAsked(p, q, h)'
  BY DEF AskedInv
<1>1. PICK x \in Range(Flow(p, q)') : x.type = "CANCEL_SEND_REQ" /\ x.sreq = h
  BY DEF CancelAsked, In, OfType
<1>2. Origin(p, q, x)
  BY StepPackets DEF PacketsKnown
<1>3. CASE x \in Range(Flow(p, q))
  <2>1. x \in Packet
    BY <1>3, FlowType, RangeOf
  <2>2. CancelAsked(p, q, h)
    BY <1>1, <1>3, <2>1 DEF CancelAsked, In, OfType
  <2>3. Cancelling /\ Used(p, h) /\ AllAsked(p, q, h)
    BY <2>2 DEF CancelInv, AskedInv
  <2>4. /\ \A k \in Messages(p, q) : k.sreq = h => sent'[p][k.id].asked
        /\ \A e \in Arrivals(p, q) : e.sreq = h => sent'[p][e.id].asked
    BY <2>3, IdsInRange, AskedForGood DEF AllAsked
  <2> QED
    BY <2>3, <2>4, UsedStays, AllAskedStays
<1>4. CASE CancelSend(p, h)
  <2>1. Cancelling /\ IsSend(req[p][h]) /\ HandleInv /\ LedgerInv
    BY <1>4 DEF CancelSend, MayCancelSend, CancelInv
  <2>2. Used(p, h)
    BY <2>1 DEF HandleInv, IsSend
  <2>3. req[p][h].id \in 1 .. Len(sent[p]) /\ sent'[p][req[p][h].id].asked
    BY <1>4, <2>1, AsksForRecorded DEF AsksFor, Recorded, LedgerInv
  <2>4. \A k \in Messages(p, q) : k.sreq = h => k.id = req[p][h].id
    BY <2>1 DEF HandleInv, NamesSend
  <2>5. \A e \in Arrivals(p, q) : e.sreq = h => e.id = req[p][h].id
    BY <2>1, NoneAssumption DEF HandleInv, NamesSend
  <2> QED
    BY <2>1, <2>2, <2>3, <2>4, <2>5, UsedStays, AllAskedStays
<1> QED
  BY <1>1, <1>2, <1>3, <1>4 DEF Origin, Plain, Message, EagerTypes

LEMMA StepCancel ==
  ASSUME TypeOK, TypeOK', Cancelling => MaxGen <= 1, MessageInv, CancelInv, [Next]_vars
  PROVE  CancelInv'
<1>1. AskedInv'
  BY StepCancelAsked
<1>2. Cancelling => HandleInv'
  BY StepHandles DEF CancelInv
<1>3. Cancelling => LedgerInv'
  BY <1>2, StepLedger DEF CancelInv
<1> QED
  BY <1>1, <1>2, <1>3 DEF CancelInv

-----------------------------------------------------------------------------
LEMMA InitFlow ==
  ASSUME Init
  PROVE  /\ \A p, q \in Proc : Range(Flow(p, q)) = {} /\ Flow(p, q) = <<>>
         /\ \A p \in Proc : Range(posted[p]) = {} /\ Range(unexpected[p]) = {}
<1>1. <<>> \o <<>> = <<>> /\ Range(<<>>) = {}
  BY EmptySeq DEF Range
<1> QED
  BY <1>1 DEF Init, Flow

LEMMA InitMessages ==
  ASSUME Init PROVE MessageInv
<1>1. \A p \in Proc : posted[p] = <<>> /\ unexpected[p] = <<>> /\ sent[p] = <<>> /\ rcvd[p] = <<>>
  BY DEF Init
<1>2. Len(<<>>) = 0 /\ 1 .. 0 = {}
  OBVIOUS
<1>3. \A p, q \in Proc : InTransit(p, q)
  BY <1>1, <1>2, InitFlow DEF InTransit, InOrder, Messages, Arrivals, IsPending
<1>4. \A q \in Proc : InRankOrder(unexpected[q]) /\ PostedInv(q)
  BY <1>1, <1>2, InitFlow DEF InRankOrder, PostedInv, InPostOrder, IsOpen
<1> QED
  BY <1>3, <1>4 DEF MessageInv

LEMMA InitCancel ==
  ASSUME Init PROVE SelfInv /\ CancelInv
<1>1. \A p \in Proc, h \in Handle : req[p][h].type = "FREE"
  BY DEF Init, Returned, FreeRequest
<1>2. SelfInv /\ LedgerInv
  BY <1>1 DEF SelfInv, LedgerInv, IsSend
<1>3. HandleInv
  BY <1>1, InitFlow DEF HandleInv, Messages, Arrivals
<1>4. AskedInv
  BY InitFlow DEF AskedInv, CancelAsked, In
<1> QED
  BY <1>2, <1>3, <1>4 DEF CancelInv

-----------------------------------------------------------------------------
(***************************************************************************)
(* Matching sees a send without its mode and outcome.                      *)
(***************************************************************************)
Shown(s) == [dst |-> s.dst, tag |-> s.tag, asked |-> s.asked, fate |-> s.fate]
Sends == [p \in Proc |-> [i \in DOMAIN sent[p] |-> Shown(sent[p][i])]]

LEMMA SendsShape ==
  ASSUME TypeOK, NEW p \in Proc
  PROVE  /\ DOMAIN Sends[p] = 1 .. Len(sent[p]) /\ Len(Sends[p]) = Len(sent[p])
         /\ Len(sent[p]) \in Nat
         /\ \A n \in 1 .. Len(sent[p]) : Sends[p][n] = Shown(sent[p][n])
<1>1. sent[p] \in Seq(SendRec)
  BY DEF TypeOK
<1>2. DOMAIN sent[p] = 1 .. Len(sent[p]) /\ Len(sent[p]) \in Nat
  BY <1>1
<1>3. Sends[p] = [i \in 1 .. Len(sent[p]) |-> Shown(sent[p][i])]
  BY <1>2 DEF Sends
<1> QED
  BY <1>2, <1>3

LEMMA SetShown ==
  ASSUME TypeOK, NEW p \in Proc, NEW n \in 1 .. Len(sent[p]), NEW r, PutSent(p, n, r)
  PROVE  Sends' = [Sends EXCEPT ![p] = [@ EXCEPT ![n] = Shown(r)]]
<1>1. \A a \in Proc : DOMAIN sent'[a] = DOMAIN sent[a]
  BY DEF TypeOK, PutSent
<1>2. \A a \in Proc : \A m \in DOMAIN sent[a] :
        sent'[a][m] = IF a = p /\ m = n THEN r ELSE sent[a][m]
  BY DEF TypeOK, PutSent
<1>3. \A a \in Proc : DOMAIN Sends[a] = DOMAIN sent[a] /\ DOMAIN Sends'[a] = DOMAIN sent[a]
  BY <1>1 DEF Sends
<1>4. \A a \in Proc : \A m \in DOMAIN sent[a] :
        Sends'[a][m] = IF a = p /\ m = n THEN Shown(r) ELSE Sends[a][m]
  BY <1>1, <1>2 DEF Sends
<1>5. n \in DOMAIN sent[p]
  BY DEF TypeOK
<1> DEFINE f == [Sends[p] EXCEPT ![n] = Shown(r)]
<1>6. Sends'[p] = f
  <2>1. Sends'[p] = [m \in DOMAIN sent[p] |-> Sends'[p][m]]
    BY <1>1 DEF Sends
  <2>2. f = [m \in DOMAIN sent[p] |-> f[m]]
    BY <1>3
  <2>3. \A m \in DOMAIN sent[p] : f[m] = Sends'[p][m]
    BY <1>3, <1>4
  <2> QED
    BY <2>1, <2>2, <2>3
<1>7. \A a \in Proc : a # p => Sends'[a] = Sends[a]
  BY <1>2, <1>1 DEF Sends
<1> QED
  BY <1>6, <1>7 DEF Sends

SetFate(p, n, v) == sent' = [sent EXCEPT ![p][n].fate = v]
SetAsked(p, n, v) == sent' = [sent EXCEPT ![p][n].asked = v]
SetOutcome(p, n, v) == sent' = [sent EXCEPT ![p][n].outcome = v]

ShowFate(p, n, v) == Sends' = [Sends EXCEPT ![p][n].fate = v]
ShowAsked(p, n, v) == Sends' = [Sends EXCEPT ![p][n].asked = v]

LEMMA FieldShown ==
  ASSUME TypeOK, NEW p \in Proc, NEW n \in 1 .. Len(sent[p]), NEW v
  PROVE  /\ SetFate(p, n, v) => ShowFate(p, n, v)
         /\ SetAsked(p, n, v) => ShowAsked(p, n, v)
         /\ SetOutcome(p, n, v) => Sends' = Sends
<1> DEFINE r == sent[p][n]
           x == [r EXCEPT !.fate = v]
           y == [r EXCEPT !.asked = v]
           z == [r EXCEPT !.outcome = v]
<1>1. r \in SendRec
  BY ElementOfSeq DEF TypeOK
<1>2. Sends[p][n] = Shown(r)
  BY SendsShape
<1>3. Shown(x) = [Shown(r) EXCEPT !.fate = v] /\ Shown(y) = [Shown(r) EXCEPT !.asked = v]
      /\ Shown(z) = Shown(r)
  BY <1>1 DEF Shown, SendRec
<1>4. ASSUME sent' = [sent EXCEPT ![p][n].fate = v]
      PROVE  Sends' = [Sends EXCEPT ![p][n].fate = v]
  <2>1. PutSent(p, n, x)
    BY <1>4 DEF PutSent
  <2> HIDE DEF x
  <2> QED
    BY <1>2, <1>3, <2>1, SetShown
<1>5. ASSUME sent' = [sent EXCEPT ![p][n].asked = v]
      PROVE  Sends' = [Sends EXCEPT ![p][n].asked = v]
  <2>1. PutSent(p, n, y)
    BY <1>5 DEF PutSent
  <2> HIDE DEF y
  <2> QED
    BY <1>2, <1>3, <2>1, SetShown
<1>6. ASSUME sent' = [sent EXCEPT ![p][n].outcome = v]
      PROVE  Sends' = Sends
  <2>1. PutSent(p, n, z)
    BY <1>6 DEF PutSent
  <2> HIDE DEF z
  <2>2. Sends' = [Sends EXCEPT ![p] = [@ EXCEPT ![n] = Sends[p][n]]]
    BY <1>2, <1>3, <2>1, SetShown
  <2>3. [Sends[p] EXCEPT ![n] = Sends[p][n]] = Sends[p]
    BY DEF Sends
  <2> QED
    BY <2>2, <2>3 DEF Sends
<1> QED
  BY <1>4, <1>5, <1>6 DEF SetFate, SetAsked, SetOutcome, ShowFate, ShowAsked

LEMMA AddShown ==
  ASSUME TypeOK, NEW p \in Proc, NEW q, NEW t, NEW mode, NEW fate,
         sent' = [sent EXCEPT ![p] = RecordSend(p, q, t, mode, fate, @)]
  PROVE  Sends' = [Sends EXCEPT ![p] =
                     Append(@, [dst |-> q, tag |-> t, asked |-> FALSE, fate |-> fate])]
<1> DEFINE r == [dst |-> q, tag |-> t, asked |-> FALSE, fate |-> fate,
                 mode |-> mode, outcome |-> "active"]
           x == [dst |-> q, tag |-> t, asked |-> FALSE, fate |-> fate]
           f == Append(Sends[p], x)
           l == Len(sent[p])
<1>1. sent[p] \in Seq(SendRec) /\ l \in Nat
  BY DEF TypeOK
<1>2. sent'[p] = Append(sent[p], r) /\ \A a \in Proc : a # p => sent'[a] = sent[a]
  BY DEF TypeOK, RecordSend
<1>3. Shown(r) = x
  BY DEF Shown
<1> HIDE DEF r, x
<1>4. DOMAIN sent'[p] = 1 .. l + 1 /\ sent'[p][l + 1] = r
      /\ \A m \in 1 .. l : sent'[p][m] = sent[p][m]
  BY <1>1, <1>2
<1>5. Sends'[p] = [m \in 1 .. l + 1 |-> Shown(sent'[p][m])]
  BY <1>4 DEF Sends
<1> DEFINE s == Sends[p]
           S == {s[m] : m \in 1 .. l} \cup {x}
<1>6. s \in Seq(S) /\ Len(s) = l /\ x \in S
      /\ \A m \in 1 .. l : s[m] = Shown(sent[p][m])
  <2>1. /\ DOMAIN s = 1 .. l /\ Len(s) = l /\ s = [m \in DOMAIN s |-> s[m]]
        /\ \A m \in 1 .. l : s[m] = Shown(sent[p][m])
    BY SendsShape DEF Sends
  <2>2. s \in [1 .. l -> S]
    BY <2>1
  <2> QED
    BY <1>1, <2>1, <2>2
<1> HIDE DEF s, S
<1>7. Append(s, x) = [m \in 1 .. l + 1 |-> Shown(sent'[p][m])]
  <2>1. /\ Append(s, x) \in Seq(S) /\ Len(Append(s, x)) = l + 1
        /\ \A m \in 1 .. l : Append(s, x)[m] = s[m]
        /\ Append(s, x)[l + 1] = x
    BY <1>6, AppendParts
  <2>2. \A m \in 1 .. l : Append(s, x)[m] = Shown(sent'[p][m])
    BY <1>4, <1>6, <2>1
  <2>3. Append(s, x)[l + 1] = Shown(sent'[p][l + 1])
    BY <1>3, <1>4, <2>1
  <2> DEFINE y == Append(s, x)
  <2>4. y = [m \in DOMAIN y |-> y[m]] /\ DOMAIN y = 1 .. l + 1
    <3>1. y \in Seq(S) /\ Len(y) = l + 1
      BY <2>1
    <3> HIDE DEF y
    <3>2. y \in [1 .. Len(y) -> S]
      BY <3>1, LenProperties
    <3> QED
      BY <3>1, <3>2
  <2> HIDE DEF y, l
  <2>5. \A m \in 1 .. l + 1 : m \in 1 .. l \/ m = l + 1
    BY <1>1
  <2>6. \A m \in 1 .. l + 1 : y[m] = Shown(sent'[p][m])
    BY <2>2, <2>3, <2>5 DEF y
  <2>7. y = [m \in 1 .. l + 1 |-> y[m]]
    BY <2>4
  <2>8. y = [m \in 1 .. l + 1 |-> Shown(sent'[p][m])]
    BY <2>6, <2>7
  <2> QED
    BY <2>8 DEF y
<1>8. Sends'[p] = f
  BY <1>5, <1>7 DEF s
<1>9. \A a \in Proc : a # p => Sends'[a] = Sends[a]
  BY <1>2 DEF Sends
<1> QED
  BY <1>8, <1>9 DEF Sends, x

-----------------------------------------------------------------------------
(***************************************************************************)
(* The order of matching: who is first in line.                            *)
(***************************************************************************)
LEMMA PostedAt ==
  ASSUME TypeOK, MessageInv, NEW q \in Proc, NEW i \in 1 .. Len(posted[q])
  PROVE  LET e == posted[q][i] IN
         /\ e.id \in 1 .. Len(rcvd[q]) /\ rcvd[q][e.id].fate = "pending"
         /\ rcvd[q][e.id].rank = e.rank /\ rcvd[q][e.id].tag = e.tag
BY EntryTypes DEF MessageInv, PostedInv, IsOpen

LEMMA OpenAt ==
  ASSUME TypeOK, MessageInv, NEW q \in Proc, NEW m \in 1 .. Len(rcvd[q]),
         rcvd[q][m].fate = "pending"
  PROVE  \E l \in 1 .. Len(posted[q]) :
           /\ posted[q][l].id = m
           /\ \A p, t : Matches(p, t, rcvd[q][m]) <=> Matches(p, t, posted[q][l])
<1>1. IsOpen(q, m, rcvd[q][m].rank, rcvd[q][m].tag)
  BY DEF IsOpen
<1>2. PICK e \in Range(posted[q]) : e.id = m
  BY <1>1 DEF MessageInv, PostedInv
<1>3. posted[q] \in Seq(Posting)
  BY DEF TypeOK
<1>4. PICK l \in 1 .. Len(posted[q]) : posted[q][l] = e
  BY <1>2, <1>3, RangeOf
<1>5. rcvd[q][m].rank = e.rank /\ rcvd[q][m].tag = e.tag
  BY <1>2, <1>4, PostedAt
<1> QED
  BY <1>2, <1>4, <1>5 DEF Matches

LEMMA NoEarlierOpen ==
  ASSUME TypeOK, MessageInv, NEW q \in Proc, NEW p, NEW t, NEW i, FirstPosted(q, p, t, i),
         NEW m \in 1 .. posted[q][i].id - 1, rcvd[q][m].fate = "pending"
  PROVE  ~Matches(p, t, rcvd[q][m])
<1>1. i \in 1 .. Len(posted[q])
  BY DEF FirstPosted
<1>2. m \in 1 .. Len(rcvd[q])
  BY <1>1, PostedAt, PostedTypes
<1>3. PICK l \in 1 .. Len(posted[q]) :
        /\ posted[q][l].id = m
        /\ \A a, u : Matches(a, u, rcvd[q][m]) <=> Matches(a, u, posted[q][l])
  BY <1>2, OpenAt
<1>4. posted[q][i].id \in Nat /\ posted[q][l].id < posted[q][i].id
  BY <1>1, <1>3, EntryTypes
<1>5. \A a, b \in 1 .. Len(posted[q]) : a < b => posted[q][a].id < posted[q][b].id
  BY DEF MessageInv, PostedInv, InPostOrder
<1>6. l < i
  BY <1>1, <1>3, <1>4, <1>5
<1> QED
  BY <1>1, <1>3, <1>6 DEF FirstPosted

LEMMA NoOpenFor ==
  ASSUME TypeOK, MessageInv, NoMissedMatch, NEW q \in Proc,
         NEW j \in 1 .. Len(unexpected[q]), NEW m \in 1 .. Len(rcvd[q]),
         rcvd[q][m].fate = "pending"
  PROVE  ~Matches(unexpected[q][j].rank, unexpected[q][j].tag, rcvd[q][m])
<1>1. PICK l \in 1 .. Len(posted[q]) :
        \A p, t : Matches(p, t, rcvd[q][m]) <=> Matches(p, t, posted[q][l])
  BY OpenAt
<1>2. ~Matches(unexpected[q][j].rank, unexpected[q][j].tag, posted[q][l])
  BY DEF NoMissedMatch
<1> QED
  BY <1>1, <1>2

LEMMA ArrivalAt ==
  ASSUME TypeOK, NEW p \in Proc, NEW q \in Proc, NEW e \in Arrivals(p, q)
  PROVE  \E j \in 1 .. Len(unexpected[q]) : unexpected[q][j] = e /\ e.rank = p
<1>1. unexpected[q] \in Seq(Arrival)
  BY DEF TypeOK
<1> QED
  BY <1>1, RangeOf DEF Arrivals

LEMMA PendingIsSomewhere ==
  ASSUME TypeOK, MessageInv, NEW p \in Proc, NEW q \in Proc,
         NEW m \in 1 .. Len(sent[p]), sent[p][m].dst = q, sent[p][m].fate = "pending"
  PROVE  \/ \E k \in Messages(p, q) : k.id = m
         \/ \E j \in 1 .. Len(unexpected[q]) :
              /\ unexpected[q][j].rank = p /\ unexpected[q][j].id = m
              /\ unexpected[q][j].tag = sent[p][m].tag
<1>1. sent[p][m].tag \in Tag
  <2>1. sent[p] \in Seq(SendRec)
    BY DEF TypeOK
  <2>2. sent[p][m] \in SendRec
    BY <2>1, ElementOfSeq
  <2> QED
    BY <2>2 DEF SendRec
<1>2. IsPending(p, m, q, sent[p][m].tag)
  BY DEF IsPending
<1>3. InTransit(p, q)
  BY DEF MessageInv
<1>4. CASE \E k \in Messages(p, q) : k.id = m
  BY <1>4
<1>5. ASSUME NEW e \in Arrivals(p, q), e.id = m
      PROVE  \E j \in 1 .. Len(unexpected[q]) :
              /\ unexpected[q][j].rank = p /\ unexpected[q][j].id = m
              /\ unexpected[q][j].tag = sent[p][m].tag
  <2>1. sent[p][m].tag = e.tag
    BY <1>3, <1>5 DEF InTransit, IsPending
  <2> QED
    BY <1>5, <2>1, ArrivalAt
<1> QED
  BY <1>1, <1>2, <1>3, <1>4, <1>5 DEF InTransit

(* Nothing that a posted receive accepts was sent before the message read. *)
LEMMA NoEarlierMessage ==
  ASSUME TypeOK, MessageInv, NoMissedMatch, NEW q \in Proc, NEW p \in Proc, NEW k,
         ReadPacket(q, p, k), Message(k), NEW i \in 1 .. Len(posted[q]),
         NEW m \in 1 .. k.id - 1, sent[p][m].dst = q, sent[p][m].fate = "pending"
  PROVE  ~Matches(p, sent[p][m].tag, posted[q][i])
<1>1. /\ k \in Messages(p, q) /\ InOrder(Flow(p, q)) /\ k.id \in Nat
      /\ k.id \in 1 .. Len(sent[p]) /\ Len(sent[p]) \in Nat
  BY MessageRead, IdsInRange, TransitTypes
<1>2. m \in 1 .. Len(sent[p]) /\ m < k.id
  BY <1>1
<1>3. ASSUME NEW x \in Messages(p, q), x.id = m
      PROVE  FALSE
  <2>1. Flow(p, q) \in Seq(Packet) /\ Flow(p, q) # <<>> /\ Head(Flow(p, q)) = k
    BY ReadHead
  <2>2. \A y \in Range(Tail(Flow(p, q))) : Message(y) => k.id < y.id
    BY <1>1, <2>1, OrderTail
  <2>3. Range(Flow(p, q)) = Range(Tail(Flow(p, q))) \cup {k}
    BY <2>1, TailParts
  <2>4. x \in Range(Flow(p, q)) /\ Message(x)
    BY DEF Messages
  <2>5. x = k \/ k.id < x.id
    BY <2>2, <2>3, <2>4
  <2> QED
    BY <1>1, <1>2, <1>3, <2>5
<1>4. PICK j \in 1 .. Len(unexpected[q]) :
        unexpected[q][j].rank = p /\ unexpected[q][j].tag = sent[p][m].tag
  BY <1>2, <1>3, PendingIsSomewhere
<1> QED
  BY <1>4 DEF NoMissedMatch

(* Nor before the first message in the unexpected queue that it accepts. *)
LEMMA NoEarlierArrival ==
  ASSUME TypeOK, MessageInv, NEW q \in Proc, NEW f, NEW i, FirstUnexpected(q, f, i),
         NEW m \in 1 .. unexpected[q][i].id - 1,
         sent[unexpected[q][i].rank][m].dst = q,
         sent[unexpected[q][i].rank][m].fate = "pending"
  PROVE  ~Matches(unexpected[q][i].rank, sent[unexpected[q][i].rank][m].tag, f)
<1> DEFINE e == unexpected[q][i]
           p == e.rank
<1>1. i \in 1 .. Len(unexpected[q])
  BY DEF FirstUnexpected
<1>2. p \in Proc /\ e \in Arrivals(p, q) /\ e.id \in Nat /\ e.id \in 1 .. Len(sent[p])
      /\ Len(sent[p]) \in Nat
  <2>1. p \in Proc /\ e \in Arrivals(p, q) /\ e.id \in Nat
    BY <1>1, EntryTypes DEF Arrivals
  <2> QED
    BY <2>1, IdsInRange, TransitTypes
<1>3. m \in 1 .. Len(sent[p]) /\ m < e.id
  BY <1>2
<1>4. ~\E k \in Messages(p, q) : k.id = m
  <2>1. \A k \in Messages(p, q) : e.id < k.id
    BY <1>2 DEF MessageInv, InTransit
  <2> QED
    BY <1>2, <1>3, <2>1, TransitTypes
<1>5. PICK j \in 1 .. Len(unexpected[q]) :
        /\ unexpected[q][j].rank = p /\ unexpected[q][j].id = m
        /\ unexpected[q][j].tag = sent[p][m].tag
  <2> HIDE DEF p
  <2>1. sent[p][m].dst = q /\ sent[p][m].fate = "pending"
    BY DEF p
  <2> QED
    BY <1>2, <1>3, <1>4, <2>1, PendingIsSomewhere
<1>6. \A a, b \in 1 .. Len(unexpected[q]) :
        a < b /\ unexpected[q][a].rank = unexpected[q][b].rank =>
          unexpected[q][a].id < unexpected[q][b].id
  BY DEF MessageInv, InRankOrder
<1>7. j < i
  BY <1>1, <1>2, <1>3, <1>5, <1>6
<1> QED
  BY <1>1, <1>5, <1>7 DEF FirstUnexpected

-----------------------------------------------------------------------------
(***************************************************************************)
(* Every step is one of Matching's, or changes nothing that Matching sees. *)
(***************************************************************************)
Mapped == [Abstract!Next]_(Abstract!vars)

LEMMA StutterMapped ==
  ASSUME Sends' = Sends, UNCHANGED rcvd
  PROVE  Mapped
BY DEF Mapped, Abstract!vars, Sends, Shown

LEMMA SendMapped ==
  ASSUME TypeOK, NEW p \in Proc, NEW q \in Proc, NEW t \in Tag, NEW mode,
         sent' = [sent EXCEPT ![p] = RecordSend(p, q, t, mode, "pending", @)],
         UNCHANGED rcvd
  PROVE  Mapped
<1>1. Sends' = [Sends EXCEPT ![p] = Append(@, Abstract!NewSend(q, t, "pending"))]
  BY AddShown DEF Abstract!NewSend
<1>2. Abstract!Send(p, q, t)
  BY <1>1 DEF Abstract!Send, Sends, Shown
<1> QED
  BY <1>2 DEF Mapped, Abstract!Next

LEMMA PostMapped ==
  ASSUME UNCHANGED sent, NEW q \in Proc, NEW f \in Filters,
         rcvd' = [rcvd EXCEPT ![q] = RecordRecv(f, "pending", None, @)]
  PROVE  Mapped
<1>1. Abstract!Post(q, f.rank, f.tag)
  BY DEF Abstract!Post, Abstract!NewRecv, RecordRecv
<1>2. f.rank \in Proc \cup {Wildcard} /\ f.tag \in Tag \cup {Wildcard}
  BY FilterAssumption
<1> QED
  BY <1>1, <1>2 DEF Mapped, Abstract!Next

LEMMA CancelRecvMapped ==
  ASSUME TypeOK, MessageInv, NEW q \in Proc, NEW i \in 1 .. Len(posted[q]),
         rcvd' = [rcvd EXCEPT ![q][posted[q][i].id].fate = "cancelled"], UNCHANGED sent
  PROVE  Mapped
<1>1. PICK j : j = posted[q][i].id
  OBVIOUS
<1>2. j \in 1 .. Len(rcvd[q]) /\ rcvd[q][j].fate = "pending"
  BY <1>1, PostedAt
<1>3. Abstract!CancelRecv(q, j)
  BY <1>1, <1>2 DEF Abstract!CancelRecv
<1> QED
  BY <1>2, <1>3 DEF Mapped, Abstract!Next

LEMMA IndexMapped ==
  ASSUME TypeOK, NEW p \in Proc, NEW n \in 1 .. Len(sent[p])
  PROVE  /\ n \in 1 .. Len(Sends[p]) /\ n \in Nat
         /\ Sends[p][n].dst = sent[p][n].dst /\ Sends[p][n].tag = sent[p][n].tag
         /\ Sends[p][n].asked = sent[p][n].asked /\ Sends[p][n].fate = sent[p][n].fate
         /\ \A m \in 1 .. n - 1 :
              /\ Sends[p][m].dst = sent[p][m].dst /\ Sends[p][m].tag = sent[p][m].tag
              /\ Sends[p][m].fate = sent[p][m].fate
<1>1. \A s : /\ Shown(s).dst = s.dst /\ Shown(s).tag = s.tag
            /\ Shown(s).asked = s.asked /\ Shown(s).fate = s.fate
  BY DEF Shown
<1>2. /\ Len(Sends[p]) = Len(sent[p]) /\ Len(sent[p]) \in Nat
      /\ \A m \in 1 .. Len(sent[p]) : Sends[p][m] = Shown(sent[p][m])
  BY SendsShape
<1>3. n \in 1 .. Len(Sends[p]) /\ n \in Nat
      /\ \A m \in 1 .. n - 1 : m \in 1 .. Len(sent[p])
  BY <1>2
<1> QED
  BY <1>1, <1>2, <1>3

LEMMA AskMapped ==
  ASSUME TypeOK, NEW p \in Proc, NEW n \in 1 .. Len(sent[p]), ~sent[p][n].asked,
         sent' = [sent EXCEPT ![p][n].asked = TRUE], UNCHANGED rcvd
  PROVE  Mapped
<1>1. ShowAsked(p, n, TRUE)
  BY FieldShown DEF SetAsked
<1>2. ~Sends[p][n].asked /\ n \in 1 .. Len(Sends[p])
  BY IndexMapped
<1>3. Abstract!AskCancel(p, n)
  BY <1>1, <1>2 DEF ShowAsked, Abstract!AskCancel, Sends, Shown
<1>4. \E i \in 1 .. Len(Sends[p]) : Abstract!AskCancel(p, i)
  BY <1>2, <1>3
<1> QED
  BY <1>4 DEF Mapped, Abstract!Next, Sends, Shown

LEMMA CancelSendMapped ==
  ASSUME TypeOK, NEW p \in Proc, NEW n \in 1 .. Len(sent[p]), sent[p][n].asked,
         sent[p][n].fate = "pending",
         sent' = [sent EXCEPT ![p][n].fate = "cancelled"], UNCHANGED rcvd
  PROVE  Mapped
<1>1. ShowFate(p, n, "cancelled")
  BY FieldShown DEF SetFate
<1>2. Sends[p][n].asked /\ Sends[p][n].fate = "pending" /\ n \in 1 .. Len(Sends[p])
  BY IndexMapped
<1>3. Abstract!CancelSend(p, n)
  BY <1>1, <1>2 DEF ShowFate, Abstract!CancelSend, Sends, Shown
<1>4. \E i \in 1 .. Len(Sends[p]) : Abstract!CancelSend(p, i)
  BY <1>2, <1>3
<1> QED
  BY <1>4 DEF Mapped, Abstract!Next, Sends, Shown

LEMMA AskAndCancelMapped ==
  ASSUME TypeOK, NEW p \in Proc, NEW n \in 1 .. Len(sent[p]), ~sent[p][n].asked,
         sent[p][n].fate = "pending",
         sent' = [sent EXCEPT ![p][n].asked = TRUE, ![p][n].fate = "cancelled"],
         UNCHANGED rcvd
  PROVE  Mapped
<1>0. PICK v \in BOOLEAN : v = TRUE
  OBVIOUS
<1> DEFINE r == sent[p][n]
           y == [r EXCEPT !.asked = v]
           x == [y EXCEPT !.fate = "cancelled"]
<1>1. r \in SendRec /\ n \in DOMAIN sent[p]
  BY ElementOfSeq DEF TypeOK
<1>2. PutSent(p, n, x)
  <2>1. DOMAIN sent = Proc
    BY DEF TypeOK
  <2>2. sent' = [sent EXCEPT ![p][n].asked = v, ![p][n].fate = "cancelled"]
    BY <1>0
  <2> QED
    BY <1>1, <2>1, <2>2 DEF PutSent
<1>3. Shown(x) = [Shown(r) EXCEPT !.asked = v, !.fate = "cancelled"]
  <2>1. y \in SendRec
    BY <1>1 DEF SendRec
  <2>2. /\ y.dst = r.dst /\ y.tag = r.tag /\ y.fate = r.fate
    BY <1>1 DEF SendRec
  <2>3. y.asked = v
    BY <1>1 DEF SendRec
  <2> HIDE DEF y
  <2>4. Shown(y) = [Shown(r) EXCEPT !.asked = v]
    BY <2>2, <2>3 DEF Shown
  <2>5. Shown(x) = [Shown(y) EXCEPT !.fate = "cancelled"]
    BY <2>1 DEF Shown, SendRec
  <2> QED
    BY <2>4, <2>5
<1>4. Sends[p][n] = Shown(r) /\ n \in DOMAIN Sends[p] /\ p \in DOMAIN Sends
  BY SendsShape DEF Sends
<1> HIDE DEF x, y
<1>5. Sends' = [Sends EXCEPT ![p] = [@ EXCEPT ![n] = Shown(x)]]
  BY <1>2, SetShown
<1>6. Sends' = [Sends EXCEPT ![p][n].asked = TRUE, ![p][n].fate = "cancelled"]
  <2>1. Sends' = [Sends EXCEPT ![p][n].asked = v, ![p][n].fate = "cancelled"]
    BY <1>3, <1>4, <1>5
  <2> QED
    BY <1>0, <2>1
<1>7. ~Sends[p][n].asked /\ Sends[p][n].fate = "pending" /\ n \in 1 .. Len(Sends[p])
  BY IndexMapped
<1>8. Abstract!AskAndCancel(p, n)
  BY <1>6, <1>7 DEF Abstract!AskAndCancel, Sends, Shown
<1>9. \E i \in 1 .. Len(Sends[p]) : Abstract!AskAndCancel(p, i)
  BY <1>7, <1>8
<1> QED
  BY <1>9 DEF Mapped, Abstract!Next, Sends, Shown

-----------------------------------------------------------------------------
LEMMA MatchesMapped ==
  \A p, t, f : Abstract!Matches(p, t, f) <=> Matches(p, t, f)
BY DEF Abstract!Matches, Matches

LEMMA FirstMapped ==
  ASSUME TypeOK, NEW p \in Proc, NEW n \in 1 .. Len(sent[p]), NEW q, NEW f,
         sent[p][n].dst = q, sent[p][n].fate = "pending", Matches(p, sent[p][n].tag, f),
         \A m \in 1 .. n - 1 : sent[p][m].dst = q /\ sent[p][m].fate = "pending" =>
                               ~Matches(p, sent[p][m].tag, f)
  PROVE  Abstract!FirstFor(p, n, q, f)
<1>1. /\ Sends[p][n].dst = q /\ Sends[p][n].fate = "pending"
      /\ Abstract!Matches(p, Sends[p][n].tag, f)
  BY IndexMapped, MatchesMapped
<1>2. \A m \in 1 .. n - 1 :
        /\ Sends[p][m].dst = q
        /\ Sends[p][m].fate = "pending"
        => ~Abstract!Matches(p, Sends[p][m].tag, f)
  BY IndexMapped, MatchesMapped
<1> QED
  BY <1>1, <1>2 DEF Abstract!FirstFor, Sends, Shown

LEMMA FoundMapped ==
  ASSUME TypeOK, MessageInv, NoMissedMatch, NEW q \in Proc, NEW p \in Proc, NEW k,
         ReadPacket(q, p, k), Message(k), NEW i, FirstPosted(q, p, k.tag, i),
         MarkMatched(p, k.id, q, posted[q][i].id)
  PROVE  Mapped
<1>1. PICK n, j : n = k.id /\ j = posted[q][i].id
  OBVIOUS
<1>2. IsPending(p, n, q, k.tag)
  BY <1>1, MessageRead
<1>3. /\ n \in 1 .. Len(sent[p]) /\ sent[p][n].dst = q
      /\ sent[p][n].tag = k.tag /\ sent[p][n].fate = "pending"
  BY <1>2 DEF IsPending
<1>4. i \in 1 .. Len(posted[q]) /\ Matches(p, k.tag, posted[q][i])
  BY DEF FirstPosted
<1>5. /\ j \in 1 .. Len(rcvd[q]) /\ rcvd[q][j].fate = "pending"
      /\ rcvd[q][j].rank = posted[q][i].rank /\ rcvd[q][j].tag = posted[q][i].tag
  BY <1>1, <1>4, PostedAt
<1>6. \A a, t : Matches(a, t, rcvd[q][j]) <=> Matches(a, t, posted[q][i])
  BY <1>5 DEF Matches
<1>7. ASSUME NEW m \in 1 .. n - 1, sent[p][m].dst = q, sent[p][m].fate = "pending"
      PROVE  ~Matches(p, sent[p][m].tag, rcvd[q][j])
  <2>1. m \in 1 .. k.id - 1
    BY <1>1
  <2> QED
    BY <1>4, <1>6, <1>7, <2>1, NoEarlierMessage
<1>8. \A m \in 1 .. j - 1 : rcvd[q][m].fate = "pending" => ~Matches(p, k.tag, rcvd[q][m])
  BY <1>1, NoEarlierOpen
<1>9. /\ n \in 1 .. Len(Sends[p]) /\ Sends[p][n].dst = q /\ Sends[p][n].tag = k.tag
      /\ Sends[p][n].fate = "pending"
  BY <1>3, IndexMapped
<1>10. Abstract!FirstFor(p, n, q, rcvd[q][j])
  BY <1>3, <1>4, <1>6, <1>7, FirstMapped
<1>11. Abstract!NoEarlierRecv(p, Sends[p][n].tag, q, j)
  BY <1>8, <1>9 DEF Abstract!NoEarlierRecv, Abstract!Matches, Matches
<1>12. ShowFate(p, n, "matched")
  BY <1>1, <1>3, FieldShown DEF MarkMatched, SetFate
<1>13. rcvd' = [rcvd EXCEPT ![q][j].fate = "matched", ![q][j].msg = <<p, n>>]
  BY <1>1 DEF MarkMatched
<1>14. Abstract!Match(p, n, q, j)
  BY <1>5, <1>10, <1>11, <1>12, <1>13 DEF Abstract!Match, ShowFate, Sends, Shown
<1>15. \E m \in 1 .. Len(Sends[p]), l \in 1 .. Len(rcvd[q]) : Abstract!Match(p, m, q, l)
  BY <1>5, <1>9, <1>14
<1> QED
  BY <1>15 DEF Mapped, Abstract!Next, Sends, Shown

LEMMA DequeuedMapped ==
  ASSUME TypeOK, MessageInv, NoMissedMatch, NEW q \in Proc, NEW f \in Filters,
         NEW i, DequeueFor(q, f, i)
  PROVE  Mapped
<1>1. PICK p, n : p = unexpected[q][i].rank /\ n = unexpected[q][i].id
  OBVIOUS
<1>2. FirstUnexpected(q, f, i) /\ i \in 1 .. Len(unexpected[q])
      /\ Matches(p, unexpected[q][i].tag, f)
  BY <1>1 DEF DequeueFor, FirstUnexpected
<1>3. p \in Proc /\ unexpected[q][i] \in Arrivals(p, q)
  BY <1>1, <1>2, EntryTypes DEF Arrivals
<1>4. IsPending(p, n, q, unexpected[q][i].tag)
  BY <1>1, <1>3 DEF MessageInv, InTransit
<1>5. /\ n \in 1 .. Len(sent[p]) /\ sent[p][n].dst = q
      /\ sent[p][n].tag = unexpected[q][i].tag /\ sent[p][n].fate = "pending"
  BY <1>4 DEF IsPending
<1>6. ASSUME NEW m \in 1 .. n - 1, sent[p][m].dst = q, sent[p][m].fate = "pending"
      PROVE  ~Matches(p, sent[p][m].tag, f)
  <2>1. m \in 1 .. unexpected[q][i].id - 1
    BY <1>1
  <2> QED
    BY <1>1, <1>2, <1>6, <2>1, NoEarlierArrival
<1>7. Len(rcvd[q]) \in Nat
  BY DEF TypeOK
<1>8. \A m \in 1 .. (Len(rcvd[q]) + 1) - 1 :
        rcvd[q][m].fate = "pending" => ~Matches(p, unexpected[q][i].tag, rcvd[q][m])
  BY <1>1, <1>2, <1>7, NoOpenFor
<1>9. /\ n \in 1 .. Len(Sends[p]) /\ Sends[p][n].dst = q
      /\ Sends[p][n].tag = unexpected[q][i].tag /\ Sends[p][n].fate = "pending"
  BY <1>3, <1>5, IndexMapped
<1> DEFINE x == Abstract!NewRecv(f.rank, f.tag, "matched", <<p, n>>)
<1>10. x.rank = f.rank /\ x.tag = f.tag
  BY DEF Abstract!NewRecv
<1>11. rcvd' = [rcvd EXCEPT ![q] = Append(@, x)]
  BY <1>1 DEF DequeueFor, RecordRecv, Abstract!NewRecv
<1> HIDE DEF x
<1>12. \A a, t : Matches(a, t, f) <=> Matches(a, t, x)
  BY <1>10 DEF Matches
<1>13. Abstract!FirstFor(p, n, q, x)
  BY <1>2, <1>3, <1>5, <1>6, <1>12, FirstMapped
<1>14. Abstract!NoEarlierRecv(p, Sends[p][n].tag, q, Len(rcvd[q]) + 1)
  BY <1>8, <1>9 DEF Abstract!NoEarlierRecv, Abstract!Matches, Matches
<1>15. ShowFate(p, n, "matched")
  BY <1>1, <1>3, <1>5, FieldShown DEF DequeueFor, SetFate
<1>16. Abstract!Receive(p, n, q, f.rank, f.tag)
  BY <1>11, <1>13, <1>14, <1>15 DEF Abstract!Receive, ShowFate, Sends, Shown, x
<1>17. f.rank \in Proc \cup {Wildcard} /\ f.tag \in Tag \cup {Wildcard}
  BY FilterAssumption
<1>18. \E m \in 1 .. Len(Sends[p]) : Abstract!Receive(p, m, q, f.rank, f.tag)
  BY <1>9, <1>16
<1> QED
  BY <1>3, <1>17, <1>18 DEF Mapped, Abstract!Next, Sends, Shown

LEMMA SelfFoundMapped ==
  ASSUME TypeOK, MessageInv, NoMissedMatch, NEW p \in Proc, NEW t \in Tag, NEW mode \in Mode,
         NEW size, NEW h, NEW i, IsendSelfFound(p, t, mode, size, h, i)
  PROVE  Mapped
<1>1. PICK j : j = posted[p][i].id
  OBVIOUS
<1>2. FirstPosted(p, p, t, i) /\ i \in 1 .. Len(posted[p]) /\ Matches(p, t, posted[p][i])
  BY DEF IsendSelfFound, FirstPosted
<1>3. /\ j \in 1 .. Len(rcvd[p]) /\ rcvd[p][j].fate = "pending"
      /\ rcvd[p][j].rank = posted[p][i].rank /\ rcvd[p][j].tag = posted[p][i].tag
  BY <1>1, <1>2, PostedAt
<1>4. \A a, u : Matches(a, u, rcvd[p][j]) <=> Matches(a, u, posted[p][i])
  BY <1>3 DEF Matches
<1>5. \A m \in 1 .. j - 1 : rcvd[p][m].fate = "pending" => ~Matches(p, t, rcvd[p][m])
  BY <1>1, <1>2, NoEarlierOpen
<1>6. Messages(p, p) = {}
  BY DEF MessageInv, InTransit
<1>7. ASSUME NEW m \in 1 .. Len(sent[p]), sent[p][m].dst = p, sent[p][m].fate = "pending"
      PROVE  ~Matches(p, sent[p][m].tag, rcvd[p][j])
  <2>1. PICK l \in 1 .. Len(unexpected[p]) :
          unexpected[p][l].rank = p /\ unexpected[p][l].tag = sent[p][m].tag
    BY <1>6, <1>7, PendingIsSomewhere
  <2> QED
    BY <1>2, <1>4, <2>1 DEF NoMissedMatch
<1>8. \A m \in 1 .. Len(Sends[p]) :
        Sends[p][m].dst = p /\ Sends[p][m].fate = "pending" =>
          ~Matches(p, Sends[p][m].tag, rcvd[p][j])
  BY <1>7, IndexMapped, SendsShape
<1>9. Sends' = [Sends EXCEPT ![p] = Append(@, Abstract!NewSend(p, t, "matched"))]
  BY AddShown DEF IsendSelfFound, Abstract!NewSend
<1>10. rcvd' = [rcvd EXCEPT ![p][j].fate = "matched",
                           ![p][j].msg = <<p, Len(Sends[p]) + 1>>]
  BY <1>1, SendsShape DEF IsendSelfFound
<1>11. Abstract!NoEarlierRecv(p, t, p, j)
  BY <1>5 DEF Abstract!NoEarlierRecv, Abstract!Matches, Matches
<1>12. Abstract!SendToPosted(p, t, j)
  BY <1>2, <1>3, <1>4, <1>8, <1>9, <1>10, <1>11
  DEF Abstract!SendToPosted, Abstract!Matches, Matches, Sends, Shown
<1>13. \E l \in 1 .. Len(rcvd[p]) : Abstract!SendToPosted(p, t, l)
  BY <1>3, <1>12
<1> QED
  BY <1>13 DEF Mapped, Abstract!Next, Sends, Shown

-----------------------------------------------------------------------------
LEMMA OutcomeMapped ==
  ASSUME TypeOK, NEW p \in Proc, NEW h \in Handle, Wait(p, h) \/ RequestFree(p, h),
         Sends # Sends'
  PROVE  FALSE
<1>1. PICK n : n = req[p][h].id
  OBVIOUS
<1>2. sent' = sent \/ \E v : SetOutcome(p, n, v)
  BY <1>1 DEF Wait, RequestFree, SetOutcome
<1>3. CASE sent' = sent
  BY <1>3 DEF Sends
<1>4. ASSUME NEW v, SetOutcome(p, n, v) PROVE Sends' = Sends
  <2>1. CASE n \in 1 .. Len(sent[p])
    BY <1>4, <2>1, FieldShown
  <2>2. CASE n \notin 1 .. Len(sent[p])
    <3>1. sent[p] \in Seq(SendRec) /\ DOMAIN sent = Proc
      BY DEF TypeOK
    <3>2. \A a \in Proc : DOMAIN sent'[a] = DOMAIN sent[a]
      BY <1>4, <3>1 DEF SetOutcome, TypeOK
    <3>3. \A a \in Proc : \A m \in DOMAIN sent[a] : sent'[a][m] = sent[a][m]
      BY <1>4, <2>2, <3>1 DEF SetOutcome, TypeOK
    <3> QED
      BY <3>2, <3>3 DEF Sends
  <2> QED
    BY <2>1, <2>2
<1> QED
  BY <1>2, <1>3, <1>4

LEMMA SameMapped ==
  ASSUME UNCHANGED history PROVE Mapped
BY StutterMapped DEF history, Sends

LEMMA SendCallMapped ==
  ASSUME TypeOK, MessageInv, NoMissedMatch, NEW p \in Proc, SendCall(p)
  PROVE  Mapped
<1>1. PICK t \in Tag, mode \in Mode, size \in Size, h \in Handle :
        \/ \E q \in Proc : Isend(p, q, t, mode, size, h)
        \/ \E i \in 1 .. Len(posted[p]) : IsendSelfFound(p, t, mode, size, h, i)
        \/ \E g \in Handle : IsendSelfUnexpected(p, t, mode, size, h, g)
  BY DEF SendCall
<1>2. ASSUME NEW q \in Proc, Isend(p, q, t, mode, size, h) PROVE Mapped
  BY <1>2, SendMapped DEF Isend
<1>3. ASSUME NEW g \in Handle, IsendSelfUnexpected(p, t, mode, size, h, g) PROVE Mapped
  BY <1>3, SendMapped DEF IsendSelfUnexpected
<1> QED
  BY <1>1, <1>2, <1>3, SelfFoundMapped

LEMMA RecvCallMapped ==
  ASSUME TypeOK, MessageInv, NoMissedMatch, NEW p \in Proc, RecvCall(p)
  PROVE  Mapped
<1>1. ASSUME NEW f \in Filters, NEW h \in Handle, RecvPost(p, f, h) PROVE Mapped
  BY <1>1, PostMapped DEF RecvPost
<1>2. ASSUME NEW f \in Filters, NEW i \in 1 .. Len(unexpected[p]),
             RecvFound(p, f, i) \/ Improbe(p, f, i)
      PROVE  Mapped
  BY <1>2, DequeuedMapped DEF RecvFound, Improbe
<1>3. ASSUME NEW h \in Handle, Imrecv(p, h) PROVE Mapped
  BY <1>3, SameMapped DEF Imrecv
<1> QED
  BY <1>1, <1>2, <1>3 DEF RecvCall

LEMMA EndCallMapped ==
  ASSUME TypeOK, MessageInv, SelfInv, CancelInv, NEW p \in Proc, EndCall(p)
  PROVE  Mapped
<1>1. ASSUME NEW h \in Handle, Wait(p, h) \/ RequestFree(p, h) PROVE Mapped
  <2>1. Sends' = Sends
    BY <1>1, OutcomeMapped
  <2>2. UNCHANGED rcvd
    BY <1>1 DEF Wait, RequestFree, DropHandle
  <2> QED
    BY <2>1, <2>2, StutterMapped
<1>2. ASSUME NEW h \in Handle, MayCancelSend(p, h)
      PROVE  /\ HandleInv /\ IsSend(req[p][h])
             /\ req[p][h].id \in 1 .. Len(sent[p]) /\ ~sent[p][req[p][h].id].asked
  <2>1. IsSend(req[p][h]) /\ ~req[p][h].cancelPending /\ LedgerInv /\ HandleInv
    BY <1>2 DEF MayCancelSend, CancelInv
  <2> QED
    BY <2>1 DEF LedgerInv, SendOf
<1>3. ASSUME NEW h \in Handle, CancelSend(p, h) \/ CancelSelfMissed(p, h) PROVE Mapped
  <2>1. PICK n : n = req[p][h].id
    OBVIOUS
  <2>2. n \in 1 .. Len(sent[p]) /\ ~sent[p][n].asked
    BY <1>2, <1>3, <2>1 DEF CancelSend, CancelSelfMissed
  <2>3. sent' = [sent EXCEPT ![p][n].asked = TRUE] /\ UNCHANGED rcvd
    BY <1>3, <2>1 DEF CancelSend, CancelSelfMissed
  <2> QED
    BY <2>2, <2>3, AskMapped
<1>4. ASSUME NEW h \in Handle, NEW i \in 1 .. Len(unexpected[p]), CancelSelfFound(p, h, i)
      PROVE  Mapped
  <2>1. PICK n : n = req[p][h].id
    OBVIOUS
  <2>2. HandleInv /\ IsSend(req[p][h]) /\ n \in 1 .. Len(sent[p]) /\ ~sent[p][n].asked
    BY <1>2, <1>4, <2>1 DEF CancelSelfFound
  <2>3. req[p][h].rank = p
    BY <1>4, <2>2 DEF SelfInv, CancelSelfFound
  <2>4. /\ unexpected[p][i] \in Arrivals(p, p) /\ unexpected[p][i].sreq = h
    BY <1>4, <2>3, EntryTypes DEF CancelSelfFound, FirstById, IsMessage, Arrivals
  <2>5. unexpected[p][i].id = n
    BY <2>1, <2>2, <2>4, NoneAssumption DEF HandleInv, NamesSend
  <2>6. sent[p][n].fate = "pending"
    BY <2>4, <2>5 DEF MessageInv, InTransit, IsPending
  <2>7. sent' = [sent EXCEPT ![p][n].asked = TRUE, ![p][n].fate = "cancelled"]
        /\ UNCHANGED rcvd
    BY <1>4, <2>1, <2>5 DEF CancelSelfFound
  <2> QED
    BY <2>2, <2>6, <2>7, AskAndCancelMapped
<1>5. ASSUME NEW i \in 1 .. Len(posted[p]), CancelRecv(p, i) PROVE Mapped
  BY <1>5, CancelRecvMapped DEF CancelRecv
<1> QED
  BY <1>1, <1>3, <1>4, <1>5 DEF EndCall

LEMMA CancelReqMapped ==
  ASSUME TypeOK, MessageInv, AskedInv, NEW q \in Proc, NEW p \in Proc, NEW k,
         ReadPacket(q, p, k), NEW i \in 1 .. Len(unexpected[q]),
         HandleCancelReqFound(q, p, k, i)
  PROVE  Mapped
<1>1. k \in Packet /\ k \in Range(Flow(p, q)) /\ k.type = "CANCEL_SEND_REQ"
  BY ReadHead DEF HandleCancelReqFound
<1>2. k.sreq \in Handle
  BY <1>1, PacketFields
<1>3. CancelAsked(p, q, k.sreq)
  BY <1>1 DEF CancelAsked, In, OfType
<1>4. AllAsked(p, q, k.sreq)
  BY <1>2, <1>3 DEF AskedInv
<1>5. unexpected[q][i] \in Arrivals(p, q) /\ unexpected[q][i].sreq = k.sreq
  BY EntryTypes DEF HandleCancelReqFound, FirstById, IsMessage, Arrivals
<1>6. PICK n : n = unexpected[q][i].id
  OBVIOUS
<1>7. sent[p][n].asked
  BY <1>4, <1>5, <1>6 DEF AllAsked
<1>8. n \in 1 .. Len(sent[p]) /\ sent[p][n].fate = "pending"
  BY <1>5, <1>6 DEF MessageInv, InTransit, IsPending
<1>9. sent' = [sent EXCEPT ![p][n].fate = "cancelled"] /\ UNCHANGED rcvd
  BY <1>6 DEF HandleCancelReqFound
<1> QED
  BY <1>7, <1>8, <1>9, CancelSendMapped

LEMMA PacketMapped ==
  ASSUME TypeOK, MessageInv, NoMissedMatch, AskedInv, NEW q \in Proc, NEW p \in Proc,
         NEW k, HandlePacket(q, p, k)
  PROVE  Mapped
<1>1. ReadPacket(q, p, k)
  BY DEF HandlePacket
<1>2. ASSUME NEW i \in 1 .. Len(posted[q]),
             HandleEagerFound(q, p, k, i) \/ HandleRtsFound(q, p, k, i)
      PROVE  Mapped
  <2>1. Message(k) /\ FirstPosted(q, p, k.tag, i) /\ MarkMatched(p, k.id, q, posted[q][i].id)
    BY <1>2 DEF HandleEagerFound, HandleRtsFound, Message
  <2> QED
    BY <1>1, <2>1, FoundMapped
<1>3. CASE UNCHANGED history
  BY <1>3, SameMapped
<1> QED
  BY <1>1, <1>2, <1>3, CancelReqMapped
  DEF HandlePacket, HandleEagerUnexpected, HandleRtsUnexpected, HandleCts, HandleRndvSend,
      HandleSyncAck, HandleCancelReqMissed, HandleCancelResp, HandlePacket

LEMMA StepMapped ==
  ASSUME TypeOK, NoMissedMatch, MessageInv, SelfInv, CancelInv, [Next]_vars
  PROVE  Mapped
<1>1. ASSUME NEW p \in Proc, FinishCall(p) PROVE Mapped
  BY <1>1, SameMapped DEF FinishCall
<1>2. ASSUME NEW p \in Proc, NEW q \in Proc, Write(p, q) PROVE Mapped
  BY <1>2, SameMapped DEF Write
<1>3. ASSUME NEW p \in Proc, NEW q \in Proc, Deliver(q, p) PROVE Mapped
  BY <1>3, SameMapped, PacketMapped DEF Deliver, PayloadArrives, CancelInv
<1>4. CASE UNCHANGED vars
  BY <1>4, SameMapped DEF vars
<1> QED
  BY <1>1, <1>2, <1>3, <1>4, SendCallMapped, RecvCallMapped, EndCallMapped DEF Next

LEMMA InitMapped ==
  ASSUME Init PROVE Abstract!Init
<1>1. \A p \in Proc : sent[p] = <<>>
  BY DEF Init
<1>2. \A p \in Proc : [i \in DOMAIN sent[p] |-> Shown(sent[p][i])] = <<>>
  BY <1>1
<1>3. Sends = [p \in Proc |-> <<>>]
  BY <1>2 DEF Sends
<1> QED
  BY <1>3 DEF Abstract!Init, Init, Sends, Shown

-----------------------------------------------------------------------------
(* No message is lost or overtaken on its way: a send that is not matched  *)
(* or cancelled is one packet of its connection, or one entry of its       *)
(* receiver's unexpected queue, behind the earlier ones of its sender; a   *)
(* receive that is not matched or cancelled is one entry of recvq_posted,  *)
(* behind the earlier ones.  For all constants, handles used any number of *)
(* times, with threads and with cancels.                                   *)
THEOREM MessagesKeptInOrder == Spec => [](MessageInv /\ SelfInv)
<1> DEFINE I == MessageInv /\ SelfInv
<1>1. Init => I
  BY InitMessages, InitCancel
<1>2. TypeOK /\ TypeOK' /\ I /\ [Next]_vars => I'
  BY StepMessages, StepSelf
<1>3. Spec => []TypeOK
  BY TypeCorrect
<1> HIDE DEF I
<1>4. Spec => []I
  BY <1>1, <1>2, <1>3, PTL DEF Spec
<1> QED
  BY <1>4 DEF I

(* With cancels, if no handle is allocated twice: the handle in a packet,  *)
(* in a queue or in MPIDI_CH3_PKT_CANCEL_SEND_REQ names one send, and a    *)
(* request to cancel finds no message but the one it is for.  With a       *)
(* handle used twice MPID_Recvq_dq_msg_by_id does find another one, as     *)
(* the violation of CancelAgreed shows, so the assumption is needed.       *)
THEOREM CancelsKnowTheirSend ==
  ASSUME Cancelling => MaxGen <= 1
  PROVE  Spec => []MatchingInv
<1>1. Init => CancelInv
  BY InitCancel
<1>2. TypeOK /\ TypeOK' /\ MessageInv /\ CancelInv /\ [Next]_vars => CancelInv'
  BY StepCancel
<1>3. Spec => []TypeOK
  BY TypeCorrect
<1>4. Spec => [](MessageInv /\ SelfInv)
  BY MessagesKeptInOrder
<1> QED
  BY <1>1, <1>2, <1>3, <1>4, PTL DEF Spec, MatchingInv

(* Each step of the protocols is one of Matching, or none: an operation    *)
(* matches a message and a receive only if neither overtakes another, and  *)
(* a cancel takes back what is still pending, its own message or receive.  *)
(* Without cancels handles may be used again and again.                    *)
THEOREM ImplementsMatching ==
  ASSUME Cancelling => MaxGen <= 1
  PROVE  Spec => MatchingSpec
<1>1. Init => Abstract!Init
  BY InitMapped
<1>2. TypeOK /\ NoMissedMatch /\ MatchingInv /\ [Next]_vars =>
        [Abstract!Next]_(Abstract!vars)
  BY StepMapped DEF Mapped, MatchingInv
<1>3. Spec => []TypeOK
  BY TypeCorrect
<1>4. Spec => []NoMissedMatch
  BY NothingMissed
<1>5. Spec => []MatchingInv
  BY CancelsKnowTheirSend
<1> QED
  BY <1>1, <1>2, <1>3, <1>4, <1>5, PTL DEF Spec, MatchingSpec, Abstract!Spec

-----------------------------------------------------------------------------
(***************************************************************************)
(* What Matching promises, Pt2pt keeps.                                    *)
(***************************************************************************)
Promised == INSTANCE MatchingProofs WITH
  sends <- [p \in Proc |-> [i \in DOMAIN sent[p] |-> Shown(sent[p][i])]],
  recvs <- rcvd

LEMMA SameInit == Abstract!Init => Promised!Init
BY DEF Abstract!Init, Promised!Init, Shown

LEMMA SameNext == [Abstract!Next]_(Abstract!vars) => [Promised!Next]_(Promised!vars)
BY DEF Shown, Abstract!Next, Abstract!vars, Abstract!Send, Abstract!Post, Abstract!Match,
  Abstract!Receive, Abstract!SendToPosted, Abstract!AskCancel, Abstract!CancelSend,
  Abstract!AskAndCancel, Abstract!CancelRecv, Abstract!NewSend, Abstract!NewRecv,
  Abstract!FirstFor, Abstract!NoEarlierRecv, Abstract!Matches,
  Promised!Next, Promised!vars, Promised!Send, Promised!Post, Promised!Match,
  Promised!Receive, Promised!SendToPosted, Promised!AskCancel, Promised!CancelSend,
  Promised!AskAndCancel, Promised!CancelRecv, Promised!NewSend, Promised!NewRecv,
  Promised!FirstFor, Promised!NoEarlierRecv, Promised!Matches

LEMMA SamePromises ==
  /\ Promised!HoldsItsMessage => Abstract!HoldsItsMessage
  /\ Promised!MatchedOnce => Abstract!MatchedOnce
  /\ Promised!SendsNotOvertaken => Abstract!SendsNotOvertaken
  /\ Promised!RecvsNotOvertaken => Abstract!RecvsNotOvertaken
BY DEF Shown, Abstract!HoldsItsMessage, Abstract!MatchedOnce, Abstract!SendsNotOvertaken,
  Abstract!RecvsNotOvertaken, Abstract!Matches, Abstract!MsgId,
  Promised!HoldsItsMessage, Promised!MatchedOnce, Promised!SendsNotOvertaken,
  Promised!RecvsNotOvertaken, Promised!Matches, Promised!MsgId

LEMMA SameFates == Promised!FateIsFinal => Abstract!FateIsFinal
BY PTL DEF Shown, Promised!FateIsFinal, Abstract!FateIsFinal, Abstract!vars, Promised!vars

(* The messages of the protocols themselves: whatever queues, packets,     *)
(* probes, wildcards and cancels led there, a matched receive holds one    *)
(* message that was sent to its process and that its filter accepts, no    *)
(* other receive holds it, no earlier message of the sender and no earlier *)
(* receive that would do still waits, and what was decided stays decided.  *)
THEOREM NeverOvertaken ==
  ASSUME Cancelling => MaxGen <= 1
  PROVE  /\ Spec => [](/\ Abstract!HoldsItsMessage /\ Abstract!MatchedOnce
                       /\ Abstract!SendsNotOvertaken /\ Abstract!RecvsNotOvertaken)
         /\ Spec => Abstract!FateIsFinal
<1>1. Spec => Abstract!Spec
  BY ImplementsMatching DEF MatchingSpec
<1>2. Promised!Spec => [](Promised!TypeOK /\ Promised!HoldsItsMessage /\ Promised!MatchedOnce
                         /\ Promised!SendsNotOvertaken /\ Promised!RecvsNotOvertaken)
  BY Promised!MatchingCorrect
<1>3. Promised!Spec => Promised!FateIsFinal
  BY Promised!FatesAreFinal
<1>4. Abstract!Spec => Promised!Spec
  BY SameInit, SameNext, PTL DEF Abstract!Spec, Promised!Spec
<1>5. Spec => [](/\ Abstract!HoldsItsMessage /\ Abstract!MatchedOnce
                 /\ Abstract!SendsNotOvertaken /\ Abstract!RecvsNotOvertaken)
  BY <1>1, <1>2, <1>4, SamePromises, PTL
<1>6. Spec => Abstract!FateIsFinal
  BY <1>1, <1>3, <1>4, SameFates, PTL
<1> QED
  BY <1>5, <1>6
=============================================================================

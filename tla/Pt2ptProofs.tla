---------------------------- MODULE Pt2ptProofs -----------------------------
(***************************************************************************)
(* Proofs about Pt2pt for every set of processes, handles and tags and     *)
(* every bound: its type invariant, that the two receive queues never hold *)
(* a receive and a message that match each other, and, step by step, that  *)
(* each message which is neither matched nor cancelled is where its        *)
(* receiver will look for it, in the order of the calls (MessageInv).      *)
(***************************************************************************)
EXTENDS Pt2ptInv, SequenceTheorems, TLAPS

-----------------------------------------------------------------------------
(***************************************************************************)
(* Sequences.                                                              *)
(***************************************************************************)

(* RemoveAt takes one entry out and keeps the others.                      *)
LEMMA RemoveAtProperties ==
  ASSUME NEW S, NEW s \in Seq(S), NEW i \in 1 .. Len(s)
  PROVE  /\ RemoveAt(s, i) \in Seq(S)
         /\ Len(RemoveAt(s, i)) = Len(s) - 1
         /\ \A k \in 1 .. Len(s) - 1 :
              RemoveAt(s, i)[k] = s[IF k < i THEN k ELSE k + 1]
<1> DEFINE front == SubSeq(s, 1, i - 1)
           back == SubSeq(s, i + 1, Len(s))
<1>1. /\ Len(s) \in Nat
      /\ \A k \in 1 .. Len(s) : s[k] \in S
  BY LenProperties, ElementOfSeq
<1>2. /\ front \in Seq(S)
      /\ Len(front) = i - 1
      /\ \A k \in 1 .. i - 1 : front[k] = s[k]
  <2>1. \A k \in 1 .. i - 1 : s[k] \in S
    BY <1>1
  <2> QED
    BY <1>1, <2>1, SubSeqProperties
<1>3. /\ back \in Seq(S)
      /\ Len(back) = Len(s) - i
      /\ \A k \in 1 .. Len(s) - i : back[k] = s[k + i]
  <2>1. \A k \in i + 1 .. Len(s) : s[k] \in S
    BY <1>1
  <2>2. /\ back \in Seq(S)
        /\ Len(back) = IF i + 1 <= Len(s) THEN Len(s) - (i + 1) + 1 ELSE 0
        /\ \A k \in 1 .. Len(s) - (i + 1) + 1 : back[k] = s[(i + 1) + k - 1]
    BY <1>1, <2>1, SubSeqProperties
  <2> QED
    BY <1>1, <2>2
<1>4. /\ front \o back \in Seq(S)
      /\ Len(front \o back) = Len(front) + Len(back)
      /\ \A k \in 1 .. Len(front) + Len(back) :
           (front \o back)[k] = IF k <= Len(front) THEN front[k] ELSE back[k - Len(front)]
  BY <1>2, <1>3, ConcatProperties
<1>5. RemoveAt(s, i) = front \o back
  BY DEF RemoveAt
<1> HIDE DEF front, back
<1>6. Len(RemoveAt(s, i)) = Len(s) - 1
  <2>1. Len(front) + Len(back) = Len(s) - 1
    BY <1>1, <1>2, <1>3
  <2> QED
    BY <2>1, <1>4, <1>5, Zenon
<1>7. ASSUME NEW k \in 1 .. Len(s) - 1
      PROVE  RemoveAt(s, i)[k] = s[IF k < i THEN k ELSE k + 1]
  <2>1. CASE k < i
    BY <2>1, <1>1, <1>2, <1>3, <1>4, <1>5
  <2>2. CASE k >= i
    <3>1. k - (i - 1) \in 1 .. Len(s) - i /\ (k - (i - 1)) + i = k + 1
      BY <2>2, <1>1
    <3>2. RemoveAt(s, i)[k] = back[k - (i - 1)]
      BY <2>2, <1>1, <1>2, <1>3, <1>4, <1>5
    <3> QED
      BY <2>2, <3>1, <3>2, <1>1, <1>3
  <2> QED
    BY <2>1, <2>2, <1>1
<1> QED
  BY <1>4, <1>5, <1>6, <1>7

(* What RemoveAt keeps was there before, and in the same order.            *)
LEMMA RemoveAtKeeps ==
  ASSUME NEW S, NEW s \in Seq(S), NEW i \in 1 .. Len(s)
  PROVE  \A k \in 1 .. Len(RemoveAt(s, i)) :
           \E m \in 1 .. Len(s) : RemoveAt(s, i)[k] = s[m]
<1>1. Len(s) \in Nat
  BY LenProperties
<1>2. Len(RemoveAt(s, i)) = Len(s) - 1
  BY RemoveAtProperties
<1>3. ASSUME NEW k \in 1 .. Len(s) - 1
      PROVE  \E m \in 1 .. Len(s) : RemoveAt(s, i)[k] = s[m]
  <2>1. (IF k < i THEN k ELSE k + 1) \in 1 .. Len(s)
    BY <1>1
  <2> QED
    BY <2>1, RemoveAtProperties, Zenon
<1> QED
  BY <1>2, <1>3, Zenon

(* Overwriting a place of a sequence, in its domain or not, keeps its type. *)
LEMMA ExceptKeepsSeq ==
  ASSUME NEW S, NEW s \in Seq(S), NEW i, NEW v,
         i \in 1 .. Len(s) => v \in S
  PROVE  [s EXCEPT ![i] = v] \in Seq(S)
<1>1. /\ Len(s) \in Nat
      /\ s \in [1 .. Len(s) -> S]
  BY LenProperties
<1>2. [s EXCEPT ![i] = v] \in [1 .. Len(s) -> S]
  BY <1>1
<1> QED
  BY <1>1, <1>2, SeqDef

-----------------------------------------------------------------------------
(***************************************************************************)
(* Requests.                                                               *)
(***************************************************************************)
LEMMA FreeRequestType ==
  ASSUME NEW g \in Nat, NEW v \in Int
  PROVE  FreeRequest(g, v) \in Request
BY NoneAssumption DEF FreeRequest, Request

(* Setting one field.  An EXCEPT of several fields is taken one at a time.  *)
LEMMA FieldType ==
  ASSUME NEW r \in Request
  PROVE  /\ \A v \in {"RECV", "SEND", "SSEND", "RSEND"} : [r EXCEPT !.type = v] \in Request
         /\ \A v \in Int : [r EXCEPT !.ref = v] \in Request
         /\ \A v \in Int : [r EXCEPT !.cc = v] \in Request
         /\ \A v \in {"NONE", "EAGER", "RNDV", "SELF"} : [r EXCEPT !.msgType = v] \in Request
         /\ \A v \in Proc \cup {None} : [r EXCEPT !.rank = v] \in Request
         /\ \A v \in Tag \cup {None} : [r EXCEPT !.tag = v] \in Request
         /\ \A v \in {"zero", "eager", "rndv"} : [r EXCEPT !.size = v] \in Request
         /\ \A v \in Int : [r EXCEPT !.pending = v] \in Request
         /\ \A v \in BOOLEAN : [r EXCEPT !.onUe = v] \in Request
         /\ \A v \in BOOLEAN : [r EXCEPT !.syncAck = v] \in Request
         /\ \A v \in Handle \cup {None} : [r EXCEPT !.senderReq = v] \in Request
         /\ \A v \in Handle \cup {None} : [r EXCEPT !.partner = v] \in Request
         /\ \A v \in BOOLEAN : [r EXCEPT !.cancelled = v] \in Request
         /\ \A v \in BOOLEAN : [r EXCEPT !.cancelPending = v] \in Request
         /\ \A v \in BOOLEAN : [r EXCEPT !.error = v] \in Request
         /\ \A v \in BOOLEAN : [r EXCEPT !.delivered = v] \in Request
         /\ \A v \in Nat : [r EXCEPT !.id = v] \in Request
BY DEF Request

(* The fields that an action copies into a packet or counts with.          *)
LEMMA RequestFields ==
  ASSUME NEW r \in Request
  PROVE  /\ r.gen \in Nat /\ r.ref \in Int /\ r.cc \in Int /\ r.pending \in Int
         /\ r.id \in Nat
         /\ r.rank \in Proc \cup {None} /\ r.tag \in Tag \cup {None}
         /\ r.senderReq \in Handle \cup {None} /\ r.partner \in Handle \cup {None}
         /\ r.onUe \in BOOLEAN /\ r.error \in BOOLEAN /\ r.delivered \in BOOLEAN
         /\ Unpacked(r) \in BOOLEAN
BY DEF Request, Unpacked

LEMMA NewRequestType ==
  ASSUME NEW r \in Request, NEW type \in {"RECV", "SEND", "SSEND", "RSEND"}
  PROVE  NewRequest(r, type) \in Request
<1> DEFINE a == FreeRequest(r.gen + 1, r.pending)
           b == [a EXCEPT !.type = type]
           c == [b EXCEPT !.ref = 1]
<1>1. a \in Request
  BY RequestFields, FreeRequestType
<1>2. b \in Request
  BY <1>1, FieldType, Zenon
<1>3. c \in Request
  <2> HIDE DEF b
  <2>1. 1 \in Int
    OBVIOUS
  <2> QED
    BY <1>2, <2>1, FieldType, Zenon
<1>4. [c EXCEPT !.cc = 1] \in Request
  <2> HIDE DEF c
  <2>1. 1 \in Int
    OBVIOUS
  <2> QED
    BY <1>3, <2>1, FieldType, Zenon
<1>5. NewRequest(r, type) = [c EXCEPT !.cc = 1]
  BY DEF NewRequest
<1> QED
  BY <1>4, <1>5

(* Counting references and completions leaves a request a request.         *)
LEMMA CountersType ==
  ASSUME NEW r \in Request
  PROVE  /\ AddRef(r) \in Request
         /\ Release(r) \in Request
         /\ SignalCompletion(r) \in Request
         /\ PostponeCompletion(r) \in Request
<1>1. /\ r.ref + 1 \in Int /\ r.ref - 1 \in Int
      /\ r.cc + 1 \in Int /\ r.cc - 1 \in Int
      /\ r.gen \in Nat /\ r.pending \in Int
  BY RequestFields
<1>2. AddRef(r) \in Request
  BY <1>1, FieldType DEF AddRef
<1>3. Release(r) \in Request
  BY <1>1, FieldType, FreeRequestType DEF Release
<1>4. SignalCompletion(r) \in Request
  BY <1>1, FieldType DEF SignalCompletion
<1>5. PostponeCompletion(r) \in Request
  BY <1>1, FieldType DEF PostponeCompletion
<1> QED
  BY <1>2, <1>3, <1>4, <1>5

(* set_request_info, and the envelope of a message that found no receive.  *)
LEMMA WithInfoType ==
  ASSUME NEW r \in Request, NEW k, NEW type \in {"EAGER", "RNDV"},
         k.sreq \in Handle \cup {None}, k.size \in {"zero", "eager", "rndv"}
  PROVE  WithInfo(r, k, type) \in Request
<1> DEFINE a == [r EXCEPT !.senderReq = k.sreq]
           b == [a EXCEPT !.size = k.size]
<1>1. a \in Request
  BY FieldType, Zenon
<1>2. b \in Request
  <2> HIDE DEF a
  <2> QED
    BY <1>1, FieldType, Zenon
<1>3. [b EXCEPT !.msgType = type] \in Request
  <2> HIDE DEF b
  <2>1. type \in {"NONE", "EAGER", "RNDV", "SELF"}
    OBVIOUS
  <2> QED
    BY <1>2, <2>1, FieldType, Zenon
<1>4. WithInfo(r, k, type) = [b EXCEPT !.msgType = type]
  BY DEF WithInfo
<1> QED
  BY <1>3, <1>4

LEMMA NewUnexpectedType ==
  ASSUME NEW q \in Proc, NEW p \in Proc, NEW h \in Handle, NEW k,
         NEW type \in {"EAGER", "RNDV"}, req \in [Proc -> [Handle -> Request]],
         k.sreq \in Handle \cup {None}, k.size \in {"zero", "eager", "rndv"},
         k.tag \in Tag
  PROVE  NewUnexpected(q, p, k, h, type) \in Request
<1> DEFINE a == NewRequest(req[q][h], "RECV")
           b == [a EXCEPT !.rank = p]
           c == [b EXCEPT !.tag = k.tag]
<1>1. a \in Request
  BY NewRequestType
<1>2. b \in Request
  <2> HIDE DEF a
  <2>1. p \in Proc \cup {None}
    OBVIOUS
  <2> QED
    BY <1>1, <2>1, FieldType, Zenon
<1>3. c \in Request
  <2> HIDE DEF b
  <2>1. k.tag \in Tag \cup {None}
    OBVIOUS
  <2> QED
    BY <1>2, <2>1, FieldType, Zenon
<1>4. AddRef(WithInfo(c, k, type)) \in Request
  <2> HIDE DEF c
  <2> QED
    BY <1>3, WithInfoType, CountersType
<1>5. NewUnexpected(q, p, k, h, type) = AddRef(WithInfo(c, k, type))
  BY DEF NewUnexpected
<1> QED
  BY <1>4, <1>5

(* A request for a send.                                                   *)
LEMMA NewSreqShape ==
  ASSUME NEW p, NEW h, NEW q, NEW t, NEW mode, NEW size
  PROVE  /\ NewSreq(p, h, q, t, mode, size).type = mode
         /\ NewSreq(p, h, q, t, mode, size).tag = t
         /\ NewSreq(p, h, q, t, mode, size).size = size
         /\ NewSreq(p, h, q, t, mode, size).id = Len(sent[p]) + 1
BY DEF NewSreq, NewRequest, FreeRequest

LEMMA NewSreqType ==
  ASSUME NEW p \in Proc, NEW h \in Handle, NEW q \in Proc, NEW t \in Tag,
         NEW mode \in Mode, NEW size \in Size,
         req \in [Proc -> [Handle -> Request]], sent \in [Proc -> Seq(SendRec)]
  PROVE  NewSreq(p, h, q, t, mode, size) \in Request
<1> DEFINE a == NewRequest(req[p][h], mode)
           b == [a EXCEPT !.rank = q]
           c == [b EXCEPT !.tag = t]
           d == [c EXCEPT !.size = size]
           e == [d EXCEPT !.id = Len(sent[p]) + 1]
<1>1. /\ mode \in {"SEND", "SSEND", "RSEND"}
      /\ size \in {"zero", "eager", "rndv"}
      /\ q \in Proc \cup {None}
      /\ t \in Tag \cup {None}
      /\ Len(sent[p]) + 1 \in Nat
  BY ModeAssumption, SizeAssumption, LenProperties
<1>2. a \in Request
  BY <1>1, NewRequestType
<1>3. b \in Request
  <2> HIDE DEF a
  <2> QED
    BY <1>1, <1>2, FieldType, Zenon
<1>4. c \in Request
  <2> HIDE DEF b
  <2> QED
    BY <1>1, <1>3, FieldType, Zenon
<1>5. d \in Request
  <2> HIDE DEF c
  <2> QED
    BY <1>1, <1>4, FieldType, Zenon
<1>6. e \in Request
  <2> HIDE DEF d
  <2> QED
    BY <1>1, <1>5, FieldType, Zenon
<1>7. NewSreq(p, h, q, t, mode, size) = e
  BY DEF NewSreq
<1> QED
  BY <1>6, <1>7

-----------------------------------------------------------------------------
(***************************************************************************)
(* Updates of the variables.                                               *)
(***************************************************************************)
LEMMA SetRequest ==
  ASSUME req \in [Proc -> [Handle -> Request]], NEW p, NEW h, NEW r,
         p \in Proc /\ h \in Handle => r \in Request
  PROVE  [req EXCEPT ![p][h] = r] \in [Proc -> [Handle -> Request]]
OBVIOUS

LEMMA SetTwoRequests ==
  ASSUME req \in [Proc -> [Handle -> Request]], NEW p \in Proc,
         NEW h1, NEW r1 \in Request, NEW h2, NEW r2 \in Request
  PROVE  [req EXCEPT ![p] = [@ EXCEPT ![h1] = r1, ![h2] = r2]]
           \in [Proc -> [Handle -> Request]]
<1> DEFINE f == [req[p] EXCEPT ![h1] = r1]
<1>1. f \in [Handle -> Request]
  OBVIOUS
<1>2. [f EXCEPT ![h2] = r2] \in [Handle -> Request]
  <2> HIDE DEF f
  <2> QED
    BY <1>1
<1>3. [req[p] EXCEPT ![h1] = r1, ![h2] = r2] = [f EXCEPT ![h2] = r2]
  OBVIOUS
<1> QED
  BY <1>2, <1>3

LEMMA AppendAt ==
  ASSUME NEW S, NEW f \in [Proc -> Seq(S)], NEW p \in Proc, NEW v \in S
  PROVE  [f EXCEPT ![p] = Append(@, v)] \in [Proc -> Seq(S)]
BY AppendProperties

LEMMA RemoveFrom ==
  ASSUME NEW S, NEW f \in [Proc -> Seq(S)], NEW p \in Proc,
         NEW i \in 1 .. Len(f[p])
  PROVE  [f EXCEPT ![p] = RemoveAt(@, i)] \in [Proc -> Seq(S)]
BY RemoveAtProperties

LEMMA SendPacketType ==
  ASSUME sendq \in [Proc -> [Proc -> Seq(Packet)]], NEW p, NEW q,
         NEW k \in Packet, SendPacket(p, q, k)
  PROVE  sendq' \in [Proc -> [Proc -> Seq(Packet)]]
<1>1. p \in Proc /\ q \in Proc => Append(sendq[p][q], k) \in Seq(Packet)
  BY AppendProperties
<1>2. sendq' = [sendq EXCEPT ![p][q] = Append(sendq[p][q], k)]
  BY DEF SendPacket
<1> QED
  BY <1>1, <1>2

(* The history of a send or a receive, if the index is one at all.         *)
LEMMA SentType ==
  ASSUME sent \in [Proc -> Seq(SendRec)], NEW p, NEW i
  PROVE  /\ \A v \in {"pending", "matched", "cancelled"} :
              [sent EXCEPT ![p][i].fate = v] \in [Proc -> Seq(SendRec)]
         /\ [sent EXCEPT ![p][i].asked = TRUE] \in [Proc -> Seq(SendRec)]
         /\ \A v \in {"active", "done", "cancelled", "freed"} :
              [sent EXCEPT ![p][i].outcome = v] \in [Proc -> Seq(SendRec)]
<1> DEFINE s == sent[p]
<1>1. CASE p \in Proc
  <2>1. s \in Seq(SendRec)
    BY <1>1
  <2>2. i \in 1 .. Len(s) => s[i] \in SendRec
    BY <2>1, ElementOfSeq
  <2>3. /\ \A v \in {"pending", "matched", "cancelled"} :
             i \in 1 .. Len(s) => [s[i] EXCEPT !.fate = v] \in SendRec
        /\ i \in 1 .. Len(s) => [s[i] EXCEPT !.asked = TRUE] \in SendRec
        /\ \A v \in {"active", "done", "cancelled", "freed"} :
             i \in 1 .. Len(s) => [s[i] EXCEPT !.outcome = v] \in SendRec
    BY <2>2 DEF SendRec
  <2>4. /\ \A v \in {"pending", "matched", "cancelled"} :
             [s EXCEPT ![i] = [s[i] EXCEPT !.fate = v]] \in Seq(SendRec)
        /\ [s EXCEPT ![i] = [s[i] EXCEPT !.asked = TRUE]] \in Seq(SendRec)
        /\ \A v \in {"active", "done", "cancelled", "freed"} :
             [s EXCEPT ![i] = [s[i] EXCEPT !.outcome = v]] \in Seq(SendRec)
    BY <2>1, <2>3, ExceptKeepsSeq
  <2> QED
    BY <1>1, <2>4
<1>2. CASE p \notin Proc
  BY <1>2
<1> QED
  BY <1>1, <1>2

LEMMA SentTypeTwice ==
  ASSUME sent \in [Proc -> Seq(SendRec)], NEW p, NEW i, NEW j
  PROVE  [sent EXCEPT ![p][i].asked = TRUE, ![p][j].fate = "cancelled"]
           \in [Proc -> Seq(SendRec)]
<1> DEFINE f == [sent EXCEPT ![p][i].asked = TRUE]
<1>1. f \in [Proc -> Seq(SendRec)]
  BY SentType
<1>2. [f EXCEPT ![p][j].fate = "cancelled"] \in [Proc -> Seq(SendRec)]
  <2> HIDE DEF f
  <2>1. CASE p \in Proc
    <3>1. f[p] \in Seq(SendRec)
      BY <1>1, <2>1
    <3>2. j \in 1 .. Len(f[p]) => f[p][j] \in SendRec
      BY <3>1, ElementOfSeq
    <3>3. j \in 1 .. Len(f[p]) => [f[p][j] EXCEPT !.fate = "cancelled"] \in SendRec
      BY <3>2 DEF SendRec
    <3>4. [f[p] EXCEPT ![j] = [f[p][j] EXCEPT !.fate = "cancelled"]] \in Seq(SendRec)
      BY <3>1, <3>3, ExceptKeepsSeq
    <3> QED
      BY <1>1, <2>1, <3>4
  <2>2. CASE p \notin Proc
    BY <1>1, <2>2
  <2> QED
    BY <2>1, <2>2
<1>3. [sent EXCEPT ![p][i].asked = TRUE, ![p][j].fate = "cancelled"]
        = [f EXCEPT ![p][j].fate = "cancelled"]
  OBVIOUS
<1> QED
  BY <1>2, <1>3

LEMMA RcvdType ==
  ASSUME rcvd \in [Proc -> Seq(RecvRec)], NEW q, NEW j
  PROVE  /\ \A v \in {"pending", "matched", "cancelled"} :
              [rcvd EXCEPT ![q][j].fate = v] \in [Proc -> Seq(RecvRec)]
         /\ \A m \in Proc \X Nat :
              [rcvd EXCEPT ![q][j].fate = "matched", ![q][j].msg = m]
                \in [Proc -> Seq(RecvRec)]
<1>1. ASSUME NEW v \in {"pending", "matched", "cancelled"}
      PROVE  [rcvd EXCEPT ![q][j].fate = v] \in [Proc -> Seq(RecvRec)]
  <2>1. CASE q \in Proc
    <3>1. rcvd[q] \in Seq(RecvRec)
      BY <2>1
    <3>2. j \in 1 .. Len(rcvd[q]) => rcvd[q][j] \in RecvRec
      BY <3>1, ElementOfSeq
    <3>3. j \in 1 .. Len(rcvd[q]) => [rcvd[q][j] EXCEPT !.fate = v] \in RecvRec
      BY <3>2 DEF RecvRec
    <3>4. [rcvd[q] EXCEPT ![j] = [rcvd[q][j] EXCEPT !.fate = v]] \in Seq(RecvRec)
      BY <3>1, <3>3, ExceptKeepsSeq
    <3> QED
      BY <2>1, <3>4
  <2>2. CASE q \notin Proc
    BY <2>2
  <2> QED
    BY <2>1, <2>2
<1>2. ASSUME NEW m \in Proc \X Nat
      PROVE  [rcvd EXCEPT ![q][j].fate = "matched", ![q][j].msg = m]
               \in [Proc -> Seq(RecvRec)]
  <2> DEFINE f == [rcvd EXCEPT ![q][j].fate = "matched"]
  <2>1. f \in [Proc -> Seq(RecvRec)]
    BY <1>1
  <2>2. [f EXCEPT ![q][j].msg = m] \in [Proc -> Seq(RecvRec)]
    <3> HIDE DEF f
    <3>1. CASE q \in Proc
      <4>1. f[q] \in Seq(RecvRec)
        BY <2>1, <3>1
      <4>2. j \in 1 .. Len(f[q]) => f[q][j] \in RecvRec
        BY <4>1, ElementOfSeq
      <4>3. j \in 1 .. Len(f[q]) => [f[q][j] EXCEPT !.msg = m] \in RecvRec
        BY <4>2 DEF RecvRec
      <4>4. [f[q] EXCEPT ![j] = [f[q][j] EXCEPT !.msg = m]] \in Seq(RecvRec)
        BY <4>1, <4>3, ExceptKeepsSeq
      <4> QED
        BY <2>1, <3>1, <4>4
    <3>2. CASE q \notin Proc
      BY <2>1, <3>2
    <3> QED
      BY <3>1, <3>2
  <2>3. [rcvd EXCEPT ![q][j].fate = "matched", ![q][j].msg = m]
          = [f EXCEPT ![q][j].msg = m]
    OBVIOUS
  <2> QED
    BY <2>2, <2>3
<1> QED
  BY <1>1, <1>2

LEMMA MarkMatchedType ==
  ASSUME sent \in [Proc -> Seq(SendRec)], rcvd \in [Proc -> Seq(RecvRec)],
         NEW p \in Proc, NEW i \in Nat, NEW q, NEW j, MarkMatched(p, i, q, j)
  PROVE  sent' \in [Proc -> Seq(SendRec)] /\ rcvd' \in [Proc -> Seq(RecvRec)]
<1>1. <<p, i>> \in Proc \X Nat
  OBVIOUS
<1> QED
  BY <1>1, SentType, RcvdType DEF MarkMatched

LEMMA RecordSendType ==
  ASSUME sent \in [Proc -> Seq(SendRec)], NEW p \in Proc, NEW q \in Proc,
         NEW t \in Tag, NEW mode \in Mode, NEW fate \in {"pending", "matched"}
  PROVE  [sent EXCEPT ![p] = RecordSend(p, q, t, mode, fate, @)]
           \in [Proc -> Seq(SendRec)]
<1> DEFINE r == [dst |-> q, tag |-> t, asked |-> FALSE, fate |-> fate,
                 mode |-> mode, outcome |-> "active"]
<1>1. r \in SendRec
  BY DEF SendRec
<1>2. [sent EXCEPT ![p] = Append(@, r)] \in [Proc -> Seq(SendRec)]
  BY <1>1, AppendAt
<1> QED
  BY <1>2 DEF RecordSend

LEMMA RecordRecvType ==
  ASSUME rcvd \in [Proc -> Seq(RecvRec)], NEW p \in Proc, NEW f \in Filters,
         NEW fate \in {"pending", "matched"}, NEW m \in (Proc \X Nat) \cup {None}
  PROVE  [rcvd EXCEPT ![p] = RecordRecv(f, fate, m, @)] \in [Proc -> Seq(RecvRec)]
<1> DEFINE r == [rank |-> f.rank, tag |-> f.tag, fate |-> fate, msg |-> m]
<1>1. r \in RecvRec
  BY FilterAssumption DEF RecvRec
<1>2. [rcvd EXCEPT ![p] = Append(@, r)] \in [Proc -> Seq(RecvRec)]
  BY <1>1, AppendAt
<1> QED
  BY <1>2 DEF RecordRecv

-----------------------------------------------------------------------------
(***************************************************************************)
(* Each action keeps the types.                                            *)
(***************************************************************************)
LEMMA IsendType ==
  ASSUME TypeOK, NEW p \in Proc, NEW q \in Proc, NEW t \in Tag, NEW mode \in Mode,
         NEW size \in Size, NEW h \in Handle, Isend(p, q, t, mode, size, h)
  PROVE  TypeOK'
<1> DEFINE r == NewSreq(p, h, q, t, mode, size)
<1>0. /\ req \in [Proc -> [Handle -> Request]] /\ sent \in [Proc -> Seq(SendRec)]
      /\ sendq \in [Proc -> [Proc -> Seq(Packet)]]
  BY DEF TypeOK
<1>1. /\ r \in Request
      /\ r.type = mode
      /\ r.tag = t
      /\ r.size = size
      /\ r.id \in Nat
  <2>1. r \in Request
    BY <1>0, NewSreqType, Zenon
  <2> QED
    BY <2>1, NewSreqShape, RequestFields
<1>2. sent' \in [Proc -> Seq(SendRec)]
  BY <1>0, RecordSendType DEF Isend
<1> HIDE DEF r
<1>3. /\ req' \in [Proc -> [Handle -> Request]]
      /\ sendq' \in [Proc -> [Proc -> Seq(Packet)]]
      /\ call' \in [Proc -> Handle \cup {None}]
  <2>1. CASE SendEager(p, q, h, r)
    <3>1. AddRef([r EXCEPT !.msgType = "EAGER"]) \in Request
      BY <1>1, FieldType, CountersType
    <3>2. Envelope(EagerPacketType(r.type), h, r) \in Packet
      BY <1>1, ModeAssumption, SizeAssumption
      DEF Envelope, EagerPacketType, EagerTypes, Packet
    <3>3. req' \in [Proc -> [Handle -> Request]]
      BY <1>0, <2>1, <3>1, SetRequest DEF SendEager
    <3>4. sendq' \in [Proc -> [Proc -> Seq(Packet)]]
      BY <1>0, <2>1, <3>2, SendPacketType DEF SendEager
    <3> QED
      BY <2>1, <3>3, <3>4 DEF SendEager, TypeOK
  <2>2. CASE SendRndv(p, q, h, r)
    <3>1. AddRef([r EXCEPT !.msgType = "RNDV"]) \in Request
      BY <1>1, FieldType, CountersType
    <3>2. Envelope("RTS", h, r) \in Packet
      BY <1>1, SizeAssumption DEF Envelope, EagerTypes, Packet
    <3>3. req' \in [Proc -> [Handle -> Request]]
      BY <1>0, <2>2, <3>1, SetRequest DEF SendRndv
    <3>4. sendq' \in [Proc -> [Proc -> Seq(Packet)]]
      BY <1>0, <2>2, <3>2, SendPacketType DEF SendRndv
    <3> QED
      BY <2>2, <3>3, <3>4 DEF SendRndv, TypeOK
  <2> QED
    BY <2>1, <2>2 DEF Isend, r
<1> QED
  BY <1>2, <1>3 DEF Isend, TypeOK, queues

LEMMA FinishCallType ==
  ASSUME TypeOK, NEW p \in Proc, FinishCall(p)
  PROVE  TypeOK'
<1>1. req \in [Proc -> [Handle -> Request]] /\ call[p] \in Handle
  BY DEF TypeOK, FinishCall
<1>2. PostponeCompletion(AddRef(req[p][call[p]])) \in Request
  BY <1>1, CountersType
<1>3. req' \in [Proc -> [Handle -> Request]]
  BY <1>1, <1>2, SetRequest DEF FinishCall
<1> QED
  BY <1>3 DEF FinishCall, TypeOK, queues, net, history

LEMMA IsendSelfFoundType ==
  ASSUME TypeOK, NEW p \in Proc, NEW t \in Tag, NEW mode \in Mode,
         NEW size \in Size, NEW h \in Handle, NEW i \in 1 .. Len(posted[p]),
         IsendSelfFound(p, t, mode, size, h, i)
  PROVE  TypeOK'
<1> DEFINE e == posted[p][i]
           s == [NewSreq(p, h, p, t, mode, size) EXCEPT !.msgType = "SELF"]
           r == [req[p][e.rreq] EXCEPT !.delivered = TRUE]
<1>0. /\ req \in [Proc -> [Handle -> Request]] /\ sent \in [Proc -> Seq(SendRec)]
      /\ rcvd \in [Proc -> Seq(RecvRec)] /\ posted \in [Proc -> Seq(Posting)]
  BY DEF TypeOK
<1>1. e.rreq \in Handle
  <2>1. e \in Posting
    BY <1>0, ElementOfSeq
  <2> QED
    BY <2>1 DEF Posting
<1>2. SignalCompletion(s) \in Request
  <2>1. NewSreq(p, h, p, t, mode, size) \in Request
    BY <1>0, NewSreqType, Zenon
  <2>2. s \in Request
    BY <2>1, FieldType
  <2> HIDE DEF s
  <2> QED
    BY <2>2, CountersType
<1>3. Release(SignalCompletion(r)) \in Request
  <2>1. req[p][e.rreq] \in Request
    BY <1>0, <1>1
  <2>2. r \in Request
    BY <2>1, FieldType
  <2> HIDE DEF r
  <2> QED
    BY <2>2, CountersType
<1>4. req' \in [Proc -> [Handle -> Request]]
  BY <1>0, <1>2, <1>3, SetTwoRequests DEF IsendSelfFound
<1>5. sent' \in [Proc -> Seq(SendRec)]
  BY <1>0, RecordSendType DEF IsendSelfFound
<1>6. <<p, Len(sent[p]) + 1>> \in Proc \X Nat
  BY <1>0, LenProperties
<1>7. rcvd' \in [Proc -> Seq(RecvRec)]
  BY <1>0, <1>6, RcvdType DEF IsendSelfFound
<1>8. posted' \in [Proc -> Seq(Posting)]
  BY <1>0, RemoveFrom DEF IsendSelfFound
<1> QED
  BY <1>4, <1>5, <1>7, <1>8 DEF IsendSelfFound, TypeOK, net

LEMMA IsendSelfUnexpectedType ==
  ASSUME TypeOK, NEW p \in Proc, NEW t \in Tag, NEW mode \in Mode,
         NEW size \in Size, NEW h \in Handle, NEW g \in Handle,
         IsendSelfUnexpected(p, t, mode, size, h, g)
  PROVE  TypeOK'
<1> DEFINE s == [NewSreq(p, h, p, t, mode, size) EXCEPT !.msgType = "SELF"]
           ready == mode = "RSEND"
           other == IF ready THEN None ELSE h
           a == NewRequest(req[p][g], "RECV")
           b == [a EXCEPT !.msgType = "SELF"]
           c == [b EXCEPT !.rank = p]
           d == [c EXCEPT !.tag = t]
           e == [d EXCEPT !.size = size]
           f == [e EXCEPT !.partner = other]
           k == [f EXCEPT !.senderReq = other]
           r == [k EXCEPT !.error = ready]
           arrival == [rreq |-> g, rank |-> p, tag |-> t, sreq |-> other, id |-> s.id]
<1>0. /\ req \in [Proc -> [Handle -> Request]] /\ sent \in [Proc -> Seq(SendRec)]
      /\ unexpected \in [Proc -> Seq(Arrival)]
      /\ size \in {"zero", "eager", "rndv"}
  BY SizeAssumption DEF TypeOK
<1>1. s \in Request /\ s.id \in Nat
  <2>1. NewSreq(p, h, p, t, mode, size) \in Request
    BY <1>0, NewSreqType, Zenon
  <2>2. s \in Request
    BY <2>1, FieldType
  <2> HIDE DEF s
  <2> QED
    BY <2>2, RequestFields
<1>2. SelfSend(s) \in Request
  <2> HIDE DEF s
  <2> QED
    BY <1>1, FieldType, CountersType DEF SelfSend
<1>3. r \in Request
  <2>1. b \in Request
    BY <1>0, NewRequestType, FieldType
  <2>2. c \in Request
    <3> HIDE DEF b
    <3>1. p \in Proc \cup {None}
      OBVIOUS
    <3> QED
      BY <2>1, <3>1, FieldType, Zenon
  <2>3. d \in Request
    <3> HIDE DEF c
    <3>1. t \in Tag \cup {None}
      OBVIOUS
    <3> QED
      BY <2>2, <3>1, FieldType, Zenon
  <2>4. e \in Request
    <3> HIDE DEF d
    <3> QED
      BY <1>0, <2>3, FieldType, Zenon
  <2>5. other \in Handle \cup {None}
    OBVIOUS
  <2>6. f \in Request
    <3> HIDE DEF e, other
    <3> QED
      BY <2>4, <2>5, FieldType, Zenon
  <2>7. k \in Request
    <3> HIDE DEF f, other
    <3> QED
      BY <2>5, <2>6, FieldType, Zenon
  <2>8. ready \in BOOLEAN
    OBVIOUS
  <2> HIDE DEF k, ready
  <2> QED
    BY <2>7, <2>8, FieldType, Zenon
<1>4. Release(AddRef(r)) \in Request
  <2> HIDE DEF r
  <2> QED
    BY <1>3, CountersType
<1>5. req' = [req EXCEPT ![p] = [@ EXCEPT ![h] = SelfSend(s), ![g] = Release(AddRef(r))]]
  BY DEF IsendSelfUnexpected
<1>6. req' \in [Proc -> [Handle -> Request]]
  <2> HIDE DEF s, r
  <2> QED
    BY <1>0, <1>2, <1>4, <1>5, SetTwoRequests
<1>7. arrival \in Arrival
  <2> HIDE DEF s
  <2> QED
    BY <1>1 DEF Arrival
<1>8. unexpected' = [unexpected EXCEPT ![p] = Append(@, arrival)]
  BY DEF IsendSelfUnexpected
<1>9. unexpected' \in [Proc -> Seq(Arrival)]
  <2> HIDE DEF arrival
  <2> QED
    BY <1>0, <1>7, <1>8, AppendAt
<1>10. sent' \in [Proc -> Seq(SendRec)]
  BY <1>0, RecordSendType DEF IsendSelfUnexpected
<1> QED
  BY <1>6, <1>9, <1>10 DEF IsendSelfUnexpected, TypeOK, net

LEMMA RecvPostType ==
  ASSUME TypeOK, NEW p \in Proc, NEW f \in Filters, NEW h \in Handle,
         RecvPost(p, f, h)
  PROVE  TypeOK'
<1> DEFINE j == Len(rcvd[p]) + 1
           a == NewRequest(req[p][h], "RECV")
           b == [a EXCEPT !.pending = 1]
           r == [b EXCEPT !.id = j]
           posting == [rreq |-> h, rank |-> f.rank, tag |-> f.tag, id |-> j]
<1>0. /\ req \in [Proc -> [Handle -> Request]] /\ posted \in [Proc -> Seq(Posting)]
      /\ rcvd \in [Proc -> Seq(RecvRec)]
      /\ 1 \in Int /\ j \in Nat
  BY LenProperties DEF TypeOK
<1>1. AddRef(r) \in Request
  <2>1. a \in Request
    BY <1>0, NewRequestType
  <2>2. b \in Request
    <3> HIDE DEF a
    <3> QED
      BY <1>0, <2>1, FieldType, Zenon
  <2>3. r \in Request
    <3> HIDE DEF b, j
    <3> QED
      BY <1>0, <2>2, FieldType, Zenon
  <2> HIDE DEF r
  <2> QED
    BY <2>3, CountersType
<1>2. req' = [req EXCEPT ![p][h] = AddRef(r)]
  BY DEF RecvPost
<1>3. req' \in [Proc -> [Handle -> Request]]
  <2> HIDE DEF r
  <2> QED
    BY <1>0, <1>1, <1>2, SetRequest
<1>4. posting \in Posting
  BY <1>0, FilterAssumption DEF Posting
<1>5. posted' \in [Proc -> Seq(Posting)]
  BY <1>0, <1>4, AppendAt DEF RecvPost
<1>6. rcvd' \in [Proc -> Seq(RecvRec)]
  BY <1>0, RecordRecvType DEF RecvPost
<1> QED
  BY <1>3, <1>5, <1>6 DEF RecvPost, TypeOK, net

(* Answers to the sender, whose handle the receive request remembers.      *)
LEMMA HandleRecvMsgTypeType ==
  ASSUME TypeOK, NEW p \in Proc, NEW h \in Handle, NEW r \in Request,
         HandleRecvMsgType(p, h, r)
  PROVE  /\ req' \in [Proc -> [Handle -> Request]]
         /\ sendq' \in [Proc -> [Proc -> Seq(Packet)]]
<1>0. /\ req \in [Proc -> [Handle -> Request]]
      /\ sendq \in [Proc -> [Proc -> Seq(Packet)]]
  BY DEF TypeOK
<1>1. /\ r.pending - 1 \in Int /\ r.senderReq \in Handle \cup {None}
      /\ r.partner \in Handle \cup {None}
  BY RequestFields
<1>2. CASE TakeEager(p, h, r)
  <2> DEFINE here == Unpacked(r)
             a == [r EXCEPT !.pending = r.pending - 1]
             b == [a EXCEPT !.delivered = here]
             ack == [type |-> "SYNC_ACK", sreq |-> r.senderReq]
  <2>1. a \in Request
    BY <1>1, FieldType, Zenon
  <2>2. b \in Request
    <3>1. here \in BOOLEAN
      BY RequestFields
    <3> HIDE DEF a, here
    <3> QED
      BY <2>1, <3>1, FieldType, Zenon
  <2>3. req' = [req EXCEPT ![p][h] = b]
    BY <1>2 DEF TakeEager
  <2>4. req' \in [Proc -> [Handle -> Request]]
    <3> HIDE DEF b
    <3> QED
      BY <1>0, <2>2, <2>3, SetRequest
  <2>5. ack \in Packet
    BY <1>1 DEF Packet
  <2>6. sendq' \in [Proc -> [Proc -> Seq(Packet)]]
    BY <1>0, <1>2, <2>5, SendPacketType DEF TakeEager
  <2> QED
    BY <2>4, <2>6
<1>3. CASE TakeRndv(p, h, r)
  <2>1. AddRef(r) \in Request
    BY CountersType
  <2>2. [type |-> "CTS", sreq |-> r.senderReq, rreq |-> h] \in Packet
    BY <1>1 DEF Packet
  <2> QED
    BY <1>0, <1>3, <2>1, <2>2, SetRequest, SendPacketType DEF TakeRndv
<1>4. CASE TakeSelf(p, h, r)
  <2>1. SignalCompletion(r) \in Request
    BY CountersType
  <2>2. CASE r.partner # None
    <3> DEFINE d == [r EXCEPT !.delivered = TRUE]
               c1 == SignalCompletion(req[p][r.partner])
               c2 == SignalCompletion(d)
    <3>1. c1 \in Request
      BY <1>0, <1>1, <2>2, CountersType
    <3>2. c2 \in Request
      <4>1. d \in Request
        BY FieldType
      <4> HIDE DEF d
      <4> QED
        BY <4>1, CountersType
    <3>3. req' = [req EXCEPT ![p] = [req[p] EXCEPT ![r.partner] = c1, ![h] = c2]]
      BY <1>4, <2>2, Zenon DEF TakeSelf
    <3>4. req' \in [Proc -> [Handle -> Request]]
      <4> HIDE DEF c1, c2
      <4> QED
        BY <1>0, <3>1, <3>2, <3>3, SetTwoRequests
    <3> QED
      BY <1>0, <1>4, <3>4 DEF TakeSelf
  <2>3. CASE r.partner = None
    <3>1. req' = [req EXCEPT ![p][h] = SignalCompletion(r)]
      BY <1>4, <2>3 DEF TakeSelf
    <3>2. req' \in [Proc -> [Handle -> Request]]
      BY <1>0, <2>1, <3>1, SetRequest
    <3> QED
      BY <1>0, <1>4, <3>2 DEF TakeSelf
  <2> QED
    BY <2>2, <2>3
<1> QED
  BY <1>2, <1>3, <1>4 DEF HandleRecvMsgType

LEMMA DequeueForType ==
  ASSUME TypeOK, NEW p \in Proc, NEW f \in Filters,
         NEW i \in 1 .. Len(unexpected[p]), DequeueFor(p, f, i)
  PROVE  /\ unexpected' \in [Proc -> Seq(Arrival)]
         /\ sent' \in [Proc -> Seq(SendRec)]
         /\ rcvd' \in [Proc -> Seq(RecvRec)]
         /\ unexpected[p][i].rreq \in Handle
<1> DEFINE e == unexpected[p][i]
<1>0. /\ unexpected \in [Proc -> Seq(Arrival)] /\ sent \in [Proc -> Seq(SendRec)]
      /\ rcvd \in [Proc -> Seq(RecvRec)]
  BY DEF TypeOK
<1>1. e \in Arrival
  BY <1>0, ElementOfSeq
<1>2. e.rreq \in Handle /\ <<e.rank, e.id>> \in (Proc \X Nat) \cup {None}
  BY <1>1 DEF Arrival
<1>3. unexpected' \in [Proc -> Seq(Arrival)]
  BY <1>0, RemoveFrom DEF DequeueFor
<1>4. sent' \in [Proc -> Seq(SendRec)]
  BY <1>0, SentType DEF DequeueFor
<1>5. rcvd' \in [Proc -> Seq(RecvRec)]
  BY <1>0, <1>2, RecordRecvType DEF DequeueFor
<1> QED
  BY <1>2, <1>3, <1>4, <1>5

LEMMA RecvFoundType ==
  ASSUME TypeOK, NEW p \in Proc, NEW f \in Filters,
         NEW i \in 1 .. Len(unexpected[p]), RecvFound(p, f, i)
  PROVE  TypeOK'
<1> DEFINE h == unexpected[p][i].rreq
           r == [req[p][h] EXCEPT !.id = Len(rcvd[p]) + 1]
<1>1. /\ unexpected' \in [Proc -> Seq(Arrival)]
      /\ sent' \in [Proc -> Seq(SendRec)]
      /\ rcvd' \in [Proc -> Seq(RecvRec)]
      /\ h \in Handle
  BY DequeueForType DEF RecvFound
<1>2. r \in Request
  <2>1. req[p][h] \in Request /\ Len(rcvd[p]) + 1 \in Nat
    BY <1>1, LenProperties DEF TypeOK
  <2> QED
    BY <2>1, FieldType
<1>3. HandleRecvMsgType(p, h, r)
  BY DEF RecvFound
<1>4. user' \in [Proc -> [Handle -> {"none", "request", "message"}]]
  BY DEF RecvFound, TypeOK
<1>5. /\ req' \in [Proc -> [Handle -> Request]]
      /\ sendq' \in [Proc -> [Proc -> Seq(Packet)]]
  <2> HIDE DEF r, h
  <2> QED
    BY <1>1, <1>2, <1>3, HandleRecvMsgTypeType
<1> QED
  BY <1>1, <1>4, <1>5 DEF RecvFound, TypeOK

LEMMA ImprobeType ==
  ASSUME TypeOK, NEW p \in Proc, NEW f \in Filters,
         NEW i \in 1 .. Len(unexpected[p]), Improbe(p, f, i)
  PROVE  TypeOK'
<1> DEFINE h == unexpected[p][i].rreq
           r == [req[p][h] EXCEPT !.id = Len(rcvd[p]) + 1]
<1>1. /\ unexpected' \in [Proc -> Seq(Arrival)]
      /\ sent' \in [Proc -> Seq(SendRec)]
      /\ rcvd' \in [Proc -> Seq(RecvRec)]
      /\ h \in Handle
  BY DequeueForType DEF Improbe
<1>2. r \in Request
  <2>1. req[p][h] \in Request /\ Len(rcvd[p]) + 1 \in Nat
    BY <1>1, LenProperties DEF TypeOK
  <2> QED
    BY <2>1, FieldType
<1>3. req' = [req EXCEPT ![p][h] = r]
  BY DEF Improbe
<1>4. req' \in [Proc -> [Handle -> Request]]
  <2> HIDE DEF r
  <2> QED
    BY <1>2, <1>3, SetRequest DEF TypeOK
<1>5. user' \in [Proc -> [Handle -> {"none", "request", "message"}]]
  BY DEF Improbe, TypeOK
<1> QED
  BY <1>1, <1>4, <1>5 DEF Improbe, TypeOK, net

LEMMA ImrecvType ==
  ASSUME TypeOK, NEW p \in Proc, NEW h \in Handle, Imrecv(p, h)
  PROVE  TypeOK'
<1>1. req[p][h] \in Request
  BY DEF TypeOK
<1>2. /\ req' \in [Proc -> [Handle -> Request]]
      /\ sendq' \in [Proc -> [Proc -> Seq(Packet)]]
  BY <1>1, HandleRecvMsgTypeType DEF Imrecv
<1> QED
  BY <1>2 DEF Imrecv, TypeOK, queues, history

LEMMA DropHandleType ==
  ASSUME TypeOK, NEW p \in Proc, NEW h \in Handle, DropHandle(p, h),
         sent' \in [Proc -> Seq(SendRec)]
  PROVE  TypeOK'
<1>1. Release(req[p][h]) \in Request
  BY CountersType DEF TypeOK
<1>2. req' \in [Proc -> [Handle -> Request]]
  BY <1>1, SetRequest DEF DropHandle, TypeOK
<1>3. user' \in [Proc -> [Handle -> {"none", "request", "message"}]]
  BY DEF DropHandle, TypeOK
<1> QED
  BY <1>2, <1>3 DEF DropHandle, TypeOK, queues, net

LEMMA WaitType ==
  ASSUME TypeOK, NEW p \in Proc, NEW h \in Handle, Wait(p, h)
  PROVE  TypeOK'
<1> DEFINE v == IF req[p][h].cancelled THEN "cancelled" ELSE "done"
<1>1. /\ sent \in [Proc -> Seq(SendRec)]
      /\ v \in {"active", "done", "cancelled", "freed"}
  BY DEF TypeOK
<1>2. \/ sent' = [sent EXCEPT ![p][req[p][h].id].outcome = v]
      \/ sent' = sent
  BY DEF Wait
<1>3. sent' \in [Proc -> Seq(SendRec)]
  <2> HIDE DEF v
  <2>1. [sent EXCEPT ![p][req[p][h].id].outcome = v] \in [Proc -> Seq(SendRec)]
    BY <1>1, SentType, Zenon
  <2> QED
    BY <1>1, <1>2, <2>1, Zenon
<1> QED
  BY <1>3, DropHandleType DEF Wait

LEMMA RequestFreeType ==
  ASSUME TypeOK, NEW p \in Proc, NEW h \in Handle, RequestFree(p, h)
  PROVE  TypeOK'
<1>1. \/ sent' = [sent EXCEPT ![p][req[p][h].id].outcome = "freed"]
      \/ sent' = sent
  BY DEF RequestFree
<1>2. sent' \in [Proc -> Seq(SendRec)]
  <2>1. sent \in [Proc -> Seq(SendRec)]
    BY DEF TypeOK
  <2>2. [sent EXCEPT ![p][req[p][h].id].outcome = "freed"] \in [Proc -> Seq(SendRec)]
    BY <2>1, SentType
  <2> QED
    BY <1>1, <2>1, <2>2, Zenon
<1> QED
  BY <1>2, DropHandleType DEF RequestFree

LEMMA CancelRecvType ==
  ASSUME TypeOK, NEW p \in Proc, NEW i \in 1 .. Len(posted[p]), CancelRecv(p, i)
  PROVE  TypeOK'
<1> DEFINE h == posted[p][i].rreq
           r == [req[p][h] EXCEPT !.cancelled = TRUE]
           d == Release(SignalCompletion(r))
<1>1. h \in Handle
  <2>1. posted[p][i] \in Posting
    BY ElementOfSeq DEF TypeOK
  <2> QED
    BY <2>1 DEF Posting
<1>2. d \in Request
  <2>1. req[p][h] \in Request
    BY <1>1 DEF TypeOK
  <2>2. r \in Request
    BY <2>1, FieldType
  <2> HIDE DEF r
  <2> QED
    BY <2>2, CountersType
<1>3. req' = [req EXCEPT ![p][h] = d]
  BY DEF CancelRecv
<1>4. req' \in [Proc -> [Handle -> Request]]
  <2> HIDE DEF d, h
  <2> QED
    BY <1>2, <1>3, SetRequest DEF TypeOK
<1>5. posted' \in [Proc -> Seq(Posting)]
  BY RemoveFrom DEF CancelRecv, TypeOK
<1>6. rcvd' \in [Proc -> Seq(RecvRec)]
  BY RcvdType DEF CancelRecv, TypeOK
<1> QED
  BY <1>4, <1>5, <1>6 DEF CancelRecv, TypeOK, net

LEMMA CancelSendType ==
  ASSUME TypeOK, NEW p \in Proc, NEW h \in Handle, CancelSend(p, h)
  PROVE  TypeOK'
<1> DEFINE r == req[p][h]
           d == [r EXCEPT !.cancelPending = TRUE]
           ask == [type |-> "CANCEL_SEND_REQ", sreq |-> h, tag |-> r.tag]
<1>1. r \in Request
  BY DEF TypeOK
<1>2. d \in Request /\ ask \in Packet
  <2> HIDE DEF r
  <2> QED
    BY <1>1, FieldType, RequestFields DEF Packet
<1>3. req' \in [Proc -> [Handle -> Request]]
  <2>1. req' = [req EXCEPT ![p][h] = d]
    BY DEF CancelSend
  <2> HIDE DEF d
  <2> QED
    BY <1>2, <2>1, SetRequest DEF TypeOK
<1>4. sendq' \in [Proc -> [Proc -> Seq(Packet)]]
  BY <1>2, SendPacketType DEF CancelSend, TypeOK
<1>5. sent' \in [Proc -> Seq(SendRec)]
  BY SentType DEF CancelSend, TypeOK
<1>6. call' \in [Proc -> Handle \cup {None}]
  BY DEF CancelSend, TypeOK
<1> QED
  BY <1>3, <1>4, <1>5, <1>6 DEF CancelSend, TypeOK, queues

LEMMA SelfVerdictType ==
  ASSUME NEW s \in Request, NEW found \in BOOLEAN
  PROVE  SelfVerdict(s, found) \in Request
<1> DEFINE a == [s EXCEPT !.cancelled = found]
           b == [a EXCEPT !.cancelPending = TRUE]
<1>1. a \in Request
  BY FieldType, Zenon
<1>2. b \in Request
  <2> HIDE DEF a
  <2> QED
    BY <1>1, FieldType
<1>3. SelfVerdict(s, found) = IF found THEN SignalCompletion(b) ELSE b
  BY DEF SelfVerdict
<1> HIDE DEF b
<1> QED
  BY <1>2, <1>3, CountersType

LEMMA CancelSelfFoundType ==
  ASSUME TypeOK, NEW p \in Proc, NEW h \in Handle,
         NEW i \in 1 .. Len(unexpected[p]), CancelSelfFound(p, h, i)
  PROVE  TypeOK'
<1> DEFINE s == req[p][h]
           g == unexpected[p][i].rreq
           c1 == Release(req[p][g])
           c2 == SelfVerdict(s, TRUE)
<1>1. g \in Handle
  <2>1. unexpected[p][i] \in Arrival
    BY ElementOfSeq DEF TypeOK
  <2> QED
    BY <2>1 DEF Arrival
<1>2. c1 \in Request /\ c2 \in Request
  BY <1>1, CountersType, SelfVerdictType DEF TypeOK
<1>3. req' = [req EXCEPT ![p] = [req[p] EXCEPT ![g] = c1, ![h] = c2]]
  BY DEF CancelSelfFound
<1>4. req' \in [Proc -> [Handle -> Request]]
  <2> HIDE DEF c1, c2, g
  <2> QED
    BY <1>2, <1>3, SetTwoRequests DEF TypeOK
<1>5. unexpected' \in [Proc -> Seq(Arrival)]
  BY RemoveFrom DEF CancelSelfFound, TypeOK
<1>6. sent' \in [Proc -> Seq(SendRec)]
  BY SentTypeTwice DEF CancelSelfFound, TypeOK
<1> QED
  BY <1>4, <1>5, <1>6 DEF CancelSelfFound, TypeOK, net

LEMMA CancelSelfMissedType ==
  ASSUME TypeOK, NEW p \in Proc, NEW h \in Handle, CancelSelfMissed(p, h)
  PROVE  TypeOK'
<1> DEFINE s == req[p][h]
<1>1. SelfVerdict(s, FALSE) \in Request
  BY SelfVerdictType DEF TypeOK
<1>2. req' = [req EXCEPT ![p][h] = SelfVerdict(s, FALSE)]
  BY DEF CancelSelfMissed
<1>3. req' \in [Proc -> [Handle -> Request]]
  BY <1>1, <1>2, SetRequest DEF TypeOK
<1>4. sent' \in [Proc -> Seq(SendRec)]
  BY SentType DEF CancelSelfMissed, TypeOK
<1> QED
  BY <1>3, <1>4 DEF CancelSelfMissed, TypeOK, queues, net

-----------------------------------------------------------------------------
(* What the handlers may assume of a packet, by its type.                  *)
LEMMA PacketFields ==
  ASSUME NEW k \in Packet
  PROVE  /\ k.type \in EagerTypes \cup {"RTS"} =>
              /\ k.sreq \in Handle /\ k.tag \in Tag /\ k.id \in Nat
              /\ k.size \in {"zero", "eager", "rndv"}
         /\ k.type \in {"CTS", "RNDV_SEND"} =>
              k.sreq \in Handle \cup {None} /\ k.rreq \in Handle
         /\ k.type \in {"CANCEL_SEND_REQ", "CANCEL_SEND_RESP"} => k.sreq \in Handle
         /\ k.type = "CANCEL_SEND_RESP" => k.ack \in BOOLEAN
BY DEF Packet, EagerTypes

LEMMA WriteType ==
  ASSUME TypeOK, NEW p \in Proc, NEW q \in Proc, Write(p, q)
  PROVE  TypeOK'
<1> DEFINE k == Head(sendq[p][q])
<1>1. sendq[p][q] \in Seq(Packet) /\ sendq[p][q] # <<>>
  BY DEF TypeOK, Write
<1>2. k \in Packet /\ Tail(sendq[p][q]) \in Seq(Packet)
  BY <1>1, HeadTailProperties
<1>3. Append(wire[p][q], k) \in Seq(Packet)
  <2> HIDE DEF k
  <2> QED
    BY <1>2, AppendProperties DEF TypeOK
<1>4. wire' \in [Proc -> [Proc -> Seq(Packet)]]
  <2>1. wire' = [wire EXCEPT ![p][q] = Append(wire[p][q], k)]
    BY DEF Write
  <2> QED
    BY <1>3, <2>1 DEF TypeOK
<1>5. sendq' \in [Proc -> [Proc -> Seq(Packet)]]
  BY <1>2 DEF Write, TypeOK
<1>6. req' \in [Proc -> [Handle -> Request]]
  <2> DEFINE d == Release(SignalCompletion(req[p][k.sreq]))
  <2>1. k.sreq \in Handle => d \in Request
    BY CountersType DEF TypeOK
  <2>2. req' = [req EXCEPT ![p][k.sreq] = d] \/ req' = req
    BY DEF Write
  <2> HIDE DEF d, k
  <2>3. req \in [Proc -> [Handle -> Request]]
    BY DEF TypeOK
  <2>4. [req EXCEPT ![p][k.sreq] = d] \in [Proc -> [Handle -> Request]]
    BY <2>1, <2>3, SetRequest
  <2> QED
    BY <2>2, <2>3, <2>4, Zenon
<1> QED
  BY <1>4, <1>5, <1>6 DEF Write, TypeOK, queues, history

LEMMA PayloadArrivesType ==
  ASSUME TypeOK, NEW p \in Proc, NEW q \in Proc, PayloadArrives(q, p)
  PROVE  TypeOK'
<1> DEFINE h == reading[q][p]
           r == req[q][h]
           now == r.pending = 1
           a == [r EXCEPT !.pending = r.pending - 1]
           b == [a EXCEPT !.delivered = now]
           c == [r EXCEPT !.delivered = r.delivered \/ ~r.error]
           d == IF r.onUe THEN b ELSE c
<1>1. r \in Request
  BY DEF PayloadArrives, TypeOK
<1>2. b \in Request
  <2>1. r.pending - 1 \in Int /\ now \in BOOLEAN
    BY <1>1, RequestFields
  <2>2. a \in Request
    <3> HIDE DEF r
    <3> QED
      BY <1>1, <2>1, FieldType, Zenon
  <2> HIDE DEF a, now
  <2> QED
    BY <2>1, <2>2, FieldType, Zenon
<1>3. c \in Request
  <2> HIDE DEF r
  <2>1. (r.delivered \/ ~r.error) \in BOOLEAN
    <3>1. r.error \in BOOLEAN /\ r.delivered \in BOOLEAN
      BY <1>1, RequestFields
    <3> QED
      BY <3>1
  <2> QED
    BY <1>1, <2>1, FieldType, Zenon
<1>4. Release(SignalCompletion(d)) \in Request
  <2>1. d \in Request
    BY <1>2, <1>3
  <2> HIDE DEF d
  <2> QED
    BY <2>1, CountersType
<1>5. req' = [req EXCEPT ![q][h] = Release(SignalCompletion(d))]
  BY DEF PayloadArrives
<1>6. req' \in [Proc -> [Handle -> Request]]
  <2> HIDE DEF d, h
  <2> QED
    BY <1>4, <1>5, SetRequest DEF TypeOK
<1>7. reading' \in [Proc -> [Proc -> Handle \cup {None}]]
  BY DEF PayloadArrives, TypeOK
<1> QED
  BY <1>6, <1>7 DEF PayloadArrives, TypeOK, queues, history

LEMMA ReadPacketType ==
  ASSUME TypeOK, NEW q \in Proc, NEW p \in Proc, NEW k, ReadPacket(q, p, k)
  PROVE  /\ k \in Packet
         /\ wire' \in [Proc -> [Proc -> Seq(Packet)]]
<1>1. wire[p][q] \in Seq(Packet) /\ wire[p][q] # <<>>
  BY DEF TypeOK, ReadPacket
<1>2. k \in Packet /\ Tail(wire[p][q]) \in Seq(Packet)
  BY <1>1, HeadTailProperties DEF ReadPacket
<1> QED
  BY <1>2 DEF ReadPacket, TypeOK

LEMMA QueueUnexpectedType ==
  ASSUME unexpected \in [Proc -> Seq(Arrival)], NEW q \in Proc, NEW p \in Proc,
         NEW h \in Handle, NEW k, k.sreq \in Handle, k.tag \in Tag, k.id \in Nat,
         QueueUnexpected(q, p, k, h)
  PROVE  unexpected' \in [Proc -> Seq(Arrival)]
<1> DEFINE e == [rreq |-> h, rank |-> p, tag |-> k.tag, sreq |-> k.sreq, id |-> k.id]
<1>1. e \in Arrival
  BY DEF Arrival
<1>2. unexpected' = [unexpected EXCEPT ![q] = Append(@, e)]
  BY DEF QueueUnexpected
<1> HIDE DEF e
<1> QED
  BY <1>1, <1>2, AppendAt

LEMMA HandleEagerFoundType ==
  ASSUME TypeOK, NEW q \in Proc, NEW p \in Proc, NEW k, ReadPacket(q, p, k),
         NEW i \in 1 .. Len(posted[q]), HandleEagerFound(q, p, k, i)
  PROVE  TypeOK'
<1> DEFINE h == posted[q][i].rreq
           r == WithInfo(req[q][h], k, "EAGER")
           a == [r EXCEPT !.delivered = TRUE]
           d == Release(SignalCompletion(a))
           ack == [type |-> "SYNC_ACK", sreq |-> k.sreq]
<1>1. k \in Packet /\ wire' \in [Proc -> [Proc -> Seq(Packet)]]
  BY ReadPacketType
<1>2. /\ k.sreq \in Handle \cup {None} /\ k.size \in {"zero", "eager", "rndv"}
      /\ k.id \in Nat
  BY <1>1, PacketFields DEF HandleEagerFound
<1>3. h \in Handle
  <2>1. posted[q][i] \in Posting
    BY ElementOfSeq DEF TypeOK
  <2> QED
    BY <2>1 DEF Posting
<1>4. r \in Request
  BY <1>2, <1>3, WithInfoType DEF TypeOK
<1>5. d \in Request
  <2>1. a \in Request
    <3> HIDE DEF r
    <3> QED
      BY <1>4, FieldType
  <2> HIDE DEF a
  <2> QED
    BY <2>1, CountersType
<1>6. /\ req' \in [Proc -> [Handle -> Request]]
      /\ reading' \in [Proc -> [Proc -> Handle \cup {None}]]
  <2>1. \/ req' = [req EXCEPT ![q][h] = d] /\ UNCHANGED reading
        \/ /\ req' = [req EXCEPT ![q][h] = r]
           /\ reading' = [reading EXCEPT ![q][p] = h]
    BY DEF HandleEagerFound
  <2>2. /\ [req EXCEPT ![q][h] = d] \in [Proc -> [Handle -> Request]]
        /\ [req EXCEPT ![q][h] = r] \in [Proc -> [Handle -> Request]]
    <3> HIDE DEF d, r, h
    <3> QED
      BY <1>4, <1>5, SetRequest DEF TypeOK
  <2>3. [reading EXCEPT ![q][p] = h] \in [Proc -> [Proc -> Handle \cup {None}]]
    BY <1>3 DEF TypeOK
  <2> HIDE DEF d, r, h
  <2> QED
    BY <2>1, <2>2, <2>3 DEF TypeOK
<1>7. sent' \in [Proc -> Seq(SendRec)] /\ rcvd' \in [Proc -> Seq(RecvRec)]
  BY <1>2, MarkMatchedType DEF HandleEagerFound, TypeOK
<1>8. posted' \in [Proc -> Seq(Posting)]
  BY RemoveFrom DEF HandleEagerFound, TypeOK
<1>9. sendq' \in [Proc -> [Proc -> Seq(Packet)]]
  <2>1. ack \in Packet
    BY <1>2 DEF Packet
  <2> QED
    BY <2>1, SendPacketType DEF HandleEagerFound, TypeOK
<1> QED
  BY <1>1, <1>6, <1>7, <1>8, <1>9 DEF HandleEagerFound, TypeOK

LEMMA HandleEagerUnexpectedType ==
  ASSUME TypeOK, NEW q \in Proc, NEW p \in Proc, NEW k, ReadPacket(q, p, k),
         NEW h \in Handle, HandleEagerUnexpected(q, p, k, h)
  PROVE  TypeOK'
<1> DEFINE ready == k.type = "READY_SEND"
           sync == k.type = "EAGER_SYNC_SEND"
           n == NewUnexpected(q, p, k, h, "EAGER")
           a == [n EXCEPT !.error = ready]
           r == [a EXCEPT !.syncAck = sync]
           b == [r EXCEPT !.pending = 2]
           c == [b EXCEPT !.onUe = TRUE]
           d == Release(SignalCompletion(r))
           kept == IF ready THEN r ELSE c
<1>1. k \in Packet /\ wire' \in [Proc -> [Proc -> Seq(Packet)]]
  BY ReadPacketType
<1>2. /\ k.sreq \in Handle /\ k.size \in {"zero", "eager", "rndv"}
      /\ k.id \in Nat /\ k.tag \in Tag
  BY <1>1, PacketFields DEF HandleEagerUnexpected
<1>3. n \in Request
  BY <1>2, NewUnexpectedType DEF TypeOK
<1>4. ready \in BOOLEAN /\ sync \in BOOLEAN
  OBVIOUS
<1>5. a \in Request
  <2> HIDE DEF n, ready
  <2> QED
    BY <1>3, <1>4, FieldType, Zenon
<1>6. r \in Request
  <2> HIDE DEF a, sync
  <2> QED
    BY <1>4, <1>5, FieldType, Zenon
<1>7. b \in Request
  <2> HIDE DEF r
  <2>1. 2 \in Int
    OBVIOUS
  <2> QED
    BY <1>6, <2>1, FieldType, Zenon
<1>8. c \in Request
  <2> HIDE DEF b
  <2> QED
    BY <1>7, FieldType
<1>9. d \in Request
  <2> HIDE DEF r
  <2> QED
    BY <1>6, CountersType
<1>10. kept \in Request
  <2> HIDE DEF c, r, ready
  <2> QED
    BY <1>6, <1>8
<1>11. /\ req' \in [Proc -> [Handle -> Request]]
       /\ reading' \in [Proc -> [Proc -> Handle \cup {None}]]
  <2>1. \/ req' = [req EXCEPT ![q][h] = d] /\ UNCHANGED reading
        \/ /\ req' = [req EXCEPT ![q][h] = kept]
           /\ reading' = [reading EXCEPT ![q][p] = h]
    BY DEF HandleEagerUnexpected
  <2>2. /\ [req EXCEPT ![q][h] = d] \in [Proc -> [Handle -> Request]]
        /\ [req EXCEPT ![q][h] = kept] \in [Proc -> [Handle -> Request]]
    <3> HIDE DEF d, kept
    <3> QED
      BY <1>9, <1>10, SetRequest DEF TypeOK
  <2>3. [reading EXCEPT ![q][p] = h] \in [Proc -> [Proc -> Handle \cup {None}]]
    BY DEF TypeOK
  <2> HIDE DEF d, kept
  <2> QED
    BY <2>1, <2>2, <2>3, Zenon DEF TypeOK
<1>12. unexpected' \in [Proc -> Seq(Arrival)]
  BY <1>2, QueueUnexpectedType DEF HandleEagerUnexpected, TypeOK
<1> QED
  BY <1>1, <1>11, <1>12 DEF HandleEagerUnexpected, TypeOK, history

LEMMA HandleRtsFoundType ==
  ASSUME TypeOK, NEW q \in Proc, NEW p \in Proc, NEW k, ReadPacket(q, p, k),
         NEW i \in 1 .. Len(posted[q]), HandleRtsFound(q, p, k, i)
  PROVE  TypeOK'
<1> DEFINE h == posted[q][i].rreq
           r == WithInfo(req[q][h], k, "RNDV")
           d == Release(AddRef(r))
           cts == [type |-> "CTS", sreq |-> k.sreq, rreq |-> h]
<1>1. k \in Packet /\ wire' \in [Proc -> [Proc -> Seq(Packet)]]
  BY ReadPacketType
<1>2. /\ k.sreq \in Handle \cup {None} /\ k.size \in {"zero", "eager", "rndv"}
      /\ k.id \in Nat
  BY <1>1, PacketFields DEF HandleRtsFound
<1>3. h \in Handle
  <2>1. posted[q][i] \in Posting
    BY ElementOfSeq DEF TypeOK
  <2> QED
    BY <2>1 DEF Posting
<1>4. d \in Request
  <2>1. r \in Request
    BY <1>2, <1>3, WithInfoType DEF TypeOK
  <2> HIDE DEF r
  <2> QED
    BY <2>1, CountersType
<1>5. req' \in [Proc -> [Handle -> Request]]
  <2>1. req' = [req EXCEPT ![q][h] = d]
    BY DEF HandleRtsFound
  <2> HIDE DEF d, h
  <2> QED
    BY <1>4, <2>1, SetRequest DEF TypeOK
<1>6. sendq' \in [Proc -> [Proc -> Seq(Packet)]]
  <2>1. cts \in Packet
    BY <1>2, <1>3 DEF Packet
  <2> QED
    BY <2>1, SendPacketType DEF HandleRtsFound, TypeOK
<1>7. sent' \in [Proc -> Seq(SendRec)] /\ rcvd' \in [Proc -> Seq(RecvRec)]
  BY <1>2, MarkMatchedType DEF HandleRtsFound, TypeOK
<1>8. posted' \in [Proc -> Seq(Posting)]
  BY RemoveFrom DEF HandleRtsFound, TypeOK
<1> QED
  BY <1>1, <1>5, <1>6, <1>7, <1>8 DEF HandleRtsFound, TypeOK

LEMMA HandleRtsUnexpectedType ==
  ASSUME TypeOK, NEW q \in Proc, NEW p \in Proc, NEW k, ReadPacket(q, p, k),
         NEW h \in Handle, HandleRtsUnexpected(q, p, k, h)
  PROVE  TypeOK'
<1>1. k \in Packet /\ wire' \in [Proc -> [Proc -> Seq(Packet)]]
  BY ReadPacketType
<1>2. /\ k.sreq \in Handle /\ k.size \in {"zero", "eager", "rndv"}
      /\ k.id \in Nat /\ k.tag \in Tag
  BY <1>1, PacketFields DEF HandleRtsUnexpected
<1>3. Release(NewUnexpected(q, p, k, h, "RNDV")) \in Request
  BY <1>2, NewUnexpectedType, CountersType DEF TypeOK
<1>4. req' \in [Proc -> [Handle -> Request]]
  BY <1>3, SetRequest DEF HandleRtsUnexpected, TypeOK
<1>5. unexpected' \in [Proc -> Seq(Arrival)]
  BY <1>2, QueueUnexpectedType DEF HandleRtsUnexpected, TypeOK
<1> QED
  BY <1>1, <1>4, <1>5 DEF HandleRtsUnexpected, TypeOK, history

LEMMA HandleCtsType ==
  ASSUME TypeOK, NEW q \in Proc, NEW p \in Proc, NEW k, ReadPacket(q, p, k),
         HandleCts(q, p, k)
  PROVE  TypeOK'
<1> DEFINE d == Release(AddRef(req[q][k.sreq]))
           payload == [type |-> "RNDV_SEND", sreq |-> k.sreq, rreq |-> k.rreq]
<1>1. k \in Packet /\ wire' \in [Proc -> [Proc -> Seq(Packet)]]
  BY ReadPacketType
<1>2. k.sreq \in Handle \cup {None} /\ k.rreq \in Handle
  BY <1>1, PacketFields DEF HandleCts
<1>3. k.sreq \in Handle => d \in Request
  BY CountersType DEF TypeOK
<1>4. req' \in [Proc -> [Handle -> Request]]
  <2>1. req' = [req EXCEPT ![q][k.sreq] = d]
    BY DEF HandleCts
  <2> HIDE DEF d
  <2> QED
    BY <1>3, <2>1, SetRequest DEF TypeOK
<1>5. sendq' \in [Proc -> [Proc -> Seq(Packet)]]
  <2>1. payload \in Packet
    BY <1>2 DEF Packet
  <2> QED
    BY <2>1, SendPacketType DEF HandleCts, TypeOK
<1> QED
  BY <1>1, <1>4, <1>5 DEF HandleCts, TypeOK, queues, history

LEMMA HandleRndvSendType ==
  ASSUME TypeOK, NEW q \in Proc, NEW p \in Proc, NEW k, ReadPacket(q, p, k),
         HandleRndvSend(q, p, k)
  PROVE  TypeOK'
<1>1. k \in Packet /\ wire' \in [Proc -> [Proc -> Seq(Packet)]]
  BY ReadPacketType
<1>2. k.rreq \in Handle
  BY <1>1, PacketFields DEF HandleRndvSend
<1>3. reading' \in [Proc -> [Proc -> Handle \cup {None}]]
  BY <1>2 DEF HandleRndvSend, TypeOK
<1> QED
  BY <1>1, <1>3 DEF HandleRndvSend, TypeOK, queues, history

LEMMA HandleSyncAckType ==
  ASSUME TypeOK, NEW q \in Proc, NEW p \in Proc, NEW k, ReadPacket(q, p, k),
         HandleSyncAck(q, p, k)
  PROVE  TypeOK'
<1> DEFINE d == Release(SignalCompletion(req[q][k.sreq]))
<1>1. wire' \in [Proc -> [Proc -> Seq(Packet)]]
  BY ReadPacketType
<1>2. k.sreq \in Handle => d \in Request
  BY CountersType DEF TypeOK
<1>3. req' \in [Proc -> [Handle -> Request]]
  <2>1. req' = [req EXCEPT ![q][k.sreq] = d]
    BY DEF HandleSyncAck
  <2> HIDE DEF d
  <2> QED
    BY <1>2, <2>1, SetRequest DEF TypeOK
<1> QED
  BY <1>1, <1>3 DEF HandleSyncAck, TypeOK, queues, history

LEMMA HandleCancelReqFoundType ==
  ASSUME TypeOK, NEW q \in Proc, NEW p \in Proc, NEW k, ReadPacket(q, p, k),
         NEW i \in 1 .. Len(unexpected[q]), HandleCancelReqFound(q, p, k, i)
  PROVE  TypeOK'
<1> DEFINE h == unexpected[q][i].rreq
<1>1. k \in Packet /\ wire' \in [Proc -> [Proc -> Seq(Packet)]]
  BY ReadPacketType
<1>2. h \in Handle
  <2>1. unexpected[q][i] \in Arrival
    BY ElementOfSeq DEF TypeOK
  <2> QED
    BY <2>1 DEF Arrival
<1>3. req' \in [Proc -> [Handle -> Request]]
  <2>1. Release(req[q][h]) \in Request
    BY <1>2, CountersType DEF TypeOK
  <2>2. req' = [req EXCEPT ![q][h] = Release(req[q][h])]
    BY DEF HandleCancelReqFound
  <2> HIDE DEF h
  <2> QED
    BY <2>1, <2>2, SetRequest DEF TypeOK
<1>4. unexpected' \in [Proc -> Seq(Arrival)]
  BY RemoveFrom DEF HandleCancelReqFound, TypeOK
<1>5. sent' \in [Proc -> Seq(SendRec)]
  BY SentType DEF HandleCancelReqFound, TypeOK
<1>6. sendq' \in [Proc -> [Proc -> Seq(Packet)]]
  <2>1. CancelResp(k.sreq, TRUE) \in Packet
    BY <1>1, PacketFields DEF HandleCancelReqFound, CancelResp, Packet
  <2> QED
    BY <2>1, SendPacketType DEF HandleCancelReqFound, TypeOK
<1> QED
  BY <1>1, <1>3, <1>4, <1>5, <1>6 DEF HandleCancelReqFound, TypeOK

LEMMA HandleCancelReqMissedType ==
  ASSUME TypeOK, NEW q \in Proc, NEW p \in Proc, NEW k, ReadPacket(q, p, k),
         HandleCancelReqMissed(q, p, k)
  PROVE  TypeOK'
<1>1. k \in Packet /\ wire' \in [Proc -> [Proc -> Seq(Packet)]]
  BY ReadPacketType
<1>2. CancelResp(k.sreq, FALSE) \in Packet
  BY <1>1, PacketFields DEF HandleCancelReqMissed, CancelResp, Packet
<1>3. sendq' \in [Proc -> [Proc -> Seq(Packet)]]
  BY <1>2, SendPacketType DEF HandleCancelReqMissed, TypeOK
<1> QED
  BY <1>1, <1>3 DEF HandleCancelReqMissed, TypeOK, queues, history

LEMMA HandleCancelRespType ==
  ASSUME TypeOK, NEW q \in Proc, NEW p \in Proc, NEW k, ReadPacket(q, p, k),
         HandleCancelResp(q, p, k)
  PROVE  TypeOK'
<1> DEFINE r == [req[q][k.sreq] EXCEPT !.cancelled = k.ack]
           both == k.ack /\ (r.msgType = "RNDV" \/ r.type = "SSEND")
           s == IF both THEN Release(SignalCompletion(r)) ELSE r
           d == Release(SignalCompletion(s))
<1>1. k \in Packet /\ wire' \in [Proc -> [Proc -> Seq(Packet)]]
  BY ReadPacketType
<1>2. k.sreq \in Handle /\ k.ack \in BOOLEAN
  BY <1>1, PacketFields DEF HandleCancelResp
<1>3. r \in Request
  <2>1. req[q][k.sreq] \in Request
    BY <1>2 DEF TypeOK
  <2> QED
    BY <1>2, <2>1, FieldType, Zenon
<1>4. d \in Request
  <2>1. s \in Request
    <3> HIDE DEF r, both
    <3> QED
      BY <1>3, CountersType
  <2> HIDE DEF s
  <2> QED
    BY <2>1, CountersType
<1>5. req' \in [Proc -> [Handle -> Request]]
  <2>1. req' = [req EXCEPT ![q][k.sreq] = d]
    BY DEF HandleCancelResp
  <2> HIDE DEF d
  <2> QED
    BY <1>4, <2>1, SetRequest DEF TypeOK
<1> QED
  BY <1>1, <1>5 DEF HandleCancelResp, TypeOK, queues, history

-----------------------------------------------------------------------------
(***************************************************************************)
(* The type invariant.                                                     *)
(***************************************************************************)
LEMMA InitType == Init => TypeOK
<1> SUFFICES ASSUME Init PROVE TypeOK
  OBVIOUS
<1>1. FreeRequest(0, 0) \in Request
  BY FreeRequestType
<1>2. req \in [Proc -> [Handle -> Request]]
  BY <1>1 DEF Init
<1>3. \A S : <<>> \in Seq(S)
  BY EmptySeq
<1> QED
  BY <1>2, <1>3 DEF Init, TypeOK

LEMMA DeliverType ==
  ASSUME TypeOK, NEW q \in Proc, NEW p \in Proc, Deliver(q, p)
  PROVE  TypeOK'
<1>1. CASE PayloadArrives(q, p)
  BY <1>1, PayloadArrivesType
<1>2. ASSUME NEW k, HandlePacket(q, p, k)
      PROVE  TypeOK'
  <2>1. ReadPacket(q, p, k)
    BY <1>2 DEF HandlePacket
  <2>2. ASSUME NEW i \in 1 .. Len(posted[q]), HandleEagerFound(q, p, k, i)
        PROVE  TypeOK'
    BY <2>1, <2>2, HandleEagerFoundType
  <2>3. ASSUME NEW i \in 1 .. Len(posted[q]), HandleRtsFound(q, p, k, i)
        PROVE  TypeOK'
    BY <2>1, <2>3, HandleRtsFoundType
  <2>4. ASSUME NEW h \in Handle, HandleEagerUnexpected(q, p, k, h)
        PROVE  TypeOK'
    BY <2>1, <2>4, HandleEagerUnexpectedType
  <2>5. ASSUME NEW h \in Handle, HandleRtsUnexpected(q, p, k, h)
        PROVE  TypeOK'
    BY <2>1, <2>5, HandleRtsUnexpectedType
  <2>6. ASSUME NEW i \in 1 .. Len(unexpected[q]), HandleCancelReqFound(q, p, k, i)
        PROVE  TypeOK'
    BY <2>1, <2>6, HandleCancelReqFoundType
  <2>7. CASE HandleCts(q, p, k)
    BY <2>1, <2>7, HandleCtsType
  <2>8. CASE HandleRndvSend(q, p, k)
    BY <2>1, <2>8, HandleRndvSendType
  <2>9. CASE HandleSyncAck(q, p, k)
    BY <2>1, <2>9, HandleSyncAckType
  <2>10. CASE HandleCancelReqMissed(q, p, k)
    BY <2>1, <2>10, HandleCancelReqMissedType
  <2>11. CASE HandleCancelResp(q, p, k)
    BY <2>1, <2>11, HandleCancelRespType
  <2> QED
    BY <1>2, <2>2, <2>3, <2>4, <2>5, <2>6, <2>7, <2>8, <2>9, <2>10, <2>11
    DEF HandlePacket
<1> QED
  BY <1>1, <1>2 DEF Deliver

LEMMA CallType ==
  ASSUME TypeOK, NEW p \in Proc, SendCall(p) \/ RecvCall(p) \/ EndCall(p)
  PROVE  TypeOK'
<1>1. CASE SendCall(p)
  <2>1. PICK t \in Tag, mode \in Mode, size \in Size, h \in Handle :
          \/ \E q \in Proc : Isend(p, q, t, mode, size, h)
          \/ \E i \in 1 .. Len(posted[p]) : IsendSelfFound(p, t, mode, size, h, i)
          \/ \E g \in Handle : IsendSelfUnexpected(p, t, mode, size, h, g)
    BY <1>1 DEF SendCall
  <2> QED
    BY <2>1, IsendType, IsendSelfFoundType, IsendSelfUnexpectedType
<1>2. CASE RecvCall(p)
  BY <1>2, RecvPostType, RecvFoundType, ImprobeType, ImrecvType DEF RecvCall
<1>3. CASE EndCall(p)
  BY <1>3, WaitType, RequestFreeType, CancelSendType, CancelSelfMissedType,
     CancelSelfFoundType, CancelRecvType DEF EndCall
<1> QED
  BY <1>1, <1>2, <1>3

LEMMA StepType == TypeOK /\ [Next]_vars => TypeOK'
<1> SUFFICES ASSUME TypeOK, [Next]_vars PROVE TypeOK'
  OBVIOUS
<1>1. ASSUME NEW p \in Proc, SendCall(p) \/ RecvCall(p) \/ EndCall(p) \/ FinishCall(p)
      PROVE  TypeOK'
  BY <1>1, CallType, FinishCallType
<1>2. ASSUME NEW p \in Proc, NEW q \in Proc, Write(p, q) \/ Deliver(q, p)
      PROVE  TypeOK'
  BY <1>2, WriteType, DeliverType
<1>3. CASE UNCHANGED vars
  BY <1>3 DEF TypeOK, vars, queues, net, history
<1> QED
  BY <1>1, <1>2, <1>3 DEF Next

(* Type correctness: in every reachable state of the device the requests,  *)
(* queues, packets and histories have the shapes Request, Posting, Arrival *)
(* and Packet give them, for any number of processes and of requests.      *)
THEOREM TypeCorrect == Spec => []TypeOK
<1>1. Init => TypeOK
  BY InitType
<1>2. TypeOK /\ [Next]_vars => TypeOK'
  BY StepType
<1> QED
  BY <1>1, <1>2, PTL DEF Spec

-----------------------------------------------------------------------------
(***************************************************************************)
(* The two queues.  NoMissedMatch is inductive once the types are known:   *)
(* the queues only ever shrink, or grow by what the search of the other    *)
(* queue has just shown to match nothing there.                            *)
(***************************************************************************)
LEMMA QueuesUnchanged ==
  ASSUME NoMissedMatch, UNCHANGED queues
  PROVE  NoMissedMatch'
BY DEF NoMissedMatch, Matches, queues

LEMMA PostedShrinks ==
  ASSUME TypeOK, NoMissedMatch, NEW q \in Proc, NEW i \in 1 .. Len(posted[q]),
         posted' = [posted EXCEPT ![q] = RemoveAt(@, i)], UNCHANGED unexpected
  PROVE  NoMissedMatch'
<1> SUFFICES ASSUME NEW r \in Proc, NEW k \in 1 .. Len(posted'[r]),
                    NEW j \in 1 .. Len(unexpected[r])
             PROVE  ~Matches(unexpected[r][j].rank, unexpected[r][j].tag, posted'[r][k])
  BY DEF NoMissedMatch, Matches
<1>1. CASE r = q
  <2>1. posted[q] \in Seq(Posting) /\ posted'[q] = RemoveAt(posted[q], i)
    BY DEF TypeOK
  <2>2. PICK m \in 1 .. Len(posted[q]) : posted'[q][k] = posted[q][m]
    BY <1>1, <2>1, RemoveAtKeeps
  <2> QED
    BY <1>1, <2>2 DEF NoMissedMatch
<1>2. CASE r # q
  <2>1. posted'[r] = posted[r]
    BY <1>2 DEF TypeOK
  <2> QED
    BY <2>1 DEF NoMissedMatch
<1> QED
  BY <1>1, <1>2

LEMMA UnexpectedShrinks ==
  ASSUME TypeOK, NoMissedMatch, NEW q \in Proc, NEW i \in 1 .. Len(unexpected[q]),
         unexpected' = [unexpected EXCEPT ![q] = RemoveAt(@, i)], UNCHANGED posted
  PROVE  NoMissedMatch'
<1> SUFFICES ASSUME NEW r \in Proc, NEW k \in 1 .. Len(posted[r]),
                    NEW j \in 1 .. Len(unexpected'[r])
             PROVE  ~Matches(unexpected'[r][j].rank, unexpected'[r][j].tag, posted[r][k])
  BY DEF NoMissedMatch, Matches
<1>1. CASE r = q
  <2>1. /\ unexpected[q] \in Seq(Arrival)
        /\ unexpected'[q] = RemoveAt(unexpected[q], i)
    BY DEF TypeOK
  <2>2. PICK m \in 1 .. Len(unexpected[q]) : unexpected'[q][j] = unexpected[q][m]
    BY <1>1, <2>1, RemoveAtKeeps
  <2> QED
    BY <1>1, <2>2 DEF NoMissedMatch
<1>2. CASE r # q
  <2>1. unexpected'[r] = unexpected[r]
    BY <1>2 DEF TypeOK
  <2> QED
    BY <2>1 DEF NoMissedMatch
<1> QED
  BY <1>1, <1>2

LEMMA PostedGrows ==
  ASSUME TypeOK, NoMissedMatch, NEW q \in Proc, NEW e \in Posting,
         NoneUnexpected(q, e),
         posted' = [posted EXCEPT ![q] = Append(@, e)], UNCHANGED unexpected
  PROVE  NoMissedMatch'
<1> SUFFICES ASSUME NEW r \in Proc, NEW k \in 1 .. Len(posted'[r]),
                    NEW j \in 1 .. Len(unexpected[r])
             PROVE  ~Matches(unexpected[r][j].rank, unexpected[r][j].tag, posted'[r][k])
  BY DEF NoMissedMatch, Matches
<1>1. CASE r = q
  <2>1. /\ posted[q] \in Seq(Posting) /\ posted'[q] = Append(posted[q], e)
        /\ Len(posted[q]) \in Nat
    BY LenProperties DEF TypeOK
  <2>2. /\ Len(posted'[q]) = Len(posted[q]) + 1
        /\ \A m \in 1 .. Len(posted[q]) : posted'[q][m] = posted[q][m]
        /\ posted'[q][Len(posted[q]) + 1] = e
    BY <2>1, AppendProperties
  <2>3. CASE k \in 1 .. Len(posted[q])
    BY <1>1, <2>2, <2>3 DEF NoMissedMatch
  <2>4. CASE k = Len(posted[q]) + 1
    BY <1>1, <2>2, <2>4 DEF NoneUnexpected
  <2> QED
    BY <1>1, <2>1, <2>2, <2>3, <2>4
<1>2. CASE r # q
  <2>1. posted'[r] = posted[r]
    BY <1>2 DEF TypeOK
  <2> QED
    BY <2>1 DEF NoMissedMatch
<1> QED
  BY <1>1, <1>2

LEMMA UnexpectedGrows ==
  ASSUME TypeOK, NoMissedMatch, NEW q \in Proc, NEW e \in Arrival,
         NonePosted(q, e.rank, e.tag),
         unexpected' = [unexpected EXCEPT ![q] = Append(@, e)], UNCHANGED posted
  PROVE  NoMissedMatch'
<1> SUFFICES ASSUME NEW r \in Proc, NEW k \in 1 .. Len(posted[r]),
                    NEW j \in 1 .. Len(unexpected'[r])
             PROVE  ~Matches(unexpected'[r][j].rank, unexpected'[r][j].tag, posted[r][k])
  BY DEF NoMissedMatch, Matches
<1>1. CASE r = q
  <2>1. /\ unexpected[q] \in Seq(Arrival)
        /\ unexpected'[q] = Append(unexpected[q], e)
        /\ Len(unexpected[q]) \in Nat
    BY LenProperties DEF TypeOK
  <2>2. /\ Len(unexpected'[q]) = Len(unexpected[q]) + 1
        /\ \A m \in 1 .. Len(unexpected[q]) : unexpected'[q][m] = unexpected[q][m]
        /\ unexpected'[q][Len(unexpected[q]) + 1] = e
    BY <2>1, AppendProperties
  <2>3. CASE j \in 1 .. Len(unexpected[q])
    BY <1>1, <2>2, <2>3 DEF NoMissedMatch
  <2>4. CASE j = Len(unexpected[q]) + 1
    BY <1>1, <2>2, <2>4 DEF NonePosted
  <2> QED
    BY <1>1, <2>1, <2>2, <2>3, <2>4
<1>2. CASE r # q
  <2>1. unexpected'[r] = unexpected[r]
    BY <1>2 DEF TypeOK
  <2> QED
    BY <2>1 DEF NoMissedMatch
<1> QED
  BY <1>1, <1>2

(* The message a packet brings, when nothing is posted for it.             *)
LEMMA QueueUnexpectedMatch ==
  ASSUME TypeOK, NoMissedMatch, NEW q \in Proc, NEW p \in Proc, NEW h \in Handle,
         NEW k \in Packet, k.type \in EagerTypes \cup {"RTS"},
         NonePosted(q, p, k.tag), QueueUnexpected(q, p, k, h), UNCHANGED posted
  PROVE  NoMissedMatch'
<1> DEFINE e == [rreq |-> h, rank |-> p, tag |-> k.tag, sreq |-> k.sreq, id |-> k.id]
<1>1. e \in Arrival
  BY PacketFields DEF Arrival
<1>2. unexpected' = [unexpected EXCEPT ![q] = Append(@, e)]
  BY DEF QueueUnexpected
<1>3. e.rank = p /\ e.tag = k.tag
  OBVIOUS
<1> HIDE DEF e
<1> QED
  BY <1>1, <1>2, <1>3, UnexpectedGrows

LEMMA SendCallMatch ==
  ASSUME TypeOK, NoMissedMatch, NEW p \in Proc, SendCall(p)
  PROVE  NoMissedMatch'
<1> PICK t \in Tag, mode \in Mode, size \in Size, h \in Handle :
      \/ \E q \in Proc : Isend(p, q, t, mode, size, h)
      \/ \E i \in 1 .. Len(posted[p]) : IsendSelfFound(p, t, mode, size, h, i)
      \/ \E g \in Handle : IsendSelfUnexpected(p, t, mode, size, h, g)
  BY DEF SendCall
<1>1. ASSUME NEW q \in Proc, Isend(p, q, t, mode, size, h)
      PROVE  NoMissedMatch'
  BY <1>1, QueuesUnchanged DEF Isend
<1>2. ASSUME NEW i \in 1 .. Len(posted[p]), IsendSelfFound(p, t, mode, size, h, i)
      PROVE  NoMissedMatch'
  BY <1>2, PostedShrinks DEF IsendSelfFound
<1>3. ASSUME NEW g \in Handle, IsendSelfUnexpected(p, t, mode, size, h, g)
      PROVE  NoMissedMatch'
  <2> DEFINE e == [rreq |-> g, rank |-> p, tag |-> t,
                   sreq |-> IF mode = "RSEND" THEN None ELSE h,
                   id |-> Len(sent[p]) + 1]
  <2>1. e \in Arrival
    <3>1. Len(sent[p]) + 1 \in Nat
      BY LenProperties DEF TypeOK
    <3> QED
      BY <3>1 DEF Arrival
  <2>2. /\ unexpected' = [unexpected EXCEPT ![p] = Append(@, e)]
        /\ NonePosted(p, p, t)
        /\ UNCHANGED posted
    <3> DEFINE s == [NewSreq(p, h, p, t, mode, size) EXCEPT !.msgType = "SELF"]
    <3>1. s.id = Len(sent[p]) + 1
      BY DEF NewSreq, NewRequest, FreeRequest
    <3>2. unexpected' = [unexpected EXCEPT ![p] =
             Append(@, [rreq |-> g, rank |-> p, tag |-> t,
                        sreq |-> IF mode = "RSEND" THEN None ELSE h, id |-> s.id])]
      BY <1>3 DEF IsendSelfUnexpected
    <3> HIDE DEF s
    <3> QED
      BY <1>3, <3>1, <3>2 DEF IsendSelfUnexpected
  <2>3. e.rank = p /\ e.tag = t
    OBVIOUS
  <2> HIDE DEF e
  <2> QED
    BY <2>1, <2>2, <2>3, UnexpectedGrows
<1> QED
  BY <1>1, <1>2, <1>3

LEMMA RecvCallMatch ==
  ASSUME TypeOK, NoMissedMatch, NEW p \in Proc, RecvCall(p)
  PROVE  NoMissedMatch'
<1>1. ASSUME NEW f \in Filters, NEW h \in Handle, RecvPost(p, f, h)
      PROVE  NoMissedMatch'
  <2> DEFINE e == [rreq |-> h, rank |-> f.rank, tag |-> f.tag, id |-> Len(rcvd[p]) + 1]
  <2>1. e \in Posting
    <3>1. Len(rcvd[p]) + 1 \in Nat
      BY LenProperties DEF TypeOK
    <3> QED
      BY <3>1, FilterAssumption DEF Posting
  <2>2. posted' = [posted EXCEPT ![p] = Append(@, e)] /\ UNCHANGED unexpected
    BY <1>1 DEF RecvPost
  <2>3. NoneUnexpected(p, e)
    BY <1>1 DEF RecvPost, NoneUnexpected, Matches
  <2> HIDE DEF e
  <2> QED
    BY <2>1, <2>2, <2>3, PostedGrows
<1>2. ASSUME NEW f \in Filters, NEW i \in 1 .. Len(unexpected[p]),
             RecvFound(p, f, i) \/ Improbe(p, f, i)
      PROVE  NoMissedMatch'
  <2>1. DequeueFor(p, f, i) /\ UNCHANGED posted
    BY <1>2 DEF RecvFound, Improbe
  <2> QED
    BY <2>1, UnexpectedShrinks DEF DequeueFor
<1>3. ASSUME NEW h \in Handle, Imrecv(p, h)
      PROVE  NoMissedMatch'
  BY <1>3, QueuesUnchanged DEF Imrecv
<1> QED
  BY <1>1, <1>2, <1>3 DEF RecvCall

LEMMA EndCallMatch ==
  ASSUME TypeOK, NoMissedMatch, NEW p \in Proc, EndCall(p)
  PROVE  NoMissedMatch'
<1>1. ASSUME NEW h \in Handle,
             Wait(p, h) \/ RequestFree(p, h) \/ CancelSend(p, h) \/ CancelSelfMissed(p, h)
      PROVE  NoMissedMatch'
  BY <1>1, QueuesUnchanged
  DEF Wait, RequestFree, DropHandle, CancelSend, CancelSelfMissed
<1>2. ASSUME NEW h \in Handle, NEW i \in 1 .. Len(unexpected[p]), CancelSelfFound(p, h, i)
      PROVE  NoMissedMatch'
  BY <1>2, UnexpectedShrinks DEF CancelSelfFound
<1>3. ASSUME NEW i \in 1 .. Len(posted[p]), CancelRecv(p, i)
      PROVE  NoMissedMatch'
  BY <1>3, PostedShrinks DEF CancelRecv
<1> QED
  BY <1>1, <1>2, <1>3 DEF EndCall

LEMMA DeliverMatch ==
  ASSUME TypeOK, NoMissedMatch, NEW q \in Proc, NEW p \in Proc, Deliver(q, p)
  PROVE  NoMissedMatch'
<1>1. CASE PayloadArrives(q, p)
  BY <1>1, QueuesUnchanged DEF PayloadArrives
<1>2. ASSUME NEW k, HandlePacket(q, p, k)
      PROVE  NoMissedMatch'
  <2>1. k \in Packet
    BY <1>2, ReadPacketType DEF HandlePacket
  <2>2. ASSUME NEW i \in 1 .. Len(posted[q]),
               HandleEagerFound(q, p, k, i) \/ HandleRtsFound(q, p, k, i)
        PROVE  NoMissedMatch'
    BY <2>2, PostedShrinks DEF HandleEagerFound, HandleRtsFound
  <2>3. ASSUME NEW h \in Handle,
               HandleEagerUnexpected(q, p, k, h) \/ HandleRtsUnexpected(q, p, k, h)
        PROVE  NoMissedMatch'
    BY <2>1, <2>3, QueueUnexpectedMatch DEF HandleEagerUnexpected, HandleRtsUnexpected
  <2>4. ASSUME NEW i \in 1 .. Len(unexpected[q]), HandleCancelReqFound(q, p, k, i)
        PROVE  NoMissedMatch'
    BY <2>4, UnexpectedShrinks DEF HandleCancelReqFound
  <2>5. ASSUME \/ HandleCts(q, p, k) \/ HandleRndvSend(q, p, k) \/ HandleSyncAck(q, p, k)
               \/ HandleCancelReqMissed(q, p, k) \/ HandleCancelResp(q, p, k)
        PROVE  NoMissedMatch'
    BY <2>5, QueuesUnchanged
    DEF HandleCts, HandleRndvSend, HandleSyncAck, HandleCancelReqMissed, HandleCancelResp
  <2> QED
    BY <1>2, <2>2, <2>3, <2>4, <2>5 DEF HandlePacket
<1> QED
  BY <1>1, <1>2 DEF Deliver

LEMMA StepMatch == TypeOK /\ NoMissedMatch /\ [Next]_vars => NoMissedMatch'
<1> SUFFICES ASSUME TypeOK, NoMissedMatch, [Next]_vars PROVE NoMissedMatch'
  OBVIOUS
<1>1. ASSUME NEW p \in Proc, SendCall(p) \/ RecvCall(p) \/ EndCall(p)
      PROVE  NoMissedMatch'
  BY <1>1, SendCallMatch, RecvCallMatch, EndCallMatch
<1>2. ASSUME NEW p \in Proc, FinishCall(p)
      PROVE  NoMissedMatch'
  BY <1>2, QueuesUnchanged DEF FinishCall
<1>3. ASSUME NEW p \in Proc, NEW q \in Proc, Write(p, q)
      PROVE  NoMissedMatch'
  BY <1>3, QueuesUnchanged DEF Write
<1>4. ASSUME NEW p \in Proc, NEW q \in Proc, Deliver(q, p)
      PROVE  NoMissedMatch'
  BY <1>4, DeliverMatch
<1>5. CASE UNCHANGED vars
  BY <1>5, QueuesUnchanged DEF vars
<1> QED
  BY <1>1, <1>2, <1>3, <1>4, <1>5 DEF Next

(* No receive ever waits for a message that waits for it: in every         *)
(* reachable state no entry of recvq_posted matches an entry of            *)
(* recvq_unexpected, whatever mix of sends, receives, probes, cancels,     *)
(* wildcards and packets led there, and for any number of processes.       *)
THEOREM NothingMissed == Spec => []NoMissedMatch
<1>1. Init => NoMissedMatch
  <2> SUFFICES ASSUME Init PROVE NoMissedMatch
    OBVIOUS
  <2>1. \A q \in Proc : Len(posted[q]) = 0
    BY EmptySeq DEF Init
  <2> QED
    BY <2>1 DEF NoMissedMatch
<1>2. TypeOK /\ NoMissedMatch /\ [Next]_vars => NoMissedMatch'
  BY StepMatch
<1>3. Spec => []TypeOK
  BY TypeCorrect
<1> QED
  BY <1>1, <1>2, <1>3, PTL DEF Spec

-----------------------------------------------------------------------------
(***************************************************************************)
(* What appending to and removing from a sequence does to its elements.    *)
(***************************************************************************)
LEMMA RangeOf ==
  ASSUME NEW S, NEW s \in Seq(S)
  PROVE  /\ Len(s) \in Nat /\ DOMAIN s = 1 .. Len(s)
         /\ \A i \in 1 .. Len(s) : s[i] \in Range(s) /\ s[i] \in S
         /\ \A x \in Range(s) : x \in S /\ \E i \in 1 .. Len(s) : x = s[i]
<1>1. Len(s) \in Nat /\ DOMAIN s = 1 .. Len(s)
  BY LenProperties
<1>2. \A i \in 1 .. Len(s) : s[i] \in S
  BY ElementOfSeq
<1> QED
  BY <1>1, <1>2 DEF Range

LEMMA AppendParts ==
  ASSUME NEW S, NEW s \in Seq(S), NEW x \in S
  PROVE  /\ Append(s, x) \in Seq(S) /\ Len(s) \in Nat /\ Len(Append(s, x)) = Len(s) + 1
         /\ \A i \in 1 .. Len(s) : Append(s, x)[i] = s[i]
         /\ Append(s, x)[Len(s) + 1] = x
         /\ Range(Append(s, x)) = Range(s) \cup {x}
<1> DEFINE a == Append(s, x)
<1>1. /\ a \in Seq(S) /\ Len(s) \in Nat /\ Len(a) = Len(s) + 1
      /\ \A i \in 1 .. Len(s) : a[i] = s[i]
      /\ a[Len(s) + 1] = x
  BY AppendProperties, LenProperties
<1> HIDE DEF a
<1>2. ASSUME NEW y \in Range(a) PROVE y \in Range(s) \cup {x}
  <2>1. PICK i \in 1 .. Len(s) + 1 : y = a[i]
    BY <1>1, RangeOf
  <2>2. CASE i = Len(s) + 1
    BY <1>1, <2>1, <2>2
  <2>3. CASE i \in 1 .. Len(s)
    BY <1>1, <2>1, <2>3, RangeOf
  <2> QED
    BY <1>1, <2>1, <2>2, <2>3
<1>3. ASSUME NEW y \in Range(s) PROVE y \in Range(a)
  <2>1. PICK i \in 1 .. Len(s) : y = s[i]
    BY RangeOf
  <2>2. i \in 1 .. Len(a) /\ y = a[i]
    BY <1>1, <2>1
  <2> QED
    BY <1>1, <2>2, RangeOf
<1>4. x \in Range(a)
  <2>1. Len(s) + 1 \in 1 .. Len(a)
    BY <1>1
  <2> QED
    BY <1>1, <2>1, RangeOf
<1>5. Range(a) = Range(s) \cup {x}
  BY <1>2, <1>3, <1>4
<1> QED
  BY <1>1, <1>5 DEF a

LEMMA TailParts ==
  ASSUME NEW S, NEW s \in Seq(S), s # <<>>
  PROVE  /\ Tail(s) \in Seq(S) /\ Len(s) \in Nat /\ Len(s) > 0 /\ Len(Tail(s)) = Len(s) - 1
         /\ \A i \in 1 .. Len(s) - 1 : Tail(s)[i] = s[i + 1]
         /\ Head(s) = s[1] /\ Head(s) \in S
         /\ Range(s) = Range(Tail(s)) \cup {Head(s)}
<1> DEFINE t == Tail(s)
<1>1. /\ t \in Seq(S) /\ Len(s) \in Nat /\ Len(s) > 0 /\ Len(t) = Len(s) - 1
      /\ \A i \in 1 .. Len(s) - 1 : t[i] = s[i + 1]
      /\ Head(s) = s[1] /\ Head(s) \in S
  BY HeadTailProperties, LenProperties, EmptySeq
<1> HIDE DEF t
<1>2. ASSUME NEW y \in Range(s) PROVE y \in Range(t) \cup {Head(s)}
  <2>1. PICK i \in 1 .. Len(s) : y = s[i]
    BY RangeOf
  <2>2. CASE i > 1
    <3>1. i - 1 \in 1 .. Len(t) /\ y = t[i - 1]
      BY <1>1, <2>1, <2>2
    <3> QED
      BY <1>1, <3>1, RangeOf
  <2> QED
    BY <1>1, <2>1, <2>2
<1>3. ASSUME NEW y \in Range(t) PROVE y \in Range(s)
  <2>1. PICK i \in 1 .. Len(s) - 1 : y = t[i]
    BY <1>1, RangeOf
  <2>2. i + 1 \in 1 .. Len(s) /\ y = s[i + 1]
    BY <1>1, <2>1
  <2> QED
    BY <2>2, RangeOf
<1>4. Head(s) \in Range(s)
  <2>1. 1 \in 1 .. Len(s)
    BY <1>1
  <2> QED
    BY <1>1, <2>1, RangeOf
<1> QED
  BY <1>1, <1>2, <1>3, <1>4 DEF t

(* What RemoveAt leaves, of a sequence that has its i-th element once. *)
LEMMA RemoveParts ==
  ASSUME NEW S, NEW s \in Seq(S), NEW i \in 1 .. Len(s)
  PROVE  /\ RemoveAt(s, i) \in Seq(S) /\ Len(RemoveAt(s, i)) = Len(s) - 1
         /\ \A k \in 1 .. Len(s) - 1 : RemoveAt(s, i)[k] = s[IF k < i THEN k ELSE k + 1]
         /\ Range(s) = Range(RemoveAt(s, i)) \cup {s[i]}
         /\ (\A j \in 1 .. Len(s) : s[j] = s[i] => j = i) =>
              Range(RemoveAt(s, i)) = Range(s) \ {s[i]}
<1> DEFINE t == RemoveAt(s, i)
<1>1. /\ t \in Seq(S) /\ Len(t) = Len(s) - 1 /\ Len(s) \in Nat
      /\ \A k \in 1 .. Len(s) - 1 : t[k] = s[IF k < i THEN k ELSE k + 1]
  BY RemoveAtProperties, LenProperties
<1> HIDE DEF t
<1>2. ASSUME NEW j \in 1 .. Len(s), j # i PROVE s[j] \in Range(t)
  <2>1. CASE j < i
    <3>1. j \in 1 .. Len(t) /\ t[j] = s[j]
      BY <1>1, <2>1
    <3> QED
      BY <1>1, <3>1, RangeOf
  <2>2. CASE j > i
    <3>1. j - 1 \in 1 .. Len(t) /\ t[j - 1] = s[j]
      BY <1>1, <2>2
    <3> QED
      BY <1>1, <3>1, RangeOf
  <2> QED
    BY <1>1, <1>2, <2>1, <2>2
<1>3. ASSUME NEW y \in Range(t) PROVE \E j \in 1 .. Len(s) : j # i /\ y = s[j]
  <2>1. PICK k \in 1 .. Len(s) - 1 : y = t[k]
    BY <1>1, RangeOf
  <2>2. CASE k < i
    <3>1. k \in 1 .. Len(s) /\ k # i /\ y = s[k]
      BY <1>1, <2>1, <2>2
    <3> QED
      BY <3>1
  <2>3. CASE ~(k < i)
    <3>1. k + 1 \in 1 .. Len(s) /\ k + 1 # i /\ y = s[k + 1]
      BY <1>1, <2>1, <2>3
    <3> QED
      BY <3>1
  <2> QED
    BY <2>2, <2>3
<1>4. Range(s) = Range(t) \cup {s[i]}
  <2>1. ASSUME NEW y \in Range(s) PROVE y \in Range(t) \cup {s[i]}
    BY <1>2, RangeOf
  <2>2. ASSUME NEW y \in Range(t) \cup {s[i]} PROVE y \in Range(s)
    BY <1>3, <2>2, RangeOf
  <2> QED
    BY <2>1, <2>2
<1>5. ASSUME \A j \in 1 .. Len(s) : s[j] = s[i] => j = i
      PROVE  s[i] \notin Range(t)
  BY <1>3, <1>5
<1> QED
  BY <1>1, <1>4, <1>5 DEF t

LEMMA ConcatParts ==
  ASSUME NEW S, NEW v \in Seq(S), NEW s \in Seq(S)
  PROVE  /\ v \o s \in Seq(S)
         /\ \A x \in S : v \o Append(s, x) = Append(v \o s, x)
         /\ v # <<>> => v \o s # <<>> /\ Head(v \o s) = Head(v) /\ Tail(v) \o s = Tail(v \o s)
         /\ s # <<>> => Append(v, Head(s)) \o Tail(s) = v \o s
         /\ Range(v \o s) = Range(v) \cup Range(s)
<1> DEFINE r == v \o s
<1>1. /\ r \in Seq(S) /\ Len(r) = Len(v) + Len(s) /\ Len(v) \in Nat /\ Len(s) \in Nat
      /\ \A i \in 1 .. Len(v) + Len(s) : r[i] = IF i <= Len(v) THEN v[i] ELSE s[i - Len(v)]
  BY ConcatProperties, LenProperties
<1> HIDE DEF r
<1>2. ASSUME NEW x \in S PROVE v \o Append(s, x) = Append(r, x)
  <2>1. v \o Append(s, x) \in Seq(S) /\ Append(r, x) \in Seq(S) /\ Append(s, x) \in Seq(S)
    BY <1>1, AppendParts, ConcatProperties
  <2>2. Len(v \o Append(s, x)) = Len(v) + Len(s) + 1 /\ Len(Append(r, x)) = Len(v) + Len(s) + 1
    <3>1. Len(Append(r, x)) = Len(r) + 1 /\ Len(Append(s, x)) = Len(s) + 1
      BY <1>1, AppendParts
    <3>2. Len(v \o Append(s, x)) = Len(v) + Len(Append(s, x))
      BY <2>1, ConcatProperties
    <3> QED
      BY <1>1, <3>1, <3>2
  <2>3. ASSUME NEW i \in 1 .. Len(v) + Len(s) + 1
        PROVE  (v \o Append(s, x))[i] = Append(r, x)[i]
    <3> DEFINE a == Append(s, x)
               b == Append(r, x)
    <3>1. /\ \A j \in 1 .. Len(s) : a[j] = s[j]
          /\ a[Len(s) + 1] = x /\ Len(a) = Len(s) + 1 /\ a \in Seq(S)
          /\ \A j \in 1 .. Len(r) : b[j] = r[j]
          /\ b[Len(r) + 1] = x
      BY <1>1, AppendParts
    <3> HIDE DEF a, b
    <3>2. (v \o a)[i] = IF i <= Len(v) THEN v[i] ELSE a[i - Len(v)]
      BY <1>1, <3>1, ConcatProperties
    <3>3. CASE i <= Len(v)
      BY <1>1, <3>1, <3>2, <3>3
    <3>4. CASE i > Len(v) /\ i <= Len(v) + Len(s)
      BY <1>1, <3>1, <3>2, <3>4
    <3>5. CASE i = Len(v) + Len(s) + 1
      BY <1>1, <3>1, <3>2, <3>5
    <3>6. i <= Len(v) \/ (i > Len(v) /\ i <= Len(v) + Len(s)) \/ i = Len(v) + Len(s) + 1
      <4>1. PICK l \in Nat, m \in Nat : l = Len(v) /\ m = Len(s)
        BY <1>1
      <4>2. i \in 1 .. l + m + 1
        BY <4>1
      <4> QED
        BY <4>1, <4>2
    <3> QED
      BY <3>3, <3>4, <3>5, <3>6
  <2> QED
    BY <2>1, <2>2, <2>3, SeqEqual
<1>3. ASSUME v # <<>> PROVE r # <<>> /\ Head(r) = Head(v) /\ Tail(v) \o s = Tail(r)
  <2>1. /\ Tail(v) \in Seq(S) /\ Len(v) > 0 /\ Len(Tail(v)) = Len(v) - 1
        /\ \A i \in 1 .. Len(v) - 1 : Tail(v)[i] = v[i + 1]
        /\ Head(v) = v[1]
    BY <1>3, TailParts
  <2>2. r # <<>>
    BY <1>1, <2>1, EmptySeq
  <2>3. /\ Tail(r) \in Seq(S) /\ Len(Tail(r)) = Len(r) - 1
        /\ \A i \in 1 .. Len(r) - 1 : Tail(r)[i] = r[i + 1]
        /\ Head(r) = r[1]
    BY <1>1, <2>2, TailParts
  <2>4. /\ Tail(v) \o s \in Seq(S) /\ Len(Tail(v) \o s) = Len(v) - 1 + Len(s)
        /\ \A i \in 1 .. Len(v) - 1 + Len(s) : (Tail(v) \o s)[i] =
             IF i <= Len(v) - 1 THEN Tail(v)[i] ELSE s[i - (Len(v) - 1)]
    BY <2>1, ConcatProperties
  <2>5. ASSUME NEW i \in 1 .. Len(r) - 1 PROVE (Tail(v) \o s)[i] = Tail(r)[i]
    <3>1. CASE i <= Len(v) - 1
      BY <1>1, <2>1, <2>3, <2>4, <3>1
    <3>2. CASE i > Len(v) - 1
      BY <1>1, <2>1, <2>3, <2>4, <3>2
    <3> QED
      BY <1>1, <3>1, <3>2
  <2>6. Tail(v) \o s = Tail(r)
    BY <1>1, <2>3, <2>4, <2>5, SeqEqual
  <2> QED
    BY <1>1, <2>1, <2>2, <2>3, <2>6
<1>4. ASSUME s # <<>> PROVE Append(v, Head(s)) \o Tail(s) = r
  <2> DEFINE a == Append(v, Head(s))
             b == Tail(s)
  <2>1. /\ b \in Seq(S) /\ Len(s) > 0 /\ Len(b) = Len(s) - 1
        /\ \A i \in 1 .. Len(s) - 1 : b[i] = s[i + 1]
        /\ Head(s) = s[1] /\ Head(s) \in S
    BY <1>4, TailParts
  <2>2. /\ a \in Seq(S) /\ Len(a) = Len(v) + 1
        /\ \A i \in 1 .. Len(v) : a[i] = v[i]
        /\ a[Len(v) + 1] = s[1]
    BY <2>1, AppendParts
  <2> HIDE DEF a, b
  <2>3. /\ a \o b \in Seq(S) /\ Len(a \o b) = Len(v) + Len(s)
        /\ \A i \in 1 .. Len(v) + Len(s) : (a \o b)[i] =
             IF i <= Len(v) + 1 THEN a[i] ELSE b[i - (Len(v) + 1)]
    <3>1. /\ a \o b \in Seq(S) /\ Len(a \o b) = Len(a) + Len(b)
          /\ \A i \in 1 .. Len(a) + Len(b) : (a \o b)[i] =
               IF i <= Len(a) THEN a[i] ELSE b[i - Len(a)]
      BY <2>1, <2>2, ConcatProperties
    <3>2. Len(a) + Len(b) = Len(v) + Len(s)
      BY <1>1, <2>1, <2>2
    <3> QED
      BY <2>2, <3>1, <3>2
  <2>4. ASSUME NEW i \in 1 .. Len(r) PROVE (a \o b)[i] = r[i]
    <3>0. i \in 1 .. Len(v) + Len(s) /\ i \in Nat
      BY <1>1
    <3>1. CASE i <= Len(v)
      <4>1. i \in 1 .. Len(v) /\ i <= Len(v) + 1
        BY <1>1, <3>1, <3>0
      <4> QED
        BY <1>1, <2>2, <2>3, <3>1, <3>0, <4>1
    <3>2. CASE i = Len(v) + 1
      BY <1>1, <2>1, <2>2, <2>3, <3>2
    <3>3. CASE i > Len(v) + 1
      <4>1. /\ i - (Len(v) + 1) \in 1 .. Len(s) - 1
            /\ (i - (Len(v) + 1)) + 1 = i - Len(v)
        BY <1>1, <3>3
      <4>2. (a \o b)[i] = b[i - (Len(v) + 1)] /\ r[i] = s[i - Len(v)]
        BY <1>1, <2>3, <3>3
      <4>3. b[i - (Len(v) + 1)] = s[i - Len(v)]
        BY <2>1, <4>1
      <4> QED
        BY <4>2, <4>3
    <3>4. i <= Len(v) \/ i = Len(v) + 1 \/ i > Len(v) + 1
      BY <1>1, <3>0
    <3> QED
      BY <3>1, <3>2, <3>3, <3>4
  <2>5. a \o b = r
    BY <1>1, <2>3, <2>4, SeqEqual
  <2> QED
    BY <2>5 DEF a, b
<1>5. Range(r) = Range(v) \cup Range(s)
  <2>1. ASSUME NEW y \in Range(r) PROVE y \in Range(v) \cup Range(s)
    <3>1. PICK i \in 1 .. Len(v) + Len(s) : y = r[i]
      BY <1>1, RangeOf
    <3>2. CASE i <= Len(v)
      <4>1. i \in 1 .. Len(v) /\ y = v[i]
        BY <1>1, <3>1, <3>2
      <4> QED
        BY <4>1, RangeOf
    <3>3. CASE i > Len(v)
      <4>1. i - Len(v) \in 1 .. Len(s) /\ y = s[i - Len(v)]
        BY <1>1, <3>1, <3>3
      <4> QED
        BY <4>1, RangeOf
    <3> QED
      BY <1>1, <3>2, <3>3
  <2>2. ASSUME NEW y \in Range(v) PROVE y \in Range(r)
    <3>1. PICK i \in 1 .. Len(v) : y = v[i]
      BY RangeOf
    <3>2. i \in 1 .. Len(r) /\ y = r[i]
      BY <1>1, <3>1
    <3> QED
      BY <1>1, <3>2, RangeOf
  <2>3. ASSUME NEW y \in Range(s) PROVE y \in Range(r)
    <3>1. PICK i \in 1 .. Len(s) : y = s[i]
      BY RangeOf
    <3>2. Len(v) + i \in 1 .. Len(r) /\ y = r[Len(v) + i]
      BY <1>1, <3>1
    <3> QED
      BY <1>1, <3>2, RangeOf
  <2> QED
    BY <2>1, <2>2, <2>3
<1> QED
  BY <1>1, <1>2, <1>3, <1>4, <1>5 DEF r

LEMMA ConcatAppend ==
  ASSUME NEW S, NEW v \in Seq(S), NEW s \in Seq(S), NEW x \in S
  PROVE  v \o Append(s, x) = Append(v \o s, x)
<1>1. \A y \in S : v \o Append(s, y) = Append(v \o s, y)
  BY ConcatParts
<1> QED
  BY <1>1

-----------------------------------------------------------------------------
(***************************************************************************)
(* What the steps do to the connections.                                   *)
(***************************************************************************)
LEMMA FlowType ==
  ASSUME TypeOK, NEW p \in Proc, NEW q \in Proc
  PROVE  /\ wire[p][q] \in Seq(Packet) /\ sendq[p][q] \in Seq(Packet)
         /\ Flow(p, q) \in Seq(Packet)
<1>1. wire[p][q] \in Seq(Packet) /\ sendq[p][q] \in Seq(Packet)
  BY DEF TypeOK
<1> QED
  BY <1>1, ConcatParts DEF Flow

LEMMA NetSame ==
  ASSUME UNCHANGED <<wire, sendq>>
  PROVE  \A a, b \in Proc : Flow(a, b)' = Flow(a, b) /\ sendq'[a][b] = sendq[a][b]
BY DEF Flow

(* A packet is queued behind everything else on its way. *)
LEMMA NetSend ==
  ASSUME TypeOK, NEW p \in Proc, NEW q \in Proc, NEW k \in Packet,
         SendPacket(p, q, k), UNCHANGED wire
  PROVE  /\ Flow(p, q)' = Append(Flow(p, q), k)
         /\ sendq'[p][q] = Append(sendq[p][q], k)
         /\ \A a, b \in Proc : a # p \/ b # q =>
              Flow(a, b)' = Flow(a, b) /\ sendq'[a][b] = sendq[a][b]
<1>1. wire[p][q] \in Seq(Packet) /\ sendq[p][q] \in Seq(Packet)
  BY FlowType
<1>2. sendq'[p][q] = Append(sendq[p][q], k)
  BY DEF SendPacket, TypeOK
<1>3. \A a, b \in Proc : a # p \/ b # q => sendq'[a][b] = sendq[a][b]
  BY DEF SendPacket, TypeOK
<1> DEFINE v == wire[p][q]
           s == sendq[p][q]
<1>4. v \o Append(s, k) = Append(v \o s, k)
  <2>1. v \in Seq(Packet) /\ s \in Seq(Packet)
    BY <1>1
  <2> HIDE DEF v, s
  <2> QED
    BY <2>1, ConcatAppend
<1> QED
  BY <1>2, <1>3, <1>4 DEF Flow

(* Writing moves a packet, and changes nothing about what is on its way. *)
LEMMA NetWrite ==
  ASSUME TypeOK, NEW p \in Proc, NEW q \in Proc, Write(p, q)
  PROVE  /\ sendq[p][q] # <<>> /\ sendq'[p][q] = Tail(sendq[p][q])
         /\ \A a, b \in Proc : Flow(a, b)' = Flow(a, b)
         /\ \A a, b \in Proc : a # p \/ b # q => sendq'[a][b] = sendq[a][b]
<1>1. wire[p][q] \in Seq(Packet) /\ sendq[p][q] \in Seq(Packet)
  BY FlowType
<1>2. /\ sendq[p][q] # <<>> /\ sendq'[p][q] = Tail(sendq[p][q])
      /\ wire'[p][q] = Append(wire[p][q], Head(sendq[p][q]))
  BY DEF Write, TypeOK
<1>3. \A a, b \in Proc : a # p \/ b # q =>
        sendq'[a][b] = sendq[a][b] /\ wire'[a][b] = wire[a][b]
  BY DEF Write, TypeOK
<1>4. Append(wire[p][q], Head(sendq[p][q])) \o Tail(sendq[p][q]) = wire[p][q] \o sendq[p][q]
  BY <1>1, <1>2, ConcatParts
<1> QED
  BY <1>2, <1>3, <1>4 DEF Flow

(* Reading takes the head of what is on its way. *)
LEMMA ReadHead ==
  ASSUME TypeOK, NEW q \in Proc, NEW p \in Proc, NEW k, ReadPacket(q, p, k)
  PROVE  /\ k \in Packet /\ Flow(p, q) # <<>> /\ Head(Flow(p, q)) = k
         /\ Flow(p, q) \in Seq(Packet) /\ k \in Range(Flow(p, q))
         /\ Tail(wire[p][q]) \o sendq[p][q] = Tail(Flow(p, q))
<1>1. wire[p][q] \in Seq(Packet) /\ sendq[p][q] \in Seq(Packet) /\ Flow(p, q) \in Seq(Packet)
  BY FlowType
<1>2. wire[p][q] # <<>> /\ k = Head(wire[p][q])
  BY DEF ReadPacket
<1>3. /\ Flow(p, q) # <<>> /\ Head(Flow(p, q)) = k
      /\ Tail(wire[p][q]) \o sendq[p][q] = Tail(Flow(p, q))
  BY <1>1, <1>2, ConcatParts DEF Flow
<1> QED
  BY <1>1, <1>3, TailParts

LEMMA NetRead ==
  ASSUME TypeOK, NEW q \in Proc, NEW p \in Proc, NEW k, ReadPacket(q, p, k),
         UNCHANGED sendq
  PROVE  /\ Flow(p, q)' = Tail(Flow(p, q))
         /\ \A a, b \in Proc : a # p \/ b # q => Flow(a, b)' = Flow(a, b)
         /\ \A a, b \in Proc : sendq'[a][b] = sendq[a][b]
<1>1. /\ wire'[p][q] = Tail(wire[p][q])
      /\ \A a, b \in Proc : a # p \/ b # q => wire'[a][b] = wire[a][b]
  BY DEF ReadPacket, TypeOK
<1> QED
  BY <1>1, ReadHead DEF Flow

(* Reading one packet and queueing another for its sender. *)
LEMMA NetReply ==
  ASSUME TypeOK, NEW q \in Proc, NEW p \in Proc, NEW k, ReadPacket(q, p, k),
         NEW r \in Packet, SendPacket(q, p, r)
  PROVE  /\ p # q => Flow(p, q)' = Tail(Flow(p, q)) /\ Flow(q, p)' = Append(Flow(q, p), r)
         /\ p = q => Flow(q, p)' = Append(Tail(Flow(q, p)), r)
         /\ \A a, b \in Proc : (a # p \/ b # q) /\ (a # q \/ b # p) =>
              Flow(a, b)' = Flow(a, b)
         /\ sendq'[q][p] = Append(sendq[q][p], r)
         /\ \A a, b \in Proc : a # q \/ b # p => sendq'[a][b] = sendq[a][b]
<1>1. /\ wire'[p][q] = Tail(wire[p][q]) /\ wire[p][q] # <<>>
      /\ \A a, b \in Proc : a # p \/ b # q => wire'[a][b] = wire[a][b]
  BY DEF ReadPacket, TypeOK
<1>2. /\ sendq'[q][p] = Append(sendq[q][p], r)
      /\ \A a, b \in Proc : a # q \/ b # p => sendq'[a][b] = sendq[a][b]
  BY DEF SendPacket, TypeOK
<1>3. wire[p][q] \in Seq(Packet) /\ sendq[q][p] \in Seq(Packet) /\ wire[q][p] \in Seq(Packet)
  BY FlowType
<1>4. p # q => Flow(q, p)' = Append(Flow(q, p), r)
  <2> DEFINE v == wire[q][p]
             s == sendq[q][p]
  <2>1. v \o Append(s, r) = Append(v \o s, r)
    <3>1. v \in Seq(Packet) /\ s \in Seq(Packet)
      BY <1>3
    <3> HIDE DEF v, s
    <3> QED
      BY <3>1, ConcatAppend
  <2> QED
    BY <1>1, <1>2, <2>1 DEF Flow
<1>5. p # q => Flow(p, q)' = Tail(Flow(p, q))
  BY <1>1, <1>2, ReadHead DEF Flow
<1>6. p = q => Flow(q, p)' = Append(Tail(Flow(q, p)), r)
  <2>1. Tail(wire[p][q]) \in Seq(Packet)
    BY <1>1, <1>3, TailParts
  <2> DEFINE v == Tail(wire[p][q])
             s == sendq[q][p]
  <2>2. v \o Append(s, r) = Append(v \o s, r)
    <3>1. v \in Seq(Packet) /\ s \in Seq(Packet)
      BY <1>3, <2>1
    <3> HIDE DEF v, s
    <3> QED
      BY <3>1, ConcatAppend
  <2> QED
    BY <1>1, <1>2, <2>2, ReadHead DEF Flow
<1> QED
  BY <1>1, <1>2, <1>4, <1>5, <1>6 DEF Flow

-----------------------------------------------------------------------------
(***************************************************************************)
(* The order of the messages of one connection.                            *)
(***************************************************************************)
LEMMA OrderTail ==
  ASSUME NEW s \in Seq(Packet), s # <<>>, InOrder(s)
  PROVE  /\ InOrder(Tail(s))
         /\ Message(Head(s)) => \A m \in Range(Tail(s)) : Message(m) => Head(s).id < m.id
<1> DEFINE t == Tail(s)
<1>1. /\ t \in Seq(Packet) /\ Len(s) \in Nat /\ Len(s) > 0 /\ Len(t) = Len(s) - 1
      /\ \A i \in 1 .. Len(s) - 1 : t[i] = s[i + 1]
      /\ Head(s) = s[1]
  BY TailParts
<1> HIDE DEF t
<1>2. InOrder(t)
  BY <1>1 DEF InOrder
<1>3. ASSUME Message(Head(s)), NEW m \in Range(t), Message(m) PROVE Head(s).id < m.id
  <2>1. PICK i \in 1 .. Len(s) - 1 : m = s[i + 1]
    BY <1>1, RangeOf
  <2>2. 1 \in 1 .. Len(s) /\ i + 1 \in 1 .. Len(s) /\ 1 < i + 1
    BY <1>1
  <2> QED
    BY <1>1, <1>3, <2>1, <2>2 DEF InOrder
<1> QED
  BY <1>2, <1>3 DEF t

LEMMA OrderAppend ==
  ASSUME NEW s \in Seq(Packet), InOrder(s), NEW k \in Packet,
         Message(k) => \A m \in Range(s) : Message(m) => m.id < k.id
  PROVE  InOrder(Append(s, k))
<1> DEFINE a == Append(s, k)
<1>1. /\ Len(s) \in Nat /\ Len(a) = Len(s) + 1
      /\ \A i \in 1 .. Len(s) : a[i] = s[i] /\ s[i] \in Range(s)
      /\ a[Len(s) + 1] = k
  BY AppendParts, RangeOf
<1> HIDE DEF a
<1> SUFFICES ASSUME NEW i \in 1 .. Len(a), NEW j \in 1 .. Len(a), i < j,
                    Message(a[i]), Message(a[j])
             PROVE  a[i].id < a[j].id
  BY DEF InOrder, a
<1>2. i \in 1 .. Len(s)
  BY <1>1
<1>3. CASE j = Len(s) + 1
  BY <1>1, <1>2, <1>3
<1>4. CASE j \in 1 .. Len(s)
  BY <1>1, <1>2, <1>4 DEF InOrder
<1> QED
  BY <1>1, <1>3, <1>4

-----------------------------------------------------------------------------
(***************************************************************************)
(* The steps that neither send nor take a message.                         *)
(***************************************************************************)
SameMessages(p, q) ==
  /\ Messages(p, q)' = Messages(p, q)
  /\ InOrder(Flow(p, q)) => InOrder(Flow(p, q)')

LEMMA MessagesSame ==
  ASSUME NEW p \in Proc, NEW q \in Proc, Flow(p, q)' = Flow(p, q)
  PROVE  SameMessages(p, q)
BY DEF SameMessages, Messages

LEMMA MessagesAppend ==
  ASSUME TypeOK, NEW p \in Proc, NEW q \in Proc, NEW k \in Packet, ~Message(k),
         Flow(p, q)' = Append(Flow(p, q), k)
  PROVE  SameMessages(p, q)
<1>1. Flow(p, q) \in Seq(Packet)
  BY FlowType
<1>2. Range(Flow(p, q)') = Range(Flow(p, q)) \cup {k}
  BY <1>1, AppendParts
<1>3. InOrder(Flow(p, q)) => InOrder(Flow(p, q)')
  BY <1>1, OrderAppend
<1> QED
  BY <1>2, <1>3 DEF SameMessages, Messages

LEMMA MessagesTail ==
  ASSUME TypeOK, NEW p \in Proc, NEW q \in Proc, Flow(p, q) # <<>>,
         ~Message(Head(Flow(p, q))), Flow(p, q)' = Tail(Flow(p, q))
  PROVE  SameMessages(p, q)
<1>1. Flow(p, q) \in Seq(Packet)
  BY FlowType
<1>2. Range(Flow(p, q)) = Range(Flow(p, q)') \cup {Head(Flow(p, q))}
  BY <1>1, TailParts
<1>3. InOrder(Flow(p, q)) => InOrder(Flow(p, q)')
  BY <1>1, OrderTail
<1> QED
  BY <1>2, <1>3 DEF SameMessages, Messages

LEMMA MessagesTurn ==
  ASSUME TypeOK, NEW p \in Proc, NEW q \in Proc, Flow(p, q) # <<>>,
         ~Message(Head(Flow(p, q))), NEW k \in Packet, ~Message(k),
         Flow(p, q)' = Append(Tail(Flow(p, q)), k)
  PROVE  SameMessages(p, q)
<1> DEFINE t == Tail(Flow(p, q))
<1>1. Flow(p, q) \in Seq(Packet)
  BY FlowType
<1>2. Range(Flow(p, q)) = Range(t) \cup {Head(Flow(p, q))} /\ t \in Seq(Packet)
  BY <1>1, TailParts
<1>3. InOrder(Flow(p, q)) => InOrder(t)
  BY <1>1, OrderTail
<1> HIDE DEF t
<1>4. Flow(p, q)' = Append(t, k)
  BY DEF t
<1>5. Range(Flow(p, q)') = Range(t) \cup {k}
  <2>1. Range(Append(t, k)) = Range(t) \cup {k}
    BY <1>2, AppendParts
  <2> QED
    BY <1>4, <2>1
<1>6. InOrder(t) => InOrder(Flow(p, q)')
  BY <1>2, <1>4, OrderAppend
<1> QED
  BY <1>2, <1>3, <1>5, <1>6 DEF SameMessages, Messages

LEMMA SendsNoMessage ==
  ASSUME TypeOK, NEW p \in Proc, NEW q \in Proc, NEW k \in Packet, ~Message(k),
         SendPacket(p, q, k), UNCHANGED wire
  PROVE  \A a, b \in Proc : SameMessages(a, b)
<1> TAKE a, b \in Proc
<1>1. CASE a = p /\ b = q
  BY <1>1, NetSend, MessagesAppend
<1>2. CASE a # p \/ b # q
  BY <1>2, NetSend, MessagesSame
<1> QED
  BY <1>1, <1>2

LEMMA ReadsNoMessage ==
  ASSUME TypeOK, NEW q \in Proc, NEW p \in Proc, NEW k, ReadPacket(q, p, k),
         ~Message(k), UNCHANGED sendq
  PROVE  \A a, b \in Proc : SameMessages(a, b)
<1> TAKE a, b \in Proc
<1>1. CASE a = p /\ b = q
  <2>1. Flow(p, q) # <<>> /\ Head(Flow(p, q)) = k
    BY ReadHead
  <2> QED
    BY <1>1, <2>1, NetRead, MessagesTail
<1>2. CASE a # p \/ b # q
  BY <1>2, NetRead, MessagesSame
<1> QED
  BY <1>1, <1>2

LEMMA TurnsNoMessage ==
  ASSUME TypeOK, NEW q \in Proc, NEW p \in Proc, NEW k, ReadPacket(q, p, k),
         ~Message(k), NEW r \in Packet, ~Message(r), SendPacket(q, p, r)
  PROVE  \A a, b \in Proc : SameMessages(a, b)
<1> TAKE a, b \in Proc
<1>1. /\ Flow(p, q) # <<>> /\ Head(Flow(p, q)) = k
  BY ReadHead
<1>2. CASE p = q /\ a = q /\ b = p
  BY <1>1, <1>2, NetReply, MessagesTurn
<1>3. CASE p # q /\ a = q /\ b = p
  BY <1>3, NetReply, MessagesAppend
<1>4. CASE p # q /\ a = p /\ b = q
  BY <1>1, <1>4, NetReply, MessagesTail
<1>5. CASE (a # p \/ b # q) /\ (a # q \/ b # p)
  BY <1>5, NetReply, MessagesSame
<1> QED
  BY <1>2, <1>3, <1>4, <1>5

(* A step that takes the message k off a connection, and may answer it. *)
Takes(p, q, k) ==
  /\ k \in Messages(p, q) /\ Messages(p, q) = Messages(p, q)' \cup {k}
  /\ \A m \in Messages(p, q)' : k.id < m.id
  /\ InOrder(Flow(p, q)')
  /\ \A a, b \in Proc : a # p \/ b # q => SameMessages(a, b)

LEMMA TakesMessage ==
  ASSUME TypeOK, NEW q \in Proc, NEW p \in Proc, p # q, InOrder(Flow(p, q)),
         NEW k, ReadPacket(q, p, k), Message(k),
         \/ UNCHANGED sendq
         \/ \E r \in Packet : ~Message(r) /\ SendPacket(q, p, r)
  PROVE  Takes(p, q, k) /\ k \in Packet
<1> DEFINE t == Tail(Flow(p, q))
<1>1. /\ Flow(p, q) # <<>> /\ Head(Flow(p, q)) = k /\ Flow(p, q) \in Seq(Packet)
      /\ k \in Packet /\ k \in Range(Flow(p, q))
  BY ReadHead
<1>2. Range(Flow(p, q)) = Range(t) \cup {k}
  BY <1>1, TailParts
<1>3. InOrder(t) /\ \A m \in Range(t) : Message(m) => k.id < m.id
  BY <1>1, OrderTail
<1> HIDE DEF t
<1>4. /\ Flow(p, q)' = t
      /\ \A a, b \in Proc : a # p \/ b # q => SameMessages(a, b)
  <2>1. CASE UNCHANGED sendq
    BY <2>1, NetRead, MessagesSame DEF t
  <2>2. ASSUME NEW r \in Packet, ~Message(r), SendPacket(q, p, r)
        PROVE  <1>4!:
    <3>1. Flow(p, q)' = t /\ Flow(q, p)' = Append(Flow(q, p), r)
      BY <2>2, NetReply DEF t
    <3>2. ASSUME NEW a \in Proc, NEW b \in Proc, a # p \/ b # q
          PROVE  SameMessages(a, b)
      <4>1. CASE a = q /\ b = p
        BY <2>2, <3>1, <4>1, MessagesAppend
      <4>2. CASE a # q \/ b # p
        BY <2>2, <3>2, <4>2, NetReply, MessagesSame
      <4> QED
        BY <4>1, <4>2
    <3> QED
      BY <3>1, <3>2
  <2> QED
    BY <2>1, <2>2
<1> QED
  BY <1>1, <1>2, <1>3, <1>4 DEF Takes, Messages

-----------------------------------------------------------------------------
(***************************************************************************)
(* The histories.                                                          *)
(***************************************************************************)
SameSends == \A p \in Proc, n \in Nat, q \in Proc, t \in Tag :
               IsPending(p, n, q, t)' <=> IsPending(p, n, q, t)
SameRecvs == \A q \in Proc : \A n, r, t : IsOpen(q, n, r, t)' <=> IsOpen(q, n, r, t)

(* Message n of p is pending no more. *)
Settles(p, n) ==
  \A a \in Proc, m \in Nat, q \in Proc, t \in Tag :
    IsPending(a, m, q, t)' <=> IsPending(a, m, q, t) /\ ~(a = p /\ m = n)

LEMMA SendsSame ==
  ASSUME UNCHANGED sent
  PROVE  SameSends
BY DEF SameSends, IsPending

LEMMA SettlesSend ==
  ASSUME TypeOK, NEW p \in Proc, NEW n \in Nat, NEW f, f # "pending",
         \A a \in Proc : a # p => sent'[a] = sent[a],
         sent'[p] = [sent[p] EXCEPT ![n] = [@ EXCEPT !.fate = f]]
  PROVE  Settles(p, n)
<1>1. sent[p] \in Seq(SendRec)
  BY DEF TypeOK
<1>2. Len(sent'[p]) = Len(sent[p]) /\ Len(sent[p]) \in Nat
  BY <1>1, LenProperties
<1>3. \A m \in 1 .. Len(sent[p]) : m # n => sent'[p][m] = sent[p][m]
  BY <1>1
<1>4. ASSUME n \in 1 .. Len(sent[p]) PROVE sent'[p][n].fate = f
  <2>1. sent[p][n] \in SendRec
    BY <1>1, <1>4, ElementOfSeq
  <2>2. sent'[p][n] = [sent[p][n] EXCEPT !.fate = f]
    BY <1>1, <1>4
  <2> QED
    BY <2>1, <2>2 DEF SendRec
<1> QED
  BY <1>2, <1>3, <1>4 DEF Settles, IsPending

(* A send that is over when it is made, or one whose message is pending. *)
LEMMA MatchedSend ==
  ASSUME TypeOK, NEW p \in Proc, NEW q \in Proc, NEW t \in Tag, NEW mode \in Mode,
         sent' = [sent EXCEPT ![p] = RecordSend(p, q, t, mode, "matched", @)]
  PROVE  SameSends
<1> DEFINE r == [dst |-> q, tag |-> t, asked |-> FALSE, fate |-> "matched",
                 mode |-> mode, outcome |-> "active"]
<1>1. sent[p] \in Seq(SendRec) /\ r \in SendRec /\ r.fate = "matched"
  BY DEF TypeOK, SendRec
<1>2. sent'[p] = Append(sent[p], r) /\ \A a \in Proc : a # p => sent'[a] = sent[a]
  BY DEF TypeOK, RecordSend
<1> HIDE DEF r
<1>3. /\ Len(sent[p]) \in Nat /\ Len(sent'[p]) = Len(sent[p]) + 1
      /\ \A i \in 1 .. Len(sent[p]) : sent'[p][i] = sent[p][i]
      /\ sent'[p][Len(sent[p]) + 1] = r
  BY <1>1, <1>2, AppendParts
<1> QED
  BY <1>1, <1>2, <1>3 DEF SameSends, IsPending

(* The next message of p is to q, with tag t. *)
AddsSend(p, q, t) ==
  \A a \in Proc, m \in Nat, b \in Proc, u \in Tag :
    IsPending(a, m, b, u)' <=>
      IsPending(a, m, b, u) \/ (a = p /\ m = Len(sent[p]) + 1 /\ b = q /\ u = t)

LEMMA PendingSend ==
  ASSUME TypeOK, NEW p \in Proc, NEW q \in Proc, NEW t \in Tag, NEW mode \in Mode,
         sent' = [sent EXCEPT ![p] = RecordSend(p, q, t, mode, "pending", @)]
  PROVE  AddsSend(p, q, t)
<1> DEFINE r == [dst |-> q, tag |-> t, asked |-> FALSE, fate |-> "pending",
                 mode |-> mode, outcome |-> "active"]
<1>1. /\ sent[p] \in Seq(SendRec) /\ r \in SendRec
      /\ r.fate = "pending" /\ r.dst = q /\ r.tag = t
  BY DEF TypeOK, SendRec
<1>2. sent'[p] = Append(sent[p], r) /\ \A a \in Proc : a # p => sent'[a] = sent[a]
  BY DEF TypeOK, RecordSend
<1> HIDE DEF r
<1>3. /\ Len(sent[p]) \in Nat /\ Len(sent'[p]) = Len(sent[p]) + 1
      /\ \A i \in 1 .. Len(sent[p]) : sent'[p][i] = sent[p][i]
      /\ sent'[p][Len(sent[p]) + 1] = r
  BY <1>1, <1>2, AppendParts
<1> QED
  BY <1>1, <1>2, <1>3 DEF AddsSend, IsPending

LEMMA RecvsSame ==
  ASSUME UNCHANGED rcvd
  PROVE  SameRecvs
BY DEF SameRecvs, IsOpen

(* Receive n of q is open no more. *)
Closes(q, n) ==
  \A b \in Proc : \A m, r, t :
    IsOpen(b, m, r, t)' <=> IsOpen(b, m, r, t) /\ ~(b = q /\ m = n)

LEMMA ClosesRecv ==
  ASSUME TypeOK, NEW q \in Proc, NEW n \in Nat,
         \A b \in Proc : b # q => rcvd'[b] = rcvd[b],
         Len(rcvd'[q]) = Len(rcvd[q]),
         \A m \in 1 .. Len(rcvd[q]) : m # n => rcvd'[q][m] = rcvd[q][m],
         n \in 1 .. Len(rcvd[q]) => rcvd'[q][n].fate # "pending"
  PROVE  Closes(q, n)
BY DEF Closes, IsOpen

LEMMA MatchedRecv ==
  ASSUME TypeOK, NEW p \in Proc, NEW f \in Filters, NEW m \in (Proc \X Nat) \cup {None},
         rcvd' = [rcvd EXCEPT ![p] = RecordRecv(f, "matched", m, @)]
  PROVE  SameRecvs
<1> DEFINE r == [rank |-> f.rank, tag |-> f.tag, fate |-> "matched", msg |-> m]
<1>1. rcvd[p] \in Seq(RecvRec) /\ r \in RecvRec /\ r.fate = "matched"
  BY FilterAssumption DEF TypeOK, RecvRec
<1>2. rcvd'[p] = Append(rcvd[p], r) /\ \A a \in Proc : a # p => rcvd'[a] = rcvd[a]
  BY DEF TypeOK, RecordRecv
<1> HIDE DEF r
<1>3. /\ Len(rcvd[p]) \in Nat /\ Len(rcvd'[p]) = Len(rcvd[p]) + 1
      /\ \A i \in 1 .. Len(rcvd[p]) : rcvd'[p][i] = rcvd[p][i]
      /\ rcvd'[p][Len(rcvd[p]) + 1] = r
  BY <1>1, <1>2, AppendParts
<1> QED
  BY <1>1, <1>2, <1>3 DEF SameRecvs, IsOpen

Opens(p, f) ==
  \A b \in Proc : \A m, r, t :
    IsOpen(b, m, r, t)' <=>
      IsOpen(b, m, r, t) \/ (b = p /\ m = Len(rcvd[p]) + 1 /\ r = f.rank /\ t = f.tag)

LEMMA PendingRecv ==
  ASSUME TypeOK, NEW p \in Proc, NEW f \in Filters,
         rcvd' = [rcvd EXCEPT ![p] = RecordRecv(f, "pending", None, @)]
  PROVE  Opens(p, f)
<1> DEFINE r == [rank |-> f.rank, tag |-> f.tag, fate |-> "pending", msg |-> None]
<1>1. /\ rcvd[p] \in Seq(RecvRec) /\ r \in RecvRec
      /\ r.fate = "pending" /\ r.rank = f.rank /\ r.tag = f.tag
  BY FilterAssumption DEF TypeOK, RecvRec
<1>2. rcvd'[p] = Append(rcvd[p], r) /\ \A a \in Proc : a # p => rcvd'[a] = rcvd[a]
  BY DEF TypeOK, RecordRecv
<1> HIDE DEF r
<1>3. /\ Len(rcvd[p]) \in Nat /\ Len(rcvd'[p]) = Len(rcvd[p]) + 1
      /\ \A i \in 1 .. Len(rcvd[p]) : rcvd'[p][i] = rcvd[p][i]
      /\ rcvd'[p][Len(rcvd[p]) + 1] = r
  BY <1>1, <1>2, AppendParts
<1> QED
  BY <1>1, <1>2, <1>3 DEF Opens, IsOpen

-----------------------------------------------------------------------------
(***************************************************************************)
(* The order of the entries of the two queues.                             *)
(***************************************************************************)
LEMMA RankRemove ==
  ASSUME NEW s \in Seq(Arrival), InRankOrder(s), NEW i \in 1 .. Len(s)
  PROVE  /\ InRankOrder(RemoveAt(s, i))
         /\ Range(s) = Range(RemoveAt(s, i)) \cup {s[i]}
         /\ \A x \in Range(RemoveAt(s, i)) : x.rank = s[i].rank => x.id # s[i].id
<1> DEFINE t == RemoveAt(s, i)
           At(k) == IF k < i THEN k ELSE k + 1
<1>1. /\ t \in Seq(Arrival) /\ Len(t) = Len(s) - 1 /\ Len(s) \in Nat
      /\ \A k \in 1 .. Len(s) - 1 : t[k] = s[At(k)]
      /\ Range(s) = Range(t) \cup {s[i]}
  BY RemoveParts, LenProperties
<1>2. \A k \in 1 .. Len(s) - 1 : At(k) \in 1 .. Len(s) /\ At(k) # i
  BY <1>1
<1>3. \A k, l \in 1 .. Len(s) - 1 : k < l => At(k) < At(l)
  BY <1>1
<1>4. \A k \in 1 .. Len(s) : s[k].id \in Nat
  <2>1. \A k \in 1 .. Len(s) : s[k] \in Arrival
    BY ElementOfSeq
  <2>2. \A e \in Arrival : e.id \in Nat
    BY DEF Arrival
  <2> QED
    BY <2>1, <2>2
<1> HIDE DEF t, At
<1>5. InRankOrder(t)
  BY <1>1, <1>2, <1>3 DEF InRankOrder
<1>6. ASSUME NEW x \in Range(t), x.rank = s[i].rank PROVE x.id # s[i].id
  <2>1. PICK k \in 1 .. Len(s) - 1 : x = t[k]
    BY <1>1, RangeOf
  <2>2. x = s[At(k)] /\ At(k) \in 1 .. Len(s) /\ At(k) # i
    BY <1>1, <1>2, <2>1
  <2>3. At(k) < i \/ i < At(k)
    BY <1>1, <2>2
  <2> QED
    BY <1>4, <1>6, <2>2, <2>3 DEF InRankOrder
<1> QED
  BY <1>1, <1>5, <1>6 DEF t

LEMMA RankAppend ==
  ASSUME NEW s \in Seq(Arrival), InRankOrder(s), NEW e \in Arrival,
         \A x \in Range(s) : x.rank = e.rank => x.id < e.id
  PROVE  InRankOrder(Append(s, e)) /\ Range(Append(s, e)) = Range(s) \cup {e}
<1> DEFINE a == Append(s, e)
<1>1. /\ Len(s) \in Nat /\ Len(a) = Len(s) + 1
      /\ \A i \in 1 .. Len(s) : a[i] = s[i] /\ s[i] \in Range(s)
      /\ a[Len(s) + 1] = e
      /\ Range(a) = Range(s) \cup {e}
  BY AppendParts, RangeOf
<1> HIDE DEF a
<1>2. ASSUME NEW i \in 1 .. Len(a), NEW j \in 1 .. Len(a), i < j, a[i].rank = a[j].rank
      PROVE  a[i].id < a[j].id
  <2>2. i \in 1 .. Len(s)
    BY <1>1, <1>2
  <2>3. CASE j = Len(s) + 1
    BY <1>1, <1>2, <2>2, <2>3
  <2>4. CASE j \in 1 .. Len(s)
    BY <1>1, <1>2, <2>2, <2>4 DEF InRankOrder
  <2> QED
    BY <1>1, <2>3, <2>4
<1> QED
  BY <1>1, <1>2 DEF InRankOrder, a

LEMMA PostRemove ==
  ASSUME NEW s \in Seq(Posting), InPostOrder(s), NEW i \in 1 .. Len(s)
  PROVE  /\ InPostOrder(RemoveAt(s, i))
         /\ Range(s) = Range(RemoveAt(s, i)) \cup {s[i]}
         /\ \A x \in Range(RemoveAt(s, i)) : x.id # s[i].id
<1> DEFINE t == RemoveAt(s, i)
           At(k) == IF k < i THEN k ELSE k + 1
<1>1. /\ t \in Seq(Posting) /\ Len(t) = Len(s) - 1 /\ Len(s) \in Nat
      /\ \A k \in 1 .. Len(s) - 1 : t[k] = s[At(k)]
      /\ Range(s) = Range(t) \cup {s[i]}
  BY RemoveParts, LenProperties
<1>2. \A k \in 1 .. Len(s) - 1 : At(k) \in 1 .. Len(s) /\ At(k) # i
  BY <1>1
<1>3. \A k, l \in 1 .. Len(s) - 1 : k < l => At(k) < At(l)
  BY <1>1
<1>4. \A k \in 1 .. Len(s) : s[k].id \in Nat
  <2>1. \A k \in 1 .. Len(s) : s[k] \in Posting
    BY ElementOfSeq
  <2>2. \A e \in Posting : e.id \in Nat
    BY DEF Posting
  <2> QED
    BY <2>1, <2>2
<1> HIDE DEF t, At
<1>5. InPostOrder(t)
  BY <1>1, <1>2, <1>3 DEF InPostOrder
<1>6. ASSUME NEW x \in Range(t) PROVE x.id # s[i].id
  <2>1. PICK k \in 1 .. Len(s) - 1 : x = t[k]
    BY <1>1, RangeOf
  <2>2. x = s[At(k)] /\ At(k) \in 1 .. Len(s) /\ At(k) # i
    BY <1>1, <1>2, <2>1
  <2>3. At(k) < i \/ i < At(k)
    BY <1>1, <2>2
  <2> QED
    BY <1>4, <1>6, <2>2, <2>3 DEF InPostOrder
<1> QED
  BY <1>1, <1>5, <1>6 DEF t

LEMMA PostAppend ==
  ASSUME NEW s \in Seq(Posting), InPostOrder(s), NEW e \in Posting,
         \A x \in Range(s) : x.id < e.id
  PROVE  InPostOrder(Append(s, e)) /\ Range(Append(s, e)) = Range(s) \cup {e}
<1> DEFINE a == Append(s, e)
<1>1. /\ Len(s) \in Nat /\ Len(a) = Len(s) + 1
      /\ \A i \in 1 .. Len(s) : a[i] = s[i] /\ s[i] \in Range(s)
      /\ a[Len(s) + 1] = e
      /\ Range(a) = Range(s) \cup {e}
  BY AppendParts, RangeOf
<1> HIDE DEF a
<1>2. ASSUME NEW i \in 1 .. Len(a), NEW j \in 1 .. Len(a), i < j
      PROVE  a[i].id < a[j].id
  <2>2. i \in 1 .. Len(s)
    BY <1>1, <1>2
  <2>3. CASE j = Len(s) + 1
    BY <1>1, <1>2, <2>2, <2>3
  <2>4. CASE j \in 1 .. Len(s)
    BY <1>1, <1>2, <2>2, <2>4 DEF InPostOrder
  <2> QED
    BY <1>1, <2>3, <2>4
<1> QED
  BY <1>1, <1>2 DEF InPostOrder, a

-----------------------------------------------------------------------------
(***************************************************************************)
(* Where the messages from p to q are, after each kind of step.            *)
(***************************************************************************)
LEMMA MessageFields ==
  ASSUME NEW k \in Packet, Message(k)
  PROVE  k.sreq \in Handle /\ k.tag \in Tag /\ k.id \in Nat
         /\ k.size \in {"zero", "eager", "rndv"}
<1>1. k \in [type : EagerTypes \cup {"RTS"}, sreq : Handle, tag : Tag,
             size : {"zero", "eager", "rndv"}, id : Nat]
  BY DEF Packet, Message, EagerTypes
<1> QED
  BY <1>1

LEMMA TransitTypes ==
  ASSUME TypeOK, NEW p \in Proc, NEW q \in Proc
  PROVE  /\ \A k \in Messages(p, q) : k \in Packet /\ k.id \in Nat /\ k.tag \in Tag
         /\ \A e \in Arrivals(p, q) : e \in Arrival /\ e.id \in Nat /\ e.tag \in Tag
         /\ \A n, t : IsPending(p, n, q, t) => n \in Nat /\ n \in 1 .. Len(sent[p])
         /\ Len(sent[p]) \in Nat
<1>1. Flow(p, q) \in Seq(Packet)
  BY FlowType
<1>2. \A k \in Messages(p, q) : k \in Packet /\ Message(k)
  BY <1>1, RangeOf DEF Messages
<1>3. unexpected[q] \in Seq(Arrival) /\ sent[p] \in Seq(SendRec)
  BY DEF TypeOK
<1>4. \A e \in Arrivals(p, q) : e \in Arrival
  BY <1>3, RangeOf DEF Arrivals
<1>5. Len(sent[p]) \in Nat
  BY <1>3, LenProperties
<1> QED
  BY <1>2, <1>4, <1>5, MessageFields DEF Arrival, IsPending

LEMMA TransitKept ==
  ASSUME TypeOK, TypeOK', NEW p \in Proc, NEW q \in Proc, InTransit(p, q),
         SameMessages(p, q), Arrivals(p, q)' = Arrivals(p, q),
         \A n \in Nat, t \in Tag : IsPending(p, n, q, t)' <=> IsPending(p, n, q, t)
  PROVE  InTransit(p, q)'
<1>1. /\ \A k \in Messages(p, q) : k.id \in Nat /\ k.tag \in Tag
      /\ \A e \in Arrivals(p, q) : e.id \in Nat /\ e.tag \in Tag
      /\ \A n, t : IsPending(p, n, q, t) => n \in 1 .. Len(sent[p])
      /\ Len(sent'[p]) \in Nat
  BY TransitTypes
<1>2. Messages(p, q)' = Messages(p, q) /\ InOrder(Flow(p, q)')
  BY DEF SameMessages, InTransit
<1>3. ASSUME NEW n \in 1 .. Len(sent'[p]), NEW t \in Tag, IsPending(p, n, q, t)'
      PROVE  \/ \E k \in Messages(p, q)' : k.id = n
             \/ \E e \in Arrivals(p, q)' : e.id = n
  BY <1>1, <1>2, <1>3 DEF InTransit
<1> QED
  BY <1>1, <1>2, <1>3 DEF InTransit

LEMMA TransitSent ==
  ASSUME TypeOK, TypeOK', NEW p \in Proc, NEW q \in Proc, InTransit(p, q), p # q,
         NEW k \in Packet, Message(k), k.id = Len(sent[p]) + 1,
         Flow(p, q)' = Append(Flow(p, q), k), Arrivals(p, q)' = Arrivals(p, q),
         AddsSend(p, q, k.tag)
  PROVE  InTransit(p, q)'
<1>1. /\ \A m \in Messages(p, q) : m.id \in Nat /\ m.tag \in Tag
      /\ \A e \in Arrivals(p, q) : e.id \in Nat /\ e.tag \in Tag
      /\ \A n, t : IsPending(p, n, q, t) => n \in 1 .. Len(sent[p])
      /\ Len(sent'[p]) \in Nat /\ Len(sent[p]) \in Nat
      /\ k.tag \in Tag /\ k.id \in Nat
  BY TransitTypes, MessageFields
<1>2. Flow(p, q) \in Seq(Packet)
  BY FlowType
<1>3. Messages(p, q)' = Messages(p, q) \cup {k}
  <2>1. Range(Append(Flow(p, q), k)) = Range(Flow(p, q)) \cup {k}
    BY <1>2, AppendParts
  <2> QED
    BY <2>1 DEF Messages
<1>4. \A n \in Nat, t \in Tag :
        IsPending(p, n, q, t)' <=>
          IsPending(p, n, q, t) \/ (n = Len(sent[p]) + 1 /\ t = k.tag)
  BY DEF AddsSend
<1>5. \A m \in Messages(p, q) : m.id < k.id
  BY <1>1 DEF InTransit
<1>6. \A e \in Arrivals(p, q) : e.id < k.id
  BY <1>1 DEF InTransit
<1>7. InOrder(Flow(p, q)')
  <2>1. \A m \in Range(Flow(p, q)) : Message(m) => m.id < k.id
    BY <1>5 DEF Messages
  <2>2. InOrder(Append(Flow(p, q), k))
    BY <1>2, <2>1, OrderAppend DEF InTransit
  <2> QED
    BY <2>2
<1>8. ASSUME NEW n \in 1 .. Len(sent'[p]), NEW t \in Tag, IsPending(p, n, q, t)'
      PROVE  \/ \E m \in Messages(p, q)' : m.id = n
             \/ \E e \in Arrivals(p, q)' : e.id = n
  BY <1>1, <1>3, <1>4, <1>8 DEF InTransit
<1>9. /\ \A m \in Messages(p, q)' : p # q /\ IsPending(p, m.id, q, m.tag)'
      /\ \A e \in Arrivals(p, q)' : IsPending(p, e.id, q, e.tag)'
  BY <1>1, <1>3, <1>4 DEF InTransit
<1>10. \A m \in Messages(p, q)', e \in Arrivals(p, q)' : e.id < m.id
  BY <1>3, <1>6 DEF InTransit
<1> QED
  BY <1>7, <1>8, <1>9, <1>10 DEF InTransit

(* A message to oneself goes straight to the unexpected queue. *)
LEMMA TransitSelf ==
  ASSUME TypeOK, TypeOK', NEW p \in Proc, InTransit(p, p),
         NEW e \in Arrival, e.id = Len(sent[p]) + 1,
         SameMessages(p, p), Arrivals(p, p)' = Arrivals(p, p) \cup {e},
         AddsSend(p, p, e.tag)
  PROVE  InTransit(p, p)'
<1>1. /\ \A x \in Arrivals(p, p) : x.id \in Nat /\ x.tag \in Tag
      /\ \A n, t : IsPending(p, n, p, t) => n \in 1 .. Len(sent[p])
      /\ Len(sent'[p]) \in Nat /\ Len(sent[p]) \in Nat
      /\ e.tag \in Tag /\ e.id \in Nat
  BY TransitTypes DEF Arrival
<1>2. \A n \in Nat, t \in Tag :
        IsPending(p, n, p, t)' <=>
          IsPending(p, n, p, t) \/ (n = Len(sent[p]) + 1 /\ t = e.tag)
  BY DEF AddsSend
<1>3. Messages(p, p)' = {} /\ Messages(p, p) = {} /\ InOrder(Flow(p, p)')
  BY DEF SameMessages, InTransit
<1>4. ASSUME NEW n \in 1 .. Len(sent'[p]), NEW t \in Tag, IsPending(p, n, p, t)'
      PROVE  \E x \in Arrivals(p, p)' : x.id = n
  BY <1>1, <1>2, <1>3, <1>4 DEF InTransit
<1> QED
  BY <1>1, <1>2, <1>3, <1>4 DEF InTransit

(* A message is received or taken back from the unexpected queue. *)
LEMMA TransitDequeued ==
  ASSUME TypeOK, TypeOK', NEW p \in Proc, NEW q \in Proc, InTransit(p, q),
         NEW e, SameMessages(p, q), Arrivals(p, q) = Arrivals(p, q)' \cup {e},
         \A x \in Arrivals(p, q)' : x.id # e.id, Settles(p, e.id)
  PROVE  InTransit(p, q)'
<1>1. /\ \A m \in Messages(p, q) : m.id \in Nat /\ m.tag \in Tag
      /\ \A x \in Arrivals(p, q) : x.id \in Nat /\ x.tag \in Tag
      /\ \A n, t : IsPending(p, n, q, t) => n \in 1 .. Len(sent[p])
      /\ Len(sent'[p]) \in Nat /\ Len(sent[p]) \in Nat
  BY TransitTypes
<1>2. \A n \in Nat, t \in Tag :
        IsPending(p, n, q, t)' <=> IsPending(p, n, q, t) /\ n # e.id
  BY DEF Settles
<1>3. Messages(p, q)' = Messages(p, q) /\ InOrder(Flow(p, q)')
  BY DEF SameMessages, InTransit
<1>4. ASSUME NEW n \in 1 .. Len(sent'[p]), NEW t \in Tag, IsPending(p, n, q, t)'
      PROVE  \/ \E m \in Messages(p, q)' : m.id = n
             \/ \E x \in Arrivals(p, q)' : x.id = n
  BY <1>1, <1>2, <1>3, <1>4 DEF InTransit
<1>5. \A m \in Messages(p, q) : m.id # e.id
  BY <1>1 DEF InTransit
<1> QED
  BY <1>1, <1>2, <1>3, <1>4, <1>5 DEF InTransit

(* A message leaves the connection for a posted receive. *)
LEMMA TransitMatched ==
  ASSUME TypeOK, TypeOK', NEW p \in Proc, NEW q \in Proc, InTransit(p, q),
         NEW k, Takes(p, q, k), Arrivals(p, q)' = Arrivals(p, q), Settles(p, k.id)
  PROVE  InTransit(p, q)'
<1>1. /\ \A m \in Messages(p, q) : m.id \in Nat /\ m.tag \in Tag
      /\ \A x \in Arrivals(p, q) : x.id \in Nat /\ x.tag \in Tag
      /\ \A n, t : IsPending(p, n, q, t) => n \in 1 .. Len(sent[p])
      /\ Len(sent'[p]) \in Nat /\ Len(sent[p]) \in Nat
  BY TransitTypes
<1>2. \A n \in Nat, t \in Tag :
        IsPending(p, n, q, t)' <=> IsPending(p, n, q, t) /\ n # k.id
  BY DEF Settles
<1>3. /\ k \in Messages(p, q) /\ Messages(p, q) = Messages(p, q)' \cup {k}
      /\ InOrder(Flow(p, q)') /\ \A m \in Messages(p, q)' : m.id # k.id
  BY <1>1 DEF Takes
<1>4. ASSUME NEW n \in 1 .. Len(sent'[p]), NEW t \in Tag, IsPending(p, n, q, t)'
      PROVE  \/ \E m \in Messages(p, q)' : m.id = n
             \/ \E x \in Arrivals(p, q)' : x.id = n
  BY <1>1, <1>2, <1>3, <1>4 DEF InTransit
<1>5. \A x \in Arrivals(p, q) : x.id # k.id
  BY <1>1, <1>3 DEF InTransit
<1> QED
  BY <1>1, <1>2, <1>3, <1>4, <1>5 DEF InTransit

(* A message leaves the connection for the unexpected queue. *)
LEMMA TransitQueued ==
  ASSUME TypeOK, TypeOK', NEW p \in Proc, NEW q \in Proc, InTransit(p, q),
         NEW k, Takes(p, q, k), NEW e, e.id = k.id, e.tag = k.tag,
         Arrivals(p, q)' = Arrivals(p, q) \cup {e}, UNCHANGED sent
  PROVE  InTransit(p, q)'
<1>1. /\ \A m \in Messages(p, q) : m.id \in Nat /\ m.tag \in Tag
      /\ \A x \in Arrivals(p, q) : x.id \in Nat /\ x.tag \in Tag
      /\ \A n, t : IsPending(p, n, q, t) => n \in 1 .. Len(sent[p])
  BY TransitTypes
<1>2. \A n, t : IsPending(p, n, q, t)' <=> IsPending(p, n, q, t)
  BY DEF IsPending
<1>3. /\ k \in Messages(p, q) /\ Messages(p, q) = Messages(p, q)' \cup {k}
      /\ InOrder(Flow(p, q)') /\ \A m \in Messages(p, q)' : k.id < m.id
  BY <1>1 DEF Takes
<1>4. ASSUME NEW n \in 1 .. Len(sent'[p]), NEW t \in Tag, IsPending(p, n, q, t)'
      PROVE  \/ \E m \in Messages(p, q)' : m.id = n
             \/ \E x \in Arrivals(p, q)' : x.id = n
  BY <1>1, <1>2, <1>3, <1>4 DEF InTransit
<1> QED
  BY <1>1, <1>2, <1>3, <1>4 DEF InTransit

-----------------------------------------------------------------------------
(***************************************************************************)
(* The posted receives of q, after each kind of step.                      *)
(***************************************************************************)
LEMMA PostedTypes ==
  ASSUME TypeOK, NEW q \in Proc
  PROVE  /\ posted[q] \in Seq(Posting) /\ Len(rcvd[q]) \in Nat
         /\ \A e \in Range(posted[q]) : e \in Posting /\ e.id \in Nat
         /\ \A n, r, t : IsOpen(q, n, r, t) => n \in 1 .. Len(rcvd[q])
<1>1. posted[q] \in Seq(Posting) /\ rcvd[q] \in Seq(RecvRec)
  BY DEF TypeOK
<1>2. \A e \in Range(posted[q]) : e \in Posting
  BY <1>1, RangeOf
<1> QED
  BY <1>1, <1>2, LenProperties DEF Posting, IsOpen

LEMMA OpenIsPosted ==
  ASSUME NEW q \in Proc
  PROVE  PostedInv(q) <=>
           /\ InPostOrder(posted[q])
           /\ \A e \in Range(posted[q]) : IsOpen(q, e.id, e.rank, e.tag)
           /\ \A n, r, t : IsOpen(q, n, r, t) => \E e \in Range(posted[q]) : e.id = n
BY DEF PostedInv, IsOpen

LEMMA PostedKept ==
  ASSUME NEW q \in Proc, PostedInv(q), posted'[q] = posted[q],
         \A n, r, t : IsOpen(q, n, r, t)' <=> IsOpen(q, n, r, t)
  PROVE  PostedInv(q)'
<1>1. /\ InPostOrder(posted'[q])
      /\ \A e \in Range(posted'[q]) : IsOpen(q, e.id, e.rank, e.tag)'
      /\ \A n, r, t : IsOpen(q, n, r, t)' => \E e \in Range(posted'[q]) : e.id = n
  BY OpenIsPosted
<1> QED
  BY <1>1 DEF PostedInv

LEMMA PostedAdds ==
  ASSUME TypeOK, NEW q \in Proc, PostedInv(q), NEW e \in Posting,
         e.id = Len(rcvd[q]) + 1, posted'[q] = Append(posted[q], e), Opens(q, e)
  PROVE  PostedInv(q)'
<1>1. /\ posted[q] \in Seq(Posting) /\ Len(rcvd[q]) \in Nat
      /\ \A x \in Range(posted[q]) : x \in Posting /\ x.id \in Nat
      /\ \A n, r, t : IsOpen(q, n, r, t) => n \in 1 .. Len(rcvd[q])
  BY PostedTypes
<1>2. \A x \in Range(posted[q]) : x.id < e.id
  BY <1>1 DEF PostedInv
<1>3. InPostOrder(posted'[q]) /\ Range(posted'[q]) = Range(posted[q]) \cup {e}
  <2>1. /\ InPostOrder(Append(posted[q], e))
        /\ Range(Append(posted[q], e)) = Range(posted[q]) \cup {e}
    BY <1>1, <1>2, PostAppend DEF PostedInv
  <2> QED
    BY <2>1
<1>4. \A n, r, t : IsOpen(q, n, r, t)' <=>
        IsOpen(q, n, r, t) \/ (n = Len(rcvd[q]) + 1 /\ r = e.rank /\ t = e.tag)
  BY DEF Opens
<1>5. \A x \in Range(posted'[q]) : IsOpen(q, x.id, x.rank, x.tag)'
  BY <1>3, <1>4 DEF PostedInv
<1>6. \A n, r, t : IsOpen(q, n, r, t)' => \E x \in Range(posted'[q]) : x.id = n
  BY <1>3, <1>4, OpenIsPosted
<1> QED
  BY <1>3, <1>5, <1>6 DEF PostedInv

LEMMA PostedRemoves ==
  ASSUME TypeOK, NEW q \in Proc, PostedInv(q), NEW i \in 1 .. Len(posted[q]),
         posted'[q] = RemoveAt(posted[q], i), Closes(q, posted[q][i].id)
  PROVE  PostedInv(q)'
<1> DEFINE e == posted[q][i]
<1>1. posted[q] \in Seq(Posting)
  BY PostedTypes
<1>2. /\ InPostOrder(posted'[q]) /\ Range(posted[q]) = Range(posted'[q]) \cup {e}
      /\ \A x \in Range(posted'[q]) : x.id # e.id
  BY <1>1, PostRemove DEF PostedInv
<1>3. \A n, r, t : IsOpen(q, n, r, t)' <=> IsOpen(q, n, r, t) /\ n # e.id
  BY DEF Closes
<1> HIDE DEF e
<1>5. \A x \in Range(posted'[q]) : IsOpen(q, x.id, x.rank, x.tag)'
  BY <1>2, <1>3 DEF PostedInv
<1>6. \A n, r, t : IsOpen(q, n, r, t)' => \E x \in Range(posted'[q]) : x.id = n
  BY <1>2, <1>3, OpenIsPosted
<1> QED
  BY <1>2, <1>5, <1>6 DEF PostedInv

-----------------------------------------------------------------------------
(***************************************************************************)
(* The steps that leave every message where it is.                         *)
(***************************************************************************)
LEMMA MessagesKept ==
  ASSUME TypeOK, TypeOK', MessageInv, \A a, b \in Proc : SameMessages(a, b),
         SameSends, SameRecvs, UNCHANGED queues
  PROVE  MessageInv'
<1>1. ASSUME NEW p \in Proc, NEW q \in Proc PROVE InTransit(p, q)'
  <2>1. InTransit(p, q) /\ SameMessages(p, q) /\ Arrivals(p, q)' = Arrivals(p, q)
    BY DEF MessageInv, Arrivals, queues
  <2>2. \A n \in Nat, t \in Tag : IsPending(p, n, q, t)' <=> IsPending(p, n, q, t)
    BY DEF SameSends
  <2> QED
    BY <2>1, <2>2, TransitKept
<1>2. ASSUME NEW q \in Proc PROVE PostedInv(q)'
  BY PostedKept DEF MessageInv, SameRecvs, queues
<1> QED
  BY <1>1, <1>2 DEF MessageInv, queues

(* A change to a record that is about neither its envelope nor its fate. *)
LEMMA SendsNoted ==
  ASSUME TypeOK, NEW p \in Proc, NEW n, NEW r,
         sent' = [sent EXCEPT ![p][n] = r],
         n \in DOMAIN sent[p] => /\ r.dst = sent[p][n].dst /\ r.tag = sent[p][n].tag
                                 /\ r.fate = sent[p][n].fate
  PROVE  SameSends
<1>1. sent[p] \in Seq(SendRec)
  BY DEF TypeOK
<1>2. \A a \in Proc : a # p => sent'[a] = sent[a]
  BY DEF TypeOK
<1>3. Len(sent'[p]) = Len(sent[p]) /\ DOMAIN sent[p] = 1 .. Len(sent[p])
  BY <1>1, LenProperties DEF TypeOK
<1>4. \A m \in 1 .. Len(sent[p]) : sent'[p][m] = IF m = n THEN r ELSE sent[p][m]
  BY <1>1, <1>3 DEF TypeOK
<1> QED
  BY <1>2, <1>3, <1>4 DEF SameSends, IsPending

LEMMA OutcomeNoted ==
  ASSUME TypeOK, NEW p \in Proc, NEW n, NEW v,
         \/ sent' = [sent EXCEPT ![p][n].outcome = v]
         \/ sent' = [sent EXCEPT ![p][n].asked = v]
         \/ sent' = sent
  PROVE  SameSends
<1>1. sent[p] \in Seq(SendRec)
  BY DEF TypeOK
<1>2. n \in DOMAIN sent[p] => sent[p][n] \in SendRec
  BY <1>1, ElementOfSeq
<1>3. CASE sent' = [sent EXCEPT ![p][n].outcome = v]
  <2> DEFINE r == [sent[p][n] EXCEPT !.outcome = v]
  <2>1. sent' = [sent EXCEPT ![p][n] = r]
    BY <1>3
  <2>2. n \in DOMAIN sent[p] => /\ r.dst = sent[p][n].dst /\ r.tag = sent[p][n].tag
                                /\ r.fate = sent[p][n].fate
    BY <1>2 DEF SendRec
  <2> HIDE DEF r
  <2> QED
    BY <2>1, <2>2, SendsNoted
<1>4. CASE sent' = [sent EXCEPT ![p][n].asked = v]
  <2> DEFINE r == [sent[p][n] EXCEPT !.asked = v]
  <2>1. sent' = [sent EXCEPT ![p][n] = r]
    BY <1>4
  <2>2. n \in DOMAIN sent[p] => /\ r.dst = sent[p][n].dst /\ r.tag = sent[p][n].tag
                                /\ r.fate = sent[p][n].fate
    BY <1>2 DEF SendRec
  <2> HIDE DEF r
  <2> QED
    BY <2>1, <2>2, SendsNoted
<1> QED
  BY <1>3, <1>4, SendsSame

LEMMA AnswersNoMessage ==
  ASSUME TypeOK, NEW p \in Proc, NEW q, NEW k \in Packet, ~Message(k),
         SendPacket(p, q, k), UNCHANGED wire
  PROVE  \A a, b \in Proc : SameMessages(a, b)
<1>1. CASE q \in Proc
  BY <1>1, SendsNoMessage
<1>2. CASE q \notin Proc
  <2>1. \A a, b \in Proc : sendq'[a][b] = sendq[a][b]
    BY <1>2 DEF SendPacket, TypeOK
  <2>2. \A a, b \in Proc : Flow(a, b)' = Flow(a, b)
    BY <2>1 DEF Flow
  <2> QED
    BY <2>2, MessagesSame
<1> QED
  BY <1>1, <1>2

LEMMA NoMessageSent ==
  ASSUME UNCHANGED <<wire, sendq>>
  PROVE  \A a, b \in Proc : SameMessages(a, b)
BY NetSame, MessagesSame

LEMMA RecvTypeMessages ==
  ASSUME TypeOK, NEW p \in Proc, NEW h \in Handle, NEW r \in Request,
         HandleRecvMsgType(p, h, r), UNCHANGED wire
  PROVE  \A a, b \in Proc : SameMessages(a, b)
<1>1. r.senderReq \in Handle \cup {None}
  BY RequestFields
<1>2. CASE UNCHANGED sendq
  BY <1>2, NoMessageSent
<1>3. CASE SendPacket(p, r.rank, [type |-> "SYNC_ACK", sreq |-> r.senderReq])
  <2> DEFINE k == [type |-> "SYNC_ACK", sreq |-> r.senderReq]
  <2>1. k \in Packet /\ ~Message(k)
    BY <1>1 DEF Packet, Message, EagerTypes
  <2> HIDE DEF k
  <2> QED
    BY <1>3, <2>1, AnswersNoMessage DEF k
<1>4. CASE SendPacket(p, r.rank, [type |-> "CTS", sreq |-> r.senderReq, rreq |-> h])
  <2> DEFINE k == [type |-> "CTS", sreq |-> r.senderReq, rreq |-> h]
  <2>1. k \in Packet /\ ~Message(k)
    BY <1>1 DEF Packet, Message, EagerTypes
  <2> HIDE DEF k
  <2> QED
    BY <1>4, <2>1, AnswersNoMessage DEF k
<1> QED
  BY <1>2, <1>3, <1>4 DEF HandleRecvMsgType, TakeEager, TakeRndv, TakeSelf

LEMMA QuietCallMessages ==
  ASSUME TypeOK, TypeOK', MessageInv, NEW p \in Proc, NEW h \in Handle,
         \/ FinishCall(p) \/ Imrecv(p, h) \/ Wait(p, h) \/ RequestFree(p, h)
         \/ CancelSend(p, h) \/ CancelSelfMissed(p, h)
  PROVE  MessageInv'
<1>1. UNCHANGED queues
  BY DEF FinishCall, Imrecv, Wait, RequestFree, DropHandle, CancelSend, CancelSelfMissed
<1>2. SameRecvs
  BY RecvsSame
  DEF FinishCall, Imrecv, Wait, RequestFree, DropHandle, CancelSend, CancelSelfMissed, history
<1>3. SameSends
  <2>1. CASE FinishCall(p) \/ Imrecv(p, h)
    BY <2>1, SendsSame DEF FinishCall, Imrecv, history
  <2>2. CASE Wait(p, h) \/ RequestFree(p, h)
    BY <2>2, OutcomeNoted DEF Wait, RequestFree
  <2>3. CASE CancelSend(p, h) \/ CancelSelfMissed(p, h)
    <3>1. sent' = [sent EXCEPT ![p][req[p][h].id].asked = TRUE]
      BY <2>3 DEF CancelSend, CancelSelfMissed
    <3> QED
      BY <3>1, OutcomeNoted
  <2> QED
    BY <2>1, <2>2, <2>3
<1>4. \A a, b \in Proc : SameMessages(a, b)
  <2>1. CASE FinishCall(p) \/ Wait(p, h) \/ RequestFree(p, h) \/ CancelSelfMissed(p, h)
    BY <2>1, NoMessageSent
    DEF FinishCall, Wait, RequestFree, DropHandle, CancelSelfMissed, net
  <2>2. CASE Imrecv(p, h)
    <3>1. req[p][h] \in Request
      BY DEF TypeOK
    <3> QED
      BY <2>2, <3>1, RecvTypeMessages DEF Imrecv
  <2>3. CASE CancelSend(p, h)
    <3> DEFINE k == [type |-> "CANCEL_SEND_REQ", sreq |-> h, tag |-> req[p][h].tag]
    <3>1. k \in Packet /\ ~Message(k)
      <4>1. req[p][h] \in Request
        BY DEF TypeOK
      <4>2. req[p][h].tag \in Tag \cup {None}
        BY <4>1, RequestFields
      <4> QED
        BY <4>2 DEF Packet, Message, EagerTypes
    <3>2. SendPacket(p, req[p][h].rank, k) /\ UNCHANGED wire
      BY <2>3 DEF CancelSend
    <3> HIDE DEF k
    <3> QED
      BY <3>1, <3>2, AnswersNoMessage
  <2> QED
    BY <2>1, <2>2, <2>3
<1> QED
  BY <1>1, <1>2, <1>3, <1>4, MessagesKept

LEMMA QuietProgressMessages ==
  ASSUME TypeOK, TypeOK', MessageInv, NEW p \in Proc, NEW q \in Proc,
         Write(p, q) \/ PayloadArrives(q, p)
  PROVE  MessageInv'
<1>1. UNCHANGED <<queues, history>>
  BY DEF Write, PayloadArrives
<1>2. \A a, b \in Proc : SameMessages(a, b)
  <2>1. CASE Write(p, q)
    BY <2>1, NetWrite, MessagesSame
  <2>2. CASE PayloadArrives(q, p)
    BY <2>2, NoMessageSent DEF PayloadArrives
  <2> QED
    BY <2>1, <2>2
<1> QED
  BY <1>1, <1>2, MessagesKept, SendsSame, RecvsSame DEF history

LEMMA QuietPacketMessages ==
  ASSUME TypeOK, TypeOK', MessageInv, NEW q \in Proc, NEW p \in Proc, NEW k,
         ReadPacket(q, p, k),
         \/ HandleCts(q, p, k) \/ HandleRndvSend(q, p, k) \/ HandleSyncAck(q, p, k)
         \/ HandleCancelReqMissed(q, p, k) \/ HandleCancelResp(q, p, k)
  PROVE  MessageInv'
<1>1. UNCHANGED <<queues, history>>
  BY DEF HandleCts, HandleRndvSend, HandleSyncAck, HandleCancelReqMissed, HandleCancelResp
<1>2. ~Message(k)
  BY DEF HandleCts, HandleRndvSend, HandleSyncAck, HandleCancelReqMissed, HandleCancelResp,
         Message, EagerTypes
<1>3. k \in Packet
  BY ReadHead
<1>4. \A a, b \in Proc : SameMessages(a, b)
  <2>1. CASE HandleRndvSend(q, p, k) \/ HandleSyncAck(q, p, k) \/ HandleCancelResp(q, p, k)
    BY <1>2, <2>1, ReadsNoMessage DEF HandleRndvSend, HandleSyncAck, HandleCancelResp
  <2>2. CASE HandleCts(q, p, k)
    <3> DEFINE r == [type |-> "RNDV_SEND", sreq |-> k.sreq, rreq |-> k.rreq]
    <3>1. r \in Packet /\ ~Message(r)
      BY <1>3, <2>2, PacketFields DEF HandleCts, Packet, Message, EagerTypes
    <3>2. SendPacket(q, p, r)
      BY <2>2 DEF HandleCts
    <3> HIDE DEF r
    <3> QED
      BY <1>2, <3>1, <3>2, TurnsNoMessage
  <2>3. CASE HandleCancelReqMissed(q, p, k)
    <3> DEFINE r == CancelResp(k.sreq, FALSE)
    <3>1. r \in Packet /\ ~Message(r)
      BY <1>3, <2>3, PacketFields
      DEF HandleCancelReqMissed, CancelResp, Packet, Message, EagerTypes
    <3>2. SendPacket(q, p, r)
      BY <2>3 DEF HandleCancelReqMissed
    <3> HIDE DEF r
    <3> QED
      BY <1>2, <3>1, <3>2, TurnsNoMessage
  <2> QED
    BY <2>1, <2>2, <2>3
<1> QED
  BY <1>1, <1>4, MessagesKept, SendsSame, RecvsSame DEF history

-----------------------------------------------------------------------------
(***************************************************************************)
(* The steps that move a message.                                          *)
(***************************************************************************)
LEMMA OtherArrivals ==
  ASSUME NEW p, NEW q, unexpected'[q] = unexpected[q]
  PROVE  Arrivals(p, q)' = Arrivals(p, q)
BY DEF Arrivals

LEMMA EntryTypes ==
  ASSUME TypeOK, NEW q \in Proc
  PROVE  /\ \A i \in 1 .. Len(posted[q]) :
              /\ posted[q][i] \in Posting /\ posted[q][i].rreq \in Handle
              /\ posted[q][i].id \in Nat /\ posted[q][i] \in Range(posted[q])
         /\ \A i \in 1 .. Len(unexpected[q]) :
              /\ unexpected[q][i] \in Arrival /\ unexpected[q][i].rreq \in Handle
              /\ unexpected[q][i].rank \in Proc /\ unexpected[q][i].tag \in Tag
              /\ unexpected[q][i].sreq \in Handle \cup {None}
              /\ unexpected[q][i].id \in Nat
              /\ unexpected[q][i] \in Range(unexpected[q])
<1>1. posted[q] \in Seq(Posting) /\ unexpected[q] \in Seq(Arrival)
  BY DEF TypeOK
<1>2. \A i \in 1 .. Len(posted[q]) :
        posted[q][i] \in Posting /\ posted[q][i] \in Range(posted[q])
  BY <1>1, RangeOf
<1>3. \A i \in 1 .. Len(unexpected[q]) :
        unexpected[q][i] \in Arrival /\ unexpected[q][i] \in Range(unexpected[q])
  BY <1>1, RangeOf
<1> QED
  BY <1>2, <1>3 DEF Posting, Arrival

(* Entry i leaves the unexpected queue of q, and its message is settled. *)
LEMMA DequeuedMessages ==
  ASSUME TypeOK, TypeOK', MessageInv, NEW q \in Proc, NEW i \in 1 .. Len(unexpected[q]),
         unexpected' = [unexpected EXCEPT ![q] = RemoveAt(@, i)],
         Settles(unexpected[q][i].rank, unexpected[q][i].id), SameRecvs,
         UNCHANGED posted, \A a, b \in Proc : SameMessages(a, b)
  PROVE  MessageInv'
<1> DEFINE e == unexpected[q][i]
<1>0. unexpected[q] \in Seq(Arrival) /\ e \in Arrival
  BY EntryTypes DEF TypeOK
<1>1. unexpected'[q] = RemoveAt(unexpected[q], i)
      /\ \A b \in Proc : b # q => unexpected'[b] = unexpected[b]
  BY DEF TypeOK
<1>2. /\ InRankOrder(unexpected'[q])
      /\ Range(unexpected[q]) = Range(unexpected'[q]) \cup {e}
      /\ \A x \in Range(unexpected'[q]) : x.rank = e.rank => x.id # e.id
  BY <1>0, <1>1, RankRemove DEF MessageInv
<1>3. e.rank \in Proc /\ Settles(e.rank, e.id)
  BY EntryTypes
<1> HIDE DEF e
<1>4. ASSUME NEW a \in Proc, NEW b \in Proc PROVE InTransit(a, b)'
  <2>0. InTransit(a, b) /\ SameMessages(a, b)
    BY DEF MessageInv
  <2>1. CASE a = e.rank /\ b = q
    <3>1. Arrivals(a, b) = Arrivals(a, b)' \cup {e} /\ \A x \in Arrivals(a, b)' : x.id # e.id
      BY <1>2, <2>1 DEF Arrivals
    <3> QED
      BY <1>3, <2>0, <2>1, <3>1, TransitDequeued
  <2>2. CASE a # e.rank \/ b # q
    <3>1. Arrivals(a, b)' = Arrivals(a, b)
      BY <1>1, <1>2, <2>2 DEF Arrivals
    <3>2. CASE a # e.rank
      <4>1. \A n \in Nat, t \in Tag : IsPending(a, n, b, t)' <=> IsPending(a, n, b, t)
        BY <1>3, <3>2 DEF Settles
      <4> QED
        BY <2>0, <3>1, <4>1, TransitKept
    <3>3. CASE a = e.rank /\ b # q
      <4>1. \A n, t : IsPending(a, n, b, t) => n # e.id
        <5>1. e \in Arrivals(a, q)
          BY <1>2, <3>3 DEF Arrivals
        <5>2. InTransit(a, q)
          BY DEF MessageInv
        <5>3. IsPending(a, e.id, q, e.tag)
          BY <5>1, <5>2 DEF InTransit
        <5> QED
          BY <3>3, <5>3 DEF IsPending
      <4>2. \A n \in Nat, t \in Tag : IsPending(a, n, b, t)' <=> IsPending(a, n, b, t)
        BY <1>3, <4>1 DEF Settles
      <4> QED
        BY <2>0, <3>1, <4>2, TransitKept
    <3> QED
      BY <2>2, <3>2, <3>3
  <2> QED
    BY <2>1, <2>2
<1>5. ASSUME NEW b \in Proc PROVE InRankOrder(unexpected'[b]) /\ PostedInv(b)'
  BY <1>1, <1>2, PostedKept DEF MessageInv, SameRecvs
<1> QED
  BY <1>4, <1>5 DEF MessageInv

(* Entry i leaves the posted queue of q, and its receive is closed. *)
LEMMA UnpostedMessages ==
  ASSUME TypeOK, MessageInv, NEW q \in Proc, NEW i \in 1 .. Len(posted[q]),
         posted' = [posted EXCEPT ![q] = RemoveAt(@, i)], Closes(q, posted[q][i].id)
  PROVE  \A b \in Proc : PostedInv(b)'
<1> TAKE b \in Proc
<1>1. CASE b = q
  <2>1. posted'[q] = RemoveAt(posted[q], i)
    BY DEF TypeOK
  <2> QED
    BY <1>1, <2>1, PostedRemoves DEF MessageInv
<1>2. CASE b # q
  <2>1. posted'[b] = posted[b]
    BY <1>2 DEF TypeOK
  <2>2. \A n, r, t : IsOpen(b, n, r, t)' <=> IsOpen(b, n, r, t)
    BY <1>2 DEF Closes
  <2> QED
    BY <2>1, <2>2, PostedKept DEF MessageInv
<1> QED
  BY <1>1, <1>2

LEMMA IsendMessages ==
  ASSUME TypeOK, TypeOK', MessageInv, NEW p \in Proc, NEW q \in Proc, NEW t \in Tag,
         NEW mode \in Mode, NEW size \in Size, NEW h \in Handle,
         Isend(p, q, t, mode, size, h)
  PROVE  MessageInv'
<1> DEFINE r == NewSreq(p, h, q, t, mode, size)
<1>1. r.tag = t /\ r.id = Len(sent[p]) + 1 /\ r.type = mode /\ r.size = size
  BY NewSreqShape DEF NewSreq, NewRequest, FreeRequest
<1>2. Len(sent[p]) \in Nat
  BY LenProperties DEF TypeOK
<1> HIDE DEF r
<1>3. PICK k \in Packet : /\ Message(k) /\ k.tag = t /\ k.id = Len(sent[p]) + 1
                          /\ SendPacket(p, q, k)
  <2>1. CASE SendEager(p, q, h, r)
    <3> DEFINE k == Envelope(EagerPacketType(r.type), h, r)
    <3>1. k \in Packet /\ Message(k) /\ k.tag = t /\ k.id = Len(sent[p]) + 1
      BY <1>1, <1>2, ModeAssumption, SizeAssumption
      DEF Envelope, EagerPacketType, EagerTypes, Packet, Message
    <3> QED
      BY <2>1, <3>1 DEF SendEager
  <2>2. CASE SendRndv(p, q, h, r)
    <3> DEFINE k == Envelope("RTS", h, r)
    <3>1. k \in Packet /\ Message(k) /\ k.tag = t /\ k.id = Len(sent[p]) + 1
      BY <1>1, <1>2, SizeAssumption DEF Envelope, EagerTypes, Packet, Message
    <3> QED
      BY <2>2, <3>1 DEF SendRndv
  <2> QED
    BY <2>1, <2>2 DEF Isend, r
<1>4. AddsSend(p, q, k.tag) /\ p # q /\ UNCHANGED <<posted, unexpected, rcvd>> /\ UNCHANGED wire
  <2>1. AddsSend(p, q, t)
    BY PendingSend DEF Isend
  <2> QED
    BY <1>3, <2>1 DEF Isend, queues
<1>5. /\ Flow(p, q)' = Append(Flow(p, q), k)
      /\ \A a, b \in Proc : a # p \/ b # q => Flow(a, b)' = Flow(a, b)
  BY <1>3, <1>4, NetSend
<1>6. ASSUME NEW a \in Proc, NEW b \in Proc PROVE InTransit(a, b)'
  <2>0. InTransit(a, b) /\ Arrivals(a, b)' = Arrivals(a, b)
    BY <1>4, OtherArrivals DEF MessageInv
  <2>1. CASE a = p /\ b = q
    BY <1>3, <1>4, <1>5, <2>0, <2>1, TransitSent
  <2>2. CASE a # p \/ b # q
    <3>1. \A n \in Nat, u \in Tag : IsPending(a, n, b, u)' <=> IsPending(a, n, b, u)
      BY <1>4, <2>2 DEF AddsSend
    <3>2. SameMessages(a, b)
      BY <1>5, <2>2, MessagesSame
    <3> QED
      BY <2>0, <3>1, <3>2, TransitKept
  <2> QED
    BY <2>1, <2>2
<1>7. ASSUME NEW b \in Proc PROVE InRankOrder(unexpected'[b]) /\ PostedInv(b)'
  BY <1>4, RecvsSame, PostedKept DEF MessageInv, SameRecvs
<1> QED
  BY <1>6, <1>7 DEF MessageInv

LEMMA RecvPostMessages ==
  ASSUME TypeOK, TypeOK', MessageInv, NEW p \in Proc, NEW f \in Filters,
         NEW h \in Handle, RecvPost(p, f, h)
  PROVE  MessageInv'
<1> DEFINE e == [rreq |-> h, rank |-> f.rank, tag |-> f.tag, id |-> Len(rcvd[p]) + 1]
<1>1. /\ Len(rcvd[p]) \in Nat /\ e \in Posting
      /\ e.id = Len(rcvd[p]) + 1 /\ e.rank = f.rank /\ e.tag = f.tag
  <2>1. Len(rcvd[p]) \in Nat
    BY LenProperties DEF TypeOK
  <2> QED
    BY <2>1, FilterAssumption DEF Posting
<1>2. posted' = [posted EXCEPT ![p] = Append(@, e)]
  BY DEF RecvPost
<1> HIDE DEF e
<1>3. posted'[p] = Append(posted[p], e) /\ \A b \in Proc : b # p => posted'[b] = posted[b]
  BY <1>2 DEF TypeOK
<1>4. Opens(p, f)
  BY PendingRecv DEF RecvPost
<1>5. Opens(p, e)
  BY <1>1, <1>4 DEF Opens
<1>6. ASSUME NEW b \in Proc PROVE PostedInv(b)'
  <2>1. CASE b = p
    BY <1>1, <1>3, <1>5, <2>1, PostedAdds DEF MessageInv
  <2>2. CASE b # p
    BY <1>3, <1>4, <2>2, PostedKept DEF MessageInv, Opens
  <2> QED
    BY <2>1, <2>2
<1>7. ASSUME NEW a \in Proc, NEW b \in Proc PROVE InTransit(a, b)'
  <2>1. SameMessages(a, b) /\ SameSends /\ Arrivals(a, b)' = Arrivals(a, b)
    BY NoMessageSent, SendsSame, OtherArrivals DEF RecvPost, net
  <2> QED
    BY <2>1, TransitKept DEF MessageInv, SameSends
<1> QED
  BY <1>6, <1>7 DEF MessageInv, RecvPost

LEMMA SettlesOne ==
  ASSUME TypeOK, NEW p \in Proc, NEW n \in Nat, NEW f \in {"matched", "cancelled"},
         sent' = [sent EXCEPT ![p][n].fate = f]
  PROVE  Settles(p, n)
<1>1. \A a \in Proc : a # p => sent'[a] = sent[a]
  BY DEF TypeOK
<1>2. sent'[p] = [sent[p] EXCEPT ![n] = [@ EXCEPT !.fate = f]]
  BY DEF TypeOK
<1> QED
  BY <1>1, <1>2, SettlesSend

LEMMA MatchedClosesRecv ==
  ASSUME TypeOK, NEW q \in Proc, NEW n \in Nat, NEW m,
         rcvd' = [rcvd EXCEPT ![q][n].fate = "matched", ![q][n].msg = m]
  PROVE  Closes(q, n)
<1>1. rcvd[q] \in Seq(RecvRec)
  BY DEF TypeOK
<1>2. \A b \in Proc : b # q => rcvd'[b] = rcvd[b]
  BY DEF TypeOK
<1> DEFINE o == [rcvd[q][n] EXCEPT !.fate = "matched"]
           r == [o EXCEPT !.msg = m]
<1>3. rcvd'[q] = [rcvd[q] EXCEPT ![n] = r]
  BY <1>1 DEF TypeOK
<1>4. n \in 1 .. Len(rcvd[q]) => r.fate # "pending"
  <2>1. n \in 1 .. Len(rcvd[q]) => rcvd[q][n] \in RecvRec
    BY <1>1, ElementOfSeq
  <2>2. n \in 1 .. Len(rcvd[q]) => o \in RecvRec /\ o.fate = "matched"
    BY <2>1 DEF RecvRec
  <2> HIDE DEF o
  <2> QED
    BY <2>2 DEF RecvRec
<1> HIDE DEF r
<1>5. DOMAIN rcvd[q] = 1 .. Len(rcvd[q]) /\ Len(rcvd[q]) \in Nat
  BY <1>1, LenProperties
<1>6. DOMAIN rcvd'[q] = 1 .. Len(rcvd[q])
  BY <1>3, <1>5
<1>7. Len(rcvd'[q]) = Len(rcvd[q])
  BY <1>1, <1>3, <1>5, <1>6, LenProperties
<1>8. \A i \in 1 .. Len(rcvd[q]) : rcvd'[q][i] = IF i = n THEN r ELSE rcvd[q][i]
  BY <1>3, <1>5
<1>9. n \in 1 .. Len(rcvd[q]) => rcvd'[q][n].fate # "pending"
  BY <1>4, <1>8
<1>10. \A i \in 1 .. Len(rcvd[q]) : i # n => rcvd'[q][i] = rcvd[q][i]
  BY <1>8
<1> HIDE DEF o
<1> QED
  BY <1>2, <1>7, <1>9, <1>10, ClosesRecv

LEMMA CancelClosesRecv ==
  ASSUME TypeOK, NEW q \in Proc, NEW n \in Nat,
         rcvd' = [rcvd EXCEPT ![q][n].fate = "cancelled"]
  PROVE  Closes(q, n)
<1>1. rcvd[q] \in Seq(RecvRec)
  BY DEF TypeOK
<1>2. \A b \in Proc : b # q => rcvd'[b] = rcvd[b]
  BY DEF TypeOK
<1>3. rcvd'[q] = [rcvd[q] EXCEPT ![n] = [rcvd[q][n] EXCEPT !.fate = "cancelled"]]
  BY <1>1 DEF TypeOK
<1>4. /\ Len(rcvd'[q]) = Len(rcvd[q])
      /\ \A i \in 1 .. Len(rcvd[q]) : i # n => rcvd'[q][i] = rcvd[q][i]
  BY <1>1, <1>3, LenProperties
<1>5. ASSUME n \in 1 .. Len(rcvd[q]) PROVE rcvd'[q][n].fate # "pending"
  <2>1. rcvd[q][n] \in RecvRec
    BY <1>1, <1>5, ElementOfSeq
  <2>2. rcvd'[q][n] = [rcvd[q][n] EXCEPT !.fate = "cancelled"]
    BY <1>1, <1>3, <1>5, LenProperties
  <2> QED
    BY <2>1, <2>2 DEF RecvRec
<1> QED
  BY <1>2, <1>4, <1>5, ClosesRecv

LEMMA IsendSelfFoundMessages ==
  ASSUME TypeOK, TypeOK', MessageInv, NEW p \in Proc, NEW t \in Tag, NEW mode \in Mode,
         NEW size \in Size, NEW h \in Handle, NEW i \in 1 .. Len(posted[p]),
         IsendSelfFound(p, t, mode, size, h, i)
  PROVE  MessageInv'
<1> DEFINE e == posted[p][i]
<1>1. e.id \in Nat
  BY EntryTypes
<1>2. /\ sent' = [sent EXCEPT ![p] = RecordSend(p, p, t, mode, "matched", @)]
      /\ rcvd' = [rcvd EXCEPT ![p][e.id].fate = "matched",
                              ![p][e.id].msg = <<p, Len(sent[p]) + 1>>]
      /\ posted' = [posted EXCEPT ![p] = RemoveAt(@, i)]
      /\ UNCHANGED <<unexpected, wire, sendq>>
  BY DEF IsendSelfFound, net
<1>3. SameSends
  BY <1>2, MatchedSend
<1>4. Closes(p, e.id)
  <2> HIDE DEF e
  <2> QED
    BY <1>1, <1>2, MatchedClosesRecv
<1>5. \A b \in Proc : PostedInv(b)'
  BY <1>2, <1>4, UnpostedMessages
<1>6. ASSUME NEW a \in Proc, NEW b \in Proc PROVE InTransit(a, b)'
  <2>1. SameMessages(a, b) /\ Arrivals(a, b)' = Arrivals(a, b)
    BY <1>2, NoMessageSent, OtherArrivals
  <2> QED
    BY <1>3, <2>1, TransitKept DEF MessageInv, SameSends
<1> QED
  BY <1>2, <1>5, <1>6 DEF MessageInv

(* A new entry at the end of the unexpected queue of q. *)
LEMMA QueuedArrivals ==
  ASSUME TypeOK, MessageInv, NEW q \in Proc, NEW e \in Arrival,
         unexpected' = [unexpected EXCEPT ![q] = Append(@, e)],
         \A x \in Arrivals(e.rank, q) : x.id < e.id
  PROVE  /\ \A b \in Proc : InRankOrder(unexpected'[b])
         /\ Arrivals(e.rank, q)' = Arrivals(e.rank, q) \cup {e}
         /\ \A a, b \in Proc : a # e.rank \/ b # q => Arrivals(a, b)' = Arrivals(a, b)
<1>1. /\ unexpected[q] \in Seq(Arrival) /\ unexpected'[q] = Append(unexpected[q], e)
      /\ \A b \in Proc : b # q => unexpected'[b] = unexpected[b]
  BY DEF TypeOK
<1>2. /\ InRankOrder(Append(unexpected[q], e))
      /\ Range(Append(unexpected[q], e)) = Range(unexpected[q]) \cup {e}
  BY <1>1, RankAppend DEF MessageInv, Arrivals
<1> QED
  BY <1>1, <1>2 DEF MessageInv, Arrivals

LEMMA IsendSelfUnexpectedMessages ==
  ASSUME TypeOK, TypeOK', MessageInv, NEW p \in Proc, NEW t \in Tag, NEW mode \in Mode,
         NEW size \in Size, NEW h \in Handle, NEW g \in Handle,
         IsendSelfUnexpected(p, t, mode, size, h, g)
  PROVE  MessageInv'
<1>1. /\ Len(sent[p]) \in Nat
      /\ [rreq |-> g, rank |-> p, tag |-> t,
          sreq |-> IF mode = "RSEND" THEN None ELSE h, id |-> Len(sent[p]) + 1] \in Arrival
  <2>1. Len(sent[p]) \in Nat
    BY LenProperties DEF TypeOK
  <2> QED
    BY <2>1 DEF Arrival
<1>2. PICK e \in Arrival : /\ e.rank = p /\ e.tag = t /\ e.id = Len(sent[p]) + 1
                          /\ unexpected' = [unexpected EXCEPT ![p] = Append(@, e)]
  <2> DEFINE s == [NewSreq(p, h, p, t, mode, size) EXCEPT !.msgType = "SELF"]
  <2>1. s.id = Len(sent[p]) + 1
    BY DEF NewSreq, NewRequest, FreeRequest
  <2>2. unexpected' = [unexpected EXCEPT ![p] =
           Append(@, [rreq |-> g, rank |-> p, tag |-> t,
                      sreq |-> IF mode = "RSEND" THEN None ELSE h, id |-> s.id])]
    BY DEF IsendSelfUnexpected
  <2> HIDE DEF s
  <2> QED
    BY <1>1, <2>1, <2>2
<1>3. \A x \in Arrivals(p, p) : x.id < e.id
  <2>1. \A x \in Arrivals(p, p) : x.id \in 1 .. Len(sent[p])
    BY TransitTypes DEF MessageInv, InTransit
  <2> QED
    BY <1>1, <1>2, <2>1
<1>4. /\ \A b \in Proc : InRankOrder(unexpected'[b])
      /\ Arrivals(p, p)' = Arrivals(p, p) \cup {e}
      /\ \A a, b \in Proc : a # p \/ b # p => Arrivals(a, b)' = Arrivals(a, b)
  <2>1. \A x \in Arrivals(e.rank, p) : x.id < e.id
    BY <1>2, <1>3
  <2>2. /\ \A b \in Proc : InRankOrder(unexpected'[b])
        /\ Arrivals(e.rank, p)' = Arrivals(e.rank, p) \cup {e}
        /\ \A a, b \in Proc : a # e.rank \/ b # p => Arrivals(a, b)' = Arrivals(a, b)
    BY <1>2, <2>1, QueuedArrivals
  <2> QED
    BY <1>2, <2>2
<1>5. AddsSend(p, p, t)
  BY PendingSend DEF IsendSelfUnexpected
<1>6. ASSUME NEW a \in Proc, NEW b \in Proc PROVE InTransit(a, b)'
  <2>1. SameMessages(a, b)
    BY NoMessageSent DEF IsendSelfUnexpected, net
  <2>2. CASE a = p /\ b = p
    BY <1>2, <1>4, <1>5, <2>1, <2>2, TransitSelf DEF MessageInv
  <2>3. CASE a # p \/ b # p
    <3>1. \A n \in Nat, u \in Tag : IsPending(a, n, b, u)' <=> IsPending(a, n, b, u)
      BY <1>5, <2>3 DEF AddsSend
    <3> QED
      BY <1>4, <2>1, <2>3, <3>1, TransitKept DEF MessageInv
  <2> QED
    BY <2>2, <2>3
<1>7. \A b \in Proc : PostedInv(b)'
  BY RecvsSame, PostedKept DEF MessageInv, SameRecvs, IsendSelfUnexpected
<1> QED
  BY <1>4, <1>6, <1>7 DEF MessageInv

LEMMA DequeueForMessages ==
  ASSUME TypeOK, TypeOK', MessageInv, NEW p \in Proc, NEW f \in Filters,
         NEW i \in 1 .. Len(unexpected[p]), RecvFound(p, f, i) \/ Improbe(p, f, i)
  PROVE  MessageInv'
<1> DEFINE e == unexpected[p][i]
<1>1. /\ e.rank \in Proc /\ e.id \in Nat /\ e.rreq \in Handle
  BY EntryTypes
<1>2. /\ unexpected' = [unexpected EXCEPT ![p] = RemoveAt(@, i)]
      /\ sent' = [sent EXCEPT ![e.rank][e.id].fate = "matched"]
      /\ rcvd' = [rcvd EXCEPT ![p] = RecordRecv(f, "matched", <<e.rank, e.id>>, @)]
  BY DEF DequeueFor, RecvFound, Improbe
<1>3. Settles(e.rank, e.id)
  <2> HIDE DEF e
  <2> QED
    BY <1>1, <1>2, SettlesOne
<1>4. SameRecvs
  <2>1. <<e.rank, e.id>> \in (Proc \X Nat) \cup {None}
    BY <1>1
  <2> HIDE DEF e
  <2> QED
    BY <1>2, <2>1, MatchedRecv
<1>5. \A a, b \in Proc : SameMessages(a, b)
  <2>1. CASE Improbe(p, f, i)
    BY <2>1, NoMessageSent DEF Improbe, net
  <2>2. CASE RecvFound(p, f, i)
    <3> DEFINE r == [req[p][e.rreq] EXCEPT !.id = Len(rcvd[p]) + 1]
    <3>1. r \in Request
      <4>1. req[p][e.rreq] \in Request
        BY <1>1 DEF TypeOK
      <4>2. Len(rcvd[p]) + 1 \in Nat
        BY LenProperties DEF TypeOK
      <4> QED
        BY <4>1, <4>2, FieldType
    <3>2. HandleRecvMsgType(p, e.rreq, r) /\ UNCHANGED wire
      BY <2>2 DEF RecvFound
    <3> HIDE DEF r, e
    <3> QED
      BY <1>1, <3>1, <3>2, RecvTypeMessages
  <2> QED
    BY <2>1, <2>2
<1> QED
  BY <1>2, <1>3, <1>4, <1>5, DequeuedMessages DEF RecvFound, Improbe

LEMMA CancelRecvMessages ==
  ASSUME TypeOK, TypeOK', MessageInv, NEW p \in Proc, NEW i \in 1 .. Len(posted[p]),
         CancelRecv(p, i)
  PROVE  MessageInv'
<1> DEFINE e == posted[p][i]
<1>1. e.id \in Nat
  BY EntryTypes
<1>2. /\ posted' = [posted EXCEPT ![p] = RemoveAt(@, i)]
      /\ rcvd' = [rcvd EXCEPT ![p][e.id].fate = "cancelled"]
      /\ UNCHANGED <<unexpected, wire, sendq, sent>>
  BY DEF CancelRecv, net
<1>3. Closes(p, e.id)
  <2> HIDE DEF e
  <2> QED
    BY <1>1, <1>2, CancelClosesRecv
<1>4. \A b \in Proc : PostedInv(b)'
  BY <1>2, <1>3, UnpostedMessages
<1>5. ASSUME NEW a \in Proc, NEW b \in Proc PROVE InTransit(a, b)'
  <2>1. SameMessages(a, b) /\ Arrivals(a, b)' = Arrivals(a, b) /\ SameSends
    BY <1>2, NoMessageSent, OtherArrivals, SendsSame
  <2> QED
    BY <2>1, TransitKept DEF MessageInv, SameSends
<1> QED
  BY <1>2, <1>4, <1>5 DEF MessageInv

LEMMA CancelSelfFoundMessages ==
  ASSUME TypeOK, TypeOK', MessageInv, SelfInv, NEW p \in Proc, NEW h \in Handle,
         NEW i \in 1 .. Len(unexpected[p]), CancelSelfFound(p, h, i)
  PROVE  MessageInv'
<1> DEFINE e == unexpected[p][i]
           n == req[p][h].id
<1>1. e.rank = p /\ e.id \in Nat
  BY EntryTypes DEF CancelSelfFound, MayCancelSend, FirstById, IsMessage, SelfInv
<1>2. /\ unexpected' = [unexpected EXCEPT ![p] = RemoveAt(@, i)]
      /\ sent' = [sent EXCEPT ![p][n].asked = TRUE, ![p][e.id].fate = "cancelled"]
      /\ UNCHANGED <<posted, wire, sendq, rcvd>>
  BY DEF CancelSelfFound, net
<1> HIDE DEF e, n
<1>3. Settles(p, e.id)
  <2> DEFINE r == [sent[p][n] EXCEPT !.asked = TRUE]
             s == [sent[p] EXCEPT ![n] = r]
  <2>1. /\ sent[p] \in Seq(SendRec)
        /\ \A a \in Proc : a # p => sent'[a] = sent[a]
    BY <1>2 DEF TypeOK
  <2>2. sent'[p] = [s EXCEPT ![e.id] = [@ EXCEPT !.fate = "cancelled"]]
    BY <1>2 DEF TypeOK
  <2>3. n \in DOMAIN sent[p] => sent[p][n] \in SendRec
    BY <2>1, ElementOfSeq
  <2>4. n \in DOMAIN sent[p] => /\ r.dst = sent[p][n].dst /\ r.tag = sent[p][n].tag
                                /\ r.fate = sent[p][n].fate /\ r \in SendRec
    BY <2>3 DEF SendRec
  <2>5. /\ Len(sent[p]) \in Nat /\ DOMAIN sent[p] = 1 .. Len(sent[p])
    BY <2>1, LenProperties
  <2> HIDE DEF r
  <2>6. /\ Len(s) = Len(sent[p]) /\ DOMAIN s = 1 .. Len(sent[p]) /\ s \in Seq(SendRec)
        /\ \A m \in 1 .. Len(sent[p]) : s[m] = IF m = n THEN r ELSE sent[p][m]
    <3>1. s \in Seq(SendRec)
      BY <2>1, <2>4, <2>5, ExceptKeepsSeq
    <3> QED
      BY <2>1, <2>5, <3>1, LenProperties
  <2> HIDE DEF s
  <2>7. /\ Len(sent'[p]) = Len(sent[p])
        /\ \A m \in 1 .. Len(sent[p]) : m # e.id => sent'[p][m] = s[m]
    BY <1>1, <2>2, <2>5, <2>6, LenProperties
  <2>8. ASSUME e.id \in 1 .. Len(sent[p]) PROVE sent'[p][e.id].fate = "cancelled"
    <3>1. s[e.id] \in SendRec
      BY <2>6, <2>8, ElementOfSeq
    <3>2. sent'[p][e.id] = [s[e.id] EXCEPT !.fate = "cancelled"]
      BY <2>2, <2>6, <2>8
    <3> QED
      BY <3>1, <3>2 DEF SendRec
  <2> QED
    BY <2>1, <2>4, <2>5, <2>6, <2>7, <2>8 DEF Settles, IsPending
<1>4. \A a, b \in Proc : SameMessages(a, b)
  BY <1>2, NoMessageSent
<1> QED
  BY <1>1, <1>2, <1>3, <1>4, DequeuedMessages, RecvsSame DEF e

LEMMA CancelReqFoundMessages ==
  ASSUME TypeOK, TypeOK', MessageInv, NEW q \in Proc, NEW p \in Proc, NEW k,
         ReadPacket(q, p, k), NEW i \in 1 .. Len(unexpected[q]),
         HandleCancelReqFound(q, p, k, i)
  PROVE  MessageInv'
<1> DEFINE e == unexpected[q][i]
           r == CancelResp(k.sreq, TRUE)
<1>1. e.rank = p /\ e.id \in Nat
  BY EntryTypes DEF HandleCancelReqFound, FirstById, IsMessage
<1>2. /\ unexpected' = [unexpected EXCEPT ![q] = RemoveAt(@, i)]
      /\ sent' = [sent EXCEPT ![p][e.id].fate = "cancelled"]
      /\ UNCHANGED <<posted, rcvd>>
  BY DEF HandleCancelReqFound
<1>3. r \in Packet /\ ~Message(r) /\ ~Message(k) /\ SendPacket(q, p, r)
  <2>1. k \in Packet /\ k.type = "CANCEL_SEND_REQ"
    BY ReadHead DEF HandleCancelReqFound
  <2>2. k.sreq \in Handle
    BY <2>1, PacketFields
  <2> QED
    BY <2>1, <2>2 DEF HandleCancelReqFound, CancelResp, Packet, Message, EagerTypes
<1> HIDE DEF e, r
<1>4. \A a, b \in Proc : SameMessages(a, b)
  BY <1>3, TurnsNoMessage
<1>5. Settles(p, e.id)
  BY <1>1, <1>2, SettlesOne
<1> QED
  BY <1>1, <1>2, <1>4, <1>5, DequeuedMessages, RecvsSame DEF e

(* The message that q reads, and what is true of it. *)
LEMMA MessageRead ==
  ASSUME TypeOK, MessageInv, NEW q \in Proc, NEW p \in Proc, NEW k,
         ReadPacket(q, p, k), Message(k)
  PROVE  /\ k \in Messages(p, q) /\ p # q /\ k \in Packet /\ InOrder(Flow(p, q))
         /\ k.sreq \in Handle /\ k.tag \in Tag /\ k.id \in Nat
         /\ IsPending(p, k.id, q, k.tag)
         /\ \A e \in Arrivals(p, q) : e.id < k.id
<1>1. k \in Packet /\ k \in Range(Flow(p, q))
  BY ReadHead
<1>2. k \in Messages(p, q)
  BY <1>1 DEF Messages
<1> QED
  BY <1>1, <1>2, MessageFields DEF MessageInv, InTransit

LEMMA FoundMessages ==
  ASSUME TypeOK, TypeOK', MessageInv, NEW q \in Proc, NEW p \in Proc, NEW k,
         ReadPacket(q, p, k), NEW i \in 1 .. Len(posted[q]),
         HandleEagerFound(q, p, k, i) \/ HandleRtsFound(q, p, k, i)
  PROVE  MessageInv'
<1> DEFINE e == posted[q][i]
<1>1. Message(k)
  BY DEF HandleEagerFound, HandleRtsFound, Message
<1>2. /\ k \in Messages(p, q) /\ p # q /\ k \in Packet /\ InOrder(Flow(p, q))
      /\ k.sreq \in Handle /\ k.id \in Nat /\ IsPending(p, k.id, q, k.tag)
  BY <1>1, MessageRead
<1>3. e.id \in Nat /\ e.rreq \in Handle
  BY EntryTypes
<1>4. /\ sent' = [sent EXCEPT ![p][k.id].fate = "matched"]
      /\ rcvd' = [rcvd EXCEPT ![q][e.id].fate = "matched", ![q][e.id].msg = <<p, k.id>>]
      /\ posted' = [posted EXCEPT ![q] = RemoveAt(@, i)]
      /\ UNCHANGED unexpected
  BY DEF HandleEagerFound, HandleRtsFound, MarkMatched
<1>5. \/ UNCHANGED sendq
      \/ \E r \in Packet : ~Message(r) /\ SendPacket(q, p, r)
  <2>1. CASE HandleEagerFound(q, p, k, i)
    <3> DEFINE r == [type |-> "SYNC_ACK", sreq |-> k.sreq]
    <3>1. r \in Packet /\ ~Message(r)
      BY <1>2 DEF Packet, Message, EagerTypes
    <3> QED
      BY <2>1, <3>1 DEF HandleEagerFound
  <2>2. CASE HandleRtsFound(q, p, k, i)
    <3> DEFINE r == [type |-> "CTS", sreq |-> k.sreq, rreq |-> e.rreq]
    <3>1. r \in Packet /\ ~Message(r)
      BY <1>2, <1>3 DEF Packet, Message, EagerTypes
    <3> QED
      BY <2>2, <3>1 DEF HandleRtsFound
  <2> QED
    BY <2>1, <2>2
<1> HIDE DEF e
<1>6. Takes(p, q, k)
  BY <1>1, <1>2, <1>5, TakesMessage
<1>7. Settles(p, k.id)
  BY <1>2, <1>4, SettlesOne
<1>8. Closes(q, e.id)
  BY <1>3, <1>4, MatchedClosesRecv
<1>9. \A b \in Proc : PostedInv(b)'
  BY <1>4, <1>8, UnpostedMessages DEF e
<1>10. ASSUME NEW a \in Proc, NEW b \in Proc PROVE InTransit(a, b)'
  <2>0. InTransit(a, b) /\ Arrivals(a, b)' = Arrivals(a, b)
    BY <1>4, OtherArrivals DEF MessageInv
  <2>1. CASE a = p /\ b = q
    BY <1>6, <1>7, <2>0, <2>1, TransitMatched
  <2>2. CASE a # p \/ b # q
    <3>1. SameMessages(a, b)
      BY <1>6, <2>2 DEF Takes
    <3>2. \A n \in Nat, t \in Tag : IsPending(a, n, b, t)' <=> IsPending(a, n, b, t)
      BY <1>2, <1>7, <2>2 DEF Settles, IsPending
    <3> QED
      BY <2>0, <3>1, <3>2, TransitKept
  <2> QED
    BY <2>1, <2>2
<1> QED
  BY <1>4, <1>9, <1>10 DEF MessageInv

LEMMA UnexpectedMessages ==
  ASSUME TypeOK, TypeOK', MessageInv, NEW q \in Proc, NEW p \in Proc, NEW k,
         ReadPacket(q, p, k), NEW h \in Handle,
         HandleEagerUnexpected(q, p, k, h) \/ HandleRtsUnexpected(q, p, k, h)
  PROVE  MessageInv'
<1>1. Message(k)
  BY DEF HandleEagerUnexpected, HandleRtsUnexpected, Message
<1>2. /\ k \in Messages(p, q) /\ p # q /\ k \in Packet /\ InOrder(Flow(p, q))
      /\ k.sreq \in Handle /\ k.tag \in Tag /\ k.id \in Nat
      /\ \A x \in Arrivals(p, q) : x.id < k.id
  BY <1>1, MessageRead
<1>3. PICK e \in Arrival : /\ e.rank = p /\ e.tag = k.tag /\ e.id = k.id
                          /\ unexpected' = [unexpected EXCEPT ![q] = Append(@, e)]
  <2> DEFINE e == [rreq |-> h, rank |-> p, tag |-> k.tag, sreq |-> k.sreq, id |-> k.id]
  <2>1. e \in Arrival
    BY <1>2 DEF Arrival
  <2>2. unexpected' = [unexpected EXCEPT ![q] = Append(@, e)]
    BY DEF HandleEagerUnexpected, HandleRtsUnexpected, QueueUnexpected
  <2> QED
    BY <2>1, <2>2
<1>4. UNCHANGED <<posted, sendq, sent, rcvd>>
  BY DEF HandleEagerUnexpected, HandleRtsUnexpected, history
<1>5. Takes(p, q, k)
  BY <1>1, <1>2, <1>4, TakesMessage
<1>6. /\ \A b \in Proc : InRankOrder(unexpected'[b])
      /\ Arrivals(p, q)' = Arrivals(p, q) \cup {e}
      /\ \A a, b \in Proc : a # p \/ b # q => Arrivals(a, b)' = Arrivals(a, b)
  <2>1. \A x \in Arrivals(e.rank, q) : x.id < e.id
    BY <1>2, <1>3
  <2>2. /\ \A b \in Proc : InRankOrder(unexpected'[b])
        /\ Arrivals(e.rank, q)' = Arrivals(e.rank, q) \cup {e}
        /\ \A a, b \in Proc : a # e.rank \/ b # q => Arrivals(a, b)' = Arrivals(a, b)
    BY <1>3, <2>1, QueuedArrivals
  <2> QED
    BY <1>3, <2>2
<1>7. ASSUME NEW a \in Proc, NEW b \in Proc PROVE InTransit(a, b)'
  <2>0. InTransit(a, b)
    BY DEF MessageInv
  <2>1. CASE a = p /\ b = q
    BY <1>3, <1>4, <1>5, <1>6, <2>0, <2>1, TransitQueued
  <2>2. CASE a # p \/ b # q
    <3>1. SameMessages(a, b) /\ Arrivals(a, b)' = Arrivals(a, b) /\ SameSends
      BY <1>4, <1>5, <1>6, <2>2, SendsSame DEF Takes
    <3> QED
      BY <2>0, <3>1, TransitKept DEF SameSends
  <2> QED
    BY <2>1, <2>2
<1>8. \A b \in Proc : PostedInv(b)'
  BY <1>4, RecvsSame, PostedKept DEF MessageInv, SameRecvs
<1> QED
  BY <1>6, <1>7, <1>8 DEF MessageInv

LEMMA StepMessages ==
  ASSUME TypeOK, TypeOK', MessageInv, SelfInv, [Next]_vars
  PROVE  MessageInv'
<1>1. ASSUME NEW p \in Proc, SendCall(p) PROVE MessageInv'
  <2>1. PICK t \in Tag, mode \in Mode, size \in Size, h \in Handle :
          \/ \E q \in Proc : Isend(p, q, t, mode, size, h)
          \/ \E i \in 1 .. Len(posted[p]) : IsendSelfFound(p, t, mode, size, h, i)
          \/ \E g \in Handle : IsendSelfUnexpected(p, t, mode, size, h, g)
    BY <1>1 DEF SendCall
  <2> QED
    BY <2>1, IsendMessages, IsendSelfFoundMessages, IsendSelfUnexpectedMessages
<1>2. ASSUME NEW p \in Proc, RecvCall(p) PROVE MessageInv'
  BY <1>2, RecvPostMessages, DequeueForMessages, QuietCallMessages DEF RecvCall
<1>3. ASSUME NEW p \in Proc, EndCall(p) PROVE MessageInv'
  BY <1>3, QuietCallMessages, CancelSelfFoundMessages, CancelRecvMessages DEF EndCall
<1>4. ASSUME NEW p \in Proc, FinishCall(p) PROVE MessageInv'
  <2>1. call[p] \in Handle
    BY <1>4 DEF FinishCall, TypeOK
  <2> QED
    BY <1>4, <2>1, QuietCallMessages
<1>5. ASSUME NEW p \in Proc, NEW q \in Proc, Write(p, q) \/ PayloadArrives(q, p)
      PROVE  MessageInv'
  BY <1>5, QuietProgressMessages
<1>6. ASSUME NEW p \in Proc, NEW q \in Proc, NEW k, HandlePacket(q, p, k)
      PROVE  MessageInv'
  <2>1. ReadPacket(q, p, k)
    BY <1>6 DEF HandlePacket
  <2>2. ASSUME NEW i \in 1 .. Len(posted[q]),
               HandleEagerFound(q, p, k, i) \/ HandleRtsFound(q, p, k, i)
        PROVE  MessageInv'
    BY <2>1, <2>2, FoundMessages
  <2>3. ASSUME NEW h \in Handle,
               HandleEagerUnexpected(q, p, k, h) \/ HandleRtsUnexpected(q, p, k, h)
        PROVE  MessageInv'
    BY <2>1, <2>3, UnexpectedMessages
  <2>4. ASSUME NEW i \in 1 .. Len(unexpected[q]), HandleCancelReqFound(q, p, k, i)
        PROVE  MessageInv'
    BY <2>1, <2>4, CancelReqFoundMessages
  <2>5. ASSUME \/ HandleCts(q, p, k) \/ HandleRndvSend(q, p, k) \/ HandleSyncAck(q, p, k)
               \/ HandleCancelReqMissed(q, p, k) \/ HandleCancelResp(q, p, k)
        PROVE  MessageInv'
    BY <2>1, <2>5, QuietPacketMessages
  <2> QED
    BY <1>6, <2>2, <2>3, <2>4, <2>5 DEF HandlePacket
<1>7. CASE UNCHANGED vars
  BY <1>7, MessagesKept, NoMessageSent, SendsSame, RecvsSame DEF vars, net, history
<1> QED
  BY <1>1, <1>2, <1>3, <1>4, <1>5, <1>6, <1>7 DEF Next, Deliver
=============================================================================

------------------------------ MODULE Pt2ptRefs ------------------------------
(***************************************************************************)
(* References to the requests of Pt2pt: whatever names a request counts    *)
(* for one of its references, so none is released while it is still named  *)
(* and none is kept by nobody.                                             *)
(***************************************************************************)
EXTENDS Pt2ptMatching, FiniteSetTheorems

LEMMA CountType ==
  ASSUME NEW A, NEW s \in Seq(A), NEW B
  PROVE  /\ NumIn(s, B) \in Nat
         /\ NumIn(s, B) = 0 <=> \A i \in 1 .. Len(s) : s[i] \notin B
         /\ NumIn(s, B) = 0 <=> \A x \in Range(s) : x \notin B
<1> DEFINE C == {i \in 1 .. Len(s) : s[i] \in B}
<1>1. Len(s) \in Nat /\ DOMAIN s = 1 .. Len(s)
  OBVIOUS
<1>2. IsFiniteSet(1 .. Len(s))
  BY <1>1, FS_Interval
<1>3. IsFiniteSet(C) /\ NumIn(s, B) = Cardinality(C)
  BY <1>1, <1>2, FS_Subset DEF NumIn
<1>4. Cardinality(C) \in Nat /\ (Cardinality(C) = 0 <=> C = {})
  BY <1>3, FS_CardinalityType, FS_EmptySet
<1>5. Range(s) = {s[i] : i \in 1 .. Len(s)}
  BY <1>1 DEF Range
<1> QED
  BY <1>3, <1>4, <1>5

LEMMA CountNone ==
  ASSUME NEW B
  PROVE  NumIn(<<>>, B) = 0
<1> DEFINE s == <<>>
<1>1. s \in Seq({}) /\ \A i \in 1 .. Len(s) : s[i] \notin B
  OBVIOUS
<1> HIDE DEF s
<1>2. NumIn(s, B) = 0
  BY <1>1, CountType
<1> QED
  BY <1>2 DEF s

LEMMA CountLess ==
  ASSUME NEW A, NEW s \in Seq(A), NEW t \in Seq(A), NEW i \in 1 .. Len(s),
         Len(t) = Len(s) - 1,
         \A k \in 1 .. Len(s) - 1 : t[k] = s[IF k < i THEN k ELSE k + 1],
         NEW B
  PROVE  NumIn(s, B) = NumIn(t, B) + Num(s[i] \in B)
<1> DEFINE C == {k \in 1 .. Len(s) : s[k] \in B}
           D == {k \in 1 .. Len(t) : t[k] \in B}
           F == [k \in D |-> IF k < i THEN k ELSE k + 1]
<1>1. /\ Len(s) \in Nat /\ DOMAIN s = 1 .. Len(s)
      /\ Len(t) \in Nat /\ DOMAIN t = 1 .. Len(t)
  OBVIOUS
<1>2. /\ IsFiniteSet(C) /\ NumIn(s, B) = Cardinality(C)
      /\ IsFiniteSet(D) /\ NumIn(t, B) = Cardinality(D)
  <2>1. IsFiniteSet(1 .. Len(s)) /\ IsFiniteSet(1 .. Len(t))
    BY <1>1, FS_Interval
  <2> QED
    BY <1>1, <2>1, FS_Subset DEF NumIn
<1>3. F \in [D -> C \ {i}]
  BY <1>1
<1>4. \A a, b \in D : F[a] = F[b] => a = b
  BY <1>1
<1>5. ASSUME NEW c \in C \ {i} PROVE \E d \in D : F[d] = c
  <2>1. CASE c < i
    <3>1. c \in D /\ c < i
      BY <1>1, <2>1
    <3> QED
      BY <3>1
  <2>2. CASE ~(c < i)
    <3>1. c - 1 \in D /\ ~(c - 1 < i)
      BY <1>1, <2>2
    <3> QED
      BY <1>1, <3>1
  <2> QED
    BY <2>1, <2>2
<1>6. F \in Bijection(D, C \ {i})
  <2> HIDE DEF C, D, F
  <2> QED
    BY <1>3, <1>4, <1>5 DEF Bijection, Injection, Surjection, IsInjective
<1>7. Cardinality(C \ {i}) = Cardinality(D)
  <2> HIDE DEF C, D, F
  <2>1. ExistsBijection(D, C \ {i})
    BY <1>6 DEF ExistsBijection
  <2> QED
    BY <1>2, <2>1, FS_Bijection
<1>8. /\ Cardinality(C \ {i}) = IF i \in C THEN Cardinality(C) - 1 ELSE Cardinality(C)
      /\ Cardinality(C) \in Nat
  <2> HIDE DEF C, D, F
  <2> QED
    BY <1>2, FS_RemoveElement, FS_CardinalityType
<1> QED
  BY <1>1, <1>2, <1>7, <1>8 DEF Num

LEMMA CountRemove ==
  ASSUME NEW A, NEW s \in Seq(A), NEW i \in 1 .. Len(s), NEW B
  PROVE  NumIn(s, B) = NumIn(RemoveAt(s, i), B) + Num(s[i] \in B)
<1> DEFINE t == RemoveAt(s, i)
<1>1. /\ t \in Seq(A) /\ Len(t) = Len(s) - 1
      /\ \A k \in 1 .. Len(s) - 1 : t[k] = s[IF k < i THEN k ELSE k + 1]
  BY RemoveParts
<1> HIDE DEF t
<1>2. NumIn(s, B) = NumIn(t, B) + Num(s[i] \in B)
  BY <1>1, CountLess
<1> QED
  BY <1>2 DEF t

LEMMA CountTail ==
  ASSUME NEW A, NEW s \in Seq(A), s # <<>>, NEW B
  PROVE  NumIn(s, B) = NumIn(Tail(s), B) + Num(Head(s) \in B)
<1> DEFINE t == Tail(s)
           i == 1
<1>1. /\ t \in Seq(A) /\ Len(t) = Len(s) - 1 /\ i \in 1 .. Len(s)
      /\ \A k \in 1 .. Len(s) - 1 : t[k] = s[IF k < i THEN k ELSE k + 1]
      /\ Head(s) = s[i]
  BY TailParts
<1> HIDE DEF t, i
<1>2. NumIn(s, B) = NumIn(t, B) + Num(s[i] \in B)
  BY <1>1, CountLess
<1> QED
  BY <1>1, <1>2 DEF t

LEMMA CountAppend ==
  ASSUME NEW A, NEW s \in Seq(A), NEW x \in A, NEW B
  PROVE  NumIn(Append(s, x), B) = NumIn(s, B) + Num(x \in B)
<1> DEFINE t == Append(s, x)
           i == Len(s) + 1
<1>1. /\ t \in Seq(A) /\ Len(t) = i /\ i \in 1 .. Len(t) /\ Len(s) \in Nat
      /\ t[i] = x
      /\ \A k \in 1 .. Len(s) : t[k] = s[k]
  BY AppendParts
<1>2. /\ Len(s) = Len(t) - 1
      /\ \A k \in 1 .. Len(t) - 1 : s[k] = t[IF k < i THEN k ELSE k + 1]
  BY <1>1
<1> HIDE DEF t, i
<1>3. NumIn(t, B) = NumIn(s, B) + Num(t[i] \in B)
  BY <1>1, <1>2, CountLess
<1> QED
  BY <1>1, <1>3 DEF t

(* No packet. *)
Nil == [type |-> "NONE"]

(* One packet k, if any, is taken from the flow of p to q, and one packet  *)
(* m, if any, is put on that of q to p. *)
NetStep(q, p, k, m) ==
  \A S \in SUBSET Packet, a, b \in Proc :
    NumIn(Flow(a, b)', S) =
      NumIn(Flow(a, b), S) - Num(a = p /\ b = q /\ k \in S) + Num(a = q /\ b = p /\ m \in S)

(* The send queue of q to p loses x and gets m. *)
QueueStep(q, p, x, m) ==
  \A S \in SUBSET Packet, a, b \in Proc :
    NumIn(sendq'[a][b], S) =
      NumIn(sendq[a][b], S) - Num(a = q /\ b = p /\ x \in S) + Num(a = q /\ b = p /\ m \in S)

LEMMA NilIsNone ==
  \A S \in SUBSET Packet : Nil \notin S
<1> SUFFICES Nil \notin Packet
  OBVIOUS
<1> QED
  BY DEF Nil, Packet, EagerTypes

LEMMA FlowCounts ==
  ASSUME TypeOK, NEW a \in Proc, NEW b \in Proc, NEW S
  PROVE  NumIn(Flow(a, b), S) \in Nat /\ NumIn(sendq[a][b], S) \in Nat
<1>1. Flow(a, b) \in Seq(Packet) /\ sendq[a][b] \in Seq(Packet)
  BY FlowType
<1> QED
  BY <1>1, CountType

LEMMA StepSame ==
  ASSUME TypeOK, UNCHANGED <<wire, sendq>>, NEW p \in Proc, NEW q \in Proc
  PROVE  NetStep(q, p, Nil, Nil) /\ QueueStep(q, p, Nil, Nil)
<1> SUFFICES ASSUME NEW S \in SUBSET Packet, NEW a \in Proc, NEW b \in Proc
             PROVE  /\ NumIn(Flow(a, b)', S) =
                         NumIn(Flow(a, b), S) - Num(a = p /\ b = q /\ Nil \in S)
                           + Num(a = q /\ b = p /\ Nil \in S)
                    /\ NumIn(sendq'[a][b], S) =
                         NumIn(sendq[a][b], S) - Num(a = q /\ b = p /\ Nil \in S)
                           + Num(a = q /\ b = p /\ Nil \in S)
  BY DEF NetStep, QueueStep
<1>1. Flow(a, b)' = Flow(a, b) /\ sendq'[a][b] = sendq[a][b]
  BY NetSame
<1>2. NumIn(Flow(a, b), S) \in Nat /\ NumIn(sendq[a][b], S) \in Nat
  BY FlowCounts
<1>3. Nil \notin S
  BY NilIsNone
<1> QED
  BY <1>1, <1>2, <1>3 DEF Num

LEMMA StepSend ==
  ASSUME TypeOK, NEW p \in Proc, NEW q \in Proc, NEW k \in Packet,
         SendPacket(p, q, k), UNCHANGED wire
  PROVE  NetStep(p, q, Nil, k) /\ QueueStep(p, q, Nil, k)
<1> SUFFICES ASSUME NEW S \in SUBSET Packet, NEW a \in Proc, NEW b \in Proc
             PROVE  /\ NumIn(Flow(a, b)', S) =
                         NumIn(Flow(a, b), S) - Num(a = q /\ b = p /\ Nil \in S)
                           + Num(a = p /\ b = q /\ k \in S)
                    /\ NumIn(sendq'[a][b], S) =
                         NumIn(sendq[a][b], S) - Num(a = p /\ b = q /\ Nil \in S)
                           + Num(a = p /\ b = q /\ k \in S)
  BY DEF NetStep, QueueStep
<1>0. /\ Flow(p, q)' = Append(Flow(p, q), k)
      /\ sendq'[p][q] = Append(sendq[p][q], k)
      /\ \A c, d \in Proc : c # p \/ d # q =>
              Flow(c, d)' = Flow(c, d) /\ sendq'[c][d] = sendq[c][d]
  BY NetSend
<1>1. NumIn(Flow(a, b), S) \in Nat /\ NumIn(sendq[a][b], S) \in Nat
  BY FlowCounts
<1>2. Nil \notin S
  BY NilIsNone
<1>3. CASE a = p /\ b = q
  <2>1. Flow(p, q) \in Seq(Packet) /\ sendq[p][q] \in Seq(Packet)
    BY FlowType
  <2>2. NumIn(Append(Flow(p, q), k), S) = NumIn(Flow(p, q), S) + Num(k \in S)
    BY <2>1, CountAppend
  <2>3. NumIn(Append(sendq[p][q], k), S) = NumIn(sendq[p][q], S) + Num(k \in S)
    BY <2>1, CountAppend
  <2>4. /\ NumIn(Flow(a, b)', S) = NumIn(Flow(a, b), S) + Num(k \in S)
        /\ NumIn(sendq'[a][b], S) = NumIn(sendq[a][b], S) + Num(k \in S)
    BY <1>0, <1>3, <2>2, <2>3
  <2> QED
    BY <1>1, <1>2, <1>3, <2>4 DEF Num
<1>4. CASE ~(a = p /\ b = q)
  <2>1. Flow(a, b)' = Flow(a, b) /\ sendq'[a][b] = sendq[a][b]
    BY <1>0, <1>4
  <2> QED
    BY <1>1, <1>2, <1>4, <2>1 DEF Num
<1> QED
  BY <1>3, <1>4

LEMMA StepRead ==
  ASSUME TypeOK, NEW q \in Proc, NEW p \in Proc, NEW k, ReadPacket(q, p, k),
         UNCHANGED sendq
  PROVE  NetStep(q, p, k, Nil) /\ QueueStep(q, p, Nil, Nil)
<1> SUFFICES ASSUME NEW S \in SUBSET Packet, NEW a \in Proc, NEW b \in Proc
             PROVE  /\ NumIn(Flow(a, b)', S) =
                         NumIn(Flow(a, b), S) - Num(a = p /\ b = q /\ k \in S)
                           + Num(a = q /\ b = p /\ Nil \in S)
                    /\ NumIn(sendq'[a][b], S) =
                         NumIn(sendq[a][b], S) - Num(a = q /\ b = p /\ Nil \in S)
                           + Num(a = q /\ b = p /\ Nil \in S)
  BY DEF NetStep, QueueStep
<1>0. /\ Flow(p, q)' = Tail(Flow(p, q))
      /\ \A c, d \in Proc : c # p \/ d # q => Flow(c, d)' = Flow(c, d)
      /\ \A c, d \in Proc : sendq'[c][d] = sendq[c][d]
  BY NetRead
<1>1. NumIn(Flow(a, b), S) \in Nat /\ NumIn(sendq[a][b], S) \in Nat
  BY FlowCounts
<1>2. Nil \notin S /\ sendq'[a][b] = sendq[a][b]
  BY <1>0, NilIsNone
<1>3. CASE a = p /\ b = q
  <2>1. Flow(p, q) \in Seq(Packet) /\ Flow(p, q) # <<>> /\ Head(Flow(p, q)) = k
    BY ReadHead
  <2>2. NumIn(Flow(p, q), S) = NumIn(Tail(Flow(p, q)), S) + Num(Head(Flow(p, q)) \in S)
    BY <2>1, CountTail
  <2>3. Tail(Flow(p, q)) \in Seq(Packet)
    BY <2>1
  <2>4. NumIn(Tail(Flow(p, q)), S) \in Nat
    BY <2>3, CountType
  <2>5. NumIn(Flow(a, b), S) = NumIn(Flow(a, b)', S) + Num(k \in S)
    BY <1>0, <1>3, <2>1, <2>2
  <2>6. NumIn(Flow(a, b)', S) \in Nat
    BY <1>0, <1>3, <2>4
  <2> QED
    BY <1>1, <1>2, <1>3, <2>5, <2>6 DEF Num
<1>4. CASE ~(a = p /\ b = q)
  <2>1. Flow(a, b)' = Flow(a, b)
    BY <1>0, <1>4
  <2> QED
    BY <1>1, <1>2, <1>4, <2>1 DEF Num
<1> QED
  BY <1>3, <1>4

LEMMA StepReply ==
  ASSUME TypeOK, NEW q \in Proc, NEW p \in Proc, p # q, NEW k, ReadPacket(q, p, k),
         NEW m \in Packet, SendPacket(q, p, m)
  PROVE  NetStep(q, p, k, m) /\ QueueStep(q, p, Nil, m)
<1> SUFFICES ASSUME NEW S \in SUBSET Packet, NEW a \in Proc, NEW b \in Proc
             PROVE  /\ NumIn(Flow(a, b)', S) =
                         NumIn(Flow(a, b), S) - Num(a = p /\ b = q /\ k \in S)
                           + Num(a = q /\ b = p /\ m \in S)
                    /\ NumIn(sendq'[a][b], S) =
                         NumIn(sendq[a][b], S) - Num(a = q /\ b = p /\ Nil \in S)
                           + Num(a = q /\ b = p /\ m \in S)
  BY DEF NetStep, QueueStep
<1>0. /\ Flow(p, q)' = Tail(Flow(p, q)) /\ Flow(q, p)' = Append(Flow(q, p), m)
      /\ \A c, d \in Proc : (c # p \/ d # q) /\ (c # q \/ d # p) => Flow(c, d)' = Flow(c, d)
      /\ sendq'[q][p] = Append(sendq[q][p], m)
      /\ \A c, d \in Proc : c # q \/ d # p => sendq'[c][d] = sendq[c][d]
  BY NetReply
<1>1. NumIn(Flow(a, b), S) \in Nat /\ NumIn(sendq[a][b], S) \in Nat
  BY FlowCounts
<1>2. Nil \notin S
  BY NilIsNone
<1>3. CASE a = p /\ b = q
  <2>1. Flow(p, q) \in Seq(Packet) /\ Flow(p, q) # <<>> /\ Head(Flow(p, q)) = k
    BY ReadHead
  <2>2. NumIn(Flow(p, q), S) = NumIn(Tail(Flow(p, q)), S) + Num(Head(Flow(p, q)) \in S)
    BY <2>1, CountTail
  <2>3. Tail(Flow(p, q)) \in Seq(Packet)
    BY <2>1
  <2>4. NumIn(Tail(Flow(p, q)), S) \in Nat
    BY <2>3, CountType
  <2>5. sendq'[a][b] = sendq[a][b]
    BY <1>0, <1>3
  <2>6. NumIn(Flow(a, b), S) = NumIn(Flow(a, b)', S) + Num(k \in S)
    BY <1>0, <1>3, <2>1, <2>2
  <2>7. NumIn(Flow(a, b)', S) \in Nat
    BY <1>0, <1>3, <2>4
  <2> QED
    BY <1>1, <1>2, <1>3, <2>5, <2>6, <2>7 DEF Num
<1>4. CASE a = q /\ b = p
  <2>1. Flow(q, p) \in Seq(Packet) /\ sendq[q][p] \in Seq(Packet)
    BY FlowType
  <2>2. NumIn(Append(Flow(q, p), m), S) = NumIn(Flow(q, p), S) + Num(m \in S)
    BY <2>1, CountAppend
  <2>3. NumIn(Append(sendq[q][p], m), S) = NumIn(sendq[q][p], S) + Num(m \in S)
    BY <2>1, CountAppend
  <2>4. /\ NumIn(Flow(a, b)', S) = NumIn(Flow(a, b), S) + Num(m \in S)
        /\ NumIn(sendq'[a][b], S) = NumIn(sendq[a][b], S) + Num(m \in S)
    BY <1>0, <1>4, <2>2, <2>3
  <2> QED
    BY <1>1, <1>2, <1>4, <2>4 DEF Num
<1>5. CASE ~(a = p /\ b = q) /\ ~(a = q /\ b = p)
  <2>1. Flow(a, b)' = Flow(a, b) /\ sendq'[a][b] = sendq[a][b]
    BY <1>0, <1>5
  <2> QED
    BY <1>1, <1>2, <1>5, <2>1 DEF Num
<1> QED
  BY <1>3, <1>4, <1>5

LEMMA InConcat ==
  ASSUME NEW S, NEW v \in Seq(S), NEW s \in Seq(S), NEW x \in Range(s)
  PROVE  x \in Range(v \o s)
<1>1. /\ v \o s \in Seq(S) /\ Len(v \o s) = Len(v) + Len(s) /\ Len(v) \in Nat /\ Len(s) \in Nat
      /\ \A i \in 1 .. Len(v) + Len(s) :
           (v \o s)[i] = IF i <= Len(v) THEN v[i] ELSE s[i - Len(v)]
  BY ConcatProperties, LenProperties
<1>2. PICK i \in 1 .. Len(s) : x = s[i]
  BY RangeOf
<1>3. Len(v) + i \in 1 .. Len(v \o s) /\ (v \o s)[Len(v) + i] = x
  BY <1>1, <1>2
<1> QED
  BY <1>1, <1>3, RangeOf

LEMMA StepWrite ==
  ASSUME TypeOK, NEW p \in Proc, NEW q \in Proc, Write(p, q)
  PROVE  /\ NetStep(p, q, Nil, Nil)
         /\ QueueStep(p, q, Head(sendq[p][q]), Nil)
         /\ Head(sendq[p][q]) \in Packet /\ Head(sendq[p][q]) \in Range(Flow(p, q))
<1> DEFINE x == Head(sendq[p][q])
<1>0. /\ sendq[p][q] # <<>> /\ sendq'[p][q] = Tail(sendq[p][q])
      /\ \A c, d \in Proc : Flow(c, d)' = Flow(c, d)
      /\ \A c, d \in Proc : c # p \/ d # q => sendq'[c][d] = sendq[c][d]
  BY NetWrite
<1>1. sendq[p][q] \in Seq(Packet) /\ wire[p][q] \in Seq(Packet)
  BY FlowType
<1>2. x \in Packet /\ x \in Range(sendq[p][q])
  BY <1>0, <1>1, TailParts
<1>3. x \in Range(Flow(p, q))
  <2> DEFINE v == wire[p][q]
             s == sendq[p][q]
  <2>1. v \in Seq(Packet) /\ s \in Seq(Packet) /\ x \in Range(s)
    BY <1>1, <1>2
  <2> HIDE DEF v, s
  <2>2. x \in Range(v \o s)
    BY <2>1, InConcat
  <2> QED
    BY <2>2 DEF Flow, v, s
<1>4. ASSUME NEW S \in SUBSET Packet, NEW a \in Proc, NEW b \in Proc
      PROVE  /\ NumIn(Flow(a, b)', S) =
                  NumIn(Flow(a, b), S) - Num(a = q /\ b = p /\ Nil \in S)
                    + Num(a = p /\ b = q /\ Nil \in S)
             /\ NumIn(sendq'[a][b], S) =
                  NumIn(sendq[a][b], S) - Num(a = p /\ b = q /\ x \in S)
                    + Num(a = p /\ b = q /\ Nil \in S)
  <2>1. NumIn(Flow(a, b), S) \in Nat /\ NumIn(sendq[a][b], S) \in Nat
    BY FlowCounts
  <2>2. Nil \notin S /\ Flow(a, b)' = Flow(a, b)
    BY <1>0, NilIsNone
  <2>3. CASE a = p /\ b = q
    <3>1. NumIn(sendq[p][q], S) = NumIn(Tail(sendq[p][q]), S) + Num(x \in S)
      BY <1>0, <1>1, CountTail
    <3>2. Tail(sendq[p][q]) \in Seq(Packet)
      BY <1>0, <1>1
    <3>3. NumIn(Tail(sendq[p][q]), S) \in Nat
      BY <3>2, CountType
    <3> QED
      BY <1>0, <2>1, <2>2, <2>3, <3>1, <3>3 DEF Num
  <2>4. CASE ~(a = p /\ b = q)
    <3>1. sendq'[a][b] = sendq[a][b]
      BY <1>0, <2>4
    <3> QED
      BY <2>1, <2>2, <2>4, <3>1 DEF Num
  <2> QED
    BY <2>3, <2>4
<1>5. NetStep(p, q, Nil, Nil)
  BY <1>4 DEF NetStep
<1>6. QueueStep(p, q, x, Nil)
  BY <1>4 DEF QueueStep
<1> QED
  BY <1>2, <1>3, <1>5, <1>6

(* The posted queue of q loses an entry for x and gets one for m. *)
PostStep(q, x, m) ==
  \A b \in Proc, g \in Handle :
    NumPosted(b, g)' = NumPosted(b, g) - Num(b = q /\ x = g) + Num(b = q /\ m = g)

(* So does the unexpected queue. *)
ArriveStep(q, x, m) ==
  \A b \in Proc, g \in Handle :
    NumQueued(b, g)' = NumQueued(b, g) - Num(b = q /\ x = g) + Num(b = q /\ m = g)

(* The connection of q with p stops reading for x and starts for y. *)
ReadingStep(q, p, x, y) ==
  \A b, a \in Proc, g \in Handle :
    Num(reading'[b][a] = g) =
      Num(reading[b][a] = g) - Num(b = q /\ a = p /\ x = g) + Num(b = q /\ a = p /\ y = g)

LEMMA Entries ==
  /\ \A g : PostingsOf(g) = {e \in Posting : e.rreq = g}
  /\ \A g : ArrivalsOf(g) = {e \in Arrival : e.rreq = g}
BY DEF PostingsOf, ArrivalsOf

LEMMA QueueCounts ==
  ASSUME TypeOK, NEW q \in Proc, NEW g \in Handle
  PROVE  /\ NumPosted(q, g) \in Nat /\ NumQueued(q, g) \in Nat
         /\ NumPosted(q, g) = 0 <=> \A i \in 1 .. Len(posted[q]) : posted[q][i].rreq # g
         /\ NumQueued(q, g) = 0 <=> \A i \in 1 .. Len(unexpected[q]) : unexpected[q][i].rreq # g
<1>1. posted[q] \in Seq(Posting) /\ unexpected[q] \in Seq(Arrival)
  BY DEF TypeOK
<1>2. /\ \A i \in 1 .. Len(posted[q]) : posted[q][i] \in Posting
      /\ \A i \in 1 .. Len(unexpected[q]) : unexpected[q][i] \in Arrival
  BY <1>1, ElementOfSeq
<1>3. /\ NumPosted(q, g) \in Nat
      /\ NumPosted(q, g) = 0 <=> \A i \in 1 .. Len(posted[q]) : posted[q][i] \notin PostingsOf(g)
  BY <1>1, CountType DEF NumPosted
<1>4. /\ NumQueued(q, g) \in Nat
      /\ NumQueued(q, g) = 0 <=>
           \A i \in 1 .. Len(unexpected[q]) : unexpected[q][i] \notin ArrivalsOf(g)
  BY <1>1, CountType DEF NumQueued
<1> QED
  BY <1>2, <1>3, <1>4, Entries

QueuesCounted ==
  TypeOK => \A q \in Proc, g \in Handle : NumPosted(q, g) \in Nat /\ NumQueued(q, g) \in Nat

LEMMA QueuesAlwaysCounted == QueuesCounted
BY QueueCounts DEF QueuesCounted

LEMMA QueuesCountedNext == QueuesCounted'
BY QueuesAlwaysCounted, PTL

LEMMA QueueCountsNext ==
  ASSUME TypeOK', NEW q \in Proc, NEW g \in Handle
  PROVE  NumPosted(q, g)' \in Nat /\ NumQueued(q, g)' \in Nat
BY QueuesCountedNext DEF QueuesCounted

LEMMA PostedSame ==
  ASSUME TypeOK, UNCHANGED posted, NEW q
  PROVE  PostStep(q, None, None)
<1>1. \A b \in Proc, g \in Handle : NumPosted(b, g)' = NumPosted(b, g) /\ None # g
  BY NoneAssumption DEF NumPosted
<1>2. \A b \in Proc, g \in Handle : NumPosted(b, g) \in Nat
  BY QueueCounts
<1> QED
  BY <1>1, <1>2 DEF PostStep, Num

LEMMA ArrivedSame ==
  ASSUME TypeOK, UNCHANGED unexpected, NEW q
  PROVE  ArriveStep(q, None, None)
<1>1. \A b \in Proc, g \in Handle : NumQueued(b, g)' = NumQueued(b, g) /\ None # g
  BY NoneAssumption DEF NumQueued
<1>2. \A b \in Proc, g \in Handle : NumQueued(b, g) \in Nat
  BY QueueCounts
<1> QED
  BY <1>1, <1>2 DEF ArriveStep, Num

LEMMA PostedAdd ==
  ASSUME TypeOK, NEW q \in Proc, NEW e \in Posting,
         posted' = [posted EXCEPT ![q] = Append(@, e)]
  PROVE  PostStep(q, None, e.rreq)
<1> SUFFICES ASSUME NEW b \in Proc, NEW g \in Handle
             PROVE  NumPosted(b, g)' =
                      NumPosted(b, g) - Num(b = q /\ None = g) + Num(b = q /\ e.rreq = g)
  BY DEF PostStep
<1>1. NumPosted(b, g) \in Nat /\ None # g /\ (e \in PostingsOf(g) <=> e.rreq = g)
  BY QueueCounts, NoneAssumption, Entries
<1>2. CASE b = q
  <2>1. posted[q] \in Seq(Posting) /\ posted'[q] = Append(posted[q], e)
    BY DEF TypeOK
  <2>2. NumIn(Append(posted[q], e), PostingsOf(g)) =
          NumIn(posted[q], PostingsOf(g)) + Num(e \in PostingsOf(g))
    BY <2>1, CountAppend
  <2>3. NumPosted(b, g)' = NumPosted(b, g) + Num(e \in PostingsOf(g))
    BY <1>2, <2>1, <2>2 DEF NumPosted
  <2> QED
    BY <1>1, <1>2, <2>3 DEF Num
<1>3. CASE b # q
  <2>1. NumPosted(b, g)' = NumPosted(b, g)
    BY <1>3 DEF NumPosted, TypeOK
  <2> QED
    BY <1>1, <1>3, <2>1 DEF Num
<1> QED
  BY <1>2, <1>3

LEMMA ArrivedAdd ==
  ASSUME TypeOK, NEW q \in Proc, NEW e \in Arrival,
         unexpected' = [unexpected EXCEPT ![q] = Append(@, e)]
  PROVE  ArriveStep(q, None, e.rreq)
<1> SUFFICES ASSUME NEW b \in Proc, NEW g \in Handle
             PROVE  NumQueued(b, g)' =
                      NumQueued(b, g) - Num(b = q /\ None = g) + Num(b = q /\ e.rreq = g)
  BY DEF ArriveStep
<1>1. NumQueued(b, g) \in Nat /\ None # g /\ (e \in ArrivalsOf(g) <=> e.rreq = g)
  BY QueueCounts, NoneAssumption, Entries
<1>2. CASE b = q
  <2>1. unexpected[q] \in Seq(Arrival) /\ unexpected'[q] = Append(unexpected[q], e)
    BY DEF TypeOK
  <2>2. NumIn(Append(unexpected[q], e), ArrivalsOf(g)) =
          NumIn(unexpected[q], ArrivalsOf(g)) + Num(e \in ArrivalsOf(g))
    BY <2>1, CountAppend
  <2>3. NumQueued(b, g)' = NumQueued(b, g) + Num(e \in ArrivalsOf(g))
    BY <1>2, <2>1, <2>2 DEF NumQueued
  <2> QED
    BY <1>1, <1>2, <2>3 DEF Num
<1>3. CASE b # q
  <2>1. NumQueued(b, g)' = NumQueued(b, g)
    BY <1>3 DEF NumQueued, TypeOK
  <2> QED
    BY <1>1, <1>3, <2>1 DEF Num
<1> QED
  BY <1>2, <1>3

LEMMA PostedTake ==
  ASSUME TypeOK, NEW q \in Proc, NEW i \in 1 .. Len(posted[q]),
         posted' = [posted EXCEPT ![q] = RemoveAt(@, i)]
  PROVE  PostStep(q, posted[q][i].rreq, None) /\ posted[q][i].rreq \in Handle
<1>0. /\ posted[q] \in Seq(Posting) /\ posted'[q] = RemoveAt(posted[q], i)
      /\ \A b \in Proc : b # q => posted'[b] = posted[b]
  BY DEF TypeOK
<1>1. PICK e \in Posting : e = posted[q][i]
  BY <1>0, ElementOfSeq
<1>2. ASSUME NEW b \in Proc, NEW g \in Handle
      PROVE  NumPosted(b, g)' =
                      NumPosted(b, g) - Num(b = q /\ e.rreq = g) + Num(b = q /\ None = g)
  <2>1. NumPosted(b, g) \in Nat /\ None # g /\ (e \in PostingsOf(g) <=> e.rreq = g)
    BY QueueCounts, NoneAssumption, Entries
  <2>2. CASE b = q
    <3>1. NumIn(posted[q], PostingsOf(g)) =
            NumIn(RemoveAt(posted[q], i), PostingsOf(g)) + Num(posted[q][i] \in PostingsOf(g))
      BY <1>0, CountRemove
    <3>2. RemoveAt(posted[q], i) \in Seq(Posting)
      BY <1>0, RemoveParts
    <3>3. NumIn(RemoveAt(posted[q], i), PostingsOf(g)) \in Nat
      BY <3>2, CountType
    <3>4. /\ NumPosted(b, g) = NumPosted(b, g)' + Num(e \in PostingsOf(g))
          /\ NumPosted(b, g)' \in Nat
      BY <1>0, <1>1, <2>2, <3>1, <3>3 DEF NumPosted
    <3> QED
      BY <2>1, <2>2, <3>4 DEF Num
  <2>3. CASE b # q
    <3>1. NumPosted(b, g)' = NumPosted(b, g)
      BY <1>0, <2>3 DEF NumPosted
    <3> QED
      BY <2>1, <2>3, <3>1 DEF Num
  <2> QED
    BY <2>2, <2>3
<1>3. e.rreq \in Handle /\ PostStep(q, e.rreq, None)
  BY <1>2 DEF PostStep, Posting
<1> QED
  BY <1>1, <1>3

LEMMA ArrivedTake ==
  ASSUME TypeOK, NEW q \in Proc, NEW i \in 1 .. Len(unexpected[q]),
         unexpected' = [unexpected EXCEPT ![q] = RemoveAt(@, i)]
  PROVE  ArriveStep(q, unexpected[q][i].rreq, None) /\ unexpected[q][i].rreq \in Handle
<1>0. /\ unexpected[q] \in Seq(Arrival) /\ unexpected'[q] = RemoveAt(unexpected[q], i)
      /\ \A b \in Proc : b # q => unexpected'[b] = unexpected[b]
  BY DEF TypeOK
<1>1. PICK e \in Arrival : e = unexpected[q][i]
  BY <1>0, ElementOfSeq
<1>2. ASSUME NEW b \in Proc, NEW g \in Handle
      PROVE  NumQueued(b, g)' =
                      NumQueued(b, g) - Num(b = q /\ e.rreq = g) + Num(b = q /\ None = g)
  <2>1. NumQueued(b, g) \in Nat /\ None # g /\ (e \in ArrivalsOf(g) <=> e.rreq = g)
    BY QueueCounts, NoneAssumption, Entries
  <2>2. CASE b = q
    <3>1. NumIn(unexpected[q], ArrivalsOf(g)) =
            NumIn(RemoveAt(unexpected[q], i), ArrivalsOf(g)) + Num(unexpected[q][i] \in ArrivalsOf(g))
      BY <1>0, CountRemove
    <3>2. RemoveAt(unexpected[q], i) \in Seq(Arrival)
      BY <1>0, RemoveParts
    <3>3. NumIn(RemoveAt(unexpected[q], i), ArrivalsOf(g)) \in Nat
      BY <3>2, CountType
    <3>4. /\ NumQueued(b, g) = NumQueued(b, g)' + Num(e \in ArrivalsOf(g))
          /\ NumQueued(b, g)' \in Nat
      BY <1>0, <1>1, <2>2, <3>1, <3>3 DEF NumQueued
    <3> QED
      BY <2>1, <2>2, <3>4 DEF Num
  <2>3. CASE b # q
    <3>1. NumQueued(b, g)' = NumQueued(b, g)
      BY <1>0, <2>3 DEF NumQueued
    <3> QED
      BY <2>1, <2>3, <3>1 DEF Num
  <2> QED
    BY <2>2, <2>3
<1>3. e.rreq \in Handle /\ ArriveStep(q, e.rreq, None)
  BY <1>2 DEF ArriveStep, Arrival
<1> QED
  BY <1>1, <1>3

LEMMA ReadingSame ==
  ASSUME UNCHANGED reading, NEW q, NEW p
  PROVE  ReadingStep(q, p, None, None)
<1>1. \A g \in Handle : None # g
  BY NoneAssumption
<1> QED
  BY <1>1 DEF ReadingStep, Num

LEMMA UserType ==
  ASSUME TypeOK
  PROVE  user \in [Proc -> [Handle -> {"none", "request", "message"}]]
BY DEF TypeOK

LEMMA CallSet ==
  ASSUME TypeOK, NEW p \in Proc, NEW y, call' = [call EXCEPT ![p] = y]
  PROVE  call'[p] = y /\ \A a \in Proc : a # p => call'[a] = call[a]
<1>1. call \in [Proc -> Handle \cup {None}]
  BY DEF TypeOK
<1> QED
  BY <1>1

LEMMA ReadingSet ==
  ASSUME TypeOK, NEW q \in Proc, NEW p \in Proc, NEW y, NEW x, x = reading[q][p],
         reading' = [reading EXCEPT ![q][p] = y]
  PROVE  ReadingStep(q, p, x, y)
<1>1. /\ reading'[q][p] = y
      /\ \A b, a \in Proc : b # q \/ a # p => reading'[b][a] = reading[b][a]
  BY DEF TypeOK
<1> QED
  BY <1>1 DEF ReadingStep, Num

Cleared(g) == ForRecv({"CTS"}, g)
Coming(g) == ForRecv({"RNDV_SEND"}, g)

LEMMA PacketSets ==
  /\ \A T, h : OfType(T, h) \in SUBSET Packet
  /\ \A h : AcksOf(h) \in SUBSET Packet
  /\ \A T, g : ForRecv(T, g) \in SUBSET Packet
  /\ \A g : Cleared(g) \in SUBSET Packet /\ Coming(g) \in SUBSET Packet
BY DEF OfType, AcksOf, ForRecv, Cleared, Coming

LEMMA UnderWayNat ==
  ASSUME TypeOK, NEW b \in Proc, NEW a \in Proc, NEW g
  PROVE  /\ UnderWay(b, a, g) \in Nat
         /\ UnderWay(b, a, g) = NumIn(Flow(b, a), Cleared(g)) + NumIn(Flow(a, b), Coming(g))
                                + Num(reading[b][a] = g)
<1>1. NumIn(Flow(b, a), Cleared(g)) \in Nat /\ NumIn(Flow(a, b), Coming(g)) \in Nat
  BY FlowCounts
<1> QED
  BY <1>1 DEF UnderWay, Cleared, Coming, Num

(* What a step does to what is under way for a receive. *)
LEMMA UnderWayStep ==
  ASSUME TypeOK, NEW q \in Proc, NEW p \in Proc, p # q, NEW k, NEW m, NEW x, NEW y,
         NetStep(q, p, k, m), ReadingStep(q, p, x, y),
         NEW b \in Proc, NEW a \in Proc, NEW g \in Handle
  PROVE  /\ UnderWay(b, a, g) \in Nat
         /\ b = q /\ a = p =>
              UnderWay(b, a, g)' = UnderWay(b, a, g) + Num(m \in Cleared(g))
                - Num(k \in Coming(g)) - Num(x = g) + Num(y = g)
         /\ b = p /\ a = q =>
              UnderWay(b, a, g)' = UnderWay(b, a, g) + Num(m \in Coming(g)) - Num(k \in Cleared(g))
         /\ ~(b = q /\ a = p) /\ ~(b = p /\ a = q) => UnderWay(b, a, g)' = UnderWay(b, a, g)
<1> DEFINE C == Cleared(g)
           R == Coming(g)
           nc == NumIn(Flow(b, a), C)
           nr == NumIn(Flow(a, b), R)
           nx == Num(reading[b][a] = g)
<1>1. C \in SUBSET Packet /\ R \in SUBSET Packet
  BY PacketSets
<1>2. nc \in Nat /\ nr \in Nat /\ nx \in Nat
  BY FlowCounts DEF Num
<1>3. /\ nc' = nc - Num(b = p /\ a = q /\ k \in C) + Num(b = q /\ a = p /\ m \in C)
      /\ nr' = nr - Num(a = p /\ b = q /\ k \in R) + Num(a = q /\ b = p /\ m \in R)
  <2> HIDE DEF C, R
  <2> QED
    BY <1>1 DEF NetStep
<1>4. nx' = nx - Num(b = q /\ a = p /\ x = g) + Num(b = q /\ a = p /\ y = g)
  BY DEF ReadingStep
<1>5. UnderWay(b, a, g) = nc + nr + nx /\ UnderWay(b, a, g)' = nc' + nr' + nx'
  BY DEF UnderWay, Cleared, Coming
<1> HIDE DEF C, R, nc, nr, nx
<1>6. UnderWay(b, a, g) \in Nat
  BY <1>2, <1>5
<1>7. CASE b = q /\ a = p
  <2>1. /\ Num(b = p /\ a = q /\ k \in C) = 0 /\ Num(b = q /\ a = p /\ m \in C) = Num(m \in C)
        /\ Num(a = p /\ b = q /\ k \in R) = Num(k \in R) /\ Num(a = q /\ b = p /\ m \in R) = 0
        /\ Num(b = q /\ a = p /\ x = g) = Num(x = g) /\ Num(b = q /\ a = p /\ y = g) = Num(y = g)
        /\ Num(m \in C) \in Nat /\ Num(k \in R) \in Nat /\ Num(x = g) \in Nat /\ Num(y = g) \in Nat
    BY <1>7 DEF Num
  <2> QED
    BY <1>2, <1>3, <1>4, <1>5, <1>6, <1>7, <2>1 DEF C, R
<1>8. CASE b = p /\ a = q
  <2>1. /\ Num(b = p /\ a = q /\ k \in C) = Num(k \in C) /\ Num(b = q /\ a = p /\ m \in C) = 0
        /\ Num(a = p /\ b = q /\ k \in R) = 0 /\ Num(a = q /\ b = p /\ m \in R) = Num(m \in R)
        /\ Num(b = q /\ a = p /\ x = g) = 0 /\ Num(b = q /\ a = p /\ y = g) = 0
        /\ Num(m \in R) \in Nat /\ Num(k \in C) \in Nat
    BY <1>8 DEF Num
  <2> QED
    BY <1>2, <1>3, <1>4, <1>5, <1>6, <1>8, <2>1 DEF C, R
<1>9. CASE ~(b = q /\ a = p) /\ ~(b = p /\ a = q)
  <2>1. /\ Num(b = p /\ a = q /\ k \in C) = 0 /\ Num(b = q /\ a = p /\ m \in C) = 0
        /\ Num(a = p /\ b = q /\ k \in R) = 0 /\ Num(a = q /\ b = p /\ m \in R) = 0
        /\ Num(b = q /\ a = p /\ x = g) = 0 /\ Num(b = q /\ a = p /\ y = g) = 0
    BY <1>9 DEF Num
  <2> QED
    BY <1>2, <1>3, <1>4, <1>5, <1>6, <1>9, <2>1
<1> QED
  BY <1>7, <1>8, <1>9

-----------------------------------------------------------------------------
LEMMA OwesForm ==
  ASSUME TypeOK, NEW q \in Proc, NEW g \in Handle, NEW p, NEW h
  PROVE  OwesAnswer(q, g, p, h) <=>
           LET r == req[q][g] IN
           /\ r.type = "RECV" /\ r.rank = p /\ r.senderReq = h /\ Owes(r)
           /\ user[q][g] = "message" \/ NumQueued(q, g) > 0
<1>1. DOMAIN unexpected[q] = 1 .. Len(unexpected[q])
  BY DEF TypeOK
<1>2. /\ NumQueued(q, g) \in Nat
      /\ NumQueued(q, g) = 0 <=> \A i \in 1 .. Len(unexpected[q]) : unexpected[q][i].rreq # g
  BY QueueCounts
<1>3. NumQueued(q, g) > 0 <=> \E i \in DOMAIN unexpected[q] : unexpected[q][i].rreq = g
  BY <1>1, <1>2
<1> QED
  BY <1>3 DEF OwesAnswer, Owes

(* At most receive g of q begins or ceases to owe an answer. *)
DebtStep(q, g) ==
  \A b \in Proc, f \in Handle : b # q \/ f # g =>
    \A a \in Proc, h \in Handle : OwesAnswer(b, f, a, h)' <=> OwesAnswer(b, f, a, h)

LEMMA DebtCount ==
  ASSUME NEW q \in Proc, NEW g \in Handle, DebtStep(q, g),
         NEW a \in Proc, NEW b \in Proc, NEW h \in Handle, IsFiniteSet(Debtors(a, b, h))
  PROVE  /\ IsFiniteSet(Debtors(a, b, h)') /\ Cardinality(Debtors(a, b, h)) \in Nat
         /\ b = q => Cardinality(Debtors(a, b, h)') = Cardinality(Debtors(a, b, h))
              - Num(OwesAnswer(q, g, a, h)) + Num(OwesAnswer(q, g, a, h)')
         /\ b # q => Cardinality(Debtors(a, b, h)') = Cardinality(Debtors(a, b, h))
<1> DEFINE D == Debtors(a, b, h)
           E == Debtors(a, b, h)'
<1>1. /\ Cardinality(D) \in Nat
      /\ IsFiniteSet(D \cup {g}) /\ IsFiniteSet(D \ {g})
      /\ Cardinality(D \cup {g}) = IF g \in D THEN Cardinality(D) ELSE Cardinality(D) + 1
      /\ Cardinality(D \ {g}) = IF g \in D THEN Cardinality(D) - 1 ELSE Cardinality(D)
  BY FS_AddElement, FS_RemoveElement, FS_CardinalityType
<1>2. CASE b # q
  <2>1. E = D
    BY <1>2 DEF DebtStep, Debtors
  <2> QED
    BY <1>1, <1>2, <2>1
<1>3. CASE b = q
  <2>1. /\ g \in D <=> OwesAnswer(q, g, a, h)
        /\ g \in E <=> OwesAnswer(q, g, a, h)'
        /\ D \subseteq Handle /\ E \subseteq Handle
    BY <1>3 DEF Debtors
  <2>2. \A f \in Handle : f # g => (f \in E <=> f \in D)
    BY <1>3 DEF DebtStep, Debtors
  <2>3. E = IF g \in E THEN D \cup {g} ELSE D \ {g}
    BY <2>1, <2>2
  <2> HIDE DEF D, E
  <2>4. CASE g \in E
    <3>1. E = D \cup {g}
      BY <2>3, <2>4
    <3> QED
      BY <1>1, <1>3, <2>1, <2>4, <3>1 DEF D, E, Num
  <2>5. CASE g \notin E
    <3>1. E = D \ {g}
      BY <2>3, <2>5
    <3> QED
      BY <1>1, <1>3, <2>1, <2>5, <3>1 DEF D, E, Num
  <2> QED
    BY <2>4, <2>5
<1> QED
  BY <1>2, <1>3

(* What a packet holds of send h: as a request to be written, as a         *)
(* question that will be answered, and as an answer. *)
Carries(k, h) == Num(k \in OfType(Carriers, h))
Questioning(k, h) == Num(k \in OfType(Questions, h))
Answering(k, h, awaits) ==
  Num(k \in OfType(Answers, h)) + IF awaits THEN Num(k \in AcksOf(h)) ELSE 0

(* SendTokens of a send that awaits an answer or not. *)
TokensAs(p, q, h, awaits) ==
  NumIn(sendq[p][q], OfType(Carriers, h)) + NumIn(Flow(p, q), OfType(Questions, h))
  + Cardinality(Debtors(p, q, h)) + NumIn(Flow(q, p), OfType(Answers, h))
  + IF awaits THEN NumIn(Flow(q, p), AcksOf(h)) ELSE 0

LEMMA TokensThen ==
  ASSUME NEW p, NEW q, NEW h, NEW awaits
  PROVE  /\ awaits = Awaits(req[p][h]) => SendTokens(p, q, h) = TokensAs(p, q, h, awaits)
         /\ awaits = Awaits(req[p][h])' => SendTokens(p, q, h)' = TokensAs(p, q, h, awaits)'
BY DEF SendTokens, TokensAs

LEMMA WeightTypes ==
  ASSUME NEW k, NEW h, NEW awaits
  PROVE  /\ Carries(k, h) \in {0, 1} /\ Questioning(k, h) \in {0, 1}
         /\ Answering(k, h, awaits) \in {0, 1, 2}
BY DEF Carries, Questioning, Answering, Num

LEMMA NilWeights ==
  ASSUME NEW h, NEW awaits
  PROVE  /\ Carries(Nil, h) = 0 /\ Questioning(Nil, h) = 0 /\ Answering(Nil, h, awaits) = 0
         /\ Num(Nil \in Cleared(h)) = 0 /\ Num(Nil \in Coming(h)) = 0
<1>1. /\ Nil \notin OfType(Carriers, h) /\ Nil \notin OfType(Questions, h)
      /\ Nil \notin OfType(Answers, h) /\ Nil \notin AcksOf(h)
      /\ Nil \notin Cleared(h) /\ Nil \notin Coming(h)
  BY NilIsNone, PacketSets
<1> QED
  BY <1>1 DEF Carries, Questioning, Answering, Num

LEMMA TokensType ==
  ASSUME TypeOK, NEW a \in Proc, NEW b \in Proc, NEW h, NEW awaits \in BOOLEAN,
         IsFiniteSet(Debtors(a, b, h))
  PROVE  /\ TokensAs(a, b, h, awaits) \in Nat
         /\ TokensAs(a, b, h, awaits) = 0 => TokensAs(a, b, h, ~awaits) = 0
<1> DEFINE A == NumIn(Flow(b, a), OfType(Answers, h))
           K == NumIn(Flow(b, a), AcksOf(h))
<1>1. /\ NumIn(sendq[a][b], OfType(Carriers, h)) \in Nat
      /\ NumIn(Flow(a, b), OfType(Questions, h)) \in Nat
      /\ A \in Nat /\ K \in Nat /\ Cardinality(Debtors(a, b, h)) \in Nat
  BY FlowCounts, FS_CardinalityType
<1>2. A = 0 => K = 0
  <2>1. Flow(b, a) \in Seq(Packet)
    BY FlowType
  <2>2. /\ A = 0 <=> \A x \in Range(Flow(b, a)) : x \notin OfType(Answers, h)
        /\ K = 0 <=> \A x \in Range(Flow(b, a)) : x \notin AcksOf(h)
    BY <2>1, CountType
  <2>3. AcksOf(h) \subseteq OfType(Answers, h)
    BY DEF AcksOf, OfType, Answers
  <2> QED
    BY <2>2, <2>3
<1> QED
  BY <1>1, <1>2 DEF TokensAs

TokensTyped ==
  TypeOK => \A a, b \in Proc, h \in Handle, w \in BOOLEAN :
    IsFiniteSet(Debtors(a, b, h)) =>
      /\ TokensAs(a, b, h, w) \in Nat
      /\ TokensAs(a, b, h, w) = 0 => TokensAs(a, b, h, ~w) = 0

LEMMA TokensAlwaysTyped == TokensTyped
BY TokensType DEF TokensTyped

LEMMA TokensTypedNext == TokensTyped'
BY TokensAlwaysTyped, PTL

LEMMA TokensTypeNext ==
  ASSUME TypeOK', NEW a \in Proc, NEW b \in Proc, NEW h \in Handle, NEW awaits \in BOOLEAN,
         IsFiniteSet(Debtors(a, b, h)')
  PROVE  /\ TokensAs(a, b, h, awaits)' \in Nat
         /\ TokensAs(a, b, h, awaits)' = 0 => TokensAs(a, b, h, ~awaits)' = 0
BY TokensTypedNext DEF TokensTyped

(* What a step does to the tokens of a send. *)
LEMMA TokensStep ==
  ASSUME TypeOK, NEW q \in Proc, NEW p \in Proc, p # q, NEW k, NEW m, NEW x,
         NetStep(q, p, k, m), QueueStep(q, p, x, m),
         NEW g \in Handle, DebtStep(q, g),
         NEW a \in Proc, NEW b \in Proc, NEW h \in Handle, NEW awaits \in BOOLEAN,
         IsFiniteSet(Debtors(a, b, h))
  PROVE  /\ IsFiniteSet(Debtors(a, b, h)')
         /\ a = q /\ b = p =>
              TokensAs(a, b, h, awaits)' = TokensAs(a, b, h, awaits)
                + Carries(m, h) + Questioning(m, h) - Carries(x, h) - Answering(k, h, awaits)
         /\ a = p /\ b = q =>
              TokensAs(a, b, h, awaits)' = TokensAs(a, b, h, awaits)
                + Answering(m, h, awaits) - Questioning(k, h)
                - Num(OwesAnswer(q, g, a, h)) + Num(OwesAnswer(q, g, a, h)')
         /\ ~(a = q /\ b = p) /\ ~(a = p /\ b = q) /\ b # q =>
              TokensAs(a, b, h, awaits)' = TokensAs(a, b, h, awaits)
         /\ ~(a = q /\ b = p) /\ ~(a = p /\ b = q) /\ b = q =>
              TokensAs(a, b, h, awaits)' = TokensAs(a, b, h, awaits)
                - Num(OwesAnswer(q, g, a, h)) + Num(OwesAnswer(q, g, a, h)')
<1> DEFINE C == OfType(Carriers, h)
           Q == OfType(Questions, h)
           A == OfType(Answers, h)
           K == AcksOf(h)
           nc == NumIn(sendq[a][b], C)
           nq == NumIn(Flow(a, b), Q)
           nd == Cardinality(Debtors(a, b, h))
           na == NumIn(Flow(b, a), A)
           nk == NumIn(Flow(b, a), K)
<1>1. C \in SUBSET Packet /\ Q \in SUBSET Packet /\ A \in SUBSET Packet /\ K \in SUBSET Packet
  BY PacketSets
<1>2. nc \in Nat /\ nq \in Nat /\ nd \in Nat /\ na \in Nat /\ nk \in Nat
  BY FlowCounts, FS_CardinalityType
<1>3. /\ IsFiniteSet(Debtors(a, b, h)')
      /\ b = q => nd' = nd - Num(OwesAnswer(q, g, a, h)) + Num(OwesAnswer(q, g, a, h)')
      /\ b # q => nd' = nd
  BY DebtCount
<1>4. /\ nc' = nc - Num(a = q /\ b = p /\ x \in C) + Num(a = q /\ b = p /\ m \in C)
      /\ nq' = nq - Num(a = p /\ b = q /\ k \in Q) + Num(a = q /\ b = p /\ m \in Q)
      /\ na' = na - Num(b = p /\ a = q /\ k \in A) + Num(b = q /\ a = p /\ m \in A)
      /\ nk' = nk - Num(b = p /\ a = q /\ k \in K) + Num(b = q /\ a = p /\ m \in K)
  <2> HIDE DEF C, Q, A, K
  <2>1. nc' = nc - Num(a = q /\ b = p /\ x \in C) + Num(a = q /\ b = p /\ m \in C)
    BY <1>1 DEF QueueStep
  <2>2. nq' = nq - Num(a = p /\ b = q /\ k \in Q) + Num(a = q /\ b = p /\ m \in Q)
    BY <1>1 DEF NetStep
  <2>3. na' = na - Num(b = p /\ a = q /\ k \in A) + Num(b = q /\ a = p /\ m \in A)
    BY <1>1 DEF NetStep
  <2>4. nk' = nk - Num(b = p /\ a = q /\ k \in K) + Num(b = q /\ a = p /\ m \in K)
    BY <1>1 DEF NetStep
  <2> QED
    BY <2>1, <2>2, <2>3, <2>4
<1>5. /\ TokensAs(a, b, h, awaits) = nc + nq + nd + na + IF awaits THEN nk ELSE 0
      /\ TokensAs(a, b, h, awaits)' = nc' + nq' + nd' + na' + IF awaits THEN nk' ELSE 0
  BY DEF TokensAs
<1>6. /\ Carries(m, h) = Num(m \in C) /\ Carries(x, h) = Num(x \in C)
      /\ Questioning(m, h) = Num(m \in Q) /\ Questioning(k, h) = Num(k \in Q)
      /\ Answering(k, h, awaits) = Num(k \in A) + IF awaits THEN Num(k \in K) ELSE 0
      /\ Answering(m, h, awaits) = Num(m \in A) + IF awaits THEN Num(m \in K) ELSE 0
  BY DEF Carries, Questioning, Answering
<1>7. \A v \in BOOLEAN : Num(v) \in {0, 1}
  BY DEF Num
<1> DEFINE o == Num(OwesAnswer(q, g, a, h))
           op == Num(OwesAnswer(q, g, a, h)')
<1>8. o \in {0, 1} /\ op \in {0, 1}
  BY DEF Num
<1>9. /\ Num(m \in C) \in {0, 1} /\ Num(x \in C) \in {0, 1} /\ Num(m \in Q) \in {0, 1}
      /\ Num(k \in Q) \in {0, 1} /\ Num(k \in A) \in {0, 1} /\ Num(m \in A) \in {0, 1}
      /\ Num(k \in K) \in {0, 1} /\ Num(m \in K) \in {0, 1}
  BY DEF Num
<1> HIDE DEF C, Q, A, K, nc, nq, nd, na, nk, o, op
<1>10. CASE a = q /\ b = p
  <2>1. /\ nc' = nc - Num(x \in C) + Num(m \in C)
        /\ nq' = nq + Num(m \in Q)
        /\ na' = na - Num(k \in A)
        /\ nk' = nk - Num(k \in K)
        /\ nd' = nd
    BY <1>2, <1>3, <1>4, <1>10 DEF Num
  <2>2. TokensAs(a, b, h, awaits)' = TokensAs(a, b, h, awaits)
          + Carries(m, h) + Questioning(m, h) - Carries(x, h) - Answering(k, h, awaits)
    <3>1. CASE awaits
      BY <1>2, <1>5, <1>6, <1>9, <2>1, <3>1
    <3>2. CASE ~awaits
      BY <1>2, <1>5, <1>6, <1>9, <2>1, <3>2
    <3> QED
      BY <3>1, <3>2
  <2> QED
    BY <1>3, <1>10, <2>2
<1>11. CASE a = p /\ b = q
  <2>1. /\ nc' = nc
        /\ nq' = nq - Num(k \in Q)
        /\ na' = na + Num(m \in A)
        /\ nk' = nk + Num(m \in K)
    BY <1>2, <1>4, <1>11 DEF Num
  <2>2. nd' = nd - o + op
    BY <1>3, <1>11 DEF o, op
  <2>3. TokensAs(a, b, h, awaits)' = TokensAs(a, b, h, awaits)
                + Answering(m, h, awaits) - Questioning(k, h) - o + op
    <3>1. CASE awaits
      <4>1. /\ TokensAs(a, b, h, awaits) = nc + nq + nd + na + nk
            /\ TokensAs(a, b, h, awaits)' = nc' + nq' + nd' + na' + nk'
            /\ Answering(m, h, awaits) = Num(m \in A) + Num(m \in K)
            /\ Questioning(k, h) = Num(k \in Q)
        BY <1>5, <1>6, <3>1
      <4>2. nc' + nq' + nd' + na' + nk' =
              (nc + nq + nd + na + nk) + (Num(m \in A) + Num(m \in K)) - Num(k \in Q) - o + op
        BY <1>2, <1>8, <1>9, <2>1, <2>2
      <4> QED
        BY <4>1, <4>2
    <3>2. CASE ~awaits
      BY <1>2, <1>5, <1>6, <1>8, <1>9, <2>1, <2>2, <3>2
    <3> QED
      BY <3>1, <3>2
  <2> QED
    BY <1>3, <1>11, <2>3 DEF o, op
<1>12. CASE ~(a = q /\ b = p) /\ ~(a = p /\ b = q)
  <2>1. nc' = nc /\ nq' = nq /\ na' = na /\ nk' = nk
    BY <1>2, <1>4, <1>12 DEF Num
  <2>2. b # q => nd' = nd
    BY <1>3
  <2>3. b = q => nd' = nd - o + op
    BY <1>3 DEF o, op
  <2>4. b # q => TokensAs(a, b, h, awaits)' = TokensAs(a, b, h, awaits)
    BY <1>2, <1>5, <2>1, <2>2
  <2>5. b = q => TokensAs(a, b, h, awaits)' = TokensAs(a, b, h, awaits) - o + op
    BY <1>2, <1>5, <1>8, <2>1, <2>3
  <2> QED
    BY <1>3, <1>12, <2>4, <2>5 DEF o, op
<1> QED
  BY <1>10, <1>11, <1>12

(* A packet's weights by its type. *)
LEMMA PacketWeights ==
  ASSUME NEW k \in Packet, NEW h
  PROVE  /\ Carries(k, h) = Num(k.type \in Carriers /\ k.sreq = h)
         /\ Questioning(k, h) = Num(k.type \in Questions /\ k.sreq = h)
         /\ k.type \notin Answers => \A w : Answering(k, h, w) = 0
         /\ k.type \in {"CTS", "SYNC_ACK"} => \A w : Answering(k, h, w) = Num(k.sreq = h)
         /\ k.type = "CANCEL_SEND_RESP" => \A w :
              Answering(k, h, w) =
                Num(k.sreq = h) + IF w THEN Num(k.sreq = h /\ k.ack) ELSE 0
         /\ Num(k \in Cleared(h)) = Num(k.type = "CTS" /\ k.rreq = h)
         /\ Num(k \in Coming(h)) = Num(k.type = "RNDV_SEND" /\ k.rreq = h)
<1>1. /\ k \in OfType(Carriers, h) <=> k.type \in Carriers /\ k.sreq = h
      /\ k \in OfType(Questions, h) <=> k.type \in Questions /\ k.sreq = h
      /\ k \in OfType(Answers, h) <=> k.type \in Answers /\ k.sreq = h
      /\ k \in AcksOf(h) <=> k.type = "CANCEL_SEND_RESP" /\ k.sreq = h /\ k.ack
      /\ k \in Cleared(h) <=> k.type = "CTS" /\ k.rreq = h
      /\ k \in Coming(h) <=> k.type = "RNDV_SEND" /\ k.rreq = h
  BY DEF OfType, AcksOf, Cleared, Coming, ForRecv
<1>2. /\ Carries(k, h) = Num(k.type \in Carriers /\ k.sreq = h)
      /\ Questioning(k, h) = Num(k.type \in Questions /\ k.sreq = h)
      /\ Num(k \in Cleared(h)) = Num(k.type = "CTS" /\ k.rreq = h)
      /\ Num(k \in Coming(h)) = Num(k.type = "RNDV_SEND" /\ k.rreq = h)
  BY <1>1 DEF Carries, Questioning, Num
<1>3. k.type \notin Answers => \A w : Answering(k, h, w) = 0
  BY <1>1 DEF Answering, Num, Answers
<1>4. k.type \in {"CTS", "SYNC_ACK"} => \A w : Answering(k, h, w) = Num(k.sreq = h)
  BY <1>1 DEF Answering, Num, Answers
<1>5. ASSUME k.type = "CANCEL_SEND_RESP", NEW w
      PROVE  Answering(k, h, w) = Num(k.sreq = h) + IF w THEN Num(k.sreq = h /\ k.ack) ELSE 0
  <2>1. /\ Num(k \in OfType(Answers, h)) = Num(k.sreq = h)
        /\ Num(k \in AcksOf(h)) = Num(k.sreq = h /\ k.ack)
    BY <1>1, <1>5 DEF Num, Answers
  <2> QED
    BY <2>1 DEF Answering
<1> QED
  BY <1>2, <1>3, <1>4, <1>5

-----------------------------------------------------------------------------
(* The invariant of one handle, unfolded. *)
LEMMA SendRefsForm ==
  ASSUME NEW a, NEW h, SendRefs(a, h), NEW w, w = Awaits(req[a][h])
  PROVE  /\ \A c \in Proc :
              /\ IsFiniteSet(Debtors(a, c, h))
              /\ TokensAs(a, c, h, w) > 0 => IsSend(req[a][h]) /\ req[a][h].rank = c
         /\ IsSend(req[a][h]) =>
              /\ req[a][h].rank \in Proc /\ req[a][h].ref > 0
              /\ req[a][h].ref + Num(call[a] = h) =
                   Num(user[a][h] # "none") + TokensAs(a, req[a][h].rank, h, w)
<1>1. \A c \in Proc : SendTokens(a, c, h) = TokensAs(a, c, h, w)
  BY TokensThen
<1> QED
  BY <1>1 DEF SendRefs

LEMMA SendRefsNext ==
  ASSUME NEW a, NEW h, NEW w, w = Awaits(req[a][h])',
         \A c \in Proc :
              /\ IsFiniteSet(Debtors(a, c, h)')
              /\ TokensAs(a, c, h, w)' > 0 => IsSend(req'[a][h]) /\ req'[a][h].rank = c,
         IsSend(req'[a][h]) =>
              /\ req'[a][h].rank \in Proc /\ req'[a][h].ref > 0
              /\ \A c \in Proc : c = req'[a][h].rank =>
                   req'[a][h].ref + Num(call'[a] = h) =
                     Num(user'[a][h] # "none") + TokensAs(a, c, h, w)'
  PROVE  SendRefs(a, h)'
<1>1. \A c \in Proc : SendTokens(a, c, h)' = TokensAs(a, c, h, w)'
  BY TokensThen
<1>2. IsSend(req'[a][h]) =>
        req'[a][h].ref + Num(call'[a] = h) =
          Num(user'[a][h] # "none") + SendTokens(a, req[a][h].rank, h)'
  <2> SUFFICES ASSUME IsSend(req'[a][h])
               PROVE  req'[a][h].ref + Num(call'[a] = h) =
                        Num(user'[a][h] # "none") + SendTokens(a, req[a][h].rank, h)'
    OBVIOUS
  <2>1. PICK c \in Proc : c = req'[a][h].rank
    OBVIOUS
  <2>2. SendTokens(a, req[a][h].rank, h)' = SendTokens(a, c, h)'
    BY <2>1 DEF SendTokens, Debtors, Flow
  <2> QED
    BY <1>1, <2>1, <2>2
<1> QED
  BY <1>1, <1>2 DEF SendRefs

TokensSame(a, h) ==
  \A c \in Proc, w \in BOOLEAN :
    IsFiniteSet(Debtors(a, c, h)') /\ TokensAs(a, c, h, w)' = TokensAs(a, c, h, w)

(* A send lives on, with dr references more and dt tokens more. *)
LEMMA SendLives ==
  ASSUME TypeOK, NEW a \in Proc, NEW h \in Handle, SendRefs(a, h), IsSend(req[a][h]),
         req'[a][h].type = req[a][h].type, req'[a][h].rank = req[a][h].rank,
         req'[a][h].msgType = req[a][h].msgType,
         NEW b \in Proc, b = req[a][h].rank,
         \A c \in Proc : IsFiniteSet(Debtors(a, c, h)'),
         \A c \in Proc, w \in BOOLEAN : c # b => TokensAs(a, c, h, w)' = TokensAs(a, c, h, w),
         NEW dt \in Int, NEW dr \in Int,
         \A w \in BOOLEAN : w = Awaits(req[a][h]) =>
           TokensAs(a, b, h, w)' = TokensAs(a, b, h, w) + dt,
         req'[a][h].ref = req[a][h].ref + dr, req[a][h].ref + dr > 0,
         dr + Num(call'[a] = h) - Num(call[a] = h) =
           Num(user'[a][h] # "none") - Num(user[a][h] # "none") + dt
  PROVE  SendRefs(a, h)'
<1>1. PICK w \in BOOLEAN : w = Awaits(req[a][h])
  BY DEF Awaits
<1>2. w = Awaits(req[a][h])'
  BY <1>1 DEF Awaits
<1>3. IsSend(req'[a][h])
  BY DEF IsSend
<1>4. /\ \A c \in Proc :
              /\ IsFiniteSet(Debtors(a, c, h))
              /\ TokensAs(a, c, h, w) > 0 => req[a][h].rank = c
      /\ req[a][h].ref + Num(call[a] = h) =
                   Num(user[a][h] # "none") + TokensAs(a, b, h, w)
  BY <1>1, SendRefsForm
<1>5. TokensAs(a, b, h, w)' = TokensAs(a, b, h, w) + dt
  BY <1>1
<1>6. /\ TokensAs(a, b, h, w) \in Nat /\ req[a][h].ref \in Int
      /\ Num(call[a] = h) \in Int /\ Num(user[a][h] # "none") \in Int
      /\ Num(call'[a] = h) \in Int /\ Num(user'[a][h] # "none") \in Int
  <2>1. req[a][h] \in Request
    BY DEF TypeOK
  <2> QED
    BY <1>4, <2>1, TokensType DEF Num, Request
<1>7. req'[a][h].ref + Num(call'[a] = h) = Num(user'[a][h] # "none") + TokensAs(a, b, h, w)'
  BY <1>4, <1>5, <1>6
<1>8. \A c \in Proc : TokensAs(a, c, h, w)' > 0 => req'[a][h].rank = c
  <2> SUFFICES ASSUME NEW c \in Proc, c # b PROVE ~(TokensAs(a, c, h, w)' > 0)
    OBVIOUS
  <2> QED
    BY <1>4
<1> QED
  BY <1>2, <1>3, <1>7, <1>8, SendRefsNext

LEMMA SendAsItWas ==
  ASSUME TypeOK, NEW a \in Proc, NEW h \in Handle, SendRefs(a, h), TokensSame(a, h),
         req'[a][h].type = req[a][h].type, req'[a][h].rank = req[a][h].rank,
         req'[a][h].msgType = req[a][h].msgType, req'[a][h].ref = req[a][h].ref,
         (user'[a][h] # "none") <=> (user[a][h] # "none"),
         (call'[a] = h) <=> (call[a] = h)
  PROVE  SendRefs(a, h)'
<1>1. /\ req'[a][h].type = req[a][h].type /\ req'[a][h].rank = req[a][h].rank
      /\ req'[a][h].msgType = req[a][h].msgType /\ req'[a][h].ref = req[a][h].ref
  OBVIOUS
<1>2. PICK w \in BOOLEAN : w = Awaits(req[a][h])
  BY DEF Awaits
<1>3. w = Awaits(req[a][h])'
  BY <1>1, <1>2 DEF Awaits
<1>4. IsSend(req'[a][h]) <=> IsSend(req[a][h])
  BY <1>1 DEF IsSend
<1>5. /\ Num(call'[a] = h) = Num(call[a] = h)
      /\ Num(user'[a][h] # "none") = Num(user[a][h] # "none")
  BY DEF Num
<1>6. \A c \in Proc :
        IsFiniteSet(Debtors(a, c, h)') /\ TokensAs(a, c, h, w)' = TokensAs(a, c, h, w)
  BY DEF TokensSame
<1>7. /\ \A c \in Proc : TokensAs(a, c, h, w) > 0 => IsSend(req[a][h]) /\ req[a][h].rank = c
      /\ IsSend(req[a][h]) =>
              /\ req[a][h].rank \in Proc /\ req[a][h].ref > 0
              /\ req[a][h].ref + Num(call[a] = h) =
                   Num(user[a][h] # "none") + TokensAs(a, req[a][h].rank, h, w)
  BY <1>2, SendRefsForm
<1>8. ASSUME IsSend(req'[a][h]), NEW c \in Proc, c = req'[a][h].rank
      PROVE  req'[a][h].ref + Num(call'[a] = h) =
               Num(user'[a][h] # "none") + TokensAs(a, c, h, w)'
  BY <1>1, <1>4, <1>5, <1>6, <1>7, <1>8
<1> QED
  BY <1>1, <1>3, <1>4, <1>6, <1>7, <1>8, SendRefsNext

LEMMA SendKept ==
  ASSUME TypeOK, NEW a \in Proc, NEW h \in Handle, SendRefs(a, h), TokensSame(a, h),
         Kept(a, h), (user'[a][h] # "none") <=> (user[a][h] # "none"),
         (call'[a] = h) <=> (call[a] = h)
  PROVE  SendRefs(a, h)'
BY SendAsItWas DEF Kept, Same, Core

(* A request that is no send before and after a step. *)
LEMMA SendNever ==
  ASSUME TypeOK, NEW a \in Proc, NEW h \in Handle, SendRefs(a, h), TokensSame(a, h),
         ~IsSend(req[a][h]), ~IsSend(req'[a][h])
  PROVE  SendRefs(a, h)'
<1>1. PICK w \in BOOLEAN : w = Awaits(req[a][h])
  BY DEF Awaits
<1>2. PICK v \in BOOLEAN : v = Awaits(req[a][h])'
  BY DEF Awaits
<1>3. \A c \in Proc : TokensAs(a, c, h, v)' = 0 /\ IsFiniteSet(Debtors(a, c, h)')
  <2> SUFFICES ASSUME NEW c \in Proc
               PROVE  TokensAs(a, c, h, v)' = 0 /\ IsFiniteSet(Debtors(a, c, h)')
    OBVIOUS
  <2>1. IsFiniteSet(Debtors(a, c, h)) /\ ~(TokensAs(a, c, h, w) > 0)
    BY <1>1, SendRefsForm
  <2>2. TokensAs(a, c, h, w) = 0
    BY <2>1, TokensType
  <2>3. TokensAs(a, c, h, v) = 0
    <3>1. v = w \/ v = ~w
      OBVIOUS
    <3> QED
      BY <2>1, <2>2, <3>1, TokensType
  <2> QED
    BY <2>3 DEF TokensSame
<1> QED
  BY <1>2, <1>3, SendRefsNext

(* The end of a send: nothing is left that holds it. *)
LEMMA SendEnds ==
  ASSUME TypeOK, TypeOK', NEW a \in Proc, NEW h \in Handle,
         \A c \in Proc : IsFiniteSet(Debtors(a, c, h)'),
         \A c \in Proc, w \in BOOLEAN : w = Awaits(req[a][h]) => TokensAs(a, c, h, w)' = 0,
         ~IsSend(req'[a][h])
  PROVE  SendRefs(a, h)'
<1>1. PICK w \in BOOLEAN : w = Awaits(req[a][h])
  BY DEF Awaits
<1>2. PICK v \in BOOLEAN : v = Awaits(req[a][h])'
  BY DEF Awaits
<1>3. ASSUME NEW c \in Proc PROVE TokensAs(a, c, h, v)' = 0
  <2>1. TokensAs(a, c, h, w)' = 0 /\ IsFiniteSet(Debtors(a, c, h)')
    BY <1>1
  <2>2. v = w \/ v = ~w
    OBVIOUS
  <2> QED
    BY <2>1, <2>2, TokensTypeNext
<1> QED
  BY <1>2, <1>3, SendRefsNext

(* A send loses one reference with one of its tokens. *)
LEMMA SendDropped ==
  ASSUME TypeOK, TypeOK', NEW a \in Proc, NEW h \in Handle,
         SendRefs(a, h), KeptInv(a, h), IsSend(req[a][h]), Dropped(req[a][h], req'[a][h]),
         NEW b \in Proc, b = req[a][h].rank,
         \A c \in Proc : IsFiniteSet(Debtors(a, c, h)'),
         \A c \in Proc, w \in BOOLEAN : c # b => TokensAs(a, c, h, w)' = TokensAs(a, c, h, w),
         NEW dt \in Int,
         \A w \in BOOLEAN : w = Awaits(req[a][h]) =>
           TokensAs(a, b, h, w)' = TokensAs(a, b, h, w) + dt,
         call[a] # h, call'[a] # h,
         -1 = Num(user'[a][h] # "none") - Num(user[a][h] # "none") + dt
  PROVE  SendRefs(a, h)' /\ KeptInv(a, h)'
<1>1. PICK w \in BOOLEAN : w = Awaits(req[a][h])
  BY DEF Awaits
<1>2. /\ \A c \in Proc :
              /\ IsFiniteSet(Debtors(a, c, h))
              /\ TokensAs(a, c, h, w) > 0 => req[a][h].rank = c
      /\ req[a][h].ref + Num(call[a] = h) =
                   Num(user[a][h] # "none") + TokensAs(a, b, h, w)
      /\ req[a][h].ref > 0
  BY <1>1, SendRefsForm
<1>3. /\ Num(call[a] = h) = 0 /\ Num(call'[a] = h) = 0
      /\ Num(user[a][h] # "none") \in {0, 1}
      /\ Num(user'[a][h] # "none") \in {0, 1}
      /\ Num(user'[a][h] # "none") = 0 => user'[a][h] = "none"
  BY DEF Num
<1>4. /\ \A c \in Proc : TokensAs(a, c, h, w) \in Nat /\ TokensAs(a, c, h, w)' \in Nat
      /\ req[a][h].ref \in Int
  <2>1. req[a][h] \in Request
    BY DEF TypeOK
  <2> QED
    BY <1>2, <2>1, TokensType, TokensTypeNext DEF Request
<1>5. CASE req[a][h].ref = 1
  <2>1. Returned(req[a][h], req'[a][h])
    BY <1>5 DEF Dropped
  <2>2. req'[a][h].type = "FREE" /\ req'[a][h].ref = 0
    BY <2>1 DEF Returned, FreeRequest
  <2>3. ~IsSend(req'[a][h])
    BY <2>2 DEF IsSend
  <2>4. TokensAs(a, b, h, w)' = 0 /\ Num(user'[a][h] # "none") = 0
    BY <1>1, <1>2, <1>3, <1>4, <1>5
  <2>5. ASSUME NEW c \in Proc, c # b PROVE TokensAs(a, c, h, w)' = 0
    BY <1>2, <1>4, <2>5
  <2>6. \A c \in Proc, v \in BOOLEAN : v = Awaits(req[a][h]) => TokensAs(a, c, h, v)' = 0
    BY <1>1, <2>4, <2>5
  <2>7. SendRefs(a, h)'
    BY <2>3, <2>6, SendEnds
  <2> QED
    BY <1>3, <2>2, <2>3, <2>4, <2>7 DEF KeptInv
<1>6. CASE req[a][h].ref # 1
  <2>1. Same(req[a][h], req'[a][h]) /\ req'[a][h].ref = req[a][h].ref - 1
    BY <1>6 DEF Dropped
  <2>2. /\ req'[a][h].type = req[a][h].type /\ req'[a][h].rank = req[a][h].rank
        /\ req'[a][h].msgType = req[a][h].msgType
    BY <2>1 DEF Same, Core
  <2> DEFINE dr == -1
  <2>3. /\ dr \in Int /\ req'[a][h].ref = req[a][h].ref + dr /\ req[a][h].ref + dr > 0
        /\ dr + Num(call'[a] = h) - Num(call[a] = h) =
             Num(user'[a][h] # "none") - Num(user[a][h] # "none") + dt
    BY <1>2, <1>3, <1>4, <1>6, <2>1
  <2> HIDE DEF dr
  <2>4. SendRefs(a, h)'
    BY <2>2, <2>3, SendLives
  <2>5. req'[a][h].type # "FREE"
    BY <2>2 DEF IsSend
  <2> QED
    BY <2>2, <2>4, <2>5 DEF KeptInv, IsSend
<1> QED
  BY <1>5, <1>6

(* A step that neither sends nor reads leaves the tokens of the flows. *)
LEMMA TokensQuiet ==
  ASSUME TypeOK, UNCHANGED <<wire, sendq>>, NEW q \in Proc, NEW g \in Handle, DebtStep(q, g),
         NEW a \in Proc, NEW b \in Proc, NEW h \in Handle, NEW w \in BOOLEAN,
         IsFiniteSet(Debtors(a, b, h))
  PROVE  /\ IsFiniteSet(Debtors(a, b, h)')
         /\ b # q => TokensAs(a, b, h, w)' = TokensAs(a, b, h, w)
         /\ b = q => TokensAs(a, b, h, w)' = TokensAs(a, b, h, w)
                - Num(OwesAnswer(q, g, a, h)) + Num(OwesAnswer(q, g, a, h)')
<1> DEFINE nd == Cardinality(Debtors(a, b, h))
           o == Num(OwesAnswer(q, g, a, h))
           op == Num(OwesAnswer(q, g, a, h)')
           n == NumIn(sendq[a][b], OfType(Carriers, h)) + NumIn(Flow(a, b), OfType(Questions, h))
           m == NumIn(Flow(b, a), OfType(Answers, h))
           l == IF w THEN NumIn(Flow(b, a), AcksOf(h)) ELSE 0
<1>1. /\ IsFiniteSet(Debtors(a, b, h)') /\ nd \in Nat
      /\ b = q => nd' = nd - o + op
      /\ b # q => nd' = nd
  BY DebtCount
<1>2. n \in Nat /\ m \in Nat /\ l \in Nat /\ o \in Nat /\ op \in Nat
  BY FlowCounts DEF Num
<1>3. n' = n /\ m' = m /\ l' = l
  BY NetSame
<1>4. TokensAs(a, b, h, w) = n + nd + m + l /\ TokensAs(a, b, h, w)' = n' + nd' + m' + l'
  BY DEF TokensAs
<1> HIDE DEF nd, o, op, n, m, l
<1>5. /\ b # q => TokensAs(a, b, h, w)' = TokensAs(a, b, h, w)
      /\ b = q => TokensAs(a, b, h, w)' = TokensAs(a, b, h, w) - o + op
  BY <1>1, <1>2, <1>3, <1>4
<1> QED
  BY <1>1, <1>5 DEF o, op

LEMMA UnderWayQuiet ==
  ASSUME TypeOK, UNCHANGED <<wire, sendq>>, NEW q \in Proc, NEW p \in Proc, NEW x, NEW y,
         ReadingStep(q, p, x, y),
         NEW b \in Proc, NEW a \in Proc, NEW g \in Handle
  PROVE  /\ UnderWay(b, a, g) \in Nat
         /\ b = q /\ a = p =>
              UnderWay(b, a, g)' = UnderWay(b, a, g) - Num(x = g) + Num(y = g)
         /\ ~(b = q /\ a = p) => UnderWay(b, a, g)' = UnderWay(b, a, g)
<1> DEFINE n == NumIn(Flow(b, a), ForRecv({"CTS"}, g)) + NumIn(Flow(a, b), ForRecv({"RNDV_SEND"}, g))
           nx == Num(reading[b][a] = g)
<1>1. n \in Nat /\ nx \in Nat
  BY FlowCounts DEF Num
<1>2. n' = n
  BY NetSame
<1>3. nx' = nx - Num(b = q /\ a = p /\ x = g) + Num(b = q /\ a = p /\ y = g)
  BY DEF ReadingStep
<1>4. UnderWay(b, a, g) = n + nx /\ UnderWay(b, a, g)' = n' + nx'
  BY DEF UnderWay
<1> HIDE DEF n, nx
<1>5. CASE b = q /\ a = p
  <2>1. /\ Num(b = q /\ a = p /\ x = g) = Num(x = g) /\ Num(b = q /\ a = p /\ y = g) = Num(y = g)
        /\ Num(x = g) \in Nat /\ Num(y = g) \in Nat
    BY <1>5 DEF Num
  <2> QED
    BY <1>1, <1>2, <1>3, <1>4, <1>5, <2>1
<1>6. CASE ~(b = q /\ a = p)
  <2>1. /\ Num(b = q /\ a = p /\ x = g) = 0 /\ Num(b = q /\ a = p /\ y = g) = 0
    BY <1>6 DEF Num
  <2> QED
    BY <1>1, <1>2, <1>3, <1>4, <1>6, <2>1
<1> QED
  BY <1>5, <1>6

-----------------------------------------------------------------------------
(* What a receive depends on, besides its request. *)
CountsSame(q, g) ==
  /\ NumPosted(q, g)' = NumPosted(q, g) /\ NumQueued(q, g)' = NumQueued(q, g)
  /\ \A a \in Proc : UnderWay(q, a, g)' = UnderWay(q, a, g)

LEMMA RecvKept ==
  ASSUME NEW q \in Proc, NEW g \in Handle, RecvRefs(q, g), CountsSame(q, g), Kept(q, g),
         user'[q][g] = user[q][g]
  PROVE  RecvRefs(q, g)'
<1>1. /\ req'[q][g].type = req[q][g].type /\ req'[q][g].rank = req[q][g].rank
      /\ req'[q][g].msgType = req[q][g].msgType /\ req'[q][g].ref = req[q][g].ref
      /\ req'[q][g].senderReq = req[q][g].senderReq /\ req'[q][g].syncAck = req[q][g].syncAck
  BY DEF Kept, Same, Core
<1>2. Owes(req'[q][g]) <=> Owes(req[q][g])
  BY <1>1 DEF Owes
<1>3. ASSUME NEW p \in Proc, RecvWith(q, p, g) PROVE RecvWith(q, p, g)'
  BY <1>1, <1>2, <1>3 DEF RecvWith, CountsSame
<1> QED
  BY <1>1, <1>3 DEF RecvRefs, RecvIdle, CountsSame

(* A request that is no receive before and after a step. *)
LEMMA RecvNever ==
  ASSUME NEW q \in Proc, NEW g \in Handle, RecvRefs(q, g), CountsSame(q, g),
         req[q][g].type # "RECV", req'[q][g].type # "RECV", user'[q][g] # "message"
  PROVE  RecvRefs(q, g)'
BY DEF RecvRefs, RecvIdle, CountsSame

(* A receive loses one reference with one of the things that held it. *)
LEMMA RecvDropped ==
  ASSUME TypeOK, TypeOK', NEW q \in Proc, NEW g \in Handle, RecvRefs(q, g),
         req[q][g].type = "RECV", Dropped(req[q][g], req'[q][g]), KeptInv(q, g),
         call'[q] = call[q],
         NEW p \in Proc, RecvWith(q, p, g),
         \A a \in Proc : a # p => UnderWay(q, a, g)' = UnderWay(q, a, g),
         UnderWay(q, p, g)' <= UnderWay(q, p, g), UnderWay(q, p, g)' \in Nat,
         NumPosted(q, g)' <= NumPosted(q, g), NumQueued(q, g)' <= NumQueued(q, g),
         user'[q][g] \in {user[q][g], "none"},
         Num(user'[q][g] # "none") + NumPosted(q, g)' + NumQueued(q, g)' + UnderWay(q, p, g)' + 1
           = Num(user[q][g] # "none") + NumPosted(q, g) + NumQueued(q, g) + UnderWay(q, p, g)
  PROVE  RecvRefs(q, g)' /\ KeptInv(q, g)'
<1> DEFINE U == Num(user[q][g] # "none")
           V == Num(user'[q][g] # "none")
<1>1. /\ \A a \in Proc : a # p => UnderWay(q, a, g) = 0
      /\ NumQueued(q, g) > 0 \/ user[q][g] = "message" =>
           /\ req[q][g].rank = p
           /\ Owes(req[q][g]) => req[q][g].senderReq \in Handle /\ p # q
      /\ req[q][g].ref = U + NumPosted(q, g) + NumQueued(q, g) + UnderWay(q, p, g)
  BY DEF RecvWith
<1>2. /\ req[q][g].ref > 0
      /\ NumQueued(q, g) > 0 => NumQueued(q, g) = 1 /\ user[q][g] = "none"
      /\ NumPosted(q, g) > 0 =>
            /\ NumPosted(q, g) = 1 /\ NumQueued(q, g) = 0 /\ user[q][g] # "message"
            /\ \A a \in Proc : UnderWay(q, a, g) = 0
  BY DEF RecvRefs
<1>3. /\ NumPosted(q, g) \in Nat /\ NumQueued(q, g) \in Nat /\ UnderWay(q, p, g) \in Nat
      /\ NumPosted(q, g)' \in Nat /\ NumQueued(q, g)' \in Nat
      /\ U \in {0, 1} /\ V \in {0, 1} /\ (V = 0 => user'[q][g] = "none")
  BY QueueCounts, QueueCountsNext, UnderWayNat DEF Num
<1>4. call[q] # g /\ call'[q] # g
  BY DEF KeptInv, IsSend
<1>5. V + NumPosted(q, g)' + NumQueued(q, g)' + UnderWay(q, p, g)' + 1 = req[q][g].ref
  BY <1>1
<1> HIDE DEF U, V
<1>6. CASE req[q][g].ref = 1
  <2>1. Returned(req[q][g], req'[q][g])
    BY <1>6 DEF Dropped
  <2>2. req'[q][g].type = "FREE" /\ req'[q][g].ref = 0
    BY <2>1 DEF Returned, FreeRequest
  <2>3. V = 0 /\ NumPosted(q, g)' = 0 /\ NumQueued(q, g)' = 0 /\ UnderWay(q, p, g)' = 0
    <3>1. PICK n1, n2, n3 \in Nat : n1 = NumPosted(q, g)' /\ n2 = NumQueued(q, g)'
                                    /\ n3 = UnderWay(q, p, g)'
      BY <1>3
    <3>2. V + n1 + n2 + n3 + 1 = 1
      BY <1>5, <1>6, <3>1
    <3>3. V \in Nat
      BY <1>3
    <3>4. V = 0 /\ n1 = 0 /\ n2 = 0 /\ n3 = 0
      BY <3>2, <3>3
    <3> QED
      BY <3>1, <3>4
  <2>4. user'[q][g] = "none"
    BY <1>3, <2>3
  <2>5. \A a \in Proc : UnderWay(q, a, g)' = 0
    BY <1>1, <2>3
  <2>6. RecvRefs(q, g)'
    BY <2>2, <2>3, <2>4, <2>5 DEF RecvRefs, RecvIdle
  <2> QED
    BY <1>4, <2>2, <2>4, <2>6 DEF KeptInv, IsSend
<1>7. CASE req[q][g].ref # 1
  <2>1. Same(req[q][g], req'[q][g]) /\ req'[q][g].ref = req[q][g].ref - 1
    BY <1>7 DEF Dropped
  <2>2. /\ req'[q][g].type = "RECV" /\ req'[q][g].rank = req[q][g].rank
        /\ req'[q][g].msgType = req[q][g].msgType
        /\ req'[q][g].senderReq = req[q][g].senderReq /\ req'[q][g].syncAck = req[q][g].syncAck
    BY <2>1 DEF Same, Core
  <2>3. Owes(req'[q][g]) <=> Owes(req[q][g])
    BY <2>2 DEF Owes
  <2>4. req'[q][g].ref = V + NumPosted(q, g)' + NumQueued(q, g)' + UnderWay(q, p, g)'
    BY <1>3, <1>5, <2>1
  <2>5. \A a \in Proc : a # p => UnderWay(q, a, g)' = 0
    BY <1>1
  <2>6. NumQueued(q, g)' > 0 \/ user'[q][g] = "message" =>
          NumQueued(q, g) > 0 \/ user[q][g] = "message"
    BY <1>3
  <2>7. RecvWith(q, p, g)'
    BY <1>1, <2>2, <2>3, <2>4, <2>5, <2>6 DEF RecvWith, V
  <2>8. req'[q][g].ref > 0
    <3>1. req[q][g] \in Request
      BY DEF TypeOK
    <3> QED
      BY <1>2, <1>7, <2>1, <3>1 DEF Request
  <2>9. NumQueued(q, g)' > 0 => NumQueued(q, g)' = 1 /\ user'[q][g] = "none"
    BY <1>2, <1>3
  <2>10. NumPosted(q, g)' > 0 =>
            /\ NumPosted(q, g)' = 1 /\ NumQueued(q, g)' = 0 /\ user'[q][g] # "message"
            /\ \A a \in Proc : UnderWay(q, a, g)' = 0
    <3> SUFFICES ASSUME NumPosted(q, g)' > 0
                 PROVE  /\ NumPosted(q, g)' = 1 /\ NumQueued(q, g)' = 0
                        /\ user'[q][g] # "message"
                        /\ \A a \in Proc : UnderWay(q, a, g)' = 0
      OBVIOUS
    <3>1. /\ NumPosted(q, g) = 1 /\ NumQueued(q, g) = 0 /\ user[q][g] # "message"
          /\ UnderWay(q, p, g) = 0
      BY <1>2, <1>3
    <3> QED
      BY <1>3, <2>5, <3>1
  <2>11. RecvRefs(q, g)'
    BY <2>2, <2>7, <2>8, <2>9, <2>10 DEF RecvRefs
  <2> QED
    BY <1>4, <2>2, <2>11 DEF KeptInv, IsSend
<1> QED
  BY <1>6, <1>7

HandleRefs(a, h) == SendRefs(a, h) /\ RecvRefs(a, h) /\ KeptInv(a, h)

HandlesOK == \A a \in Proc, h \in Handle : HandleRefs(a, h)

(* A handle that a step leaves alone, and one that is no receive. *)
LeftAlone(a, h) ==
  Kept(a, h) /\ user'[a][h] = user[a][h] /\ NumQueued(a, h)' = NumQueued(a, h)

NoRecv(a, h) == req[a][h].type # "RECV" /\ req'[a][h].type # "RECV"

SameDebts(b, f) ==
  \A a \in Proc, h \in Handle : OwesAnswer(b, f, a, h)' <=> OwesAnswer(b, f, a, h)

OwesFormed ==
  TypeOK => \A q \in Proc, g \in Handle, p \in Proc, h \in Handle :
    OwesAnswer(q, g, p, h) <=>
      /\ req[q][g].type = "RECV" /\ req[q][g].rank = p
      /\ req[q][g].senderReq = h /\ Owes(req[q][g])
      /\ user[q][g] = "message" \/ NumQueued(q, g) > 0

LEMMA OwesAlwaysFormed == OwesFormed
BY OwesForm DEF OwesFormed

LEMMA OwesFormedNext == OwesFormed'
BY OwesAlwaysFormed, PTL

LEMMA OwesFormNext ==
  ASSUME TypeOK', NEW q \in Proc, NEW g \in Handle, NEW p \in Proc, NEW h \in Handle
  PROVE  OwesAnswer(q, g, p, h)' <=>
           /\ req'[q][g].type = "RECV" /\ req'[q][g].rank = p
           /\ req'[q][g].senderReq = h /\ Owes(req'[q][g])
           /\ user'[q][g] = "message" \/ NumQueued(q, g)' > 0
<1> DEFINE Right == /\ req[q][g].type = "RECV" /\ req[q][g].rank = p
                    /\ req[q][g].senderReq = h /\ Owes(req[q][g])
                    /\ user[q][g] = "message" \/ NumQueued(q, g) > 0
<1>1. OwesAnswer(q, g, p, h)' <=> Right'
  BY OwesFormedNext DEF OwesFormed
<1> QED
  BY <1>1 DEF Owes

LEMMA DebtsAlone ==
  ASSUME TypeOK, TypeOK', NEW b \in Proc, NEW f \in Handle, LeftAlone(b, f) \/ NoRecv(b, f)
  PROVE  SameDebts(b, f)
<1> SUFFICES ASSUME NEW a \in Proc, NEW h \in Handle
             PROVE  OwesAnswer(b, f, a, h)' <=> OwesAnswer(b, f, a, h)
  BY DEF SameDebts
<1>1. /\ OwesAnswer(b, f, a, h) <=>
           /\ req[b][f].type = "RECV" /\ req[b][f].rank = a
           /\ req[b][f].senderReq = h /\ Owes(req[b][f])
           /\ user[b][f] = "message" \/ NumQueued(b, f) > 0
      /\ OwesAnswer(b, f, a, h)' <=>
           /\ req'[b][f].type = "RECV" /\ req'[b][f].rank = a
           /\ req'[b][f].senderReq = h /\ Owes(req'[b][f])
           /\ user'[b][f] = "message" \/ NumQueued(b, f)' > 0
  BY OwesForm, OwesFormNext
<1>2. CASE NoRecv(b, f)
  BY <1>1, <1>2 DEF NoRecv
<1>3. CASE LeftAlone(b, f)
  <2>1. /\ req'[b][f].type = req[b][f].type /\ req'[b][f].rank = req[b][f].rank
        /\ req'[b][f].senderReq = req[b][f].senderReq
        /\ Owes(req'[b][f]) <=> Owes(req[b][f])
    BY <1>3 DEF LeftAlone, Kept, Same, Core, Owes
  <2> QED
    BY <1>1, <1>3, <2>1 DEF LeftAlone
<1> QED
  BY <1>2, <1>3

LEMMA FiniteDebts ==
  ASSUME HandlesOK, NEW a \in Proc, NEW c \in Proc, NEW h \in Handle
  PROVE  IsFiniteSet(Debtors(a, c, h))
BY DEF HandlesOK, HandleRefs, SendRefs

(* Nothing is sent or read, and no debt changes. *)
LEMMA QuietTokens ==
  ASSUME TypeOK, HandlesOK, UNCHANGED <<wire, sendq>>,
         \A b \in Proc, f \in Handle : SameDebts(b, f),
         NEW a \in Proc, NEW h \in Handle
  PROVE  TokensSame(a, h)
<1> SUFFICES ASSUME NEW c \in Proc, NEW w \in BOOLEAN
             PROVE  IsFiniteSet(Debtors(a, c, h)') /\ TokensAs(a, c, h, w)' = TokensAs(a, c, h, w)
  BY DEF TokensSame
<1>1. DebtStep(c, h)
  BY DEF DebtStep, SameDebts
<1>2. IsFiniteSet(Debtors(a, c, h))
  BY FiniteDebts
<1>3. Num(OwesAnswer(c, h, a, h)) = Num(OwesAnswer(c, h, a, h)') /\ Num(OwesAnswer(c, h, a, h)) \in Nat
  BY DEF SameDebts, Num
<1>4. TokensAs(a, c, h, w) \in Nat
  BY <1>2, TokensType
<1> QED
  BY <1>1, <1>2, <1>3, <1>4, TokensQuiet

LEMMA AloneKept ==
  ASSUME TypeOK, NEW a \in Proc, NEW h \in Handle, HandleRefs(a, h),
         Kept(a, h), user'[a][h] = user[a][h], (call'[a] = h) <=> (call[a] = h),
         TokensSame(a, h), CountsSame(a, h)
  PROVE  HandleRefs(a, h)'
<1>1. SendRefs(a, h)'
  BY SendKept DEF HandleRefs
<1>2. RecvRefs(a, h)'
  BY RecvKept DEF HandleRefs
<1>3. KeptInv(a, h)'
  BY DEF HandleRefs, KeptInv, Kept, Same, Core, IsSend
<1> QED
  BY <1>1, <1>2, <1>3 DEF HandleRefs

LEMMA KindOf ==
  ASSUME TypeOK, NEW a \in Proc, NEW h \in Handle
  PROVE  /\ req[a][h] \in Request
         /\ req[a][h].type = "FREE" \/ req[a][h].type = "RECV" \/ IsSend(req[a][h])
         /\ req[a][h].type = "FREE" => ~IsSend(req[a][h])
         /\ req[a][h].type = "RECV" => ~IsSend(req[a][h])
         /\ req[a][h].ref \in Int
<1>1. req[a][h] \in Request
  BY DEF TypeOK
<1> QED
  BY <1>1 DEF Request, IsSend

LEMMA DroppedKind ==
  ASSUME NEW r, NEW s, Dropped(r, s)
  PROVE  /\ s.type \in {r.type, "FREE"}
         /\ r.ref # 1 => Same(r, s) /\ s.ref = r.ref - 1
BY DEF Dropped, Same, Core, Returned, FreeRequest

LEMMA HeldNotFree ==
  ASSUME TypeOK, HandlesOK, NEW a \in Proc, NEW h \in Handle, user[a][h] # "none"
  PROVE  req[a][h].type = "RECV" \/ IsSend(req[a][h])
BY KindOf DEF HandlesOK, HandleRefs, KeptInv

LEMMA QuietCounts ==
  ASSUME UNCHANGED <<posted, unexpected, wire, sendq, reading>>,
         NEW b \in Proc, NEW f \in Handle
  PROVE  CountsSame(b, f)
<1>1. NumPosted(b, f)' = NumPosted(b, f) /\ NumQueued(b, f)' = NumQueued(b, f)
  BY DEF NumPosted, NumQueued
<1>2. ASSUME NEW a \in Proc PROVE UnderWay(b, a, f)' = UnderWay(b, a, f)
  BY NetSame DEF UnderWay
<1> QED
  BY <1>1, <1>2 DEF CountsSame

LEMMA FinishCallRefs ==
  ASSUME TypeOK, TypeOK', HandlesOK, NEW p \in Proc, FinishCall(p)
  PROVE  HandlesOK'
<1>0. /\ UNCHANGED <<user, posted, unexpected, wire, sendq, reading>>
      /\ call'[p] = None /\ \A a \in Proc : a # p => call'[a] = call[a]
  <2>1. /\ UNCHANGED <<user, posted, unexpected, wire, sendq, reading>>
        /\ call' = [call EXCEPT ![p] = None]
    BY DEF FinishCall, queues, net
  <2> QED
    BY <2>1, CallSet
<1>1. PICK c \in Handle : c = call[p]
  BY FinishCallReq
<1>2. /\ Others(p, {c})
      /\ Same(req[p][c], req'[p][c]) /\ req'[p][c].ref = req[p][c].ref + 1
  BY <1>1, FinishCallReq
<1>3. HandleRefs(p, c)
  BY DEF HandlesOK
<1>4. /\ IsSend(req[p][c]) /\ IsSend(req'[p][c])
      /\ req'[p][c].type = req[p][c].type /\ req'[p][c].rank = req[p][c].rank
      /\ req'[p][c].msgType = req[p][c].msgType
  BY <1>1, <1>2, <1>3 DEF HandleRefs, KeptInv, Same, Core, IsSend
<1>5. \A b \in Proc, f \in Handle : CountsSame(b, f)
  BY <1>0, QuietCounts
<1>6. \A b \in Proc, f \in Handle : b # p \/ f # c => Kept(b, f)
  BY <1>2, KeptWhenSame DEF Others
<1>7. NoRecv(p, c)
  BY <1>4 DEF NoRecv, IsSend
<1>8. \A b \in Proc, f \in Handle : SameDebts(b, f)
  <2> SUFFICES ASSUME NEW b \in Proc, NEW f \in Handle PROVE LeftAlone(b, f) \/ NoRecv(b, f)
    BY DebtsAlone
  <2> QED
    BY <1>0, <1>5, <1>6, <1>7 DEF LeftAlone, CountsSame
<1>9. \A a \in Proc, h \in Handle : TokensSame(a, h)
  BY <1>0, <1>8, QuietTokens
<1>10. ASSUME NEW a \in Proc, NEW h \in Handle, a # p \/ h # c
       PROVE  HandleRefs(a, h)'
  <2>1. (call'[a] = h) <=> (call[a] = h)
    BY <1>0, <1>1, <1>10, NoneAssumption
  <2> QED
    BY <1>0, <1>5, <1>6, <1>9, <1>10, <2>1, AloneKept DEF HandlesOK
<1>11. HandleRefs(p, c)'
  <2> DEFINE dr == 1
             dt == 0
  <2>1. PICK b \in Proc : b = req[p][c].rank
    BY <1>3, <1>4 DEF HandleRefs, SendRefs
  <2>2. /\ \A d \in Proc : IsFiniteSet(Debtors(p, d, c)')
        /\ \A d \in Proc, w \in BOOLEAN : TokensAs(p, d, c, w)' = TokensAs(p, d, c, w)
    BY <1>9 DEF TokensSame
  <2>3. \A w \in BOOLEAN : TokensAs(p, b, c, w)' = TokensAs(p, b, c, w) + dt
    <3>1. \A w \in BOOLEAN : TokensAs(p, b, c, w) \in Nat
      BY FiniteDebts, TokensType
    <3> QED
      BY <2>2, <3>1
  <2>4. /\ Num(call'[p] = c) = 0 /\ Num(call[p] = c) = 1
        /\ Num(user'[p][c] # "none") = Num(user[p][c] # "none")
        /\ Num(user[p][c] # "none") \in Int
    BY <1>0, <1>1, NoneAssumption DEF Num
  <2>5. req[p][c].ref > 0 /\ req[p][c].ref \in Int
    BY <1>3, <1>4, KindOf DEF HandleRefs, SendRefs
  <2>6. /\ dt \in Int /\ dr \in Int
        /\ req'[p][c].ref = req[p][c].ref + dr /\ req[p][c].ref + dr > 0
        /\ dr + Num(call'[p] = c) - Num(call[p] = c) =
             Num(user'[p][c] # "none") - Num(user[p][c] # "none") + dt
    BY <1>2, <2>4, <2>5
  <2> HIDE DEF dr, dt
  <2>7. SendRefs(p, c)'
    BY <1>3, <1>4, <2>1, <2>2, <2>3, <2>6, SendLives DEF HandleRefs
  <2>8. RecvRefs(p, c)'
    BY <1>0, <1>3, <1>5, <1>7, RecvNever DEF HandleRefs, NoRecv, RecvRefs, RecvIdle
  <2>9. KeptInv(p, c)'
    BY <1>3, <1>4 DEF HandleRefs, KeptInv, IsSend
  <2> QED
    BY <2>7, <2>8, <2>9 DEF HandleRefs
<1> QED
  BY <1>10, <1>11 DEF HandlesOK

(* A cancel of a send to oneself changes nothing that is counted. *)
LEMMA CancelSelfMissedRefs ==
  ASSUME TypeOK, TypeOK', HandlesOK, NEW p \in Proc, NEW c \in Handle, CancelSelfMissed(p, c)
  PROVE  HandlesOK'
<1>0. UNCHANGED <<user, posted, unexpected, wire, sendq, reading, call>>
  BY DEF CancelSelfMissed, queues, net
<1>1. Others(p, {c}) /\ Asked(req[p][c], req'[p][c])
  BY CancelSelfMissedReq
<1>2. IsSend(req[p][c])
  BY DEF CancelSelfMissed, MayCancelSend
<1>3. /\ IsSend(req'[p][c]) /\ req'[p][c].ref = req[p][c].ref
      /\ req'[p][c].type = req[p][c].type /\ req'[p][c].rank = req[p][c].rank
      /\ req'[p][c].msgType = req[p][c].msgType
  BY <1>1, <1>2 DEF Asked, Core, IsSend
<1>5. \A b \in Proc, f \in Handle : CountsSame(b, f)
  BY <1>0, QuietCounts
<1>6. \A b \in Proc, f \in Handle : b # p \/ f # c => Kept(b, f)
  BY <1>1, KeptWhenSame DEF Others
<1>7. NoRecv(p, c)
  BY <1>2, <1>3 DEF NoRecv, IsSend
<1>8. \A b \in Proc, f \in Handle : SameDebts(b, f)
  <2> SUFFICES ASSUME NEW b \in Proc, NEW f \in Handle PROVE LeftAlone(b, f) \/ NoRecv(b, f)
    BY DebtsAlone
  <2> QED
    BY <1>0, <1>5, <1>6, <1>7 DEF LeftAlone, CountsSame
<1>9. \A a \in Proc, h \in Handle : TokensSame(a, h)
  BY <1>0, <1>8, QuietTokens
<1>10. ASSUME NEW a \in Proc, NEW h \in Handle, a # p \/ h # c
       PROVE  HandleRefs(a, h)'
  BY <1>0, <1>5, <1>6, <1>9, <1>10, AloneKept DEF HandlesOK
<1>11. HandleRefs(p, c)'
  <2>1. HandleRefs(p, c)
    BY DEF HandlesOK
  <2>2. SendRefs(p, c)'
    BY <1>0, <1>2, <1>3, <1>9, <2>1, SendAsItWas DEF HandleRefs
  <2>3. RecvRefs(p, c)'
    BY <1>0, <1>5, <1>7, <2>1, RecvNever DEF HandleRefs, NoRecv, RecvRefs, RecvIdle
  <2>4. KeptInv(p, c)'
    BY <1>0, <1>2, <1>3, <2>1 DEF HandleRefs, KeptInv, IsSend
  <2> QED
    BY <2>2, <2>3, <2>4 DEF HandleRefs
<1> QED
  BY <1>10, <1>11 DEF HandlesOK

(* Does receive f of b owe an answer? *)
Owing(b, f) ==
  /\ req[b][f].type = "RECV" /\ Owes(req[b][f])
  /\ user[b][f] = "message" \/ NumQueued(b, f) > 0

LEMMA NoDebts ==
  ASSUME TypeOK, TypeOK', NEW b \in Proc, NEW f \in Handle, ~Owing(b, f), ~Owing(b, f)'
  PROVE  SameDebts(b, f)
<1> SUFFICES ASSUME NEW a \in Proc, NEW h \in Handle
             PROVE  OwesAnswer(b, f, a, h)' <=> OwesAnswer(b, f, a, h)
  BY DEF SameDebts
<1>1. ~OwesAnswer(b, f, a, h)
  BY OwesForm DEF Owing
<1>2. ~OwesAnswer(b, f, a, h)'
  BY OwesFormNext DEF Owing, Owes
<1> QED
  BY <1>1, <1>2

LEMMA CountsElsewhere ==
  ASSUME TypeOK, UNCHANGED <<wire, sendq>>, NEW q \in Proc, NEW p \in Proc,
         NEW x, NEW m, PostStep(q, x, m), NEW y, NEW n, ArriveStep(q, y, n),
         NEW u, NEW v, ReadingStep(q, p, u, v),
         NEW b \in Proc, NEW f \in Handle, b # q \/ f \notin {x, m, y, n, u, v}
  PROVE  CountsSame(b, f)
<1>1. NumPosted(b, f) \in Nat /\ NumQueued(b, f) \in Nat
  BY QueueCounts
<1>2. NumPosted(b, f)' = NumPosted(b, f)
  BY <1>1 DEF PostStep, Num
<1>3. NumQueued(b, f)' = NumQueued(b, f)
  BY <1>1 DEF ArriveStep, Num
<1>4. ASSUME NEW a \in Proc PROVE UnderWay(b, a, f)' = UnderWay(b, a, f)
  <2>1. UnderWay(b, a, f) \in Nat
    BY UnderWayNat
  <2>2. CASE b = q /\ a = p
    <3>1. UnderWay(b, a, f)' = UnderWay(b, a, f) - Num(u = f) + Num(v = f)
      BY <2>2, UnderWayQuiet
    <3> QED
      BY <2>1, <2>2, <3>1 DEF Num
  <2>3. CASE ~(b = q /\ a = p)
    BY <2>3, UnderWayQuiet
  <2> QED
    BY <2>2, <2>3
<1> QED
  BY <1>2, <1>3, <1>4 DEF CountsSame

(* A step that sends and reads no packet, and works on the requests S of p. *)
LEMMA QuietOthers ==
  ASSUME TypeOK, TypeOK', HandlesOK, UNCHANGED <<wire, sendq>>, NEW p \in Proc, NEW S,
         \A a \in Proc, h \in Handle : a # p \/ h \notin S =>
            /\ Kept(a, h) /\ user'[a][h] = user[a][h] /\ CountsSame(a, h)
            /\ (call'[a] = h) <=> (call[a] = h),
         \A h \in Handle : h \in S => SameDebts(p, h)
  PROVE  /\ \A a \in Proc, h \in Handle : TokensSame(a, h)
         /\ \A a \in Proc, h \in Handle : a # p \/ h \notin S => HandleRefs(a, h)'
<1>1. \A b \in Proc, f \in Handle : SameDebts(b, f)
  <2> SUFFICES ASSUME NEW b \in Proc, NEW f \in Handle, b # p \/ f \notin S PROVE LeftAlone(b, f)
    BY DebtsAlone
  <2> QED
    BY DEF LeftAlone, CountsSame
<1>2. \A a \in Proc, h \in Handle : TokensSame(a, h)
  BY <1>1, QuietTokens
<1>3. ASSUME NEW a \in Proc, NEW h \in Handle, a # p \/ h \notin S
      PROVE  HandleRefs(a, h)'
  <2>1. HandleRefs(a, h) /\ TokensSame(a, h)
    BY <1>2 DEF HandlesOK
  <2> QED
    BY <1>3, <2>1, AloneKept
<1> QED
  BY <1>2, <1>3

(* A send that gives up the application's reference. *)
LEMMA SendHandleDropped ==
  ASSUME TypeOK, TypeOK', NEW a \in Proc, NEW h \in Handle, HandleRefs(a, h), IsSend(req[a][h]),
         Dropped(req[a][h], req'[a][h]), TokensSame(a, h), CountsSame(a, h),
         call[a] # h, call'[a] # h, user[a][h] # "none", user'[a][h] = "none"
  PROVE  HandleRefs(a, h)'
<1>1. PICK b \in Proc : b = req[a][h].rank
  BY DEF HandleRefs, SendRefs
<1> DEFINE dt == 0
<1>2. \A w \in BOOLEAN : TokensAs(a, b, h, w)' = TokensAs(a, b, h, w) + dt
  <2>1. \A w \in BOOLEAN : TokensAs(a, b, h, w) \in Nat
    BY TokensType DEF HandleRefs, SendRefs
  <2> QED
    BY <2>1 DEF TokensSame
<1>3. dt \in Int /\ -1 = Num(user'[a][h] # "none") - Num(user[a][h] # "none") + dt
  BY DEF Num
<1> HIDE DEF dt
<1>4. SendRefs(a, h)' /\ KeptInv(a, h)'
  BY <1>1, <1>2, <1>3, SendDropped DEF HandleRefs, TokensSame
<1>5. req[a][h].type # "RECV" /\ req'[a][h].type # "RECV" /\ user'[a][h] # "message"
  BY DroppedKind DEF IsSend
<1>6. RecvRefs(a, h)'
  BY <1>5, RecvNever DEF HandleRefs
<1> QED
  BY <1>4, <1>6 DEF HandleRefs

(* A request that is not a send stays so. *)
LEMMA RecvNoSend ==
  ASSUME TypeOK, NEW a \in Proc, NEW h \in Handle, HandleRefs(a, h), TokensSame(a, h),
         req[a][h].type = "RECV", req'[a][h].type \in {"RECV", "FREE"}
  PROVE  SendRefs(a, h)'
BY SendNever DEF HandleRefs, IsSend

LEMMA DropHandleRefs ==
  ASSUME TypeOK, TypeOK', HandlesOK, NEW p \in Proc, NEW c \in Handle, DropHandle(p, c),
         MayCall(p), user[p][c] = "request"
  PROVE  HandlesOK'
<1>0. /\ UNCHANGED <<posted, unexpected, wire, sendq, reading, call>>
      /\ user'[p][c] = "none"
      /\ \A a \in Proc, h \in Handle : a # p \/ h # c => user'[a][h] = user[a][h]
      /\ call[p] # c
  <2>1. /\ UNCHANGED <<posted, unexpected, wire, sendq, reading, call>>
        /\ user' = [user EXCEPT ![p][c] = "none"] /\ call[p] = None
    BY DEF DropHandle, queues, net, MayCall
  <2> QED
    BY <2>1, UserType, NoneAssumption
<1>1. Others(p, {c}) /\ Dropped(req[p][c], req'[p][c])
  BY DropHandleReq
<1>2. \A b \in Proc, f \in Handle : CountsSame(b, f)
  BY <1>0, QuietCounts
<1>3. HandleRefs(p, c)
  BY DEF HandlesOK
<1>4. req[p][c].type = "RECV" \/ IsSend(req[p][c])
  BY HeldNotFree
<1>5. req'[p][c].type \in {req[p][c].type, "FREE"}
  BY <1>1, DroppedKind
<1>6. NumQueued(p, c) \in Nat /\ NumQueued(p, c)' = NumQueued(p, c)
  BY <1>2, QueueCounts DEF CountsSame
<1>7. SameDebts(p, c)
  <2>1. CASE IsSend(req[p][c])
    <3>1. req[p][c].type # "RECV" /\ req'[p][c].type # "RECV"
      BY <1>5, <2>1 DEF IsSend
    <3> QED
      BY <3>1, NoDebts DEF Owing
  <2>2. CASE req[p][c].type = "RECV"
    <3>1. ~(NumQueued(p, c) > 0)
      BY <1>3, <2>2 DEF HandleRefs, RecvRefs
    <3>2. ~Owing(p, c) /\ ~Owing(p, c)'
      BY <1>0, <1>6, <3>1 DEF Owing
    <3> QED
      BY <3>2, NoDebts
  <2> QED
    BY <1>4, <2>1, <2>2
<1>8. /\ \A a \in Proc, h \in Handle : TokensSame(a, h)
      /\ \A a \in Proc, h \in Handle : a # p \/ h \notin {c} => HandleRefs(a, h)'
  <2>1. \A a \in Proc, h \in Handle : a # p \/ h \notin {c} =>
            /\ Kept(a, h) /\ user'[a][h] = user[a][h] /\ CountsSame(a, h)
            /\ (call'[a] = h) <=> (call[a] = h)
    BY <1>0, <1>1, <1>2, KeptWhenSame DEF Others
  <2> QED
    BY <1>0, <1>7, <2>1, QuietOthers
<1>9. HandleRefs(p, c)'
  <2>1. CASE IsSend(req[p][c])
    BY <1>0, <1>1, <1>2, <1>3, <1>8, <2>1, SendHandleDropped
  <2>2. CASE req[p][c].type = "RECV"
    <3>1. SendRefs(p, c)'
      BY <1>3, <1>5, <1>8, <2>2, RecvNoSend
    <3>2. PICK b \in Proc : RecvWith(p, b, c)
      BY <1>3, <2>2 DEF HandleRefs, RecvRefs
    <3>3. /\ UnderWay(p, b, c)' = UnderWay(p, b, c) /\ UnderWay(p, b, c) \in Nat
          /\ NumPosted(p, c)' = NumPosted(p, c) /\ NumPosted(p, c) \in Nat
          /\ \A a \in Proc : UnderWay(p, a, c)' = UnderWay(p, a, c)
      BY <1>2, QueueCounts, UnderWayNat DEF CountsSame
    <3>4. /\ user'[p][c] \in {user[p][c], "none"}
          /\ Num(user'[p][c] # "none") = 0 /\ Num(user[p][c] # "none") = 1
      BY <1>0 DEF Num
    <3>5. /\ Num(user'[p][c] # "none") + NumPosted(p, c)' + NumQueued(p, c)' + UnderWay(p, b, c)' + 1
               = Num(user[p][c] # "none") + NumPosted(p, c) + NumQueued(p, c) + UnderWay(p, b, c)
          /\ UnderWay(p, b, c)' <= UnderWay(p, b, c) /\ UnderWay(p, b, c)' \in Nat
          /\ NumPosted(p, c)' <= NumPosted(p, c) /\ NumQueued(p, c)' <= NumQueued(p, c)
      BY <1>6, <3>3, <3>4
    <3>6. RecvRefs(p, c)' /\ KeptInv(p, c)'
      BY <1>0, <1>1, <1>3, <2>2, <3>2, <3>3, <3>4, <3>5, RecvDropped DEF HandleRefs
    <3> QED
      BY <3>1, <3>6 DEF HandleRefs
  <2> QED
    BY <1>4, <2>1, <2>2
<1> QED
  BY <1>8, <1>9 DEF HandlesOK

LEMMA FreeRefs ==
  ASSUME TypeOK, NEW a \in Proc, NEW h \in Handle, HandleRefs(a, h), req[a][h].type = "FREE"
  PROVE  /\ user[a][h] = "none" /\ call[a] # h
         /\ NumPosted(a, h) = 0 /\ NumQueued(a, h) = 0
         /\ \A c \in Proc : UnderWay(a, c, h) = 0
         /\ \A c \in Proc, w \in BOOLEAN : TokensAs(a, c, h, w) = 0
<1>1. user[a][h] = "none" /\ call[a] # h
  BY DEF HandleRefs, KeptInv, IsSend
<1>2. /\ NumPosted(a, h) = 0 /\ NumQueued(a, h) = 0
      /\ \A c \in Proc : UnderWay(a, c, h) = 0
  BY DEF HandleRefs, RecvRefs, RecvIdle
<1>3. ASSUME NEW c \in Proc, NEW w \in BOOLEAN PROVE TokensAs(a, c, h, w) = 0
  <2>1. PICK v \in BOOLEAN : v = Awaits(req[a][h])
    BY DEF Awaits
  <2>2. IsFiniteSet(Debtors(a, c, h)) /\ ~(TokensAs(a, c, h, v) > 0)
    BY <2>1, SendRefsForm DEF HandleRefs, IsSend
  <2>3. v = w \/ v = ~w
    OBVIOUS
  <2> QED
    BY <2>2, <2>3, TokensType
<1> QED
  BY <1>1, <1>2, <1>3

(* A new send of which nobody but the application knows. *)
LEMMA NewSelfSend ==
  ASSUME TypeOK, TypeOK', NEW a \in Proc, NEW h \in Handle, HandleRefs(a, h),
         req[a][h].type = "FREE", TokensSame(a, h), CountsSame(a, h),
         IsSend(req'[a][h]), req'[a][h].rank \in Proc, req'[a][h].ref = 1,
         req'[a][h].msgType = "SELF",
         user'[a][h] = "request", call'[a] # h
  PROVE  HandleRefs(a, h)'
<1>1. /\ user[a][h] = "none" /\ call[a] # h
      /\ \A c \in Proc, w \in BOOLEAN : TokensAs(a, c, h, w)' = 0 /\ IsFiniteSet(Debtors(a, c, h)')
  BY FreeRefs DEF TokensSame
<1>2. Num(call'[a] = h) = 0 /\ Num(user'[a][h] # "none") = 1
  BY DEF Num
<1>3. PICK w \in BOOLEAN : w = Awaits(req[a][h])'
  BY DEF Awaits
<1>4. SendRefs(a, h)'
  BY <1>1, <1>2, <1>3, SendRefsNext
<1>5. req'[a][h].type # "RECV" /\ req'[a][h].type # "FREE"
  BY DEF IsSend
<1>6. RecvRefs(a, h)'
  BY <1>5, RecvNever DEF HandleRefs
<1> QED
  BY <1>4, <1>5, <1>6 DEF HandleRefs, KeptInv

(* Who is in the posted queue. *)
LEMMA PostedIsRecv ==
  ASSUME TypeOK, HandlesOK, NEW q \in Proc, NEW i \in 1 .. Len(posted[q]), NEW g \in Handle,
         g = posted[q][i].rreq
  PROVE  /\ req[q][g].type = "RECV" /\ user[q][g] # "message"
         /\ NumPosted(q, g) = 1 /\ NumQueued(q, g) = 0
         /\ \A a \in Proc : UnderWay(q, a, g) = 0 /\ RecvWith(q, a, g)
         /\ req[q][g].ref = Num(user[q][g] # "none") + 1 /\ call[q] # g
<1>1. NumPosted(q, g) \in Nat /\ NumPosted(q, g) # 0
  BY QueueCounts
<1>2. HandleRefs(q, g)
  BY DEF HandlesOK
<1>3. req[q][g].type = "RECV"
  BY <1>1, <1>2 DEF HandleRefs, RecvRefs, RecvIdle
<1>4. /\ NumPosted(q, g) = 1 /\ NumQueued(q, g) = 0 /\ user[q][g] # "message"
      /\ \A p \in Proc : UnderWay(q, p, g) = 0
  BY <1>1, <1>2, <1>3 DEF HandleRefs, RecvRefs
<1>5. PICK p \in Proc : RecvWith(q, p, g)
  BY <1>2, <1>3 DEF HandleRefs, RecvRefs
<1>6. req[q][g].ref = Num(user[q][g] # "none") + 1
  <2>1. Num(user[q][g] # "none") \in Nat
    BY DEF Num
  <2> QED
    BY <1>4, <1>5, <2>1 DEF RecvWith
<1>7. \A a \in Proc : RecvWith(q, a, g)
  BY <1>4, <1>5 DEF RecvWith
<1>8. call[q] # g
  BY <1>2, <1>3 DEF HandleRefs, KeptInv, IsSend
<1> QED
  BY <1>3, <1>4, <1>6, <1>7, <1>8

(* What waits in the unexpected queue, or was taken from it by a probe. *)
LEMMA WaitingIsRecv ==
  ASSUME TypeOK, HandlesOK, NEW q \in Proc, NEW g \in Handle,
         NumQueued(q, g) # 0 \/ user[q][g] = "message"
  PROVE  /\ req[q][g].type = "RECV" /\ req[q][g].rank \in Proc
         /\ NumPosted(q, g) = 0 /\ call[q] # g
         /\ NumQueued(q, g) = IF user[q][g] = "message" THEN 0 ELSE 1
         /\ user[q][g] # "message" => user[q][g] = "none"
         /\ RecvWith(q, req[q][g].rank, g)
<1>1. NumPosted(q, g) \in Nat /\ NumQueued(q, g) \in Nat
  BY QueueCounts
<1>2. HandleRefs(q, g)
  BY DEF HandlesOK
<1>3. req[q][g].type = "RECV"
  BY <1>1, <1>2 DEF HandleRefs, RecvRefs, RecvIdle
<1>4. PICK p \in Proc : RecvWith(q, p, g)
  BY <1>2, <1>3 DEF HandleRefs, RecvRefs
<1>5. req[q][g].rank = p
  BY <1>1, <1>4 DEF RecvWith
<1>6. /\ NumPosted(q, g) = 0
      /\ NumQueued(q, g) > 0 => NumQueued(q, g) = 1 /\ user[q][g] = "none"
  BY <1>1, <1>2, <1>3 DEF HandleRefs, RecvRefs
<1>7. call[q] # g
  BY <1>2, <1>3 DEF HandleRefs, KeptInv, IsSend
<1> QED
  BY <1>1, <1>3, <1>4, <1>5, <1>6, <1>7

LEMMA ArrivalIsRecv ==
  ASSUME TypeOK, HandlesOK, NEW q \in Proc, NEW i \in 1 .. Len(unexpected[q]), NEW g \in Handle,
         g = unexpected[q][i].rreq
  PROVE  /\ req[q][g].type = "RECV" /\ req[q][g].rank \in Proc
         /\ user[q][g] = "none" /\ NumPosted(q, g) = 0 /\ NumQueued(q, g) = 1
         /\ RecvWith(q, req[q][g].rank, g) /\ call[q] # g
<1>1. NumQueued(q, g) # 0 /\ NumQueued(q, g) \in Nat
  BY QueueCounts
<1>2. user[q][g] # "message"
  BY <1>1, WaitingIsRecv
<1> QED
  BY <1>1, <1>2, WaitingIsRecv

(* A receive of the posted queue that leaves it loses what the queue held. *)
LEMMA UnpostedRefs ==
  ASSUME TypeOK, TypeOK', HandlesOK, NEW q \in Proc, NEW i \in 1 .. Len(posted[q]),
         NEW g \in Handle, g = posted[q][i].rreq, PostStep(q, g, None),
         NumQueued(q, g)' = NumQueued(q, g),
         \A a \in Proc : UnderWay(q, a, g)' = UnderWay(q, a, g),
         Dropped(req[q][g], req'[q][g]), user'[q][g] = user[q][g], call' = call,
         TokensSame(q, g)
  PROVE  HandleRefs(q, g)'
<1>1. /\ req[q][g].type = "RECV" /\ NumPosted(q, g) = 1 /\ NumQueued(q, g) = 0
      /\ \A a \in Proc : UnderWay(q, a, g) = 0 /\ RecvWith(q, a, g)
      /\ call[q] # g
  BY PostedIsRecv
<1>2. HandleRefs(q, g)
  BY DEF HandlesOK
<1>3. NumPosted(q, g)' = 0
  <2>1. NumPosted(q, g)' = NumPosted(q, g) - Num(q = q /\ g = g) + Num(q = q /\ None = g)
    BY DEF PostStep
  <2> QED
    BY <1>1, <2>1, NoneAssumption DEF Num
<1>4. SendRefs(q, g)'
  BY <1>1, <1>2, DroppedKind, RecvNoSend
<1>5. Num(user[q][g] # "none") \in Nat /\ Num(user'[q][g] # "none") = Num(user[q][g] # "none")
  BY DEF Num
<1>6. /\ Num(user'[q][g] # "none") + NumPosted(q, g)' + NumQueued(q, g)' + UnderWay(q, q, g)' + 1
               = Num(user[q][g] # "none") + NumPosted(q, g) + NumQueued(q, g) + UnderWay(q, q, g)
      /\ UnderWay(q, q, g)' <= UnderWay(q, q, g) /\ UnderWay(q, q, g)' \in Nat
      /\ NumPosted(q, g)' <= NumPosted(q, g) /\ NumQueued(q, g)' <= NumQueued(q, g)
  BY <1>1, <1>3, <1>5
<1>7. RecvRefs(q, g)' /\ KeptInv(q, g)'
  BY <1>1, <1>2, <1>6, RecvDropped DEF HandleRefs
<1> QED
  BY <1>4, <1>7 DEF HandleRefs

LEMMA UnpostedNoDebt ==
  ASSUME TypeOK, TypeOK', HandlesOK, NEW q \in Proc, NEW i \in 1 .. Len(posted[q]),
         NEW g \in Handle, g = posted[q][i].rreq,
         NumQueued(q, g)' = NumQueued(q, g), user'[q][g] = user[q][g]
  PROVE  SameDebts(q, g)
<1>1. NumQueued(q, g) = 0 /\ user[q][g] # "message"
  BY PostedIsRecv
<1>2. ~Owing(q, g) /\ ~Owing(q, g)'
  BY <1>1 DEF Owing
<1> QED
  BY <1>2, NoDebts

LEMMA CancelRecvRefs ==
  ASSUME TypeOK, TypeOK', HandlesOK, NEW p \in Proc, NEW i \in 1 .. Len(posted[p]),
         CancelRecv(p, i)
  PROVE  HandlesOK'
<1>0. /\ UNCHANGED <<user, unexpected, wire, sendq, reading, call>>
      /\ posted' = [posted EXCEPT ![p] = RemoveAt(@, i)]
  BY DEF CancelRecv, net
<1>1. PICK g \in Handle : g = posted[p][i].rreq
  BY CancelRecvReq
<1>2. Others(p, {g}) /\ Dropped(req[p][g], req'[p][g])
  BY <1>1, CancelRecvReq
<1>3. PostStep(p, g, None) /\ ArriveStep(p, None, None) /\ ReadingStep(p, p, None, None)
  BY <1>0, <1>1, PostedTake, ArrivedSame, ReadingSame
<1>4. NumQueued(p, g)' = NumQueued(p, g) /\ \A a \in Proc : UnderWay(p, a, g)' = UnderWay(p, a, g)
  BY <1>0, NetSame DEF NumQueued, UnderWay
<1>5. SameDebts(p, g)
  BY <1>0, <1>1, <1>4, UnpostedNoDebt
<1>6. \A a \in Proc, h \in Handle : a # p \/ h \notin {g} =>
            /\ Kept(a, h) /\ user'[a][h] = user[a][h] /\ CountsSame(a, h)
            /\ (call'[a] = h) <=> (call[a] = h)
  <2> SUFFICES ASSUME NEW a \in Proc, NEW h \in Handle, a # p \/ h # g
               PROVE  Kept(a, h) /\ CountsSame(a, h)
    BY <1>0
  <2>1. h # None
    BY NoneAssumption
  <2> QED
    BY <1>0, <1>2, <1>3, <2>1, CountsElsewhere, KeptWhenSame DEF Others
<1>7. /\ \A a \in Proc, h \in Handle : TokensSame(a, h)
      /\ \A a \in Proc, h \in Handle : a # p \/ h \notin {g} => HandleRefs(a, h)'
  BY <1>0, <1>5, <1>6, QuietOthers
<1>8. HandleRefs(p, g)'
  BY <1>0, <1>1, <1>2, <1>3, <1>4, <1>7, UnpostedRefs
<1> QED
  BY <1>7, <1>8 DEF HandlesOK

LEMMA IsendSelfFoundRefs ==
  ASSUME TypeOK, TypeOK', HandlesOK, NEW p \in Proc, NEW t \in Tag, NEW mode \in Mode,
         NEW size \in Size, NEW h \in Handle, NEW i \in 1 .. Len(posted[p]),
         IsendSelfFound(p, t, mode, size, h, i)
  PROVE  HandlesOK'
<1>0. /\ UNCHANGED <<unexpected, wire, sendq, reading, call>>
      /\ posted' = [posted EXCEPT ![p] = RemoveAt(@, i)]
      /\ user' = [user EXCEPT ![p][h] = "request"]
      /\ h \in FreeHandles(p)
      /\ call[p] = None
  BY DEF IsendSelfFound, net, MaySend, MayCall
<1>1. PICK g \in Handle : g = posted[p][i].rreq
  BY <1>0, PostedTake
<1>2. /\ req[p][g].type = "RECV" /\ req[p][h].type = "FREE"
      /\ g # h
  BY <1>0, <1>1, PostedIsRecv, FreeIsFree
<1>3. /\ Others(p, {h, g})
      /\ NewSend(p, h, p, t, mode, "SELF", req'[p][h]) /\ req'[p][h].ref = 1
      /\ Dropped(req[p][g], req'[p][g])
  BY <1>1, <1>2, IsendSelfFoundReq
<1>4. PostStep(p, g, None) /\ ArriveStep(p, None, None) /\ ReadingStep(p, p, None, None)
  BY <1>0, <1>1, PostedTake, ArrivedSame, ReadingSame
<1>5. NumQueued(p, g)' = NumQueued(p, g) /\ \A a \in Proc : UnderWay(p, a, g)' = UnderWay(p, a, g)
  BY <1>0, NetSame DEF NumQueued, UnderWay
<1>6. /\ user'[p][h] = "request" /\ user'[p][g] = user[p][g]
      /\ \A a \in Proc, f \in Handle : a # p \/ f # h => user'[a][f] = user[a][f]
  BY <1>0, <1>2, UserType
<1>7. IsSend(req'[p][h]) /\ req'[p][h].rank = p /\ req'[p][h].msgType = "SELF"
  BY <1>3, ModeAssumption DEF NewSend, IsSend
<1>8. SameDebts(p, g) /\ SameDebts(p, h)
  <2>1. SameDebts(p, g)
    BY <1>1, <1>5, <1>6, UnpostedNoDebt
  <2>2. ~Owing(p, h) /\ ~Owing(p, h)'
    BY <1>2, <1>7 DEF Owing, IsSend
  <2> QED
    BY <2>1, <2>2, NoDebts
<1>9. \A b \in Proc, f \in Handle : b # p \/ f # g => CountsSame(b, f)
  <2> SUFFICES ASSUME NEW b \in Proc, NEW f \in Handle, b # p \/ f # g PROVE CountsSame(b, f)
    OBVIOUS
  <2>1. f # None
    BY NoneAssumption
  <2> QED
    BY <1>0, <1>4, <2>1, CountsElsewhere
<1>10. /\ \A a \in Proc, f \in Handle : TokensSame(a, f)
       /\ \A a \in Proc, f \in Handle : a # p \/ f \notin {h, g} => HandleRefs(a, f)'
  <2>1. \A a \in Proc, f \in Handle : a # p \/ f \notin {h, g} =>
            /\ Kept(a, f) /\ user'[a][f] = user[a][f] /\ CountsSame(a, f)
            /\ (call'[a] = f) <=> (call[a] = f)
    BY <1>0, <1>3, <1>6, <1>9, KeptWhenSame DEF Others
  <2>2. \A x \in Handle : x \in {h, g} => SameDebts(p, x)
    BY <1>8
  <2>3. UNCHANGED <<wire, sendq>>
    BY <1>0
  <2> QED
    BY <2>1, <2>2, <2>3, QuietOthers
<1>11. HandleRefs(p, g)'
  BY <1>0, <1>1, <1>3, <1>4, <1>5, <1>6, <1>10, UnpostedRefs
<1>12. HandleRefs(p, h)'
  <2>1. HandleRefs(p, h) /\ call'[p] # h /\ CountsSame(p, h) /\ TokensSame(p, h)
    BY <1>0, <1>2, <1>9, <1>10, NoneAssumption DEF HandlesOK
  <2> QED
    BY <1>2, <1>3, <1>6, <1>7, <2>1, NewSelfSend
<1> QED
  BY <1>10, <1>11, <1>12 DEF HandlesOK

LEMMA RecvPostRefs ==
  ASSUME TypeOK, TypeOK', HandlesOK, NEW p \in Proc, NEW f \in Filters, NEW h \in Handle,
         RecvPost(p, f, h)
  PROVE  HandlesOK'
<1> DEFINE e == [rreq |-> h, rank |-> f.rank, tag |-> f.tag, id |-> Len(rcvd[p]) + 1]
<1>0. /\ UNCHANGED <<unexpected, wire, sendq, reading, call>>
      /\ posted' = [posted EXCEPT ![p] = Append(@, e)]
      /\ user' = [user EXCEPT ![p][h] = "request"]
      /\ call[p] = None
  BY DEF RecvPost, net, MayRecv, MayCall
<1>1. e \in Posting /\ e.rreq = h
  BY FilterAssumption DEF Posting, TypeOK
<1> HIDE DEF e
<1>2. /\ h \in FreeHandles(p) /\ Others(p, {h})
      /\ req'[p][h].type = "RECV" /\ req'[p][h].ref = 2
      /\ req'[p][h].msgType = "NONE" /\ ~req'[p][h].syncAck
  BY RecvPostReq DEF NewRecv
<1>3. req[p][h].type = "FREE" /\ HandleRefs(p, h)
  BY <1>2, FreeIsFree DEF HandlesOK
<1>4. PostStep(p, None, h) /\ ArriveStep(p, None, None) /\ ReadingStep(p, p, None, None)
  BY <1>0, <1>1, PostedAdd, ArrivedSame, ReadingSame
<1>5. NumQueued(p, h)' = NumQueued(p, h) /\ \A a \in Proc : UnderWay(p, a, h)' = UnderWay(p, a, h)
  BY <1>0, NetSame DEF NumQueued, UnderWay
<1>6. /\ user[p][h] = "none" /\ call[p] # h
      /\ NumPosted(p, h) = 0 /\ NumQueued(p, h) = 0
      /\ \A c \in Proc : UnderWay(p, c, h) = 0
  BY <1>3, FreeRefs
<1>7. /\ user'[p][h] = "request"
      /\ \A a \in Proc, g \in Handle : a # p \/ g # h => user'[a][g] = user[a][g]
  BY <1>0, UserType
<1>8. SameDebts(p, h)
  <2>1. ~Owing(p, h) /\ ~Owing(p, h)'
    BY <1>5, <1>6, <1>7 DEF Owing
  <2> QED
    BY <2>1, NoDebts
<1>9. /\ \A a \in Proc, g \in Handle : TokensSame(a, g)
      /\ \A a \in Proc, g \in Handle : a # p \/ g \notin {h} => HandleRefs(a, g)'
  <2>1. \A a \in Proc, g \in Handle : a # p \/ g \notin {h} =>
            /\ Kept(a, g) /\ user'[a][g] = user[a][g] /\ CountsSame(a, g)
            /\ (call'[a] = g) <=> (call[a] = g)
    <3> SUFFICES ASSUME NEW b \in Proc, NEW g \in Handle, b # p \/ g # h
                 PROVE  Kept(b, g) /\ CountsSame(b, g)
      BY <1>0, <1>7
    <3>1. g # None
      BY NoneAssumption
    <3> QED
      BY <1>0, <1>2, <1>4, <3>1, CountsElsewhere, KeptWhenSame DEF Others
  <2>2. \A x \in Handle : x \in {h} => SameDebts(p, x)
    BY <1>8
  <2>3. UNCHANGED <<wire, sendq>>
    BY <1>0
  <2> QED
    BY <2>1, <2>2, <2>3, QuietOthers
<1>10. HandleRefs(p, h)'
  <2>1. NumPosted(p, h)' = 1
    <3>1. NumPosted(p, h)' = NumPosted(p, h) - Num(p = p /\ None = h) + Num(p = p /\ h = h)
      BY <1>4 DEF PostStep
    <3> QED
      BY <1>6, <3>1, NoneAssumption DEF Num
  <2>2. SendRefs(p, h)'
    BY <1>2, <1>3, <1>9, SendNever DEF HandleRefs, IsSend
  <2>3. Num(user'[p][h] # "none") = 1
    BY <1>7 DEF Num
  <2>4. RecvWith(p, p, h)'
    BY <1>2, <1>5, <1>6, <1>7, <2>1, <2>3 DEF RecvWith
  <2>5. RecvRefs(p, h)'
    BY <1>2, <1>5, <1>6, <1>7, <2>1, <2>4 DEF RecvRefs
  <2>6. KeptInv(p, h)'
    BY <1>0, <1>2, <1>6 DEF KeptInv, IsSend
  <2> QED
    BY <2>2, <2>5, <2>6 DEF HandleRefs
<1> QED
  BY <1>9, <1>10 DEF HandlesOK

(* A message that is taken back loses what the queue held of its request. *)
LEMMA DequeuedRefs ==
  ASSUME TypeOK, TypeOK', HandlesOK, NEW q \in Proc, NEW i \in 1 .. Len(unexpected[q]),
         NEW g \in Handle, g = unexpected[q][i].rreq, ArriveStep(q, g, None),
         NumPosted(q, g)' = NumPosted(q, g),
         \A a \in Proc : UnderWay(q, a, g)' = UnderWay(q, a, g),
         Dropped(req[q][g], req'[q][g]), user'[q][g] = user[q][g], call' = call,
         TokensSame(q, g)
  PROVE  HandleRefs(q, g)' /\ NumQueued(q, g)' = 0
<1>1. /\ req[q][g].type = "RECV" /\ NumPosted(q, g) = 0 /\ NumQueued(q, g) = 1
      /\ user[q][g] = "none" /\ call[q] # g
  BY ArrivalIsRecv
<1>2. HandleRefs(q, g)
  BY DEF HandlesOK
<1>3. NumQueued(q, g)' = 0
  <2>1. NumQueued(q, g)' = NumQueued(q, g) - Num(q = q /\ g = g) + Num(q = q /\ None = g)
    BY DEF ArriveStep
  <2> QED
    BY <1>1, <2>1, NoneAssumption DEF Num
<1>4. SendRefs(q, g)'
  BY <1>1, <1>2, DroppedKind, RecvNoSend
<1>5. Num(user[q][g] # "none") \in Nat /\ Num(user'[q][g] # "none") = Num(user[q][g] # "none")
  BY DEF Num
<1>6. PICK b \in Proc : b = req[q][g].rank
  BY ArrivalIsRecv
<1>7. RecvWith(q, b, g) /\ UnderWay(q, b, g) \in Nat
  BY <1>6, ArrivalIsRecv, UnderWayNat
<1>8. /\ Num(user'[q][g] # "none") + NumPosted(q, g)' + NumQueued(q, g)' + UnderWay(q, b, g)' + 1
               = Num(user[q][g] # "none") + NumPosted(q, g) + NumQueued(q, g) + UnderWay(q, b, g)
      /\ UnderWay(q, b, g)' <= UnderWay(q, b, g) /\ UnderWay(q, b, g)' \in Nat
      /\ NumPosted(q, g)' <= NumPosted(q, g) /\ NumQueued(q, g)' <= NumQueued(q, g)
  BY <1>1, <1>3, <1>5, <1>7
<1>9. RecvRefs(q, g)' /\ KeptInv(q, g)'
  BY <1>1, <1>2, <1>7, <1>8, RecvDropped DEF HandleRefs
<1> QED
  BY <1>3, <1>4, <1>9 DEF HandleRefs

LEMMA CancelSelfFoundRefs ==
  ASSUME TypeOK, TypeOK', HandlesOK, SelfInv, NEW p \in Proc, NEW h \in Handle,
         NEW i \in 1 .. Len(unexpected[p]), CancelSelfFound(p, h, i),
         SaysWho(p, unexpected[p][i])
  PROVE  HandlesOK'
<1>0. /\ UNCHANGED <<user, posted, wire, sendq, reading, call>>
      /\ unexpected' = [unexpected EXCEPT ![p] = RemoveAt(@, i)]
      /\ IsSend(req[p][h]) /\ req[p][h].msgType = "SELF"
      /\ unexpected[p][i].rank = req[p][h].rank
  BY DEF CancelSelfFound, net, MayCancelSend, FirstById, IsMessage
<1>1. PICK g \in Handle : g = unexpected[p][i].rreq
  BY CancelSelfFoundReq
<1>2. /\ req[p][g].type = "RECV" /\ g # h /\ NumPosted(p, g) = 0 /\ NumQueued(p, g) = 1
      /\ RecvWith(p, req[p][g].rank, g)
  BY <1>0, <1>1, ArrivalIsRecv DEF IsSend
<1>3. /\ Others(p, {h, g}) /\ Asked(req[p][h], req'[p][h])
      /\ Dropped(req[p][g], req'[p][g])
  BY <1>1, <1>2, CancelSelfFoundReq
<1>4. ArriveStep(p, g, None) /\ PostStep(p, None, None) /\ ReadingStep(p, p, None, None)
  BY <1>0, <1>1, ArrivedTake, PostedSame, ReadingSame
<1>5. NumPosted(p, g)' = NumPosted(p, g) /\ \A a \in Proc : UnderWay(p, a, g)' = UnderWay(p, a, g)
  BY <1>0, NetSame DEF NumPosted, UnderWay
<1>6. ~Owes(req[p][g])
  <2>1. req[p][g].rank = p
    BY <1>0, <1>1 DEF SaysWho, SelfInv
  <2> QED
    BY <1>2, <2>1 DEF RecvWith
<1>7. /\ IsSend(req'[p][h]) /\ req'[p][h].ref = req[p][h].ref
      /\ req'[p][h].type = req[p][h].type /\ req'[p][h].rank = req[p][h].rank
      /\ req'[p][h].msgType = req[p][h].msgType
  BY <1>0, <1>3 DEF Asked, Core, IsSend
<1>8. SameDebts(p, g) /\ SameDebts(p, h)
  <2>1. ~Owing(p, h) /\ ~Owing(p, h)'
    BY <1>0, <1>7 DEF Owing, IsSend
  <2>2. ~Owing(p, g) /\ ~Owing(p, g)'
    BY <1>3, <1>6 DEF Owing, Dropped, Returned, FreeRequest, Same, Core, Owes
  <2> QED
    BY <2>1, <2>2, NoDebts
<1>9. \A b \in Proc, f \in Handle : b # p \/ f # g => CountsSame(b, f)
  <2> SUFFICES ASSUME NEW b \in Proc, NEW f \in Handle, b # p \/ f # g PROVE CountsSame(b, f)
    OBVIOUS
  <2>1. f # None
    BY NoneAssumption
  <2> QED
    BY <1>0, <1>4, <2>1, CountsElsewhere
<1>10. /\ \A a \in Proc, f \in Handle : TokensSame(a, f)
       /\ \A a \in Proc, f \in Handle : a # p \/ f \notin {h, g} => HandleRefs(a, f)'
  <2>1. \A a \in Proc, f \in Handle : a # p \/ f \notin {h, g} =>
            /\ Kept(a, f) /\ user'[a][f] = user[a][f] /\ CountsSame(a, f)
            /\ (call'[a] = f) <=> (call[a] = f)
    BY <1>0, <1>3, <1>9, KeptWhenSame DEF Others
  <2>2. \A x \in Handle : x \in {h, g} => SameDebts(p, x)
    BY <1>8
  <2>3. UNCHANGED <<wire, sendq>>
    BY <1>0
  <2> QED
    BY <2>1, <2>2, <2>3, QuietOthers
<1>11. HandleRefs(p, g)'
  BY <1>0, <1>1, <1>3, <1>4, <1>5, <1>10, DequeuedRefs
<1>12. HandleRefs(p, h)'
  <2>1. HandleRefs(p, h)
    BY DEF HandlesOK
  <2>2. SendRefs(p, h)'
    BY <1>0, <1>7, <1>10, <2>1, SendAsItWas DEF HandleRefs
  <2>3. RecvRefs(p, h)'
    <3>1. /\ req[p][h].type # "RECV" /\ req'[p][h].type # "RECV" /\ CountsSame(p, h)
          /\ user'[p][h] # "message"
      BY <1>0, <1>2, <1>7, <1>9 DEF IsSend, MayCancelSend, CancelSelfFound
    <3> QED
      BY <2>1, <3>1, RecvNever DEF HandleRefs
  <2>4. KeptInv(p, h)'
    BY <1>0, <1>7, <2>1 DEF HandleRefs, KeptInv, IsSend
  <2> QED
    BY <2>2, <2>3, <2>4 DEF HandleRefs
<1> QED
  BY <1>10, <1>11, <1>12 DEF HandlesOK

LEMMA ImprobeRefs ==
  ASSUME TypeOK, TypeOK', HandlesOK, NEW p \in Proc, NEW f \in Filters,
         NEW i \in 1 .. Len(unexpected[p]), Improbe(p, f, i)
  PROVE  HandlesOK'
<1>1. PICK c \in Handle : c = unexpected[p][i].rreq
  BY ImprobeReq
<1>0. /\ UNCHANGED <<posted, wire, sendq, reading, call>>
      /\ unexpected' = [unexpected EXCEPT ![p] = RemoveAt(@, i)]
      /\ user'[p][c] = "message"
      /\ \A a \in Proc, g \in Handle : a # p \/ g # c => user'[a][g] = user[a][g]
  <2>1. /\ UNCHANGED <<posted, wire, sendq, reading, call>>
        /\ unexpected' = [unexpected EXCEPT ![p] = RemoveAt(@, i)]
        /\ user' = [user EXCEPT ![p][c] = "message"]
    BY <1>1 DEF Improbe, net, DequeueFor
  <2> QED
    BY <2>1, UserType
<1>2. /\ req[p][c].type = "RECV" /\ NumPosted(p, c) = 0 /\ NumQueued(p, c) = 1
      /\ user[p][c] = "none" /\ call[p] # c
      /\ HandleRefs(p, c)
  BY <1>1, ArrivalIsRecv DEF HandlesOK
<1>3. /\ Others(p, {c}) /\ Core(req[p][c], req'[p][c]) /\ req'[p][c].ref = req[p][c].ref
  BY <1>1, ImprobeReq
<1>4. ArriveStep(p, c, None) /\ PostStep(p, None, None) /\ ReadingStep(p, p, None, None)
  BY <1>0, <1>1, ArrivedTake, PostedSame, ReadingSame
<1>5. NumPosted(p, c)' = NumPosted(p, c) /\ \A a \in Proc : UnderWay(p, a, c)' = UnderWay(p, a, c)
  BY <1>0, NetSame DEF NumPosted, UnderWay
<1>6. NumQueued(p, c)' = 0
  <2>1. NumQueued(p, c)' = NumQueued(p, c) - Num(p = p /\ c = c) + Num(p = p /\ None = c)
    BY <1>4 DEF ArriveStep
  <2> QED
    BY <1>2, <2>1, NoneAssumption DEF Num
<1>7. /\ req'[p][c].type = "RECV" /\ req'[p][c].rank = req[p][c].rank
      /\ req'[p][c].senderReq = req[p][c].senderReq /\ req'[p][c].msgType = req[p][c].msgType
      /\ Owes(req'[p][c]) <=> Owes(req[p][c])
  BY <1>2, <1>3 DEF Core, Owes
<1>8. SameDebts(p, c)
  <2> SUFFICES ASSUME NEW a \in Proc, NEW h \in Handle
               PROVE  OwesAnswer(p, c, a, h)' <=> OwesAnswer(p, c, a, h)
    BY DEF SameDebts
  <2>1. /\ OwesAnswer(p, c, a, h) <=>
             /\ req[p][c].type = "RECV" /\ req[p][c].rank = a
             /\ req[p][c].senderReq = h /\ Owes(req[p][c])
             /\ user[p][c] = "message" \/ NumQueued(p, c) > 0
        /\ OwesAnswer(p, c, a, h)' <=>
             /\ req'[p][c].type = "RECV" /\ req'[p][c].rank = a
             /\ req'[p][c].senderReq = h /\ Owes(req'[p][c])
             /\ user'[p][c] = "message" \/ NumQueued(p, c)' > 0
    BY OwesForm, OwesFormNext
  <2>2. NumQueued(p, c) > 0 /\ user'[p][c] = "message"
    BY <1>0, <1>2
  <2> QED
    BY <1>2, <1>7, <2>1, <2>2
<1>9. /\ \A a \in Proc, g \in Handle : TokensSame(a, g)
      /\ \A a \in Proc, g \in Handle : a # p \/ g \notin {c} => HandleRefs(a, g)'
  <2>1. \A a \in Proc, g \in Handle : a # p \/ g \notin {c} =>
            /\ Kept(a, g) /\ user'[a][g] = user[a][g] /\ CountsSame(a, g)
            /\ (call'[a] = g) <=> (call[a] = g)
    <3> SUFFICES ASSUME NEW b \in Proc, NEW g \in Handle, b # p \/ g # c
                 PROVE  Kept(b, g) /\ CountsSame(b, g)
      BY <1>0
    <3>1. g # None
      BY NoneAssumption
    <3> QED
      BY <1>0, <1>3, <1>4, <3>1, CountsElsewhere, KeptWhenSame DEF Others
  <2>2. \A x \in Handle : x \in {c} => SameDebts(p, x)
    BY <1>8
  <2>3. UNCHANGED <<wire, sendq>>
    BY <1>0
  <2> QED
    BY <2>1, <2>2, <2>3, QuietOthers
<1>10. HandleRefs(p, c)'
  <2>1. SendRefs(p, c)'
    BY <1>2, <1>7, <1>9, RecvNoSend
  <2>2. PICK b \in Proc : b = req[p][c].rank
    BY <1>1, ArrivalIsRecv
  <2>3. RecvWith(p, b, c) /\ UnderWay(p, b, c) \in Nat
    BY <1>1, <2>2, ArrivalIsRecv, UnderWayNat
  <2>4. Num(user'[p][c] # "none") = 1 /\ Num(user[p][c] # "none") = 0
    BY <1>0, <1>2 DEF Num
  <2>5. /\ \A a \in Proc : a # b => UnderWay(p, a, c) = 0
        /\ Owes(req[p][c]) =>
             req[p][c].senderReq \in Handle /\ b # p /\ req[p][c].msgType # "SELF"
        /\ req[p][c].ref = 1 + UnderWay(p, b, c)
    BY <1>2, <2>3, <2>4 DEF RecvWith
  <2>6. req'[p][c].ref = Num(user'[p][c] # "none") + NumPosted(p, c)' + NumQueued(p, c)'
                           + UnderWay(p, b, c)'
    BY <1>2, <1>3, <1>5, <1>6, <2>3, <2>4, <2>5
  <2>7. RecvWith(p, b, c)'
    BY <1>5, <1>7, <2>2, <2>5, <2>6 DEF RecvWith
  <2>8. req'[p][c].ref > 0
    BY <1>3, <2>3, <2>5
  <2>9. RecvRefs(p, c)'
    BY <1>2, <1>5, <1>6, <1>7, <2>7, <2>8 DEF RecvRefs
  <2>10. KeptInv(p, c)'
    BY <1>0, <1>2, <1>7 DEF KeptInv, IsSend
  <2> QED
    BY <2>1, <2>9, <2>10 DEF HandleRefs
<1> QED
  BY <1>9, <1>10 DEF HandlesOK

LEMMA IsendSelfUnexpectedRefs ==
  ASSUME TypeOK, TypeOK', HandlesOK, NEW p \in Proc, NEW t \in Tag, NEW mode \in Mode,
         NEW size \in Size, NEW h \in Handle, NEW g \in Handle,
         IsendSelfUnexpected(p, t, mode, size, h, g)
  PROVE  HandlesOK'
<1> DEFINE e == [rreq |-> g, rank |-> p, tag |-> t,
                 sreq |-> IF mode = "RSEND" THEN None ELSE h,
                 id |-> NewSreq(p, h, p, t, mode, size).id]
<1>0. /\ UNCHANGED <<posted, wire, sendq, reading, call>>
      /\ user' = [user EXCEPT ![p][h] = "request"]
      /\ call[p] = None
  BY DEF IsendSelfUnexpected, net, MaySend, MayCall
<1>1. ArriveStep(p, None, g)
  <2>1. unexpected' = [unexpected EXCEPT ![p] = Append(@, e)]
    BY DEF IsendSelfUnexpected, NewSreq
  <2>2. NewSreq(p, h, p, t, mode, size).id \in Nat
    BY NewSreqShape DEF TypeOK
  <2>3. e \in Arrival /\ e.rreq = g
    BY <2>2 DEF Arrival
  <2> HIDE DEF e
  <2> QED
    BY <2>1, <2>3, ArrivedAdd
<1>2. /\ h # g /\ {h, g} \subseteq FreeHandles(p) /\ Others(p, {h, g})
      /\ NewSend(p, h, p, t, mode, "SELF", req'[p][h]) /\ req'[p][h].ref = 1
      /\ req'[p][g].type = "RECV" /\ req'[p][g].ref = 1
      /\ req'[p][g].msgType = "SELF" /\ req'[p][g].rank = p /\ ~req'[p][g].syncAck
  BY IsendSelfUnexpectedReq DEF NewRecv
<1>3. /\ req[p][g].type = "FREE" /\ req[p][h].type = "FREE"
      /\ HandleRefs(p, g) /\ HandleRefs(p, h)
  BY <1>2, FreeIsFree DEF HandlesOK
<1>4. PostStep(p, None, None) /\ ReadingStep(p, p, None, None)
  BY <1>0, PostedSame, ReadingSame
<1>5. NumPosted(p, g)' = NumPosted(p, g) /\ \A a \in Proc : UnderWay(p, a, g)' = UnderWay(p, a, g)
  BY <1>0, NetSame DEF NumPosted, UnderWay
<1>6. /\ user[p][g] = "none" /\ call[p] # g
      /\ NumPosted(p, g) = 0 /\ NumQueued(p, g) = 0
      /\ \A c \in Proc : UnderWay(p, c, g) = 0
  BY <1>3, FreeRefs
<1>7. /\ user'[p][h] = "request" /\ user'[p][g] = "none"
      /\ \A a \in Proc, f \in Handle : a # p \/ f # h => user'[a][f] = user[a][f]
  BY <1>0, <1>2, <1>6, UserType
<1>8. /\ IsSend(req'[p][h]) /\ req'[p][h].rank = p /\ ~Owes(req'[p][g])
      /\ req'[p][h].msgType = "SELF"
  BY <1>2, ModeAssumption DEF NewSend, IsSend, Owes
<1>9. SameDebts(p, g) /\ SameDebts(p, h)
  <2>1. ~Owing(p, h) /\ ~Owing(p, h)'
    BY <1>3, <1>8 DEF Owing, IsSend
  <2>2. ~Owing(p, g) /\ ~Owing(p, g)'
    BY <1>3, <1>8 DEF Owing, Owes
  <2> QED
    BY <2>1, <2>2, NoDebts
<1>10. \A b \in Proc, f \in Handle : b # p \/ f # g => CountsSame(b, f)
  <2> SUFFICES ASSUME NEW b \in Proc, NEW f \in Handle, b # p \/ f # g PROVE CountsSame(b, f)
    OBVIOUS
  <2>1. f # None
    BY NoneAssumption
  <2> QED
    BY <1>0, <1>1, <1>4, <2>1, CountsElsewhere
<1>11. /\ \A a \in Proc, f \in Handle : TokensSame(a, f)
       /\ \A a \in Proc, f \in Handle : a # p \/ f \notin {h, g} => HandleRefs(a, f)'
  <2>1. \A a \in Proc, f \in Handle : a # p \/ f \notin {h, g} =>
            /\ Kept(a, f) /\ user'[a][f] = user[a][f] /\ CountsSame(a, f)
            /\ (call'[a] = f) <=> (call[a] = f)
    BY <1>0, <1>2, <1>7, <1>10, KeptWhenSame DEF Others
  <2>2. \A x \in Handle : x \in {h, g} => SameDebts(p, x)
    BY <1>9
  <2>3. UNCHANGED <<wire, sendq>>
    BY <1>0
  <2> QED
    BY <2>1, <2>2, <2>3, QuietOthers
<1>12. HandleRefs(p, h)'
  <2>1. call'[p] # h /\ CountsSame(p, h) /\ TokensSame(p, h)
    BY <1>0, <1>2, <1>10, <1>11, NoneAssumption
  <2> QED
    BY <1>2, <1>3, <1>7, <1>8, <2>1, NewSelfSend
<1>13. HandleRefs(p, g)'
  <2>1. NumQueued(p, g)' = 1
    <3>1. NumQueued(p, g)' = NumQueued(p, g) - Num(p = p /\ None = g) + Num(p = p /\ g = g)
      BY <1>1 DEF ArriveStep
    <3> QED
      BY <1>6, <3>1, NoneAssumption DEF Num
  <2>2. SendRefs(p, g)'
    BY <1>2, <1>3, <1>11, SendNever DEF HandleRefs, IsSend
  <2>3. Num(user'[p][g] # "none") = 0
    BY <1>7 DEF Num
  <2>4. RecvWith(p, p, g)'
    BY <1>2, <1>5, <1>6, <1>8, <2>1, <2>3 DEF RecvWith, Owes
  <2>5. RecvRefs(p, g)'
    BY <1>2, <1>5, <1>6, <1>7, <2>1, <2>4 DEF RecvRefs
  <2>6. KeptInv(p, g)'
    BY <1>0, <1>2, <1>6 DEF KeptInv, IsSend
  <2> QED
    BY <2>2, <2>5, <2>6 DEF HandleRefs
<1> QED
  BY <1>11, <1>12, <1>13 DEF HandlesOK

(* What a step of q and its connection with p leaves of the tokens of a    *)
(* send, and of what a receive depends on. *)
LEMMA FlowTokens ==
  ASSUME TypeOK, HandlesOK, NEW q \in Proc, NEW p \in Proc, p # q, NEW k, NEW m, NEW x,
         NetStep(q, p, k, m), QueueStep(q, p, x, m),
         NEW g \in Handle, DebtStep(q, g),
         NEW a \in Proc, NEW h \in Handle,
         a = q => \A w \in BOOLEAN :
           Carries(m, h) + Questioning(m, h) = Carries(x, h) + Answering(k, h, w),
         a = p => \A w \in BOOLEAN :
           Answering(m, h, w) + Num(OwesAnswer(q, g, a, h)') =
             Questioning(k, h) + Num(OwesAnswer(q, g, a, h)),
         a # p => (OwesAnswer(q, g, a, h)' <=> OwesAnswer(q, g, a, h))
  PROVE  TokensSame(a, h)
<1> SUFFICES ASSUME NEW c \in Proc, NEW w \in BOOLEAN
             PROVE  IsFiniteSet(Debtors(a, c, h)') /\ TokensAs(a, c, h, w)' = TokensAs(a, c, h, w)
  BY DEF TokensSame
<1> DEFINE o == Num(OwesAnswer(q, g, a, h))
           op == Num(OwesAnswer(q, g, a, h)')
           T == TokensAs(a, c, h, w)
<1>1. IsFiniteSet(Debtors(a, c, h))
  BY FiniteDebts
<1>2. T \in Nat
  BY <1>1, TokensType
<1>3. o \in {0, 1} /\ op \in {0, 1}
  BY DEF Num
<1>4. /\ Carries(m, h) \in {0, 1} /\ Questioning(m, h) \in {0, 1} /\ Carries(x, h) \in {0, 1}
      /\ Answering(k, h, w) \in {0, 1, 2} /\ Answering(m, h, w) \in {0, 1, 2}
      /\ Questioning(k, h) \in {0, 1}
  BY WeightTypes
<1>5. /\ IsFiniteSet(Debtors(a, c, h)')
      /\ a = q /\ c = p =>
           T' = T + Carries(m, h) + Questioning(m, h) - Carries(x, h) - Answering(k, h, w)
      /\ a = p /\ c = q => T' = T + Answering(m, h, w) - Questioning(k, h) - o + op
      /\ ~(a = q /\ c = p) /\ ~(a = p /\ c = q) /\ c # q => T' = T
      /\ ~(a = q /\ c = p) /\ ~(a = p /\ c = q) /\ c = q => T' = T - o + op
  BY <1>1, TokensStep
<1>6. a # p => o = op
  BY DEF Num
<1>7. /\ a = q => Carries(m, h) + Questioning(m, h) = Carries(x, h) + Answering(k, h, w)
      /\ a = p => Answering(m, h, w) + op = Questioning(k, h) + o
  OBVIOUS
<1> HIDE DEF o, op, T
<1>8. CASE a = q /\ c = p
  <2>1. T' = T + Carries(m, h) + Questioning(m, h) - Carries(x, h) - Answering(k, h, w)
    BY <1>5, <1>8
  <2> QED
    BY <1>2, <1>4, <1>5, <1>7, <1>8, <2>1 DEF T
<1>9. CASE a = p /\ c = q
  <2>1. T' = T + Answering(m, h, w) - Questioning(k, h) - o + op
    BY <1>5, <1>9
  <2> QED
    BY <1>2, <1>3, <1>4, <1>5, <1>7, <1>9, <2>1 DEF T
<1>10. CASE ~(a = q /\ c = p) /\ ~(a = p /\ c = q)
  <2>1. T' = T
    BY <1>2, <1>3, <1>5, <1>6, <1>10
  <2> QED
    BY <1>5, <2>1 DEF T
<1> QED
  BY <1>8, <1>9, <1>10

LEMMA FlowCountsSame ==
  ASSUME TypeOK, NEW q \in Proc, NEW p \in Proc, p # q, NEW k, NEW m,
         NetStep(q, p, k, m),
         NEW x, NEW y, PostStep(q, x, y), NEW n, NEW l, ArriveStep(q, n, l),
         NEW u, NEW v, ReadingStep(q, p, u, v),
         NEW b \in Proc, NEW f \in Handle,
         b = q => f \notin {x, y, n, l},
         b = q => Num(m \in Cleared(f)) + Num(v = f) = Num(k \in Coming(f)) + Num(u = f),
         b = p => Num(m \in Coming(f)) = Num(k \in Cleared(f))
  PROVE  CountsSame(b, f)
<1>1. NumPosted(b, f) \in Nat /\ NumQueued(b, f) \in Nat
  BY QueueCounts
<1>2. NumPosted(b, f)' = NumPosted(b, f)
  BY <1>1 DEF PostStep, Num
<1>3. NumQueued(b, f)' = NumQueued(b, f)
  BY <1>1 DEF ArriveStep, Num
<1>4. ASSUME NEW a \in Proc PROVE UnderWay(b, a, f)' = UnderWay(b, a, f)
  <2>1. UnderWay(b, a, f) \in Nat
    BY UnderWayNat
  <2>2. /\ Num(m \in Cleared(f)) \in {0, 1} /\ Num(k \in Coming(f)) \in {0, 1}
        /\ Num(m \in Coming(f)) \in {0, 1} /\ Num(k \in Cleared(f)) \in {0, 1}
        /\ Num(u = f) \in {0, 1} /\ Num(v = f) \in {0, 1}
    BY DEF Num
  <2>3. CASE b = q /\ a = p
    <3>1. UnderWay(b, a, f)' = UnderWay(b, a, f) + Num(m \in Cleared(f))
                - Num(k \in Coming(f)) - Num(u = f) + Num(v = f)
      BY <2>3, UnderWayStep
    <3> QED
      BY <2>1, <2>2, <2>3, <3>1
  <2>4. CASE b = p /\ a = q
    <3>1. UnderWay(b, a, f)' = UnderWay(b, a, f) + Num(m \in Coming(f)) - Num(k \in Cleared(f))
      BY <2>4, UnderWayStep
    <3> QED
      BY <2>1, <2>2, <2>4, <3>1
  <2>5. CASE ~(b = q /\ a = p) /\ ~(b = p /\ a = q)
    BY <2>5, UnderWayStep
  <2> QED
    BY <2>3, <2>4, <2>5
<1> QED
  BY <1>2, <1>3, <1>4 DEF CountsSame

LEMMA OthersDebts ==
  ASSUME TypeOK, TypeOK', NEW q \in Proc, NEW g \in Handle,
         \A b \in Proc, f \in Handle : b # q \/ f # g => LeftAlone(b, f) \/ NoRecv(b, f)
  PROVE  DebtStep(q, g)
BY DebtsAlone DEF DebtStep, SameDebts

NoLoops == \A p \in Proc : wire[p][p] = <<>> /\ sendq[p][p] = <<>>

LEMMA NotSelf ==
  ASSUME NoLoops, NEW q \in Proc, NEW p \in Proc, wire[p][q] # <<>> \/ sendq[q][p] # <<>>
  PROVE  p # q
BY DEF NoLoops

-----------------------------------------------------------------------------
LEMMA WriteRefs ==
  ASSUME TypeOK, TypeOK', HandlesOK, NoLoops, ~MultiThreaded,
         NEW q \in Proc, NEW p \in Proc, Write(q, p),
         \A k \in Range(Flow(q, p)) : k.type \in Answers \cup {"RNDV_SEND"} => k.sreq \in Handle
  PROVE  HandlesOK'
<1>0. /\ UNCHANGED <<user, posted, unexpected, reading, call>>
      /\ sendq[q][p] # <<>> /\ call[q] = None
  BY DEF Write, queues, MayProgress
<1>1. p # q
  BY <1>0, NotSelf
<1>2. PICK x \in Packet : x = Head(sendq[q][p])
  BY StepWrite
<1>3. NetStep(q, p, Nil, Nil) /\ QueueStep(q, p, x, Nil) /\ x \in Range(Flow(q, p))
  BY <1>2, StepWrite
<1>4. PostStep(q, None, None) /\ ArriveStep(q, None, None) /\ ReadingStep(q, p, None, None)
  BY <1>0, PostedSame, ArrivedSame, ReadingSame
<1>5. \A b \in Proc, f \in Handle : CountsSame(b, f)
  <2> SUFFICES ASSUME NEW b \in Proc, NEW f \in Handle PROVE CountsSame(b, f)
    OBVIOUS
  <2>1. f # None
    BY NoneAssumption
  <2>2. Num(Nil \in Cleared(f)) = 0 /\ Num(Nil \in Coming(f)) = 0 /\ Num(None = f) = 0
    BY <2>1, NilWeights DEF Num
  <2> QED
    BY <1>1, <1>3, <1>4, <2>1, <2>2, FlowCountsSame
<1>6. CASE ~CarriesRequest(x)
  <2>1. \A a \in Proc, h \in Handle : Kept(a, h)
    BY <1>2, <1>6, WriteReq, KeptWhenSame
  <2>2. \A a \in Proc, h \in Handle : SameDebts(a, h)
    BY <1>0, <1>5, <2>1, DebtsAlone DEF LeftAlone, CountsSame
  <2> SUFFICES ASSUME NEW a \in Proc, NEW h \in Handle PROVE HandleRefs(a, h)'
    BY DEF HandlesOK
  <2>3. TokensSame(a, h)
    <3>1. Carries(x, h) = 0
      BY <1>6, PacketWeights DEF CarriesRequest, Carriers, Num
    <3>2. /\ Carries(Nil, h) = 0 /\ Questioning(Nil, h) = 0
          /\ \A w : Answering(Nil, h, w) = 0
      BY NilWeights
    <3>3. OwesAnswer(q, h, a, h)' <=> OwesAnswer(q, h, a, h)
      BY <2>2 DEF SameDebts
    <3>4. DebtStep(q, h)
      BY <2>2 DEF SameDebts, DebtStep
    <3>5. Num(OwesAnswer(q, h, a, h)') = Num(OwesAnswer(q, h, a, h))
      BY <3>3 DEF Num
    <3>6. \A w \in BOOLEAN :
            /\ Carries(Nil, h) + Questioning(Nil, h) = Carries(x, h) + Answering(Nil, h, w)
            /\ Answering(Nil, h, w) + Num(OwesAnswer(q, h, a, h)') =
                 Questioning(Nil, h) + Num(OwesAnswer(q, h, a, h))
      BY <3>1, <3>2, <3>5
    <3> QED
      BY <1>1, <1>3, <3>3, <3>4, <3>6, FlowTokens
  <2> QED
    BY <1>0, <1>5, <2>1, <2>3, AloneKept DEF HandlesOK
<1>7. CASE CarriesRequest(x)
  <2>1. PICK c \in Handle : c = x.sreq
    BY <1>3, <1>7, PacketFields DEF CarriesRequest, Packet, EagerTypes
  <2>2. Others(q, {c}) /\ Dropped(req[q][c], req'[q][c])
    BY <1>2, <1>7, <2>1, WriteReq
  <2>3. ASSUME NEW h \in Handle, NEW b \in Proc, NEW w \in BOOLEAN
        PROVE  TokensAs(q, p, h, w) \in Nat
    BY FiniteDebts, TokensType
  <2>4. HandleRefs(q, c)
    BY DEF HandlesOK
  <2>5. NumIn(sendq[q][p], OfType(Carriers, c)) > 0
    <3>1. sendq[q][p] \in Seq(Packet)
      BY FlowType
    <3>2. x = sendq[q][p][1] /\ 1 \in 1 .. Len(sendq[q][p])
      BY <1>0, <1>2, <3>1
    <3>3. x \in OfType(Carriers, c)
      BY <1>7, <2>1 DEF OfType, CarriesRequest, Carriers
    <3>4. /\ NumIn(sendq[q][p], OfType(Carriers, c)) \in Nat
          /\ NumIn(sendq[q][p], OfType(Carriers, c)) # 0
      BY <3>1, <3>2, <3>3, CountType
    <3> QED
      BY <3>4
  <2>6. IsSend(req[q][c]) /\ req[q][c].rank = p
    <3>1. PICK w \in BOOLEAN : w = Awaits(req[q][c])
      BY DEF Awaits
    <3>2. TokensAs(q, p, c, w) > 0
      <4>1. /\ NumIn(Flow(q, p), OfType(Questions, c)) \in Nat
            /\ NumIn(Flow(p, q), OfType(Answers, c)) \in Nat
            /\ NumIn(Flow(p, q), AcksOf(c)) \in Nat
            /\ NumIn(sendq[q][p], OfType(Carriers, c)) \in Nat
            /\ Cardinality(Debtors(q, p, c)) \in Nat
        BY FlowCounts, FiniteDebts, FS_CardinalityType
      <4> QED
        BY <2>5, <4>1 DEF TokensAs
    <3> QED
      BY <2>4, <3>1, <3>2, SendRefsForm DEF HandleRefs
  <2>7. NoRecv(q, c)
    <3>1. req'[q][c].type \in {req[q][c].type, "FREE"}
      BY <2>2, DroppedKind
    <3> QED
      BY <2>6, <3>1 DEF NoRecv, IsSend
  <2>8. \A a \in Proc, h \in Handle : a # q \/ h # c => Kept(a, h)
    BY <2>2, KeptWhenSame DEF Others
  <2>9. \A a \in Proc, h \in Handle : SameDebts(a, h)
    BY <1>0, <1>5, <2>7, <2>8, DebtsAlone DEF LeftAlone, CountsSame
  <2>10. /\ \A a \in Proc, h \in Handle : OwesAnswer(q, c, a, h)' <=> OwesAnswer(q, c, a, h)
         /\ DebtStep(q, c)
    BY <2>9 DEF SameDebts, DebtStep
  <2>11. ASSUME NEW a \in Proc, NEW h \in Handle, a # q \/ h # c PROVE TokensSame(a, h)
    <3>1. a = q => Carries(x, h) = 0
      BY <2>1, <2>11, PacketWeights DEF Num
    <3>2. /\ Carries(Nil, h) = 0 /\ Questioning(Nil, h) = 0
          /\ \A w : Answering(Nil, h, w) = 0
      BY NilWeights
    <3>5. Num(OwesAnswer(q, c, a, h)') = Num(OwesAnswer(q, c, a, h))
      BY <2>10 DEF Num
    <3>6. /\ a = q => \A w \in BOOLEAN :
              Carries(Nil, h) + Questioning(Nil, h) = Carries(x, h) + Answering(Nil, h, w)
          /\ \A w \in BOOLEAN : Answering(Nil, h, w) + Num(OwesAnswer(q, c, a, h)') =
                 Questioning(Nil, h) + Num(OwesAnswer(q, c, a, h))
      BY <3>1, <3>2, <3>5
    <3> QED
      BY <1>1, <1>3, <2>10, <3>6, FlowTokens
  <2>12. ASSUME NEW a \in Proc, NEW h \in Handle, a # q \/ h # c PROVE HandleRefs(a, h)'
    <3>1. HandleRefs(a, h) /\ TokensSame(a, h) /\ Kept(a, h)
      BY <2>8, <2>11, <2>12 DEF HandlesOK
    <3> QED
      BY <1>0, <1>5, <3>1, AloneKept
  <2>13. HandleRefs(q, c)'
    <3> DEFINE dt == -1
    <3>1. \A d \in Proc, w \in BOOLEAN :
            /\ IsFiniteSet(Debtors(q, d, c)')
            /\ TokensAs(q, d, c, w)' = TokensAs(q, d, c, w) + IF d = p THEN dt ELSE 0
      <4> SUFFICES ASSUME NEW d \in Proc, NEW w \in BOOLEAN
                   PROVE  /\ IsFiniteSet(Debtors(q, d, c)')
                          /\ TokensAs(q, d, c, w)' =
                               TokensAs(q, d, c, w) + IF d = p THEN dt ELSE 0
        OBVIOUS
      <4>1. IsFiniteSet(Debtors(q, d, c))
        BY FiniteDebts
      <4>2. TokensAs(q, d, c, w) \in Nat
        BY <4>1, TokensType
      <4>3. Carries(x, c) = 1
        BY <1>7, <2>1, PacketWeights DEF Num, CarriesRequest, Carriers
      <4>4. /\ Carries(Nil, c) = 0 /\ Questioning(Nil, c) = 0 /\ Answering(Nil, c, w) = 0
        BY NilWeights
      <4>5. Num(OwesAnswer(q, c, q, c)') = Num(OwesAnswer(q, c, q, c))
            /\ Num(OwesAnswer(q, c, q, c)) \in Nat
        BY <2>10 DEF Num
      <4>6. /\ IsFiniteSet(Debtors(q, d, c)')
            /\ d = p => TokensAs(q, d, c, w)' = TokensAs(q, d, c, w)
                + Carries(Nil, c) + Questioning(Nil, c) - Carries(x, c) - Answering(Nil, c, w)
            /\ d # p /\ d # q => TokensAs(q, d, c, w)' = TokensAs(q, d, c, w)
            /\ d # p /\ d = q => TokensAs(q, d, c, w)' = TokensAs(q, d, c, w)
                - Num(OwesAnswer(q, c, q, c)) + Num(OwesAnswer(q, c, q, c)')
        BY <1>1, <1>3, <2>10, <4>1, TokensStep
      <4> QED
        BY <4>2, <4>3, <4>4, <4>5, <4>6
    <3>2. /\ dt \in Int
          /\ -1 = Num(user'[q][c] # "none") - Num(user[q][c] # "none") + dt
      BY <1>0 DEF Num
    <3>3. \A d \in Proc, w \in BOOLEAN : d # p => TokensAs(q, d, c, w)' = TokensAs(q, d, c, w)
      BY <2>4, <3>1, TokensType DEF HandleRefs, SendRefs
    <3>4. \A w \in BOOLEAN : TokensAs(q, p, c, w)' = TokensAs(q, p, c, w) + dt
      BY <3>1
    <3> HIDE DEF dt
    <3>5. call[q] # c /\ call'[q] # c
      BY <1>0, NoneAssumption
    <3>6. SendRefs(q, c)' /\ KeptInv(q, c)'
      BY <2>2, <2>4, <2>6, <3>1, <3>2, <3>3, <3>4, <3>5, SendDropped DEF HandleRefs
    <3>7. RecvRefs(q, c)'
      BY <1>0, <1>5, <2>4, <2>7, RecvNever DEF HandleRefs, NoRecv, RecvRefs, RecvIdle
    <3> QED
      BY <3>6, <3>7 DEF HandleRefs
  <2> QED
    BY <2>12, <2>13 DEF HandlesOK
<1> QED
  BY <1>6, <1>7

LEMMA DebtsSame ==
  ASSUME TypeOK, TypeOK', NEW b \in Proc, NEW f \in Handle, Core(req[b][f], req'[b][f]),
         user'[b][f] = "message" \/ NumQueued(b, f)' > 0
           <=> user[b][f] = "message" \/ NumQueued(b, f) > 0
  PROVE  SameDebts(b, f)
<1> SUFFICES ASSUME NEW a \in Proc, NEW h \in Handle
             PROVE  OwesAnswer(b, f, a, h)' <=> OwesAnswer(b, f, a, h)
  BY DEF SameDebts
<1>1. /\ OwesAnswer(b, f, a, h) <=>
           /\ req[b][f].type = "RECV" /\ req[b][f].rank = a
           /\ req[b][f].senderReq = h /\ Owes(req[b][f])
           /\ user[b][f] = "message" \/ NumQueued(b, f) > 0
      /\ OwesAnswer(b, f, a, h)' <=>
           /\ req'[b][f].type = "RECV" /\ req'[b][f].rank = a
           /\ req'[b][f].senderReq = h /\ Owes(req'[b][f])
           /\ user'[b][f] = "message" \/ NumQueued(b, f)' > 0
  BY OwesForm, OwesFormNext
<1>2. /\ req'[b][f].type = req[b][f].type /\ req'[b][f].rank = req[b][f].rank
      /\ req'[b][f].senderReq = req[b][f].senderReq
      /\ Owes(req'[b][f]) <=> Owes(req[b][f])
  BY DEF Core, Owes
<1> QED
  BY <1>1, <1>2

(* The tokens of a send of the process that takes the step. *)
LEMMA ActorTokens ==
  ASSUME TypeOK, HandlesOK, NEW q \in Proc, NEW p \in Proc, p # q, NEW k, NEW m, NEW x,
         NetStep(q, p, k, m), QueueStep(q, p, x, m),
         NEW g \in Handle, DebtStep(q, g), NEW h \in Handle,
         OwesAnswer(q, g, q, h)' <=> OwesAnswer(q, g, q, h),
         NEW d \in Proc, NEW w \in BOOLEAN
  PROVE  /\ IsFiniteSet(Debtors(q, d, h)') /\ TokensAs(q, d, h, w) \in Nat
         /\ d = p => TokensAs(q, d, h, w)' = TokensAs(q, d, h, w)
                + Carries(m, h) + Questioning(m, h) - Carries(x, h) - Answering(k, h, w)
         /\ d # p => TokensAs(q, d, h, w)' = TokensAs(q, d, h, w)
<1>1. IsFiniteSet(Debtors(q, d, h))
  BY FiniteDebts
<1>2. TokensAs(q, d, h, w) \in Nat
  BY <1>1, TokensType
<1>3. /\ Num(OwesAnswer(q, g, q, h)') = Num(OwesAnswer(q, g, q, h))
      /\ Num(OwesAnswer(q, g, q, h)) \in Nat
  BY DEF Num
<1>4. /\ IsFiniteSet(Debtors(q, d, h)')
      /\ d = p => TokensAs(q, d, h, w)' = TokensAs(q, d, h, w)
                + Carries(m, h) + Questioning(m, h) - Carries(x, h) - Answering(k, h, w)
      /\ d # p /\ d # q => TokensAs(q, d, h, w)' = TokensAs(q, d, h, w)
      /\ d # p /\ d = q => TokensAs(q, d, h, w)' = TokensAs(q, d, h, w)
                - Num(OwesAnswer(q, g, q, h)) + Num(OwesAnswer(q, g, q, h)')
  BY <1>1, TokensStep
<1> QED
  BY <1>2, <1>3, <1>4

(* A packet that holds a reference to a send shows that there is one. *)
LEMMA AnswersSend ==
  ASSUME TypeOK, HandlesOK, NEW q \in Proc, NEW p \in Proc, NEW k \in Range(Flow(p, q)),
         k.type \in Answers, NEW c \in Handle, c = k.sreq
  PROVE  IsSend(req[q][c]) /\ req[q][c].rank = p
<1>1. PICK w \in BOOLEAN : w = Awaits(req[q][c])
  BY DEF Awaits
<1>2. Flow(p, q) \in Seq(Packet)
  BY FlowType
<1>3. k \in Packet
  BY <1>2, RangeOf
<1>4. k \in OfType(Answers, c)
  BY <1>3 DEF OfType
<1>5. /\ NumIn(Flow(p, q), OfType(Answers, c)) \in Nat
      /\ NumIn(Flow(p, q), OfType(Answers, c)) # 0
  BY <1>2, <1>4, CountType
<1>6. /\ NumIn(Flow(q, p), OfType(Questions, c)) \in Nat
      /\ NumIn(Flow(p, q), AcksOf(c)) \in Nat
      /\ NumIn(sendq[q][p], OfType(Carriers, c)) \in Nat
      /\ Cardinality(Debtors(q, p, c)) \in Nat
  BY FlowCounts, FiniteDebts, FS_CardinalityType
<1>7. TokensAs(q, p, c, w) > 0
  BY <1>5, <1>6 DEF TokensAs
<1> QED
  BY <1>1, <1>7, SendRefsForm DEF HandlesOK, HandleRefs

LEMMA QuestionsSend ==
  ASSUME TypeOK, HandlesOK, NEW q \in Proc, NEW p \in Proc, NEW k \in Range(Flow(p, q)),
         k.type \in Questions, NEW c \in Handle, c = k.sreq
  PROVE  IsSend(req[p][c]) /\ req[p][c].rank = q
<1>1. PICK w \in BOOLEAN : w = Awaits(req[p][c])
  BY DEF Awaits
<1>2. Flow(p, q) \in Seq(Packet)
  BY FlowType
<1>3. k \in Packet
  BY <1>2, RangeOf
<1>4. k \in OfType(Questions, c)
  BY <1>3 DEF OfType
<1>5. /\ NumIn(Flow(p, q), OfType(Questions, c)) \in Nat
      /\ NumIn(Flow(p, q), OfType(Questions, c)) # 0
  BY <1>2, <1>4, CountType
<1>6. /\ NumIn(Flow(q, p), OfType(Answers, c)) \in Nat
      /\ NumIn(Flow(q, p), AcksOf(c)) \in Nat
      /\ NumIn(sendq[p][q], OfType(Carriers, c)) \in Nat
      /\ Cardinality(Debtors(p, q, c)) \in Nat
  BY FlowCounts, FiniteDebts, FS_CardinalityType
<1>7. TokensAs(p, q, c, w) > 0
  BY <1>5, <1>6 DEF TokensAs
<1> QED
  BY <1>1, <1>7, SendRefsForm DEF HandlesOK, HandleRefs

-----------------------------------------------------------------------------
LEMMA PayloadArrivesRefs ==
  ASSUME TypeOK, TypeOK', HandlesOK, NEW q \in Proc, NEW p \in Proc, PayloadArrives(q, p)
  PROVE  HandlesOK'
<1>0. /\ UNCHANGED <<user, posted, unexpected, sendq, wire, call>>
      /\ reading' = [reading EXCEPT ![q][p] = None]
  BY DEF PayloadArrives, queues
<1>1. PICK g \in Handle : g = reading[q][p]
  BY PayloadArrivesReq
<1>2. Others(q, {g}) /\ Dropped(req[q][g], req'[q][g])
  BY <1>1, PayloadArrivesReq
<1>3. PostStep(q, None, None) /\ ArriveStep(q, None, None) /\ ReadingStep(q, p, g, None)
  BY <1>0, <1>1, PostedSame, ArrivedSame, ReadingSet
<1>4. g # None /\ HandleRefs(q, g)
  BY NoneAssumption DEF HandlesOK
<1>5. /\ NumQueued(q, g)' = NumQueued(q, g) /\ NumPosted(q, g)' = NumPosted(q, g)
      /\ NumQueued(q, g) \in Nat /\ NumPosted(q, g) \in Nat
  BY <1>0, QueueCounts DEF NumQueued, NumPosted
<1>6. /\ UnderWay(q, p, g) \in Nat /\ UnderWay(q, p, g) > 0
      /\ UnderWay(q, p, g)' = UnderWay(q, p, g) - 1
      /\ \A a \in Proc : a # p => UnderWay(q, a, g)' = UnderWay(q, a, g)
  <2>1. /\ UnderWay(q, p, g) \in Nat
        /\ UnderWay(q, p, g)' = UnderWay(q, p, g) - Num(g = g) + Num(None = g)
        /\ \A a \in Proc : a # p => UnderWay(q, a, g)' = UnderWay(q, a, g)
    BY <1>0, <1>3, UnderWayQuiet
  <2>2. UnderWay(q, p, g) > 0
    <3>1. NumIn(Flow(q, p), ForRecv({"CTS"}, g)) \in Nat
          /\ NumIn(Flow(p, q), ForRecv({"RNDV_SEND"}, g)) \in Nat
      BY FlowCounts
    <3>2. Num(reading[q][p] = g) = 1
      BY <1>1 DEF Num
    <3> QED
      BY <3>1, <3>2 DEF UnderWay
  <2> QED
    BY <1>4, <2>1, <2>2 DEF Num
<1>7. req[q][g].type = "RECV" /\ RecvWith(q, p, g)
  <2>1. req[q][g].type = "RECV"
    BY <1>4, <1>6 DEF HandleRefs, RecvRefs, RecvIdle
  <2>2. PICK b \in Proc : RecvWith(q, b, g)
    BY <1>4, <2>1 DEF HandleRefs, RecvRefs
  <2>3. b = p
    BY <1>6, <2>2 DEF RecvWith
  <2> QED
    BY <2>1, <2>2, <2>3
<1>8. /\ req[q][g].ref = Num(user[q][g] # "none") + NumPosted(q, g) + NumQueued(q, g)
                           + UnderWay(q, p, g)
      /\ Num(user[q][g] # "none") \in {0, 1}
      /\ Num(user[q][g] # "none") = 0 => user[q][g] = "none"
  BY <1>7 DEF RecvWith, Num
<1>9. SameDebts(q, g)
  <2>1. CASE req[q][g].ref = 1
    <3>1. NumQueued(q, g) = 0 /\ user[q][g] = "none"
      BY <1>5, <1>6, <1>8, <2>1
    <3>2. ~Owing(q, g) /\ ~Owing(q, g)'
      BY <1>0, <1>5, <3>1 DEF Owing
    <3> QED
      BY <3>2, NoDebts
  <2>2. CASE req[q][g].ref # 1
    <3>1. Core(req[q][g], req'[q][g])
      BY <1>2, <2>2 DEF Dropped, Same
    <3>2. user'[q][g] = "message" \/ NumQueued(q, g)' > 0
            <=> user[q][g] = "message" \/ NumQueued(q, g) > 0
      BY <1>0, <1>5
    <3> QED
      BY <3>1, <3>2, DebtsSame
  <2> QED
    BY <2>1, <2>2
<1>10. /\ \A a \in Proc, h \in Handle : TokensSame(a, h)
       /\ \A a \in Proc, h \in Handle : a # q \/ h \notin {g} => HandleRefs(a, h)'
  <2>1. \A a \in Proc, h \in Handle : a # q \/ h \notin {g} =>
            /\ Kept(a, h) /\ user'[a][h] = user[a][h] /\ CountsSame(a, h)
            /\ (call'[a] = h) <=> (call[a] = h)
    <3> SUFFICES ASSUME NEW a \in Proc, NEW h \in Handle, a # q \/ h # g
                 PROVE  Kept(a, h) /\ CountsSame(a, h)
      BY <1>0
    <3>1. h # None
      BY NoneAssumption
    <3> QED
      BY <1>0, <1>2, <1>3, <3>1, CountsElsewhere, KeptWhenSame DEF Others
  <2>2. \A x \in Handle : x \in {g} => SameDebts(q, x)
    BY <1>9
  <2>3. UNCHANGED <<wire, sendq>>
    BY <1>0
  <2> QED
    BY <2>1, <2>2, <2>3, QuietOthers
<1>11. HandleRefs(q, g)'
  <2>1. SendRefs(q, g)'
    BY <1>2, <1>4, <1>7, <1>10, DroppedKind, RecvNoSend
  <2>2. Num(user'[q][g] # "none") = Num(user[q][g] # "none")
    BY <1>0
  <2>3. /\ Num(user'[q][g] # "none") + NumPosted(q, g)' + NumQueued(q, g)' + UnderWay(q, p, g)' + 1
               = Num(user[q][g] # "none") + NumPosted(q, g) + NumQueued(q, g) + UnderWay(q, p, g)
        /\ UnderWay(q, p, g)' <= UnderWay(q, p, g) /\ UnderWay(q, p, g)' \in Nat
        /\ NumPosted(q, g)' <= NumPosted(q, g) /\ NumQueued(q, g)' <= NumQueued(q, g)
    BY <1>5, <1>6, <1>8, <2>2
  <2>4. RecvRefs(q, g)' /\ KeptInv(q, g)'
    BY <1>0, <1>2, <1>4, <1>6, <1>7, <2>3, RecvDropped DEF HandleRefs
  <2> QED
    BY <2>1, <2>4 DEF HandleRefs
<1> QED
  BY <1>10, <1>11 DEF HandlesOK

-----------------------------------------------------------------------------
(* What q reads is on its connection with p. *)
LEMMA ReadIsThere ==
  ASSUME TypeOK, NoLoops, NEW q \in Proc, NEW p \in Proc, NEW k, ReadPacket(q, p, k)
  PROVE  k \in Range(Flow(p, q)) /\ k \in Packet /\ p # q
<1>1. p # q
  BY NotSelf DEF ReadPacket
<1>2. Flow(p, q) \in Seq(Packet) /\ Flow(p, q) # <<>> /\ Head(Flow(p, q)) = k
  BY ReadHead
<1> QED
  BY <1>1, <1>2, TailParts

LEMMA HandleSyncAckRefs ==
  ASSUME TypeOK, TypeOK', HandlesOK, NoLoops, ~MultiThreaded,
         NEW q \in Proc, NEW p \in Proc, NEW k, ReadPacket(q, p, k), HandleSyncAck(q, p, k),
         k.sreq \in Handle
  PROVE  HandlesOK'
<1>0. /\ UNCHANGED <<user, posted, unexpected, sendq, reading, call>>
      /\ k.type = "SYNC_ACK" /\ call[q] = None
  BY DEF HandleSyncAck, queues, ReadPacket, MayProgress
<1>1. k \in Range(Flow(p, q)) /\ k \in Packet /\ p # q
  BY ReadIsThere
<1>2. PICK c \in Handle : c = k.sreq
  OBVIOUS
<1>3. NetStep(q, p, k, Nil) /\ QueueStep(q, p, Nil, Nil)
  BY <1>0, StepRead
<1>4. PostStep(q, None, None) /\ ArriveStep(q, None, None) /\ ReadingStep(q, p, None, None)
  BY <1>0, PostedSame, ArrivedSame, ReadingSame
<1>5. \A b \in Proc, f \in Handle : CountsSame(b, f)
  <2> SUFFICES ASSUME NEW b \in Proc, NEW f \in Handle PROVE CountsSame(b, f)
    OBVIOUS
  <2>1. f # None
    BY NoneAssumption
  <2>2. Num(Nil \in Cleared(f)) = 0 /\ Num(Nil \in Coming(f)) = 0 /\ Num(None = f) = 0
    BY <2>1, NilWeights DEF Num
  <2>3. Num(k \in Cleared(f)) = 0 /\ Num(k \in Coming(f)) = 0
    BY <1>0, <1>1, PacketWeights DEF Num
  <2> QED
    BY <1>1, <1>3, <1>4, <2>1, <2>2, <2>3, FlowCountsSame
<1>6. Others(q, {c}) /\ Dropped(req[q][c], req'[q][c])
  BY <1>1, <1>2, HandleSyncAckReq
<1>7. HandleRefs(q, c)
  BY DEF HandlesOK
<1>8. IsSend(req[q][c]) /\ req[q][c].rank = p
  BY <1>0, <1>1, <1>2, AnswersSend DEF Answers
<1>9. NoRecv(q, c)
  <2>1. req'[q][c].type \in {req[q][c].type, "FREE"}
    BY <1>6, DroppedKind
  <2> QED
    BY <1>8, <2>1 DEF NoRecv, IsSend
<1>10. \A a \in Proc, h \in Handle : a # q \/ h # c => Kept(a, h)
  BY <1>6, KeptWhenSame DEF Others
<1>11. \A a \in Proc, h \in Handle : SameDebts(a, h)
  BY <1>0, <1>5, <1>9, <1>10, DebtsAlone DEF LeftAlone, CountsSame
<1>12. /\ \A a \in Proc, h \in Handle : OwesAnswer(q, c, a, h)' <=> OwesAnswer(q, c, a, h)
       /\ DebtStep(q, c)
  BY <1>11 DEF SameDebts, DebtStep
<1>13. ASSUME NEW a \in Proc, NEW h \in Handle, a # q \/ h # c PROVE HandleRefs(a, h)'
  <2>1. /\ a = q => \A w : Answering(k, h, w) = 0
        /\ Questioning(k, h) = 0
    BY <1>0, <1>1, <1>2, <1>13, PacketWeights DEF Num, Questions, Asks
  <2>2. /\ Carries(Nil, h) = 0 /\ Questioning(Nil, h) = 0
        /\ \A w : Answering(Nil, h, w) = 0
    BY NilWeights
  <2>3. Num(OwesAnswer(q, c, a, h)') = Num(OwesAnswer(q, c, a, h))
    BY <1>12 DEF Num
  <2>4. /\ a = q => \A w \in BOOLEAN :
            Carries(Nil, h) + Questioning(Nil, h) = Carries(Nil, h) + Answering(k, h, w)
        /\ \A w \in BOOLEAN : Answering(Nil, h, w) + Num(OwesAnswer(q, c, a, h)') =
               Questioning(k, h) + Num(OwesAnswer(q, c, a, h))
    BY <2>1, <2>2, <2>3
  <2>5. TokensSame(a, h)
    BY <1>1, <1>3, <1>12, <2>4, FlowTokens
  <2>6. HandleRefs(a, h) /\ Kept(a, h)
    BY <1>10, <1>13 DEF HandlesOK
  <2> QED
    BY <1>0, <1>5, <2>5, <2>6, AloneKept
<1>14. HandleRefs(q, c)'
  <2> DEFINE dt == -1
  <2>1. \A w \in BOOLEAN : Answering(k, c, w) = 1 /\ Carries(Nil, c) = 0 /\ Questioning(Nil, c) = 0
    BY <1>0, <1>1, <1>2, PacketWeights, NilWeights DEF Num
  <2>2. \A d \in Proc, w \in BOOLEAN :
          /\ IsFiniteSet(Debtors(q, d, c)') /\ TokensAs(q, d, c, w) \in Nat
          /\ d = p => TokensAs(q, d, c, w)' = TokensAs(q, d, c, w)
                + Carries(Nil, c) + Questioning(Nil, c) - Carries(Nil, c) - Answering(k, c, w)
          /\ d # p => TokensAs(q, d, c, w)' = TokensAs(q, d, c, w)
    BY <1>1, <1>3, <1>12, ActorTokens
  <2>3. \A w \in BOOLEAN : TokensAs(q, p, c, w)' = TokensAs(q, p, c, w) + dt
    BY <2>1, <2>2
  <2>4. dt \in Int /\ -1 = Num(user'[q][c] # "none") - Num(user[q][c] # "none") + dt
    BY <1>0 DEF Num
  <2> HIDE DEF dt
  <2>5. call[q] # c /\ call'[q] # c
    BY <1>0, NoneAssumption
  <2>6. SendRefs(q, c)' /\ KeptInv(q, c)'
    BY <1>6, <1>7, <1>8, <2>2, <2>3, <2>4, <2>5, SendDropped DEF HandleRefs
  <2>7. RecvRefs(q, c)'
    BY <1>0, <1>5, <1>7, <1>9, RecvNever DEF HandleRefs, NoRecv, RecvRefs, RecvIdle
  <2> QED
    BY <2>6, <2>7 DEF HandleRefs
<1> QED
  BY <1>13, <1>14 DEF HandlesOK

(* What a step of q and its connection with p leaves alone, when only      *)
(* handle g of q may owe more or less than before. *)
LEMMA FlowOthers ==
  ASSUME TypeOK, HandlesOK, NEW q \in Proc, NEW p \in Proc, p # q, NEW k, NEW m, NEW x,
         NetStep(q, p, k, m), QueueStep(q, p, x, m),
         NEW g \in Handle, DebtStep(q, g), NEW S,
         \A a \in Proc, h \in Handle : a # q \/ h \notin S =>
           /\ Kept(a, h) /\ user'[a][h] = user[a][h] /\ CountsSame(a, h)
           /\ (call'[a] = h) <=> (call[a] = h),
         \A h \in Handle : h \notin S => \A w \in BOOLEAN :
           Carries(m, h) + Questioning(m, h) = Carries(x, h) + Answering(k, h, w),
         \A h \in Handle, w \in BOOLEAN :
           Answering(m, h, w) + Num(OwesAnswer(q, g, p, h)') =
             Questioning(k, h) + Num(OwesAnswer(q, g, p, h)),
         \A a \in Proc, h \in Handle : a # p =>
           (OwesAnswer(q, g, a, h)' <=> OwesAnswer(q, g, a, h))
  PROVE  \A a \in Proc, h \in Handle : a # q \/ h \notin S => HandleRefs(a, h)'
<1> SUFFICES ASSUME NEW a \in Proc, NEW h \in Handle, a # q \/ h \notin S
             PROVE  HandleRefs(a, h)'
  OBVIOUS
<1>1. a = q => \A w \in BOOLEAN :
        Carries(m, h) + Questioning(m, h) = Carries(x, h) + Answering(k, h, w)
  OBVIOUS
<1>2. a = p => \A w \in BOOLEAN :
        Answering(m, h, w) + Num(OwesAnswer(q, g, a, h)') =
          Questioning(k, h) + Num(OwesAnswer(q, g, a, h))
  OBVIOUS
<1>3. TokensSame(a, h)
  BY <1>1, <1>2, FlowTokens
<1> QED
  BY <1>3, AloneKept DEF HandlesOK

(* No request changes: the packet that is put on the connection stands for *)
(* the one that is taken. *)
LEMMA AllKeptRefs ==
  ASSUME TypeOK, TypeOK', HandlesOK, NEW q \in Proc, NEW p \in Proc, p # q, NEW k, NEW m,
         NetStep(q, p, k, m), QueueStep(q, p, Nil, m), UNCHANGED <<user, call>>,
         \A a \in Proc, h \in Handle : Kept(a, h) /\ CountsSame(a, h),
         \A h \in Handle, w \in BOOLEAN :
           /\ Carries(m, h) + Questioning(m, h) = Answering(k, h, w)
           /\ Answering(m, h, w) = Questioning(k, h)
  PROVE  HandlesOK'
<1>1. \A a \in Proc, h \in Handle : SameDebts(a, h)
  BY DebtsAlone DEF LeftAlone, CountsSame
<1> SUFFICES ASSUME NEW a \in Proc, NEW g \in Handle PROVE HandleRefs(a, g)'
  BY DEF HandlesOK
<1>2. DebtStep(q, g)
  BY <1>1 DEF SameDebts, DebtStep
<1>3. \A b \in Proc, h \in Handle : OwesAnswer(q, g, b, h)' <=> OwesAnswer(q, g, b, h)
  BY <1>1 DEF SameDebts
<1>4. \A h \in Handle, w \in BOOLEAN :
        /\ Carries(m, h) + Questioning(m, h) = Carries(Nil, h) + Answering(k, h, w)
        /\ Answering(m, h, w) + Num(OwesAnswer(q, g, p, h)') =
             Questioning(k, h) + Num(OwesAnswer(q, g, p, h))
  <2> SUFFICES ASSUME NEW h \in Handle, NEW w \in BOOLEAN
      PROVE  /\ Carries(m, h) + Questioning(m, h) = Carries(Nil, h) + Answering(k, h, w)
             /\ Answering(m, h, w) + Num(OwesAnswer(q, g, p, h)') =
                  Questioning(k, h) + Num(OwesAnswer(q, g, p, h))
    OBVIOUS
  <2>1. Num(OwesAnswer(q, g, p, h)') = Num(OwesAnswer(q, g, p, h))
    BY <1>3 DEF Num
  <2>2. Carries(Nil, h) = 0 /\ Answering(k, h, w) \in {0, 1, 2}
    BY NilWeights, WeightTypes
  <2> QED
    BY <2>1, <2>2
<1>5. PICK S : S = {}
  OBVIOUS
<1>6. HandleRefs(a, g)'
  <2>1. \A b \in Proc, h \in Handle : b # q \/ h \notin S =>
           /\ Kept(b, h) /\ user'[b][h] = user[b][h] /\ CountsSame(b, h)
           /\ (call'[b] = h) <=> (call[b] = h)
    OBVIOUS
  <2>2. \A h \in Handle : h \notin S => \A w \in BOOLEAN :
          Carries(m, h) + Questioning(m, h) = Carries(Nil, h) + Answering(k, h, w)
    BY <1>4
  <2>3. \A h \in Handle, w \in BOOLEAN :
          Answering(m, h, w) + Num(OwesAnswer(q, g, p, h)') =
             Questioning(k, h) + Num(OwesAnswer(q, g, p, h))
    BY <1>4
  <2>4. \A b \in Proc, h \in Handle : b # p =>
          (OwesAnswer(q, g, b, h)' <=> OwesAnswer(q, g, b, h))
    BY <1>3
  <2>5. \A b \in Proc, h \in Handle : b # q \/ h \notin S => HandleRefs(b, h)'
    BY <1>2, <2>1, <2>2, <2>3, <2>4, FlowOthers
  <2> QED
    BY <1>5, <2>5
<1> QED
  BY <1>6

LEMMA HandleCtsRefs ==
  ASSUME TypeOK, TypeOK', HandlesOK, NoLoops,
         NEW q \in Proc, NEW p \in Proc, NEW k, ReadPacket(q, p, k), HandleCts(q, p, k),
         k.sreq \in Handle
  PROVE  HandlesOK'
<1> DEFINE m == [type |-> "RNDV_SEND", sreq |-> k.sreq, rreq |-> k.rreq]
<1>0. /\ UNCHANGED <<user, posted, unexpected, reading, call>>
      /\ k.type = "CTS" /\ SendPacket(q, p, m)
  BY DEF HandleCts, queues
<1>1. k \in Range(Flow(p, q)) /\ k \in Packet /\ p # q
  BY ReadIsThere
<1>2. m \in Packet /\ m.type = "RNDV_SEND" /\ m.sreq = k.sreq /\ m.rreq = k.rreq
  BY <1>0, <1>1, PacketFields DEF Packet
<1> HIDE DEF m
<1>3. NetStep(q, p, k, m) /\ QueueStep(q, p, Nil, m)
  BY <1>0, <1>1, <1>2, StepReply
<1>4. PostStep(q, None, None) /\ ArriveStep(q, None, None) /\ ReadingStep(q, p, None, None)
  BY <1>0, PostedSame, ArrivedSame, ReadingSame
<1>5. \A b \in Proc, f \in Handle : CountsSame(b, f)
  <2> SUFFICES ASSUME NEW b \in Proc, NEW f \in Handle PROVE CountsSame(b, f)
    OBVIOUS
  <2>1. f # None
    BY NoneAssumption
  <2>2. /\ Num(None = f) = 0 /\ Num(m \in Cleared(f)) = 0 /\ Num(k \in Coming(f)) = 0
        /\ Num(m \in Coming(f)) = Num(k \in Cleared(f))
    BY <1>0, <1>1, <1>2, <2>1, PacketWeights DEF Num
  <2> QED
    BY <1>1, <1>3, <1>4, <2>1, <2>2, FlowCountsSame
<1>6. PICK c \in Handle : c = k.sreq
  OBVIOUS
<1>7. IsSend(req[q][c])
  BY <1>0, <1>1, <1>6, AnswersSend DEF Answers
<1>8. req[q][c].ref > 0
  BY <1>7 DEF HandlesOK, HandleRefs, SendRefs
<1>9. \A a \in Proc, h \in Handle : Kept(a, h)
  <2>1. Others(q, {c}) /\ Kept(q, c)
    BY <1>1, <1>6, <1>8, HandleCtsReq
  <2> QED
    BY <2>1, KeptWhenSame DEF Others
<1>10. \A h \in Handle, w \in BOOLEAN :
           /\ Carries(m, h) + Questioning(m, h) = Answering(k, h, w)
           /\ Answering(m, h, w) = Questioning(k, h)
  <2> SUFFICES ASSUME NEW h \in Handle, NEW w \in BOOLEAN
               PROVE  /\ Carries(m, h) + Questioning(m, h) = Answering(k, h, w)
                      /\ Answering(m, h, w) = Questioning(k, h)
    OBVIOUS
  <2>1. /\ Carries(m, h) = Num(k.sreq = h) /\ Questioning(m, h) = 0 /\ Answering(m, h, w) = 0
    BY <1>2, PacketWeights DEF Num, Carriers, Questions, Answers, Asks
  <2>2. Answering(k, h, w) = Num(k.sreq = h) /\ Questioning(k, h) = 0
    BY <1>0, <1>1, PacketWeights DEF Num, Questions, Asks
  <2> QED
    BY <2>1, <2>2 DEF Num
<1> QED
  BY <1>0, <1>1, <1>3, <1>5, <1>9, <1>10, AllKeptRefs

LEMMA HandleRndvSendRefs ==
  ASSUME TypeOK, TypeOK', HandlesOK, NoLoops,
         NEW q \in Proc, NEW p \in Proc, NEW k, ReadPacket(q, p, k), HandleRndvSend(q, p, k)
  PROVE  HandlesOK'
<1>0. /\ UNCHANGED <<req, user, posted, unexpected, sendq, call>>
      /\ reading' = [reading EXCEPT ![q][p] = k.rreq]
      /\ k.type = "RNDV_SEND" /\ reading[q][p] = None
  BY DEF HandleRndvSend, queues, ReadPacket
<1>1. k \in Range(Flow(p, q)) /\ k \in Packet /\ p # q
  BY ReadIsThere
<1>2. PICK g : g = k.rreq
  OBVIOUS
<1>3. NetStep(q, p, k, Nil) /\ QueueStep(q, p, Nil, Nil)
  BY <1>0, StepRead
<1>4. PostStep(q, None, None) /\ ArriveStep(q, None, None) /\ ReadingStep(q, p, None, g)
  BY <1>0, <1>2, PostedSame, ArrivedSame, ReadingSet
<1>5. \A b \in Proc, f \in Handle : CountsSame(b, f)
  <2> SUFFICES ASSUME NEW b \in Proc, NEW f \in Handle PROVE CountsSame(b, f)
    OBVIOUS
  <2>1. f # None
    BY NoneAssumption
  <2>2. /\ Num(None = f) = 0 /\ Num(Nil \in Cleared(f)) = 0 /\ Num(Nil \in Coming(f)) = 0
        /\ Num(k \in Cleared(f)) = 0 /\ Num(k \in Coming(f)) = Num(g = f)
        /\ Num(g = f) \in {0, 1}
    BY <1>0, <1>1, <1>2, <2>1, PacketWeights, NilWeights DEF Num
  <2> QED
    BY <1>1, <1>3, <1>4, <2>1, <2>2, FlowCountsSame
<1>6. \A a \in Proc, h \in Handle : Kept(a, h)
  BY <1>0, KeptWhenSame
<1>7. \A h \in Handle, w \in BOOLEAN :
           /\ Carries(Nil, h) + Questioning(Nil, h) = Answering(k, h, w)
           /\ Answering(Nil, h, w) = Questioning(k, h)
  BY <1>0, <1>1, PacketWeights, NilWeights DEF Num, Questions, Asks, Answers
<1> QED
  BY <1>0, <1>1, <1>3, <1>5, <1>6, <1>7, AllKeptRefs

LEMMA HandleCancelReqMissedRefs ==
  ASSUME TypeOK, TypeOK', HandlesOK, NoLoops,
         NEW q \in Proc, NEW p \in Proc, NEW k, ReadPacket(q, p, k),
         HandleCancelReqMissed(q, p, k)
  PROVE  HandlesOK'
<1> DEFINE m == CancelResp(k.sreq, FALSE)
<1>0. /\ UNCHANGED <<req, user, posted, unexpected, reading, call>>
      /\ k.type = "CANCEL_SEND_REQ" /\ SendPacket(q, p, m)
  BY DEF HandleCancelReqMissed, queues
<1>1. k \in Range(Flow(p, q)) /\ k \in Packet /\ p # q
  BY ReadIsThere
<1>2. m \in Packet /\ m.type = "CANCEL_SEND_RESP" /\ m.sreq = k.sreq /\ m.ack = FALSE
  BY <1>0, <1>1, PacketFields DEF Packet, CancelResp
<1> HIDE DEF m
<1>3. NetStep(q, p, k, m) /\ QueueStep(q, p, Nil, m)
  BY <1>0, <1>1, <1>2, StepReply
<1>4. PostStep(q, None, None) /\ ArriveStep(q, None, None) /\ ReadingStep(q, p, None, None)
  BY <1>0, PostedSame, ArrivedSame, ReadingSame
<1>5. \A b \in Proc, f \in Handle : CountsSame(b, f)
  <2> SUFFICES ASSUME NEW b \in Proc, NEW f \in Handle PROVE CountsSame(b, f)
    OBVIOUS
  <2>1. f # None
    BY NoneAssumption
  <2>2. /\ Num(None = f) = 0 /\ Num(m \in Cleared(f)) = 0 /\ Num(k \in Coming(f)) = 0
        /\ Num(m \in Coming(f)) = 0 /\ Num(k \in Cleared(f)) = 0
    BY <1>0, <1>1, <1>2, <2>1, PacketWeights DEF Num
  <2> QED
    BY <1>1, <1>3, <1>4, <2>1, <2>2, FlowCountsSame
<1>6. \A a \in Proc, h \in Handle : Kept(a, h)
  BY <1>0, KeptWhenSame
<1>7. \A h \in Handle, w \in BOOLEAN :
           /\ Carries(m, h) + Questioning(m, h) = Answering(k, h, w)
           /\ Answering(m, h, w) = Questioning(k, h)
  <2> SUFFICES ASSUME NEW h \in Handle, NEW w \in BOOLEAN
               PROVE  /\ Carries(m, h) + Questioning(m, h) = Answering(k, h, w)
                      /\ Answering(m, h, w) = Questioning(k, h)
    OBVIOUS
  <2>1. /\ Carries(m, h) = 0 /\ Questioning(m, h) = 0
        /\ Answering(m, h, w) = Num(k.sreq = h) + 0
    BY <1>2, PacketWeights DEF Num, Carriers, Questions, Asks, EagerTypes
  <2>2. Answering(k, h, w) = 0 /\ Questioning(k, h) = Num(k.sreq = h)
    BY <1>0, <1>1, PacketWeights DEF Num, Questions, Answers
  <2> QED
    BY <2>1, <2>2 DEF Num
<1> QED
  BY <1>0, <1>1, <1>3, <1>5, <1>6, <1>7, AllKeptRefs

(* Send h of p puts a packet of its own on the connection with q. *)
LEMMA SendOthers ==
  ASSUME TypeOK, TypeOK', HandlesOK, NEW p \in Proc, NEW q \in Proc, p # q, NEW h \in Handle,
         NEW m \in Packet, SendPacket(p, q, m), UNCHANGED wire, m.sreq = h,
         m.type \in EagerTypes \cup {"RTS", "CANCEL_SEND_REQ"},
         UNCHANGED <<posted, unexpected, reading>>, Others(p, {h}), NoRecv(p, h),
         \A a \in Proc, f \in Handle : a # p \/ f # h => user'[a][f] = user[a][f],
         \A a \in Proc, f \in Handle : a # p \/ f # h => ((call'[a] = f) <=> (call[a] = f))
  PROVE  /\ \A a \in Proc, f \in Handle : a # p \/ f # h => HandleRefs(a, f)'
         /\ CountsSame(p, h)
         /\ \A d \in Proc, w \in BOOLEAN :
              /\ IsFiniteSet(Debtors(p, d, h)') /\ TokensAs(p, d, h, w) \in Nat
              /\ d = q => TokensAs(p, d, h, w)' =
                            TokensAs(p, d, h, w) + Carries(m, h) + Questioning(m, h)
              /\ d # q => TokensAs(p, d, h, w)' = TokensAs(p, d, h, w)
<1>1. NetStep(p, q, Nil, m) /\ QueueStep(p, q, Nil, m)
  BY StepSend
<1>2. PostStep(p, None, None) /\ ArriveStep(p, None, None) /\ ReadingStep(p, q, None, None)
  BY PostedSame, ArrivedSame, ReadingSame
<1>3. m.type \notin Answers /\ m.type # "CTS" /\ m.type # "RNDV_SEND"
  BY DEF Answers, EagerTypes
<1>4. \A b \in Proc, f \in Handle : CountsSame(b, f)
  <2> SUFFICES ASSUME NEW b \in Proc, NEW f \in Handle PROVE CountsSame(b, f)
    OBVIOUS
  <2>1. f # None
    BY NoneAssumption
  <2>2. /\ Num(None = f) = 0 /\ Num(m \in Cleared(f)) = 0 /\ Num(m \in Coming(f)) = 0
        /\ Num(Nil \in Coming(f)) = 0 /\ Num(Nil \in Cleared(f)) = 0
    BY <1>3, <2>1, PacketWeights, NilWeights DEF Num
  <2> QED
    BY <1>1, <1>2, <2>1, <2>2, FlowCountsSame
<1>5. \A a \in Proc, f \in Handle : a # p \/ f # h => Kept(a, f)
  BY KeptWhenSame DEF Others
<1>6. \A a \in Proc, f \in Handle : SameDebts(a, f)
  BY <1>4, <1>5, DebtsAlone DEF LeftAlone, CountsSame
<1>7. /\ \A a \in Proc, f \in Handle : OwesAnswer(p, h, a, f)' <=> OwesAnswer(p, h, a, f)
      /\ DebtStep(p, h)
  BY <1>6 DEF SameDebts, DebtStep
<1>8. \A a \in Proc, f \in Handle : a # p \/ f # h => HandleRefs(a, f)'
  <2>1. PICK S : S = {h}
    OBVIOUS
  <2>2. \A a \in Proc, f \in Handle : a # p \/ f \notin S =>
           /\ Kept(a, f) /\ user'[a][f] = user[a][f] /\ CountsSame(a, f)
           /\ (call'[a] = f) <=> (call[a] = f)
    BY <1>4, <1>5, <2>1
  <2>3. \A f \in Handle : f \notin S => \A w \in BOOLEAN :
           Carries(m, f) + Questioning(m, f) = Carries(Nil, f) + Answering(Nil, f, w)
    BY <2>1, PacketWeights, NilWeights DEF Num
  <2>4. \A f \in Handle, w \in BOOLEAN :
           Answering(m, f, w) + Num(OwesAnswer(p, h, q, f)') =
             Questioning(Nil, f) + Num(OwesAnswer(p, h, q, f))
    <3> SUFFICES ASSUME NEW f \in Handle, NEW w \in BOOLEAN
                 PROVE  Answering(m, f, w) + Num(OwesAnswer(p, h, q, f)') =
                          Questioning(Nil, f) + Num(OwesAnswer(p, h, q, f))
      OBVIOUS
    <3>1. Answering(m, f, w) = 0 /\ Questioning(Nil, f) = 0
      BY <1>3, PacketWeights, NilWeights
    <3> QED
      BY <1>7, <3>1 DEF Num
  <2>5. \A a \in Proc, f \in Handle : a # q =>
           (OwesAnswer(p, h, a, f)' <=> OwesAnswer(p, h, a, f))
    BY <1>7
  <2>6. \A a \in Proc, f \in Handle : a # p \/ f \notin S => HandleRefs(a, f)'
    BY <1>1, <1>7, <2>2, <2>3, <2>4, <2>5, FlowOthers
  <2> QED
    BY <2>1, <2>6
<1>9. \A d \in Proc, w \in BOOLEAN :
        /\ IsFiniteSet(Debtors(p, d, h)') /\ TokensAs(p, d, h, w) \in Nat
        /\ d = q => TokensAs(p, d, h, w)' =
                      TokensAs(p, d, h, w) + Carries(m, h) + Questioning(m, h)
        /\ d # q => TokensAs(p, d, h, w)' = TokensAs(p, d, h, w)
  <2> SUFFICES ASSUME NEW d \in Proc, NEW w \in BOOLEAN
      PROVE  /\ IsFiniteSet(Debtors(p, d, h)') /\ TokensAs(p, d, h, w) \in Nat
             /\ d = q => TokensAs(p, d, h, w)' =
                           TokensAs(p, d, h, w) + Carries(m, h) + Questioning(m, h)
             /\ d # q => TokensAs(p, d, h, w)' = TokensAs(p, d, h, w)
    OBVIOUS
  <2>1. /\ IsFiniteSet(Debtors(p, d, h)') /\ TokensAs(p, d, h, w) \in Nat
        /\ d = q => TokensAs(p, d, h, w)' = TokensAs(p, d, h, w)
              + Carries(m, h) + Questioning(m, h) - Carries(Nil, h) - Answering(Nil, h, w)
        /\ d # q => TokensAs(p, d, h, w)' = TokensAs(p, d, h, w)
    BY <1>1, <1>7, ActorTokens
  <2>2. Carries(Nil, h) = 0 /\ Answering(Nil, h, w) = 0
    BY NilWeights
  <2>3. Carries(m, h) \in {0, 1} /\ Questioning(m, h) \in {0, 1}
    BY WeightTypes
  <2> QED
    BY <2>1, <2>2, <2>3
<1> QED
  BY <1>4, <1>8, <1>9

-----------------------------------------------------------------------------
(* The packet of a new send, and the call that has yet to end. *)
LEMMA IsendPacket ==
  ASSUME TypeOK, NEW p \in Proc, NEW q \in Proc, NEW t \in Tag,
         NEW mode \in Mode, NEW size \in Size, NEW h \in Handle, Isend(p, q, t, mode, size, h)
  PROVE  \E m \in Packet :
           /\ SendPacket(p, q, m) /\ m.sreq = h
           /\ IF IsEager(mode, size)
              THEN /\ m.type = EagerPacketType(mode)
                   /\ call' = [call EXCEPT ![p] = IF mode = "SSEND" THEN h ELSE None]
              ELSE m.type = "RTS" /\ call' = call
<1> DEFINE r == NewSreq(p, h, q, t, mode, size)
<1>1. r.type = mode /\ r.tag = t /\ r.size = size /\ r.id = Len(sent[p]) + 1
  BY NewSreqShape
<1>2. Len(sent[p]) + 1 \in Nat
  BY DEF TypeOK
<1>3. IF IsEager(mode, size) THEN SendEager(p, q, h, r) ELSE SendRndv(p, q, h, r)
  BY DEF Isend
<1> HIDE DEF r
<1>4. CASE IsEager(mode, size)
  <2> DEFINE e == Envelope(EagerPacketType(mode), h, r)
  <2>1. e \in Packet
    BY <1>1, <1>2, ModeAssumption, SizeAssumption
    DEF Envelope, EagerPacketType, EagerTypes, Packet
  <2>2. e.type = EagerPacketType(mode) /\ e.sreq = h
    BY DEF Envelope
  <2>3. SendPacket(p, q, e) /\ call' = [call EXCEPT ![p] = IF mode = "SSEND" THEN h ELSE None]
    BY <1>1, <1>3, <1>4 DEF SendEager
  <2> QED
    BY <1>4, <2>1, <2>2, <2>3
<1>5. CASE ~IsEager(mode, size)
  <2> DEFINE e == Envelope("RTS", h, r)
  <2>1. e \in Packet
    BY <1>1, <1>2, SizeAssumption DEF Envelope, EagerTypes, Packet
  <2>2. e.type = "RTS" /\ e.sreq = h
    BY DEF Envelope
  <2>3. SendPacket(p, q, e) /\ call' = call
    BY <1>3, <1>5 DEF SendRndv
  <2> QED
    BY <1>5, <2>1, <2>2, <2>3
<1> QED
  BY <1>4, <1>5

LEMMA IsendRefs ==
  ASSUME TypeOK, TypeOK', HandlesOK, NEW p \in Proc, NEW q \in Proc, NEW t \in Tag,
         NEW mode \in Mode, NEW size \in Size, NEW h \in Handle, Isend(p, q, t, mode, size, h)
  PROVE  HandlesOK'
<1>1. /\ UNCHANGED <<posted, unexpected, wire, reading>>
      /\ user' = [user EXCEPT ![p][h] = "request"] /\ call[p] = None
  BY DEF Isend, queues, MaySend, MayCall
<1>2. /\ Others(p, {h}) /\ h \in FreeHandles(p) /\ req'[p][h].ref = 2 /\ p # q
      /\ NewSend(p, h, q, t, mode, IF IsEager(mode, size) THEN "EAGER" ELSE "RNDV",
                 req'[p][h])
  BY IsendReq
<1>3. req[p][h].type = "FREE" /\ HandleRefs(p, h)
  BY <1>2, FreeIsFree DEF HandlesOK
<1>4. /\ IsSend(req'[p][h]) /\ req'[p][h].rank = q
      /\ mode \in {"SEND", "SSEND", "RSEND"} /\ req'[p][h].type = mode
      /\ req'[p][h].msgType = IF IsEager(mode, size) THEN "EAGER" ELSE "RNDV"
  BY <1>2, ModeAssumption DEF NewSend, IsSend
<1>5. PICK m \in Packet :
        /\ SendPacket(p, q, m) /\ m.sreq = h
        /\ IF IsEager(mode, size)
           THEN /\ m.type = EagerPacketType(mode)
                /\ call' = [call EXCEPT ![p] = IF mode = "SSEND" THEN h ELSE None]
           ELSE m.type = "RTS" /\ call' = call
  BY IsendPacket
<1>6. /\ m.type \in EagerTypes \cup {"RTS", "CANCEL_SEND_REQ"}
      /\ Num(call'[p] = h) = IF IsEager(mode, size) /\ mode = "SSEND" THEN 1 ELSE 0
      /\ Carries(m, h) + Questioning(m, h) =
           IF IsEager(mode, size) /\ mode = "SSEND" THEN 2 ELSE 1
  <2>1. /\ Carries(m, h) = Num(m.type \in Carriers)
        /\ Questioning(m, h) = Num(m.type \in Questions)
    BY <1>5, PacketWeights
  <2>2. None # h
    BY NoneAssumption
  <2>3. CASE IsEager(mode, size)
    <3>1. /\ m.type = EagerPacketType(mode)
          /\ call'[p] = IF mode = "SSEND" THEN h ELSE None
      BY <1>5, <2>3 DEF TypeOK
    <3>2. CASE mode = "SSEND"
      <4>1. m.type = "EAGER_SYNC_SEND" /\ call'[p] = h
        BY <3>1, <3>2 DEF EagerPacketType
      <4> QED
        BY <2>1, <2>3, <3>2, <4>1 DEF Num, EagerTypes, Carriers, Questions, Asks
    <3>3. CASE mode # "SSEND"
      <4>1. m.type \in {"EAGER_SEND", "READY_SEND"} /\ call'[p] # h
        BY <1>4, <2>2, <3>1, <3>3 DEF EagerPacketType
      <4> QED
        BY <2>1, <3>3, <4>1 DEF Num, EagerTypes, Carriers, Questions, Asks
    <3> QED
      BY <3>2, <3>3
  <2>4. CASE ~IsEager(mode, size)
    BY <1>1, <1>5, <2>1, <2>2, <2>4 DEF Num, EagerTypes, Carriers, Questions, Asks
  <2> QED
    BY <2>3, <2>4
<1>7. /\ user'[p][h] = "request" /\ NoRecv(p, h)
      /\ \A a \in Proc, f \in Handle : a # p \/ f # h => user'[a][f] = user[a][f]
      /\ \A a \in Proc, f \in Handle : a # p \/ f # h => ((call'[a] = f) <=> (call[a] = f))
  <2>1. call' = call \/ \E v \in {h, None} : call' = [call EXCEPT ![p] = v]
    BY <1>5
  <2>2. \A f \in Handle : f # None
    BY NoneAssumption
  <2>3. \A a \in Proc : a # p => call'[a] = call[a]
    BY <2>1 DEF TypeOK
  <2>4. call'[p] \in {h, None}
    BY <1>1, <2>1 DEF TypeOK
  <2>5. /\ user'[p][h] = "request"
        /\ \A a \in Proc, f \in Handle : a # p \/ f # h => user'[a][f] = user[a][f]
    BY <1>1, UserType
  <2>6. NoRecv(p, h)
    BY <1>3, <1>4 DEF NoRecv
  <2>7. ASSUME NEW a \in Proc, NEW f \in Handle, a # p \/ f # h
        PROVE  (call'[a] = f) <=> (call[a] = f)
    <3>1. CASE a = p
      BY <1>1, <2>2, <2>4, <2>7, <3>1
    <3> QED
      BY <2>3, <3>1
  <2> QED
    BY <2>5, <2>6, <2>7
<1>8. /\ \A a \in Proc, f \in Handle : a # p \/ f # h => HandleRefs(a, f)'
      /\ CountsSame(p, h)
      /\ \A d \in Proc, w \in BOOLEAN :
           /\ IsFiniteSet(Debtors(p, d, h)') /\ TokensAs(p, d, h, w) \in Nat
           /\ d = q => TokensAs(p, d, h, w)' =
                         TokensAs(p, d, h, w) + Carries(m, h) + Questioning(m, h)
           /\ d # q => TokensAs(p, d, h, w)' = TokensAs(p, d, h, w)
  BY <1>1, <1>2, <1>5, <1>6, <1>7, SendOthers
<1>9. \A c \in Proc, w \in BOOLEAN : TokensAs(p, c, h, w) = 0
  BY <1>3, FreeRefs
<1>10. SendRefs(p, h)'
  <2>1. PICK w \in BOOLEAN : w = Awaits(req[p][h])'
    BY DEF Awaits
  <2>2. Carries(m, h) \in {0, 1} /\ Questioning(m, h) \in {0, 1}
    BY WeightTypes
  <2>3. \A c \in Proc :
          /\ IsFiniteSet(Debtors(p, c, h)')
          /\ TokensAs(p, c, h, w)' > 0 => IsSend(req'[p][h]) /\ req'[p][h].rank = c
    BY <1>4, <1>8, <1>9
  <2>4. TokensAs(p, q, h, w)' = Carries(m, h) + Questioning(m, h)
    BY <1>8, <1>9, <2>2
  <2>5. Num(user'[p][h] # "none") = 1
    BY <1>7 DEF Num
  <2>6. req'[p][h].ref + Num(call'[p] = h) = Num(user'[p][h] # "none") + TokensAs(p, q, h, w)'
    BY <1>2, <1>6, <2>4, <2>5
  <2> QED
    BY <1>2, <1>4, <2>1, <2>3, <2>6, SendRefsNext
<1>11. RecvRefs(p, h)'
  BY <1>3, <1>7, <1>8, RecvNever DEF HandleRefs, NoRecv
<1>12. KeptInv(p, h)'
  BY <1>2, <1>4 DEF KeptInv, IsSend
<1> QED
  BY <1>8, <1>10, <1>11, <1>12 DEF HandlesOK, HandleRefs

LEMMA CancelSendRefs ==
  ASSUME TypeOK, TypeOK', HandlesOK, NEW p \in Proc, NEW h \in Handle, CancelSend(p, h)
  PROVE  HandlesOK'
<1> DEFINE m == [type |-> "CANCEL_SEND_REQ", sreq |-> h, tag |-> req[p][h].tag]
<1>0. /\ UNCHANGED <<posted, unexpected, wire, reading, user>>
      /\ call[p] = None /\ call' = [call EXCEPT ![p] = h]
      /\ IsSend(req[p][h]) /\ req[p][h].msgType # "SELF"
      /\ user[p][h] = "request" /\ SendPacket(p, req[p][h].rank, m)
  BY DEF CancelSend, MayCancelSend, MayCall, queues
<1>1. HandleRefs(p, h)
  BY DEF HandlesOK
<1>2. PICK q \in Proc : q = req[p][h].rank
  BY <1>0, <1>1 DEF HandleRefs, SendRefs
<1>3. p # q
  BY <1>0, <1>1, <1>2 DEF HandleRefs, KeptInv
<1>4. m \in Packet /\ m.type = "CANCEL_SEND_REQ" /\ m.sreq = h
  <2>1. req[p][h].tag \in Tag \cup {None}
    BY RequestFields DEF TypeOK
  <2> QED
    BY <2>1 DEF Packet
<1> HIDE DEF m
<1>5. Others(p, {h}) /\ Asked(req[p][h], req'[p][h])
  BY CancelSendReq
<1>6. /\ req'[p][h].type = req[p][h].type /\ req'[p][h].rank = req[p][h].rank
      /\ req'[p][h].msgType = req[p][h].msgType /\ req'[p][h].ref = req[p][h].ref
  BY <1>5 DEF Asked, Core
<1>7. NoRecv(p, h) /\ Carries(m, h) = 0 /\ Questioning(m, h) = 1
  BY <1>0, <1>4, <1>6, PacketWeights
  DEF NoRecv, IsSend, Num, Carriers, Questions, Asks, EagerTypes
<1>8. /\ call'[p] = h /\ call[p] # h
      /\ \A a \in Proc, f \in Handle : a # p \/ f # h => user'[a][f] = user[a][f]
      /\ \A a \in Proc, f \in Handle : a # p \/ f # h => ((call'[a] = f) <=> (call[a] = f))
  <2>1. user' = user /\ call[p] = None /\ h # None
    BY <1>0, NoneAssumption
  <2>2. call'[p] = h /\ \A a \in Proc : a # p => call'[a] = call[a]
    BY <1>0, CallSet
  <2>3. ASSUME NEW a \in Proc, NEW f \in Handle, a # p \/ f # h
        PROVE  user'[a][f] = user[a][f] /\ ((call'[a] = f) <=> (call[a] = f))
    <3>1. CASE a = p
      <4>1. call'[a] # f /\ call[a] # f
        BY <2>1, <2>2, <2>3, <3>1, NoneAssumption
      <4> QED
        BY <2>1, <4>1
    <3>2. CASE a # p
      <4>1. call'[a] = call[a]
        BY <2>2, <3>2
      <4> QED
        BY <2>1, <4>1
    <3> QED
      BY <3>1, <3>2
  <2> QED
    BY <2>1, <2>2, <2>3
<1>9. /\ \A a \in Proc, f \in Handle : a # p \/ f # h => HandleRefs(a, f)'
      /\ CountsSame(p, h)
      /\ \A d \in Proc, w \in BOOLEAN :
           /\ IsFiniteSet(Debtors(p, d, h)') /\ TokensAs(p, d, h, w) \in Nat
           /\ d = q => TokensAs(p, d, h, w)' =
                         TokensAs(p, d, h, w) + Carries(m, h) + Questioning(m, h)
           /\ d # q => TokensAs(p, d, h, w)' = TokensAs(p, d, h, w)
  BY <1>0, <1>2, <1>3, <1>4, <1>5, <1>7, <1>8, SendOthers
<1>10. SendRefs(p, h)'
  <2> DEFINE dt == 1
             dr == 0
  <2>1. \A w \in BOOLEAN : TokensAs(p, q, h, w)' = TokensAs(p, q, h, w) + dt
    BY <1>7, <1>9
  <2>2. req[p][h].ref > 0 /\ req[p][h].ref \in Int
    BY <1>0, <1>1, KindOf DEF HandleRefs, SendRefs
  <2>3. /\ dt \in Int /\ dr \in Int
        /\ req'[p][h].ref = req[p][h].ref + dr /\ req[p][h].ref + dr > 0
        /\ dr + Num(call'[p] = h) - Num(call[p] = h) =
             Num(user'[p][h] # "none") - Num(user[p][h] # "none") + dt
    BY <1>0, <1>6, <1>8, <2>2 DEF Num
  <2> HIDE DEF dt, dr
  <2> QED
    BY <1>0, <1>1, <1>2, <1>6, <1>9, <2>1, <2>3, SendLives DEF HandleRefs
<1>11. RecvRefs(p, h)'
  BY <1>0, <1>1, <1>7, <1>9, RecvNever DEF HandleRefs, NoRecv
<1>12. KeptInv(p, h)'
  BY <1>0, <1>1, <1>6 DEF HandleRefs, KeptInv, IsSend
<1> QED
  BY <1>9, <1>10, <1>11, <1>12 DEF HandlesOK, HandleRefs

(* Receive c of p, of a message of b, counts the payload that is to come. *)
RecvTaken(p, b, c) ==
  /\ TokensSame(p, c)
  /\ UnderWay(p, b, c)' =
       UnderWay(p, b, c) + IF req[p][c].msgType = "RNDV" THEN 1 ELSE 0
  /\ \A a \in Proc : a # b => UnderWay(p, a, c)' = 0

(* A receive takes the message that waits for it, and owes nothing more: *)
(* what it owed is the answer it puts on the connection. *)
LEMMA TakeRefs ==
  ASSUME TypeOK, TypeOK', HandlesOK, NEW p \in Proc, NEW c \in Handle,
         NumQueued(p, c) # 0 \/ user[p][c] = "message",
         NEW r \in Request, Core(req[p][c], r), r.ref = req[p][c].ref,
         HandleRecvMsgType(p, c, r),
         NEW x \in {c, None}, ArriveStep(p, x, None), NumQueued(p, c)' = 0,
         UNCHANGED <<posted, wire, reading, call>>, user'[p][c] = "request",
         \A a \in Proc, f \in Handle : a # p \/ f # c => user'[a][f] = user[a][f]
  PROVE  HandlesOK'
<1> DEFINE dr == IF req[p][c].msgType = "RNDV" THEN 1 ELSE 0
<1>1. OthersKept(p, c) /\ Core(req[p][c], req'[p][c]) /\ req'[p][c].ref = req[p][c].ref + dr
  <2>1. /\ OthersKept(p, c) /\ Same(r, req'[p][c])
        /\ req'[p][c].ref = r.ref + IF r.msgType = "RNDV" THEN 1 ELSE 0
    BY RecvTypeReq
  <2> QED
    BY <2>1 DEF Same, Core
<1>2. /\ req'[p][c].type = req[p][c].type /\ req'[p][c].rank = req[p][c].rank
      /\ req'[p][c].msgType = req[p][c].msgType
      /\ Owes(req'[p][c]) <=> Owes(req[p][c])
  BY <1>1 DEF Core, Owes
<1>3. PICK b \in Proc : b = req[p][c].rank
  BY WaitingIsRecv
<1>4. /\ req[p][c].type = "RECV" /\ NumPosted(p, c) = 0 /\ call[p] # c
      /\ NumQueued(p, c) = IF user[p][c] = "message" THEN 0 ELSE 1
      /\ user[p][c] # "message" => user[p][c] = "none"
      /\ RecvWith(p, b, c)
  BY <1>3, WaitingIsRecv
<1>5. UnderWay(p, b, c) \in Nat
  BY UnderWayNat
<1>6. /\ \A a \in Proc : a # b => UnderWay(p, a, c) = 0
      /\ Owes(req[p][c]) =>
           req[p][c].senderReq \in Handle /\ b # p /\ req[p][c].msgType # "SELF"
      /\ req[p][c].ref = 1 + UnderWay(p, b, c)
  <2>1. Num(user[p][c] # "none") + NumQueued(p, c) = 1
    BY <1>4 DEF Num
  <2>2. req[p][c].ref = Num(user[p][c] # "none") + NumPosted(p, c) + NumQueued(p, c)
                          + UnderWay(p, b, c)
    BY <1>4 DEF RecvWith
  <2>3. NumQueued(p, c) \in Nat /\ Num(user[p][c] # "none") \in Nat
    BY QueueCounts DEF Num
  <2>4. NumQueued(p, c) > 0 \/ user[p][c] = "message"
    BY <2>3
  <2> QED
    BY <1>4, <1>5, <2>1, <2>2, <2>3, <2>4 DEF RecvWith
<1>7. HandleRefs(p, c)
  BY DEF HandlesOK
<1>8. PostStep(p, None, None) /\ ReadingStep(p, b, None, None)
  BY PostedSame, ReadingSame
<1>9. \A a \in Proc, f \in Handle : a # p \/ f # c => Kept(a, f)
  BY <1>1 DEF OthersKept
<1>10. \A a \in Proc, f \in Handle : (call'[a] = f) <=> (call[a] = f)
  OBVIOUS
<1>11. NumPosted(p, c)' = 0
  BY <1>4 DEF NumPosted
<1> HIDE DEF dr
<1>12. ASSUME ~Owes(req[p][c])
       PROVE  /\ \A a \in Proc, f \in Handle : a # p \/ f # c => HandleRefs(a, f)'
              /\ RecvTaken(p, b, c)
  <2>1. sendq' = sendq /\ dr = 0
    BY <1>12 DEF HandleRecvMsgType, TakeEager, TakeRndv, TakeSelf, Core, Owes, dr
  <2>2. \A a \in Proc, f \in Handle : a # p \/ f # c => CountsSame(a, f)
    <3> SUFFICES ASSUME NEW a \in Proc, NEW f \in Handle, a # p \/ f # c
                 PROVE  CountsSame(a, f)
      OBVIOUS
    <3>1. f # None
      BY NoneAssumption
    <3> QED
      BY <1>8, <2>1, <3>1, CountsElsewhere
  <2>3. ~Owing(p, c) /\ ~Owing(p, c)'
    BY <1>2, <1>12 DEF Owing
  <2>4. /\ \A a \in Proc, f \in Handle : TokensSame(a, f)
        /\ \A a \in Proc, f \in Handle : a # p \/ f # c => HandleRefs(a, f)'
    <3>1. PICK S : S = {c}
      OBVIOUS
    <3>2. \A a \in Proc, f \in Handle : a # p \/ f \notin S =>
            /\ Kept(a, f) /\ user'[a][f] = user[a][f] /\ CountsSame(a, f)
            /\ (call'[a] = f) <=> (call[a] = f)
      BY <1>9, <1>10, <2>2, <3>1
    <3>3. \A f \in Handle : f \in S => SameDebts(p, f)
      BY <2>3, <3>1, NoDebts
    <3>4. /\ \A a \in Proc, f \in Handle : TokensSame(a, f)
          /\ \A a \in Proc, f \in Handle : a # p \/ f \notin S => HandleRefs(a, f)'
      BY <2>1, <3>2, <3>3, QuietOthers
    <3> QED
      BY <3>1, <3>4
  <2>5. \A a \in Proc : UnderWay(p, a, c)' = UnderWay(p, a, c)
    BY <2>1, NetSame DEF UnderWay
  <2>6. RecvTaken(p, b, c)
    BY <1>5, <1>6, <2>1, <2>4, <2>5 DEF RecvTaken, dr
  <2> QED
    BY <2>4, <2>6
<1>13. ASSUME Owes(req[p][c])
       PROVE  /\ \A a \in Proc, f \in Handle : a # p \/ f # c => HandleRefs(a, f)'
              /\ RecvTaken(p, b, c)
  <2>1. PICK s \in Handle : s = req[p][c].senderReq
    BY <1>6, <1>13
  <2>2. b # p /\ req[p][c].msgType # "SELF"
    BY <1>6, <1>13
  <2>3. PICK m \in Packet :
          /\ SendPacket(p, b, m) /\ m.sreq = s
          /\ IF req[p][c].msgType = "RNDV" THEN m.type = "CTS" /\ m.rreq = c
             ELSE m.type = "SYNC_ACK"
    <3>1. /\ r.msgType = req[p][c].msgType /\ r.rank = b /\ r.senderReq = s
          /\ r.syncAck = req[p][c].syncAck
      BY <1>3, <2>1 DEF Core
    <3>2. CASE req[p][c].msgType = "RNDV"
      <4> DEFINE m == [type |-> "CTS", sreq |-> s, rreq |-> c]
      <4>1. m \in Packet
        BY <2>1 DEF Packet
      <4>2. SendPacket(p, b, m)
        BY <3>1, <3>2 DEF HandleRecvMsgType, TakeEager, TakeRndv, TakeSelf
      <4> QED
        BY <3>2, <4>1, <4>2
    <3>3. CASE req[p][c].msgType # "RNDV"
      <4> DEFINE m == [type |-> "SYNC_ACK", sreq |-> s]
      <4>1. m \in Packet
        BY <2>1 DEF Packet
      <4>2. r.syncAck
        BY <1>13, <3>1, <3>3 DEF Owes
      <4>3. SendPacket(p, b, m)
        BY <2>2, <3>1, <3>3, <4>2 DEF HandleRecvMsgType, TakeEager, TakeRndv, TakeSelf
      <4> QED
        BY <3>3, <4>1, <4>3
    <3> QED
      BY <3>2, <3>3
  <2>4. NetStep(p, b, Nil, m) /\ QueueStep(p, b, Nil, m)
    BY <2>3, StepSend
  <2>5. /\ m.type \in {"CTS", "SYNC_ACK"}
        /\ \A f : Num(m \in Coming(f)) = 0
        /\ \A f : Num(m \in Cleared(f)) = IF f = c THEN dr ELSE 0
        /\ \A f : Carries(m, f) = 0 /\ Questioning(m, f) = 0
        /\ \A f, w : Answering(m, f, w) = Num(s = f)
    <3>1. m.type \in {"CTS", "SYNC_ACK"}
      BY <2>3
    <3>2. \A f : Num(m \in Coming(f)) = 0
      BY <3>1, PacketWeights DEF Num
    <3>3. \A f : Num(m \in Cleared(f)) = IF f = c THEN dr ELSE 0
      BY <2>3, PacketWeights DEF Num, dr
    <3>4. \A f : Carries(m, f) = 0 /\ Questioning(m, f) = 0
      BY <3>1, PacketWeights DEF Num, Carriers, Questions, Asks, EagerTypes
    <3>5. \A f, w : Answering(m, f, w) = Num(s = f)
      BY <2>3, <3>1, PacketWeights
    <3> QED
      BY <3>1, <3>2, <3>3, <3>4, <3>5
  <2>6. \A a \in Proc, f \in Handle : a # p \/ f # c => CountsSame(a, f)
    <3> SUFFICES ASSUME NEW a \in Proc, NEW f \in Handle, a # p \/ f # c
                 PROVE  CountsSame(a, f)
      OBVIOUS
    <3>1. f # None
      BY NoneAssumption
    <3>2. /\ Num(None = f) = 0 /\ Num(Nil \in Coming(f)) = 0 /\ Num(Nil \in Cleared(f)) = 0
      BY <3>1, NilWeights DEF Num
    <3>3. a = p => f \notin {None, x}
      BY <3>1
    <3>4. a = p => Num(m \in Cleared(f)) + Num(None = f) = Num(Nil \in Coming(f)) + Num(None = f)
      BY <2>5, <3>2
    <3>5. a = b => Num(m \in Coming(f)) = Num(Nil \in Cleared(f))
      BY <2>5, <3>2
    <3> QED
      BY <1>8, <2>2, <2>4, <3>1, <3>3, <3>4, <3>5, FlowCountsSame
  <2>7. DebtStep(p, c)
    <3>1. \A a \in Proc, f \in Handle : a # p \/ f # c => LeftAlone(a, f) \/ NoRecv(a, f)
      BY <1>9, <2>6 DEF LeftAlone, CountsSame
    <3> QED
      BY <3>1, OthersDebts
  <2>8. \A a \in Proc, h \in Handle :
          /\ OwesAnswer(p, c, a, h) <=> a = b /\ h = s
          /\ ~OwesAnswer(p, c, a, h)'
    <3> SUFFICES ASSUME NEW a \in Proc, NEW h \in Handle
                 PROVE  /\ OwesAnswer(p, c, a, h) <=> a = b /\ h = s
                        /\ ~OwesAnswer(p, c, a, h)'
      OBVIOUS
    <3>1. NumQueued(p, c) > 0 \/ user[p][c] = "message"
      BY <1>4
    <3>2. ~(NumQueued(p, c)' > 0 \/ user'[p][c] = "message")
      OBVIOUS
    <3> QED
      BY <1>3, <1>4, <1>13, <2>1, <3>1, <3>2, OwesForm, OwesFormNext
  <2>9. /\ \A h \in Handle, w \in BOOLEAN :
             /\ Carries(m, h) + Questioning(m, h) = Carries(Nil, h) + Answering(Nil, h, w)
             /\ Answering(m, h, w) + Num(OwesAnswer(p, c, b, h)') =
                  Questioning(Nil, h) + Num(OwesAnswer(p, c, b, h))
        /\ \A a \in Proc, h \in Handle : a # b =>
             (OwesAnswer(p, c, a, h)' <=> OwesAnswer(p, c, a, h))
    <3>1. \A h : Carries(Nil, h) = 0 /\ Questioning(Nil, h) = 0
      BY NilWeights
    <3>2. \A h, w : Answering(Nil, h, w) = 0
      BY NilWeights
    <3> QED
      BY <2>5, <2>8, <3>1, <3>2 DEF Num
  <2>10. \A a \in Proc, f \in Handle : a # p \/ f # c => HandleRefs(a, f)'
    <3>1. PICK S : S = {c}
      OBVIOUS
    <3>2. \A a \in Proc, f \in Handle : a # p \/ f \notin S =>
           /\ Kept(a, f) /\ user'[a][f] = user[a][f] /\ CountsSame(a, f)
           /\ (call'[a] = f) <=> (call[a] = f)
      BY <1>9, <1>10, <2>6, <3>1
    <3>3. \A h \in Handle : h \notin S => \A w \in BOOLEAN :
           Carries(m, h) + Questioning(m, h) = Carries(Nil, h) + Answering(Nil, h, w)
      BY <2>9
    <3>4. \A h \in Handle, w \in BOOLEAN :
           Answering(m, h, w) + Num(OwesAnswer(p, c, b, h)') =
             Questioning(Nil, h) + Num(OwesAnswer(p, c, b, h))
      BY <2>9
    <3>5. \A a \in Proc, f \in Handle : a # p \/ f \notin S => HandleRefs(a, f)'
      BY <2>2, <2>4, <2>7, <2>9, <3>2, <3>3, <3>4, FlowOthers
    <3> QED
      BY <3>1, <3>5
  <2>11. TokensSame(p, c)
    <3>1. p = p => \A w \in BOOLEAN :
           Carries(m, c) + Questioning(m, c) = Carries(Nil, c) + Answering(Nil, c, w)
      BY <2>9
    <3>2. p # b
      BY <2>2
    <3> QED
      BY <2>4, <2>7, <2>9, <3>1, <3>2, FlowTokens
  <2>12. RecvTaken(p, b, c)
    <3>1. UnderWay(p, b, c)' = UnderWay(p, b, c) + Num(m \in Cleared(c))
                - Num(Nil \in Coming(c)) - Num(None = c) + Num(None = c)
      BY <1>8, <2>2, <2>4, UnderWayStep
    <3>2. Num(m \in Cleared(c)) = dr /\ Num(Nil \in Coming(c)) = 0 /\ Num(None = c) = 0
      BY <2>5, NilWeights, NoneAssumption DEF Num
    <3>3. \A a \in Proc : a # b => UnderWay(p, a, c)' = UnderWay(p, a, c)
      BY <1>8, <2>2, <2>4, UnderWayStep
    <3>4. dr \in {0, 1}
      BY DEF dr
    <3> QED
      BY <1>5, <1>6, <2>11, <3>1, <3>2, <3>3, <3>4 DEF RecvTaken, dr
  <2> QED
    BY <2>10, <2>12
<1>14. /\ \A a \in Proc, f \in Handle : a # p \/ f # c => HandleRefs(a, f)'
       /\ RecvTaken(p, b, c)
  BY <1>12, <1>13
<1>15. HandleRefs(p, c)'
  <2>1. SendRefs(p, c)'
    BY <1>2, <1>4, <1>7, <1>14, RecvNoSend DEF RecvTaken
  <2>2. Num(user'[p][c] # "none") = 1
    BY DEF Num
  <2>3. req'[p][c].ref = 1 + UnderWay(p, b, c)' /\ UnderWay(p, b, c)' \in Nat
    BY <1>1, <1>5, <1>6, <1>14 DEF RecvTaken, dr
  <2>4. RecvWith(p, b, c)'
    BY <1>11, <1>14, <2>2, <2>3 DEF RecvWith, RecvTaken
  <2>5. RecvRefs(p, c)'
    BY <1>2, <1>4, <1>11, <2>3, <2>4 DEF RecvRefs
  <2>6. KeptInv(p, c)'
    BY <1>2, <1>4 DEF KeptInv, IsSend
  <2> QED
    BY <2>1, <2>5, <2>6 DEF HandleRefs
<1> QED
  BY <1>14, <1>15 DEF HandlesOK

LEMMA RecvFoundRefs ==
  ASSUME TypeOK, TypeOK', HandlesOK, NEW p \in Proc, NEW f \in Filters,
         NEW i \in 1 .. Len(unexpected[p]), RecvFound(p, f, i)
  PROVE  HandlesOK'
<1>1. PICK c \in Handle : c = unexpected[p][i].rreq
  BY RecvFoundReq
<1> DEFINE r == [req[p][c] EXCEPT !.id = Len(rcvd[p]) + 1]
<1>2. /\ UNCHANGED <<posted, wire, reading, call>>
      /\ unexpected' = [unexpected EXCEPT ![p] = RemoveAt(@, i)]
      /\ user' = [user EXCEPT ![p][c] = "request"]
      /\ HandleRecvMsgType(p, c, r)
  BY <1>1 DEF RecvFound, DequeueFor
<1>3. /\ user'[p][c] = "request"
      /\ \A a \in Proc, g \in Handle : a # p \/ g # c => user'[a][g] = user[a][g]
  BY <1>2, UserType
<1>4. NumQueued(p, c) = 1
  BY <1>1, ArrivalIsRecv
<1>5. ArriveStep(p, c, None)
  BY <1>1, <1>2, ArrivedTake
<1>6. NumQueued(p, c)' = 0
  <2>1. NumQueued(p, c)' = NumQueued(p, c) - Num(p = p /\ c = c) + Num(p = p /\ None = c)
    BY <1>5 DEF ArriveStep
  <2> QED
    BY <1>4, <2>1, NoneAssumption DEF Num
<1>7. r \in Request /\ Core(req[p][c], r) /\ r.ref = req[p][c].ref
  <2>1. req[p][c] \in Request
    BY DEF TypeOK
  <2>2. Len(rcvd[p]) + 1 \in Nat
    BY DEF TypeOK
  <2> QED
    BY <2>1, <2>2, Field, FieldType
<1> HIDE DEF r
<1>8. NumQueued(p, c) # 0 \/ user[p][c] = "message"
  BY <1>4
<1>9. c \in {c, None}
  OBVIOUS
<1> QED
  BY <1>2, <1>3, <1>5, <1>6, <1>7, <1>8, <1>9, TakeRefs

LEMMA ImrecvRefs ==
  ASSUME TypeOK, TypeOK', HandlesOK, NEW p \in Proc, NEW c \in Handle, Imrecv(p, c)
  PROVE  HandlesOK'
<1>1. /\ UNCHANGED <<posted, unexpected, wire, reading, call>>
      /\ user[p][c] = "message" /\ user' = [user EXCEPT ![p][c] = "request"]
      /\ HandleRecvMsgType(p, c, req[p][c])
  BY DEF Imrecv, queues
<1>2. /\ user'[p][c] = "request"
      /\ \A a \in Proc, g \in Handle : a # p \/ g # c => user'[a][g] = user[a][g]
  BY <1>1, UserType
<1>3. NumQueued(p, c) = 0
  BY <1>1, WaitingIsRecv
<1>4. ArriveStep(p, None, None) /\ NumQueued(p, c)' = 0
  BY <1>1, <1>3, ArrivedSame DEF NumQueued
<1>5. PICK r \in Request : r = req[p][c]
  BY DEF TypeOK
<1>6. Core(req[p][c], r) /\ r.ref = req[p][c].ref
  BY <1>5 DEF Core
<1>7. NumQueued(p, c) # 0 \/ user[p][c] = "message"
  BY <1>1
<1>8. None \in {c, None} /\ HandleRecvMsgType(p, c, r)
  BY <1>1, <1>5
<1> QED
  BY <1>1, <1>2, <1>4, <1>6, <1>7, <1>8, TakeRefs

LEMMA NoAnswer ==
  ASSUME NEW k \in Packet, k.type \notin Answers, NEW h, NEW w
  PROVE  Answering(k, h, w) = 0
BY PacketWeights

(* An answer to a message: a clear-to-send or an acknowledgement. *)
LEMMA AnswerWeights ==
  ASSUME NEW m \in Packet, m.type \in {"CTS", "SYNC_ACK"}, NEW h, NEW w
  PROVE  /\ Carries(m, h) = 0 /\ Questioning(m, h) = 0 /\ Answering(m, h, w) = Num(m.sreq = h)
         /\ Num(m \in Coming(h)) = 0
         /\ Num(m \in Cleared(h)) = Num(m.type = "CTS" /\ m.rreq = h)
<1>1. Carries(m, h) = 0 /\ Questioning(m, h) = 0
  BY PacketWeights DEF Num, Carriers, Questions, Asks, EagerTypes
<1>2. Answering(m, h, w) = Num(m.sreq = h)
  BY PacketWeights
<1>3. Num(m \in Coming(h)) = 0 /\ Num(m \in Cleared(h)) = Num(m.type = "CTS" /\ m.rreq = h)
  BY PacketWeights DEF Num
<1> QED
  BY <1>1, <1>2, <1>3

(* A message that arrives and finds receive g posted: the queue's reference *)
(* passes to the payload that is to come, if any. *)
LEMMA FoundRefs ==
  ASSUME TypeOK, TypeOK', HandlesOK, NEW q \in Proc, NEW p \in Proc, p # q, NEW k, NEW m,
         NetStep(q, p, k, m), QueueStep(q, p, Nil, m),
         NEW i \in 1 .. Len(posted[q]), NEW g \in Handle, g = posted[q][i].rreq,
         PostStep(q, g, None), UNCHANGED <<user, unexpected, call>>,
         NEW v \in {g, None}, ReadingStep(q, p, None, v), Others(q, {g}), NEW z \in {0, 1},
         \A f \in Handle : /\ Num(m \in Coming(f)) = 0 /\ Num(k \in Coming(f)) = 0
                           /\ Num(k \in Cleared(f)) = 0
                           /\ Num(m \in Cleared(f)) + Num(v = f) = IF f = g THEN z ELSE 0,
         \A h \in Handle, w \in BOOLEAN :
           /\ Carries(m, h) = 0 /\ Questioning(m, h) = 0 /\ Answering(k, h, w) = 0
           /\ Answering(m, h, w) = Questioning(k, h),
         IF z = 0 /\ req[q][g].ref = 1 THEN Returned(req[q][g], req'[q][g])
         ELSE req'[q][g].type = req[q][g].type /\ req'[q][g].ref = req[q][g].ref - (1 - z)
  PROVE  HandlesOK'
<1>1. /\ req[q][g].type = "RECV" /\ user[q][g] # "message"
      /\ NumPosted(q, g) = 1 /\ NumQueued(q, g) = 0
      /\ \A a \in Proc : UnderWay(q, a, g) = 0 /\ RecvWith(q, a, g)
      /\ req[q][g].ref = Num(user[q][g] # "none") + 1 /\ call[q] # g
  BY PostedIsRecv
<1>2. HandleRefs(q, g)
  BY DEF HandlesOK
<1>3. ArriveStep(q, None, None) /\ NumQueued(q, g)' = 0
  BY <1>1, ArrivedSame DEF NumQueued
<1>4. \A a \in Proc, f \in Handle : a # q \/ f # g => Kept(a, f) /\ CountsSame(a, f)
  <2> SUFFICES ASSUME NEW a \in Proc, NEW f \in Handle, a # q \/ f # g
               PROVE  Kept(a, f) /\ CountsSame(a, f)
    OBVIOUS
  <2>1. f # None
    BY NoneAssumption
  <2>2. Num(None = f) = 0
    BY <2>1 DEF Num
  <2>3. a = q => f \notin {g, None}
    BY <2>1
  <2>4. a = q => Num(m \in Cleared(f)) + Num(v = f) = Num(k \in Coming(f)) + Num(None = f)
    BY <2>2
  <2>5. a = p => Num(m \in Coming(f)) = Num(k \in Cleared(f))
    OBVIOUS
  <2>6. CountsSame(a, f)
    BY <1>3, <2>1, <2>3, <2>4, <2>5, FlowCountsSame
  <2> QED
    BY <2>6, KeptWhenSame DEF Others
<1>5. DebtStep(q, g)
  <2>1. \A a \in Proc, f \in Handle : a # q \/ f # g => LeftAlone(a, f) \/ NoRecv(a, f)
    BY <1>4 DEF LeftAlone, CountsSame
  <2> QED
    BY <2>1, OthersDebts
<1>6. \A a \in Proc, h \in Handle : ~OwesAnswer(q, g, a, h) /\ ~OwesAnswer(q, g, a, h)'
  <2>1. ~(NumQueued(q, g) > 0 \/ user[q][g] = "message")
    BY <1>1
  <2>2. ~(NumQueued(q, g)' > 0 \/ user'[q][g] = "message")
    BY <1>1, <1>3
  <2> QED
    BY <2>1, <2>2, OwesForm, OwesFormNext
<1>7. /\ \A h \in Handle, w \in BOOLEAN :
           /\ Carries(m, h) + Questioning(m, h) = Carries(Nil, h) + Answering(k, h, w)
           /\ Answering(m, h, w) + Num(OwesAnswer(q, g, p, h)') =
                Questioning(k, h) + Num(OwesAnswer(q, g, p, h))
      /\ \A a \in Proc, h \in Handle : a # p =>
           (OwesAnswer(q, g, a, h)' <=> OwesAnswer(q, g, a, h))
  BY <1>6, NilWeights DEF Num
<1>8. \A a \in Proc, f \in Handle : a # q \/ f # g => HandleRefs(a, f)'
  <2>1. PICK S : S = {g}
    OBVIOUS
  <2>2. \A a \in Proc, f \in Handle : a # q \/ f \notin S =>
           /\ Kept(a, f) /\ user'[a][f] = user[a][f] /\ CountsSame(a, f)
           /\ (call'[a] = f) <=> (call[a] = f)
    BY <1>4, <2>1
  <2>3. \A h \in Handle : h \notin S => \A w \in BOOLEAN :
           Carries(m, h) + Questioning(m, h) = Carries(Nil, h) + Answering(k, h, w)
    BY <1>7
  <2>4. \A h \in Handle, w \in BOOLEAN :
           Answering(m, h, w) + Num(OwesAnswer(q, g, p, h)') =
             Questioning(k, h) + Num(OwesAnswer(q, g, p, h))
    BY <1>7
  <2>5. \A a \in Proc, f \in Handle : a # q \/ f \notin S => HandleRefs(a, f)'
    BY <1>5, <1>7, <2>2, <2>3, <2>4, FlowOthers
  <2> QED
    BY <2>1, <2>5
<1>9. TokensSame(q, g)
  <2>1. q = q => \A w \in BOOLEAN :
           Carries(m, g) + Questioning(m, g) = Carries(Nil, g) + Answering(k, g, w)
    BY <1>7
  <2> QED
    BY <1>5, <1>7, <2>1, FlowTokens
<1>10. /\ UnderWay(q, p, g)' = z /\ \A a \in Proc : a # p => UnderWay(q, a, g)' = 0
       /\ NumPosted(q, g)' = 0
  <2>1. UnderWay(q, p, g)' = UnderWay(q, p, g) + Num(m \in Cleared(g))
                - Num(k \in Coming(g)) - Num(None = g) + Num(v = g)
    BY UnderWayStep
  <2>2. \A a \in Proc : a # p => UnderWay(q, a, g)' = UnderWay(q, a, g)
    BY UnderWayStep
  <2>3. Num(None = g) = 0 /\ Num(m \in Cleared(g)) \in {0, 1} /\ Num(v = g) \in {0, 1}
    BY NoneAssumption DEF Num
  <2>4. NumPosted(q, g)' = NumPosted(q, g) - Num(q = q /\ g = g) + Num(q = q /\ None = g)
    BY DEF PostStep
  <2>5. Num(q = q /\ g = g) = 1 /\ Num(q = q /\ None = g) = 0
    BY NoneAssumption DEF Num
  <2> QED
    BY <1>1, <2>1, <2>2, <2>3, <2>4, <2>5
<1>11. HandleRefs(q, g)'
  <2>1. req'[q][g].type \in {"RECV", "FREE"}
    BY <1>1 DEF Returned, FreeRequest
  <2>2. SendRefs(q, g)'
    BY <1>1, <1>2, <1>9, <2>1, RecvNoSend
  <2>3. user'[q][g] = user[q][g] /\ Num(user[q][g] # "none") \in {0, 1}
        /\ (Num(user[q][g] # "none") = 0 => user[q][g] = "none")
    BY DEF Num
  <2>4. CASE z = 0 /\ req[q][g].ref = 1
    <3>1. req'[q][g].type = "FREE" /\ req'[q][g].ref = 0 /\ user'[q][g] = "none"
      BY <1>1, <2>3, <2>4 DEF Returned, FreeRequest
    <3>2. \A a \in Proc : UnderWay(q, a, g)' = 0
      BY <1>10, <2>4
    <3>3. RecvRefs(q, g)'
      BY <1>3, <1>10, <3>1, <3>2 DEF RecvRefs, RecvIdle
    <3>4. KeptInv(q, g)'
      BY <1>1, <3>1 DEF KeptInv, IsSend
    <3> QED
      BY <2>2, <3>3, <3>4 DEF HandleRefs
  <2>5. CASE ~(z = 0 /\ req[q][g].ref = 1)
    <3>1. req'[q][g].type = "RECV" /\ req'[q][g].ref = Num(user[q][g] # "none") + z
      BY <1>1, <2>3, <2>5
    <3>2. req'[q][g].ref > 0
      BY <1>1, <2>3, <2>5, <3>1
    <3>3. RecvWith(q, p, g)'
      <4>1. \A a \in Proc : a # p => UnderWay(q, a, g)' = 0
        BY <1>10
      <4>2. ~(NumQueued(q, g)' > 0 \/ user'[q][g] = "message")
        BY <1>1, <1>3
      <4>3. Num(user'[q][g] # "none") = Num(user[q][g] # "none")
        BY <2>3
      <4>4. req'[q][g].ref = Num(user'[q][g] # "none") + NumPosted(q, g)' + NumQueued(q, g)'
                               + UnderWay(q, p, g)'
        BY <1>3, <1>10, <2>3, <3>1, <4>3
      <4> QED
        BY <4>1, <4>2, <4>4 DEF RecvWith
    <3>4. RecvRefs(q, g)'
      BY <1>3, <1>10, <3>1, <3>2, <3>3 DEF RecvRefs
    <3>5. KeptInv(q, g)'
      BY <1>1, <3>1 DEF KeptInv, IsSend
    <3> QED
      BY <2>2, <3>4, <3>5 DEF HandleRefs
  <2> QED
    BY <2>4, <2>5
<1> QED
  BY <1>8, <1>11 DEF HandlesOK

LEMMA HandleRtsFoundRefs ==
  ASSUME TypeOK, TypeOK', HandlesOK, NoLoops, NEW q \in Proc, NEW p \in Proc, NEW k,
         ReadPacket(q, p, k), NEW i \in 1 .. Len(posted[q]), HandleRtsFound(q, p, k, i)
  PROVE  HandlesOK'
<1>1. k \in Range(Flow(p, q)) /\ k \in Packet /\ p # q
  BY ReadIsThere
<1>2. PICK g \in Handle : g = posted[q][i].rreq
  BY <1>1, HandleRtsFoundReq
<1> DEFINE m == [type |-> "CTS", sreq |-> k.sreq, rreq |-> g]
<1>3. /\ UNCHANGED <<user, unexpected, reading, call>> /\ k.type = "RTS"
      /\ posted' = [posted EXCEPT ![q] = RemoveAt(@, i)] /\ SendPacket(q, p, m)
  BY <1>2 DEF HandleRtsFound
<1>4. m \in Packet /\ m.type = "CTS" /\ m.sreq = k.sreq /\ m.rreq = g
  BY <1>1, <1>3, PacketFields DEF Packet
<1> HIDE DEF m
<1>5. NetStep(q, p, k, m) /\ QueueStep(q, p, Nil, m)
  BY <1>1, <1>3, <1>4, StepReply
<1>6. PostStep(q, g, None) /\ ReadingStep(q, p, None, None)
  BY <1>2, <1>3, PostedTake, ReadingSame
<1> DEFINE z == 1
<1>7. \A f \in Handle : /\ Num(m \in Coming(f)) = 0 /\ Num(k \in Coming(f)) = 0
                        /\ Num(k \in Cleared(f)) = 0
                        /\ Num(m \in Cleared(f)) + Num(None = f) = IF f = g THEN z ELSE 0
  BY <1>1, <1>3, <1>4, PacketWeights, NoneAssumption DEF Num
<1>8. \A h \in Handle, w \in BOOLEAN :
           /\ Carries(m, h) = 0 /\ Questioning(m, h) = 0 /\ Answering(k, h, w) = 0
           /\ Answering(m, h, w) = Questioning(k, h)
  <2> SUFFICES ASSUME NEW h \in Handle, NEW w \in BOOLEAN
               PROVE  /\ Carries(m, h) = 0 /\ Questioning(m, h) = 0 /\ Answering(k, h, w) = 0
                      /\ Answering(m, h, w) = Questioning(k, h)
    OBVIOUS
  <2>1. Carries(m, h) = 0 /\ Questioning(m, h) = 0 /\ Answering(m, h, w) = Num(k.sreq = h)
    BY <1>4, PacketWeights DEF Num, Carriers, Questions, Asks, EagerTypes
  <2>2. Answering(k, h, w) = 0 /\ Questioning(k, h) = Num(k.sreq = h)
    BY <1>1, <1>3, PacketWeights DEF Num, Questions, Asks, Answers
  <2> QED
    BY <2>1, <2>2
<1>9. /\ Others(q, {g})
      /\ req'[q][g].type = req[q][g].type /\ req'[q][g].ref = req[q][g].ref - (1 - z)
      /\ ~(z = 0 /\ req[q][g].ref = 1)
  <2>1. req[q][g].ref = Num(user[q][g] # "none") + 1
    BY <1>2, PostedIsRecv
  <2>2. req[q][g].ref # 0
    BY <2>1 DEF Num
  <2>3. /\ Others(q, {g})
        /\ req'[q][g].type = req[q][g].type /\ req'[q][g].ref = req[q][g].ref
    BY <1>1, <1>2, <2>2, HandleRtsFoundReq DEF Told
  <2>4. req[q][g].ref \in Int
    BY KindOf
  <2> QED
    BY <2>3, <2>4
<1>10. z \in {0, 1} /\ None \in {g, None}
  OBVIOUS
<1> HIDE DEF z
<1> QED
  BY <1>1, <1>2, <1>3, <1>5, <1>6, <1>7, <1>8, <1>9, <1>10, FoundRefs

LEMMA HandleEagerFoundRefs ==
  ASSUME TypeOK, TypeOK', HandlesOK, NoLoops, NEW q \in Proc, NEW p \in Proc, NEW k,
         ReadPacket(q, p, k), NEW i \in 1 .. Len(posted[q]), HandleEagerFound(q, p, k, i)
  PROVE  HandlesOK'
<1>1. k \in Range(Flow(p, q)) /\ k \in Packet /\ p # q
  BY ReadIsThere
<1>2. PICK g \in Handle : g = posted[q][i].rreq
  BY <1>1, HandleEagerFoundReq
<1> DEFINE m == IF k.type = "EAGER_SYNC_SEND" THEN [type |-> "SYNC_ACK", sreq |-> k.sreq]
                ELSE Nil
           z == IF k.size = "zero" THEN 0 ELSE 1
           v == IF k.size = "zero" THEN None ELSE g
<1>3. /\ UNCHANGED <<user, unexpected, call>> /\ k.type \in EagerTypes
      /\ posted' = [posted EXCEPT ![q] = RemoveAt(@, i)]
      /\ IF k.type = "EAGER_SYNC_SEND" THEN SendPacket(q, p, m) ELSE UNCHANGED sendq
      /\ IF k.size = "zero" THEN UNCHANGED reading
         ELSE reading' = [reading EXCEPT ![q][p] = g]
      /\ reading[q][p] = None
  BY <1>2 DEF HandleEagerFound, ReadPacket
<1>4. /\ k.type = "EAGER_SYNC_SEND" => m \in Packet /\ m.type = "SYNC_ACK" /\ m.sreq = k.sreq
      /\ k.type # "EAGER_SYNC_SEND" => m = Nil
  BY <1>1, PacketFields DEF Packet
<1>5. z \in {0, 1} /\ v \in {g, None} /\ (z = 0 => v = None) /\ (z = 1 => v = g)
      /\ (z = 0 <=> k.size = "zero")
  OBVIOUS
<1> HIDE DEF m, z, v
<1>6. NetStep(q, p, k, m) /\ QueueStep(q, p, Nil, m)
  <2>1. CASE k.type = "EAGER_SYNC_SEND"
    BY <1>1, <1>3, <1>4, <2>1, StepReply
  <2>2. CASE k.type # "EAGER_SYNC_SEND"
    BY <1>1, <1>3, <1>4, <2>2, StepRead
  <2> QED
    BY <2>1, <2>2
<1>7. PostStep(q, g, None) /\ ReadingStep(q, p, None, v)
  <2>1. CASE z = 0
    BY <1>2, <1>3, <1>5, <2>1, PostedTake, ReadingSame
  <2>2. CASE z = 1
    <3>1. reading' = [reading EXCEPT ![q][p] = v]
      BY <1>3, <1>5, <2>2
    <3>2. ReadingStep(q, p, None, v)
      BY <1>3, <3>1, ReadingSet
    <3> QED
      BY <1>2, <1>3, <3>2, PostedTake
  <2> QED
    BY <1>5, <2>1, <2>2
<1>8. \A f \in Handle : /\ Num(m \in Coming(f)) = 0 /\ Num(k \in Coming(f)) = 0
                        /\ Num(k \in Cleared(f)) = 0
                        /\ Num(m \in Cleared(f)) + Num(v = f) = IF f = g THEN z ELSE 0
  <2> SUFFICES ASSUME NEW f \in Handle
      PROVE  /\ Num(m \in Coming(f)) = 0 /\ Num(k \in Coming(f)) = 0
             /\ Num(k \in Cleared(f)) = 0
             /\ Num(m \in Cleared(f)) + Num(v = f) = IF f = g THEN z ELSE 0
    OBVIOUS
  <2>1. Num(k \in Coming(f)) = 0 /\ Num(k \in Cleared(f)) = 0
    BY <1>1, <1>3, PacketWeights DEF Num, EagerTypes
  <2>2. Num(m \in Coming(f)) = 0 /\ Num(m \in Cleared(f)) = 0
    <3>1. CASE k.type = "EAGER_SYNC_SEND"
      BY <1>4, <3>1, PacketWeights DEF Num
    <3>2. CASE k.type # "EAGER_SYNC_SEND"
      BY <1>4, <3>2, NilWeights
    <3> QED
      BY <3>1, <3>2
  <2>3. Num(v = f) = IF f = g THEN z ELSE 0
    BY <1>5, NoneAssumption DEF Num
  <2>4. z \in {0, 1}
    BY <1>5
  <2> QED
    BY <2>1, <2>2, <2>3, <2>4
<1>9. \A h \in Handle, w \in BOOLEAN :
           /\ Carries(m, h) = 0 /\ Questioning(m, h) = 0 /\ Answering(k, h, w) = 0
           /\ Answering(m, h, w) = Questioning(k, h)
  <2> SUFFICES ASSUME NEW h \in Handle, NEW w \in BOOLEAN
               PROVE  /\ Carries(m, h) = 0 /\ Questioning(m, h) = 0 /\ Answering(k, h, w) = 0
                      /\ Answering(m, h, w) = Questioning(k, h)
    OBVIOUS
  <2>1. k.type \notin Answers
    BY <1>3 DEF Answers, EagerTypes
  <2>2. Answering(k, h, w) = 0
    BY <1>1, <2>1, NoAnswer
  <2>3. CASE k.type = "EAGER_SYNC_SEND"
    <3>1. Carries(m, h) = 0 /\ Questioning(m, h) = 0 /\ Answering(m, h, w) = Num(k.sreq = h)
      BY <1>4, <2>3, AnswerWeights
    <3>2. Questioning(k, h) = Num(k.sreq = h)
      BY <1>1, <2>3, PacketWeights DEF Num, Questions, Asks
    <3> QED
      BY <2>2, <3>1, <3>2
  <2>4. CASE k.type # "EAGER_SYNC_SEND"
    <3>1. Carries(m, h) = 0 /\ Questioning(m, h) = 0 /\ Answering(m, h, w) = 0
      BY <1>4, <2>4, NilWeights
    <3>2. Questioning(k, h) = 0
      BY <1>1, <1>3, <2>4, PacketWeights DEF Num, Questions, Asks, EagerTypes
    <3> QED
      BY <2>2, <3>1, <3>2
  <2> QED
    BY <2>3, <2>4
<1>10. /\ Others(q, {g})
       /\ IF z = 0 /\ req[q][g].ref = 1 THEN Returned(req[q][g], req'[q][g])
          ELSE req'[q][g].type = req[q][g].type /\ req'[q][g].ref = req[q][g].ref - (1 - z)
  <2>1. /\ Others(q, {g})
        /\ IF k.size # "zero"
           THEN req'[q][g].type = req[q][g].type /\ req'[q][g].ref = req[q][g].ref
           ELSE IF req[q][g].ref = 1 THEN Returned(req[q][g], req'[q][g])
           ELSE req'[q][g].type = req[q][g].type /\ req'[q][g].ref = req[q][g].ref - 1
    <3> DEFINE r == req[q][g]
               s == req'[q][g]
    <3>1. /\ Others(q, {g})
          /\ IF k.size # "zero" THEN Told(r, s, k, "EAGER") /\ s.ref = r.ref
             ELSE IF r.ref = 1 THEN Returned(r, s)
             ELSE Told(r, s, k, "EAGER") /\ s.ref = r.ref - 1
      <4>1. k \in Packet /\ TypeOK /\ HandleEagerFound(q, p, k, i)
        BY <1>1
      <4> QED
        BY <4>1, <1>2, HandleEagerFoundReq
    <3>2. Told(r, s, k, "EAGER") => s.type = r.type
      BY DEF Told
    <3> HIDE DEF r, s
    <3> QED
      BY <3>1, <3>2 DEF r, s
  <2>2. req[q][g].ref \in Int
    BY KindOf
  <2> QED
    BY <1>5, <2>1, <2>2
<1> QED
  BY <1>1, <1>2, <1>3, <1>5, <1>6, <1>7, <1>8, <1>9, <1>10, FoundRefs

(* A message that arrives and finds no receive: the request that is made *)
(* for it owes the answer that the packet asked for. *)
LEMMA UnexpectedRefs ==
  ASSUME TypeOK, TypeOK', HandlesOK, NEW q \in Proc, NEW p \in Proc, p # q, NEW k \in Packet,
         NetStep(q, p, k, Nil), QueueStep(q, p, Nil, Nil),
         k.type \in EagerTypes \cup {"RTS"},
         NEW g \in Handle, req[q][g].type = "FREE", ArriveStep(q, None, g),
         UNCHANGED <<user, posted, call>>,
         NEW v \in {g, None}, ReadingStep(q, p, None, v), Others(q, {g}),
         req'[q][g].type = "RECV", req'[q][g].rank = p, req'[q][g].senderReq = k.sreq,
         req'[q][g].msgType # "SELF", Owes(req'[q][g]) <=> k.type \in Asks,
         req'[q][g].ref = 1 + Num(v = g)
  PROVE  HandlesOK'
<1>1. HandleRefs(q, g)
  BY DEF HandlesOK
<1>2. /\ user[q][g] = "none" /\ call[q] # g
      /\ NumPosted(q, g) = 0 /\ NumQueued(q, g) = 0
      /\ \A c \in Proc : UnderWay(q, c, g) = 0
  BY <1>1, FreeRefs
<1>3. PostStep(q, None, None) /\ NumPosted(q, g)' = 0
  BY <1>2, PostedSame DEF NumPosted
<1>4. NumQueued(q, g)' = 1
  <2>1. NumQueued(q, g)' = NumQueued(q, g) - Num(q = q /\ None = g) + Num(q = q /\ g = g)
    BY DEF ArriveStep
  <2> QED
    BY <1>2, <2>1, NoneAssumption DEF Num
<1>5. /\ k.type \notin Answers /\ k.type # "CTS" /\ k.type # "RNDV_SEND"
      /\ k.type # "CANCEL_SEND_REQ" /\ k.sreq \in Handle
  BY PacketFields DEF Answers, EagerTypes
<1>6. \A h \in Handle :
        /\ Num(k \in Coming(h)) = 0 /\ Num(k \in Cleared(h)) = 0
        /\ Questioning(k, h) = Num(k.type \in Asks /\ k.sreq = h)
        /\ \A w : Answering(k, h, w) = 0
  <2> SUFFICES ASSUME NEW h \in Handle
      PROVE  /\ Num(k \in Coming(h)) = 0 /\ Num(k \in Cleared(h)) = 0
             /\ Questioning(k, h) = Num(k.type \in Asks /\ k.sreq = h)
             /\ \A w : Answering(k, h, w) = 0
    OBVIOUS
  <2>1. Num(k \in Coming(h)) = 0 /\ Num(k \in Cleared(h)) = 0
    BY <1>5, PacketWeights DEF Num
  <2>2. Questioning(k, h) = Num(k.type \in Questions /\ k.sreq = h)
    BY PacketWeights
  <2>3. k.type \in Questions <=> k.type \in Asks
    BY <1>5 DEF Questions
  <2>4. \A w : Answering(k, h, w) = 0
    BY <1>5, NoAnswer
  <2> QED
    BY <2>1, <2>2, <2>3, <2>4 DEF Num
<1>7. \A a \in Proc, f \in Handle : a # q \/ f # g => Kept(a, f) /\ CountsSame(a, f)
  <2> SUFFICES ASSUME NEW a \in Proc, NEW f \in Handle, a # q \/ f # g
               PROVE  Kept(a, f) /\ CountsSame(a, f)
    OBVIOUS
  <2>1. f # None
    BY NoneAssumption
  <2>2. Num(None = f) = 0 /\ Num(Nil \in Cleared(f)) = 0 /\ Num(Nil \in Coming(f)) = 0
    BY <2>1, NilWeights DEF Num
  <2>3. a = q => f \notin {None, g}
    BY <2>1
  <2>4. a = q => Num(Nil \in Cleared(f)) + Num(v = f) = Num(k \in Coming(f)) + Num(None = f)
    BY <1>6, <2>1, <2>2 DEF Num
  <2>5. a = p => Num(Nil \in Coming(f)) = Num(k \in Cleared(f))
    BY <1>6, <2>2
  <2>6. CountsSame(a, f)
    BY <1>3, <2>1, <2>3, <2>4, <2>5, FlowCountsSame
  <2> QED
    BY <2>6, KeptWhenSame DEF Others
<1>8. DebtStep(q, g)
  <2>1. \A a \in Proc, f \in Handle : a # q \/ f # g => LeftAlone(a, f) \/ NoRecv(a, f)
    BY <1>7 DEF LeftAlone, CountsSame
  <2> QED
    BY <2>1, OthersDebts
<1>9. \A a \in Proc, h \in Handle :
        /\ ~OwesAnswer(q, g, a, h)
        /\ OwesAnswer(q, g, a, h)' <=> a = p /\ k.type \in Asks /\ k.sreq = h
  <2> SUFFICES ASSUME NEW a \in Proc, NEW h \in Handle
      PROVE  /\ ~OwesAnswer(q, g, a, h)
             /\ OwesAnswer(q, g, a, h)' <=> a = p /\ k.type \in Asks /\ k.sreq = h
    OBVIOUS
  <2>1. ~OwesAnswer(q, g, a, h)
    BY OwesForm
  <2>2. NumQueued(q, g)' > 0
    BY <1>4
  <2>3. OwesAnswer(q, g, a, h)' <=>
           /\ req'[q][g].type = "RECV" /\ req'[q][g].rank = a
           /\ req'[q][g].senderReq = h /\ Owes(req'[q][g])
           /\ user'[q][g] = "message" \/ NumQueued(q, g)' > 0
    BY OwesFormNext
  <2> QED
    BY <2>1, <2>2, <2>3
<1>10. /\ \A h \in Handle, w \in BOOLEAN :
            /\ Carries(Nil, h) + Questioning(Nil, h) = Carries(Nil, h) + Answering(k, h, w)
            /\ Answering(Nil, h, w) + Num(OwesAnswer(q, g, p, h)') =
                 Questioning(k, h) + Num(OwesAnswer(q, g, p, h))
       /\ \A a \in Proc, h \in Handle : a # p =>
            (OwesAnswer(q, g, a, h)' <=> OwesAnswer(q, g, a, h))
  <2>1. ASSUME NEW h \in Handle, NEW w \in BOOLEAN
        PROVE  /\ Carries(Nil, h) + Questioning(Nil, h) = Carries(Nil, h) + Answering(k, h, w)
               /\ Answering(Nil, h, w) + Num(OwesAnswer(q, g, p, h)') =
                    Questioning(k, h) + Num(OwesAnswer(q, g, p, h))
    <3>1. Carries(Nil, h) = 0 /\ Questioning(Nil, h) = 0 /\ Answering(Nil, h, w) = 0
      BY NilWeights
    <3>2. Answering(k, h, w) = 0 /\ Questioning(k, h) = Num(k.type \in Asks /\ k.sreq = h)
      BY <1>6
    <3>3. Num(OwesAnswer(q, g, p, h)) = 0
      BY <1>9 DEF Num
    <3>4. Num(OwesAnswer(q, g, p, h)') = Num(k.type \in Asks /\ k.sreq = h)
      BY <1>9 DEF Num
    <3>5. Num(k.type \in Asks /\ k.sreq = h) \in {0, 1}
      BY DEF Num
    <3> QED
      BY <3>1, <3>2, <3>3, <3>4, <3>5
  <2> QED
    BY <1>9, <2>1
<1>11. \A a \in Proc, f \in Handle : a # q \/ f # g => HandleRefs(a, f)'
  <2>1. PICK S : S = {g}
    OBVIOUS
  <2>2. \A a \in Proc, f \in Handle : a # q \/ f \notin S =>
           /\ Kept(a, f) /\ user'[a][f] = user[a][f] /\ CountsSame(a, f)
           /\ (call'[a] = f) <=> (call[a] = f)
    BY <1>7, <2>1
  <2>3. \A h \in Handle : h \notin S => \A w \in BOOLEAN :
           Carries(Nil, h) + Questioning(Nil, h) = Carries(Nil, h) + Answering(k, h, w)
    BY <1>10
  <2>4. \A h \in Handle, w \in BOOLEAN :
           Answering(Nil, h, w) + Num(OwesAnswer(q, g, p, h)') =
             Questioning(k, h) + Num(OwesAnswer(q, g, p, h))
    BY <1>10
  <2>5. \A a \in Proc, f \in Handle : a # q \/ f \notin S => HandleRefs(a, f)'
    BY <1>8, <1>10, <2>2, <2>3, <2>4, FlowOthers
  <2> QED
    BY <2>1, <2>5
<1>12. TokensSame(q, g)
  <2>1. q = q => \A w \in BOOLEAN :
           Carries(Nil, g) + Questioning(Nil, g) = Carries(Nil, g) + Answering(k, g, w)
    BY <1>10
  <2> QED
    BY <1>8, <1>10, <2>1, FlowTokens
<1>13. /\ UnderWay(q, p, g)' = Num(v = g) /\ Num(v = g) \in {0, 1}
       /\ \A a \in Proc : a # p => UnderWay(q, a, g)' = 0
  <2>1. UnderWay(q, p, g)' = UnderWay(q, p, g) + Num(Nil \in Cleared(g))
                - Num(k \in Coming(g)) - Num(None = g) + Num(v = g)
    BY <1>3, UnderWayStep
  <2>2. \A a \in Proc : a # p => UnderWay(q, a, g)' = UnderWay(q, a, g)
    BY <1>3, UnderWayStep
  <2>3. Num(None = g) = 0 /\ Num(Nil \in Cleared(g)) = 0 /\ Num(v = g) \in {0, 1}
    BY NoneAssumption, NilWeights DEF Num
  <2> QED
    BY <1>2, <1>6, <2>1, <2>2, <2>3
<1>14. HandleRefs(q, g)'
  <2>1. SendRefs(q, g)'
    BY <1>1, <1>12, SendNever DEF HandleRefs, IsSend
  <2>2. user'[q][g] = "none" /\ Num(user'[q][g] # "none") = 0
    BY <1>2 DEF Num
  <2>3. RecvWith(q, p, g)'
    <3>1. req'[q][g].ref = Num(user'[q][g] # "none") + NumPosted(q, g)' + NumQueued(q, g)'
                               + UnderWay(q, p, g)'
      BY <1>3, <1>4, <1>13, <2>2
    <3>2. Owes(req'[q][g]) => req'[q][g].senderReq \in Handle
      BY <1>5
    <3> QED
      BY <1>13, <3>1, <3>2 DEF RecvWith
  <2>4. req'[q][g].ref > 0
    BY <1>13
  <2>5. RecvRefs(q, g)'
    BY <1>3, <1>4, <2>2, <2>3, <2>4 DEF RecvRefs
  <2>6. KeptInv(q, g)'
    BY <1>2 DEF KeptInv, IsSend
  <2> QED
    BY <2>1, <2>5, <2>6 DEF HandleRefs
<1> QED
  BY <1>11, <1>14 DEF HandlesOK

(* The request of an unexpected message is queued. *)
LEMMA UnexpectedArrives ==
  ASSUME TypeOK, NEW q \in Proc, NEW p \in Proc, NEW k \in Packet,
         k.type \in EagerTypes \cup {"RTS"}, NEW g \in Handle, QueueUnexpected(q, p, k, g)
  PROVE  ArriveStep(q, None, g)
<1> DEFINE e == [rreq |-> g, rank |-> p, tag |-> k.tag, sreq |-> k.sreq, id |-> k.id]
<1>1. e \in Arrival /\ e.rreq = g
  BY PacketFields DEF Arrival
<1>2. unexpected' = [unexpected EXCEPT ![q] = Append(@, e)]
  BY DEF QueueUnexpected
<1> HIDE DEF e
<1> QED
  BY <1>1, <1>2, ArrivedAdd

LEMMA HandleRtsUnexpectedRefs ==
  ASSUME TypeOK, TypeOK', HandlesOK, NoLoops, NEW q \in Proc, NEW p \in Proc, NEW k,
         ReadPacket(q, p, k), NEW g \in Handle, HandleRtsUnexpected(q, p, k, g)
  PROVE  HandlesOK'
<1>1. k \in Range(Flow(p, q)) /\ k \in Packet /\ p # q
  BY ReadIsThere
<1>2. /\ UNCHANGED <<user, posted, sendq, reading, call>> /\ k.type = "RTS"
      /\ QueueUnexpected(q, p, k, g)
  BY DEF HandleRtsUnexpected
<1>3. NetStep(q, p, k, Nil) /\ QueueStep(q, p, Nil, Nil)
  BY <1>2, StepRead
<1>4. ArriveStep(q, None, g) /\ ReadingStep(q, p, None, None)
  BY <1>1, <1>2, UnexpectedArrives, ReadingSame
<1>5. /\ g \in FreeHandles(q) /\ Others(q, {g}) /\ req'[q][g].type = "RECV"
      /\ req'[q][g].ref = 1 /\ req'[q][g].msgType = "RNDV" /\ req'[q][g].rank = p
      /\ req'[q][g].senderReq = k.sreq
  BY <1>1, HandleRtsUnexpectedReq DEF NewRecv
<1>6. req[q][g].type = "FREE"
  BY <1>5, FreeIsFree
<1>7. /\ Owes(req'[q][g]) <=> k.type \in Asks
      /\ req'[q][g].ref = 1 + Num(None = g) /\ None \in {g, None}
      /\ req'[q][g].msgType # "SELF" /\ k.type \in EagerTypes \cup {"RTS"}
  BY <1>2, <1>5, NoneAssumption DEF Owes, Asks, Num
<1> QED
  BY <1>1, <1>2, <1>3, <1>4, <1>5, <1>6, <1>7, UnexpectedRefs

LEMMA HandleEagerUnexpectedRefs ==
  ASSUME TypeOK, TypeOK', HandlesOK, NoLoops, NEW q \in Proc, NEW p \in Proc, NEW k,
         ReadPacket(q, p, k), NEW g \in Handle, HandleEagerUnexpected(q, p, k, g)
  PROVE  HandlesOK'
<1>1. k \in Range(Flow(p, q)) /\ k \in Packet /\ p # q
  BY ReadIsThere
<1>2. /\ UNCHANGED <<user, posted, sendq, call>> /\ k.type \in EagerTypes
      /\ QueueUnexpected(q, p, k, g) /\ reading[q][p] = None
      /\ IF k.size = "zero" THEN UNCHANGED reading
         ELSE reading' = [reading EXCEPT ![q][p] = g]
  BY DEF HandleEagerUnexpected, ReadPacket
<1>3. NetStep(q, p, k, Nil) /\ QueueStep(q, p, Nil, Nil)
  BY <1>2, StepRead
<1>4. ArriveStep(q, None, g)
  BY <1>1, <1>2, UnexpectedArrives
<1>5. /\ g \in FreeHandles(q) /\ Others(q, {g}) /\ req'[q][g].type = "RECV"
      /\ req'[q][g].ref = IF k.size = "zero" THEN 1 ELSE 2
      /\ req'[q][g].msgType = "EAGER" /\ req'[q][g].rank = p
      /\ req'[q][g].senderReq = k.sreq
      /\ req'[q][g].syncAck = (k.type = "EAGER_SYNC_SEND")
  BY <1>1, HandleEagerUnexpectedReq DEF NewRecv
<1>6. PICK v \in {g, None} :
        ReadingStep(q, p, None, v) /\ req'[q][g].ref = 1 + Num(v = g)
  <2>1. CASE k.size = "zero"
    BY <1>2, <1>5, <2>1, ReadingSame, NoneAssumption DEF Num
  <2>2. CASE k.size # "zero"
    <3>1. ReadingStep(q, p, None, g)
      BY <1>2, <2>2, ReadingSet
    <3> QED
      BY <1>5, <2>2, <3>1 DEF Num
  <2> QED
    BY <2>1, <2>2
<1>7. req[q][g].type = "FREE"
  BY <1>5, FreeIsFree
<1>8. /\ Owes(req'[q][g]) <=> k.type \in Asks
      /\ req'[q][g].msgType # "SELF" /\ k.type \in EagerTypes \cup {"RTS"}
  BY <1>2, <1>5 DEF Owes, Asks, EagerTypes
<1> QED
  BY <1>1, <1>2, <1>3, <1>4, <1>5, <1>6, <1>7, <1>8, UnexpectedRefs

(* A send goes on with its tokens changed into others. *)
LEMMA SendTraded ==
  ASSUME TypeOK, NEW a \in Proc, NEW h \in Handle, HandleRefs(a, h), IsSend(req[a][h]),
         Kept(a, h), user'[a][h] = user[a][h], (call'[a] = h) <=> (call[a] = h),
         CountsSame(a, h), NEW b \in Proc, b = req[a][h].rank,
         \A d \in Proc : IsFiniteSet(Debtors(a, d, h)'),
         \A d \in Proc, w \in BOOLEAN : d # b => TokensAs(a, d, h, w)' = TokensAs(a, d, h, w),
         \A w \in BOOLEAN : w = Awaits(req[a][h]) =>
           TokensAs(a, b, h, w)' = TokensAs(a, b, h, w)
  PROVE  HandleRefs(a, h)'
<1> DEFINE dt == 0
           dr == 0
<1>1. /\ req'[a][h].type = req[a][h].type /\ req'[a][h].rank = req[a][h].rank
      /\ req'[a][h].msgType = req[a][h].msgType /\ req'[a][h].ref = req[a][h].ref
  BY DEF Kept, Same, Core
<1>2. SendRefs(a, h) /\ req[a][h].ref > 0
  <2>1. SendRefs(a, h)
    BY DEF HandleRefs
  <2> QED
    BY <2>1 DEF SendRefs
<1>3. req[a][h].ref \in Int
  BY KindOf
<1>4. \A w \in BOOLEAN : TokensAs(a, b, h, w) \in Nat
  <2>1. IsFiniteSet(Debtors(a, b, h))
    BY <1>2 DEF SendRefs
  <2> QED
    BY <2>1, TokensType
<1>5. /\ dt \in Int /\ dr \in Int
      /\ \A w \in BOOLEAN : w = Awaits(req[a][h]) =>
           TokensAs(a, b, h, w)' = TokensAs(a, b, h, w) + dt
      /\ req'[a][h].ref = req[a][h].ref + dr /\ req[a][h].ref + dr > 0
      /\ dr + Num(call'[a] = h) - Num(call[a] = h) =
           Num(user'[a][h] # "none") - Num(user[a][h] # "none") + dt
  BY <1>1, <1>2, <1>3, <1>4 DEF Num
<1> HIDE DEF dt, dr
<1>6. SendRefs(a, h)'
  BY <1>1, <1>2, <1>5, SendLives
<1>7. RecvRefs(a, h)'
  BY RecvKept DEF HandleRefs
<1>8. KeptInv(a, h)'
  BY DEF HandleRefs, KeptInv, Kept, Same, Core, IsSend
<1> QED
  BY <1>6, <1>7, <1>8 DEF HandleRefs

(* The message is taken back: the answer says so, and stands for the       *)
(* answer to the message too when the receive owed one. *)
LEMMA HandleCancelReqFoundRefs ==
  ASSUME TypeOK, TypeOK', HandlesOK, NoLoops, NamesInv,
         NEW q \in Proc, NEW p \in Proc, NEW k, ReadPacket(q, p, k),
         NEW i \in 1 .. Len(unexpected[q]), HandleCancelReqFound(q, p, k, i),
         SaysWho(q, unexpected[q][i])
  PROVE  HandlesOK'
<1> DEFINE m == CancelResp(k.sreq, TRUE)
<1>0. /\ UNCHANGED <<user, posted, reading, call>>
      /\ unexpected' = [unexpected EXCEPT ![q] = RemoveAt(@, i)]
      /\ k.type = "CANCEL_SEND_REQ" /\ SendPacket(q, p, m)
      /\ unexpected[q][i].rank = p /\ unexpected[q][i].sreq = k.sreq
  BY DEF HandleCancelReqFound, FirstById, IsMessage
<1>1. k \in Range(Flow(p, q)) /\ k \in Packet /\ p # q
  BY ReadIsThere
<1>2. k.sreq \in Handle
  BY <1>0, <1>1, PacketFields
<1>3. m \in Packet /\ m.type = "CANCEL_SEND_RESP" /\ m.sreq = k.sreq /\ m.ack = TRUE
  BY <1>2 DEF Packet, CancelResp
<1> HIDE DEF m
<1>4. PICK c \in Handle : c = k.sreq
  BY <1>2
<1>5. PICK g \in Handle : g = unexpected[q][i].rreq
  BY <1>1, HandleCancelReqFoundReq
<1>6. /\ req[q][g].type = "RECV" /\ user[q][g] = "none"
      /\ NumPosted(q, g) = 0 /\ NumQueued(q, g) = 1
  BY <1>5, ArrivalIsRecv
<1>7. req[q][g].rank = p /\ req[q][g].senderReq = c
  BY <1>0, <1>4, <1>5 DEF SaysWho
<1>8. IsSend(req[p][c]) /\ req[p][c].rank = q
  BY <1>0, <1>1, <1>4, QuestionsSend DEF Questions
<1>9. Owes(req[q][g]) <=> Awaits(req[p][c])
  <2>1. unexpected[q][i] \in Arrivals(p, q)
    <3>1. unexpected[q] \in Seq(Arrival)
      BY DEF TypeOK
    <3>2. unexpected[q][i] \in Range(unexpected[q])
      BY <3>1 DEF Range
    <3> QED
      BY <1>0, <3>2 DEF Arrivals
  <2>2. unexpected[q][i].sreq # None
    BY <1>0, <1>2, NoneAssumption
  <2> QED
    BY <1>0, <1>1, <1>4, <1>5, <1>8, <2>1, <2>2 DEF NamesInv
<1>10. Others(q, {g}) /\ Dropped(req[q][g], req'[q][g])
  BY <1>1, <1>5, HandleCancelReqFoundReq
<1>11. NetStep(q, p, k, m) /\ QueueStep(q, p, Nil, m)
  BY <1>0, <1>1, <1>3, StepReply
<1>12. PostStep(q, None, None) /\ ArriveStep(q, g, None) /\ ReadingStep(q, p, None, None)
  BY <1>0, <1>5, PostedSame, ArrivedTake, ReadingSame
<1>13. \A f \in Handle :
         /\ Num(None = f) = 0 /\ Num(m \in Cleared(f)) = 0 /\ Num(k \in Coming(f)) = 0
         /\ Num(m \in Coming(f)) = 0 /\ Num(k \in Cleared(f)) = 0
  BY <1>0, <1>1, <1>3, NoneAssumption, PacketWeights DEF Num
<1>14. \A b \in Proc, f \in Handle : b # q \/ f # g => CountsSame(b, f)
  <2> SUFFICES ASSUME NEW b \in Proc, NEW f \in Handle, b # q \/ f # g PROVE CountsSame(b, f)
    OBVIOUS
  <2>1. f # None
    BY NoneAssumption
  <2>2. b = q => f \notin {None, g}
    BY <2>1
  <2>3. /\ b = q => Num(m \in Cleared(f)) + Num(None = f) = Num(k \in Coming(f)) + Num(None = f)
        /\ b = p => Num(m \in Coming(f)) = Num(k \in Cleared(f))
    BY <1>13
  <2> QED
    BY <1>1, <1>11, <1>12, <2>2, <2>3, FlowCountsSame
<1>15. /\ NumPosted(q, g)' = NumPosted(q, g)
       /\ \A a \in Proc : UnderWay(q, a, g)' = UnderWay(q, a, g)
  <2>1. NumPosted(q, g)' = NumPosted(q, g)
    BY <1>0 DEF NumPosted
  <2>2. ASSUME NEW a \in Proc PROVE UnderWay(q, a, g)' = UnderWay(q, a, g)
    <3>1. /\ UnderWay(q, a, g) \in Nat
          /\ q = q /\ a = p =>
              UnderWay(q, a, g)' = UnderWay(q, a, g) + Num(m \in Cleared(g))
                - Num(k \in Coming(g)) - Num(None = g) + Num(None = g)
          /\ q = p /\ a = q =>
              UnderWay(q, a, g)' = UnderWay(q, a, g) + Num(m \in Coming(g)) - Num(k \in Cleared(g))
          /\ ~(q = q /\ a = p) /\ ~(q = p /\ a = q) => UnderWay(q, a, g)' = UnderWay(q, a, g)
      BY <1>1, <1>11, <1>12, UnderWayStep
    <3> QED
      BY <1>1, <1>13, <3>1
  <2> QED
    BY <2>1, <2>2
<1>16. \A a \in Proc, h \in Handle : a # q \/ h # g =>
         Kept(a, h) /\ user'[a][h] = user[a][h] /\ ((call'[a] = h) <=> (call[a] = h))
  BY <1>0, <1>10, KeptWhenSame DEF Others
<1>17. DebtStep(q, g)
  <2>1. \A b \in Proc, f \in Handle : b # q \/ f # g => LeftAlone(b, f) \/ NoRecv(b, f)
    BY <1>14, <1>16 DEF LeftAlone, CountsSame
  <2> QED
    BY <2>1, OthersDebts
<1>18. NumQueued(q, g)' = 0
  <2>1. NumQueued(q, g)' = NumQueued(q, g) - Num(q = q /\ g = g) + Num(q = q /\ None = g)
    BY <1>12 DEF ArriveStep
  <2> QED
    BY <1>6, <1>13, <2>1 DEF Num
<1>19. \A a \in Proc, h \in Handle :
         /\ OwesAnswer(q, g, a, h) <=> a = p /\ h = c /\ Awaits(req[p][c])
         /\ ~OwesAnswer(q, g, a, h)'
  <2> SUFFICES ASSUME NEW a \in Proc, NEW h \in Handle
               PROVE  /\ OwesAnswer(q, g, a, h) <=> a = p /\ h = c /\ Awaits(req[p][c])
                      /\ ~OwesAnswer(q, g, a, h)'
    OBVIOUS
  <2>1. OwesAnswer(q, g, a, h) <=>
           /\ req[q][g].type = "RECV" /\ req[q][g].rank = a
           /\ req[q][g].senderReq = h /\ Owes(req[q][g])
           /\ user[q][g] = "message" \/ NumQueued(q, g) > 0
    BY OwesForm
  <2>2. OwesAnswer(q, g, a, h)' <=>
           /\ req'[q][g].type = "RECV" /\ req'[q][g].rank = a
           /\ req'[q][g].senderReq = h /\ Owes(req'[q][g])
           /\ user'[q][g] = "message" \/ NumQueued(q, g)' > 0
    BY OwesFormNext
  <2>3. user'[q][g] # "message" /\ ~(NumQueued(q, g)' > 0) /\ NumQueued(q, g) > 0
    BY <1>0, <1>6, <1>18
  <2> QED
    BY <1>6, <1>7, <1>9, <2>1, <2>2, <2>3
<1>20. \A h \in Handle, w \in BOOLEAN :
         /\ Carries(m, h) = 0 /\ Questioning(m, h) = 0 /\ Answering(k, h, w) = 0
         /\ Questioning(k, h) = Num(c = h) /\ Carries(Nil, h) = 0
         /\ Answering(m, h, w) = Num(c = h) + IF w THEN Num(c = h) ELSE 0
  <2> SUFFICES ASSUME NEW h \in Handle, NEW w \in BOOLEAN
               PROVE  /\ Carries(m, h) = 0 /\ Questioning(m, h) = 0 /\ Answering(k, h, w) = 0
                      /\ Questioning(k, h) = Num(c = h) /\ Carries(Nil, h) = 0
                      /\ Answering(m, h, w) = Num(c = h) + IF w THEN Num(c = h) ELSE 0
    OBVIOUS
  <2>1. /\ Carries(m, h) = 0 /\ Questioning(m, h) = 0
        /\ Answering(m, h, w) = Num(m.sreq = h) + IF w THEN Num(m.sreq = h /\ m.ack) ELSE 0
    <3>1. m.type \notin Carriers /\ m.type \notin Questions
      BY <1>3 DEF Carriers, Questions, Asks, EagerTypes
    <3>2. Carries(m, h) = 0 /\ Questioning(m, h) = 0
      BY <1>3, <3>1, PacketWeights DEF Num
    <3> QED
      BY <1>3, <3>2, PacketWeights
  <2>2. Answering(k, h, w) = 0 /\ Questioning(k, h) = Num(k.sreq = h)
    BY <1>0, <1>1, PacketWeights DEF Num, Questions, Answers
  <2>3. Num(m.sreq = h /\ m.ack) = Num(c = h) /\ Num(m.sreq = h) = Num(c = h)
        /\ Num(k.sreq = h) = Num(c = h)
    BY <1>3, <1>4 DEF Num
  <2> QED
    BY <2>1, <2>2, <2>3, NilWeights
<1>21. ASSUME NEW a \in Proc, NEW h \in Handle, a # p \/ h # c PROVE TokensSame(a, h)
  <2>1. a = q => \A w \in BOOLEAN :
           Carries(m, h) + Questioning(m, h) = Carries(Nil, h) + Answering(k, h, w)
    BY <1>20
  <2>2. a = p => \A w \in BOOLEAN :
           Answering(m, h, w) + Num(OwesAnswer(q, g, a, h)') =
             Questioning(k, h) + Num(OwesAnswer(q, g, a, h))
    <3>1. a = p => Num(OwesAnswer(q, g, a, h)') = 0 /\ Num(OwesAnswer(q, g, a, h)) = 0
      BY <1>19, <1>21 DEF Num
    <3>2. a = p => \A w \in BOOLEAN : Answering(m, h, w) = 0 /\ Questioning(k, h) = 0
      BY <1>20, <1>21 DEF Num
    <3> QED
      BY <3>1, <3>2
  <2>3. a # p => (OwesAnswer(q, g, a, h)' <=> OwesAnswer(q, g, a, h))
    BY <1>19
  <2> QED
    BY <1>1, <1>11, <1>17, <2>1, <2>2, <2>3, FlowTokens
<1>22. ASSUME NEW a \in Proc, NEW h \in Handle, a # p \/ h # c, a # q \/ h # g
       PROVE  HandleRefs(a, h)'
  <2>1. HandleRefs(a, h)
    BY DEF HandlesOK
  <2> QED
    BY <1>14, <1>16, <1>21, <1>22, <2>1, AloneKept
<1>23. HandleRefs(q, g)'
  <2>1. TokensSame(q, g)
    BY <1>1, <1>21
  <2> QED
    BY <1>0, <1>5, <1>10, <1>12, <1>15, <2>1, DequeuedRefs
<1>24. HandleRefs(p, c)'
  <2>1. HandleRefs(p, c) /\ CountsSame(p, c)
        /\ Kept(p, c) /\ user'[p][c] = user[p][c] /\ ((call'[p] = c) <=> (call[p] = c))
    BY <1>1, <1>14, <1>16 DEF HandlesOK
  <2>2. \A d \in Proc, w \in BOOLEAN :
          /\ IsFiniteSet(Debtors(p, d, c)') /\ TokensAs(p, d, c, w) \in Nat
          /\ d = q =>
              TokensAs(p, d, c, w)' = TokensAs(p, d, c, w)
                + Answering(m, c, w) - Questioning(k, c)
                - Num(OwesAnswer(q, g, p, c)) + Num(OwesAnswer(q, g, p, c)')
          /\ d # q => TokensAs(p, d, c, w)' = TokensAs(p, d, c, w)
    <3> SUFFICES ASSUME NEW d \in Proc, NEW w \in BOOLEAN
                 PROVE  /\ IsFiniteSet(Debtors(p, d, c)') /\ TokensAs(p, d, c, w) \in Nat
                        /\ d = q =>
                            TokensAs(p, d, c, w)' = TokensAs(p, d, c, w)
                              + Answering(m, c, w) - Questioning(k, c)
                              - Num(OwesAnswer(q, g, p, c)) + Num(OwesAnswer(q, g, p, c)')
                        /\ d # q => TokensAs(p, d, c, w)' = TokensAs(p, d, c, w)
      OBVIOUS
    <3>1. IsFiniteSet(Debtors(p, d, c))
      BY FiniteDebts
    <3>2. TokensAs(p, d, c, w) \in Nat
      BY <3>1, TokensType
    <3>3. /\ IsFiniteSet(Debtors(p, d, c)')
          /\ p = p /\ d = q =>
              TokensAs(p, d, c, w)' = TokensAs(p, d, c, w)
                + Answering(m, c, w) - Questioning(k, c)
                - Num(OwesAnswer(q, g, p, c)) + Num(OwesAnswer(q, g, p, c)')
          /\ ~(p = q /\ d = p) /\ ~(p = p /\ d = q) /\ d # q =>
              TokensAs(p, d, c, w)' = TokensAs(p, d, c, w)
      BY <1>1, <1>11, <1>17, <3>1, TokensStep
    <3> QED
      BY <1>1, <3>2, <3>3
  <2>3. ASSUME NEW w \in BOOLEAN, w = Awaits(req[p][c])
        PROVE  TokensAs(p, q, c, w)' = TokensAs(p, q, c, w)
    <3>1. /\ Num(OwesAnswer(q, g, p, c)) = Num(w) /\ Num(OwesAnswer(q, g, p, c)') = 0
          /\ Num(w) \in {0, 1} /\ (w <=> Num(w) = 1)
      BY <1>19, <2>3 DEF Num
    <3>2. Questioning(k, c) = 1 /\ Answering(m, c, w) = 1 + Num(w)
      BY <1>20, <3>1 DEF Num
    <3>3. TokensAs(p, q, c, w) \in Nat
          /\ TokensAs(p, q, c, w)' = TokensAs(p, q, c, w)
                + Answering(m, c, w) - Questioning(k, c)
                - Num(OwesAnswer(q, g, p, c)) + Num(OwesAnswer(q, g, p, c)')
      BY <2>2
    <3> QED
      BY <3>1, <3>2, <3>3
  <2>4. /\ \A d \in Proc : IsFiniteSet(Debtors(p, d, c)')
        /\ \A d \in Proc, w \in BOOLEAN : d # q => TokensAs(p, d, c, w)' = TokensAs(p, d, c, w)
    BY <2>2
  <2> QED
    BY <1>8, <2>1, <2>3, <2>4, SendTraded
<1> QED
  BY <1>22, <1>23, <1>24 DEF HandlesOK

(* A send loses two references with two of its tokens. *)
LEMMA SendDroppedTwice ==
  ASSUME TypeOK, TypeOK', NEW a \in Proc, NEW h \in Handle,
         SendRefs(a, h), KeptInv(a, h), IsSend(req[a][h]),
         NEW w \in BOOLEAN, w = Awaits(req[a][h]), NEW s, Dropped(req[a][h], s), Dropped(s, req'[a][h]),
         NEW b \in Proc, b = req[a][h].rank,
         \A c \in Proc : IsFiniteSet(Debtors(a, c, h)'),
         \A c \in Proc, v \in BOOLEAN : c # b => TokensAs(a, c, h, v)' = TokensAs(a, c, h, v),
         TokensAs(a, b, h, w)' = TokensAs(a, b, h, w) - 2,
         call[a] # h, call'[a] # h, user'[a][h] = user[a][h]
  PROVE  SendRefs(a, h)' /\ KeptInv(a, h)'
<1>3. /\ \A c \in Proc :
              /\ IsFiniteSet(Debtors(a, c, h))
              /\ TokensAs(a, c, h, w) > 0 => req[a][h].rank = c
      /\ req[a][h].ref + Num(call[a] = h) =
                   Num(user[a][h] # "none") + TokensAs(a, b, h, w)
      /\ req[a][h].ref > 0
  BY SendRefsForm
<1>4. /\ Num(call[a] = h) = 0 /\ Num(call'[a] = h) = 0
      /\ Num(user[a][h] # "none") \in {0, 1}
      /\ Num(user'[a][h] # "none") = Num(user[a][h] # "none")
      /\ Num(user'[a][h] # "none") = 0 => user'[a][h] = "none"
  BY DEF Num
<1>5. /\ \A c \in Proc : TokensAs(a, c, h, w) \in Nat /\ TokensAs(a, c, h, w)' \in Nat
      /\ req[a][h].ref \in Int
  <2>1. req[a][h] \in Request
    BY DEF TypeOK
  <2> QED
    BY <1>3, <2>1, TokensType, TokensTypeNext DEF Request
<1>6. TokensAs(a, b, h, w)' = TokensAs(a, b, h, w) - 2
  OBVIOUS
<1>7. req[a][h].ref >= 2
  BY <1>3, <1>4, <1>5, <1>6
<1>8. Same(req[a][h], s) /\ s.ref = req[a][h].ref - 1
  BY <1>7 DEF Dropped
<1>9. CASE req[a][h].ref = 2
  <2>1. Returned(s, req'[a][h])
    BY <1>8, <1>9 DEF Dropped
  <2>2. req'[a][h].type = "FREE" /\ req'[a][h].ref = 0
    BY <2>1 DEF Returned, FreeRequest
  <2>3. ~IsSend(req'[a][h])
    BY <2>2 DEF IsSend
  <2>4. TokensAs(a, b, h, w)' = 0 /\ Num(user'[a][h] # "none") = 0
    BY <1>3, <1>4, <1>5, <1>6, <1>9
  <2>5. ASSUME NEW c \in Proc, c # b PROVE TokensAs(a, c, h, w)' = 0
    BY <1>3, <1>5, <2>5
  <2>6. \A c \in Proc, v \in BOOLEAN : v = Awaits(req[a][h]) => TokensAs(a, c, h, v)' = 0
    BY <2>4, <2>5
  <2>7. SendRefs(a, h)'
    BY <2>3, <2>6, SendEnds
  <2> QED
    BY <1>4, <2>2, <2>3, <2>4, <2>7 DEF KeptInv
<1>10. CASE req[a][h].ref # 2
  <2>1. Same(s, req'[a][h]) /\ req'[a][h].ref = req[a][h].ref - 2
    BY <1>5, <1>8, <1>10 DEF Dropped
  <2>2. /\ req'[a][h].type = req[a][h].type /\ req'[a][h].rank = req[a][h].rank
        /\ req'[a][h].msgType = req[a][h].msgType
    BY <1>8, <2>1 DEF Same, Core
  <2> DEFINE dr == -2
             dt == -2
  <2>3. /\ dr \in Int /\ req'[a][h].ref = req[a][h].ref + dr /\ req[a][h].ref + dr > 0
        /\ dr + Num(call'[a] = h) - Num(call[a] = h) =
             Num(user'[a][h] # "none") - Num(user[a][h] # "none") + dt
        /\ dt \in Int
    BY <1>4, <1>5, <1>7, <1>10, <2>1
  <2>4. \A v \in BOOLEAN : v = Awaits(req[a][h]) =>
           TokensAs(a, b, h, v)' = TokensAs(a, b, h, v) + dt
    BY <1>5, <1>6
  <2> HIDE DEF dr, dt
  <2>5. SendRefs(a, h)'
    BY <2>2, <2>3, <2>4, SendLives
  <2>6. req'[a][h].type # "FREE"
    BY <2>2 DEF IsSend
  <2> QED
    BY <2>2, <2>5, <2>6 DEF KeptInv, IsSend
<1> QED
  BY <1>9, <1>10

LEMMA HandleCancelRespRefs ==
  ASSUME TypeOK, TypeOK', HandlesOK, NoLoops, ~MultiThreaded,
         NEW q \in Proc, NEW p \in Proc, NEW k, ReadPacket(q, p, k), HandleCancelResp(q, p, k)
  PROVE  HandlesOK'
<1>0. /\ UNCHANGED <<user, posted, unexpected, sendq, reading, call>>
      /\ k.type = "CANCEL_SEND_RESP" /\ call[q] = None
  BY DEF HandleCancelResp, queues, ReadPacket, MayProgress
<1>1. k \in Range(Flow(p, q)) /\ k \in Packet /\ p # q
  BY ReadIsThere
<1>2. PICK c \in Handle : c = k.sreq
  BY <1>1, HandleCancelRespReq
<1>3. NetStep(q, p, k, Nil) /\ QueueStep(q, p, Nil, Nil)
  BY <1>0, StepRead
<1>4. PostStep(q, None, None) /\ ArriveStep(q, None, None) /\ ReadingStep(q, p, None, None)
  BY <1>0, PostedSame, ArrivedSame, ReadingSame
<1>5. \A b \in Proc, f \in Handle : CountsSame(b, f)
  <2> SUFFICES ASSUME NEW b \in Proc, NEW f \in Handle PROVE CountsSame(b, f)
    OBVIOUS
  <2>1. f # None
    BY NoneAssumption
  <2>2. Num(Nil \in Cleared(f)) = 0 /\ Num(Nil \in Coming(f)) = 0 /\ Num(None = f) = 0
    BY <2>1, NilWeights DEF Num
  <2>3. Num(k \in Cleared(f)) = 0 /\ Num(k \in Coming(f)) = 0
    BY <1>0, <1>1, PacketWeights DEF Num
  <2> QED
    BY <1>1, <1>3, <1>4, <2>1, <2>2, <2>3, FlowCountsSame
<1>6. /\ Others(q, {c})
      /\ IF k.ack /\ Awaits(req[q][c])
         THEN \E s \in Request : Dropped(req[q][c], s) /\ Dropped(s, req'[q][c])
         ELSE Dropped(req[q][c], req'[q][c])
  BY <1>1, <1>2, HandleCancelRespReq
<1>7. HandleRefs(q, c)
  BY DEF HandlesOK
<1>8. IsSend(req[q][c]) /\ req[q][c].rank = p
  BY <1>0, <1>1, <1>2, AnswersSend DEF Answers
<1>9. NoRecv(q, c)
  <2>1. req'[q][c].type \in {req[q][c].type, "FREE"}
    <3>1. CASE k.ack /\ Awaits(req[q][c])
      <4>1. PICK s \in Request : Dropped(req[q][c], s) /\ Dropped(s, req'[q][c])
        BY <1>6, <3>1
      <4>2. s.type \in {req[q][c].type, "FREE"} /\ req'[q][c].type \in {s.type, "FREE"}
        BY <4>1, DroppedKind
      <4> QED
        BY <4>2
    <3>2. CASE ~(k.ack /\ Awaits(req[q][c]))
      BY <1>6, <3>2, DroppedKind
    <3> QED
      BY <3>1, <3>2
  <2> QED
    BY <1>8, <2>1 DEF NoRecv, IsSend
<1>10. \A a \in Proc, h \in Handle : a # q \/ h # c => Kept(a, h)
  BY <1>6, KeptWhenSame DEF Others
<1>11. \A a \in Proc, h \in Handle : SameDebts(a, h)
  BY <1>0, <1>5, <1>9, <1>10, DebtsAlone DEF LeftAlone, CountsSame
<1>12. /\ \A a \in Proc, h \in Handle : OwesAnswer(q, c, a, h)' <=> OwesAnswer(q, c, a, h)
       /\ DebtStep(q, c)
  BY <1>11 DEF SameDebts, DebtStep
<1>13. ASSUME NEW a \in Proc, NEW h \in Handle, a # q \/ h # c PROVE HandleRefs(a, h)'
  <2>1. /\ a = q => \A w \in BOOLEAN : Answering(k, h, w) = 0
        /\ Questioning(k, h) = 0
    <3>1. Questioning(k, h) = 0
      BY <1>0, <1>1, PacketWeights DEF Num, Questions, Asks
    <3>2. ASSUME a = q, NEW w \in BOOLEAN PROVE Answering(k, h, w) = 0
      <4>1. Answering(k, h, w) = Num(k.sreq = h) + IF w THEN Num(k.sreq = h /\ k.ack) ELSE 0
        BY <1>0, <1>1, PacketWeights
      <4>2. k.sreq # h
        BY <1>2, <1>13, <3>2
      <4> QED
        BY <4>1, <4>2 DEF Num
    <3> QED
      BY <3>1, <3>2
  <2>2. /\ Carries(Nil, h) = 0 /\ Questioning(Nil, h) = 0
        /\ \A w : Answering(Nil, h, w) = 0
    BY NilWeights
  <2>3. Num(OwesAnswer(q, c, a, h)') = Num(OwesAnswer(q, c, a, h))
    BY <1>12 DEF Num
  <2>4. /\ a = q => \A w \in BOOLEAN :
            Carries(Nil, h) + Questioning(Nil, h) = Carries(Nil, h) + Answering(k, h, w)
        /\ \A w \in BOOLEAN : Answering(Nil, h, w) + Num(OwesAnswer(q, c, a, h)') =
               Questioning(k, h) + Num(OwesAnswer(q, c, a, h))
    BY <2>1, <2>2, <2>3
  <2>5. TokensSame(a, h)
    BY <1>1, <1>3, <1>12, <2>4, FlowTokens
  <2>6. HandleRefs(a, h) /\ Kept(a, h)
    BY <1>10, <1>13 DEF HandlesOK
  <2> QED
    BY <1>0, <1>5, <2>5, <2>6, AloneKept
<1>14. HandleRefs(q, c)'
  <2>1. \A w \in BOOLEAN :
               /\ Answering(k, c, w) = 1 + IF w THEN Num(k.ack) ELSE 0
               /\ Carries(Nil, c) = 0 /\ Questioning(Nil, c) = 0
    <3> SUFFICES ASSUME NEW w \in BOOLEAN
        PROVE  /\ Answering(k, c, w) = 1 + IF w THEN Num(k.ack) ELSE 0
               /\ Carries(Nil, c) = 0 /\ Questioning(Nil, c) = 0
      OBVIOUS
    <3>1. Answering(k, c, w) = Num(k.sreq = c) + IF w THEN Num(k.sreq = c /\ k.ack) ELSE 0
      BY <1>0, <1>1, PacketWeights
    <3>2. Num(k.sreq = c) = 1 /\ Num(k.sreq = c /\ k.ack) = Num(k.ack)
      BY <1>2 DEF Num
    <3> QED
      BY <3>1, <3>2, NilWeights
  <2>2. \A d \in Proc, w \in BOOLEAN :
          /\ IsFiniteSet(Debtors(q, d, c)') /\ TokensAs(q, d, c, w) \in Nat
          /\ d = p => TokensAs(q, d, c, w)' = TokensAs(q, d, c, w)
                + Carries(Nil, c) + Questioning(Nil, c) - Carries(Nil, c) - Answering(k, c, w)
          /\ d # p => TokensAs(q, d, c, w)' = TokensAs(q, d, c, w)
    BY <1>1, <1>3, <1>12, ActorTokens
  <2>3. /\ \A d \in Proc : IsFiniteSet(Debtors(q, d, c)')
        /\ \A d \in Proc, w \in BOOLEAN : d # p => TokensAs(q, d, c, w)' = TokensAs(q, d, c, w)
    BY <2>2
  <2>4. call[q] # c /\ call'[q] # c
    BY <1>0, NoneAssumption
  <2>5. RecvRefs(q, c)'
    BY <1>0, <1>5, <1>7, <1>9, RecvNever DEF HandleRefs, NoRecv, RecvRefs, RecvIdle
  <2>6. SendRefs(q, c) /\ KeptInv(q, c)
    BY <1>7 DEF HandleRefs
  <2>7. CASE k.ack /\ Awaits(req[q][c])
    <3>1. PICK s : Dropped(req[q][c], s) /\ Dropped(s, req'[q][c])
      BY <1>6, <2>7
    <3>2. PICK w \in BOOLEAN : w = Awaits(req[q][c])
      BY DEF Awaits
    <3>9. (IF w THEN Num(k.ack) ELSE 0) = 1
      BY <2>7, <3>2 DEF Num
    <3>3. TokensAs(q, p, c, w) \in Nat
          /\ TokensAs(q, p, c, w)' = TokensAs(q, p, c, w)
                + Carries(Nil, c) + Questioning(Nil, c) - Carries(Nil, c) - Answering(k, c, w)
      BY <2>2
    <3>4. Answering(k, c, w) = 2 /\ Carries(Nil, c) = 0 /\ Questioning(Nil, c) = 0
      BY <2>1, <3>9
    <3>5. TokensAs(q, p, c, w)' = TokensAs(q, p, c, w) - 2
      BY <3>3, <3>4
    <3>6. SendRefs(q, c)' /\ KeptInv(q, c)'
      BY <1>0, <1>8, <2>3, <2>4, <2>6, <3>1, <3>2, <3>5, SendDroppedTwice
    <3> QED
      BY <2>5, <3>6 DEF HandleRefs
  <2>8. CASE ~(k.ack /\ Awaits(req[q][c]))
    <3> DEFINE dt == -1
    <3>1. ASSUME NEW w \in BOOLEAN, w = Awaits(req[q][c])
          PROVE  TokensAs(q, p, c, w)' = TokensAs(q, p, c, w) + dt
      <4>1. (IF w THEN Num(k.ack) ELSE 0) = 0
        BY <2>8, <3>1 DEF Num
      <4>2. Answering(k, c, w) = 1 /\ Carries(Nil, c) = 0 /\ Questioning(Nil, c) = 0
        BY <2>1, <4>1
      <4>3. TokensAs(q, p, c, w) \in Nat
          /\ TokensAs(q, p, c, w)' = TokensAs(q, p, c, w)
                + Carries(Nil, c) + Questioning(Nil, c) - Carries(Nil, c) - Answering(k, c, w)
        BY <2>2
      <4> QED
        BY <4>2, <4>3
    <3>2. dt \in Int /\ -1 = Num(user'[q][c] # "none") - Num(user[q][c] # "none") + dt
      BY <1>0 DEF Num
    <3> HIDE DEF dt
    <3>3. Dropped(req[q][c], req'[q][c])
      BY <1>6, <2>8
    <3>4. SendRefs(q, c)' /\ KeptInv(q, c)'
      BY <1>8, <2>3, <2>4, <2>6, <3>1, <3>2, <3>3, SendDropped
    <3> QED
      BY <2>5, <3>4 DEF HandleRefs
  <2> QED
    BY <2>7, <2>8
<1> QED
  BY <1>13, <1>14 DEF HandlesOK

(* What a step may do to a request: the fields that say which message it   *)
(* is about change only while it is free or posted. *)
Stays(a, h) ==
  \/ req[a][h].type = "FREE" \/ req'[a][h].type = "FREE"
  \/ Core(req[a][h], req'[a][h])
  \/ \E i \in 1 .. Len(posted[a]) : posted[a][i].rreq = h

AllStay == \A a \in Proc, h \in Handle : Stays(a, h)

LEMMA SameStays ==
  ASSUME NEW a, NEW h, req'[a][h] = req[a][h]
  PROVE  Stays(a, h)
BY DEF Stays, Core

LEMMA DroppedStays ==
  ASSUME NEW a, NEW h, Dropped(req[a][h], req'[a][h])
  PROVE  Stays(a, h)
BY DEF Dropped, Returned, FreeRequest, Stays, Same

LEMMA OneStays ==
  ASSUME NEW p, NEW h, Others(p, {h}), h \in Handle => Stays(p, h)
  PROVE  AllStay
BY SameStays DEF Others, AllStay

LEMMA TwoStay ==
  ASSUME NEW p, NEW h, NEW g, Others(p, {h, g}), Stays(p, h), Stays(p, g)
  PROVE  AllStay
BY SameStays DEF Others, AllStay

LEMMA KeptStay ==
  ASSUME NEW p, NEW h, OthersKept(p, h), Core(req[p][h], req'[p][h])
  PROVE  AllStay
BY DEF OthersKept, Kept, Same, AllStay, Stays

LEMMA SendCallStays ==
  ASSUME TypeOK, NEW p \in Proc, SendCall(p)
  PROVE  AllStay
<1>1. PICK t \in Tag, mode \in Mode, size \in Size, h \in Handle :
        \/ \E q \in Proc : Isend(p, q, t, mode, size, h)
        \/ \E i \in 1 .. Len(posted[p]) : IsendSelfFound(p, t, mode, size, h, i)
        \/ \E g \in Handle : IsendSelfUnexpected(p, t, mode, size, h, g)
  BY DEF SendCall
<1>2. ASSUME NEW q \in Proc, Isend(p, q, t, mode, size, h)
      PROVE  AllStay
  <2>1. Others(p, {h}) /\ h \in FreeHandles(p)
    BY <1>2, IsendReq
  <2> QED
    BY <2>1, OneStays DEF FreeHandles, Stays
<1>3. ASSUME NEW i \in 1 .. Len(posted[p]), IsendSelfFound(p, t, mode, size, h, i)
      PROVE  AllStay
  <2>1. req[p][h].type = "FREE"
    BY <1>3 DEF IsendSelfFound, FreeHandles
  <2>2. ASSUME NEW a \in Proc, NEW g \in Handle, a # p \/ g \notin {h, posted[p][i].rreq}
        PROVE  req'[a][g] = req[a][g]
    BY <1>3, <2>2 DEF IsendSelfFound, TypeOK
  <2>3. ASSUME NEW a \in Proc, NEW g \in Handle PROVE Stays(a, g)
    BY <2>1, <2>2, SameStays DEF Stays
  <2> QED
    BY <2>3 DEF AllStay
<1>4. ASSUME NEW g \in Handle, IsendSelfUnexpected(p, t, mode, size, h, g)
      PROVE  AllStay
  <2>1. {h, g} \subseteq FreeHandles(p) /\ Others(p, {h, g})
    BY <1>4, IsendSelfUnexpectedReq
  <2> QED
    BY <2>1, TwoStay DEF FreeHandles, Stays
<1> QED
  BY <1>1, <1>2, <1>3, <1>4

LEMMA UserCallStays ==
  ASSUME TypeOK, NEW p \in Proc, RecvCall(p) \/ EndCall(p) \/ FinishCall(p)
  PROVE  AllStay
<1>1. ASSUME NEW f \in Filters, NEW h \in Handle, RecvPost(p, f, h) PROVE AllStay
  <2>1. h \in FreeHandles(p) /\ Others(p, {h})
    BY <1>1, RecvPostReq
  <2> QED
    BY <2>1, OneStays DEF FreeHandles, Stays
<1>2. ASSUME NEW f \in Filters, NEW i \in 1 .. Len(unexpected[p]), RecvFound(p, f, i)
      PROVE  AllStay
  <2> DEFINE h == unexpected[p][i].rreq
  <2>1. OthersKept(p, h) /\ Core(req[p][h], req'[p][h])
    BY <1>2, RecvFoundReq
  <2> HIDE DEF h
  <2> QED
    BY <2>1, KeptStay
<1>3. ASSUME NEW f \in Filters, NEW i \in 1 .. Len(unexpected[p]), Improbe(p, f, i)
      PROVE  AllStay
  <2> DEFINE h == unexpected[p][i].rreq
  <2>1. Others(p, {h}) /\ Core(req[p][h], req'[p][h])
    BY <1>3, ImprobeReq
  <2>2. Stays(p, h)
    BY <2>1 DEF Stays
  <2> HIDE DEF h
  <2> QED
    BY <2>1, <2>2, OneStays
<1>4. ASSUME NEW h \in Handle, Imrecv(p, h) PROVE AllStay
  BY <1>4, ImrecvReq, KeptStay DEF Same
<1>5. ASSUME NEW h \in Handle, Wait(p, h) \/ RequestFree(p, h) PROVE AllStay
  BY <1>5, DropHandleReq, DroppedStays, OneStays DEF Wait, RequestFree
<1>6. ASSUME NEW h \in Handle, CancelSend(p, h) \/ CancelSelfMissed(p, h) PROVE AllStay
  <2>1. Others(p, {h}) /\ Asked(req[p][h], req'[p][h])
    BY <1>6, CancelSendReq, CancelSelfMissedReq
  <2> QED
    BY <2>1, OneStays DEF Stays, Asked
<1>7. ASSUME NEW h \in Handle, NEW i \in 1 .. Len(unexpected[p]), CancelSelfFound(p, h, i)
      PROVE  AllStay
  <2> DEFINE g == unexpected[p][i].rreq
  <2>1. /\ Others(p, {h, g}) /\ Asked(req[p][h], req'[p][h])
        /\ g # h => Dropped(req[p][g], req'[p][g])
    BY <1>7, CancelSelfFoundReq
  <2>2. Stays(p, h)
    BY <2>1 DEF Stays, Asked
  <2> HIDE DEF g
  <2>3. Stays(p, g)
    BY <2>1, <2>2, DroppedStays
  <2> QED
    BY <2>1, <2>2, <2>3, TwoStay
<1>8. ASSUME NEW i \in 1 .. Len(posted[p]), CancelRecv(p, i) PROVE AllStay
  <2> DEFINE h == posted[p][i].rreq
  <2>1. Others(p, {h}) /\ Dropped(req[p][h], req'[p][h])
    BY <1>8, CancelRecvReq
  <2> HIDE DEF h
  <2> QED
    BY <2>1, DroppedStays, OneStays
<1>9. ASSUME FinishCall(p) PROVE AllStay
  <2> DEFINE h == call[p]
  <2>1. Others(p, {h}) /\ Same(req[p][h], req'[p][h])
    BY <1>9, FinishCallReq
  <2>2. Stays(p, h)
    BY <2>1 DEF Stays, Same
  <2> HIDE DEF h
  <2> QED
    BY <2>1, <2>2, OneStays
<1> QED
  BY <1>1, <1>2, <1>3, <1>4, <1>5, <1>6, <1>7, <1>8, <1>9 DEF RecvCall, EndCall

LEMMA ProgressStays ==
  ASSUME TypeOK, NEW p \in Proc, NEW q \in Proc, Write(p, q) \/ Deliver(q, p)
  PROVE  AllStay
<1>1. ASSUME req' = req PROVE AllStay
  BY <1>1, SameStays DEF AllStay
<1>2. ASSUME Write(p, q) PROVE AllStay
  <2>1. CASE CarriesRequest(Head(sendq[p][q]))
    BY <1>2, <2>1, WriteReq, DroppedStays, OneStays
  <2> QED
    BY <1>1, <1>2, <2>1, WriteReq
<1>3. ASSUME PayloadArrives(q, p) PROVE AllStay
  <2> DEFINE h == reading[q][p]
  <2>1. Others(q, {h}) /\ Dropped(req[q][h], req'[q][h])
    BY <1>3, PayloadArrivesReq
  <2> HIDE DEF h
  <2> QED
    BY <2>1, DroppedStays, OneStays
<1>4. ASSUME NEW k, HandlePacket(q, p, k) PROVE AllStay
  <2>1. k \in Packet
    BY <1>4, ReadHead DEF HandlePacket
  <2>2. ASSUME NEW i \in 1 .. Len(posted[q]),
               HandleEagerFound(q, p, k, i) \/ HandleRtsFound(q, p, k, i)
        PROVE  AllStay
    <3> DEFINE h == posted[q][i].rreq
    <3>1. Others(q, {h})
      BY <2>1, <2>2, HandleEagerFoundReq, HandleRtsFoundReq
    <3>2. Stays(q, h)
      BY DEF Stays
    <3> HIDE DEF h
    <3> QED
      BY <3>1, <3>2, OneStays
  <2>3. ASSUME NEW h \in Handle,
               HandleEagerUnexpected(q, p, k, h) \/ HandleRtsUnexpected(q, p, k, h)
        PROVE  AllStay
    <3>1. h \in FreeHandles(q) /\ Others(q, {h})
      BY <2>1, <2>3, HandleEagerUnexpectedReq, HandleRtsUnexpectedReq
    <3> QED
      BY <3>1, OneStays DEF FreeHandles, Stays
  <2>4. ASSUME NEW i \in 1 .. Len(unexpected[q]), HandleCancelReqFound(q, p, k, i)
        PROVE  AllStay
    <3> DEFINE h == unexpected[q][i].rreq
    <3>1. Others(q, {h}) /\ Dropped(req[q][h], req'[q][h])
      BY <2>1, <2>4, HandleCancelReqFoundReq
    <3> HIDE DEF h
    <3> QED
      BY <3>1, DroppedStays, OneStays
  <2>5. ASSUME HandleCts(q, p, k) PROVE AllStay
    <3>1. ASSUME k.sreq \in Handle PROVE Stays(q, k.sreq)
      <4>1. \/ Returned(req[q][k.sreq], req'[q][k.sreq])
            \/ Kept(q, k.sreq)
        BY <2>1, <2>5, <3>1, HandleCtsReq
      <4> QED
        BY <4>1 DEF Kept, Same, Stays, Returned, FreeRequest
    <3> QED
      BY <2>1, <2>5, <3>1, HandleCtsReq, OneStays
  <2>6. ASSUME HandleSyncAck(q, p, k) PROVE AllStay
    BY <2>1, <2>6, HandleSyncAckReq, DroppedStays, OneStays
  <2>7. ASSUME HandleCancelResp(q, p, k) PROVE AllStay
    <3> DEFINE h == k.sreq
               r == req[q][h]
    <3>1. /\ Others(q, {h})
          /\ \/ Dropped(r, req'[q][h])
             \/ \E s \in Request : Dropped(r, s) /\ Dropped(s, req'[q][h])
      BY <2>1, <2>7, HandleCancelRespReq
    <3>2. ASSUME NEW s \in Request, Dropped(r, s), Dropped(s, req'[q][h])
          PROVE  Stays(q, h)
      BY <3>2 DEF Dropped, Returned, FreeRequest, Same, Core, Stays
    <3>3. Stays(q, h)
      BY <3>1, <3>2, DroppedStays
    <3> HIDE DEF h
    <3> QED
      BY <3>1, <3>3, OneStays
  <2> QED
    BY <1>1, <1>4, <2>2, <2>3, <2>4, <2>5, <2>6, <2>7
    DEF HandlePacket, HandleRndvSend, HandleCancelReqMissed
<1> QED
  BY <1>2, <1>3, <1>4 DEF Deliver

LEMMA StepStays ==
  ASSUME TypeOK, [Next]_vars
  PROVE  AllStay
<1>1. CASE Next
  BY <1>1, SendCallStays, UserCallStays, ProgressStays DEF Next
<1>2. CASE UNCHANGED vars
  BY <1>2, SameStays DEF vars, AllStay
<1> QED
  BY <1>1, <1>2

(* A send that goes on, and a receive that waits, are for the same message. *)
LEMMA SendGoesOn ==
  ASSUME TypeOK, HandlesOK, [Next]_vars, NEW a \in Proc, NEW h \in Handle,
         IsSend(req[a][h]), IsSend(req'[a][h])
  PROVE  Core(req[a][h], req'[a][h])
<1>1. Stays(a, h)
  BY StepStays DEF AllStay
<1>2. ASSUME NEW i \in 1 .. Len(posted[a]), posted[a][i].rreq = h PROVE FALSE
  BY <1>2, PostedIsRecv DEF IsSend
<1> QED
  BY <1>1, <1>2 DEF Stays, IsSend

QueueSeen ==
  TypeOK => \A q \in Proc, g \in Handle :
    NumQueued(q, g) = 0 => \A i \in 1 .. Len(unexpected[q]) : unexpected[q][i].rreq # g

LEMMA QueueAlwaysSeen == QueueSeen
BY QueueCounts DEF QueueSeen

LEMMA QueueSeenNext == QueueSeen'
BY QueueAlwaysSeen, PTL

LEMMA ArrivalGoesOn ==
  ASSUME TypeOK, TypeOK', HandlesOK, HandlesOK', [Next]_vars, NEW q \in Proc,
         NEW e \in Range(unexpected[q]), e \in Range(unexpected'[q])
  PROVE  Core(req[q][e.rreq], req'[q][e.rreq])
<1>1. unexpected[q] \in Seq(Arrival) /\ unexpected'[q] \in Seq(Arrival)
  BY DEF TypeOK
<1>2. PICK i \in 1 .. Len(unexpected[q]) : unexpected[q][i] = e
  BY <1>1 DEF Range
<1>3. PICK j \in 1 .. Len(unexpected'[q]) : unexpected'[q][j] = e
  BY <1>1 DEF Range
<1>4. PICK g \in Handle : g = e.rreq
  BY HandleTypes
<1>5. req[q][g].type = "RECV" /\ NumPosted(q, g) = 0
  BY <1>2, <1>4, ArrivalIsRecv
<1>6. NumQueued(q, g)' # 0
  BY <1>3, <1>4, QueueSeenNext DEF QueueSeen
<1>7. req'[q][g].type = "RECV"
  <2>1. RecvRefs(q, g)' /\ NumQueued(q, g)' # 0
    BY <1>6 DEF HandlesOK, HandleRefs
  <2> QED
    BY <2>1 DEF RecvRefs, RecvIdle
<1>8. Stays(q, g)
  BY StepStays DEF AllStay
<1>9. \A x \in 1 .. Len(posted[q]) : posted[q][x].rreq # g
  BY <1>5, QueueCounts
<1> QED
  BY <1>4, <1>5, <1>7, <1>8, <1>9 DEF Stays

(* An answer names a send, and a message asks for an answer exactly when   *)
(* its send awaits one. *)
Fine(a, x) ==
  /\ x.type \in Answers \cup {"RNDV_SEND"} => x.sreq \in Handle
  /\ Message(x) => (x.type \in Asks <=> Awaits(req'[a][x.sreq]))

NetFine ==
  /\ \A a \in Proc : wire'[a][a] = wire[a][a] /\ sendq'[a][a] = sendq[a][a]
  /\ \A a, b \in Proc : \A x \in Range(Flow(a, b)') : x \in Range(Flow(a, b)) \/ Fine(a, x)

AnswersNamed ==
  \A p, q \in Proc : \A k \in Range(Flow(p, q)) :
    k.type \in Answers \cup {"RNDV_SEND"} => k.sreq \in Handle

LEMMA AnswerFine ==
  ASSUME NEW a, NEW x, x.type \in Answers \cup {"RNDV_SEND"}, x.sreq \in Handle
  PROVE  Fine(a, x)
BY DEF Fine, Message, EagerTypes, Answers

LEMMA SameFine ==
  ASSUME UNCHANGED <<wire, sendq>> PROVE NetFine
BY SameAdds DEF NetFine, AddsNothing

LEMMA SendFine ==
  ASSUME TypeOK, NEW p \in Proc, NEW q, q # p, NEW k \in Packet,
         SendPacket(p, q, k), UNCHANGED wire, Fine(p, k)
  PROVE  NetFine
<1>1. \A a, b \in Proc : \A x \in Range(Flow(a, b)') :
        x \in Range(Flow(a, b)) \/ (a = p /\ b = q /\ x = k)
  BY SendAdds DEF Adds
<1>2. \A a \in Proc : wire'[a][a] = wire[a][a] /\ sendq'[a][a] = sendq[a][a]
  BY DEF SendPacket, TypeOK
<1> QED
  BY <1>1, <1>2 DEF NetFine

LEMMA ReadFine ==
  ASSUME TypeOK, NEW q \in Proc, NEW p \in Proc, p # q, NEW k, ReadPacket(q, p, k),
         UNCHANGED sendq
  PROVE  NetFine
<1>1. AddsNothing
  BY ReadAdds
<1>2. \A a \in Proc : wire'[a][a] = wire[a][a] /\ sendq'[a][a] = sendq[a][a]
  BY DEF ReadPacket, TypeOK
<1> QED
  BY <1>1, <1>2 DEF NetFine, AddsNothing

LEMMA ReplyFine ==
  ASSUME TypeOK, NEW q \in Proc, NEW p \in Proc, p # q, NEW k, ReadPacket(q, p, k),
         NEW r \in Packet, SendPacket(q, p, r), Fine(q, r)
  PROVE  NetFine
<1>1. \A a, b \in Proc : \A x \in Range(Flow(a, b)') :
        x \in Range(Flow(a, b)) \/ (a = q /\ b = p /\ x = r)
  BY ReplyAdds DEF Adds
<1>2. \A a \in Proc : wire'[a][a] = wire[a][a] /\ sendq'[a][a] = sendq[a][a]
  BY DEF ReadPacket, SendPacket, TypeOK
<1> QED
  BY <1>1, <1>2 DEF NetFine

LEMMA WriteFine ==
  ASSUME TypeOK, NoLoops, NEW p \in Proc, NEW q \in Proc, Write(p, q)
  PROVE  NetFine
<1>1. AddsNothing /\ p # q
  BY WriteAdds DEF Write, NoLoops
<1>2. \A a \in Proc : wire'[a][a] = wire[a][a] /\ sendq'[a][a] = sendq[a][a]
  BY <1>1 DEF Write, TypeOK
<1> QED
  BY <1>1, <1>2 DEF NetFine, AddsNothing

LEMMA IsendFine ==
  ASSUME TypeOK, NEW p \in Proc, NEW q \in Proc, NEW t \in Tag, NEW mode \in Mode,
         NEW size \in Size, NEW h \in Handle, Isend(p, q, t, mode, size, h)
  PROVE  NetFine
<1>1. PICK m \in Packet :
           /\ SendPacket(p, q, m) /\ m.sreq = h
           /\ m.type = IF IsEager(mode, size) THEN EagerPacketType(mode) ELSE "RTS"
  BY IsendPacket
<1>2. /\ p # q /\ UNCHANGED wire
      /\ NewSend(p, h, q, t, mode, IF IsEager(mode, size) THEN "EAGER" ELSE "RNDV", req'[p][h])
  BY IsendReq DEF Isend
<1>3. mode \in {"SEND", "SSEND", "RSEND"}
  BY ModeAssumption
<1>4. /\ req'[p][h].type = mode
      /\ req'[p][h].msgType = IF IsEager(mode, size) THEN "EAGER" ELSE "RNDV"
  BY <1>2 DEF NewSend
<1>5. m.type \in Asks <=> Awaits(req'[p][h])
  BY <1>1, <1>3, <1>4 DEF Asks, Awaits, EagerPacketType, IsEager
<1>6. m.type \notin Answers \cup {"RNDV_SEND"}
  BY <1>1, <1>3 DEF Answers, EagerPacketType
<1>7. Fine(p, m)
  BY <1>1, <1>5, <1>6 DEF Fine
<1> QED
  BY <1>1, <1>2, <1>7, SendFine

(* The answer that a receive owes is for a send of another process. *)
LEMMA RecvTypeFine ==
  ASSUME TypeOK, NEW p \in Proc, NEW h \in Handle, NEW r \in Request,
         HandleRecvMsgType(p, h, r), UNCHANGED wire,
         Owes(r) => r.senderReq \in Handle /\ r.rank # p
  PROVE  NetFine
<1>1. CASE UNCHANGED sendq
  BY <1>1, SameFine
<1>2. CASE r.syncAck /\ SendPacket(p, r.rank, [type |-> "SYNC_ACK", sreq |-> r.senderReq])
  <2> DEFINE k == [type |-> "SYNC_ACK", sreq |-> r.senderReq]
  <2>1. r.senderReq \in Handle /\ r.rank # p
    BY <1>2 DEF Owes
  <2>2. k \in Packet /\ k.type \in Answers \cup {"RNDV_SEND"} /\ k.sreq \in Handle
    BY <2>1 DEF Packet, Answers
  <2> HIDE DEF k
  <2>3. SendPacket(p, r.rank, k)
    BY <1>2 DEF k
  <2> QED
    BY <2>1, <2>2, <2>3, AnswerFine, SendFine
<1>3. CASE r.msgType = "RNDV" /\ SendPacket(p, r.rank, [type |-> "CTS", sreq |-> r.senderReq, rreq |-> h])
  <2> DEFINE k == [type |-> "CTS", sreq |-> r.senderReq, rreq |-> h]
  <2>1. r.senderReq \in Handle /\ r.rank # p
    BY <1>3 DEF Owes
  <2>2. k \in Packet /\ k.type \in Answers \cup {"RNDV_SEND"} /\ k.sreq \in Handle
    BY <2>1 DEF Packet, Answers
  <2> HIDE DEF k
  <2>3. SendPacket(p, r.rank, k)
    BY <1>3 DEF k
  <2> QED
    BY <2>1, <2>2, <2>3, AnswerFine, SendFine
<1> QED
  BY <1>1, <1>2, <1>3 DEF HandleRecvMsgType, TakeEager, TakeRndv, TakeSelf

LEMMA OwedElsewhere ==
  ASSUME TypeOK, HandlesOK, NEW p \in Proc, NEW h \in Handle,
         NumQueued(p, h) # 0 \/ user[p][h] = "message", Owes(req[p][h])
  PROVE  req[p][h].senderReq \in Handle /\ req[p][h].rank # p
<1>1. RecvWith(p, req[p][h].rank, h) /\ NumQueued(p, h) \in Nat
  BY WaitingIsRecv, QueueCounts
<1> QED
  BY <1>1 DEF RecvWith

LEMMA RecvCallFine ==
  ASSUME TypeOK, HandlesOK, NEW p \in Proc, RecvCall(p)
  PROVE  NetFine
<1>1. ASSUME NEW f \in Filters, NEW i \in 1 .. Len(unexpected[p]), RecvFound(p, f, i)
      PROVE  NetFine
  <2> DEFINE g == unexpected[p][i].rreq
             s == [req[p][g] EXCEPT !.id = Len(rcvd[p]) + 1]
  <2>1. g \in Handle
    BY EntryTypes
  <2>2. s \in Request /\ Owes(s) = Owes(req[p][g]) /\ s.senderReq = req[p][g].senderReq
        /\ s.rank = req[p][g].rank
    <3>1. req[p][g] \in Request /\ Len(rcvd[p]) + 1 \in Nat
      BY <2>1 DEF TypeOK
    <3>2. s \in Request
      BY <3>1, FieldType, Zenon
    <3>3. Core(req[p][g], s)
      BY <3>1, Field
    <3> QED
      BY <3>2, <3>3 DEF Core, Owes
  <2>3. HandleRecvMsgType(p, g, s) /\ UNCHANGED wire
    BY <1>1 DEF RecvFound
  <2>4. NumQueued(p, g) # 0
    BY <2>1, ArrivalIsRecv
  <2> HIDE DEF g, s
  <2> QED
    BY <2>1, <2>2, <2>3, <2>4, OwedElsewhere, RecvTypeFine
<1>2. ASSUME NEW h \in Handle, Imrecv(p, h)
      PROVE  NetFine
  <2>1. req[p][h] \in Request
    BY DEF TypeOK
  <2>2. HandleRecvMsgType(p, h, req[p][h]) /\ UNCHANGED wire /\ user[p][h] = "message"
    BY <1>2 DEF Imrecv
  <2> QED
    BY <2>1, <2>2, OwedElsewhere, RecvTypeFine
<1> QED
  BY <1>1, <1>2, SameFine DEF RecvCall, RecvPost, Improbe, net

LEMMA CancelSendFine ==
  ASSUME TypeOK, HandlesOK, NEW p \in Proc, NEW h \in Handle, CancelSend(p, h)
  PROVE  NetFine
<1> DEFINE k == [type |-> "CANCEL_SEND_REQ", sreq |-> h, tag |-> req[p][h].tag]
<1>1. k \in Packet
  <2>1. req[p][h] \in Request
    BY DEF TypeOK
  <2>2. req[p][h].tag \in Tag \cup {None}
    BY <2>1, RequestFields
  <2> QED
    BY <2>2 DEF Packet
<1>2. SendPacket(p, req[p][h].rank, k) /\ UNCHANGED wire
  BY DEF CancelSend
<1>3. Fine(p, k)
  BY DEF Fine, Message, EagerTypes, Answers
<1>4. req[p][h].rank # p
  BY DEF CancelSend, MayCancelSend, HandlesOK, HandleRefs, KeptInv
<1> HIDE DEF k
<1> QED
  BY <1>1, <1>2, <1>3, <1>4, SendFine

LEMMA PacketFine ==
  ASSUME TypeOK, NoLoops, AnswersNamed, NEW q \in Proc, NEW p \in Proc, NEW k,
         HandlePacket(q, p, k)
  PROVE  NetFine
<1>1. ReadPacket(q, p, k) /\ k \in Packet /\ k \in Range(Flow(p, q)) /\ p # q
  BY ReadIsThere DEF HandlePacket
<1>2. CASE UNCHANGED sendq
  BY <1>1, <1>2, ReadFine
<1>3. ASSUME NEW r \in Packet, r.type \in Answers \cup {"RNDV_SEND"}, r.sreq \in Handle,
             SendPacket(q, p, r)
      PROVE  NetFine
  BY <1>1, <1>3, AnswerFine, ReplyFine
<1>4. ASSUME NEW i \in 1 .. Len(posted[q]), HandleEagerFound(q, p, k, i), ~UNCHANGED sendq
      PROVE  NetFine
  <2> DEFINE r == [type |-> "SYNC_ACK", sreq |-> k.sreq]
  <2>1. k.sreq \in Handle
    BY <1>1, <1>4, PacketFields DEF HandleEagerFound
  <2>2. r \in Packet /\ r.type \in Answers \cup {"RNDV_SEND"} /\ r.sreq \in Handle
    BY <2>1 DEF Packet, Answers
  <2>3. SendPacket(q, p, r)
    BY <1>4 DEF HandleEagerFound
  <2> HIDE DEF r
  <2> QED
    BY <1>3, <2>2, <2>3
<1>5. ASSUME NEW i \in 1 .. Len(posted[q]), HandleRtsFound(q, p, k, i)
      PROVE  NetFine
  <2> DEFINE g == posted[q][i].rreq
             r == [type |-> "CTS", sreq |-> k.sreq, rreq |-> g]
  <2>1. k.sreq \in Handle /\ g \in Handle
    BY <1>1, <1>5, PacketFields, EntryTypes DEF HandleRtsFound
  <2>2. r \in Packet /\ r.type \in Answers \cup {"RNDV_SEND"} /\ r.sreq \in Handle
    BY <2>1 DEF Packet, Answers
  <2>3. SendPacket(q, p, r)
    BY <1>5 DEF HandleRtsFound
  <2> HIDE DEF r
  <2> QED
    BY <1>3, <2>2, <2>3
<1>6. ASSUME HandleCts(q, p, k)
      PROVE  NetFine
  <2> DEFINE r == [type |-> "RNDV_SEND", sreq |-> k.sreq, rreq |-> k.rreq]
  <2>1. k.sreq \in Handle /\ k.rreq \in Handle
    BY <1>1, <1>6, PacketFields DEF HandleCts, AnswersNamed, Answers
  <2>2. r \in Packet /\ r.type \in Answers \cup {"RNDV_SEND"} /\ r.sreq \in Handle
    BY <2>1 DEF Packet
  <2>3. SendPacket(q, p, r)
    BY <1>6 DEF HandleCts
  <2> HIDE DEF r
  <2> QED
    BY <1>3, <2>2, <2>3
<1>7. ASSUME NEW ack \in BOOLEAN, k.type = "CANCEL_SEND_REQ",
             SendPacket(q, p, CancelResp(k.sreq, ack))
      PROVE  NetFine
  <2> DEFINE r == CancelResp(k.sreq, ack)
  <2>1. k.sreq \in Handle
    BY <1>1, <1>7, PacketFields
  <2>2. r \in Packet /\ r.type \in Answers \cup {"RNDV_SEND"} /\ r.sreq \in Handle
    BY <2>1 DEF Packet, Answers, CancelResp
  <2>3. SendPacket(q, p, r)
    BY <1>7
  <2> HIDE DEF r
  <2> QED
    BY <1>3, <2>2, <2>3
<1>8. \A i : HandleCancelReqFound(q, p, k, i) =>
        k.type = "CANCEL_SEND_REQ" /\ SendPacket(q, p, CancelResp(k.sreq, TRUE))
  BY DEF HandleCancelReqFound
<1>9. HandleCancelReqMissed(q, p, k) =>
        k.type = "CANCEL_SEND_REQ" /\ SendPacket(q, p, CancelResp(k.sreq, FALSE))
  BY DEF HandleCancelReqMissed
<1>10. \/ \E i \in 1 .. Len(posted[q]) : HandleEagerFound(q, p, k, i) /\ ~UNCHANGED sendq
       \/ \E i \in 1 .. Len(posted[q]) : HandleRtsFound(q, p, k, i)
       \/ HandleCts(q, p, k) \/ HandleCancelReqMissed(q, p, k)
       \/ \E i \in 1 .. Len(unexpected[q]) : HandleCancelReqFound(q, p, k, i)
       \/ UNCHANGED sendq
  BY DEF HandlePacket, HandleEagerUnexpected, HandleRtsUnexpected, HandleRndvSend,
         HandleSyncAck, HandleCancelResp
<1> QED
  BY <1>2, <1>4, <1>5, <1>6, <1>7, <1>8, <1>9, <1>10

LEMMA StepFine ==
  ASSUME TypeOK, HandlesOK, NoLoops, AnswersNamed, [Next]_vars
  PROVE  NetFine
<1>1. CASE UNCHANGED <<wire, sendq>>
  BY <1>1, SameFine
<1>2. ASSUME NEW p \in Proc, SendCall(p) PROVE NetFine
  <2>1. PICK t \in Tag, mode \in Mode, size \in Size, h \in Handle :
          \/ \E q \in Proc : Isend(p, q, t, mode, size, h)
          \/ \E i \in 1 .. Len(posted[p]) : IsendSelfFound(p, t, mode, size, h, i)
          \/ \E g \in Handle : IsendSelfUnexpected(p, t, mode, size, h, g)
    BY <1>2 DEF SendCall
  <2> QED
    BY <1>1, <2>1, IsendFine DEF IsendSelfFound, IsendSelfUnexpected, net
<1>3. ASSUME NEW p \in Proc, EndCall(p) \/ FinishCall(p) PROVE NetFine
  BY <1>1, <1>3, CancelSendFine
  DEF EndCall, FinishCall, Wait, RequestFree, DropHandle, CancelSelfMissed, CancelSelfFound,
      CancelRecv, net
<1>4. ASSUME NEW p \in Proc, NEW q \in Proc, Deliver(q, p) PROVE NetFine
  BY <1>1, <1>4, PacketFine DEF Deliver, PayloadArrives
<1> QED
  BY <1>1, <1>2, <1>3, <1>4, RecvCallFine, WriteFine DEF Next, vars, net

(* What the steps rely on besides the counts. *)
WhoSent == \A q \in Proc : \A e \in Range(unexpected[q]) : SaysWho(q, e)

LEMMA StutterRefs ==
  ASSUME TypeOK, TypeOK', HandlesOK, UNCHANGED vars, NEW p \in Proc
  PROVE  HandlesOK'
<1>1. UNCHANGED <<req, user, posted, unexpected, wire, sendq, reading, call>>
  BY DEF vars, queues, net
<1>2. \A a \in Proc, h \in Handle :
        /\ Kept(a, h) /\ user'[a][h] = user[a][h] /\ CountsSame(a, h)
        /\ (call'[a] = h) <=> (call[a] = h)
  BY <1>1, QuietCounts, KeptWhenSame
<1>3. PICK S : S = {}
  OBVIOUS
<1>4. /\ UNCHANGED <<wire, sendq>>
      /\ \A a \in Proc, h \in Handle : a # p \/ h \notin S =>
            /\ Kept(a, h) /\ user'[a][h] = user[a][h] /\ CountsSame(a, h)
            /\ (call'[a] = h) <=> (call[a] = h)
      /\ \A h \in Handle : h \in S => SameDebts(p, h)
  BY <1>1, <1>2, <1>3
<1>5. \A a \in Proc, h \in Handle : a # p \/ h \notin S => HandleRefs(a, h)'
  BY <1>4, QuietOthers
<1> QED
  BY <1>3, <1>5 DEF HandlesOK

LEMMA SendCallRefs ==
  ASSUME TypeOK, TypeOK', HandlesOK, NEW p \in Proc, SendCall(p)
  PROVE  HandlesOK'
<1>1. PICK t \in Tag, mode \in Mode, size \in Size, h \in Handle :
        \/ \E q \in Proc : Isend(p, q, t, mode, size, h)
        \/ \E i \in 1 .. Len(posted[p]) : IsendSelfFound(p, t, mode, size, h, i)
        \/ \E g \in Handle : IsendSelfUnexpected(p, t, mode, size, h, g)
  BY DEF SendCall
<1> QED
  BY <1>1, IsendRefs, IsendSelfFoundRefs, IsendSelfUnexpectedRefs

LEMMA RecvCallRefs ==
  ASSUME TypeOK, TypeOK', HandlesOK, NEW p \in Proc, RecvCall(p)
  PROVE  HandlesOK'
BY RecvPostRefs, RecvFoundRefs, ImprobeRefs, ImrecvRefs DEF RecvCall

LEMMA EndCallRefs ==
  ASSUME TypeOK, TypeOK', HandlesOK, SelfInv, WhoSent, NEW p \in Proc, EndCall(p)
  PROVE  HandlesOK'
<1>1. ASSUME NEW h \in Handle, Wait(p, h) \/ RequestFree(p, h)
      PROVE  HandlesOK'
  <2>1. DropHandle(p, h) /\ MayCall(p) /\ user[p][h] = "request"
    BY <1>1 DEF Wait, RequestFree
  <2> QED
    BY <2>1, DropHandleRefs
<1>2. ASSUME NEW h \in Handle, NEW i \in 1 .. Len(unexpected[p]), CancelSelfFound(p, h, i)
      PROVE  HandlesOK'
  <2>1. SaysWho(p, unexpected[p][i])
    BY DEF WhoSent, Range, TypeOK
  <2> QED
    BY <1>2, <2>1, CancelSelfFoundRefs
<1> QED
  BY <1>1, <1>2, CancelSendRefs, CancelSelfMissedRefs, CancelRecvRefs DEF EndCall

LEMMA PacketRefs ==
  ASSUME TypeOK, TypeOK', HandlesOK, NoLoops, ~MultiThreaded, AnswersNamed, WhoSent,
         AskedInv, Cancelling => NamesInv,
         NEW q \in Proc, NEW p \in Proc, NEW k, HandlePacket(q, p, k)
  PROVE  HandlesOK'
<1>1. ReadPacket(q, p, k)
  BY DEF HandlePacket
<1>2. k \in Range(Flow(p, q)) /\ k \in Packet
  BY <1>1, ReadIsThere
<1>3. k.type \in {"CTS", "SYNC_ACK"} => k.sreq \in Handle
  BY <1>2 DEF AnswersNamed, Answers
<1>4. ASSUME NEW i \in 1 .. Len(unexpected[q]), HandleCancelReqFound(q, p, k, i)
      PROVE  HandlesOK'
  <2>1. k.type = "CANCEL_SEND_REQ"
    BY <1>4 DEF HandleCancelReqFound
  <2>2. k.sreq \in Handle
    BY <1>2, <2>1, PacketFields
  <2>3. CancelAsked(p, q, k.sreq)
    BY <1>2, <2>1 DEF CancelAsked, In, OfType
  <2>4. Cancelling
    BY <2>2, <2>3 DEF AskedInv
  <2>0. unexpected[q] \in Seq(Arrival)
    BY DEF TypeOK
  <2>5. unexpected[q][i] \in Range(unexpected[q])
    BY <2>0, RemoveParts
  <2>6. SaysWho(q, unexpected[q][i])
    BY <2>5 DEF WhoSent
  <2> QED
    BY <1>1, <1>4, <2>4, <2>6, HandleCancelReqFoundRefs
<1>5. HandleCts(q, p, k) => HandlesOK'
  BY <1>1, <1>3, HandleCtsRefs DEF HandleCts
<1>6. HandleSyncAck(q, p, k) => HandlesOK'
  BY <1>1, <1>3, HandleSyncAckRefs DEF HandleSyncAck
<1> QED
  BY <1>1, <1>4, <1>5, <1>6, HandleEagerFoundRefs, HandleRtsFoundRefs,
     HandleEagerUnexpectedRefs, HandleRtsUnexpectedRefs, HandleRndvSendRefs,
     HandleCancelReqMissedRefs, HandleCancelRespRefs DEF HandlePacket

LEMMA StepRefs ==
  ASSUME TypeOK, TypeOK', HandlesOK, NoLoops, ~MultiThreaded, AnswersNamed, WhoSent,
         SelfInv, AskedInv, Cancelling => NamesInv, [Next]_vars
  PROVE  HandlesOK'
<1>1. CASE UNCHANGED vars
  BY <1>1, StutterRefs DEF HandlesOK
<1>2. ASSUME NEW p \in Proc, SendCall(p) \/ RecvCall(p) \/ EndCall(p) \/ FinishCall(p)
      PROVE  HandlesOK'
  BY <1>2, SendCallRefs, RecvCallRefs, EndCallRefs, FinishCallRefs
<1>3. ASSUME NEW p \in Proc, NEW q \in Proc, Write(p, q)
      PROVE  HandlesOK'
  <2>1. \A k \in Range(Flow(p, q)) : k.type \in Answers \cup {"RNDV_SEND"} => k.sreq \in Handle
    BY DEF AnswersNamed
  <2> QED
    BY <1>3, <2>1, WriteRefs
<1>4. ASSUME NEW p \in Proc, NEW q \in Proc, Deliver(q, p)
      PROVE  HandlesOK'
  BY <1>4, PacketRefs, PayloadArrivesRefs DEF Deliver
<1> QED
  BY <1>1, <1>2, <1>3, <1>4 DEF Next

LEMMA StepNet ==
  ASSUME TypeOK, HandlesOK, NoLoops, AnswersNamed, [Next]_vars
  PROVE  NoLoops' /\ AnswersNamed'
<1>1. NetFine
  BY StepFine
<1>2. NoLoops'
  BY <1>1 DEF NetFine, NoLoops
<1>3. ASSUME NEW a \in Proc, NEW b \in Proc, NEW x \in Range(Flow(a, b)'),
             x.type \in Answers \cup {"RNDV_SEND"}
      PROVE  x.sreq \in Handle
  BY <1>1, <1>3 DEF NetFine, Fine, AnswersNamed
<1> QED
  BY <1>2, <1>3 DEF AnswersNamed

(* A new entry of q's unexpected queue says who sent the message it stands *)
(* for, and its receive owes an answer exactly when the packet asks.       *)
ArrivalFine(q, e) ==
  /\ req'[q][e.rreq].rank = e.rank /\ req'[q][e.rreq].senderReq = e.sreq
  /\ \/ e.rank = q
     \/ \E k \in Messages(e.rank, q) :
          /\ k.sreq = e.sreq /\ k.id = e.id
          /\ Owes(req'[q][e.rreq]) <=> k.type \in Asks

ArrivalsFine ==
  \A q \in Proc : \A e \in Range(unexpected'[q]) :
    e \in Range(unexpected[q]) \/ ArrivalFine(q, e)

LEMMA SameArrivals ==
  ASSUME UNCHANGED unexpected PROVE ArrivalsFine
BY DEF ArrivalsFine

LEMMA ArrivalTaken ==
  ASSUME TypeOK, NEW q \in Proc, NEW i \in 1 .. Len(unexpected[q]),
         unexpected' = [unexpected EXCEPT ![q] = RemoveAt(@, i)]
  PROVE  ArrivalsFine
<1>1. unexpected[q] \in Seq(Arrival)
  BY DEF TypeOK
<1>2. Range(unexpected[q]) = Range(RemoveAt(unexpected[q], i)) \cup {unexpected[q][i]}
  BY <1>1, RemoveParts
<1>3. unexpected'[q] = RemoveAt(unexpected[q], i)
      /\ \A a \in Proc : a # q => unexpected'[a] = unexpected[a]
  BY DEF TypeOK
<1> QED
  BY <1>2, <1>3 DEF ArrivalsFine

LEMMA ArrivalAdded ==
  ASSUME TypeOK, NEW q \in Proc, NEW e \in Arrival,
         unexpected' = [unexpected EXCEPT ![q] = Append(@, e)], ArrivalFine(q, e)
  PROVE  ArrivalsFine
<1>1. unexpected[q] \in Seq(Arrival)
  BY DEF TypeOK
<1>2. Range(Append(unexpected[q], e)) = Range(unexpected[q]) \cup {e}
  BY <1>1, AppendParts
<1>3. unexpected'[q] = Append(unexpected[q], e)
      /\ \A a \in Proc : a # q => unexpected'[a] = unexpected[a]
  BY DEF TypeOK
<1>4. ASSUME NEW a \in Proc, NEW x \in Range(unexpected'[a])
      PROVE  x \in Range(unexpected[a]) \/ ArrivalFine(a, x)
  <2>1. CASE a = q
    BY <1>2, <1>3, <1>4, <2>1
  <2>2. CASE a # q
    BY <1>3, <1>4, <2>2
  <2> QED
    BY <2>1, <2>2
<1> QED
  BY <1>4 DEF ArrivalsFine

LEMMA SelfArrivalFine ==
  ASSUME TypeOK, NEW p \in Proc, NEW t \in Tag, NEW mode \in Mode, NEW size \in Size,
         NEW h \in Handle, NEW g \in Handle, IsendSelfUnexpected(p, t, mode, size, h, g)
  PROVE  ArrivalsFine
<1> DEFINE n == Len(sent[p]) + 1
           e == [rreq |-> g, rank |-> p, tag |-> t,
                 sreq |-> IF mode = "RSEND" THEN None ELSE h, id |-> n]
<1>1. /\ h # g /\ {h, g} \subseteq FreeHandles(p) /\ Others(p, {h, g})
      /\ req'[p][g].rank = p /\ req'[p][g].senderReq = req'[p][g].partner
      /\ req'[p][g].partner = IF mode = "RSEND" THEN None ELSE h
  BY IsendSelfUnexpectedReq DEF NewRecv
<1>2. /\ e \in Arrival /\ e.rreq = g /\ e.rank = p
      /\ e.sreq = IF mode = "RSEND" THEN None ELSE h
  <2>1. n \in Nat
    BY DEF TypeOK
  <2> QED
    BY <2>1 DEF Arrival
<1>3. unexpected' = [unexpected EXCEPT ![p] = Append(@, e)]
  BY NewSreqShape DEF IsendSelfUnexpected, NewSreq
<1> HIDE DEF e
<1>4. ArrivalFine(p, e)
  BY <1>1, <1>2 DEF ArrivalFine
<1> QED
  BY <1>2, <1>3, <1>4, ArrivalAdded

LEMMA PacketArrivalFine ==
  ASSUME TypeOK, MessageInv, NEW q \in Proc, NEW p \in Proc, NEW k,
         ReadPacket(q, p, k), NEW h \in Handle,
         HandleEagerUnexpected(q, p, k, h) \/ HandleRtsUnexpected(q, p, k, h)
  PROVE  ArrivalsFine
<1> DEFINE e == [rreq |-> h, rank |-> p, tag |-> k.tag, sreq |-> k.sreq, id |-> k.id]
<1>1. Message(k) /\ k \in Packet
  BY ReadHead DEF HandleEagerUnexpected, HandleRtsUnexpected, Message
<1>2. /\ req'[q][h].rank = p /\ req'[q][h].senderReq = k.sreq
      /\ Owes(req'[q][h]) <=> k.type \in Asks
  <2>1. CASE HandleEagerUnexpected(q, p, k, h)
    <3>1. k.type \in EagerTypes
      BY <2>1 DEF HandleEagerUnexpected
    <3>2. /\ h \in FreeHandles(q) /\ Others(q, {h}) /\ req'[q][h].type = "RECV"
          /\ req'[q][h].msgType = "EAGER" /\ req'[q][h].rank = p
          /\ req'[q][h].senderReq = k.sreq
          /\ req'[q][h].syncAck = (k.type = "EAGER_SYNC_SEND")
      BY <1>1, <2>1, HandleEagerUnexpectedReq DEF NewRecv
    <3> QED
      BY <3>1, <3>2 DEF Owes, Asks, EagerTypes
  <2>2. CASE HandleRtsUnexpected(q, p, k, h)
    <3>1. k.type = "RTS"
      BY <2>2 DEF HandleRtsUnexpected
    <3>2. /\ h \in FreeHandles(q) /\ Others(q, {h}) /\ req'[q][h].type = "RECV"
          /\ req'[q][h].msgType = "RNDV" /\ req'[q][h].rank = p
          /\ req'[q][h].senderReq = k.sreq
      BY <1>1, <2>2, HandleRtsUnexpectedReq DEF NewRecv
    <3> QED
      BY <3>1, <3>2 DEF Owes, Asks
  <2> QED
    BY <2>1, <2>2
<1>3. k \in Messages(p, q) /\ k.sreq \in Handle /\ k.tag \in Tag /\ k.id \in Nat
  BY <1>1, MessageRead
<1>4. e \in Arrival /\ e.rreq = h /\ e.rank = p /\ e.sreq = k.sreq /\ e.id = k.id
  BY <1>3 DEF Arrival
<1>5. unexpected' = [unexpected EXCEPT ![q] = Append(@, e)]
  BY DEF HandleEagerUnexpected, HandleRtsUnexpected, QueueUnexpected
<1> HIDE DEF e
<1>6. ArrivalFine(q, e)
  BY <1>2, <1>3, <1>4 DEF ArrivalFine
<1> QED
  BY <1>4, <1>5, <1>6, ArrivalAdded

LEMMA StepArrivals ==
  ASSUME TypeOK, MessageInv, [Next]_vars
  PROVE  ArrivalsFine
<1>1. CASE UNCHANGED unexpected
  BY <1>1, SameArrivals
<1>2. ASSUME NEW p \in Proc, SendCall(p) PROVE ArrivalsFine
  <2>1. PICK t \in Tag, mode \in Mode, size \in Size, h \in Handle :
          \/ \E q \in Proc : Isend(p, q, t, mode, size, h)
          \/ \E i \in 1 .. Len(posted[p]) : IsendSelfFound(p, t, mode, size, h, i)
          \/ \E g \in Handle : IsendSelfUnexpected(p, t, mode, size, h, g)
    BY <1>2 DEF SendCall
  <2> QED
    BY <1>1, <2>1, SelfArrivalFine DEF Isend, IsendSelfFound, queues
<1>3. ASSUME NEW p \in Proc, RecvCall(p) PROVE ArrivalsFine
  <2>1. ASSUME NEW f \in Filters, NEW i \in 1 .. Len(unexpected[p]),
               RecvFound(p, f, i) \/ Improbe(p, f, i)
        PROVE  ArrivalsFine
    BY <2>1, ArrivalTaken DEF RecvFound, Improbe, DequeueFor
  <2> QED
    BY <1>1, <1>3, <2>1 DEF RecvCall, RecvPost, Imrecv, queues
<1>4. ASSUME NEW p \in Proc, EndCall(p) PROVE ArrivalsFine
  <2>1. ASSUME NEW h \in Handle, NEW i \in 1 .. Len(unexpected[p]), CancelSelfFound(p, h, i)
        PROVE  ArrivalsFine
    BY <2>1, ArrivalTaken DEF CancelSelfFound
  <2> QED
    BY <1>1, <1>4, <2>1
    DEF EndCall, Wait, RequestFree, DropHandle, CancelSend, CancelSelfMissed, CancelRecv, queues
<1>5. ASSUME NEW p \in Proc, NEW q \in Proc, NEW k, HandlePacket(q, p, k)
      PROVE  ArrivalsFine
  <2>1. ReadPacket(q, p, k)
    BY <1>5 DEF HandlePacket
  <2>2. ASSUME NEW i \in 1 .. Len(unexpected[q]), HandleCancelReqFound(q, p, k, i)
        PROVE  ArrivalsFine
    BY <2>2, ArrivalTaken DEF HandleCancelReqFound
  <2> QED
    BY <1>1, <1>5, <2>1, <2>2, PacketArrivalFine
    DEF HandlePacket, HandleEagerFound, HandleRtsFound, HandleCts, HandleRndvSend,
        HandleSyncAck, HandleCancelReqMissed, HandleCancelResp, queues
<1>6. ASSUME NEW p \in Proc, FinishCall(p) PROVE ArrivalsFine
  BY <1>1, <1>6 DEF FinishCall, queues
<1>7. ASSUME NEW p \in Proc, NEW q \in Proc, Write(p, q) \/ PayloadArrives(q, p)
      PROVE ArrivalsFine
  BY <1>1, <1>7 DEF Write, PayloadArrives, queues
<1> QED
  BY <1>1, <1>2, <1>3, <1>4, <1>5, <1>6, <1>7 DEF Next, Deliver, vars, queues

LEMMA StepWhoSent ==
  ASSUME TypeOK, TypeOK', HandlesOK, HandlesOK', MessageInv, WhoSent, [Next]_vars
  PROVE  WhoSent'
<1> SUFFICES ASSUME NEW q \in Proc, NEW e \in Range(unexpected'[q])
             PROVE  req'[q][e.rreq].rank = e.rank /\ req'[q][e.rreq].senderReq = e.sreq
  BY DEF WhoSent, SaysWho
<1>1. CASE e \in Range(unexpected[q])
  <2>1. Core(req[q][e.rreq], req'[q][e.rreq])
    BY <1>1, ArrivalGoesOn
  <2>2. req[q][e.rreq].rank = e.rank /\ req[q][e.rreq].senderReq = e.sreq
    BY <1>1 DEF WhoSent, SaysWho
  <2> QED
    BY <2>1, <2>2 DEF Core
<1>2. CASE ArrivalFine(q, e)
  BY <1>2 DEF ArrivalFine
<1> QED
  BY <1>1, <1>2, StepArrivals DEF ArrivalsFine

(* A send that was there and is there still awaits what it awaited. *)
LEMMA AwaitsStill ==
  ASSUME TypeOK, MaxGen <= 1, HandleInv, HandlesOK, [Next]_vars,
         NEW p \in Proc, NEW h \in Handle, Used(p, h), IsSend(req'[p][h])
  PROVE  IsSend(req[p][h]) /\ (Awaits(req'[p][h]) <=> Awaits(req[p][h]))
<1>1. IsSend(req[p][h])
  BY SendStill
<1>2. Core(req[p][h], req'[p][h])
  BY <1>1, SendGoesOn
<1> QED
  BY <1>1, <1>2 DEF Core, Awaits

LEMMA StepMessagesAsk ==
  ASSUME TypeOK, MaxGen <= 1, HandleInv, HandlesOK, NoLoops, AnswersNamed, NamesInv,
         [Next]_vars, NEW p \in Proc, NEW q \in Proc, NEW k \in Messages(p, q)',
         IsSend(req'[p][k.sreq])
  PROVE  k.type \in Asks <=> Awaits(req'[p][k.sreq])
<1>1. k \in Range(Flow(p, q)') /\ Message(k)
  BY DEF Messages
<1>2. CASE k \in Range(Flow(p, q))
  <2>1. k \in Messages(p, q)
    BY <1>1, <1>2 DEF Messages
  <2>2. k.sreq \in Handle
    BY <2>1, HandleTypes
  <2>3. Used(p, k.sreq)
    BY <2>1 DEF HandleInv, NamesSend
  <2>4. IsSend(req[p][k.sreq]) /\ (Awaits(req'[p][k.sreq]) <=> Awaits(req[p][k.sreq]))
    BY <2>2, <2>3, AwaitsStill
  <2>5. k.type \in Asks <=> Awaits(req[p][k.sreq])
    BY <2>1, <2>4 DEF NamesInv
  <2> QED
    BY <2>4, <2>5
<1>3. CASE Fine(p, k)
  BY <1>1, <1>3 DEF Fine
<1> QED
  BY <1>1, <1>2, <1>3, StepFine DEF NetFine

LEMMA StepArrivalsOwe ==
  ASSUME TypeOK, TypeOK', MaxGen <= 1, MessageInv, HandleInv, HandlesOK, HandlesOK', NamesInv,
         [Next]_vars, NEW p \in Proc, NEW q \in Proc, NEW e \in Arrivals(p, q)',
         p # q, e.sreq # None, IsSend(req'[p][e.sreq])
  PROVE  Owes(req'[q][e.rreq]) <=> Awaits(req'[p][e.sreq])
<1>1. e \in Range(unexpected'[q]) /\ e.rank = p
  BY DEF Arrivals
<1>2. CASE e \in Range(unexpected[q])
  <2>1. e \in Arrivals(p, q)
    BY <1>1, <1>2 DEF Arrivals
  <2>2. e.sreq \in Handle
    BY <2>1, HandleTypes
  <2>3. Used(p, e.sreq)
    BY <2>1 DEF HandleInv, NamesSend
  <2>4. IsSend(req[p][e.sreq]) /\ (Awaits(req'[p][e.sreq]) <=> Awaits(req[p][e.sreq]))
    BY <2>2, <2>3, AwaitsStill
  <2>5. Owes(req[q][e.rreq]) <=> Awaits(req[p][e.sreq])
    BY <2>1, <2>4 DEF NamesInv
  <2>6. Core(req[q][e.rreq], req'[q][e.rreq])
    BY <1>1, <1>2, ArrivalGoesOn
  <2> QED
    BY <2>4, <2>5, <2>6 DEF Core, Owes
<1>3. CASE ArrivalFine(q, e)
  <2>1. PICK k \in Messages(p, q) : k.sreq = e.sreq /\ (Owes(req'[q][e.rreq]) <=> k.type \in Asks)
    BY <1>1, <1>3 DEF ArrivalFine
  <2>2. k.sreq \in Handle
    BY HandleTypes
  <2>3. Used(p, k.sreq)
    BY DEF HandleInv, NamesSend
  <2>4. IsSend(req[p][k.sreq]) /\ (Awaits(req'[p][k.sreq]) <=> Awaits(req[p][k.sreq]))
    BY <2>1, <2>2, <2>3, AwaitsStill
  <2>5. k.type \in Asks <=> Awaits(req[p][k.sreq])
    BY <2>4 DEF NamesInv
  <2> QED
    BY <2>1, <2>4, <2>5
<1> QED
  BY <1>1, <1>2, <1>3, StepArrivals DEF ArrivalsFine

LEMMA StepNames ==
  ASSUME TypeOK, TypeOK', MaxGen <= 1, MessageInv, HandleInv, HandlesOK, HandlesOK',
         NoLoops, AnswersNamed, NamesInv, [Next]_vars
  PROVE  NamesInv'
BY StepMessagesAsk, StepArrivalsOwe DEF NamesInv

-----------------------------------------------------------------------------
LEMMA InitRefs ==
  ASSUME Init, TypeOK
  PROVE  HandlesOK
<1> SUFFICES ASSUME NEW p \in Proc, NEW h \in Handle PROVE HandleRefs(p, h)
  BY DEF HandlesOK
<1>1. req[p][h] = FreeRequest(0, 0) /\ user[p][h] = "none" /\ call[p] = None
  BY DEF Init
<1>2. \A a, b \in Proc : /\ sendq[a][b] = <<>> /\ Flow(a, b) = <<>> /\ reading[a][b] = None
                         /\ unexpected[a] = <<>> /\ posted[a] = <<>>
  BY InitFlow DEF Init
<1>3. FreeRequest(0, 0).type = "FREE" /\ FreeRequest(0, 0).ref = 0
  BY DEF Returned, FreeRequest
<1>4. ~IsSend(req[p][h]) /\ req[p][h].type # "RECV"
  BY <1>1, <1>3 DEF IsSend
<1>6. ASSUME NEW q \in Proc
      PROVE  IsFiniteSet(Debtors(p, q, h)) /\ SendTokens(p, q, h) = 0
  <2>1. Debtors(p, q, h) = {}
    BY <1>3 DEF Debtors, OwesAnswer, Init
  <2>2. Cardinality(Debtors(p, q, h)) = 0 /\ IsFiniteSet(Debtors(p, q, h))
    BY <2>1, FS_EmptySet
  <2>3. /\ sendq[p][q] = <<>> /\ Flow(p, q) = <<>> /\ Flow(q, p) = <<>>
    BY <1>2
  <2> QED
    BY <2>2, <2>3, CountNone DEF SendTokens
<1>7. SendRefs(p, h)
  BY <1>4, <1>6 DEF SendRefs
<1>8. RecvIdle(p, h)
  <2>1. NumPosted(p, h) = 0 /\ NumQueued(p, h) = 0
    BY <1>2, CountNone DEF NumPosted, NumQueued
  <2>2. ASSUME NEW a \in Proc PROVE UnderWay(p, a, h) = 0
    BY <1>2, CountNone, NoneAssumption DEF UnderWay, Num
  <2> QED
    BY <1>1, <2>1, <2>2 DEF RecvIdle
<1>9. KeptInv(p, h)
  BY <1>1, <1>3, <1>4, NoneAssumption DEF KeptInv
<1> QED
  BY <1>4, <1>7, <1>8, <1>9 DEF HandleRefs, RecvRefs

LEMMA RefParts ==
  RefInv <=> /\ HandlesOK /\ NoLoops /\ AnswersNamed /\ WhoSent
             /\ Cancelling => NamesInv
BY DEF RefInv, HandlesOK, HandleRefs, NoLoops, AnswersNamed, WhoSent

LEMMA InitRefInv ==
  ASSUME Init, TypeOK PROVE RefInv
<1>1. HandlesOK
  BY InitRefs
<1>2. \A p, q \in Proc : Range(Flow(p, q)) = {} /\ Range(unexpected[q]) = {}
                         /\ wire[p][p] = <<>> /\ sendq[p][p] = <<>>
  BY InitFlow DEF Init
<1> QED
  BY <1>1, <1>2, RefParts DEF NoLoops, AnswersNamed, WhoSent, NamesInv, Messages, Arrivals

LEMMA StepRefInv ==
  ASSUME TypeOK, TypeOK', MatchingInv, ~MultiThreaded, Cancelling => MaxGen <= 1,
         RefInv, [Next]_vars
  PROVE  RefInv'
<1>1. HandlesOK /\ NoLoops /\ AnswersNamed /\ WhoSent /\ (Cancelling => NamesInv)
  BY RefParts
<1>2. MessageInv /\ SelfInv /\ AskedInv /\ (Cancelling => HandleInv)
  BY DEF MatchingInv, CancelInv
<1>3. HandlesOK'
  BY <1>1, <1>2, StepRefs
<1>4. NoLoops' /\ AnswersNamed'
  BY <1>1, StepNet
<1>5. WhoSent'
  BY <1>1, <1>2, <1>3, StepWhoSent
<1>6. Cancelling => NamesInv'
  BY <1>1, <1>2, <1>3, StepNames
<1> QED
  BY <1>3, <1>4, <1>5, <1>6 DEF RefInv, HandlesOK, HandleRefs, NoLoops, AnswersNamed, WhoSent

-----------------------------------------------------------------------------
LEMMA LiveByType ==
  ASSUME TypeOK, HandlesOK, NEW p \in Proc, NEW h \in Handle
  PROVE  /\ IsSend(req[p][h]) => LiveSend(p, h)
         /\ req[p][h].type = "RECV" => LiveRecv(p, h)
         /\ user[p][h] # "none" => req[p][h].ref > 0
<1>1. HandleRefs(p, h)
  BY DEF HandlesOK
<1>2. IsSend(req[p][h]) => req[p][h].ref > 0
  BY <1>1 DEF HandleRefs, SendRefs
<1>3. req[p][h].type = "RECV" => req[p][h].ref > 0
  BY <1>1 DEF HandleRefs, RecvRefs
<1>4. req[p][h].type = "FREE" => user[p][h] = "none"
  BY <1>1 DEF HandleRefs, KeptInv
<1>5. req[p][h].type \in {"FREE", "RECV", "SEND", "SSEND", "RSEND"}
  <2>1. req[p][h] \in Request
    BY DEF TypeOK
  <2> QED
    BY <2>1 DEF Request
<1> QED
  BY <1>2, <1>3, <1>4, <1>5 DEF LiveSend, LiveRecv, IsSend

LEMMA BusyIsRecv ==
  ASSUME TypeOK, HandlesOK, NEW q \in Proc, NEW p \in Proc, NEW g \in Handle,
         UnderWay(q, p, g) # 0
  PROVE  req[q][g].type = "RECV"
BY DEF HandlesOK, HandleRefs, RecvRefs, RecvIdle

LEMMA ReadingIsRecv ==
  ASSUME TypeOK, HandlesOK, NEW q \in Proc, NEW p \in Proc, NEW g \in Handle,
         reading[q][p] = g
  PROVE  req[q][g].type = "RECV"
<1>1. NumIn(Flow(q, p), Cleared(g)) \in Nat /\ NumIn(Flow(p, q), Coming(g)) \in Nat
  BY FlowCounts
<1>2. UnderWay(q, p, g) # 0
  BY <1>1, UnderWayNat DEF Num
<1> QED
  BY <1>2, BusyIsRecv

LEMMA NamedRecvs ==
  ASSUME TypeOK, HandlesOK, NEW p \in Proc, NEW q \in Proc, NEW k \in Range(Flow(p, q))
  PROVE  /\ k.type = "CTS" => k.rreq \in Handle /\ req[p][k.rreq].type = "RECV"
         /\ k.type = "RNDV_SEND" => k.rreq \in Handle /\ req[q][k.rreq].type = "RECV"
<1>1. Flow(p, q) \in Seq(Packet)
  BY FlowType
<1>2. k \in Packet
  BY <1>1, RangeOf
<1>3. ASSUME k.type = "CTS" PROVE k.rreq \in Handle /\ req[p][k.rreq].type = "RECV"
  <2>1. k.rreq \in Handle
    BY <1>2, <1>3, PacketFields
  <2>2. k \in Cleared(k.rreq)
    BY <1>2, <1>3 DEF Cleared, ForRecv
  <2>3. /\ NumIn(Flow(p, q), Cleared(k.rreq)) \in Nat /\ NumIn(Flow(p, q), Cleared(k.rreq)) # 0
        /\ NumIn(Flow(q, p), Coming(k.rreq)) \in Nat
    BY <1>1, <2>2, CountType, FlowCounts
  <2>4. UnderWay(p, q, k.rreq) # 0
    BY <2>3, UnderWayNat DEF Num
  <2> QED
    BY <2>1, <2>4, BusyIsRecv
<1>4. ASSUME k.type = "RNDV_SEND" PROVE k.rreq \in Handle /\ req[q][k.rreq].type = "RECV"
  <2>1. k.rreq \in Handle
    BY <1>2, <1>4, PacketFields
  <2>2. k \in Coming(k.rreq)
    BY <1>2, <1>4 DEF Coming, ForRecv
  <2>3. /\ NumIn(Flow(p, q), Coming(k.rreq)) \in Nat /\ NumIn(Flow(p, q), Coming(k.rreq)) # 0
        /\ NumIn(Flow(q, p), Cleared(k.rreq)) \in Nat
    BY <1>1, <2>2, CountType, FlowCounts
  <2>4. UnderWay(q, p, k.rreq) # 0
    BY <2>3, UnderWayNat DEF Num
  <2> QED
    BY <2>1, <2>4, BusyIsRecv
<1> QED
  BY <1>3, <1>4

LEMMA CarriedSend ==
  ASSUME TypeOK, HandlesOK, NEW p \in Proc, NEW q \in Proc, NEW k \in Range(sendq[p][q]),
         CarriesRequest(k), NEW c \in Handle, c = k.sreq
  PROVE  IsSend(req[p][c])
<1>1. PICK w \in BOOLEAN : w = Awaits(req[p][c])
  BY DEF Awaits
<1>2. sendq[p][q] \in Seq(Packet)
  BY FlowType
<1>3. k \in Packet
  BY <1>2, RangeOf
<1>4. k \in OfType(Carriers, c)
  BY <1>3 DEF OfType, CarriesRequest, Carriers
<1>5. NumIn(sendq[p][q], OfType(Carriers, c)) \in Nat /\ NumIn(sendq[p][q], OfType(Carriers, c)) # 0
  BY <1>2, <1>4, CountType
<1>6. /\ NumIn(Flow(p, q), OfType(Questions, c)) \in Nat
      /\ NumIn(Flow(q, p), OfType(Answers, c)) \in Nat
      /\ NumIn(Flow(q, p), AcksOf(c)) \in Nat
      /\ Cardinality(Debtors(p, q, c)) \in Nat
  BY FlowCounts, FiniteDebts, FS_CardinalityType
<1>7. TokensAs(p, q, c, w) > 0
  BY <1>5, <1>6 DEF TokensAs
<1> QED
  BY <1>1, <1>7, SendRefsForm DEF HandlesOK, HandleRefs

LEMMA FlowKept ==
  ASSUME TypeOK, HandlesOK, AnswersNamed, NEW p \in Proc, NEW q \in Proc,
         NEW k \in Range(Flow(p, q))
  PROVE  PacketKept(p, q, k)
<1>1. Flow(p, q) \in Seq(Packet)
  BY FlowType
<1>2. k \in Packet
  BY <1>1, RangeOf
<1>3. ASSUME k.type \in {"RTS", "CANCEL_SEND_REQ"} PROVE LiveSend(p, k.sreq)
  <2>1. k.sreq \in Handle /\ k.type \in Questions
    BY <1>2, <1>3, PacketFields DEF Questions, Asks
  <2>2. IsSend(req[p][k.sreq])
    BY <2>1, QuestionsSend
  <2> QED
    BY <2>1, <2>2, LiveByType
<1>4. ASSUME k.type \in {"CTS", "SYNC_ACK", "CANCEL_SEND_RESP"} PROVE LiveSend(q, k.sreq)
  <2>1. k.sreq \in Handle /\ k.type \in Answers
    BY <1>4 DEF Answers, AnswersNamed
  <2>2. IsSend(req[q][k.sreq])
    BY <2>1, AnswersSend
  <2> QED
    BY <2>1, <2>2, LiveByType
<1> QED
  BY <1>3, <1>4, NamedRecvs, LiveByType DEF PacketKept

LEMMA InConcatFirst ==
  ASSUME NEW S, NEW v \in Seq(S), NEW s \in Seq(S), NEW x \in Range(v)
  PROVE  x \in Range(v \o s)
<1>1. /\ v \o s \in Seq(S) /\ Len(v \o s) = Len(v) + Len(s) /\ Len(v) \in Nat /\ Len(s) \in Nat
      /\ \A i \in 1 .. Len(v) + Len(s) :
           (v \o s)[i] = IF i <= Len(v) THEN v[i] ELSE s[i - Len(v)]
  BY ConcatProperties, LenProperties
<1>2. PICK i \in 1 .. Len(v) : x = v[i]
  BY RangeOf
<1>3. i \in 1 .. Len(v \o s) /\ (v \o s)[i] = x
  BY <1>1, <1>2
<1> QED
  BY <1>1, <1>3, RangeOf

LEMMA RefsKeepAlive ==
  ASSUME TypeOK, RefInv
  PROVE  NothingDangles
<1>1. HandlesOK /\ AnswersNamed
  BY RefParts
<1> SUFFICES ASSUME NEW p \in Proc
    PROVE  /\ \A h \in Handle : user[p][h] # "none" => req[p][h].ref > 0
           /\ \A i \in DOMAIN posted[p] : LiveRecv(p, posted[p][i].rreq)
           /\ \A i \in DOMAIN unexpected[p] : LiveRecv(p, unexpected[p][i].rreq)
           /\ call[p] # None => LiveSend(p, call[p])
           /\ \A q \in Proc :
                /\ reading[p][q] # None => LiveRecv(p, reading[p][q])
                /\ \A i \in DOMAIN sendq[p][q] :
                     /\ PacketKept(p, q, sendq[p][q][i])
                     /\ CarriesRequest(sendq[p][q][i]) => LiveSend(p, sendq[p][q][i].sreq)
                /\ \A i \in DOMAIN wire[p][q] : PacketKept(p, q, wire[p][q][i])
  BY DEF NothingDangles
<1>2. \A h \in Handle : user[p][h] # "none" => req[p][h].ref > 0
  BY <1>1, LiveByType
<1>3. ASSUME NEW i \in DOMAIN posted[p] PROVE LiveRecv(p, posted[p][i].rreq)
  <2>1. i \in 1 .. Len(posted[p])
    BY DEF TypeOK
  <2>2. posted[p][i].rreq \in Handle
    BY <2>1, EntryTypes
  <2>3. req[p][posted[p][i].rreq].type = "RECV"
    BY <1>1, <2>1, <2>2, PostedIsRecv
  <2> QED
    BY <1>1, <2>2, <2>3, LiveByType
<1>4. ASSUME NEW i \in DOMAIN unexpected[p] PROVE LiveRecv(p, unexpected[p][i].rreq)
  <2>1. i \in 1 .. Len(unexpected[p])
    BY DEF TypeOK
  <2>2. unexpected[p][i].rreq \in Handle
    BY <2>1, EntryTypes
  <2>3. req[p][unexpected[p][i].rreq].type = "RECV"
    BY <1>1, <2>1, <2>2, ArrivalIsRecv
  <2> QED
    BY <1>1, <2>2, <2>3, LiveByType
<1>5. ASSUME call[p] # None PROVE LiveSend(p, call[p])
  <2>1. call[p] \in Handle
    BY <1>5 DEF TypeOK
  <2>2. IsSend(req[p][call[p]])
    BY <1>1, <2>1 DEF HandlesOK, HandleRefs, KeptInv
  <2> QED
    BY <1>1, <2>1, <2>2, LiveByType
<1>6. ASSUME NEW q \in Proc, reading[p][q] # None PROVE LiveRecv(p, reading[p][q])
  <2>1. reading[p][q] \in Handle
    BY <1>6 DEF TypeOK
  <2> QED
    BY <1>1, <2>1, ReadingIsRecv, LiveByType
<1>7. ASSUME NEW q \in Proc
      PROVE  /\ \A i \in DOMAIN wire[p][q] : wire[p][q][i] \in Range(Flow(p, q))
             /\ \A i \in DOMAIN sendq[p][q] : /\ sendq[p][q][i] \in Range(Flow(p, q))
                                              /\ sendq[p][q][i] \in Range(sendq[p][q])
  <2>1. wire[p][q] \in Seq(Packet) /\ sendq[p][q] \in Seq(Packet)
    BY FlowType
  <2>3. /\ \A i \in DOMAIN wire[p][q] : wire[p][q][i] \in Range(wire[p][q])
        /\ \A i \in DOMAIN sendq[p][q] : sendq[p][q][i] \in Range(sendq[p][q])
    BY DEF Range
  <2>4. /\ \A x \in Range(wire[p][q]) : x \in Range(Flow(p, q))
        /\ \A x \in Range(sendq[p][q]) : x \in Range(Flow(p, q))
    BY <2>1, InConcatFirst, InConcat DEF Flow
  <2> QED
    BY <2>3, <2>4
<1>8. ASSUME NEW q \in Proc, NEW i \in DOMAIN sendq[p][q], CarriesRequest(sendq[p][q][i])
      PROVE  LiveSend(p, sendq[p][q][i].sreq)
  <2> DEFINE k == sendq[p][q][i]
  <2>1. k \in Range(Flow(p, q)) /\ k \in Range(sendq[p][q]) /\ CarriesRequest(k)
    BY <1>7, <1>8
  <2> HIDE DEF k
  <2>2. k \in Packet
    BY <2>1, FlowType, RangeOf
  <2>3. k.sreq \in Handle
    BY <1>1, <2>1, <2>2, PacketFields DEF CarriesRequest, AnswersNamed
  <2>4. IsSend(req[p][k.sreq])
    BY <1>1, <2>1, <2>3, CarriedSend
  <2>5. LiveSend(p, k.sreq)
    BY <1>1, <2>3, <2>4, LiveByType
  <2> QED
    BY <2>5 DEF k
<1>9. \A q \in Proc : /\ \A i \in DOMAIN wire[p][q] : PacketKept(p, q, wire[p][q][i])
                      /\ \A i \in DOMAIN sendq[p][q] : PacketKept(p, q, sendq[p][q][i])
  BY <1>1, <1>7, FlowKept
<1> QED
  BY <1>2, <1>3, <1>4, <1>5, <1>6, <1>8, <1>9

LEMMA CountedInQueues ==
  ASSUME TypeOK, NEW p \in Proc, NEW h \in Handle
  PROVE  /\ Cardinality({i \in DOMAIN posted[p] : posted[p][i].rreq = h}) = NumPosted(p, h)
         /\ Cardinality({i \in DOMAIN unexpected[p] : unexpected[p][i].rreq = h}) = NumQueued(p, h)
<1>1. /\ \A i \in DOMAIN posted[p] : posted[p][i] \in Posting
      /\ \A i \in DOMAIN unexpected[p] : unexpected[p][i] \in Arrival
  BY DEF TypeOK
<1>2. {i \in DOMAIN posted[p] : posted[p][i].rreq = h}
        = {i \in DOMAIN posted[p] : posted[p][i] \in PostingsOf(h)}
  BY <1>1 DEF PostingsOf
<1>3. {i \in DOMAIN unexpected[p] : unexpected[p][i].rreq = h}
        = {i \in DOMAIN unexpected[p] : unexpected[p][i] \in ArrivalsOf(h)}
  BY <1>1 DEF ArrivalsOf
<1> QED
  BY <1>2, <1>3 DEF NumPosted, NumQueued, NumIn

LEMMA OneSendersDebts ==
  ASSUME TypeOK, HandlesOK, NEW p \in Proc, NEW h \in Handle, IsSend(req[p][h]),
         NEW a \in Proc, NEW g \in Handle, OwesAnswer(a, g, p, h)
  PROVE  a = req[p][h].rank
<1>1. PICK w \in BOOLEAN : w = Awaits(req[p][h])
  BY DEF Awaits
<1>2. IsFiniteSet(Debtors(p, a, h)) /\ g \in Debtors(p, a, h)
  BY FiniteDebts DEF Debtors
<1>3. Cardinality(Debtors(p, a, h)) \in Nat /\ Cardinality(Debtors(p, a, h)) # 0
  BY <1>2, FS_CardinalityType, FS_EmptySet
<1>4. /\ NumIn(Flow(p, a), OfType(Questions, h)) \in Nat
      /\ NumIn(Flow(a, p), OfType(Answers, h)) \in Nat
      /\ NumIn(Flow(a, p), AcksOf(h)) \in Nat
      /\ NumIn(sendq[p][a], OfType(Carriers, h)) \in Nat
  BY FlowCounts
<1>5. TokensAs(p, a, h, w) > 0
  <2> DEFINE c == Cardinality(Debtors(p, a, h))
             x == NumIn(Flow(p, a), OfType(Questions, h))
             y == NumIn(Flow(a, p), OfType(Answers, h))
             z == NumIn(Flow(a, p), AcksOf(h))
             v == NumIn(sendq[p][a], OfType(Carriers, h))
  <2>1. TokensAs(p, a, h, w) = v + x + c + y + IF w THEN z ELSE 0
    BY DEF TokensAs
  <2>2. c \in Nat /\ c # 0 /\ x \in Nat /\ y \in Nat /\ z \in Nat /\ v \in Nat
    BY <1>3, <1>4
  <2> HIDE DEF c, x, y, z, v
  <2> QED
    BY <2>1, <2>2
<1> QED
  BY <1>1, <1>5, SendRefsForm DEF HandlesOK, HandleRefs

LEMMA SameNumberOfPairs ==
  ASSUME NEW S, IsFiniteSet(S), NEW a
  PROVE  Cardinality({a} \X S) = Cardinality(S)
<1> DEFINE T == {a} \X S
           f == [g \in S |-> <<a, g>>]
<1>1. f \in [S -> T]
  OBVIOUS
<1>2. \A x, y \in S : f[x] = f[y] => x = y
  OBVIOUS
<1>3. \A t \in T : \E x \in S : f[x] = t
  OBVIOUS
<1>4. DOMAIN f = S
  OBVIOUS
<1> HIDE DEF f, T
<1>5. f \in Bijection(S, T)
  BY <1>1, <1>2, <1>3, <1>4 DEF Bijection, Injection, Surjection, IsInjective
<1>6. ExistsBijection(S, T)
  BY <1>5 DEF ExistsBijection
<1>7. Cardinality(T) = Cardinality(S)
  BY <1>6, FS_Bijection
<1> QED
  BY <1>7 DEF T

(* The debts to a send are all of the process it was sent to. *)
LEMMA CountedDebts ==
  ASSUME TypeOK, HandlesOK, NEW p \in Proc, NEW h \in Handle
  PROVE  Cardinality({a \in Proc \X Handle : IsSend(req[p][h]) /\ OwesAnswer(a[1], a[2], p, h)})
           = IF IsSend(req[p][h]) THEN Cardinality(Debtors(p, req[p][h].rank, h)) ELSE 0
<1> DEFINE D == {a \in Proc \X Handle : IsSend(req[p][h]) /\ OwesAnswer(a[1], a[2], p, h)}
<1>1. CASE ~IsSend(req[p][h])
  <2>1. D = {}
    BY <1>1
  <2> QED
    BY <1>1, <2>1, FS_EmptySet
<1>2. CASE IsSend(req[p][h])
  <2>1. PICK q \in Proc : q = req[p][h].rank
    BY <1>2 DEF HandlesOK, HandleRefs, SendRefs
  <2>2. D = {q} \X Debtors(p, q, h)
    <3>1. \A a \in Proc, g \in Handle : OwesAnswer(a, g, p, h) => a = q
      BY <1>2, <2>1, OneSendersDebts
    <3>2. ASSUME NEW x \in D PROVE x \in {q} \X Debtors(p, q, h)
      BY <3>1, <3>2 DEF Debtors
    <3>3. ASSUME NEW x \in {q} \X Debtors(p, q, h) PROVE x \in D
      BY <1>2, <3>3 DEF Debtors
    <3> QED
      BY <3>2, <3>3
  <2>3. IsFiniteSet(Debtors(p, q, h))
    BY FiniteDebts
  <2>4. PICK S : S = Debtors(p, q, h)
    OBVIOUS
  <2>5. Cardinality({q} \X S) = Cardinality(S)
    BY <2>3, <2>4, SameNumberOfPairs
  <2>6. Cardinality(D) = Cardinality(S)
    BY <2>2, <2>4, <2>5
  <2> HIDE DEF D
  <2>7. Cardinality(D) = IF IsSend(req[p][h]) THEN Cardinality(Debtors(p, req[p][h].rank, h)) ELSE 0
    BY <1>2, <2>1, <2>4, <2>6
  <2> QED
    BY <2>7 DEF D
<1> QED
  BY <1>1, <1>2

LEMMA RefsAreReturned ==
  ASSUME TypeOK, RefInv
  PROVE  NothingLeaks
<1> SUFFICES ASSUME Quiet, NEW p \in Proc, NEW h \in Handle
             PROVE  req[p][h].ref = References(p, h)
  BY DEF NothingLeaks
<1> DEFINE u == IF user[p][h] # "none" THEN 1 ELSE 0
           r == req[p][h]
<1>1. HandlesOK
  BY RefParts
<1>2. HandleRefs(p, h)
  BY <1>1 DEF HandlesOK
<1>3. /\ call[p] = None
      /\ \A a, b \in Proc : sendq[a][b] = <<>> /\ Flow(a, b) = <<>> /\ reading[a][b] = None
  BY DEF Quiet, Flow
<1>4. \A a \in Proc : UnderWay(p, a, h) = 0
  BY <1>3, CountNone, NoneAssumption DEF UnderWay, Num
<1>5. /\ NumPosted(p, h) \in Nat /\ NumQueued(p, h) \in Nat
      /\ \A a \in Proc : Cardinality(Debtors(p, a, h)) \in Nat
  BY <1>1, QueueCounts, FiniteDebts, FS_CardinalityType
<1>6. References(p, h) = u + NumPosted(p, h) + NumQueued(p, h)
        + IF IsSend(r) THEN Cardinality(Debtors(p, r.rank, h)) ELSE 0
  BY <1>1, CountedInQueues, CountedDebts DEF References
<1>7. Num(user[p][h] # "none") = u /\ Num(call[p] = h) = 0 /\ u \in Nat
  BY <1>3, NoneAssumption DEF Num
<1>8. CASE IsSend(r)
  <2>1. PICK q \in Proc : q = r.rank
    BY <1>2, <1>8 DEF HandleRefs, SendRefs
  <2>2. /\ NumIn(sendq[p][q], OfType(Carriers, h)) = 0
        /\ NumIn(Flow(p, q), OfType(Questions, h)) = 0
        /\ NumIn(Flow(q, p), OfType(Answers, h)) = 0
        /\ NumIn(Flow(q, p), AcksOf(h)) = 0
    BY <1>3, CountNone
  <2>3. SendTokens(p, q, h) = Cardinality(Debtors(p, q, h))
    BY <1>5, <2>2 DEF SendTokens
  <2>4. r.ref + Num(call[p] = h) = Num(user[p][h] # "none") + SendTokens(p, q, h)
    BY <1>2, <1>8, <2>1 DEF HandleRefs, SendRefs
  <2>5. NumPosted(p, h) = 0 /\ NumQueued(p, h) = 0
    BY <1>2, <1>8 DEF HandleRefs, RecvRefs, RecvIdle, IsSend
  <2>6. r.ref \in Int
    <3>1. r \in Request
      BY DEF TypeOK
    <3> QED
      BY <3>1, RequestFields
  <2>7. /\ References(p, h) = u + Cardinality(Debtors(p, q, h))
        /\ r.ref + 0 = u + Cardinality(Debtors(p, q, h))
    BY <1>5, <1>6, <1>7, <1>8, <2>1, <2>3, <2>4, <2>5
  <2> QED
    BY <2>6, <2>7
<1>9. CASE r.type = "RECV"
  <2>1. PICK a \in Proc : RecvWith(p, a, h)
    BY <1>2, <1>9 DEF HandleRefs, RecvRefs
  <2>2. r.ref = Num(user[p][h] # "none") + NumPosted(p, h) + NumQueued(p, h) + UnderWay(p, a, h)
    BY <2>1 DEF RecvWith
  <2>3. ~IsSend(r)
    BY <1>9 DEF IsSend
  <2> QED
    BY <1>4, <1>5, <1>6, <1>7, <2>2, <2>3
<1>10. CASE r.type = "FREE"
  <2>1. r.ref = 0 /\ u = 0
    BY <1>2, <1>10 DEF HandleRefs, KeptInv
  <2>2. NumPosted(p, h) = 0 /\ NumQueued(p, h) = 0
    BY <1>2, <1>10 DEF HandleRefs, RecvRefs, RecvIdle
  <2>3. ~IsSend(r)
    BY <1>10 DEF IsSend
  <2> QED
    BY <1>6, <2>1, <2>2, <2>3
<1>11. r.type \in {"FREE", "RECV", "SEND", "SSEND", "RSEND"}
  <2>1. r \in Request
    BY DEF TypeOK
  <2> QED
    BY <2>1 DEF Request
<1> QED
  BY <1>8, <1>9, <1>10, <1>11 DEF IsSend

(* Every step takes and gives up exactly the references it counts: the     *)
(* number a request holds is that of its holders, in every state.          *)
THEOREM RequestsAreCounted ==
  ASSUME ~MultiThreaded, Cancelling => MaxGen <= 1
  PROVE  Spec => []RefInv
<1>1. Init /\ TypeOK => RefInv
  BY InitRefInv
<1>2. TypeOK /\ TypeOK' /\ MatchingInv /\ RefInv /\ [Next]_vars => RefInv'
  BY StepRefInv
<1>3. Spec => []TypeOK
  BY TypeCorrect
<1>4. Spec => []MatchingInv
  BY CancelsKnowTheirSend
<1> QED
  BY <1>1, <1>2, <1>3, <1>4, PTL DEF Spec

(* Whatever a packet, a queue, a connection or the application names is a  *)
(* live request of the right kind: none is released too early.             *)
THEOREM NoneReleasedEarly ==
  ASSUME ~MultiThreaded, Cancelling => MaxGen <= 1
  PROVE  Spec => []NothingDangles
<1>1. TypeOK /\ RefInv => NothingDangles
  BY RefsKeepAlive
<1>2. Spec => []TypeOK
  BY TypeCorrect
<1>3. Spec => []RefInv
  BY RequestsAreCounted
<1> QED
  BY <1>1, <1>2, <1>3, PTL

(* When the connections are quiet a request holds the references of those  *)
(* who can still give them up, and no other: none is leaked.               *)
THEOREM NoneLeaked ==
  ASSUME ~MultiThreaded, Cancelling => MaxGen <= 1
  PROVE  Spec => []NothingLeaks
<1>1. TypeOK /\ RefInv => NothingLeaks
  BY RefsAreReturned
<1>2. Spec => []TypeOK
  BY TypeCorrect
<1>3. Spec => []RefInv
  BY RequestsAreCounted
<1> QED
  BY <1>1, <1>2, <1>3, PTL
=============================================================================

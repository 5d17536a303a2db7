--------------------------- MODULE ConnectionProofs ---------------------------
(***************************************************************************)
(* Proofs about Connection, for any plans in which one process at most     *)
(* sends from threads: both sides settle for one connection, one write at  *)
(* a time is under way, the close protocol is in order, and the connection *)
(* implements Channel.                                                     *)
(***************************************************************************)
EXTENDS ConnectionInv, SequenceTheorems, FiniteSetTheorems, TLAPS

-----------------------------------------------------------------------------
(***************************************************************************)
(* Sequences.                                                              *)
(***************************************************************************)
LEMMA Joined ==
  ASSUME NEW S, NEW a \in Seq(S), NEW b \in Seq(S), NEW c \in Seq(S)
  PROVE  /\ a \o b \in Seq(S) /\ (a \o b) \o c = a \o (b \o c)
         /\ a \o <<>> = a /\ <<>> \o a = a
         /\ Len(a) \in Nat /\ Len(a \o b) = Len(a) + Len(b)
BY ConcatProperties, ConcatAssociative, ConcatEmptySeq, LenProperties, SMTT(60)

LEMMA One ==
  ASSUME NEW S, NEW m \in S
  PROVE  <<m>> \in Seq(S) /\ Len(<<m>>) = 1 /\ <<m>>[1] = m /\ Head(<<m>>) = m /\ <<m>> # <<>>
OBVIOUS

LEMMA AppendJoined ==
  ASSUME NEW S, NEW a \in Seq(S), NEW b \in Seq(S), NEW m \in S
  PROVE  /\ Append(a, m) \in Seq(S) /\ Append(a, m) = a \o <<m>>
         /\ Append(a \o b, m) = a \o Append(b, m)
         /\ Append(a, m) # <<>>
<1>1. <<m>> \in Seq(S)
  BY One
<1>2. Append(a, m) = a \o <<m>> /\ Append(b, m) = b \o <<m>>
  BY AppendIsConcat
<1>3. a \o b \in Seq(S) /\ Append(a \o b, m) = (a \o b) \o <<m>>
  BY ConcatProperties, AppendIsConcat
<1>4. (a \o b) \o <<m>> = a \o (b \o <<m>>)
  BY <1>1, ConcatAssociative
<1> QED
  BY <1>2, <1>3, <1>4, AppendProperties, SMTT(60)

LEMMA HeadFirst ==
  ASSUME NEW S, NEW s \in Seq(S), s # <<>>
  PROVE  /\ Head(s) = s[1] /\ Head(s) \in S /\ Tail(s) \in Seq(S)
         /\ Len(s) \in Nat /\ Len(s) >= 1 /\ Len(Tail(s)) = Len(s) - 1
         /\ \A i \in 1 .. Len(s) - 1 : Tail(s)[i] = s[i + 1]
<1>1. Len(s) \in Nat \ {0}
  BY EmptySeq
<1>2. Head(s) = s[1]
  OBVIOUS
<1> QED
  BY <1>1, <1>2, HeadTailProperties

LEMMA HeadJoined ==
  ASSUME NEW S, NEW a \in Seq(S), NEW b \in Seq(S), a # <<>>
  PROVE  a \o b # <<>> /\ Head(a \o b) = Head(a) /\ Tail(a \o b) = Tail(a) \o b
<1>1. /\ a \o b \in Seq(S) /\ Len(a \o b) = Len(a) + Len(b)
      /\ \A i \in 1 .. Len(a) + Len(b) : (a \o b)[i] = IF i <= Len(a) THEN a[i] ELSE b[i - Len(a)]
  BY ConcatProperties
<1>2. /\ Head(a) = a[1] /\ Tail(a) \in Seq(S) /\ Len(a) \in Nat /\ Len(a) >= 1
      /\ Len(Tail(a)) = Len(a) - 1
      /\ \A i \in 1 .. Len(a) - 1 : Tail(a)[i] = a[i + 1]
  BY HeadFirst
<1>3. Len(b) \in Nat
  BY LenProperties
<1>4. a \o b # <<>>
  BY <1>1, <1>2, <1>3, EmptySeq
<1>5. /\ Head(a \o b) = (a \o b)[1] /\ Tail(a \o b) \in Seq(S)
      /\ Len(Tail(a \o b)) = Len(a \o b) - 1
      /\ \A i \in 1 .. Len(a \o b) - 1 : Tail(a \o b)[i] = (a \o b)[i + 1]
  BY <1>1, <1>4, HeadFirst
<1>6. Head(a \o b) = Head(a)
  BY <1>1, <1>2, <1>3, <1>5
<1>7. /\ Tail(a) \o b \in Seq(S) /\ Len(Tail(a) \o b) = Len(Tail(a)) + Len(b)
      /\ \A i \in 1 .. Len(Tail(a)) + Len(b) :
           (Tail(a) \o b)[i] = IF i <= Len(Tail(a)) THEN Tail(a)[i] ELSE b[i - Len(Tail(a))]
  BY <1>2, ConcatProperties
<1>8. Len(Tail(a \o b)) = Len(Tail(a) \o b)
  BY <1>1, <1>2, <1>3, <1>5, <1>7
<1>9. ASSUME NEW i \in 1 .. Len(Tail(a \o b))
      PROVE  Tail(a \o b)[i] = (Tail(a) \o b)[i]
  <2>1. i \in 1 .. Len(a) + Len(b) - 1 /\ i + 1 \in 1 .. Len(a) + Len(b)
    BY <1>1, <1>2, <1>3, <1>5
  <2>2. Tail(a \o b)[i] = IF i + 1 <= Len(a) THEN a[i + 1] ELSE b[i + 1 - Len(a)]
    BY <2>1, <1>1, <1>5
  <2>3. (Tail(a) \o b)[i] = IF i <= Len(a) - 1 THEN a[i + 1] ELSE b[i - (Len(a) - 1)]
    BY <2>1, <1>2, <1>3, <1>7
  <2> QED
    BY <2>1, <2>2, <2>3, <1>2, <1>3
<1>10. Tail(a \o b) = Tail(a) \o b
  BY <1>5, <1>7, <1>8, <1>9, SeqEqual
<1> QED
  BY <1>4, <1>6, <1>10

LEMMA LongOrNot ==
  /\ \A n \in Nat : n >= 1 => n > 1 \/ n = 1
  /\ \A n \in Nat : n > 1 => n - 1 # 0
OBVIOUS

LEMMA HeadAndTail ==
  ASSUME NEW S, NEW s \in Seq(S), s # <<>>
  PROVE  s = <<Head(s)>> \o Tail(s)
<1>1. /\ Head(s) = s[1] /\ Head(s) \in S /\ Tail(s) \in Seq(S)
      /\ Len(s) \in Nat /\ Len(s) >= 1 /\ Len(Tail(s)) = Len(s) - 1
      /\ \A i \in 1 .. Len(s) - 1 : Tail(s)[i] = s[i + 1]
  BY HeadFirst
<1>2. <<Head(s)>> \in Seq(S) /\ Len(<<Head(s)>>) = 1 /\ <<Head(s)>>[1] = Head(s)
  BY <1>1, One
<1>3. /\ <<Head(s)>> \o Tail(s) \in Seq(S) /\ Len(<<Head(s)>> \o Tail(s)) = Len(s)
      /\ \A i \in 1 .. Len(s) :
           (<<Head(s)>> \o Tail(s))[i] = IF i <= 1 THEN <<Head(s)>>[i] ELSE Tail(s)[i - 1]
  BY <1>1, <1>2, ConcatProperties
<1>4. \A i \in 1 .. Len(s) : (<<Head(s)>> \o Tail(s))[i] = s[i]
  BY <1>1, <1>2, <1>3
<1> QED
  BY <1>1, <1>3, <1>4, SeqEqual

(* What is between a beginning and an end. *)
LEMMA Middle ==
  ASSUME NEW S, NEW b \in Seq(S), NEW m \in Seq(S), NEW a \in Seq(S)
  PROVE  SubSeq(b \o m \o a, Len(b) + 1, Len(b \o m \o a) - Len(a)) = m
<1> DEFINE w == b \o m \o a
<1>1. /\ b \o m \in Seq(S) /\ Len(b \o m) = Len(b) + Len(m)
      /\ \A i \in 1 .. Len(b) + Len(m) : (b \o m)[i] = IF i <= Len(b) THEN b[i] ELSE m[i - Len(b)]
  BY ConcatProperties
<1>2. /\ w \in Seq(S) /\ Len(w) = Len(b) + Len(m) + Len(a)
      /\ \A i \in 1 .. Len(b) + Len(m) : w[i] = (b \o m)[i]
  <2>1. Len(b) \in Nat /\ Len(m) \in Nat /\ Len(a) \in Nat
    BY LenProperties
  <2> QED
    BY <1>1, <2>1, ConcatProperties
<1> HIDE DEF w
<1>3. Len(b) \in Nat /\ Len(m) \in Nat /\ Len(a) \in Nat
  BY LenProperties
<1>4. \A i \in 1 .. Len(w) : w[i] \in S
  BY <1>2, ElementOfSeq
<1> DEFINE x == SubSeq(w, Len(b) + 1, Len(w) - Len(a))
<1>5. /\ x \in Seq(S) /\ Len(x) = Len(m)
      /\ \A i \in 1 .. Len(m) : x[i] = w[Len(b) + i]
  <2>1. PICK lo \in Int, hi \in Int : lo = Len(b) + 1 /\ hi = Len(w) - Len(a)
    BY <1>2, <1>3
  <2>2. \A i \in lo .. hi : w[i] \in S
    BY <2>1, <1>2, <1>3, <1>4
  <2>3. /\ SubSeq(w, lo, hi) \in Seq(S)
        /\ Len(SubSeq(w, lo, hi)) = IF lo <= hi THEN hi - lo + 1 ELSE 0
        /\ \A i \in 1 .. hi - lo + 1 : SubSeq(w, lo, hi)[i] = w[lo + i - 1]
    BY <2>2, SubSeqProperties
  <2>4. Len(x) = Len(m)
    BY <2>1, <2>3, <1>2, <1>3
  <2>5. ASSUME NEW i \in 1 .. Len(m)
        PROVE  x[i] = w[Len(b) + i]
    <3>1. i \in 1 .. hi - lo + 1 /\ lo + i - 1 = Len(b) + i
      BY <2>1, <1>2, <1>3
    <3> QED
      BY <3>1, <2>1, <2>3
  <2> QED
    BY <2>1, <2>3, <2>4, <2>5
<1>6. \A i \in 1 .. Len(m) : w[Len(b) + i] = m[i]
  BY <1>1, <1>2, <1>3
<1>7. x = m
  BY <1>5, <1>6, SeqEqual
<1> QED
  BY <1>7 DEF w

(* A sequence of which the first packets are written. *)
LEMMA Cut ==
  ASSUME NEW S, NEW s \in Seq(S), NEW k \in 0 .. Len(s)
  PROVE  /\ SubSeq(s, 1, k) \in Seq(S) /\ SubSeq(s, k + 1, Len(s)) \in Seq(S)
         /\ Len(SubSeq(s, 1, k)) = k /\ Len(SubSeq(s, k + 1, Len(s))) = Len(s) - k
         /\ \A i \in 1 .. Len(s) - k : SubSeq(s, k + 1, Len(s))[i] = s[k + i]
         /\ s = SubSeq(s, 1, k) \o SubSeq(s, k + 1, Len(s))
<1>1. Len(s) \in Nat /\ k \in Nat /\ k <= Len(s) /\ \A i \in 1 .. Len(s) : s[i] \in S
  BY LenProperties, ElementOfSeq
<1> DEFINE x == SubSeq(s, 1, k)
           y == SubSeq(s, k + 1, Len(s))
<1>2. x \in Seq(S) /\ Len(x) = k /\ \A i \in 1 .. k : x[i] = s[i]
  <2>1. \A i \in 1 .. k : s[i] \in S
    BY <1>1
  <2>2. /\ x \in Seq(S) /\ Len(x) = IF 1 <= k THEN k - 1 + 1 ELSE 0
        /\ \A i \in 1 .. k - 1 + 1 : x[i] = s[1 + i - 1]
    BY <1>1, <2>1, SubSeqProperties
  <2> QED
    BY <1>1, <2>2
<1>3. y \in Seq(S) /\ Len(y) = Len(s) - k /\ \A i \in 1 .. Len(s) - k : y[i] = s[k + i]
  <2>1. PICK lo \in Int, hi \in Int : lo = k + 1 /\ hi = Len(s)
    BY <1>1
  <2>2. \A i \in lo .. hi : s[i] \in S
    BY <1>1, <2>1
  <2>3. /\ SubSeq(s, lo, hi) \in Seq(S)
        /\ Len(SubSeq(s, lo, hi)) = IF lo <= hi THEN hi - lo + 1 ELSE 0
        /\ \A i \in 1 .. hi - lo + 1 : SubSeq(s, lo, hi)[i] = s[lo + i - 1]
    BY <2>2, SubSeqProperties
  <2>4. Len(y) = Len(s) - k
    BY <1>1, <2>1, <2>3
  <2>5. ASSUME NEW i \in 1 .. Len(s) - k
        PROVE  y[i] = s[k + i]
    <3>1. i \in 1 .. hi - lo + 1 /\ lo + i - 1 = k + i
      BY <1>1, <2>1
    <3> QED
      BY <2>1, <2>3, <3>1
  <2> QED
    BY <2>1, <2>3, <2>4, <2>5
<1> HIDE DEF x, y
<1>4. /\ x \o y \in Seq(S) /\ Len(x \o y) = k + (Len(s) - k)
      /\ \A i \in 1 .. k + (Len(s) - k) : (x \o y)[i] = IF i <= k THEN x[i] ELSE y[i - k]
  <2>1. /\ x \o y \in Seq(S) /\ Len(x \o y) = Len(x) + Len(y)
        /\ \A i \in 1 .. Len(x) + Len(y) : (x \o y)[i] = IF i <= Len(x) THEN x[i] ELSE y[i - Len(x)]
    BY <1>2, <1>3, ConcatProperties, Zenon
  <2>2. Len(x) = k /\ Len(y) = Len(s) - k
    BY <1>2, <1>3
  <2> QED
    BY <2>1, <2>2
<1>5. Len(x \o y) = Len(s)
  BY <1>1, <1>4
<1>6. ASSUME NEW i \in 1 .. Len(s)
      PROVE  s[i] = (x \o y)[i]
  <2>1. (x \o y)[i] = IF i <= k THEN x[i] ELSE y[i - k]
    BY <1>1, <1>4
  <2>2. CASE i <= k
    BY <1>1, <1>2, <2>1, <2>2
  <2>3. CASE i > k
    <3>1. i - k \in 1 .. Len(s) - k /\ k + (i - k) = i
      BY <1>1, <2>3
    <3> QED
      BY <1>1, <1>3, <2>1, <2>3, <3>1
  <2>4. i <= k \/ i > k
    BY <1>1
  <2> QED
    BY <2>2, <2>3, <2>4
<1>7. s = x \o y
  BY <1>4, <1>5, <1>6, SeqEqual
<1> QED
  BY <1>2, <1>3, <1>7 DEF x, y

LEMMA CutBehindHead ==
  ASSUME NEW S, NEW s \in Seq(S), NEW k \in 0 .. Len(s), k < Len(s)
  PROVE  /\ SubSeq(s, k + 1, Len(s)) # <<>>
         /\ Tail(SubSeq(s, k + 1, Len(s))) = SubSeq(s, k + 2, Len(s))
         /\ Tail(SubSeq(s, k + 1, Len(s))) \in Seq(S)
         /\ s = SubSeq(s, 1, k + 1) \o Tail(SubSeq(s, k + 1, Len(s)))
<1> DEFINE y == SubSeq(s, k + 1, Len(s))
           z == SubSeq(s, k + 2, Len(s))
<1>1. Len(s) \in Nat /\ k \in Nat /\ k + 1 \in 0 .. Len(s) /\ (k + 1) + 1 = k + 2
  BY LenProperties
<1>2. /\ y \in Seq(S) /\ Len(y) = Len(s) - k
      /\ \A i \in 1 .. Len(s) - k : y[i] = s[k + i]
  BY Cut
<1>3. /\ z \in Seq(S) /\ Len(z) = Len(s) - (k + 1)
      /\ \A i \in 1 .. Len(s) - (k + 1) : z[i] = s[(k + 1) + i]
      /\ s = SubSeq(s, 1, k + 1) \o z
  <2>1. PICK j \in 0 .. Len(s) : j = k + 1 /\ j + 1 = k + 2
    BY <1>1
  <2>2. /\ SubSeq(s, j + 1, Len(s)) \in Seq(S) /\ Len(SubSeq(s, j + 1, Len(s))) = Len(s) - j
        /\ \A i \in 1 .. Len(s) - j : SubSeq(s, j + 1, Len(s))[i] = s[j + i]
        /\ s = SubSeq(s, 1, j) \o SubSeq(s, j + 1, Len(s))
    BY Cut, Zenon
  <2> QED
    BY <2>1, <2>2
<1> HIDE DEF y, z
<1>4. y # <<>>
  BY <1>1, <1>2, EmptySeq
<1>5. /\ Tail(y) \in Seq(S) /\ Len(Tail(y)) = Len(y) - 1
      /\ \A i \in 1 .. Len(y) - 1 : Tail(y)[i] = y[i + 1]
  BY <1>2, <1>4, HeadFirst
<1>6. Len(Tail(y)) = Len(z)
  BY <1>1, <1>2, <1>3, <1>5
<1>7. ASSUME NEW i \in 1 .. Len(Tail(y))
      PROVE  Tail(y)[i] = z[i]
  <2>1. i \in 1 .. Len(y) - 1 /\ i + 1 \in 1 .. Len(s) - k /\ i \in 1 .. Len(s) - (k + 1)
        /\ k + (i + 1) = (k + 1) + i
    BY <1>1, <1>2, <1>5
  <2> QED
    BY <2>1, <1>2, <1>3, <1>5
<1>8. Tail(y) = z
  BY <1>3, <1>5, <1>6, <1>7, SeqEqual
<1> QED
  BY <1>3, <1>4, <1>8 DEF y, z

-----------------------------------------------------------------------------
(***************************************************************************)
(* The close packets in a sequence, and in the part of it that is received.*)
(***************************************************************************)
Ordered(s) == NoClose(s) \/ Asks(s) \/ Complete(s)

LEMMA ClosePackets ==
  /\ \A b \in BOOLEAN : Close(b) \in Packets /\ Close(b).type = "CLOSE" /\ Close(b).ack = b
  /\ Close(TRUE) # Close(FALSE)
  /\ Close(TRUE).type = "CLOSE" /\ Close(FALSE).type = "CLOSE"
  /\ Close(TRUE) \in Packets /\ Close(FALSE) \in Packets
  /\ \A m \in Packets : m.type # "DATA" => m = Close(m.ack) /\ m.ack \in BOOLEAN
  /\ \A m \in Packets : m.type \in {"DATA", "CLOSE"}
BY DEF Close, Packets

LEMMA NoneYet == NoClose(<<>>)
BY EmptySeq DEF NoClose

LEMMA Closing ==
  ASSUME NEW s \in Seq(Packets), NEW m \in Packets
  PROVE  /\ NoClose(s) /\ m.type = "DATA" => NoClose(Append(s, m))
         /\ NoClose(s) /\ m = Close(FALSE) => Asks(Append(s, m))
         /\ NoClose(s) /\ m = Close(TRUE) => Answers(Append(s, m))
         /\ Asks(s) /\ m = Close(TRUE) => Both(Append(s, m))
<1> DEFINE t == Append(s, m)
<1>1. /\ Len(s) \in Nat /\ Len(t) = Len(s) + 1
      /\ \A i \in 1 .. Len(s) : t[i] = s[i]
      /\ t[Len(s) + 1] = m
  BY AppendProperties, LenProperties
<1> HIDE DEF t
<1>2. NoClose(s) /\ m.type = "DATA" => NoClose(t)
  BY <1>1 DEF NoClose
<1>3. NoClose(s) /\ m = Close(FALSE) => Asks(t)
  BY <1>1 DEF NoClose, Asks
<1>4. NoClose(s) /\ m = Close(TRUE) => Answers(t)
  BY <1>1 DEF NoClose, Answers
<1>5. ASSUME Asks(s), m = Close(TRUE)
      PROVE  Both(t)
  <2>1. Len(t) - 1 = Len(s)
    BY <1>1
  <2>2. Len(s) \in 1 .. Len(s)
    BY <1>1, <1>5 DEF Asks
  <2>3. t[Len(s)] = Close(FALSE)
    BY <2>2, <1>1, <1>5 DEF Asks
  <2>4. Len(t) > 1 /\ t[Len(t)] = Close(TRUE)
    BY <2>2, <1>1, <1>5
  <2>5. \A i \in 1 .. Len(t) : i < Len(t) - 1 => t[i].type = "DATA"
    BY <1>1, <1>5 DEF Asks
  <2> QED
    BY <2>1, <2>3, <2>4, <2>5 DEF Both
<1> QED
  BY <1>2, <1>3, <1>4, <1>5 DEF t

LEMMA LastPacket ==
  ASSUME NEW s, Len(s) \in Nat
  PROVE  /\ Asks(s) => Len(s) \in 1 .. Len(s) /\ s[Len(s)] = Close(FALSE)
         /\ Complete(s) => Len(s) \in 1 .. Len(s) /\ s[Len(s)] = Close(TRUE)
<1>1. Asks(s) => Len(s) \in 1 .. Len(s) /\ s[Len(s)] = Close(FALSE)
  BY DEF Asks
<1>2. Answers(s) => Len(s) \in 1 .. Len(s) /\ s[Len(s)] = Close(TRUE)
  BY DEF Answers
<1>3. Both(s) => Len(s) \in 1 .. Len(s) /\ s[Len(s)] = Close(TRUE)
  BY DEF Both
<1> QED
  BY <1>1, <1>2, <1>3 DEF Complete

LEMMA FormsDiffer ==
  ASSUME NEW s \in Seq(Packets)
  PROVE  /\ NoClose(s) => ~Asks(s) /\ ~Complete(s)
         /\ Asks(s) => ~Complete(s)
         /\ Answers(s) => ~Both(s)
         /\ Asks(s) \/ Complete(s) => s # <<>>
<1>1. Len(s) \in Nat /\ Len(<<>>) = 0
  BY LenProperties, EmptySeq
<1>2. ASSUME NoClose(s), Asks(s) \/ Answers(s) \/ Both(s)
      PROVE  FALSE
  <2>1. Len(s) \in 1 .. Len(s) /\ (s[Len(s)] = Close(TRUE) \/ s[Len(s)] = Close(FALSE))
    BY <1>1, <1>2, LastPacket DEF Complete
  <2>2. s[Len(s)].type = "DATA"
    BY <2>1, <1>2 DEF NoClose
  <2> QED
    BY <2>1, <2>2, ClosePackets
<1>3. Asks(s) => ~Complete(s)
  BY ClosePackets DEF Asks, Answers, Both, Complete
<1>4. ASSUME Answers(s), Both(s)
      PROVE  FALSE
  <2>1. Len(s) > 1 /\ s[Len(s) - 1] = Close(FALSE)
    BY <1>4 DEF Both
  <2>2. Len(s) - 1 \in 1 .. Len(s) /\ Len(s) - 1 < Len(s)
    BY <1>1, <2>1
  <2>3. s[Len(s) - 1].type = "DATA"
    BY <2>2, <1>4 DEF Answers
  <2> QED
    BY <2>1, <2>3, ClosePackets
<1>5. ASSUME Asks(s) \/ Complete(s)
      PROVE  s # <<>>
  <2>1. Len(s) \in 1 .. Len(s)
    BY <1>1, <1>5, LastPacket
  <2> QED
    BY <1>1, <2>1
<1> QED
  BY <1>2, <1>3, <1>4, <1>5 DEF Complete

LEMMA Prefix ==
  ASSUME NEW r \in Seq(Packets), NEW v \in Seq(Packets)
  PROVE  /\ Len(r) \in Nat /\ Len(v) \in Nat /\ Len(r \o v) = Len(r) + Len(v)
         /\ \A i \in 1 .. Len(r) : (r \o v)[i] = r[i]
         /\ v = <<>> <=> Len(v) = 0
         /\ v # <<>> => Len(v) >= 1 /\ (r \o v)[Len(r) + 1] = Head(v) /\ Head(v) \in Packets
                        /\ Len(Tail(v)) = Len(v) - 1 /\ Tail(v) \in Seq(Packets)
<1>1. /\ Len(r) \in Nat /\ Len(v) \in Nat /\ Len(r \o v) = Len(r) + Len(v)
      /\ \A i \in 1 .. Len(r) + Len(v) : (r \o v)[i] = IF i <= Len(r) THEN r[i] ELSE v[i - Len(r)]
  BY ConcatProperties, LenProperties
<1>2. v = <<>> <=> Len(v) = 0
  BY EmptySeq
<1>3. ASSUME v # <<>>
      PROVE  /\ Len(v) >= 1 /\ (r \o v)[Len(r) + 1] = Head(v) /\ Head(v) \in Packets
             /\ Len(Tail(v)) = Len(v) - 1 /\ Tail(v) \in Seq(Packets)
  <2>1. /\ Head(v) = v[1] /\ Head(v) \in Packets /\ Len(v) >= 1 /\ Len(Tail(v)) = Len(v) - 1
        /\ Tail(v) \in Seq(Packets)
    BY <1>3, HeadFirst
  <2>2. (r \o v)[Len(r) + 1] = v[1]
    BY <1>1, <2>1
  <2> QED
    BY <2>1, <2>2
<1> QED
  BY <1>1, <1>2, <1>3

(* What a packet of s says about s. *)
LEMMA PacketSays ==
  ASSUME NEW s, Len(s) \in Nat, NEW n \in 1 .. Len(s), Ordered(s)
  PROVE  /\ s[n] = Close(TRUE) => n = Len(s) /\ Complete(s)
         /\ s[n] = Close(FALSE) => (n = Len(s) /\ Asks(s)) \/ (n = Len(s) - 1 /\ Both(s))
         /\ s[n].type = "DATA" => NoClose(s) \/ (n < Len(s) /\ (Asks(s) \/ Answers(s)))
                                 \/ (n < Len(s) - 1 /\ Both(s))
<1>1. CASE NoClose(s)
  BY <1>1, ClosePackets DEF NoClose
<1>2. CASE Asks(s)
  <2>1. n < Len(s) \/ n = Len(s)
    OBVIOUS
  <2> QED
    BY <2>1, <1>2, ClosePackets DEF Asks
<1>3. CASE Answers(s)
  <2>1. n < Len(s) \/ n = Len(s)
    OBVIOUS
  <2> QED
    BY <2>1, <1>3, ClosePackets DEF Answers, Complete
<1>4. CASE Both(s)
  <2>1. n < Len(s) - 1 \/ n = Len(s) - 1 \/ n = Len(s)
    OBVIOUS
  <2> QED
    BY <2>1, <1>4, ClosePackets DEF Both, Complete
<1> QED
  BY <1>1, <1>2, <1>3, <1>4 DEF Ordered, Complete

(* What is received says what was sent, and what is next. *)
LEMMA ReceivedForms ==
  ASSUME NEW r \in Seq(Packets), NEW v \in Seq(Packets), Ordered(r \o v)
  PROVE  /\ NoClose(r \o v) => NoClose(r)
         /\ Complete(r) => v = <<>>
         /\ Asks(r) => Asks(r \o v) \/ Both(r \o v)
         /\ Ordered(r)
<1>1. /\ Len(r) \in Nat /\ Len(v) \in Nat /\ Len(r \o v) = Len(r) + Len(v)
      /\ \A i \in 1 .. Len(r) : (r \o v)[i] = r[i]
      /\ v = <<>> <=> Len(v) = 0
  BY Prefix
<1> DEFINE s == r \o v
<1> HIDE DEF s
<1>2. /\ Len(s) = Len(r) + Len(v) /\ Len(s) \in Nat
      /\ \A i \in 1 .. Len(r) : s[i] = r[i] /\ i \in 1 .. Len(s)
  BY <1>1 DEF s
<1>3. Ordered(s)
  BY DEF s
<1>4. NoClose(s) => NoClose(r)
  BY <1>1, <1>2 DEF NoClose
<1>5. ASSUME Complete(r)
      PROVE  v = <<>>
  <2>1. Len(r) \in 1 .. Len(r) /\ r[Len(r)] = Close(TRUE)
    BY <1>1, <1>5, LastPacket
  <2>2. Len(r) \in 1 .. Len(s) /\ s[Len(r)] = Close(TRUE)
    BY <2>1, <1>1, <1>2
  <2>3. Len(r) = Len(s)
    BY <2>2, <1>2, <1>3, PacketSays
  <2> QED
    BY <2>3, <1>1, <1>2
<1>6. ASSUME Asks(r)
      PROVE  Asks(s) \/ Both(s)
  <2>1. Len(r) \in 1 .. Len(r) /\ r[Len(r)] = Close(FALSE)
    BY <1>1, <1>6, LastPacket
  <2>2. Len(r) \in 1 .. Len(s) /\ s[Len(r)] = Close(FALSE)
    BY <2>1, <1>2
  <2> QED
    BY <2>2, <1>2, <1>3, PacketSays
<1>7. CASE Len(v) = 0
  <2>1. s = r
    BY <1>1, <1>7, ConcatEmptySeq DEF s
  <2> QED
    BY <2>1, <1>3, <1>4, <1>5, <1>6 DEF s
<1>8. CASE Len(v) > 0
  <2>1. ASSUME NoClose(s)
        PROVE  Ordered(r)
    BY <2>1, <1>4 DEF Ordered
  <2>2. ASSUME Asks(s) \/ Answers(s)
        PROVE  Ordered(r)
    <3>1. \A i \in 1 .. Len(r) : i < Len(s)
      BY <1>1, <1>2, <1>8
    <3>2. NoClose(r)
      BY <3>1, <2>2, <1>1, <1>2 DEF NoClose, Asks, Answers
    <3> QED
      BY <3>2 DEF Ordered
  <2>3. ASSUME Both(s)
        PROVE  Ordered(r)
    <3>1. CASE Len(v) = 1
      <4>1. Len(s) - 1 = Len(r) /\ Len(r) \in 1 .. Len(r)
        BY <3>1, <2>3, <1>1, <1>2 DEF Both
      <4>2. r[Len(r)] = Close(FALSE)
        BY <4>1, <2>3, <1>2 DEF Both
      <4>3. \A i \in 1 .. Len(r) : i < Len(r) => r[i].type = "DATA"
        BY <4>1, <2>3, <1>2 DEF Both
      <4> QED
        BY <4>1, <4>2, <4>3 DEF Asks, Ordered
    <3>2. CASE Len(v) > 1
      <4>1. \A i \in 1 .. Len(r) : i < Len(s) - 1
        BY <3>2, <1>1, <1>2
      <4>2. NoClose(r)
        BY <4>1, <2>3, <1>2 DEF Both, NoClose
      <4> QED
        BY <4>2 DEF Ordered
    <3>3. Len(v) = 1 \/ Len(v) > 1
      BY <1>1, <1>8
    <3> QED
      BY <3>1, <3>2, <3>3
  <2>4. Ordered(r)
    BY <2>1, <2>2, <2>3, <1>3 DEF Ordered, Complete
  <2> QED
    BY <2>4, <1>4, <1>5, <1>6 DEF s
<1> QED
  BY <1>1, <1>7, <1>8

LEMMA NextForms ==
  ASSUME NEW r \in Seq(Packets), NEW v \in Seq(Packets), Ordered(r \o v), v # <<>>
  PROVE  /\ Head(v) # Close(TRUE) => NoClose(r)
         /\ Head(v) = Close(FALSE) => Asks(r \o v) \/ Both(r \o v)
         /\ Head(v) = Close(TRUE) => (NoClose(r) /\ Answers(r \o v)) \/ (Asks(r) /\ Both(r \o v))
         /\ Head(v) = Close(TRUE) => Tail(v) = <<>>
<1> DEFINE s == r \o v
           n == Len(r) + 1
<1> HIDE DEF s
<1>1. /\ Len(r) \in Nat /\ Len(v) \in Nat /\ Len(s) = Len(r) + Len(v)
      /\ \A i \in 1 .. Len(r) : s[i] = r[i]
      /\ Len(v) >= 1 /\ s[n] = Head(v) /\ Head(v) \in Packets
      /\ Len(Tail(v)) = Len(v) - 1 /\ Tail(v) \in Seq(Packets)
  BY Prefix DEF s
<1>2. Ordered(s)
  BY DEF s
<1>3. n \in 1 .. Len(s) /\ Len(s) \in Nat /\ Len(r) = n - 1 /\ \A i \in 1 .. Len(r) : i < n /\ i \in 1 .. Len(s)
  BY <1>1
<1> HIDE DEF n
<1>4. Ordered(r)
  BY ReceivedForms
<1>5. ASSUME Head(v) # Close(TRUE)
      PROVE  NoClose(r)
  <2>1. s[n] = Close(FALSE) \/ s[n].type = "DATA"
    BY <1>1, <1>5, ClosePackets
  <2>2. \/ NoClose(s) \/ (n <= Len(s) /\ (Asks(s) \/ Answers(s)))
        \/ (n <= Len(s) - 1 /\ Both(s))
    <3>1. CASE s[n] = Close(FALSE)
      <4>1. (n = Len(s) /\ Asks(s)) \/ (n = Len(s) - 1 /\ Both(s))
        BY <3>1, <1>2, <1>3, PacketSays
      <4> QED
        BY <4>1, <1>3
    <3>2. CASE s[n].type = "DATA"
      <4>1. NoClose(s) \/ (n < Len(s) /\ (Asks(s) \/ Answers(s))) \/ (n < Len(s) - 1 /\ Both(s))
        BY <3>2, <1>2, <1>3, PacketSays
      <4> QED
        BY <4>1, <1>3
    <3> QED
      BY <2>1, <3>1, <3>2
  <2>3. CASE NoClose(s)
    BY <2>3, <1>1, <1>3 DEF NoClose
  <2>4. CASE n <= Len(s) /\ (Asks(s) \/ Answers(s))
    <3>1. \A i \in 1 .. Len(r) : i < Len(s)
      BY <2>4, <1>3
    <3> QED
      BY <3>1, <2>4, <1>1, <1>3 DEF NoClose, Asks, Answers
  <2>5. CASE n <= Len(s) - 1 /\ Both(s)
    <3>1. \A i \in 1 .. Len(r) : i < Len(s) - 1
      BY <2>5, <1>3
    <3> QED
      BY <3>1, <2>5, <1>1, <1>3 DEF NoClose, Both
  <2> QED
    BY <2>2, <2>3, <2>4, <2>5
<1>6. Head(v) = Close(FALSE) => Asks(s) \/ Both(s)
  BY <1>1, <1>2, <1>3, PacketSays
<1>7. ASSUME Head(v) = Close(TRUE)
      PROVE  /\ (NoClose(r) /\ Answers(s)) \/ (Asks(r) /\ Both(s))
             /\ Tail(v) = <<>>
  <2>1. n = Len(s) /\ Complete(s)
    BY <1>1, <1>2, <1>3, <1>7, PacketSays
  <2>2. ASSUME Answers(s)
        PROVE  NoClose(r)
    BY <2>1, <2>2, <1>1, <1>3 DEF NoClose, Answers
  <2>3. ASSUME Both(s)
        PROVE  Asks(r)
    <3>1. Len(s) - 1 = Len(r) /\ Len(r) \in 1 .. Len(r)
      BY <2>1, <2>3, <1>1, <1>3 DEF Both
    <3>2. r[Len(r)] = Close(FALSE)
      BY <3>1, <2>3, <1>1 DEF Both
    <3>3. \A i \in 1 .. Len(r) : i < Len(r) => r[i].type = "DATA"
      BY <3>1, <2>3, <1>1, <1>3 DEF Both
    <3> QED
      BY <3>1, <3>2, <3>3 DEF Asks
  <2>4. Tail(v) = <<>>
    <3>1. Len(Tail(v)) = 0
      BY <2>1, <1>1, <1>3
    <3>2. Tail(v) \in Seq(Packets)
      BY <1>1
    <3> QED
      BY <3>1, <3>2, EmptySeq
  <2> QED
    BY <2>1, <2>2, <2>3, <2>4 DEF Complete
<1> QED
  BY <1>5, <1>6, <1>7 DEF s

-----------------------------------------------------------------------------
(***************************************************************************)
(* What the pieces of a step do.                                           *)
(***************************************************************************)
LEMMA Sides ==
  ASSUME NEW p \in Proc
  PROVE  /\ Peer(p) = 1 - p /\ 1 - p \in Proc /\ 1 - (1 - p) = p /\ 1 - p # p
         /\ \A q \in Proc : q = p \/ q = 1 - p
         /\ p \in {0, 1} /\ p # None
BY NoneAssumption DEF Proc, Peer

LEMMA MainIs ==
  /\ Main \in Proc /\ 1 - Main \in Proc /\ 1 - (1 - Main) = Main /\ 1 - Main # Main
  /\ \A q \in Proc : q = Main \/ q = 1 - Main
  /\ Main = 1 <=> stage[1][1] # "none"
  /\ Main = 0 \/ Main = 1
BY DEF Main, Proc

LEMMA Moved ==
  ASSUME TypeOK, NEW c \in Proc, NEW p \in Proc, NEW s \in Stages, Move(c, p, s)
  PROVE  /\ stage' \in [Proc -> [Proc -> Stages]]
         /\ stage'[c][p] = s
         /\ \A d, q \in Proc : d # c \/ q # p => stage'[d][q] = stage[d][q]
BY DEF TypeOK, Move

LEMMA PutOn ==
  ASSUME TypeOK, NEW c \in Proc, NEW p \in Proc, NEW items \in Seq(Wired), Put(c, p, items)
  PROVE  /\ wire' \in [Proc -> [Proc -> Seq(Wired)]]
         /\ wire'[c][p] = wire[c][p] \o items
         /\ \A d, q \in Proc : d # c \/ q # p => wire'[d][q] = wire[d][q]
<1>1. wire[c][p] \in Seq(Wired)
  BY DEF TypeOK
<1>2. wire[c][p] \o items \in Seq(Wired)
  BY <1>1, ConcatProperties
<1> DEFINE x == wire[c][p] \o items
<1>3. wire' = [wire EXCEPT ![c][p] = x]
  BY DEF Put
<1> HIDE DEF x
<1>4. x \in Seq(Wired)
  BY <1>2 DEF x
<1>5. /\ wire' \in [Proc -> [Proc -> Seq(Wired)]]
      /\ wire'[c][p] = x
      /\ \A d, q \in Proc : d # c \/ q # p => wire'[d][q] = wire[d][q]
  BY <1>3, <1>4 DEF TypeOK
<1> QED
  BY <1>5 DEF x

LEMMA Counted ==
  ASSUME TypeOK, NEW c \in Proc, NEW p \in Proc, NEW n \in Nat,
         writes' = [writes EXCEPT ![c][p] = n]
  PROVE  /\ writes' \in [Proc -> [Proc -> Nat]]
         /\ writes'[c][p] = n
         /\ \A d, q \in Proc : d # c \/ q # p => writes'[d][q] = writes[d][q]
BY DEF TypeOK

LEMMA TakenFrom ==
  ASSUME TypeOK, NEW c \in Proc, NEW p \in Proc, Take(c, p), wire[c][1 - p] # <<>>
  PROVE  /\ wire' \in [Proc -> [Proc -> Seq(Wired)]]
         /\ wire'[c][1 - p] = Tail(wire[c][1 - p])
         /\ \A d, q \in Proc : d # c \/ q = p => wire'[d][q] = wire[d][q]
<1>1. wire[c][1 - p] \in Seq(Wired) /\ 1 - p \in Proc
  BY Sides, SMTT(60) DEF TypeOK
<1>2. Tail(wire[c][1 - p]) \in Seq(Wired)
  BY <1>1, HeadFirst
<1> DEFINE x == Tail(wire[c][1 - p])
<1>3. wire' = [wire EXCEPT ![c][1 - p] = x]
  BY DEF Take, Peer
<1> HIDE DEF x
<1>4. x \in Seq(Wired)
  BY <1>2 DEF x
<1>5. /\ wire' \in [Proc -> [Proc -> Seq(Wired)]]
      /\ wire'[c][1 - p] = x
      /\ \A d, q \in Proc : d # c \/ q = p => wire'[d][q] = wire[d][q]
  <2>1. \A q \in Proc : q # 1 - p <=> q = p
    BY Sides
  <2> QED
    BY <1>1, <1>3, <1>4, <2>1 DEF TypeOK
<1> QED
  BY <1>5 DEF x

-----------------------------------------------------------------------------
(***************************************************************************)
(* What a state that satisfies the invariant is like.                      *)
(***************************************************************************)
LEMMA WiredPackets ==
  /\ Packets \subseteq Wired
  /\ \A s \in Seq(Packets) : s \in Seq(Wired)
  /\ OpenReq \in Wired /\ Fin \in Wired /\ \A b \in BOOLEAN : OpenResp(b) \in Wired
  /\ OpenReq.type = "OPEN_REQ" /\ Fin.type = "FIN"
  /\ \A b \in BOOLEAN : OpenResp(b).type = "OPEN_RESP" /\ OpenResp(b).ack = b
<1>1. Packets \subseteq Wired
  BY DEF Wired
<1>2. \A s \in Seq(Packets) : s \in Seq(Wired)
  BY <1>1, SeqMonotonic
<1>3. OpenReq \in Wired /\ Fin \in Wired /\ \A b \in BOOLEAN : OpenResp(b) \in Wired
  BY DEF Wired, OpenReq, Fin, OpenResp
<1>4. /\ OpenReq.type = "OPEN_REQ" /\ Fin.type = "FIN"
      /\ \A b \in BOOLEAN : OpenResp(b).type = "OPEN_RESP" /\ OpenResp(b).ack = b
  BY DEF OpenReq, Fin, OpenResp
<1> QED
  BY <1>1, <1>2, <1>3, <1>4

LEMMA Around ==
  ASSUME NEW p \in Proc
  PROVE  /\ Before(p) \in Seq(Wired) /\ After(p) \in Seq(Wired)
         /\ Before(p) \in {<<>>, <<OpenReq>>, <<OpenResp(TRUE)>>}
         /\ After(p) \in {<<>>, <<Fin>>}
<1>1. Before(p) \in {<<>>, <<OpenReq>>, <<OpenResp(TRUE)>>} /\ After(p) \in {<<>>, <<Fin>>}
  BY DEF Before, After
<1>2. <<>> \in Seq(Wired) /\ <<OpenReq>> \in Seq(Wired) /\ <<OpenResp(TRUE)>> \in Seq(Wired) /\ <<Fin>> \in Seq(Wired)
  BY WiredPackets, One, EmptySeq
<1> QED
  BY <1>1, <1>2

LEMMA Known ==
  ASSUME Inv, NEW p \in Proc
  PROVE  /\ sent[p] \in Seq(Packets) /\ received[1 - p] \in Seq(Packets) /\ sendq[p] \in Seq(Packets)
         /\ Way(p) \in Seq(Packets) /\ Unwritten(p) \in Seq(Packets)
         /\ wire[Main][p] \in Seq(Wired)
         /\ Way(p) \o Unwritten(p) \in Seq(Packets)
         /\ sent[p] = received[1 - p] \o (Way(p) \o Unwritten(p))
         /\ wire[Main][p] = Before(p) \o (Way(p) \o After(p))
<1>1. TypeOK /\ Flow(p) /\ Queue(p)
  BY DEF Inv
<1>2. /\ sent[p] \in Seq(Packets) /\ received[1 - p] \in Seq(Packets) /\ sendq[p] \in Seq(Packets)
      /\ wire[Main][p] \in Seq(Wired) /\ writes[Main][p] \in {0, 1}
      /\ writes[Main][p] = 1 => sendq[p] # <<>>
  <2>1. 1 - p \in Proc /\ Main \in Proc
    BY Sides, MainIs
  <2>2. sent[p] \in Seq(Packets) /\ received[1 - p] \in Seq(Packets) /\ sendq[p] \in Seq(Packets)
    BY <1>1, <2>1 DEF TypeOK
  <2>3. wire[Main][p] \in Seq(Wired)
    BY <1>1, <2>1 DEF TypeOK
  <2>4. writes[Main][p] \in {0, 1} /\ (writes[Main][p] = 1 => sendq[p] # <<>>)
    BY <1>1 DEF Queue
  <2> QED
    BY <2>2, <2>3, <2>4
<1>3. Unwritten(p) \in Seq(Packets)
  <2>1. CASE writes[Main][p] = 0
    BY <1>2, <2>1 DEF Unwritten
  <2>2. CASE writes[Main][p] = 1
    <3>1. Tail(sendq[p]) \in Seq(Packets)
      BY <1>2, <2>2, HeadFirst
    <3> QED
      BY <2>2, <3>1 DEF Unwritten
  <2> QED
    BY <1>2, <2>1, <2>2
<1>4. Way(p) \in Seq(Packets)
  BY <1>1 DEF Flow
<1>5. Way(p) \o Unwritten(p) \in Seq(Packets) /\ sent[p] = received[1 - p] \o (Way(p) \o Unwritten(p))
  <2>1. sent[p] = (received[1 - p] \o Way(p)) \o Unwritten(p)
    BY <1>1 DEF Flow
  <2>2. (received[1 - p] \o Way(p)) \o Unwritten(p) = received[1 - p] \o (Way(p) \o Unwritten(p))
    <3>1. \A r, w, u \in Seq(Packets) : (r \o w) \o u = r \o (w \o u)
      BY ConcatAssociative, SMTT(60)
    <3> QED
      BY <3>1, <1>2, <1>3, <1>4, ZenonT(60)
  <2>3. Way(p) \o Unwritten(p) \in Seq(Packets)
    BY <1>3, <1>4, Joined
  <2> QED
    BY <2>1, <2>2, <2>3
<1>6. wire[Main][p] = Before(p) \o (Way(p) \o After(p))
  <2>1. wire[Main][p] = (Before(p) \o Way(p)) \o After(p)
    BY <1>1 DEF Flow
  <2>2. Way(p) \in Seq(Wired) /\ Before(p) \in Seq(Wired) /\ After(p) \in Seq(Wired)
    BY <1>4, Around, WiredPackets
  <2>3. (Before(p) \o Way(p)) \o After(p) = Before(p) \o (Way(p) \o After(p))
    BY <2>2, Joined, SMTT(60)
  <2> QED
    BY <2>1, <2>3
<1> QED
  BY <1>2, <1>3, <1>4, <1>5, <1>6

LEMMA SentOrdered ==
  ASSUME Inv, NEW p \in Proc
  PROVE  Ordered(sent[p])
<1>1. Protocol(p) /\ TypeOK
  BY DEF Inv
<1>2. state[p] \in {"INACTIVE", "ACTIVE", "LOCAL_CLOSE", "REMOTE_CLOSE", "CLOSE_ACKED"}
  BY <1>1 DEF TypeOK
<1>3. NoClose(<<>>)
  BY NoneYet, SMTT(60)
<1> QED
  BY <1>1, <1>2, <1>3 DEF Protocol, Ordered, Complete

(* What is first on a wire of the main connection. *)
LEMMA FirstOnWire ==
  ASSUME Inv, NEW p \in Proc, wire[Main][p] # <<>>
  PROVE  \/ /\ Before(p) # <<>>
            /\ Head(wire[Main][p]) = Before(p)[1] /\ Tail(wire[Main][p]) = Way(p) \o After(p)
         \/ /\ Before(p) = <<>> /\ Way(p) # <<>>
            /\ Head(wire[Main][p]) = Head(Way(p)) /\ Head(Way(p)) \in Packets
            /\ Tail(wire[Main][p]) = Tail(Way(p)) \o After(p) /\ Tail(Way(p)) \in Seq(Packets)
         \/ /\ Before(p) = <<>> /\ Way(p) = <<>> /\ After(p) = <<Fin>>
            /\ Head(wire[Main][p]) = Fin /\ Tail(wire[Main][p]) = <<>>
<1> DEFINE b == Before(p)
           w == Way(p)
           a == After(p)
<1>1. /\ b \in Seq(Wired) /\ a \in Seq(Wired)
      /\ b \in {<<>>, <<OpenReq>>, <<OpenResp(TRUE)>>}
      /\ a \in {<<>>, <<Fin>>}
  BY Around
<1>2. w \in Seq(Packets) /\ w \in Seq(Wired)
  BY Known, WiredPackets
<1>3. wire[Main][p] = b \o (w \o a)
  BY Known
<1> HIDE DEF b, w, a
<1>4. w \o a \in Seq(Wired)
  BY <1>1, <1>2, Joined
<1>5. CASE b # <<>>
  <2>1. Head(b) = b[1] /\ Tail(b) = <<>>
    <3>1. \A x : Head(<<x>>) = <<x>>[1] /\ Tail(<<x>>) = <<>>
      OBVIOUS
    <3> QED
      BY <3>1, <1>1, <1>5
  <2>2. Head(wire[Main][p]) = Head(b) /\ Tail(wire[Main][p]) = Tail(b) \o (w \o a)
    <3>1. b \in Seq(Wired)
      BY <1>1
    <3>2. Head(b \o (w \o a)) = Head(b) /\ Tail(b \o (w \o a)) = Tail(b) \o (w \o a)
      BY <3>1, <1>4, <1>5, HeadJoined
    <3> QED
      BY <3>2, <1>3
  <2>3. <<>> \o (w \o a) = w \o a
    BY <1>4, Joined
  <2> QED
    BY <1>5, <2>1, <2>2, <2>3 DEF b, w, a
<1>6. CASE b = <<>> /\ w # <<>>
  <2>1. wire[Main][p] = w \o a
    BY <1>3, <1>4, <1>6, Joined
  <2>2. Head(wire[Main][p]) = Head(w) /\ Tail(wire[Main][p]) = Tail(w) \o a
    BY <2>1, <1>1, <1>2, <1>6, HeadJoined
  <2>3. Head(w) \in Packets /\ Tail(w) \in Seq(Packets)
    BY <1>2, <1>6, HeadFirst
  <2> QED
    BY <1>6, <2>2, <2>3 DEF b, w, a
<1>7. CASE b = <<>> /\ w = <<>>
  <2>1. wire[Main][p] = a
    BY <1>1, <1>3, <1>7, Joined
  <2>2. a = <<Fin>>
    BY <1>1, <2>1
  <2>3. Head(a) = Fin /\ Tail(a) = <<>>
    BY <2>2
  <2> QED
    BY <1>7, <2>1, <2>2, <2>3 DEF b, w, a
<1> QED
  BY <1>5, <1>6, <1>7

(* The end of the bytes comes after all packets. *)
LEMMA FinMeans ==
  ASSUME Inv, NEW p \in Proc, wire[Main][p] # <<>>, Head(wire[Main][p]).type = "FIN"
  PROVE  /\ stage[Main][p] \in {"closing", "closed"} /\ ~Closed(1 - p)
         /\ Before(p) = <<>> /\ Way(p) = <<>> /\ After(p) = <<Fin>> /\ Unwritten(p) = <<>>
         /\ Tail(wire[Main][p]) = <<>> /\ received[1 - p] = sent[p] /\ Complete(sent[p])
<1>1. Before(p) = <<>> /\ Way(p) = <<>> /\ After(p) = <<Fin>> /\ Tail(wire[Main][p]) = <<>>
  <2>1. \A m \in Packets : m.type # "FIN"
    BY ClosePackets
  <2>2. Before(p) # <<>> => Before(p)[1].type # "FIN"
    <3>1. Before(p) \in {<<>>, <<OpenReq>>, <<OpenResp(TRUE)>>}
      BY Around
    <3>2. <<OpenReq>>[1].type = "OPEN_REQ" /\ <<OpenResp(TRUE)>>[1].type = "OPEN_RESP"
      BY WiredPackets
    <3> QED
      BY <3>1, <3>2
  <2> QED
    BY <2>1, <2>2, FirstOnWire
<1>2. stage[Main][p] \in {"closing", "closed"} /\ ~Closed(1 - p)
  BY <1>1 DEF After
<1>3. Queue(p) /\ Protocol(p)
  BY DEF Inv
<1>4. sendq[p] = <<>> /\ writes[Main][p] = 0
  BY <1>2, <1>3 DEF Queue
<1>5. Unwritten(p) = <<>>
  BY <1>4 DEF Unwritten
<1>6. received[1 - p] = sent[p]
  <2>1. <<>> \o <<>> = <<>>
    OBVIOUS
  <2>2. received[1 - p] \in Seq(Packets) /\ sent[p] = received[1 - p] \o <<>>
    BY <1>1, <1>5, <2>1, Known
  <2> QED
    BY <2>2, ConcatEmptySeq
<1>7. Complete(sent[p])
  BY <1>2, <1>3 DEF Protocol, Closed, Complete
<1> QED
  BY <1>1, <1>2, <1>5, <1>6, <1>7

LEMMA RequestMeans ==
  ASSUME Inv, NEW p \in Proc, wire[Main][p] # <<>>, Head(wire[Main][p]).type = "OPEN_REQ"
  PROVE  /\ p = Main /\ stage[Main][Main] \in Requested
         /\ stage[Main][1 - Main] \in {"none", "accepted"}
         /\ Way(p) = <<>> /\ Tail(wire[Main][p]) = <<>>
<1>1. \A m \in Packets : m.type # "OPEN_REQ"
  BY ClosePackets
<1>2. Before(p) # <<>> /\ Before(p)[1].type = "OPEN_REQ" /\ Tail(wire[Main][p]) = Way(p) \o After(p)
  BY <1>1, FirstOnWire, WiredPackets
<1>3. Before(p) = <<OpenReq>>
  <2>1. Before(p) \in {<<>>, <<OpenReq>>, <<OpenResp(TRUE)>>}
    BY Around
  <2>2. <<OpenResp(TRUE)>>[1].type = "OPEN_RESP"
    BY WiredPackets
  <2> QED
    BY <1>2, <2>1, <2>2
<1>4. OpenReq # OpenResp(TRUE)
  BY WiredPackets
<1>5. p = Main /\ stage[Main][Main] \in Requested /\ stage[Main][1 - Main] \in {"none", "accepted"}
  BY <1>3, <1>4 DEF Before
<1>6. Flow(p)
  BY DEF Inv
<1>7. Way(p) = <<>> /\ After(p) = <<>>
  BY <1>5, <1>6 DEF Flow, After, Requested, Over
<1> QED
  BY <1>2, <1>5, <1>7

LEMMA ResponseMeans ==
  ASSUME Inv, NEW p \in Proc, wire[Main][p] # <<>>, Head(wire[Main][p]).type = "OPEN_RESP"
  PROVE  /\ p = 1 - Main /\ stage[Main][Main] \in Requested /\ stage[Main][1 - Main] \in Agreed
         /\ Head(wire[Main][p]) = OpenResp(TRUE) /\ Tail(wire[Main][p]) = Way(p) \o After(p)
<1>1. \A m \in Packets : m.type # "OPEN_RESP"
  BY ClosePackets
<1>2. /\ Before(p) # <<>> /\ Before(p)[1].type = "OPEN_RESP"
      /\ Tail(wire[Main][p]) = Way(p) \o After(p) /\ Head(wire[Main][p]) = Before(p)[1]
  BY <1>1, FirstOnWire, WiredPackets
<1>3. Before(p) = <<OpenResp(TRUE)>>
  <2>1. Before(p) \in {<<>>, <<OpenReq>>, <<OpenResp(TRUE)>>}
    BY Around
  <2>2. <<OpenReq>>[1].type = "OPEN_REQ"
    BY WiredPackets
  <2> QED
    BY <1>2, <2>1, <2>2
<1>4. OpenReq # OpenResp(TRUE)
  BY WiredPackets
<1>5. p # Main /\ stage[Main][Main] \in Requested /\ stage[Main][1 - Main] \in Agreed
  BY <1>3, <1>4 DEF Before
<1>6. p = 1 - Main /\ Before(p)[1] = OpenResp(TRUE)
  BY <1>3, <1>5, MainIs
<1> QED
  BY <1>2, <1>5, <1>6

LEMMA PacketMeans ==
  ASSUME Inv, NEW p \in Proc, wire[Main][p] # <<>>, Head(wire[Main][p]).type \in {"DATA", "CLOSE"}
  PROVE  /\ Before(p) = <<>> /\ Way(p) # <<>> /\ stage[Main][p] \in Over
         /\ Head(wire[Main][p]) = Head(Way(p)) /\ Head(Way(p)) \in Packets
         /\ Tail(wire[Main][p]) = Tail(Way(p)) \o After(p) /\ Tail(Way(p)) \in Seq(Packets)
<1>1. Before(p) # <<>> => Before(p)[1].type \notin {"DATA", "CLOSE"}
  <2>1. Before(p) \in {<<>>, <<OpenReq>>, <<OpenResp(TRUE)>>}
    BY Around
  <2>2. <<OpenReq>>[1].type = "OPEN_REQ" /\ <<OpenResp(TRUE)>>[1].type = "OPEN_RESP"
    BY WiredPackets
  <2> QED
    BY <2>1, <2>2
<1>2. Fin.type \notin {"DATA", "CLOSE"}
  BY WiredPackets
<1>3. /\ Before(p) = <<>> /\ Way(p) # <<>>
      /\ Head(wire[Main][p]) = Head(Way(p)) /\ Head(Way(p)) \in Packets
      /\ Tail(wire[Main][p]) = Tail(Way(p)) \o After(p) /\ Tail(Way(p)) \in Seq(Packets)
  BY <1>1, <1>2, FirstOnWire
<1>4. Flow(p)
  BY DEF Inv
<1> QED
  BY <1>3, <1>4 DEF Flow

-----------------------------------------------------------------------------
(***************************************************************************)
(* What keeps the parts of the invariant.                                  *)
(***************************************************************************)
LEMMA Joins ==
  /\ \A a, b, c \in Seq(Packets) : (a \o b) \o c = a \o (b \o c) /\ a \o b \in Seq(Packets)
  /\ \A a, b, c \in Seq(Wired) : (a \o b) \o c = a \o (b \o c) /\ a \o b \in Seq(Wired)
  /\ \A a \in Seq(Packets) : a \o <<>> = a /\ <<>> \o a = a
  /\ \A a \in Seq(Wired) : a \o <<>> = a /\ <<>> \o a = a
  /\ <<>> \in Seq(Packets) /\ <<>> \in Seq(Wired)
BY ConcatAssociative, ConcatEmptySeq, ConcatProperties, EmptySeq, SMTT(60)

LEMMA PacketsJoin ==
  \A a, b, c \in Seq(Packets) : (a \o b) \o c = a \o (b \o c)
BY ConcatAssociative

LEMMA PacketsEmpty ==
  \A s \in Seq(Packets) : s = <<>> <=> Len(s) = 0
BY EmptySeq

LEMMA WiredJoin ==
  \A a, b, c \in Seq(Wired) : (a \o b) \o c = a \o (b \o c)
BY ConcatAssociative

LEMMA FlowNext ==
  ASSUME NEW p \in Proc, NEW m \in Seq(Packets),
         (wire[Main][p])' = Before(p)' \o (m \o After(p)'),
         sent'[p] = received'[1 - p] \o (m \o Unwritten(p)'),
         received'[1 - p] \in Seq(Packets), Unwritten(p)' \in Seq(Packets),
         (stage[Main][p] \in Over)' \/ m = <<>>
  PROVE  Flow(p)' /\ Way(p)' = m
<1> DEFINE b == Before(p)'
           a == After(p)'
           r == received'[1 - p]
           u == Unwritten(p)'
<1>0. b \in Seq(Wired) /\ a \in Seq(Wired)
  <2>1. b \in {<<>>, <<OpenReq>>, <<OpenResp(TRUE)>>} /\ a \in {<<>>, <<Fin>>}
    BY DEF Before, After
  <2>2. <<>> \in Seq(Wired) /\ <<OpenReq>> \in Seq(Wired) /\ <<OpenResp(TRUE)>> \in Seq(Wired) /\ <<Fin>> \in Seq(Wired)
    BY WiredPackets, One, EmptySeq
  <2> QED
    BY <2>1, <2>2
<1> HIDE DEF b, a, r, u
<1>1. m \in Seq(Wired)
  BY WiredPackets
<1>2. (wire[Main][p])' = (b \o m) \o a
  <2>1. (b \o m) \o a = b \o (m \o a)
    BY <1>0, <1>1, Joins, SMTT(60)
  <2> QED
    BY <2>1 DEF b, a
<1>3. Way(p)' = m
  <2>1. SubSeq((b \o m) \o a, Len(b) + 1, Len((b \o m) \o a) - Len(a)) = m
    BY <1>0, <1>1, Middle
  <2> QED
    BY <2>1, <1>2 DEF Way, b, a
<1>4. sent'[p] = (r \o m) \o u
  <2>1. (r \o m) \o u = r \o (m \o u)
    <3>1. r \in Seq(Packets) /\ u \in Seq(Packets)
      BY DEF r, u
    <3> QED
      BY <3>1, m \in Seq(Packets), ConcatAssociative, SMTT(60)
  <2> QED
    BY <2>1 DEF r, u
<1> QED
  BY <1>2, <1>3, <1>4 DEF Flow, a, b, r, u

LEMMA FlowKept ==
  ASSUME NEW p \in Proc, Flow(p), Main' = Main, wire'[Main][p] = wire[Main][p],
         sent'[p] = sent[p], received'[1 - p] = received[1 - p], Unwritten(p)' = Unwritten(p),
         Before(p)' = Before(p), After(p)' = After(p),
         stage'[Main][p] \in Over \/ stage[Main][p] \notin Over
  PROVE  Flow(p)' /\ Way(p)' = Way(p)
<1>1. Way(p)' = Way(p)
  BY DEF Way
<1> QED
  BY <1>1 DEF Flow, Over

(* A step of the sockets only. *)
LEMMA SocketsStep ==
  ASSUME Inv, OnlySockets, TypeOK', Main' = Main, Handshake', Conns', Other',
         \A p \in Proc : Flow(p)',
         \A p \in Proc : stage'[Main][p] # stage[Main][p] =>
                           stage[Main][p] \notin Over /\ stage'[Main][p] \notin Over,
         \A p \in Proc : stage'[p][p] = "none" <=> stage[p][p] = "none",
         \A p \in Proc : completing[p] # None => stage'[conn[p]][p] = "open"
  PROVE  Inv'
<1>1. UNCHANGED <<plan, mpi, state, chState, conn, sendq, outstanding, completing, deferConnect,
                  deferWrites, writes, sent, received>>
  BY DEF OnlySockets, vcs
<1>2. ASSUME NEW p \in Proc
      PROVE  Queue(p)' /\ Deferrals(p)' /\ Protocol(p)'
  <2>1. Queue(p) /\ Deferrals(p) /\ Protocol(p) /\ Other
    BY DEF Inv
  <2>2. 1 - p \in Proc /\ 1 - Main \in Proc
    BY Sides, MainIs
  <2>3. Late' = Late
    BY <1>1 DEF Late
  <2>4. \A q \in Proc : Closed(q)' = Closed(q)
    BY MainIs DEF Closed, Over
  <2>5. conn[p] = p /\ stage'[p][p] \notin Over => stage[p][p] \notin Over
    <3>1. CASE p = Main
      BY <3>1
    <3>2. CASE p # Main
      <4>1. (Main = 1 /\ p = 0) \/ (Main = 0 /\ p = 1)
        <5>1. (Main = 0 \/ Main = 1) /\ (p = 0 \/ p = 1)
          BY MainIs DEF Proc
        <5> QED
          BY <5>1, <3>2
      <4>2. CASE Main = 1 /\ p = 0
        BY <2>1, <4>2 DEF Other, Asking, Over
      <4>3. CASE Main = 0 /\ p = 1
        BY <2>1, <4>3 DEF Other, Over
      <4> QED
        BY <4>1, <4>2, <4>3
    <3> QED
      BY <3>1, <3>2
  <2>6. Queue(p)'
    BY <1>1, <2>1, <2>3, <2>4, <2>5, MainIs DEF Queue, Over, Live
  <2>7. Deferrals(p)'
    BY <1>1, <2>1, <2>4, MainIs DEF Deferrals, Over
  <2>8. Protocol(p)'
    BY <1>1, <2>1, <2>3, <2>4, MainIs DEF Protocol, ended, Over
  <2> QED
    BY <2>6, <2>7, <2>8
<1> QED
  BY <1>2 DEF Inv

(* A step of the sockets of the connection that lost. *)
LEMMA LostStep ==
  ASSUME Inv, OnlySockets, TypeOK', Main = 1, Other',
         \A p \in Proc : stage'[1][p] = stage[1][p] /\ wire'[1][p] = wire[1][p],
         stage'[0][0] = "none" <=> stage[0][0] = "none",
         completing[1] = 0 => stage'[0][1] = "open"
  PROVE  Inv'
<1>1. TypeOK /\ Handshake /\ Conns /\ Other
  BY DEF Inv
<1>2. Main' = 1 /\ 1 \in Proc /\ 0 \in Proc
  BY DEF Main, Proc
<1>3. UNCHANGED <<plan, mpi, state, chState, conn, sendq, outstanding, completing, deferConnect,
                  deferWrites, writes, sent, received>>
  BY DEF OnlySockets, vcs
<1>4. Handshake'
  BY <1>1, <1>2 DEF Handshake, Closed, Proc
<1>5. Conns'
  BY <1>1, <1>2, <1>3 DEF Conns, Closed, Proc
<1>6. ASSUME NEW p \in Proc
      PROVE  Flow(p)'
  <2>1. Flow(p)
    BY DEF Inv
  <2>2. Before(p)' = Before(p) /\ After(p)' = After(p)
    BY <1>2, Sides DEF Before, After, Closed, Proc
  <2>3. Unwritten(p)' = Unwritten(p)
    BY <1>2, <1>3 DEF Unwritten
  <2> QED
    BY <1>2, <1>3, <2>1, <2>2, <2>3, FlowKept
<1>7. ASSUME NEW p \in Proc, completing[p] # None
      PROVE  stage'[conn[p]][p] = "open"
  <2>1. Queue(p) /\ completing[p] \in Proc
    BY <1>1, <1>7 DEF Inv, TypeOK
  <2>2. conn[p] = completing[p] /\ stage[conn[p]][p] = "open"
    BY <1>7, <2>1 DEF Queue
  <2>3. CASE completing[p] = 1
    BY <2>2, <2>3
  <2>4. CASE completing[p] = 0 /\ p = 1
    BY <2>2, <2>4
  <2>5. CASE completing[p] = 0 /\ p = 0
    BY <1>1, <2>2, <2>5 DEF Other, Asking
  <2> QED
    BY <2>1, <2>3, <2>4, <2>5 DEF Proc
<1>8. \A p \in Proc : stage'[p][p] = "none" <=> stage[p][p] = "none"
  BY <1>2 DEF Proc
<1> QED
  BY <1>2, <1>4, <1>5, <1>6, <1>7, <1>8, SocketsStep

LEMMA CompletingOpen ==
  ASSUME Inv, NEW p \in Proc, completing[p] # None
  PROVE  /\ conn[p] \in Proc /\ conn[p] = completing[p] /\ stage[conn[p]][p] = "open"
         /\ chState[p] = "CONNECTED" /\ writes[Main][p] = 0
<1>1. Queue(p) /\ completing[p] \in Proc
  BY DEF Inv, TypeOK
<1> QED
  BY <1>1 DEF Queue

LEMMA Lost ==
  ASSUME Inv, NEW c \in Proc, NEW p \in Proc, c # Main, stage[c][p] # "none"
  PROVE  Main = 1 /\ c = 0
<1>1. Other
  BY DEF Inv
<1>2. (Main = 0 \/ Main = 1) /\ (c = 0 \/ c = 1)
  BY MainIs DEF Proc
<1> QED
  BY <1>1, <1>2 DEF Other

-----------------------------------------------------------------------------
(***************************************************************************)
(* The steps of the sockets.                                               *)
(***************************************************************************)
Quiet(c, p, s) ==
  \/ p = c /\ stage[c][p] = "connecting" /\ s = "established"
  \/ p = c /\ stage[c][p] = "requesting" /\ s = "awaiting"
  \/ /\ p = 1 - c /\ stage[c][p] = "none" /\ s = "accepted"
     /\ stage[c][c] \notin {"none", "connecting", "aborted"}

(* One end is further in the handshake, and nothing is sent. *)
LEMMA QuietStep ==
  ASSUME Inv, OnlySockets, UNCHANGED wire, NEW c \in Proc, NEW p \in Proc, NEW s \in Stages,
         Quiet(c, p, s), Move(c, p, s)
  PROVE  Inv'
<1>1. TypeOK /\ Handshake /\ Conns /\ Other
  BY DEF Inv
<1>2. /\ stage' \in [Proc -> [Proc -> Stages]]
      /\ stage'[c][p] = s
      /\ \A d, q \in Proc : d # c \/ q # p => stage'[d][q] = stage[d][q]
  BY <1>1, Moved
<1>3. Main \in Proc /\ Main' = Main
  BY <1>2, MainIs, Sides DEF Main, Quiet, Proc
<1>4. UNCHANGED <<plan, mpi, state, chState, conn, sendq, outstanding, completing, deferConnect,
                  deferWrites, writes, wire, sent, received>>
  BY DEF OnlySockets, vcs
<1>5. TypeOK'
  BY <1>1, <1>2, <1>4 DEF TypeOK
<1>6. Handshake'
  BY <1>1, <1>2, <1>3, MainIs, Sides DEF Handshake, Closed, Asking, Requested, Agreed, Over, Quiet
<1>7. Conns'
  BY <1>1, <1>2, <1>3, <1>4, MainIs, Sides DEF Conns, Asking, Over, Live, Closed, Quiet
<1>8. Other'
  BY <1>1, <1>2, <1>3, <1>4, MainIs, Sides DEF Other, Late, Asking, Over, Proc, Quiet
<1>9. ASSUME NEW x \in Proc
       PROVE  Flow(x)'
  <2>1. Flow(x) /\ 1 - x \in Proc
    BY Sides DEF Inv
  <2>2. Before(x)' = Before(x) /\ After(x)' = After(x)
    BY <1>1, <1>2, <1>3, <2>1, MainIs, Sides
       DEF Handshake, Before, After, Requested, Closed, Agreed, Over, Quiet
  <2>3. Unwritten(x)' = Unwritten(x) /\ (stage'[Main][x] \in Over \/ stage[Main][x] \notin Over)
    BY <1>2, <1>3, <1>4 DEF Unwritten, Over, Quiet
  <2> QED
    BY <1>3, <1>4, <2>1, <2>2, <2>3, FlowKept
<1>10. /\ \A x \in Proc : stage'[Main][x] # stage[Main][x] =>
                            stage[Main][x] \notin Over /\ stage'[Main][x] \notin Over
       /\ \A x \in Proc : stage'[x][x] = "none" <=> stage[x][x] = "none"
  BY <1>2, <1>3, Sides DEF Over, Quiet
<1>11. ASSUME NEW x \in Proc, completing[x] # None
       PROVE  stage'[conn[x]][x] = "open"
  BY <1>2, <1>11, CompletingOpen DEF Quiet
<1> QED
  BY <1>3, <1>5, <1>6, <1>7, <1>8, <1>9, <1>10, <1>11, SocketsStep

LEMMA QuietSteps ==
  ASSUME Inv, NEW c \in Proc,
         Establish(c) \/ SendOpenRequestSucceeded(c) \/ AcceptNewConnection(c)
  PROVE  Inv'
<1>1. CASE Establish(c)
  <2>1. Quiet(c, c, "established") /\ "established" \in Stages
    BY <1>1 DEF Establish, Quiet, Stages
  <2> QED
    BY <1>1, <2>1, QuietStep DEF Establish
<1>2. CASE SendOpenRequestSucceeded(c)
  <2>1. Quiet(c, c, "awaiting") /\ "awaiting" \in Stages
    BY <1>2 DEF SendOpenRequestSucceeded, Quiet, Stages
  <2> QED
    BY <1>2, <2>1, QuietStep DEF SendOpenRequestSucceeded
<1>3. CASE AcceptNewConnection(c)
  <2>1. Quiet(c, 1 - c, "accepted") /\ "accepted" \in Stages /\ 1 - c \in Proc
    BY <1>3, Sides DEF AcceptNewConnection, Quiet, Stages
  <2> QED
    BY <1>3, <2>1, Sides, QuietStep DEF AcceptNewConnection
<1> QED
  BY <1>1, <1>2, <1>3

LEMMA ConnectSucceededStep ==
  ASSUME Inv, NEW c \in Proc, ConnectSucceeded(c)
  PROVE  Inv'
<1>1. TypeOK /\ Handshake /\ Conns /\ Other
  BY DEF Inv
<1>2. /\ stage' \in [Proc -> [Proc -> Stages]]
      /\ stage[c][c] = "established" /\ stage'[c][c] = "requesting"
      /\ \A d, q \in Proc : d # c \/ q # c => stage'[d][q] = stage[d][q]
  BY <1>1, Moved DEF ConnectSucceeded, Stages
<1>3. /\ wire' \in [Proc -> [Proc -> Seq(Wired)]]
      /\ wire'[c][c] = wire[c][c] \o <<OpenReq>>
      /\ \A d, q \in Proc : d # c \/ q # c => wire'[d][q] = wire[d][q]
  <2>1. <<OpenReq>> \in Seq(Wired)
    BY WiredPackets, One
  <2> QED
    BY <1>1, <2>1, PutOn DEF ConnectSucceeded
<1>4. Main \in Proc /\ Main' = Main
  BY <1>2, MainIs DEF Main, Proc
<1>5. OnlySockets /\ completing[c] = None
  BY DEF ConnectSucceeded, Idle
<1>6. UNCHANGED <<plan, mpi, state, chState, conn, sendq, outstanding, completing, deferConnect,
                  deferWrites, writes, sent, received>>
  BY <1>5 DEF OnlySockets, vcs
<1>7. TypeOK'
  BY <1>1, <1>2, <1>3, <1>6 DEF TypeOK
<1>8. Other'
  <2>1. CASE c = 0 /\ Main = 1
    <3>1. wire[0][0] \o <<OpenReq>> \in Seq({OpenReq, Fin}) \/ ~(wire[0][0] \in Seq({OpenReq, Fin}))
      BY One, ConcatProperties
    <3> QED
      BY <1>1, <1>2, <1>3, <1>4, <1>6, <2>1, <3>1 DEF Other, Late, Asking, Over, Proc
  <2>2. CASE c = 1
    BY <1>1, <1>2, <1>3, <1>4, <1>6, <2>2, MainIs, Zenon DEF Other, Late, Asking, Over, Proc
  <2>3. CASE c = 0 /\ Main = 0
    BY <1>1, <1>2, <1>3, <1>4, <1>6, <2>3, SMTT(60) DEF Other, Late, Proc
  <2> QED
    BY <2>1, <2>2, <2>3, MainIs DEF Proc
<1>9. CASE c # Main
  <2>1. Main = 1 /\ c = 0
    BY <1>2, <1>9, Lost
  <2>2. \A p \in Proc : stage'[1][p] = stage[1][p] /\ wire'[1][p] = wire[1][p]
    BY <1>2, <1>3, <2>1 DEF Proc
  <2>3. stage'[0][0] = "none" <=> stage[0][0] = "none"
    BY <1>2, <2>1
  <2>4. completing[1] = 0 => stage'[0][1] = "open"
    BY <1>1, <1>2, <2>1, NoneAssumption DEF Inv, Queue, Proc
  <2> QED
    BY <1>5, <1>7, <1>8, <2>1, <2>2, <2>3, <2>4, LostStep
<1>10. CASE c = Main
  <2>1. Handshake'
    BY <1>1, <1>2, <1>4, <1>10, MainIs DEF Handshake, Closed, Asking, Requested, Agreed, Over
  <2>2. Conns'
    BY <1>1, <1>2, <1>4, <1>6, <1>10, MainIs DEF Conns, Asking, Over, Live, Closed
  <2>3. ASSUME NEW p \in Proc, p = Main
        PROVE  Flow(p)'
    <3>1. Before(p) = <<>> /\ After(p) = <<>> /\ Way(p) = <<>>
      BY <2>3, <1>1, <1>2, <1>4, <1>10 DEF Inv, Before, After, Flow, Requested, Over
    <3>2. wire[Main][p] = <<>>
      <4>1. <<>> \o (<<>> \o <<>>) = <<>>
        BY Joins
      <4> QED
        BY <2>3, <1>4, <3>1, <4>1, Known
    <3>3. Before(p)' = <<OpenReq>> /\ After(p)' = <<>>
      BY <2>3, <1>1, <1>2, <1>4, <1>10, MainIs DEF Handshake, Before, After, Requested
    <3>4. <<OpenReq>> \in Seq(Wired) /\ <<>> \in Seq(Wired) /\ <<>> \in Seq(Packets)
      BY WiredPackets, One, Joins
    <3>5. (wire[Main][p])' = Before(p)' \o (<<>> \o After(p)')
      <4>1. <<>> \o <<OpenReq>> = <<OpenReq>> \o (<<>> \o <<>>)
        BY <3>4, Joins
      <4> QED
        BY <2>3, <1>3, <1>4, <1>10, <3>2, <3>3, <4>1
    <3>6. Unwritten(p)' = Unwritten(p)
      BY <2>3, <1>4, <1>6 DEF Unwritten
    <3>7. sent'[p] = received'[1 - p] \o (<<>> \o Unwritten(p)')
      BY <2>3, <1>4, <1>6, <3>1, <3>6, Known
    <3>8. received'[1 - p] \in Seq(Packets) /\ Unwritten(p)' \in Seq(Packets)
      BY <1>6, <3>6, Known
    <3> QED
      BY <3>4, <3>5, <3>7, <3>8, FlowNext
  <2>4. ASSUME NEW p \in Proc, p # Main
        PROVE  Flow(p)'
    <3>1. Flow(p) /\ p = 1 - Main
      BY <2>4, MainIs DEF Inv
    <3>2. Before(p)' = Before(p) /\ After(p)' = After(p)
      BY <2>4, <1>1, <1>2, <1>4, <1>10, <3>1, MainIs DEF Handshake, Before, After, Requested, Closed, Agreed, Over
    <3>3. /\ Unwritten(p)' = Unwritten(p)
          /\ stage'[Main][p] \in Over \/ stage[Main][p] \notin Over
      BY <2>4, <1>2, <1>4, <1>6, <1>10, <3>1, MainIs DEF Unwritten, Over
    <3>4. wire'[Main][p] = wire[Main][p]
      BY <2>4, <1>3, <1>4, <1>10, <3>1, MainIs
    <3> QED
      BY <2>4, <1>4, <1>6, <3>1, <3>2, <3>3, <3>4, FlowKept
  <2>5. \A p \in Proc : Flow(p)'
    BY <2>3, <2>4
  <2>6. /\ \A p \in Proc : stage'[Main][p] # stage[Main][p] =>
                             stage[Main][p] \notin Over /\ stage'[Main][p] \notin Over
        /\ \A p \in Proc : stage'[p][p] = "none" <=> stage[p][p] = "none"
    BY <1>2, <1>4, <1>10 DEF Over
  <2>7. ASSUME NEW p \in Proc, completing[p] # None
        PROVE  stage'[conn[p]][p] = "open"
    BY <1>2, <2>7, CompletingOpen
  <2> QED
    BY <1>4, <1>5, <1>7, <1>8, <2>1, <2>2, <2>5, <2>6, <2>7, SocketsStep
<1> QED
  BY <1>9, <1>10

(* Who has closed its end, or is about to, has received everything. *)
LEMMA NothingMore ==
  ASSUME Inv, NEW p \in Proc, stage[Main][p] \in {"draining", "closing", "closed"}
  PROVE  /\ Complete(received[p]) /\ received[p] = sent[1 - p]
         /\ Way(1 - p) = <<>> /\ Unwritten(1 - p) = <<>>
<1>1. 1 - p \in Proc /\ 1 - (1 - p) = p
  BY Sides
<1>2. Protocol(p)
  BY DEF Inv
<1>3. Complete(received[p])
  BY <1>2 DEF Protocol, Closed, Complete
<1>4. PICK q \in Proc : q = 1 - p /\ 1 - q = p
  BY <1>1
<1>5. /\ received[p] \in Seq(Packets) /\ Way(q) \in Seq(Packets) /\ Unwritten(q) \in Seq(Packets)
      /\ Way(q) \o Unwritten(q) \in Seq(Packets)
      /\ sent[q] = received[p] \o (Way(q) \o Unwritten(q))
  BY <1>4, Known
<1>6. Ordered(received[p] \o (Way(q) \o Unwritten(q)))
  BY <1>5, SentOrdered
<1>7. Way(q) \o Unwritten(q) = <<>>
  BY <1>3, <1>5, <1>6, ReceivedForms
<1>8. Way(q) = <<>> /\ Unwritten(q) = <<>>
  BY <1>5, <1>7, ConcatEqualIffEmpty
<1>9. received[p] = sent[q]
  BY <1>5, <1>7, ConcatEmptySeq
<1> QED
  BY <1>3, <1>4, <1>8, <1>9

LEMMA WiredTypes == \A m \in Wired : m.type \in {"DATA", "CLOSE", "OPEN_REQ", "OPEN_RESP", "FIN"}
BY DEF Wired, Packets

LEMMA SocketTypes ==
  ASSUME TypeOK, OnlySockets, stage' \in [Proc -> [Proc -> Stages]],
         wire' \in [Proc -> [Proc -> Seq(Wired)]]
  PROVE  TypeOK'
BY DEF TypeOK, OnlySockets, vcs

LEMMA LostWires ==
  ASSUME NEW S, NEW s \in Seq(S), NEW m \in S
  PROVE  /\ s # <<>> => Tail(s) \in Seq(S)
         /\ Append(s, m) \in Seq(S) /\ s \o <<m>> \in Seq(S)
BY HeadFirst, AppendJoined

LEMMA RecvOpenRequestFailedStep ==
  ASSUME Inv, NEW c \in Proc, RecvOpenRequestFailed(c)
  PROVE  Inv'
<1>1. TypeOK /\ Handshake /\ Other
  BY DEF Inv
<1>2. /\ stage[c][1 - c] = "accepted" /\ wire[c][c] # <<>> /\ Head(wire[c][c]).type = "FIN"
      /\ completing[1 - c] = None /\ 1 - c \in Proc /\ OnlySockets
  BY Sides DEF RecvOpenRequestFailed, Arrived, Idle
<1>3. c # Main
  <2>1. SUFFICES ASSUME c = Main PROVE FALSE
    OBVIOUS
  <2>2. stage[Main][c] \in {"closing", "closed"}
    BY <1>2, <2>1, FinMeans
  <2> QED
    BY <1>1, <1>2, <2>1, <2>2 DEF Handshake, Over, Agreed
<1>4. Main = 1 /\ c = 0 /\ 0 \in Proc /\ 1 \in Proc
  BY <1>2, <1>3, Lost DEF Proc
<1>5. /\ stage' \in [Proc -> [Proc -> Stages]]
      /\ stage'[0][1] = "closed"
      /\ \A d, q \in Proc : d # 0 \/ q # 1 => stage'[d][q] = stage[d][q]
  BY <1>1, <1>4, Moved DEF RecvOpenRequestFailed, Peer, Stages
<1>6. /\ wire[0][0] \in Seq(Wired) /\ wire[0][1] \in Seq(Wired)
      /\ wire[0][0] \in Seq({OpenReq, Fin}) /\ wire[0][1] \in Seq({OpenResp(TRUE), OpenResp(FALSE), Fin})
  BY <1>1, <1>4 DEF TypeOK, Other
<1>7. /\ Tail(wire[0][0]) \in Seq(Wired) /\ Tail(wire[0][0]) \in Seq({OpenReq, Fin})
      /\ Append(wire[0][1], Fin) \in Seq(Wired)
      /\ Append(wire[0][1], Fin) \in Seq({OpenResp(TRUE), OpenResp(FALSE), Fin})
      /\ wire[0][1] \in Seq({OpenResp(FALSE), Fin}) => Append(wire[0][1], Fin) \in Seq({OpenResp(FALSE), Fin})
  <2>1. Fin \in Wired
    BY WiredPackets
  <2> QED
    BY <1>2, <1>4, <1>6, <2>1, LostWires
<1>8. wire' = [wire EXCEPT ![0][0] = Tail(wire[0][0]), ![0][1] = Append(wire[0][1], Fin)]
  BY <1>1, <1>4 DEF RecvOpenRequestFailed, Peer, TypeOK
<1>9. /\ wire' \in [Proc -> [Proc -> Seq(Wired)]]
      /\ wire'[0][0] = Tail(wire[0][0]) /\ wire'[0][1] = Append(wire[0][1], Fin)
      /\ \A q \in Proc : wire'[1][q] = wire[1][q]
  BY <1>1, <1>4, <1>7, <1>8, SMTT(60) DEF TypeOK, Proc
<1>10. TypeOK'
  BY <1>1, <1>2, <1>5, <1>9, SocketTypes
<1>11. Other'
  <2>1. Main' = 1 /\ conn' = conn
    BY <1>2, <1>4, <1>5 DEF Main, OnlySockets, vcs
  <2> QED
    BY <1>1, <1>2, <1>4, <1>5, <1>7, <1>9, <2>1, SMTT(60) DEF Other, Late, Asking, Over
<1> QED
  BY <1>2, <1>4, <1>5, <1>9, <1>10, <1>11, LostStep, NoneAssumption

(* Taking from a wire of the connection that lost. *)
LEMMA LostTake ==
  ASSUME Inv, Main = 1, NEW q \in Proc, Take(0, q), wire[0][1 - q] # <<>>
  PROVE  /\ wire' \in [Proc -> [Proc -> Seq(Wired)]]
         /\ wire'[0][0] \in Seq({OpenReq, Fin})
         /\ wire'[0][1] \in Seq({OpenResp(TRUE), OpenResp(FALSE), Fin})
         /\ wire[0][1] \in Seq({OpenResp(FALSE), Fin}) => wire'[0][1] \in Seq({OpenResp(FALSE), Fin})
         /\ \A x \in Proc : wire'[1][x] = wire[1][x]
<1>1. TypeOK /\ Other /\ 0 \in Proc /\ 1 \in Proc /\ 1 - q \in Proc
  BY Sides DEF Inv, Proc
<1>2. /\ wire' \in [Proc -> [Proc -> Seq(Wired)]]
      /\ wire'[0][1 - q] = Tail(wire[0][1 - q])
      /\ \A d, x \in Proc : d # 0 \/ x = q => wire'[d][x] = wire[d][x]
  BY <1>1, TakenFrom
<1>3. wire[0][0] \in Seq({OpenReq, Fin}) /\ wire[0][1] \in Seq({OpenResp(TRUE), OpenResp(FALSE), Fin})
  BY <1>1 DEF Other
<1>4. CASE q = 0
  <2>1. 1 - q = 1 /\ wire'[0][0] = wire[0][0] /\ wire'[0][1] = Tail(wire[0][1]) /\ wire[0][1] # <<>>
    BY <1>1, <1>2, <1>4
  <2> QED
    BY <1>1, <1>2, <1>3, <2>1, HeadFirst
<1>5. CASE q = 1
  <2>1. 1 - q = 0 /\ wire'[0][1] = wire[0][1] /\ wire'[0][0] = Tail(wire[0][0]) /\ wire[0][0] # <<>>
    BY <1>1, <1>2, <1>5
  <2> QED
    BY <1>1, <1>2, <1>3, <2>1, HeadFirst
<1> QED
  BY <1>4, <1>5 DEF Proc

LEMMA Refusing ==
  ASSUME Inv, NEW c \in Proc, SendOpenResponseSucceeded(c), stage[c][1 - c] = "rejecting"
  PROVE  Inv'
<1>1. TypeOK /\ Handshake /\ Other
  BY DEF Inv
<1>2. /\ Move(c, 1 - c, "closing") /\ Put(c, 1 - c, <<Fin>>) /\ OnlySockets
      /\ completing[1 - c] = None /\ 1 - c \in Proc
  BY Sides DEF SendOpenResponseSucceeded, Idle
<1>3. c # Main
  BY <1>1, MainIs DEF Handshake, Agreed, Over
<1>4. Main = 1 /\ c = 0 /\ 0 \in Proc /\ 1 \in Proc
  BY <1>2, <1>3, Lost DEF Proc
<1>5. /\ stage' \in [Proc -> [Proc -> Stages]]
      /\ stage'[0][1] = "closing"
      /\ \A d, q \in Proc : d # 0 \/ q # 1 => stage'[d][q] = stage[d][q]
  BY <1>1, <1>2, <1>4, Moved DEF Stages
<1>6. /\ wire' \in [Proc -> [Proc -> Seq(Wired)]]
      /\ wire'[0][1] = wire[0][1] \o <<Fin>>
      /\ \A d, q \in Proc : d # 0 \/ q # 1 => wire'[d][q] = wire[d][q]
  <2>1. <<Fin>> \in Seq(Wired)
    BY WiredPackets, One
  <2>2. Put(0, 1, <<Fin>>)
    BY <1>2, <1>4
  <2> QED
    BY <1>1, <1>4, <2>1, <2>2, PutOn
<1>7. /\ wire[0][1] \o <<Fin>> \in Seq({OpenResp(TRUE), OpenResp(FALSE), Fin})
      /\ wire[0][1] \in Seq({OpenResp(FALSE), Fin}) => wire[0][1] \o <<Fin>> \in Seq({OpenResp(FALSE), Fin})
  <2>1. wire[0][1] \in Seq({OpenResp(TRUE), OpenResp(FALSE), Fin})
    BY <1>1, <1>4 DEF Other
  <2> QED
    BY <2>1, LostWires
<1>8. TypeOK'
  BY <1>1, <1>2, <1>5, <1>6, SocketTypes
<1>9. Other'
  <2>1. Main' = 1 /\ conn' = conn
    BY <1>2, <1>4, <1>5 DEF Main, OnlySockets, vcs
  <2> QED
    BY <1>1, <1>4, <1>5, <1>6, <1>7, <2>1, SMTT(60) DEF Other, Late, Asking, Over
<1>10. ASSUME NEW q \in Proc
      PROVE  stage'[1][q] = stage[1][q] /\ wire'[1][q] = wire[1][q]
  <2>1. stage'[1][q] = stage[1][q]
    BY <1>4, <1>5
  <2>2. wire'[1][q] = wire[1][q]
    BY <1>4, <1>6
  <2> QED
    BY <2>1, <2>2
<1>11. stage'[0][0] = stage[0][0] /\ completing[1] = None
  BY <1>2, <1>4, <1>5
<1> QED
  BY <1>2, <1>4, <1>8, <1>9, <1>10, <1>11, LostStep, NoneAssumption

LEMMA Refused ==
  ASSUME Inv, NEW c \in Proc, RecvOpenResponse(c), ~Head(wire[c][1 - c]).ack
  PROVE  Inv'
<1>1. TypeOK /\ Handshake /\ Other
  BY DEF Inv
<1>2. /\ stage[c][c] = "awaiting" /\ wire[c][1 - c] # <<>> /\ Head(wire[c][1 - c]).type = "OPEN_RESP"
      /\ Move(c, c, "refused") /\ Take(c, c) /\ OnlySockets
      /\ completing[c] = None /\ 1 - c \in Proc
  BY Sides DEF RecvOpenResponse, Idle, Arrived
<1>3. c # Main
  BY <1>2, WiredPackets, ResponseMeans
<1>4. Main = 1 /\ c = 0 /\ 0 \in Proc /\ 1 \in Proc
  BY <1>2, <1>3, Lost DEF Proc
<1>5. /\ stage' \in [Proc -> [Proc -> Stages]]
      /\ stage'[0][0] = "refused"
      /\ \A d, q \in Proc : d # 0 \/ q # 0 => stage'[d][q] = stage[d][q]
  BY <1>1, <1>2, <1>4, Moved DEF Stages
<1>6. /\ wire' \in [Proc -> [Proc -> Seq(Wired)]]
      /\ wire'[0][0] \in Seq({OpenReq, Fin})
      /\ wire'[0][1] \in Seq({OpenResp(TRUE), OpenResp(FALSE), Fin})
      /\ wire[0][1] \in Seq({OpenResp(FALSE), Fin}) => wire'[0][1] \in Seq({OpenResp(FALSE), Fin})
      /\ \A x \in Proc : wire'[1][x] = wire[1][x]
  BY <1>2, <1>4, LostTake
<1>7. TypeOK'
  BY <1>1, <1>2, <1>5, <1>6, SocketTypes
<1>8. Other'
  <2>1. Main' = 1 /\ conn' = conn
    BY <1>2, <1>4, <1>5 DEF Main, OnlySockets, vcs
  <2> QED
    BY <1>1, <1>2, <1>4, <1>5, <1>6, <2>1 DEF Other, Late, Asking, Over
<1>9. ASSUME NEW q \in Proc
      PROVE  stage'[1][q] = stage[1][q] /\ wire'[1][q] = wire[1][q]
  <2>1. stage'[1][q] = stage[1][q]
    BY <1>4, <1>5
  <2>2. wire'[1][q] = wire[1][q]
    BY <1>4, <1>6
  <2> QED
    BY <2>1, <2>2
<1>10. /\ stage'[0][0] = "none" <=> stage[0][0] = "none"
       /\ completing[1] = 0 => stage'[0][1] = "open"
  BY <1>2, <1>4, <1>5, CompletingOpen, NoneAssumption DEF Proc
<1> QED
  BY <1>2, <1>4, <1>7, <1>8, <1>9, <1>10, LostStep

LEMMA RecvFailedStep ==
  ASSUME Inv, NEW c \in Proc, NEW p \in Proc, RecvFailed(c, p)
  PROVE  Inv'
<1>1. TypeOK /\ Handshake /\ Other
  BY DEF Inv
<1>2. /\ stage[c][p] \in {"open", "awaiting"}
      /\ wire[c][1 - p] # <<>> /\ Head(wire[c][1 - p]).type = "FIN"
      /\ Move(c, p, "ended") /\ Take(c, p) /\ OnlySockets
      /\ completing[p] = None /\ 1 - p \in Proc /\ 1 - (1 - p) = p
  BY Sides DEF RecvFailed, Idle, Arrived
<1>3. c # Main
  <2>1. SUFFICES ASSUME c = Main PROVE FALSE
    OBVIOUS
  <2>2. PICK q \in Proc : q = 1 - p /\ 1 - q = p
    BY <1>2
  <2>3. stage[Main][q] \in {"closing", "closed"} /\ received[1 - q] = sent[q] /\ Complete(sent[q])
    BY <1>2, <2>1, <2>2, FinMeans
  <2>4. CASE stage[Main][p] = "awaiting"
    BY <1>1, <2>2, <2>3, <2>4, MainIs, Sides DEF Handshake, Over, Agreed, Asking, Requested
  <2>5. CASE stage[Main][p] = "open"
    <3>1. Complete(received[p]) /\ ~Closed(p)
      BY <2>2, <2>3, <2>5 DEF Closed
    <3>2. Protocol(p) /\ state[p] \in {"INACTIVE", "ACTIVE", "LOCAL_CLOSE", "REMOTE_CLOSE", "CLOSE_ACKED"}
          /\ received[p] \in Seq(Packets) /\ NoClose(<<>>) /\ <<>> \in Seq(Packets)
      BY <1>1, NoneYet, EmptySeq DEF Inv, TypeOK
    <3>3. ~NoClose(received[p]) /\ ~Asks(received[p])
      BY <3>1, <3>2, FormsDiffer
    <3>4. state[p] = "CLOSE_ACKED"
      BY <3>1, <3>2, <3>3 DEF Protocol
    <3> QED
      BY <2>5, <3>1, <3>2, <3>4 DEF Protocol
  <2> QED
    BY <1>2, <2>1, <2>4, <2>5
<1>4. Main = 1 /\ c = 0 /\ 0 \in Proc /\ 1 \in Proc
  BY <1>2, <1>3, Lost DEF Proc
<1>5. /\ stage' \in [Proc -> [Proc -> Stages]]
      /\ stage'[0][p] = "ended"
      /\ \A d, q \in Proc : d # 0 \/ q # p => stage'[d][q] = stage[d][q]
  BY <1>1, <1>2, <1>4, Moved DEF Stages
<1>6. /\ wire' \in [Proc -> [Proc -> Seq(Wired)]]
      /\ wire'[0][0] \in Seq({OpenReq, Fin})
      /\ wire'[0][1] \in Seq({OpenResp(TRUE), OpenResp(FALSE), Fin})
      /\ wire[0][1] \in Seq({OpenResp(FALSE), Fin}) => wire'[0][1] \in Seq({OpenResp(FALSE), Fin})
      /\ \A x \in Proc : wire'[1][x] = wire[1][x]
  BY <1>2, <1>4, LostTake
<1>7. TypeOK'
  BY <1>1, <1>2, <1>5, <1>6, SocketTypes
<1>8. Other'
  <2>1. Main' = 1 /\ conn' = conn
    BY <1>2, <1>4, <1>5 DEF Main, OnlySockets, vcs
  <2> QED
    BY <1>1, <1>2, <1>4, <1>5, <1>6, <2>1, Zenon DEF Other, Late, Asking, Over, Proc
<1>9. ASSUME NEW q \in Proc
      PROVE  stage'[1][q] = stage[1][q] /\ wire'[1][q] = wire[1][q]
  <2>1. stage'[1][q] = stage[1][q]
    BY <1>4, <1>5
  <2>2. wire'[1][q] = wire[1][q]
    BY <1>4, <1>6
  <2> QED
    BY <2>1, <2>2
<1>10. /\ stage'[0][0] = "none" <=> stage[0][0] = "none"
       /\ completing[1] = 0 => stage'[0][1] = "open"
  BY <1>2, <1>4, <1>5, CompletingOpen, NoneAssumption DEF Proc
<1> QED
  BY <1>2, <1>4, <1>7, <1>8, <1>9, <1>10, LostStep

LEMMA GracefulCloseDiscardStep ==
  ASSUME Inv, NEW c \in Proc, NEW p \in Proc, GracefulCloseDiscard(c, p)
  PROVE  Inv'
<1>1. TypeOK /\ Handshake /\ Other
  BY DEF Inv
<1>2. /\ stage[c][p] = "closing"
      /\ wire[c][1 - p] # <<>> /\ Head(wire[c][1 - p]).type # "FIN"
      /\ Take(c, p) /\ UNCHANGED stage /\ OnlySockets
      /\ completing[p] = None /\ 1 - p \in Proc /\ 1 - (1 - p) = p
  BY Sides DEF GracefulCloseDiscard, Idle, Arrived
<1>3. c # Main
  <2>1. SUFFICES ASSUME c = Main PROVE FALSE
    OBVIOUS
  <2>2. PICK q \in Proc : q = 1 - p /\ 1 - q = p
    BY <1>2
  <2>3. wire[Main][q] # <<>> /\ Head(wire[Main][q]) \in Wired /\ Head(wire[Main][q]).type # "FIN"
    <3>1. wire[Main][q] \in Seq(Wired)
      BY Known
    <3> QED
      BY <1>2, <2>1, <2>2, <3>1, HeadFirst
  <2>4. Way(q) = <<>>
    BY <1>2, <2>1, <2>2, NothingMore
  <2>5. CASE Head(wire[Main][q]).type = "OPEN_REQ"
    <3>1. q = Main /\ stage[Main][1 - Main] \in {"none", "accepted"}
      BY <2>3, <2>5, RequestMeans
    <3> QED
      BY <1>2, <2>1, <2>2, <3>1
  <2>6. CASE Head(wire[Main][q]).type = "OPEN_RESP"
    <3>1. q = 1 - Main /\ stage[Main][Main] \in Requested
      BY <2>3, <2>6, ResponseMeans
    <3>2. p = Main
      BY <2>2, <3>1, MainIs
    <3> QED
      BY <1>2, <2>1, <3>1, <3>2 DEF Requested
  <2>7. CASE Head(wire[Main][q]).type \in {"DATA", "CLOSE"}
    BY <2>3, <2>4, <2>7, PacketMeans
  <2> QED
    BY <2>3, <2>5, <2>6, <2>7, WiredTypes
<1>4. Main = 1 /\ c = 0 /\ 0 \in Proc /\ 1 \in Proc
  BY <1>2, <1>3, Lost DEF Proc
<1>5. /\ wire' \in [Proc -> [Proc -> Seq(Wired)]]
      /\ wire'[0][0] \in Seq({OpenReq, Fin})
      /\ wire'[0][1] \in Seq({OpenResp(TRUE), OpenResp(FALSE), Fin})
      /\ wire[0][1] \in Seq({OpenResp(FALSE), Fin}) => wire'[0][1] \in Seq({OpenResp(FALSE), Fin})
      /\ \A x \in Proc : wire'[1][x] = wire[1][x]
  BY <1>2, <1>4, LostTake
<1>6. TypeOK'
  BY <1>1, <1>2, <1>5 DEF TypeOK, OnlySockets, vcs
<1>7. Other'
  <2>1. Main' = 1 /\ conn' = conn
    BY <1>2, <1>4 DEF Main, OnlySockets, vcs
  <2> QED
    BY <1>1, <1>2, <1>4, <1>5, <2>1 DEF Other, Late, Asking, Over, Proc
<1>8. completing[1] = 0 => stage'[0][1] = "open"
  BY <1>2, <1>4, CompletingOpen, NoneAssumption DEF Proc
<1> QED
  BY <1>2, <1>4, <1>5, <1>6, <1>7, <1>8, LostStep

-----------------------------------------------------------------------------
(***************************************************************************)
(* The steps of the main connection.                                       *)
(***************************************************************************)

(* What concerns a process is as it was if nothing of it has changed. *)
LEMMA OthersKept ==
  ASSUME Inv, NEW q \in Proc, Main' = Main, q = 1 => Late' = Late,
         plan' = plan, mpi'[q] = mpi[q], state'[q] = state[q], chState'[q] = chState[q],
         conn'[q] = conn[q], sendq'[q] = sendq[q], outstanding'[q] = outstanding[q],
         completing'[q] = completing[q], deferConnect'[q] = deferConnect[q],
         deferWrites'[q] = deferWrites[q], sent'[q] = sent[q], received'[q] = received[q],
         \A d \in Proc : stage'[d][q] = stage[d][q] /\ writes'[d][q] = writes[d][q]
  PROVE  Queue(q)' /\ Deferrals(q)' /\ Protocol(q)'
<1>1. TypeOK /\ Queue(q) /\ Deferrals(q) /\ Protocol(q)
  BY DEF Inv
<1>2. Main \in Proc /\ 1 - Main \in Proc /\ 1 - q \in Proc
  BY MainIs, Sides
<1>3. Closed(q)' = Closed(q)
  BY <1>2 DEF Closed
<1>4. ended'[q] = ended[q]
  BY DEF ended
<1>5. completing[q] # None => completing[q] \in Proc /\ conn[q] = completing[q]
  BY <1>1 DEF TypeOK, Queue
<1>6. Queue(q)'
  BY <1>1, <1>2, <1>3, <1>5 DEF Queue
<1>7. Deferrals(q)'
  BY <1>1, <1>2, <1>3 DEF Deferrals
<1>8. Protocol(q)'
  BY <1>1, <1>2, <1>3, <1>4 DEF Protocol
<1> QED
  BY <1>6, <1>7, <1>8

(* Packets are put on the wire, and x is sent. *)
LEMMA FlowWrite ==
  ASSUME Inv, NEW p \in Proc, Main' = Main, NEW items \in Seq(Packets), NEW x \in Seq(Packets),
         Before(p)' = Before(p), After(p) = <<>>,
         wire'[Main][p] = wire[Main][p] \o (items \o After(p)'),
         sent'[p] = sent[p] \o x, received'[1 - p] = received[1 - p],
         Unwritten(p)' \in Seq(Packets), Unwritten(p) \o x = items \o Unwritten(p)',
         stage'[Main][p] \in Over \/ (stage[Main][p] \notin Over /\ items = <<>>)
  PROVE  Flow(p)' /\ Way(p)' = Way(p) \o items
<1> DEFINE b == Before(p)
           w == Way(p)
           a == After(p)'
           r == received[1 - p]
           u == Unwritten(p)
           v == Unwritten(p)'
<1>1. /\ b \in Seq(Wired) /\ w \in Seq(Packets) /\ w \in Seq(Wired) /\ r \in Seq(Packets)
      /\ u \in Seq(Packets) /\ v \in Seq(Packets) /\ items \in Seq(Wired)
  BY Around, Known, WiredPackets
<1>2. a \in Seq(Wired)
  <2>1. a = <<>> \/ a = <<Fin>>
    BY DEF After
  <2>2. <<>> \in Seq(Wired) /\ <<Fin>> \in Seq(Wired)
    BY WiredPackets, One, EmptySeq
  <2> QED
    BY <2>1, <2>2
<1>3. wire[Main][p] = b \o (w \o <<>>)
  BY Known
<1>4. sent[p] = r \o (w \o u)
  BY Known
<1>5. u \o x = items \o v
  OBVIOUS
<1>6. wire'[Main][p] = (b \o (w \o <<>>)) \o (items \o a)
  BY <1>3
<1>7. sent'[p] = (r \o (w \o u)) \o x
  BY <1>4
<1> DEFINE m == w \o items
<1>8. m \in Seq(Packets)
  BY <1>1, ConcatProperties
<1>9. stage'[Main][p] \in Over \/ m = <<>>
  <2>1. ASSUME stage[Main][p] \notin Over, items = <<>>
        PROVE  m = <<>>
    <3>1. Flow(p)
      BY DEF Inv
    <3>2. w = <<>>
      BY <2>1, <3>1 DEF Flow
    <3>3. <<>> \o <<>> = <<>>
      OBVIOUS
    <3> QED
      BY <2>1, <3>2, <3>3
  <2> QED
    BY <2>1
<1> HIDE DEF b, w, a, r, u, v
<1>10. wire'[Main][p] = b \o (m \o a)
  <2>1. w \o <<>> = w
    BY <1>1, Joins
  <2>2. items \o a \in Seq(Wired)
    BY <1>1, <1>2, Joins
  <2>3. (b \o w) \o (items \o a) = b \o (w \o (items \o a))
    BY <1>1, <2>2, WiredJoin, Zenon
  <2>4. w \o (items \o a) = (w \o items) \o a
    BY <1>1, <1>2, WiredJoin, Zenon
  <2> QED
    BY <1>6, <2>1, <2>3, <2>4
<1>11. sent'[p] = r \o (m \o v)
  <2>1. w \o u \in Seq(Packets) /\ u \o x \in Seq(Packets)
    BY <1>1, ConcatProperties
  <2>2. (r \o (w \o u)) \o x = r \o ((w \o u) \o x)
    <3>1. PICK y \in Seq(Packets) : y = w \o u
      BY <2>1
    <3>2. (r \o y) \o x = r \o (y \o x)
      <4>1. r \in Seq(Packets) /\ x \in Seq(Packets)
        BY <1>1
      <4> QED
        BY <4>1, PacketsJoin, ZenonT(60)
    <3> QED
      BY <3>1, <3>2
  <2>3. /\ w \in Seq(Packets) /\ u \in Seq(Packets) /\ v \in Seq(Packets)
        /\ x \in Seq(Packets) /\ items \in Seq(Packets)
    BY <1>1
  <2>4. (w \o u) \o x = w \o (u \o x) /\ w \o (items \o v) = (w \o items) \o v
    BY <2>3, PacketsJoin, ZenonT(60)
  <2> QED
    BY <1>5, <1>7, <2>2, <2>4
<1> HIDE DEF m
<1>12. /\ (wire[Main][p])' = Before(p)' \o (m \o After(p)')
       /\ sent'[p] = received'[1 - p] \o (m \o Unwritten(p)')
       /\ received'[1 - p] \in Seq(Packets) /\ Unwritten(p)' \in Seq(Packets)
       /\ (stage[Main][p] \in Over)' \/ m = <<>>
  BY <1>1, <1>9, <1>10, <1>11 DEF b, a, r, v
<1>13. Flow(p)' /\ Way(p)' = m
  BY <1>8, <1>12, FlowNext
<1> QED
  BY <1>13 DEF m, w

(* A packet is taken from the wire. *)
LEMMA FlowRead ==
  ASSUME Inv, NEW q \in Proc, Main' = Main, Way(q) # <<>>,
         Before(q)' = <<>>, After(q)' = After(q),
         wire'[Main][q] = Tail(Way(q)) \o After(q),
         sent'[q] = sent[q], received'[1 - q] = Append(received[1 - q], Head(Way(q))),
         Unwritten(q)' = Unwritten(q), stage'[Main][q] \in Over
  PROVE  Flow(q)' /\ Way(q)' = Tail(Way(q))
<1> DEFINE w == Way(q)
           r == received[1 - q]
           u == Unwritten(q)
           m == Tail(w)
           h == Head(w)
<1>1. w \in Seq(Packets) /\ r \in Seq(Packets) /\ u \in Seq(Packets) /\ sent[q] = r \o (w \o u)
  BY Known
<1> HIDE DEF r, u
<1>2. m \in Seq(Packets) /\ h \in Packets /\ <<h>> \in Seq(Packets)
  BY <1>1, HeadFirst, One
<1>3. w = <<h>> \o m
  BY <1>1, HeadAndTail
<1> HIDE DEF w, m, h
<1>4. Append(r, h) \in Seq(Packets) /\ Append(r, h) = r \o <<h>>
  BY <1>1, <1>2, AppendJoined, SMTT(60)
<1>5. r \o (w \o u) = (r \o <<h>>) \o (m \o u)
  <2>1. (<<h>> \o m) \o u = <<h>> \o (m \o u) /\ m \o u \in Seq(Packets)
    BY <1>1, <1>2, ConcatAssociative, ConcatProperties, SMTT(60)
  <2>2. r \o (<<h>> \o (m \o u)) = (r \o <<h>>) \o (m \o u)
    BY <1>1, <1>2, <2>1, PacketsJoin, ZenonT(60)
  <2> QED
    BY <1>3, <2>1, <2>2
<1>6. /\ (wire[Main][q])' = Before(q)' \o (m \o After(q)')
  <2>1. m \o After(q) \in Seq(Wired)
    BY <1>2, WiredPackets, Around, ConcatProperties
  <2>2. <<>> \o (m \o After(q)) = m \o After(q)
    BY <2>1, Joins
  <2> QED
    BY <2>2 DEF m, w
<1>7. sent'[q] = received'[1 - q] \o (m \o Unwritten(q)')
  BY <1>1, <1>4, <1>5 DEF r, u, h, w
<1>8. received'[1 - q] \in Seq(Packets) /\ Unwritten(q)' \in Seq(Packets)
  BY <1>1, <1>4 DEF r, u, h, w
<1>9. Flow(q)' /\ Way(q)' = m
  BY <1>2, <1>6, <1>7, <1>8, FlowNext
<1> QED
  BY <1>9 DEF m, w

(* Before and after the packets of a process that writes. *)
LEMMA Writing ==
  ASSUME Inv, NEW p \in Proc, stage[Main][p] \in {"open", "draining"}
  PROVE  After(p) = <<>> /\ ~Closed(p) /\ ~Closed(1 - p)
<1>1. Handshake /\ 1 - p \in Proc
  BY Sides DEF Inv
<1>2. ~Closed(1 - p)
  <2>1. Closed(1 - p) => stage[Main][1 - (1 - p)] \in {"closing", "closed"}
    BY <1>1 DEF Handshake
  <2> QED
    BY <2>1, Sides
<1> QED
  BY <1>2 DEF After, Closed

(* Process p writes packets of its queue, or shuts down after the last. *)
LEMMA WriteStep ==
  ASSUME Inv, NEW p \in Proc, TypeOK', stage[Main][p] \in {"open", "draining"},
         UNCHANGED <<plan, mpi, state, chState, conn, outstanding, deferConnect, sent, received>>,
         NEW q \in Proc, q = 1 - p, p = 1 - q,
         sendq'[q] = sendq[q], deferWrites'[q] = deferWrites[q], completing'[q] = completing[q],
         \A d \in Proc : writes'[d][q] = writes[d][q] /\ wire'[d][q] = wire[d][q],
         wire'[1 - Main][p] = wire[1 - Main][p],
         \A d, x \in Proc : d # Main \/ x # p => stage'[d][x] = stage[d][x],
         \/ stage'[Main][p] = stage[Main][p]
         \/ stage[Main][p] = "draining" /\ stage'[Main][p] = "closing",
         Queue(p)', Deferrals(p)', NEW items \in Seq(Packets),
         wire'[Main][p] = wire[Main][p] \o (items \o After(p)'),
         Unwritten(p) = items \o Unwritten(p)', Unwritten(p)' \in Seq(Packets)
  PROVE  Inv'
<1>1. TypeOK /\ Handshake /\ Conns /\ Other /\ Queue(p) /\ Protocol(p) /\ Flow(q)
  BY SMTT(60) DEF Inv
<1>2. Main \in Proc /\ 1 - Main \in Proc /\ Main' = Main
  <2>1. Main \in Proc /\ 1 - Main \in Proc /\ 1 \in Proc
    BY MainIs DEF Proc
  <2>2. CASE Main # 1 \/ p # 1
    <3>1. stage'[1][1] = stage[1][1]
      BY <2>1, <2>2
    <3> QED
      BY <2>1, <3>1 DEF Main
  <2>3. CASE Main = 1 /\ p = 1
    <3>1. stage[1][1] # "none" /\ stage'[1][1] # "none"
      BY <2>3, MainIs
    <3> QED
      BY <2>1, <3>1 DEF Main
  <2> QED
    BY <2>2, <2>3
<1>3. Late' = Late
  BY <1>2 DEF Late
<1>4. After(p) = <<>> /\ ~Closed(p) /\ ~Closed(q)
  BY Writing
<1>5. Handshake'
  <2>1. \A x \in Proc : Closed(x)' = Closed(x)
    BY <1>2, <1>4, Zenon DEF Closed
  <2>2. /\ stage'[Main][q] = stage[Main][q] /\ \A x \in Proc : x = p \/ x = q
        /\ (p = Main /\ q = 1 - Main) \/ (q = Main /\ p = 1 - Main)
    BY <1>2, MainIs, Sides
  <2>3. CASE p = Main /\ q = 1 - Main
    BY <1>1, <1>2, <1>4, <2>1, <2>2, <2>3, ZenonT(60) DEF Handshake, Asking, Requested, Over, Agreed
  <2>4. CASE q = Main /\ p = 1 - Main
    BY <1>1, <1>2, <1>4, <2>1, <2>2, <2>4, ZenonT(60) DEF Handshake, Asking, Requested, Over, Agreed
  <2> QED
    BY <2>2, <2>3, <2>4
<1>6. Conns'
  BY <1>1, <1>2, <1>4, MainIs, Sides, SMTT(60) DEF Conns, Closed, Asking, Live, Over
<1>7. Other'
  BY <1>1, <1>2, <1>3, MainIs, SMTT(60) DEF Other, Proc
<1>8. Queue(q)' /\ Deferrals(q)' /\ Protocol(q)'
  <2>1. \A d \in Proc : stage'[d][q] = stage[d][q]
    BY Sides
  <2> QED
    BY <1>2, <1>3, <2>1, OthersKept
<1>9. Protocol(p)'
  <2>1. ended'[p] = ended[p] /\ ~Closed(p)'
    BY <1>2, <1>4 DEF ended, Closed
  <2> QED
    BY <1>1, <1>2, <1>4, <2>1 DEF Protocol
<1>10. Flow(q)'
  <2>1. Before(q)' = Before(q) /\ After(q)' = After(q)
    BY <1>1, <1>2, <1>4, MainIs, Sides DEF Before, After, Closed, Requested, Agreed, Over
  <2>2. Unwritten(q)' = Unwritten(q)
    BY <1>2 DEF Unwritten
  <2>3. stage'[Main][q] = stage[Main][q] /\ wire'[Main][q] = wire[Main][q]
    BY <1>2, Sides, SMTT(60)
  <2> QED
    BY <1>1, <1>2, <2>1, <2>2, <2>3, FlowKept, SMTT(60)
<1>11. Flow(p)'
  <2>1. Before(p)' = Before(p)
    BY <1>1, <1>2, MainIs, Sides DEF Before, Requested, Agreed, Over
  <2>2. <<>> \in Seq(Packets) /\ sent'[p] = sent[p] \o <<>> /\ Unwritten(p) \o <<>> = items \o Unwritten(p)'
    BY Known, Joins
  <2>3. stage'[Main][p] \in Over
    BY DEF Over
  <2> QED
    BY <1>2, <1>4, <2>1, <2>2, <2>3, FlowWrite
<1> QED
  BY <1>5, <1>6, <1>7, <1>8, <1>9, <1>10, <1>11, Sides DEF Inv

LEMMA SendHeadStep ==
  ASSUME Inv, NEW p \in Proc, SendHead(p)
  PROVE  Inv'
<1>1. TypeOK /\ Queue(p) /\ Deferrals(p) /\ Other /\ Conns
  BY DEF Inv
<1>2. /\ completing[p] # None /\ conn[p] \in Proc /\ conn[p] = completing[p]
      /\ stage[conn[p]][p] = "open" /\ chState[p] = "CONNECTED" /\ writes[Main][p] = 0
  BY CompletingOpen DEF SendHead
<1>3. UNCHANGED <<plan, mpi, state, chState, conn, sendq, outstanding, deferConnect, deferWrites,
                  stage, sent, received>>
  BY DEF SendHead
<1>4. PICK q \in Proc : q = 1 - p /\ p = 1 - q /\ q # p
  BY Sides
<1>5. /\ completing' \in [Proc -> Proc \cup {None}] /\ completing'[p] = None
      /\ completing'[q] = completing[q]
  BY <1>1, <1>4 DEF SendHead, TypeOK
<1>6. Main \in Proc /\ 1 - Main \in Proc /\ Main' = Main /\ sendq[p] \in Seq(Packets)
  BY <1>1, <1>3, MainIs DEF Main, TypeOK
<1>7. CASE sendq[p] # <<>>
  <2>1. conn[p] = Main
    <3>1. SUFFICES ASSUME conn[p] # Main PROVE FALSE
      OBVIOUS
    <3>2. Main = 1 /\ conn[p] = 0
      BY <3>1, <1>2, Lost
    <3>3. p = 1
      BY <3>2, <1>1, <1>2 DEF Other, Asking, Proc
    <3>4. stage[Main][p] = "closed"
      BY <3>2, <3>3, <1>1 DEF Other, Late
    <3> QED
      BY <3>4, <1>1, <1>7 DEF Queue
  <2>2. Put(Main, p, <<Head(sendq[p])>>) /\ writes' = [writes EXCEPT ![Main][p] = @ + 1]
    BY <2>1, <1>2, <1>7 DEF SendHead
  <2>3. /\ Head(sendq[p]) \in Packets /\ Tail(sendq[p]) \in Seq(Packets)
        /\ sendq[p] = <<Head(sendq[p])>> \o Tail(sendq[p])
        /\ <<Head(sendq[p])>> \in Seq(Packets)
    BY <1>6, <1>7, HeadFirst, HeadAndTail, One
  <2>4. /\ wire' \in [Proc -> [Proc -> Seq(Wired)]]
        /\ wire'[Main][p] = wire[Main][p] \o <<Head(sendq[p])>>
        /\ \A d, x \in Proc : d # Main \/ x # p => wire'[d][x] = wire[d][x]
    BY <1>1, <1>6, <2>2, <2>3, PutOn, WiredPackets
  <2>5. /\ writes' \in [Proc -> [Proc -> Nat]] /\ writes'[Main][p] = 1
        /\ \A d, x \in Proc : d # Main \/ x # p => writes'[d][x] = writes[d][x]
    <3>1. writes' = [writes EXCEPT ![Main][p] = 1]
      BY <1>1, <1>2, <1>6, <2>2 DEF TypeOK
    <3> QED
      BY <1>1, <1>6, <3>1 DEF TypeOK
  <2>6. TypeOK'
    BY <1>1, <1>3, <1>5, <2>4, <2>5 DEF TypeOK
  <2>7. Queue(p)'
    BY <1>1, <1>2, <1>3, <1>5, <1>6, <1>7, <2>1, <2>5, MainIs, ZenonT(60) DEF Queue, Late, Closed
  <2>8. Deferrals(p)'
    BY <1>1, <1>2, <1>3, <1>5, <1>6, <2>5 DEF Deferrals, Closed
  <2>9. /\ Unwritten(p) = <<Head(sendq[p])>> \o Unwritten(p)'
        /\ Unwritten(p)' \in Seq(Packets)
    <3>1. Unwritten(p) = sendq[p]
      BY <1>2 DEF Unwritten
    <3>2. Unwritten(p)' = Tail(sendq[p])
      BY <1>3, <1>6, <2>5 DEF Unwritten
    <3> QED
      BY <2>3, <3>1, <3>2
  <2>10. /\ After(p)' = <<>>
         /\ wire'[Main][p] = wire[Main][p] \o (<<Head(sendq[p])>> \o After(p)')
    <3>1. After(p)' = <<>>
      BY <1>2, <1>3, <1>6, <2>1 DEF After
    <3>2. <<Head(sendq[p])>> \o <<>> = <<Head(sendq[p])>>
      BY <2>3, Joins
    <3> QED
      BY <3>1, <3>2, <2>4
  <2>11. \A d \in Proc : writes'[d][q] = writes[d][q] /\ wire'[d][q] = wire[d][q]
    BY <1>4, <2>4, <2>5
  <2>12. wire'[1 - Main][p] = wire[1 - Main][p]
    BY <1>6, <2>4, MainIs
  <2> QED
    BY <1>2, <1>3, <1>4, <1>5, <2>1, <2>3, <2>6, <2>7, <2>8, <2>9, <2>10, <2>11, <2>12, WriteStep, Zenon
<1>8. CASE sendq[p] = <<>>
  <2>1. UNCHANGED <<wire, writes>>
    BY <1>8 DEF SendHead
  <2>2. TypeOK' /\ Late' = Late
    BY <1>1, <1>3, <1>5, <1>6, <2>1 DEF TypeOK, Late
  <2>3. Queue(p)' /\ Deferrals(p)' /\ Protocol(p)'
    <3>1. Protocol(p)
      BY DEF Inv
    <3>2. Queue(p)'
      BY <1>1, <1>3, <1>5, <1>6, <2>1, <2>2 DEF Queue, Closed
    <3>3. Deferrals(p)'
      BY <1>1, <1>3, <1>5, <1>6, <2>1 DEF Deferrals, Closed
    <3>4. Protocol(p)'
      BY <3>1, <1>3, <1>6, <2>2 DEF Protocol, ended, Closed
    <3> QED
      BY <3>2, <3>3, <3>4
  <2>4. Queue(q)' /\ Deferrals(q)' /\ Protocol(q)'
    BY <1>3, <1>4, <1>5, <1>6, <2>1, <2>2, OthersKept
  <2>5. Handshake' /\ Conns' /\ Other'
    BY <1>1, <1>3, <1>6, <2>1, <2>2 DEF Inv, Handshake, Conns, Other, Closed
  <2>6. ASSUME NEW x \in Proc
        PROVE  Flow(x)'
    <3>1. Flow(x) /\ 1 - x \in Proc
      BY Sides DEF Inv
    <3>2. Before(x)' = Before(x) /\ After(x)' = After(x) /\ Unwritten(x)' = Unwritten(x)
      BY <1>3, <1>6, <2>1 DEF Before, After, Unwritten, Closed
    <3> QED
      BY <1>3, <1>6, <2>1, <3>1, <3>2, FlowKept
  <2>7. \A x \in Proc : x = p \/ x = q
    BY <1>4, Sides
  <2> QED
    BY <2>2, <2>3, <2>4, <2>5, <2>6, <2>7 DEF Inv
<1> QED
  BY <1>7, <1>8

LEMMA SendMessageSucceededStep ==
  ASSUME Inv, NEW c \in Proc, NEW p \in Proc, SendMessageSucceeded(c, p)
  PROVE  Inv'
<1>1. TypeOK /\ Queue(p) /\ Deferrals(p) /\ Conns /\ Protocol(p)
  BY DEF Inv
<1>2. Main \in Proc /\ 1 - Main \in Proc
  BY MainIs
<1>3. /\ completing[p] = None /\ writes[c][p] > 0 /\ sendq[p] # <<>> /\ sendq[p] \in Seq(Packets)
      /\ UNCHANGED <<plan, mpi, state, chState, conn, outstanding, completing, deferConnect,
                     deferWrites, sent, received>>
      /\ sendq' = [sendq EXCEPT ![p] = Tail(sendq[p])]
  BY <1>1 DEF SendMessageSucceeded, Idle, TypeOK
<1>4. c = Main /\ writes[Main][p] = 1 /\ writes[1 - Main][p] = 0 /\ deferWrites[p] = 0
      /\ stage[Main][p] \in {"open", "draining"}
  BY <1>1, <1>3, MainIs DEF Queue, Deferrals
<1>5. PICK q \in Proc : q = 1 - p /\ p = 1 - q /\ q # p
  BY Sides
<1>6. /\ Tail(sendq[p]) \in Seq(Packets) /\ Len(sendq[p]) \in Nat /\ Len(sendq[p]) >= 1
      /\ Len(Tail(sendq[p])) = Len(sendq[p]) - 1
      /\ \A i \in 1 .. Len(sendq[p]) - 1 : Tail(sendq[p])[i] = sendq[p][i + 1]
  BY <1>3, HeadFirst
<1>7. sendq' \in [Proc -> Seq(Packets)] /\ sendq'[p] = Tail(sendq[p]) /\ sendq'[q] = sendq[q]
  BY <1>1, <1>3, <1>5, <1>6 DEF TypeOK
<1>8. Unwritten(p) = Tail(sendq[p]) /\ After(p) = <<>> /\ ~Closed(1 - p)
  BY <1>4, Writing, SMTT(60) DEF Unwritten
<1>9. CASE Len(sendq[p]) > 1
  <2>1. Put(Main, p, <<sendq[p][2]>>) /\ UNCHANGED <<writes, stage>>
    BY <1>4, <1>9 DEF SendMessageSucceeded
  <2>2. /\ Tail(sendq[p]) # <<>> /\ Head(Tail(sendq[p])) = sendq[p][2]
        /\ Head(Tail(sendq[p])) \in Packets /\ Tail(Tail(sendq[p])) \in Seq(Packets)
        /\ Tail(sendq[p]) = <<sendq[p][2]>> \o Tail(Tail(sendq[p]))
    <3>1. Tail(sendq[p]) # <<>>
      <4>1. PICK n \in Nat : n = Len(sendq[p]) /\ Len(Tail(sendq[p])) = n - 1
        BY <1>6
      <4>2. n - 1 # 0
        BY <1>9, <4>1, LongOrNot, Zenon
      <4> QED
        BY <1>6, <4>1, <4>2, PacketsEmpty
    <3>2. Head(Tail(sendq[p])) = Tail(sendq[p])[1] /\ Tail(sendq[p])[1] = sendq[p][1 + 1]
      BY <1>6, <1>9, <3>1, HeadFirst
    <3> QED
      BY <1>6, <3>1, <3>2, HeadFirst, HeadAndTail, SMTT(60)
  <2>3. <<sendq[p][2]>> \in Seq(Packets)
    BY <2>2, One
  <2>4. /\ wire' \in [Proc -> [Proc -> Seq(Wired)]]
        /\ wire'[Main][p] = wire[Main][p] \o <<sendq[p][2]>>
        /\ \A d, x \in Proc : d # Main \/ x # p => wire'[d][x] = wire[d][x]
    BY <1>1, <1>2, <2>1, <2>3, PutOn, WiredPackets
  <2>5. Main' = Main
    BY <2>1 DEF Main
  <2>6. TypeOK'
    BY <1>1, <1>3, <1>7, <2>1, <2>4 DEF TypeOK
  <2>7. Queue(p)'
    BY <1>1, <1>3, <1>4, <1>7, <2>1, <2>2, <2>5, MainIs DEF Queue, Late, Closed
  <2>8. Deferrals(p)'
    BY <1>1, <1>3, <1>4, <1>7, <2>1, <2>2, <2>5 DEF Deferrals, Closed
  <2>9. Unwritten(p)' = Tail(Tail(sendq[p]))
    BY <1>4, <1>7, <2>1, <2>5 DEF Unwritten
  <2>10. wire'[Main][p] = wire[Main][p] \o (<<sendq[p][2]>> \o After(p)')
    <3>1. After(p)' = <<>>
      BY <1>8, <2>1, <2>5 DEF After, Closed
    <3>2. <<sendq[p][2]>> \o <<>> = <<sendq[p][2]>>
      BY <2>3, Joins
    <3> QED
      BY <3>1, <3>2, <2>4
  <2>11. \A d \in Proc : writes'[d][q] = writes[d][q] /\ wire'[d][q] = wire[d][q]
    BY <1>5, <2>1, <2>4
  <2>12. wire'[1 - Main][p] = wire[1 - Main][p]
    BY <1>2, <2>4, MainIs
  <2> QED
    BY <1>3, <1>4, <1>5, <1>7, <1>8, <2>1, <2>2, <2>3, <2>6, <2>7, <2>8, <2>9, <2>10, <2>11, <2>12,
       WriteStep, ZenonT(60)
<1>10. CASE Len(sendq[p]) = 1
  <2>1. /\ writes' = [writes EXCEPT ![Main][p] = @ - 1]
        /\ IF stage[Main][p] = "draining" THEN Put(Main, p, <<Fin>>) /\ Move(Main, p, "closing")
           ELSE UNCHANGED <<wire, stage>>
    BY <1>4, <1>10 DEF SendMessageSucceeded
  <2>2. Tail(sendq[p]) = <<>>
    <3>1. Len(Tail(sendq[p])) = 0
      BY <1>6, <1>10
    <3> QED
      BY <1>6, <3>1, PacketsEmpty
  <2>3. /\ writes' \in [Proc -> [Proc -> Nat]] /\ writes'[Main][p] = 0
        /\ \A d, x \in Proc : d # Main \/ x # p => writes'[d][x] = writes[d][x]
    <3>1. writes' = [writes EXCEPT ![Main][p] = 0]
      BY <1>1, <1>2, <1>4, <2>1 DEF TypeOK
    <3> QED
      BY <1>1, <1>2, <3>1 DEF TypeOK
  <2> DEFINE out == IF stage[Main][p] = "draining" THEN <<Fin>> ELSE <<>>
  <2>4. /\ stage' \in [Proc -> [Proc -> Stages]]
        /\ stage'[Main][p] = IF stage[Main][p] = "draining" THEN "closing" ELSE stage[Main][p]
        /\ \A d, x \in Proc : d # Main \/ x # p => stage'[d][x] = stage[d][x]
    <3>1. CASE stage[Main][p] = "draining"
      BY <1>1, <1>2, <2>1, <3>1, Moved DEF Stages
    <3>2. CASE stage[Main][p] # "draining"
      BY <1>1, <2>1, <3>2 DEF TypeOK
    <3> QED
      BY <3>1, <3>2
  <2>5. /\ wire' \in [Proc -> [Proc -> Seq(Wired)]]
        /\ wire'[Main][p] = wire[Main][p] \o out
        /\ \A d, x \in Proc : d # Main \/ x # p => wire'[d][x] = wire[d][x]
    <3>1. CASE stage[Main][p] = "draining"
      <4>1. <<Fin>> \in Seq(Wired)
        BY WiredPackets, One
      <4> QED
        BY <1>1, <1>2, <2>1, <3>1, <4>1, PutOn, ZenonT(60)
    <3>2. CASE stage[Main][p] # "draining"
      <4>1. wire[Main][p] \o <<>> = wire[Main][p]
        BY Known, Joins
      <4> QED
        BY <1>1, <2>1, <3>2, <4>1 DEF TypeOK
    <3> QED
      BY <3>1, <3>2
  <2>6. Main' = Main
    BY <1>2, <1>4, <2>4, MainIs DEF Main, Proc
  <2>7. TypeOK'
    BY <1>1, <1>3, <1>7, <2>3, <2>4, <2>5 DEF TypeOK
  <2>0. /\ conn[p] = Main /\ conn[p] # None
        /\ stage'[Main][p] \in {"open", "draining", "closing"}
        /\ \A d \in Proc : stage'[d][p] = "none" <=> stage[d][p] = "none"
    BY <1>1, <1>2, <1>4, <2>4, MainIs, NoneAssumption DEF Conns, Live, Proc
  <2>8. Queue(p)'
    <3>1. writes'[Main][p] = 0 /\ writes'[1 - Main][p] = 0
      BY <1>2, <1>4, <2>3, MainIs
    <3> QED
      BY <1>1, <1>3, <1>7, <2>0, <2>2, <2>6, <3>1 DEF Queue, Live, Over
  <2>9. Deferrals(p)'
    BY <1>1, <1>3, <1>4, <2>0, <2>6 DEF Deferrals, Closed
  <2>10. Unwritten(p)' = <<>> /\ Unwritten(p) = <<>> \o <<>> /\ <<>> \in Seq(Packets)
    BY <1>7, <1>8, <2>2, <2>3, <2>6, Joins DEF Unwritten
  <2>11. wire'[Main][p] = wire[Main][p] \o (<<>> \o After(p)')
    <3>1. After(p)' = out
      BY <1>2, <1>4, <1>5, <1>8, <2>4, <2>6 DEF After, Closed
    <3>2. <<>> \o out = out
      OBVIOUS
    <3> QED
      BY <3>1, <3>2, <2>5
  <2>12. \A d \in Proc : writes'[d][q] = writes[d][q] /\ wire'[d][q] = wire[d][q]
    BY <1>5, <2>3, <2>5
  <2>13. wire'[1 - Main][p] = wire[1 - Main][p]
    BY <1>2, <2>5, MainIs
  <2>14. \/ stage'[Main][p] = stage[Main][p]
         \/ stage[Main][p] = "draining" /\ stage'[Main][p] = "closing"
    BY <2>4
  <2> QED
    <3>1. Unwritten(p) = <<>> \o Unwritten(p)' /\ Unwritten(p)' \in Seq(Packets)
      BY <2>10
    <3> QED
      BY <1>3, <1>4, <1>5, <1>7, <2>4, <2>7, <2>8, <2>9, <2>10, <2>11, <2>12, <2>13, <2>14, <3>1, WriteStep, ZenonT(60)
<1>11. Len(sendq[p]) > 1 \/ Len(sendq[p]) = 1
  BY <1>6, LongOrNot, Zenon
<1> QED
  BY <1>9, <1>10, <1>11

LEMMA WriteDeferredStep ==
  ASSUME Inv, NEW p \in Proc, WriteDeferred(p)
  PROVE  Inv'
<1>1. TypeOK /\ Queue(p) /\ Deferrals(p)
  BY DEF Inv
<1>2. Main \in Proc /\ 1 - Main \in Proc
  BY MainIs
<1>3. /\ completing[p] = None /\ deferWrites[p] = 1 /\ sendq[p] # <<>> /\ sendq[p] \in Seq(Packets)
      /\ conn[p] = Main /\ conn[p] # None /\ stage[Main][p] \in {"open", "draining"}
      /\ writes[Main][p] = 0 /\ writes[1 - Main][p] = 0
      /\ UNCHANGED <<plan, mpi, state, chState, conn, outstanding, completing, deferConnect,
                     stage, sent, received>>
      /\ deferWrites' = [deferWrites EXCEPT ![p] = @ - 1]
  BY <1>1, <1>2, NoneAssumption, SMTT(60) DEF WriteDeferred, Idle, TypeOK, Queue, Deferrals, Proc
<1>4. PICK q \in Proc : q = 1 - p /\ p = 1 - q /\ q # p
  BY Sides
<1>5. deferWrites' \in [Proc -> Nat] /\ deferWrites'[p] = 0 /\ deferWrites'[q] = deferWrites[q]
  <2>1. deferWrites' = [deferWrites EXCEPT ![p] = 0]
    BY <1>1, <1>3 DEF TypeOK
  <2> QED
    BY <1>1, <1>4, <2>1 DEF TypeOK
<1>6. Main' = Main /\ After(p) = <<>> /\ After(p)' = <<>>
  <2>1. After(p) = <<>>
    BY <1>3, Writing
  <2> QED
    BY <1>3, <2>1 DEF Main, After
<1>7. Unwritten(p) = sendq[p]
  BY <1>3 DEF Unwritten
<1>8. Deferrals(p)'
  BY <1>1, <1>3, <1>5, <1>6 DEF Deferrals, Closed
<1>9. CASE state[p] = "CLOSE_ACKED" \/ sendq[p] = <<>>
  <2>1. UNCHANGED <<wire, sendq, writes>>
    BY <1>3, <1>9 DEF WriteDeferred
  <2>2. TypeOK'
    BY <1>1, <1>3, <1>5, <2>1 DEF TypeOK
  <2>3. Queue(p)'
    BY <1>1, <1>3, <1>6, <2>1 DEF Queue, Live, Over
  <2>4. /\ <<>> \in Seq(Packets) /\ Unwritten(p)' \in Seq(Packets)
        /\ Unwritten(p) = <<>> \o Unwritten(p)'
        /\ wire'[Main][p] = wire[Main][p] \o (<<>> \o After(p)')
    <3>1. wire[Main][p] \o <<>> = wire[Main][p] /\ <<>> \o sendq[p] = sendq[p] /\ <<>> \in Seq(Packets)
          /\ <<>> \o <<>> = <<>>
      BY <1>3, Known, Joins
    <3>2. Unwritten(p)' = sendq[p]
      BY <1>6, <1>7, <2>1 DEF Unwritten
    <3> QED
      BY <1>3, <1>6, <1>7, <2>1, <3>1, <3>2
  <2> QED
    BY <1>3, <1>4, <1>5, <1>8, <2>1, <2>2, <2>3, <2>4, WriteStep
<1>10. CASE state[p] # "CLOSE_ACKED"
  <2>1. PICK n \in 0 .. Len(sendq[p]) :
          /\ Put(Main, p, SubSeq(sendq[p], 1, IF n < Len(sendq[p]) THEN n + 1 ELSE n))
          /\ sendq' = [sendq EXCEPT ![p] = SubSeq(sendq[p], n + 1, Len(sendq[p]))]
          /\ writes' = [writes EXCEPT ![Main][p] = IF n < Len(sendq[p]) THEN @ + 1 ELSE @]
    BY <1>3, <1>10 DEF WriteDeferred
  <2> DEFINE rest == SubSeq(sendq[p], n + 1, Len(sendq[p]))
             items == SubSeq(sendq[p], 1, IF n < Len(sendq[p]) THEN n + 1 ELSE n)
             behind == IF n < Len(sendq[p]) THEN Tail(rest) ELSE rest
             count == IF n < Len(sendq[p]) THEN 1 ELSE 0
  <2>2. /\ rest \in Seq(Packets) /\ items \in Seq(Packets) /\ behind \in Seq(Packets)
        /\ sendq[p] = items \o behind
        /\ n < Len(sendq[p]) => rest # <<>>
    <3>1. /\ rest \in Seq(Packets) /\ SubSeq(sendq[p], 1, n) \in Seq(Packets)
          /\ sendq[p] = SubSeq(sendq[p], 1, n) \o rest
      BY <1>3, Cut
    <3>2. ASSUME n < Len(sendq[p])
          PROVE  /\ rest # <<>> /\ Tail(rest) \in Seq(Packets)
                 /\ sendq[p] = SubSeq(sendq[p], 1, n + 1) \o Tail(rest)
                 /\ SubSeq(sendq[p], 1, n + 1) \in Seq(Packets)
      <4>1. /\ rest # <<>> /\ Tail(rest) \in Seq(Packets)
            /\ sendq[p] = SubSeq(sendq[p], 1, n + 1) \o Tail(rest)
        BY <1>3, <3>2, CutBehindHead, Zenon
      <4>2. n + 1 \in 0 .. Len(sendq[p])
        <5>1. Len(sendq[p]) \in Nat
          BY <1>3, LenProperties
        <5> QED
          BY <3>2, <5>1
      <4>3. SubSeq(sendq[p], 1, n + 1) \in Seq(Packets)
        BY <1>3, <4>2, Cut
      <4> QED
        BY <4>1, <4>3
    <3>3. CASE n < Len(sendq[p])
      BY <3>1, <3>2, <3>3
    <3>4. CASE ~(n < Len(sendq[p]))
      BY <3>1, <3>4
    <3> QED
      BY <3>3, <3>4
  <2> HIDE DEF items
  <2>3. /\ wire' \in [Proc -> [Proc -> Seq(Wired)]]
        /\ wire'[Main][p] = wire[Main][p] \o items
        /\ \A d, x \in Proc : d # Main \/ x # p => wire'[d][x] = wire[d][x]
    <3>1. Put(Main, p, items) /\ items \in Seq(Wired)
      BY <2>1, <2>2, WiredPackets DEF items
    <3> QED
      BY <1>1, <1>2, <3>1, PutOn, Zenon
  <2>4. /\ writes' \in [Proc -> [Proc -> Nat]] /\ writes'[Main][p] = count
        /\ \A d, x \in Proc : d # Main \/ x # p => writes'[d][x] = writes[d][x]
    <3>1. writes' = [writes EXCEPT ![Main][p] = count]
      BY <1>1, <1>2, <1>3, <2>1 DEF TypeOK
    <3> QED
      BY <1>1, <1>2, <3>1 DEF TypeOK
  <2> HIDE DEF rest
  <2>5. sendq' \in [Proc -> Seq(Packets)] /\ sendq'[p] = rest /\ sendq'[q] = sendq[q]
    <3>1. sendq' = [sendq EXCEPT ![p] = rest]
      BY <2>1 DEF rest
    <3> QED
      BY <1>1, <1>4, <2>2, <3>1 DEF TypeOK
  <2>6. TypeOK'
    BY <1>1, <1>3, <1>5, <2>3, <2>4, <2>5 DEF TypeOK
  <2>7. Queue(p)'
    <3>1. writes'[1 - Main][p] = 0 /\ (count = 0 \/ (count = 1 /\ rest # <<>>))
      BY <1>2, <1>3, <2>2, <2>4, MainIs
    <3>2. writes'[Main][p] = count
      BY <2>4
    <3> HIDE DEF count
    <3> QED
      BY <1>1, <1>3, <1>6, <2>5, <3>1, <3>2 DEF Queue, Live, Over
  <2>8. Unwritten(p)' = behind
    BY <1>6, <2>4, <2>5 DEF Unwritten
  <2>9. wire'[Main][p] = wire[Main][p] \o (items \o After(p)')
    <3>1. items \o <<>> = items
      BY <2>2, Joins
    <3> QED
      BY <1>6, <2>3, <3>1
  <2>10. \A d \in Proc : writes'[d][q] = writes[d][q] /\ wire'[d][q] = wire[d][q]
    BY <1>4, <2>3, <2>4
  <2>11. wire'[1 - Main][p] = wire[1 - Main][p]
    BY <1>2, <2>3, MainIs
  <2>12. Unwritten(p) = items \o Unwritten(p)' /\ Unwritten(p)' \in Seq(Packets) /\ items \in Seq(Packets)
    BY <1>7, <2>2, <2>8
  <2> QED
    BY <1>3, <1>4, <1>5, <1>8, <2>5, <2>6, <2>7, <2>9, <2>10, <2>11, <2>12, WriteStep, ZenonT(60)
<1> QED
  BY <1>9, <1>10

(* A packet that has arrived is of the main connection. *)
LEMMA PacketsOnMain ==
  ASSUME Inv, NEW c \in Proc, NEW p \in Proc, wire[c][p] # <<>>,
         Head(wire[c][p]).type \in {"DATA", "CLOSE"}
  PROVE  c = Main
<1>1. SUFFICES ASSUME c # Main PROVE FALSE
  OBVIOUS
<1>2. TypeOK /\ Other
  BY DEF Inv
<1>3. (Main = 0 /\ c = 1) \/ (Main = 1 /\ c = 0)
  BY <1>1, MainIs DEF Proc
<1>4. Main = 1 /\ c = 0
  BY <1>2, <1>3 DEF Other
<1>5. wire[0][p] \in Seq({OpenReq, Fin}) \/ wire[0][p] \in Seq({OpenResp(TRUE), OpenResp(FALSE), Fin})
  BY <1>2, <1>4 DEF Other, Proc
<1>6. Head(wire[0][p]) \in {OpenReq, Fin} \/ Head(wire[0][p]) \in {OpenResp(TRUE), OpenResp(FALSE), Fin}
  BY <1>4, <1>5, HeadFirst
<1> QED
  BY <1>4, <1>6, WiredPackets

(* What a process knows when it reads a packet, and what the packet says of the peer. *)
LEMMA Reading ==
  ASSUME Inv, NEW p \in Proc, NEW q \in Proc, q = 1 - p, p = 1 - q,
         stage[Main][p] = "open", wire[Main][q] # <<>>, Head(wire[Main][q]).type \in {"DATA", "CLOSE"}
  PROVE  /\ conn[p] = Main /\ After(p) = <<>> /\ ~Closed(p) /\ ~Closed(q)
         /\ Before(q) = <<>> /\ Way(q) # <<>> /\ stage[Main][q] \in Over
         /\ Head(wire[Main][q]) = Head(Way(q)) /\ Head(wire[Main][q]) \in Packets
         /\ Tail(wire[Main][q]) = Tail(Way(q)) \o After(q)
         /\ state[p] \in {"ACTIVE", "LOCAL_CLOSE", "REMOTE_CLOSE", "CLOSE_ACKED"}
         /\ Head(wire[Main][q]) # Close(TRUE) => NoClose(received[p])
         /\ Head(wire[Main][q]) = Close(FALSE) => state[p] \in {"ACTIVE", "LOCAL_CLOSE"}
         /\ Head(wire[Main][q]) = Close(TRUE) =>
              \/ state[p] = "LOCAL_CLOSE" /\ NoClose(received[p])
              \/ state[p] = "CLOSE_ACKED" /\ Asks(received[p])
<1> DEFINE h == Head(wire[Main][q])
<1>1. TypeOK /\ Protocol(p) /\ Protocol(q) /\ Handshake /\ Conns
  BY DEF Inv
<1>3. After(p) = <<>> /\ ~Closed(p) /\ ~Closed(q)
  BY Writing
<1>4. conn[p] = Main /\ conn[p] # None
  BY <1>1, MainIs, NoneAssumption DEF Conns, Live, Proc
<1>5. /\ Before(q) = <<>> /\ Way(q) # <<>> /\ stage[Main][q] \in Over
      /\ h = Head(Way(q)) /\ h \in Packets
      /\ Tail(wire[Main][q]) = Tail(Way(q)) \o After(q)
  BY PacketMeans
<1> HIDE DEF h
<1>6. /\ received[p] \in Seq(Packets) /\ received[q] \in Seq(Packets) /\ sent[p] \in Seq(Packets)
      /\ state[p] \in {"INACTIVE", "ACTIVE", "LOCAL_CLOSE", "REMOTE_CLOSE", "CLOSE_ACKED"}
      /\ state[q] \in {"INACTIVE", "ACTIVE", "LOCAL_CLOSE", "REMOTE_CLOSE", "CLOSE_ACKED"}
      /\ sent[q] \in Seq(Packets)
  BY <1>1 DEF TypeOK
<1>7. state[p] # "INACTIVE"
  BY <1>1, <1>3, <1>4 DEF Protocol
<1> DEFINE v == Way(q) \o Unwritten(q)
<1>8. /\ v \in Seq(Packets) /\ v # <<>> /\ Head(v) = h /\ sent[q] = received[p] \o v
      /\ Ordered(received[p] \o v)
  <2>1. v \in Seq(Packets) /\ sent[q] = received[p] \o v /\ Way(q) \in Seq(Packets) /\ Unwritten(q) \in Seq(Packets)
    BY Known
  <2>2. v # <<>> /\ Head(v) = h
    BY <1>5, <2>1, HeadJoined, ZenonT(60)
  <2>3. Ordered(sent[q])
    BY SentOrdered
  <2> QED
    BY <2>1, <2>2, <2>3
<1> HIDE DEF v
<1>9. /\ h # Close(TRUE) => NoClose(received[p])
      /\ h = Close(TRUE) => (NoClose(received[p]) /\ Answers(sent[q])) \/ (Asks(received[p]) /\ Both(sent[q]))
  BY <1>6, <1>8, NextForms
<1>10. /\ NoClose(received[p]) => ~Asks(received[p]) /\ ~Complete(received[p])
       /\ Asks(received[p]) => ~Complete(received[p])
  BY <1>6, FormsDiffer
<1>11. h = Close(FALSE) => state[p] \in {"ACTIVE", "LOCAL_CLOSE"}
  BY <1>1, <1>3, <1>6, <1>7, <1>9, <1>10, ClosePackets DEF Protocol, Complete
<1>12. ASSUME h = Close(TRUE)
       PROVE  state[p] \in {"LOCAL_CLOSE", "CLOSE_ACKED"}
  <2>1. Complete(sent[q])
    BY <1>9, <1>12 DEF Complete
  <2>2. ~NoClose(sent[q]) /\ ~Asks(sent[q])
    BY <1>6, <2>1, FormsDiffer
  <2>3. Asks(received[q]) \/ Complete(received[q])
    <3>1. sent[q] # <<>>
      BY <1>6, <2>1, FormsDiffer
    <3> QED
      BY <1>1, <1>3, <1>6, <2>2, <3>1 DEF Protocol, Complete
  <2>4. ~NoClose(received[q])
    BY <1>6, <2>3, FormsDiffer
  <2>5. ~NoClose(sent[p])
    <3>1. PICK y \in Seq(Packets) : sent[p] = received[q] \o y
      BY Known
    <3>2. Ordered(received[q] \o y)
      BY <3>1, SentOrdered
    <3> QED
      BY <1>6, <2>4, <3>1, <3>2, ReceivedForms, ZenonT(60)
  <2> QED
    BY <1>1, <1>3, <1>6, <1>7, <2>5 DEF Protocol
<1>13. h = Close(TRUE) => \/ state[p] = "LOCAL_CLOSE" /\ NoClose(received[p])
                          \/ state[p] = "CLOSE_ACKED" /\ Asks(received[p])
  <2>1. state[p] = "LOCAL_CLOSE" => NoClose(received[p])
    BY <1>1, <1>3 DEF Protocol
  <2>2. state[p] = "CLOSE_ACKED" => ~NoClose(received[p])
    <3>1. state[p] = "CLOSE_ACKED" => Asks(received[p]) \/ Complete(received[p])
      BY <1>1, <1>3 DEF Protocol, Complete
    <3> QED
      BY <1>10, <3>1
  <2> QED
    BY <1>9, <1>12, <2>1, <2>2
<1> QED
  BY <1>3, <1>4, <1>5, <1>6, <1>7, <1>9, <1>11, <1>13 DEF h

(* Process p reads a packet, sends what is in x, and may begin to close. *)
LEMMA ReadStep ==
  ASSUME Inv, NEW p \in Proc, NEW q \in Proc, q = 1 - p, p = 1 - q, TypeOK',
         stage[Main][p] = "open", wire[Main][q] # <<>>,
         Head(wire[Main][q]).type \in {"DATA", "CLOSE"},
         UNCHANGED <<plan, mpi, chState, conn, outstanding, completing, deferConnect, deferWrites>>,
         sendq'[q] = sendq[q], state'[q] = state[q], sent'[q] = sent[q], received'[q] = received[q],
         \A d \in Proc : writes'[d][q] = writes[d][q],
         received'[p] = Append(received[p], Head(wire[Main][q])),
         wire'[Main][q] = Tail(wire[Main][q]),
         \A x \in Proc : wire'[1 - Main][x] = wire[1 - Main][x],
         \A d, x \in Proc : d # Main \/ x # p => stage'[d][x] = stage[d][x],
         stage'[Main][p] \in {"open", "draining", "closing"},
         Queue(p)', Deferrals(p)', Protocol(p)',
         NEW items \in Seq(Packets), NEW x \in Seq(Packets),
         wire'[Main][p] = wire[Main][p] \o (items \o After(p)'),
         sent'[p] = sent[p] \o x,
         Unwritten(p) \o x = items \o Unwritten(p)', Unwritten(p)' \in Seq(Packets)
  PROVE  Inv'
<1>1. TypeOK /\ Handshake /\ Conns /\ Other
  BY DEF Inv
<1>2. Main \in Proc /\ 1 - Main \in Proc /\ Main' = Main
  <2>1. Main \in Proc /\ 1 - Main \in Proc /\ 1 \in Proc
    BY MainIs DEF Proc
  <2>2. CASE Main # 1 \/ p # 1
    <3>1. stage'[1][1] = stage[1][1]
      BY <2>1, <2>2
    <3> QED
      BY <2>1, <3>1 DEF Main
  <2>3. CASE Main = 1 /\ p = 1
    <3>1. stage[1][1] # "none" /\ stage'[1][1] # "none"
      BY <2>3, MainIs
    <3> QED
      BY <2>1, <3>1 DEF Main
  <2> QED
    BY <2>2, <2>3
<1>3. Late' = Late
  BY <1>2 DEF Late
<1>4. PICK h : h = Head(wire[Main][q])
  OBVIOUS
<1>5. /\ conn[p] = Main /\ After(p) = <<>> /\ ~Closed(p) /\ ~Closed(q)
      /\ Before(q) = <<>> /\ Way(q) # <<>> /\ stage[Main][q] \in Over
      /\ h = Head(Way(q)) /\ h \in Packets
      /\ Tail(wire[Main][q]) = Tail(Way(q)) \o After(q)
  BY <1>4, Reading, ZenonT(60)
<1>6. /\ \A y \in Proc : y = p \/ y = q
      /\ (p = Main /\ q = 1 - Main) \/ (q = Main /\ p = 1 - Main)
      /\ stage'[Main][q] = stage[Main][q]
      /\ \A y \in Proc : ~Closed(y) /\ ~Closed(y)'
  <2>1. \A y \in Proc : y = p \/ y = q
    BY Sides
  <2>2. stage'[Main][q] = stage[Main][q]
    BY <1>2, Sides
  <2> QED
    BY <1>2, <1>5, <2>1, <2>2, MainIs, ZenonT(60) DEF Closed
<1>7. Handshake'
  <2>1. CASE p = Main /\ q = 1 - Main
    BY <1>1, <1>2, <1>5, <1>6, <2>1, SMTT(60) DEF Handshake, Asking, Requested, Over, Agreed
  <2>2. CASE q = Main /\ p = 1 - Main
    BY <1>1, <1>2, <1>5, <1>6, <2>2, ZenonT(60) DEF Handshake, Asking, Requested, Over, Agreed
  <2> QED
    BY <1>6, <2>1, <2>2
<1>8. Conns'
  BY <1>1, <1>2, <1>6, MainIs, SMTT(60) DEF Conns, Asking, Live, Over
<1>9. Other'
  <2>1. CASE Main = 0
    BY <1>1, <1>2, <1>3, <2>1, SMTT(60) DEF Other, Proc
  <2>2. CASE Main = 1
    <3>1. /\ stage'[0][0] = stage[0][0] /\ stage'[0][1] = stage[0][1]
          /\ wire'[0][0] = wire[0][0] /\ wire'[0][1] = wire[0][1]
      BY <2>2 DEF Proc
    <3>2. stage[1][0] # "closed" /\ stage[1][1] # "closed" /\ stage[1][0] \in Over
      BY <1>5, <1>6, <2>2, SMTT(60) DEF Closed, Proc, Over
    <3> QED
      BY <1>1, <1>2, <1>3, <2>2, <3>1, <3>2, SMTT(60) DEF Other, Over
  <2> QED
    BY <2>1, <2>2, MainIs
<1>10. Queue(q)' /\ Deferrals(q)' /\ Protocol(q)'
  <2>1. \A d \in Proc : stage'[d][q] = stage[d][q]
    BY Sides
  <2> QED
    BY <1>2, <1>3, <2>1, OthersKept
<1>11. stage[Main][Main] \in Over /\ (stage[Main][Main] \in Over)'
  BY <1>2, <1>5, <1>6, SMTT(60) DEF Over
<1>12. \A y \in Proc : Before(y) = <<>> /\ Before(y)' = <<>>
  BY <1>11, SMTT(60) DEF Before, Requested, Over
<1>13. Flow(q)'
  <2>1. Before(q)' = <<>> /\ After(q)' = After(q)
    BY <1>2, <1>6, <1>12, SMTT(60) DEF After
  <2>2. Unwritten(q)' = Unwritten(q)
    BY <1>2, SMTT(60) DEF Unwritten
  <2>3. stage'[Main][q] \in Over
    BY <1>5, <1>6
  <2>4. received'[1 - q] = Append(received[1 - q], Head(Way(q))) /\ wire'[Main][q] = Tail(Way(q)) \o After(q)
    BY <1>4, <1>5, ZenonT(60)
  <2> QED
    BY <1>2, <1>5, <2>1, <2>2, <2>3, <2>4, FlowRead
<1>14. Flow(p)'
  <2>1. stage'[Main][p] \in Over /\ Before(p)' = Before(p)
    BY <1>12, SMTT(60) DEF Over
  <2> QED
    BY <1>2, <1>5, <2>1, FlowWrite
<1> QED
  BY <1>6, <1>7, <1>8, <1>9, <1>10, <1>13, <1>14 DEF Inv

LEMMA HandleDataStep ==
  ASSUME Inv, NEW c \in Proc, NEW p \in Proc, HandleData(c, p)
  PROVE  Inv'
<1>1. TypeOK /\ Queue(p) /\ Deferrals(p) /\ Protocol(p)
  BY DEF Inv
<1>2. PICK q \in Proc : q = 1 - p /\ p = 1 - q /\ q # p
  BY Sides
<1>3. /\ stage[c][p] = "open" /\ wire[c][q] # <<>> /\ Head(wire[c][q]).type = "DATA"
      /\ Take(c, p) /\ UNCHANGED <<plan, mpi, vcs, stage, writes, sent>>
      /\ received' = [received EXCEPT ![p] = Append(@, Head(wire[c][q]))]
  BY <1>2 DEF HandleData, Reads, Arrived, Peer, Handled
<1>4. c = Main
  BY <1>3, PacketsOnMain
<1>5. Main \in Proc /\ 1 - Main \in Proc /\ Main' = Main
  BY <1>3, MainIs DEF Main
<1>6. UNCHANGED <<plan, mpi, state, chState, conn, sendq, outstanding, completing, deferConnect,
                  deferWrites, stage, writes, sent>>
  BY <1>3 DEF vcs
<1>7. /\ After(p) = <<>> /\ ~Closed(p) /\ ~Closed(q) /\ conn[p] = Main
      /\ Head(wire[Main][q]) \in Packets
      /\ state[p] \in {"ACTIVE", "LOCAL_CLOSE", "REMOTE_CLOSE", "CLOSE_ACKED"}
      /\ Head(wire[Main][q]) # Close(TRUE) => NoClose(received[p])
  BY <1>2, <1>3, <1>4, Reading
<1>8. received[p] \in Seq(Packets)
  BY <1>1 DEF TypeOK
<1>9. /\ received' \in [Proc -> Seq(Packets)]
      /\ received'[p] = Append(received[p], Head(wire[Main][q])) /\ received'[q] = received[q]
  <2>1. Append(received[p], Head(wire[Main][q])) \in Seq(Packets)
    BY <1>7, <1>8, AppendJoined
  <2> QED
    BY <1>1, <1>2, <1>3, <1>4, <2>1 DEF TypeOK
<1>10. NoClose(received[p]) /\ NoClose(received'[p])
  <2>1. Head(wire[Main][q]) # Close(TRUE) /\ Head(wire[Main][q]).type = "DATA"
    BY <1>3, <1>4, ClosePackets
  <2> QED
    BY <1>7, <1>8, <1>9, <2>1, Closing
<1>11. ~Asks(received[p]) /\ ~Complete(received[p])
  BY <1>8, <1>10, FormsDiffer
<1>12. /\ wire' \in [Proc -> [Proc -> Seq(Wired)]]
       /\ wire'[Main][q] = Tail(wire[Main][q])
       /\ \A d, x \in Proc : d # Main \/ x = p => wire'[d][x] = wire[d][x]
  BY <1>1, <1>2, <1>3, <1>4, TakenFrom
<1>13. TypeOK'
  BY <1>1, <1>6, <1>9, <1>12 DEF TypeOK
<1>14. Queue(p)' /\ Deferrals(p)'
  <2>1. Queue(p)'
    BY <1>1, <1>5, <1>6 DEF Queue, Late, Closed
  <2>2. Deferrals(p)'
    BY <1>1, <1>5, <1>6 DEF Deferrals, Closed
  <2> QED
    BY <2>1, <2>2
<1>15. Protocol(p)'
  <2>1. ~Closed(p)' /\ ended'[p] = ended[p]
    BY <1>5, <1>6, <1>7 DEF Closed, ended
  <2> QED
    BY <1>1, <1>5, <1>6, <1>7, <1>10, <1>11, <2>1 DEF Protocol, Complete
<1>16. /\ <<>> \in Seq(Packets) /\ sent'[p] = sent[p] \o <<>>
       /\ wire'[Main][p] = wire[Main][p] \o (<<>> \o After(p)')
       /\ Unwritten(p) \o <<>> = <<>> \o Unwritten(p)' /\ Unwritten(p)' \in Seq(Packets)
  <2>1. Unwritten(p)' = Unwritten(p)
    BY <1>5, <1>6 DEF Unwritten
  <2>2. After(p)' = <<>>
    BY <1>3, <1>4, <1>5, <1>6 DEF After
  <2>3. /\ <<>> \in Seq(Packets) /\ sent[p] \o <<>> = sent[p] /\ wire[Main][p] \o <<>> = wire[Main][p]
        /\ <<>> \o <<>> = <<>> /\ Unwritten(p) \in Seq(Packets)
        /\ Unwritten(p) \o <<>> = <<>> \o Unwritten(p)
    <3>1. sent[p] \in Seq(Packets) /\ wire[Main][p] \in Seq(Wired) /\ Unwritten(p) \in Seq(Packets)
      BY Known
    <3> QED
      BY <3>1, Joins
  <2>4. wire'[Main][p] = wire[Main][p]
    BY <1>5, <1>12
  <2> QED
    BY <1>6, <2>1, <2>2, <2>3, <2>4
<1>17. \A x \in Proc : wire'[1 - Main][x] = wire[1 - Main][x]
  BY <1>5, <1>12, MainIs
<1>18. stage'[Main][p] \in {"open", "draining", "closing"} /\ stage[Main][p] = "open"
  BY <1>3, <1>4, <1>6
<1>19. wire[Main][q] # <<>> /\ Head(wire[Main][q]).type \in {"DATA", "CLOSE"}
  BY <1>3, <1>4
<1> QED
  BY <1>2, <1>6, <1>9, <1>12, <1>13, <1>14, <1>15, <1>16, <1>17, <1>18, <1>19, ReadStep

(* The answer to a close packet, and how it leaves. *)
LEMMA Answering ==
  ASSUME Inv, NEW p \in Proc, stage[Main][p] = "open", NEW reply \in {<<>>, <<Close(TRUE)>>},
         NEW way \in {"queued", "whole", "part"}, way # "queued" => sendq[p] = <<>> /\ reply # <<>>,
         Main' = Main, sendq'[p] = IF way = "whole" THEN sendq[p] ELSE sendq[p] \o reply,
         writes'[Main][p] = IF way = "part" THEN writes[Main][p] + 1 ELSE writes[Main][p]
  PROVE  /\ sendq'[p] \in Seq(Packets) /\ reply \in Seq(Packets)
         /\ Unwritten(p)' \in Seq(Packets)
         /\ Unwritten(p) \o reply = (IF way = "queued" THEN <<>> ELSE reply) \o Unwritten(p)'
         /\ writes'[Main][p] \in {0, 1} /\ (writes'[Main][p] = 1 => sendq'[p] # <<>>)
         /\ deferWrites[p] > 0 => sendq'[p] # <<>> /\ writes'[Main][p] = 0
<1> DEFINE queue == sendq'[p]
           items == IF way = "queued" THEN <<>> ELSE reply
<1>1. /\ sendq[p] \in Seq(Packets) /\ writes[Main][p] \in {0, 1} /\ (writes[Main][p] = 1 => sendq[p] # <<>>)
      /\ deferWrites[p] > 0 => sendq[p] # <<>> /\ writes[Main][p] = 0
  BY Known DEF Inv, Queue, Deferrals
<1>2. reply \in Seq(Packets) /\ <<>> \in Seq(Packets)
  <2>1. <<Close(TRUE)>> \in Seq(Packets) /\ <<>> \in Seq(Packets)
    BY ClosePackets, One, EmptySeq
  <2> QED
    BY <2>1
<1>3. items \in Seq(Packets)
  BY <1>2
<1>0. queue = IF way = "whole" THEN sendq[p] ELSE sendq[p] \o reply
  OBVIOUS
<1>4. CASE way = "queued"
  <2>1. queue = sendq[p] \o reply /\ queue \in Seq(Packets)
    BY <1>0, <1>1, <1>2, <1>4, ConcatProperties
  <2>2. sendq[p] # <<>> => queue # <<>> /\ Tail(queue) = Tail(sendq[p]) \o reply
    BY <1>1, <1>2, <2>1, HeadJoined, ZenonT(60)
  <2>3. writes'[Main][p] = writes[Main][p] /\ items = <<>>
    BY <1>4
  <2>4. Unwritten(p)' = Unwritten(p) \o reply
    <3>1. CASE writes[Main][p] = 0
      BY <2>1, <2>3, <3>1 DEF Unwritten
    <3>2. CASE writes[Main][p] = 1
      BY <1>1, <2>2, <2>3, <3>2 DEF Unwritten
    <3> QED
      BY <1>1, <3>1, <3>2
  <2>5. Unwritten(p) \o reply \in Seq(Packets)
    BY <1>2, Known, ConcatProperties
  <2>6. <<>> \o Unwritten(p)' = Unwritten(p)'
    BY <2>4, <2>5, Joins
  <2> QED
    BY <1>1, <1>2, <1>3, <2>1, <2>2, <2>3, <2>4, <2>5, <2>6
<1>5. CASE way # "queued"
  <2>1. sendq[p] = <<>> /\ reply = <<Close(TRUE)>> /\ items = reply /\ writes[Main][p] = 0
        /\ ~(deferWrites[p] > 0)
    BY <1>1, <1>5
  <2>2. Unwritten(p) = <<>>
    BY <2>1 DEF Unwritten
  <2>3. <<>> \o reply = reply /\ reply \o <<>> = reply
    BY <1>2, Joins
  <2>4. CASE way = "whole"
    <3>1. queue = <<>> /\ writes'[Main][p] = 0
      BY <2>1, <2>4
    <3>2. Unwritten(p)' = <<>>
      BY <3>1 DEF Unwritten
    <3>3. Unwritten(p) \o reply = items \o Unwritten(p)'
      BY <2>1, <2>2, <2>3, <3>2
    <3>4. queue \in Seq(Packets) /\ Unwritten(p)' \in Seq(Packets)
      BY <1>2, <3>1, <3>2
    <3>5. writes'[Main][p] \in {0, 1} /\ (writes'[Main][p] = 1 => queue # <<>>)
      BY <3>1
    <3>6. deferWrites[p] > 0 => queue # <<>> /\ writes'[Main][p] = 0
      BY <2>1
    <3> QED
      BY <1>2, <1>3, <3>3, <3>4, <3>5, <3>6
  <2>5. CASE way = "part"
    <3>1. queue = reply /\ writes'[Main][p] = 1
      BY <2>1, <2>3, <2>5
    <3>2. Tail(<<Close(TRUE)>>) = <<>> /\ <<Close(TRUE)>> # <<>>
      OBVIOUS
    <3>3. Unwritten(p)' = <<>>
      BY <2>1, <3>1, <3>2 DEF Unwritten
    <3> QED
      BY <1>2, <1>3, <2>1, <2>2, <2>3, <3>1, <3>2, <3>3
  <2> QED
    BY <1>5, <2>4, <2>5
<1> QED
  BY <1>4, <1>5

(* The close protocol after a close packet. *)
LEMMA ClosingOn ==
  ASSUME Inv, NEW p \in Proc, ~Closed(p), Main' = Main, NEW ack \in BOOLEAN,
         mpi' = mpi, outstanding' = outstanding, stage'[Main][p] # "closed",
         stage'[Main][p] \in {"draining", "closing"} <=> ack,
         state[p] \in {"ACTIVE", "LOCAL_CLOSE", "REMOTE_CLOSE", "CLOSE_ACKED"},
         ~ack => NoClose(received[p]) /\ state[p] \in {"ACTIVE", "LOCAL_CLOSE"},
         ack => \/ state[p] = "LOCAL_CLOSE" /\ NoClose(received[p])
                \/ state[p] = "CLOSE_ACKED" /\ Asks(received[p]),
         received'[p] = Append(received[p], Close(ack)),
         state'[p] = IF ack \/ state[p] = "LOCAL_CLOSE" THEN "CLOSE_ACKED" ELSE "REMOTE_CLOSE",
         sent'[p] = IF state[p] = "LOCAL_CLOSE" THEN Append(sent[p], Close(TRUE)) ELSE sent[p]
  PROVE  Protocol(p)'
<1>1. Protocol(p) /\ sent[p] \in Seq(Packets) /\ received[p] \in Seq(Packets)
  BY DEF Inv, TypeOK
<1>2. ~Closed(p)'
  BY DEF Closed
<1>3. /\ ~ack => Asks(received'[p])
      /\ ack /\ state[p] = "LOCAL_CLOSE" => Answers(received'[p])
      /\ ack /\ state[p] = "CLOSE_ACKED" => Both(received'[p])
      /\ received'[p] \in Seq(Packets)
  <2>1. Close(TRUE) \in Packets /\ Close(FALSE) \in Packets /\ (ack = TRUE \/ ack = FALSE)
    BY ClosePackets
  <2>2. NoClose(received[p]) => Asks(Append(received[p], Close(FALSE))) /\ Answers(Append(received[p], Close(TRUE)))
    BY <1>1, <2>1, Closing
  <2>3. Asks(received[p]) => Both(Append(received[p], Close(TRUE)))
    BY <1>1, <2>1, Closing
  <2>4. \/ ack /\ received'[p] = Append(received[p], Close(TRUE))
        \/ ~ack /\ received'[p] = Append(received[p], Close(FALSE))
    BY <2>1
  <2>5. received'[p] \in Seq(Packets)
    <3>1. \A m \in Packets : Append(received[p], m) \in Seq(Packets)
      BY <1>1, AppendJoined
    <3> QED
      BY <2>1, <2>4, <3>1
  <2>6. state[p] = "LOCAL_CLOSE" => NoClose(received[p])
    OBVIOUS
  <2> QED
    BY <2>2, <2>3, <2>4, <2>5, <2>6, FormsDiffer
<1>4. state[p] = "LOCAL_CLOSE" => Both(sent'[p])
  BY <1>1, ClosePackets, Closing DEF Protocol
<1>5. CASE ~ack /\ state[p] = "ACTIVE"
  <2>1. state'[p] = "REMOTE_CLOSE" /\ sent'[p] = sent[p] /\ outstanding'[p] = 0 /\ NoClose(sent[p])
        /\ ~ended[p] /\ Asks(received'[p])
    BY <1>1, <1>3, <1>5 DEF Protocol
  <2>2. ~ended'[p]
    <3>1. ended[p] <=> mpi[p] # "running" /\ outstanding[p] = 0 /\ sent[p] # <<>>
      BY DEF ended
    <3>2. ended'[p] <=> mpi'[p] # "running" /\ outstanding'[p] = 0 /\ sent'[p] # <<>>
      BY DEF ended
    <3> QED
      BY <2>1, <3>1, <3>2
  <2> QED
    BY <1>2, <1>5, <2>1, <2>2 DEF Protocol
<1>6. CASE ack \/ state[p] = "LOCAL_CLOSE"
  <2>1. /\ state'[p] = "CLOSE_ACKED" /\ outstanding'[p] = 1 /\ mpi'[p] # "running"
        /\ state[p] \in {"LOCAL_CLOSE", "CLOSE_ACKED"}
    BY <1>1, <1>6 DEF Protocol
  <2>2. ~ended'[p]
    <3>1. ended'[p] <=> mpi'[p] # "running" /\ outstanding'[p] = 0 /\ sent'[p] # <<>>
      BY DEF ended
    <3> QED
      BY <2>1, <3>1
  <2>3. \/ Both(sent'[p]) /\ (Asks(received'[p]) \/ Complete(received'[p]))
        \/ Answers(sent'[p]) /\ Both(received'[p])
    <3>1. CASE state[p] = "LOCAL_CLOSE"
      BY <1>3, <1>4, <3>1 DEF Complete
    <3>2. CASE state[p] = "CLOSE_ACKED" /\ ack
      <4>1. sent'[p] = sent[p] /\ (Both(sent[p]) \/ Answers(sent[p])) /\ Both(received'[p])
        BY <1>1, <1>3, <3>2 DEF Protocol
      <4> QED
        BY <4>1 DEF Complete
    <3> QED
      BY <1>6, <2>1, <3>1, <3>2
  <2>4. Complete(received'[p]) <=> ack
    BY <1>3, <1>6, <2>1, FormsDiffer DEF Complete
  <2> QED
    BY <1>2, <2>1, <2>2, <2>3, <2>4 DEF Protocol
<1> QED
  BY <1>5, <1>6

LEMMA HandleCloseStep ==
  ASSUME Inv, NEW c \in Proc, NEW p \in Proc, HandleClose(c, p)
  PROVE  Inv'
<1>1. TypeOK /\ Queue(p) /\ Deferrals(p)
  BY DEF Inv
<1>2. PICK q \in Proc : q = 1 - p /\ p = 1 - q /\ q # p
  BY Sides
<1>3. /\ stage[c][p] = "open" /\ wire[c][q] # <<>> /\ Head(wire[c][q]).type = "CLOSE"
      /\ completing[p] = None
      /\ received' = [received EXCEPT ![p] = Append(@, Head(wire[c][q]))]
      /\ UNCHANGED <<plan, mpi, chState, conn, outstanding, completing, deferConnect, deferWrites>>
  BY <1>2 DEF HandleClose, Reads, Arrived, Peer, Handled, Idle
<1>4. c = Main
  BY <1>3, PacketsOnMain
<1>5. Main \in Proc /\ 1 - Main \in Proc
  BY MainIs
<1>6. /\ stage[Main][p] = "open" /\ wire[Main][q] # <<>> /\ Head(wire[Main][q]).type = "CLOSE"
      /\ Head(wire[Main][q]).type \in {"DATA", "CLOSE"}
  BY <1>3, <1>4
<1>7. /\ After(p) = <<>> /\ ~Closed(p) /\ ~Closed(q) /\ conn[p] = Main
      /\ Head(wire[Main][q]) \in Packets
      /\ state[p] \in {"ACTIVE", "LOCAL_CLOSE", "REMOTE_CLOSE", "CLOSE_ACKED"}
      /\ Head(wire[Main][q]) # Close(TRUE) => NoClose(received[p])
      /\ Head(wire[Main][q]) = Close(FALSE) => state[p] \in {"ACTIVE", "LOCAL_CLOSE"}
      /\ Head(wire[Main][q]) = Close(TRUE) => \/ state[p] = "LOCAL_CLOSE" /\ NoClose(received[p])
                                              \/ state[p] = "CLOSE_ACKED" /\ Asks(received[p])
  BY <1>2, <1>6, Reading
<1> DEFINE ack == Head(wire[Main][q]).ack
           reply == IF state[p] = "LOCAL_CLOSE" THEN <<Close(TRUE)>> ELSE <<>>
<1>8. ack \in BOOLEAN /\ Head(wire[Main][q]) = Close(ack)
  BY <1>6, <1>7, ClosePackets
<1>9. /\ state' = [state EXCEPT ![p] = IF ack \/ @ = "LOCAL_CLOSE" THEN "CLOSE_ACKED" ELSE "REMOTE_CLOSE"]
      /\ sent' = [sent EXCEPT ![p] = @ \o reply]
  BY <1>2, <1>4, SMTT(60) DEF HandleClose, Peer
<1> DEFINE Queued(way) == IF way = "whole" THEN sendq[p] ELSE sendq[p] \o reply
           Closes(way) == IF ack THEN Terminate(Queued(way)) ELSE "open"
           Fins(way) == IF Closes(way) = "closing" THEN <<Fin>> ELSE <<>>
           Out(way) == IF way = "queued" THEN Fins(way) ELSE reply \o Fins(way)
<1>10. PICK way \in (IF reply = <<>> THEN {"queued"} ELSE Ways(p, TRUE)) :
         /\ sendq' = [sendq EXCEPT ![p] = Queued(way)]
         /\ writes' = [writes EXCEPT ![Main][p] = IF way = "part" THEN @ + 1 ELSE @]
         /\ wire' = [wire EXCEPT ![Main][q] = Tail(@), ![Main][p] = @ \o Out(way)]
         /\ Move(Main, p, Closes(way))
  BY <1>2, <1>4, ZenonT(60) DEF HandleClose, Peer
<1>11. /\ way \in {"queued", "whole", "part"}
       /\ way # "queued" => sendq[p] = <<>> /\ reply # <<>>
  BY <1>3, <1>10 DEF Ways
<1>12. PICK queue, next, fin, items, x :
         /\ queue = Queued(way) /\ next = Closes(way) /\ fin = Fins(way) /\ x = reply
         /\ items = IF way = "queued" THEN <<>> ELSE reply
  OBVIOUS
<1>13. x \in {<<>>, <<Close(TRUE)>>} /\ (x = <<Close(TRUE)>> <=> state[p] = "LOCAL_CLOSE")
  BY <1>12
<1>14. /\ queue = IF way = "whole" THEN sendq[p] ELSE sendq[p] \o x
       /\ next = IF ack THEN Terminate(queue) ELSE "open"
       /\ fin = IF next = "closing" THEN <<Fin>> ELSE <<>>
       /\ items = IF way = "queued" THEN <<>> ELSE x
       /\ sendq' = [sendq EXCEPT ![p] = queue]
       /\ sent' = [sent EXCEPT ![p] = @ \o x]
       /\ wire' = [wire EXCEPT ![Main][q] = Tail(@),
                               ![Main][p] = @ \o (IF way = "queued" THEN fin ELSE x \o fin)]
       /\ Move(Main, p, next)
       /\ way # "queued" => sendq[p] = <<>> /\ x # <<>>
  BY <1>9, <1>10, <1>11, <1>12, SMTT(60)
<1> HIDE DEF reply, Queued, Closes, Fins, Out
<1>15. next \in {"open", "draining", "closing"} /\ (next \in {"draining", "closing"} <=> ack)
       /\ (next = "closing" => queue = <<>>)
  BY <1>8, <1>14, SMTT(60) DEF Terminate
<1>16. /\ stage' \in [Proc -> [Proc -> Stages]] /\ stage'[Main][p] = next
       /\ \A d, y \in Proc : d # Main \/ y # p => stage'[d][y] = stage[d][y]
  <2>1. next \in Stages
    BY <1>15 DEF Stages
  <2> QED
    BY <1>1, <1>5, <1>14, <2>1, Moved
<1>17. Main' = Main
  BY <1>5, <1>6, <1>15, <1>16, MainIs DEF Main, Proc
<1>18. /\ writes' \in [Proc -> [Proc -> Nat]]
       /\ writes'[Main][p] = IF way = "part" THEN writes[Main][p] + 1 ELSE writes[Main][p]
       /\ \A d, y \in Proc : d # Main \/ y # p => writes'[d][y] = writes[d][y]
  <2>1. writes[Main][p] \in Nat
    BY <1>1, <1>5 DEF TypeOK
  <2>2. PICK k \in Nat : k = IF way = "part" THEN writes[Main][p] + 1 ELSE writes[Main][p]
    BY <2>1
  <2>3. writes' = [writes EXCEPT ![Main][p] = k]
    BY <1>1, <1>5, <1>10, <2>2 DEF TypeOK
  <2>4. /\ writes' \in [Proc -> [Proc -> Nat]] /\ writes'[Main][p] = k
        /\ \A d, y \in Proc : d # Main \/ y # p => writes'[d][y] = writes[d][y]
    BY <1>1, <1>5, <2>3 DEF TypeOK
  <2> QED
    BY <2>2, <2>4
<1>19. sendq'[p] = queue
  BY <1>1, <1>14 DEF TypeOK
<1>20. /\ queue \in Seq(Packets) /\ items \in Seq(Packets) /\ x \in Seq(Packets)
       /\ Unwritten(p)' \in Seq(Packets) /\ Unwritten(p) \o x = items \o Unwritten(p)'
       /\ writes'[Main][p] \in {0, 1} /\ (writes'[Main][p] = 1 => queue # <<>>)
       /\ deferWrites[p] > 0 => queue # <<>> /\ writes'[Main][p] = 0
  <2>1. /\ way # "queued" => sendq[p] = <<>> /\ x # <<>>
        /\ queue = IF way = "whole" THEN sendq[p] ELSE sendq[p] \o x
        /\ items = IF way = "queued" THEN <<>> ELSE x
    BY <1>14
  <2>2. writes'[Main][p] = IF way = "part" THEN writes[Main][p] + 1 ELSE writes[Main][p]
    BY <1>18
  <2>0. stage[Main][p] = "open" /\ x \in {<<>>, <<Close(TRUE)>>} /\ way \in {"queued", "whole", "part"}
    BY <1>6, <1>11, <1>13
  <2>3. /\ way # "queued" => sendq[p] = <<>> /\ x # <<>>
        /\ sendq'[p] = IF way = "whole" THEN sendq[p] ELSE sendq[p] \o x
    BY <2>1, <1>19
  <2>4. /\ sendq'[p] \in Seq(Packets) /\ x \in Seq(Packets)
        /\ Unwritten(p)' \in Seq(Packets)
        /\ Unwritten(p) \o x = (IF way = "queued" THEN <<>> ELSE x) \o Unwritten(p)'
        /\ writes'[Main][p] \in {0, 1} /\ (writes'[Main][p] = 1 => sendq'[p] # <<>>)
        /\ deferWrites[p] > 0 => sendq'[p] # <<>> /\ writes'[Main][p] = 0
    BY <2>0, <2>2, <2>3, <1>17, Answering
  <2>5. items \in Seq(Packets)
    <3>1. <<>> \in Seq(Packets)
      BY Joins
    <3> QED
      BY <2>1, <2>4, <3>1
  <2> QED
    BY <1>19, <2>1, <2>4, <2>5, SMTT(60)
<1>21. After(p)' = fin
  BY <1>2, <1>5, <1>7, <1>14, <1>15, <1>16, <1>17, SMTT(60) DEF After, Closed
<1>22. fin \in Seq(Wired)
  <2>1. <<>> \in Seq(Wired) /\ <<Fin>> \in Seq(Wired)
    BY WiredPackets, One, EmptySeq, SMTT(60)
  <2> QED
    BY <1>14, <2>1
<1>23. wire' = [wire EXCEPT ![Main][q] = Tail(@), ![Main][p] = @ \o (items \o fin)]
  <2>1. <<>> \o fin = fin
    BY <1>22, Joins
  <2> QED
    BY <1>14, <2>1
<1>24. /\ wire' \in [Proc -> [Proc -> Seq(Wired)]]
       /\ wire'[Main][q] = Tail(wire[Main][q])
       /\ wire'[Main][p] = wire[Main][p] \o (items \o fin)
       /\ \A y \in Proc : wire'[1 - Main][y] = wire[1 - Main][y]
  <2>1. wire[Main][p] \in Seq(Wired) /\ wire[Main][q] \in Seq(Wired)
    BY Known
  <2>2. Tail(wire[Main][q]) \in Seq(Wired)
    BY <1>6, <2>1, HeadFirst
  <2>3. items \o fin \in Seq(Wired)
    BY <1>20, <1>22, WiredPackets, ConcatProperties
  <2>4. wire[Main][p] \o (items \o fin) \in Seq(Wired)
    BY <2>1, <2>3, ConcatProperties
  <2>5. PICK s, u \in Seq(Wired) : s = Tail(wire[Main][q]) /\ u = wire[Main][p] \o (items \o fin)
    BY <2>2, <2>4
  <2>6. wire' = [wire EXCEPT ![Main][q] = s, ![Main][p] = u]
    BY <1>1, <1>2, <1>5, <1>23, <2>5 DEF TypeOK
  <2>7. /\ wire' \in [Proc -> [Proc -> Seq(Wired)]]
        /\ wire'[Main][q] = s /\ wire'[Main][p] = u
        /\ \A d, y \in Proc : d # Main => wire'[d][y] = wire[d][y]
    BY <1>1, <1>2, <1>5, <2>6 DEF TypeOK
  <2> QED
    BY <1>5, <2>5, <2>7, MainIs
<1>25. /\ sendq' \in [Proc -> Seq(Packets)] /\ sendq'[q] = sendq[q]
  BY <1>1, <1>2, <1>14, <1>20 DEF TypeOK
<1>26. /\ sent' \in [Proc -> Seq(Packets)] /\ sent'[q] = sent[q] /\ sent'[p] = sent[p] \o x
  <2>1. sent[p] \o x \in Seq(Packets)
    BY <1>20, Known, ConcatProperties
  <2> QED
    BY <1>1, <1>2, <1>14, <2>1 DEF TypeOK
<1>27. /\ received' \in [Proc -> Seq(Packets)] /\ received'[q] = received[q]
       /\ received'[p] = Append(received[p], Head(wire[Main][q]))
       /\ received'[p] = Append(received[p], Close(ack))
  <2>1. received[p] \in Seq(Packets)
    BY <1>1 DEF TypeOK
  <2>2. Append(received[p], Head(wire[Main][q])) \in Seq(Packets)
    BY <1>7, <2>1, AppendJoined
  <2> QED
    BY <1>1, <1>2, <1>3, <1>4, <1>8, <2>2 DEF TypeOK
<1>28. /\ state' \in [Proc -> {"INACTIVE", "ACTIVE", "LOCAL_CLOSE", "REMOTE_CLOSE", "CLOSE_ACKED"}]
       /\ state'[p] = IF ack \/ state[p] = "LOCAL_CLOSE" THEN "CLOSE_ACKED" ELSE "REMOTE_CLOSE"
       /\ state'[q] = state[q]
  BY <1>1, <1>2, <1>9 DEF TypeOK
<1>29. TypeOK'
  BY <1>1, <1>3, <1>16, <1>18, <1>24, <1>25, <1>26, <1>27, <1>28 DEF TypeOK
<1>30. conn[p] # None /\ stage'[Main][p] \in Live /\ stage'[Main][p] \in Over
  BY <1>5, <1>7, <1>15, <1>16, NoneAssumption DEF Live, Over, Proc
<1>31. Queue(p)'
  <2>1. writes'[1 - Main][p] = 0
    BY <1>1, <1>5, <1>18, MainIs DEF Queue
  <2>2. conn'[p] = Main /\ conn'[p] # None /\ completing'[p] = None /\ chState'[p] = chState[p]
    BY <1>3, <1>7, <1>30
  <2>3. writes'[Main][p] = 1 => stage'[Main][p] \in {"open", "draining"}
    BY <1>15, <1>16, <1>20
  <2>4. stage'[Main][p] # "closed"
    BY <1>15, <1>16
  <2> QED
    BY <1>1, <1>7, <1>15, <1>16, <1>17, <1>19, <1>20, <1>30, <2>1, <2>2, <2>3, <2>4 DEF Queue
<1>32. Deferrals(p)'
  <2>1. stage'[p][p] = "none" <=> stage[p][p] = "none"
    BY <1>5, <1>6, <1>15, <1>16
  <2>2. ~deferConnect[p]
    BY <1>1, <1>30 DEF Deferrals
  <2>3. deferWrites[p] > 0 => stage'[Main][p] \in {"open", "draining"}
    BY <1>15, <1>16, <1>20
  <2> QED
    BY <1>1, <1>3, <1>7, <1>17, <1>19, <1>20, <2>1, <2>2, <2>3 DEF Deferrals
<1>33. Protocol(p)'
  <2>1. sent'[p] = IF state[p] = "LOCAL_CLOSE" THEN Append(sent[p], Close(TRUE)) ELSE sent[p]
    <3>1. sent[p] \in Seq(Packets)
      BY Known
    <3>2. sent[p] \o <<>> = sent[p]
      BY <3>1, Joins
    <3>3. Append(sent[p], Close(TRUE)) = sent[p] \o <<Close(TRUE)>>
      BY <3>1, ClosePackets, AppendIsConcat
    <3> QED
      BY <1>13, <1>26, <3>2, <3>3
  <2>2. /\ ~ack => NoClose(received[p]) /\ state[p] \in {"ACTIVE", "LOCAL_CLOSE"}
        /\ ack => \/ state[p] = "LOCAL_CLOSE" /\ NoClose(received[p])
                  \/ state[p] = "CLOSE_ACKED" /\ Asks(received[p])
    BY <1>7, <1>8, ClosePackets
  <2> QED
    BY <1>3, <1>7, <1>8, <1>15, <1>16, <1>17, <1>27, <1>28, <2>1, <2>2, ClosingOn
<1>34. /\ \A d \in Proc : writes'[d][q] = writes[d][q]
       /\ stage'[Main][p] \in {"open", "draining", "closing"}
       /\ wire'[Main][p] = wire[Main][p] \o (items \o After(p)')
  BY <1>2, <1>15, <1>16, <1>18, <1>21, <1>24, ZenonT(60)
<1> QED
  BY <1>2, <1>3, <1>6, <1>16, <1>20, <1>24, <1>25, <1>26, <1>27, <1>28, <1>29, <1>31, <1>32, <1>33,
     <1>34, ReadStep, ZenonT(60)

LEMMA CloseConnectionCompleteStep ==
  ASSUME Inv, NEW c \in Proc, NEW p \in Proc, CloseConnectionComplete(c, p)
  PROVE  Inv'
<1>1. TypeOK /\ Handshake /\ Conns /\ Other /\ Queue(p) /\ Deferrals(p) /\ Protocol(p)
  BY DEF Inv
<1>2. PICK q \in Proc : q = 1 - p /\ p = 1 - q /\ q # p
  BY Sides
<1>3. /\ stage[c][p] = "closing" /\ wire[c][q] # <<>> /\ Head(wire[c][q]).type = "FIN"
      /\ Take(c, p) /\ Move(c, p, "closed") /\ completing[p] = None
      /\ UNCHANGED <<plan, mpi, sendq, completing, deferConnect, deferWrites, writes, sent, received>>
  BY <1>2 DEF CloseConnectionComplete, Arrived, Peer, Idle
<1>4. /\ stage' \in [Proc -> [Proc -> Stages]]
      /\ stage'[c][p] = "closed"
      /\ \A d, x \in Proc : d # c \/ x # p => stage'[d][x] = stage[d][x]
  BY <1>1, <1>3, Moved DEF Stages
<1>5. /\ wire' \in [Proc -> [Proc -> Seq(Wired)]]
      /\ wire'[c][q] = Tail(wire[c][q])
      /\ \A d, x \in Proc : d # c \/ x = p => wire'[d][x] = wire[d][x]
  BY <1>1, <1>2, <1>3, TakenFrom
<1>6. Main \in Proc /\ 1 - Main \in Proc /\ Main' = Main
  BY <1>3, <1>4, MainIs DEF Main, Proc
<1>7. CASE c # Main
  <2>1. Main = 1 /\ c = 0 /\ 0 \in Proc /\ 1 \in Proc
    BY <1>3, <1>7, Lost DEF Proc
  <2>2. conn[p] # c
    <3>1. CASE p = 0
      BY <1>1, <1>3, <2>1, <3>1 DEF Other, Asking
    <3>2. CASE p = 1
      BY <1>1, <1>3, <2>1, <3>2 DEF Other, Late
    <3> QED
      BY <3>1, <3>2 DEF Proc
  <2>3. OnlySockets
    BY <1>3, <2>2 DEF CloseConnectionComplete, HandleConnection, OnlySockets, vcs
  <2>4. TypeOK'
    BY <1>1, <1>4, <1>5, <2>3, SocketTypes
  <2>5. /\ wire' \in [Proc -> [Proc -> Seq(Wired)]]
        /\ wire'[0][0] \in Seq({OpenReq, Fin})
        /\ wire'[0][1] \in Seq({OpenResp(TRUE), OpenResp(FALSE), Fin})
        /\ wire[0][1] \in Seq({OpenResp(FALSE), Fin}) => wire'[0][1] \in Seq({OpenResp(FALSE), Fin})
        /\ \A x \in Proc : wire'[1][x] = wire[1][x]
    BY <1>2, <1>3, <2>1, LostTake
  <2>6. Other'
    <3>1. Main' = 1 /\ conn' = conn
      BY <1>6, <2>1, <2>3 DEF OnlySockets, vcs
    <3> QED
      BY <1>1, <1>3, <1>4, <2>1, <2>5, <3>1, SMTT(60) DEF Other, Late, Asking, Over, Proc
  <2>7. ASSUME NEW x \in Proc
        PROVE  stage'[1][x] = stage[1][x] /\ wire'[1][x] = wire[1][x]
    <3>1. stage'[1][x] = stage[1][x]
      BY <1>4, <2>1
    <3>2. wire'[1][x] = wire[1][x]
      BY <2>5
    <3> QED
      BY <3>1, <3>2
  <2>8. /\ stage'[0][0] = "none" <=> stage[0][0] = "none"
        /\ completing[1] = 0 => stage'[0][1] = "open"
    BY <1>3, <1>4, <2>1, CompletingOpen, NoneAssumption DEF Proc
  <2> QED
    BY <2>1, <2>3, <2>4, <2>6, <2>7, <2>8, LostStep
<1>8. CASE c = Main
  <2>1. /\ stage[Main][q] \in {"closing", "closed"} /\ ~Closed(p)
        /\ Before(q) = <<>> /\ Way(q) = <<>> /\ Unwritten(q) = <<>>
        /\ Tail(wire[Main][q]) = <<>> /\ received[p] = sent[q] /\ Complete(sent[q])
    BY <1>2, <1>3, <1>8, FinMeans
  <2>2. /\ conn[p] = Main /\ conn[p] # None /\ state[p] = "CLOSE_ACKED" /\ sendq[p] = <<>>
        /\ outstanding[p] = 1 /\ mpi[p] # "running" /\ writes[Main][p] = 0 /\ deferWrites[p] = 0
        /\ ~deferConnect[p] /\ Complete(sent[p]) /\ Complete(received[p])
    <3>1. stage[Main][p] = "closing"
      BY <1>3, <1>8
    <3>2. conn[p] = Main /\ conn[p] # None
      BY <1>1, <3>1, MainIs, NoneAssumption DEF Conns, Live, Proc
    <3>3. sendq[p] = <<>> /\ writes[Main][p] = 0
      BY <1>1, <3>1 DEF Queue
    <3>4. deferWrites[p] = 0 /\ ~deferConnect[p]
      BY <1>1, <3>2, <3>3 DEF Deferrals
    <3>5. state[p] = "CLOSE_ACKED" /\ outstanding[p] = 1 /\ mpi[p] # "running"
          /\ Complete(sent[p]) /\ Complete(received[p])
      BY <1>1, <2>1, <3>1 DEF Protocol, Complete
    <3> QED
      BY <3>2, <3>3, <3>4, <3>5
  <2>3. /\ conn' \in [Proc -> Proc \cup {None}] /\ conn'[p] = None /\ conn'[q] = conn[q]
        /\ chState' \in [Proc -> {"UNCONNECTED", "CONNECTING", "CONNECTED"}]
        /\ chState'[p] = "UNCONNECTED" /\ chState'[q] = chState[q]
        /\ state' \in [Proc -> {"INACTIVE", "ACTIVE", "LOCAL_CLOSE", "REMOTE_CLOSE", "CLOSE_ACKED"}]
        /\ state'[p] = "INACTIVE" /\ state'[q] = state[q]
        /\ outstanding' \in [Proc -> {0, 1}] /\ outstanding'[p] = 0 /\ outstanding'[q] = outstanding[q]
    <3>1. /\ conn' = [conn EXCEPT ![p] = None]
          /\ chState' = [chState EXCEPT ![p] = "UNCONNECTED"]
          /\ state' = [state EXCEPT ![p] = "INACTIVE"]
          /\ outstanding' = [outstanding EXCEPT ![p] = @ - 1]
      BY <1>8, <2>2 DEF CloseConnectionComplete, HandleConnection
    <3>2. outstanding' = [outstanding EXCEPT ![p] = 0]
      BY <1>1, <2>2, <3>1 DEF TypeOK
    <3> QED
      BY <1>1, <1>2, <3>1, <3>2 DEF TypeOK
  <2>4. TypeOK'
    BY <1>1, <1>3, <1>4, <1>5, <2>3 DEF TypeOK
  <2>5. /\ \A x \in Proc : x = p \/ x = q
        /\ (p = Main /\ q = 1 - Main) \/ (q = Main /\ p = 1 - Main)
        /\ stage'[Main][p] = "closed" /\ stage'[Main][q] = stage[Main][q]
        /\ Closed(p)' /\ (Closed(q)' <=> Closed(q))
    <3>1. \A x \in Proc : x = p \/ x = q
      BY <1>2, Sides
    <3>2. stage'[Main][p] = "closed" /\ stage'[Main][q] = stage[Main][q]
      BY <1>2, <1>4, <1>6, <1>8
    <3> QED
      BY <1>2, <1>6, <3>1, <3>2, MainIs DEF Closed
  <2>6. Handshake'
    <3>1. CASE p = Main /\ q = 1 - Main
      BY <1>1, <1>2, <1>3, <1>6, <1>8, <2>1, <2>5, <3>1 DEF Handshake, Asking, Requested, Over, Agreed
    <3>2. CASE q = Main /\ p = 1 - Main
      BY <1>1, <1>2, <1>3, <1>6, <1>8, <2>1, <2>5, <3>2 DEF Handshake, Asking, Requested, Over, Agreed
    <3> QED
      BY <2>5, <3>1, <3>2
  <2>7. p = 0 => (Late' <=> Late)
    BY <1>2, <1>6, <2>3 DEF Late
  <2>8. p = 1 => ~Late /\ ~Late'
    BY <1>6, <2>2, <2>3, NoneAssumption DEF Late
  <2>9. Conns'
    <3>1. CASE p = Main /\ q = 1 - Main
      BY <1>1, <1>2, <1>4, <1>6, <1>8, <2>1, <2>2, <2>3, <2>5, <3>1, MainIs DEF Conns, Asking, Live, Over, Proc
    <3>2. CASE q = Main /\ p = 1 - Main
      BY <1>1, <1>2, <1>4, <1>6, <1>8, <2>1, <2>2, <2>3, <2>5, <3>2, MainIs, NoneAssumption DEF Conns, Asking, Live, Over, Proc
    <3> QED
      BY <2>5, <3>1, <3>2
  <2>10. Other'
    <3>1. CASE Main = 0
      BY <1>1, <1>4, <1>5, <1>6, <1>8, <3>1 DEF Other, Proc
    <3>2. CASE Main = 1
      <4>1. /\ stage'[0][0] = stage[0][0] /\ stage'[0][1] = stage[0][1]
            /\ wire'[0][0] = wire[0][0] /\ wire'[0][1] = wire[0][1]
        BY <1>4, <1>5, <1>8, <3>2 DEF Proc
      <4>2. CASE p = 0 /\ q = 1
        BY <1>1, <1>6, <2>2, <2>3, <2>5, <2>7, <3>2, <4>1, <4>2, NoneAssumption DEF Other
      <4>3. CASE p = 1 /\ q = 0
        BY <1>1, <1>6, <2>2, <2>3, <2>5, <2>8, <3>2, <4>1, <4>3, NoneAssumption DEF Other
      <4> QED
        BY <1>2, <4>2, <4>3 DEF Proc
    <3> QED
      BY <3>1, <3>2, MainIs
  <2>11. Queue(q)' /\ Deferrals(q)' /\ Protocol(q)'
    <3>1. q = 1 => Late' = Late
      <4>1. ASSUME q = 1
            PROVE  conn'[1] = conn[1]
        BY <2>3, <4>1
      <4> QED
        BY <1>6, <4>1 DEF Late
    <3>2. \A d \in Proc : stage'[d][q] = stage[d][q]
      BY <1>2, <1>4
    <3> QED
      BY <1>3, <1>6, <2>3, <3>1, <3>2, OthersKept
  <2>12. Queue(p)'
    <3>1. writes[1 - Main][p] = 0
      BY <1>1 DEF Queue
    <3> QED
      BY <1>3, <1>6, <2>2, <2>3, <2>5, <3>1, NoneAssumption DEF Queue, Proc
  <2>13. Deferrals(p)'
    <3>1. stage'[p][p] = "none" <=> stage[p][p] = "none"
      BY <1>3, <1>4, <1>8
    <3> QED
      BY <1>1, <1>3, <2>2, <3>1 DEF Deferrals
  <2>14. Protocol(p)'
    <3>1. sent[p] # <<>>
      BY <1>1, <2>2, FormsDiffer DEF TypeOK
    <3>2. ended'[p] <=> mpi'[p] # "running" /\ outstanding'[p] = 0 /\ sent'[p] # <<>>
      BY DEF ended
    <3>3. ended'[p]
      BY <1>3, <2>2, <2>3, <3>1, <3>2
    <3>4. ~(p = 1 /\ Late')
      BY <2>8
    <3> QED
      BY <1>3, <2>2, <2>3, <2>5, <3>3, <3>4 DEF Protocol
  <2>15. /\ \A x \in Proc : Before(x) = <<>> /\ Before(x)' = <<>>
         /\ After(q)' = <<>> /\ After(p)' = After(p)
    <3>1. /\ stage[Main][Main] \in {"closing", "closed"} /\ stage'[Main][Main] \in {"closing", "closed"}
      BY <1>3, <1>8, <2>1, <2>5
    <3> QED
      BY <1>2, <1>3, <1>6, <1>8, <2>5, <3>1 DEF Before, After, Requested
  <2>16. Flow(p)'
    <3>1. Flow(p) /\ 1 - p \in Proc
      BY <1>2 DEF Inv
    <3>2. Unwritten(p)' = Unwritten(p)
      BY <1>3, <1>6 DEF Unwritten
    <3>3. wire'[Main][p] = wire[Main][p] /\ stage'[Main][p] \in Over
      BY <1>5, <1>6, <2>5 DEF Over
    <3>4. Before(p)' = Before(p) /\ After(p)' = After(p)
      BY <2>15
    <3> QED
      BY <1>3, <1>6, <3>1, <3>2, <3>3, <3>4, FlowKept
  <2>17. Flow(q)'
    <3>1. Unwritten(q)' = Unwritten(q)
      BY <1>3, <1>6 DEF Unwritten
    <3>2. wire'[Main][q] = <<>>
      BY <1>5, <1>8, <2>1
    <3>3. (wire[Main][q])' = Before(q)' \o (<<>> \o After(q)')
      <4>1. <<>> \o (<<>> \o <<>>) = <<>>
        BY Joins
      <4> QED
        BY <1>6, <2>15, <3>2, <4>1
    <3>4. /\ sent'[q] = received'[1 - q] \o (<<>> \o Unwritten(q)')
          /\ received'[1 - q] \in Seq(Packets) /\ Unwritten(q)' \in Seq(Packets)
          /\ <<>> \in Seq(Packets)
      <4>1. received[1 - q] \in Seq(Packets) /\ sent[q] = received[1 - q] \o (<<>> \o Unwritten(q))
        BY <2>1, Known
      <4> QED
        BY <1>3, <2>1, <3>1, <4>1, Joins
    <3> QED
      BY <3>3, <3>4, FlowNext
  <2> QED
    BY <2>4, <2>5, <2>6, <2>9, <2>10, <2>11, <2>12, <2>13, <2>14, <2>16, <2>17 DEF Inv
<1> QED
  BY <1>7, <1>8

-----------------------------------------------------------------------------
(***************************************************************************)
(* The open request.                                                       *)
(***************************************************************************)

(* An open request on the main connection finds no other, or that of process 0. *)
LEMMA RequestOnMain ==
  ASSUME Inv, stage[Main][1 - Main] = "accepted", wire[Main][Main] # <<>>,
         Head(wire[Main][Main]).type = "OPEN_REQ"
  PROVE  /\ stage[Main][Main] \in Requested /\ wire[Main][Main] = <<OpenReq>>
         /\ Tail(wire[Main][Main]) = <<>> /\ wire[Main][1 - Main] = <<>>
         /\ \A p \in Proc : Way(p) = <<>> /\ After(p) = <<>> /\ ~Closed(p)
         /\ conn[1 - Main] = None \/ (conn[1 - Main] = 0 /\ Main = 1)
         /\ ~Refuses(1 - Main, Main)
<1>1. TypeOK /\ Handshake /\ Conns
  BY DEF Inv
<1>2. Main \in Proc /\ 1 - Main \in Proc /\ \A q \in Proc : q = Main \/ q = 1 - Main
  BY MainIs
<1>3. stage[Main][Main] \in Requested /\ Way(Main) = <<>> /\ Tail(wire[Main][Main]) = <<>>
  <2>1. PICK p \in Proc : p = Main
    BY <1>2
  <2>2. wire[Main][p] # <<>> /\ Head(wire[Main][p]).type = "OPEN_REQ"
    BY <2>1
  <2>3. stage[Main][Main] \in Requested /\ Way(p) = <<>> /\ Tail(wire[Main][p]) = <<>>
    BY <2>2, RequestMeans
  <2> QED
    BY <2>1, <2>3
<1>4. \A p \in Proc : ~Closed(p) /\ After(p) = <<>> /\ stage[Main][p] \notin Over
  BY <1>2, <1>3 DEF Closed, After, Requested, Over
<1>5. ASSUME NEW p \in Proc
      PROVE  Way(p) = <<>>
  <2>1. Flow(p)
    BY DEF Inv
  <2> QED
    BY <1>4, <2>1 DEF Flow
<1>6. ASSUME NEW p \in Proc
      PROVE  wire[Main][p] = Before(p)
  <2>1. wire[Main][p] = Before(p) \o (<<>> \o <<>>) /\ Before(p) \in Seq(Wired)
    BY <1>4, <1>5, Known, Around
  <2>2. Before(p) \o (<<>> \o <<>>) = Before(p)
    BY <2>1, Joins
  <2> QED
    BY <2>1, <2>2
<1>7. wire[Main][Main] = <<OpenReq>> /\ wire[Main][1 - Main] = <<>>
  BY <1>2, <1>3, <1>6, MainIs DEF Before, Agreed, Over
<1>8. conn[1 - Main] = None \/ (conn[1 - Main] = 0 /\ Main = 1)
  BY <1>1, MainIs DEF Conns, Live
<1>9. ~Refuses(1 - Main, Main)
  BY <1>8 DEF Refuses
<1> QED
  BY <1>3, <1>4, <1>5, <1>7, <1>8, <1>9

(* Whose connection was asked for is not about to ask. *)
LEMMA AskedDoesNotAsk ==
  ASSUME OneSender, Inv, NEW p \in Proc, NEW q \in Proc, q = 1 - p, stage[q][q] # "none"
  PROVE  ~deferConnect[p]
<1>1. TypeOK /\ Deferrals(p) /\ Deferrals(q)
  BY DEF Inv
<1>2. SUFFICES ASSUME deferConnect[p] PROVE FALSE
  OBVIOUS
<1>3. plan.threads /\ plan.messages[p + 1] # 0 /\ plan.messages[q + 1] # 0
  BY <1>1, <1>2 DEF Deferrals
<1>4. plan.messages[1] = 0 \/ plan.messages[2] = 0
  BY <1>1, <1>3 DEF OneSender, TypeOK
<1>5. (p + 1 = 1 /\ q + 1 = 2) \/ (p + 1 = 2 /\ q + 1 = 1)
  BY DEF Proc
<1> QED
  BY <1>3, <1>4, <1>5

(* The request of the connection that lost, refused or accepted late. *)
LEMMA LostRequestStep ==
  ASSUME Inv, NEW c \in Proc, RecvOpenRequestData(c), c # Main
  PROVE  Inv'
<1>1. TypeOK /\ Handshake /\ Conns /\ Other
  BY DEF Inv
<1>2. /\ stage[c][1 - c] = "accepted" /\ wire[c][c] # <<>> /\ Head(wire[c][c]).type = "OPEN_REQ"
      /\ completing[1 - c] = None /\ 1 - c \in Proc
  BY Sides DEF RecvOpenRequestData, Arrived, Idle
<1>3. Main = 1 /\ c = 0 /\ 0 \in Proc /\ 1 \in Proc
  BY <1>2, Lost DEF Proc
<1>4. stage[0][1] = "accepted" /\ completing[1] = None /\ wire[0][0] # <<>> /\ ~Late
  BY <1>1, <1>2, <1>3 DEF Other
<1>5. conn[1] # 0 /\ (conn[1] = None <=> Closed(1)) /\ conn[1] \in {1, None} /\ 1 # None
  BY <1>1, <1>3, <1>4, MainIs, NoneAssumption DEF TypeOK, Late, Conns, Handshake, Closed, Live, Over, Proc
<1>6. /\ wire[0][0] \in Seq(Wired) /\ wire[0][1] \in Seq(Wired)
      /\ wire[0][0] \in Seq({OpenReq, Fin}) /\ wire[0][1] \in Seq({OpenResp(TRUE), OpenResp(FALSE), Fin})
  BY <1>1, <1>3 DEF TypeOK, Other
<1>7. /\ Tail(wire[0][0]) \in Seq(Wired) /\ Tail(wire[0][0]) \in Seq({OpenReq, Fin})
      /\ \A b \in BOOLEAN : /\ Append(wire[0][1], OpenResp(b)) \in Seq(Wired)
                            /\ Append(wire[0][1], OpenResp(b)) \in Seq({OpenResp(TRUE), OpenResp(FALSE), Fin})
      /\ wire[0][1] \in Seq({OpenResp(FALSE), Fin}) => Append(wire[0][1], OpenResp(FALSE)) \in Seq({OpenResp(FALSE), Fin})
  <2>1. \A b \in BOOLEAN : OpenResp(b) \in Wired /\ OpenResp(b) \in {OpenResp(TRUE), OpenResp(FALSE), Fin}
    BY WiredPackets, Zenon
  <2> QED
    BY <1>4, <1>6, <2>1, LostWires
<1>10. RecvOpenRequestData(0) /\ Peer(0) = 1
  BY <1>3 DEF Peer
<1>8. CASE Refuses(1, 0)
  <2>1. conn[1] = 1 /\ ~Closed(1)
    BY <1>5, <1>8 DEF Refuses
  <2>2. /\ Move(0, 1, "rejecting")
        /\ wire' = [wire EXCEPT ![0][0] = Tail(@), ![0][1] = Append(@, OpenResp(FALSE))]
        /\ UNCHANGED <<conn, chState, plan, mpi, sendq, outstanding, completing, deferConnect,
                       deferWrites, writes, sent, received>>
        /\ state' = [state EXCEPT ![1] = IF @ = "INACTIVE" THEN "ACTIVE" ELSE @]
    BY <1>8, <1>10, Zenon DEF RecvOpenRequestData
  <2>3. state[1] # "INACTIVE"
    <3>1. Protocol(1)
      BY <1>3 DEF Inv
    <3> QED
      BY <1>5, <2>1, <3>1 DEF Protocol
  <2>4. OnlySockets
    BY <1>1, <1>3, <2>2, <2>3 DEF OnlySockets, vcs, TypeOK
  <2>5. /\ stage' \in [Proc -> [Proc -> Stages]]
        /\ stage'[0][1] = "rejecting"
        /\ \A d, q \in Proc : d # 0 \/ q # 1 => stage'[d][q] = stage[d][q]
    BY <1>1, <1>3, <2>2, Moved DEF Stages
  <2>6. /\ wire' \in [Proc -> [Proc -> Seq(Wired)]]
        /\ wire'[0][0] = Tail(wire[0][0]) /\ wire'[0][1] = Append(wire[0][1], OpenResp(FALSE))
        /\ \A q \in Proc : wire'[1][q] = wire[1][q]
    <3>1. PICK s, u \in Seq(Wired) : s = Tail(wire[0][0]) /\ u = Append(wire[0][1], OpenResp(FALSE))
      BY <1>7
    <3>2. wire' = [wire EXCEPT ![0][0] = s, ![0][1] = u]
      BY <1>1, <1>3, <2>2, <3>1 DEF TypeOK
    <3> QED
      BY <1>1, <1>3, <3>1, <3>2 DEF TypeOK, Proc
  <2>7. TypeOK'
    BY <1>1, <2>4, <2>5, <2>6, SocketTypes
  <2>8. Other'
    <3>1. Main' = 1 /\ conn' = conn
      BY <1>3, <2>4, <2>5 DEF Main, OnlySockets, vcs
    <3> QED
      BY <1>1, <1>3, <1>4, <1>7, <2>5, <2>6, <3>1 DEF Other, Late, Asking, Over
  <2>9. ASSUME NEW q \in Proc
        PROVE  stage'[1][q] = stage[1][q] /\ wire'[1][q] = wire[1][q]
    <3>1. stage'[1][q] = stage[1][q]
      BY <1>3, <2>5
    <3> QED
      BY <2>6, <3>1
  <2>10. /\ stage'[0][0] = "none" <=> stage[0][0] = "none"
         /\ completing[1] = 0 => stage'[0][1] = "open"
    BY <1>3, <1>4, <2>5, NoneAssumption
  <2> QED
    BY <1>3, <2>4, <2>7, <2>8, <2>9, <2>10, LostStep
<1>9. CASE ~Refuses(1, 0)
  <2>1. conn[1] = None /\ Closed(1)
    BY <1>5, <1>9, SMTT(60) DEF Refuses
  <2>2. /\ conn' = [conn EXCEPT ![1] = 0]
        /\ chState' = [chState EXCEPT ![1] = "CONNECTING"]
        /\ Move(0, 1, "accepting")
        /\ wire' = [wire EXCEPT ![0][0] = Tail(@), ![0][1] = Append(@, OpenResp(TRUE))]
        /\ UNCHANGED <<plan, mpi, sendq, outstanding, completing, deferConnect,
                       deferWrites, writes, sent, received>>
        /\ state' = [state EXCEPT ![1] = IF @ = "INACTIVE" THEN "ACTIVE" ELSE @]
    BY <1>9, <1>10, <2>1, Zenon DEF RecvOpenRequestData
  <2>3. Protocol(1) /\ Queue(1) /\ Deferrals(1)
    BY <1>3 DEF Inv
  <2>4. state[1] = "INACTIVE"
    BY <1>4, <2>1, <2>3 DEF Protocol
  <2>5. /\ conn' \in [Proc -> Proc \cup {None}] /\ conn'[1] = 0 /\ conn'[0] = conn[0]
        /\ chState' \in [Proc -> {"UNCONNECTED", "CONNECTING", "CONNECTED"}]
        /\ chState'[1] = "CONNECTING" /\ chState'[0] = chState[0]
        /\ state' \in [Proc -> {"INACTIVE", "ACTIVE", "LOCAL_CLOSE", "REMOTE_CLOSE", "CLOSE_ACKED"}]
        /\ state'[1] = "ACTIVE" /\ state'[0] = state[0]
    BY <1>1, <1>3, <2>2, <2>4 DEF TypeOK
  <2>6. /\ stage' \in [Proc -> [Proc -> Stages]]
        /\ stage'[0][1] = "accepting"
        /\ \A d, q \in Proc : d # 0 \/ q # 1 => stage'[d][q] = stage[d][q]
    BY <1>1, <1>3, <2>2, Moved DEF Stages
  <2>7. /\ wire' \in [Proc -> [Proc -> Seq(Wired)]]
        /\ wire'[0][0] = Tail(wire[0][0]) /\ wire'[0][1] = Append(wire[0][1], OpenResp(TRUE))
        /\ \A q \in Proc : wire'[1][q] = wire[1][q]
    <3>1. PICK s, u \in Seq(Wired) : s = Tail(wire[0][0]) /\ u = Append(wire[0][1], OpenResp(TRUE))
      BY <1>7
    <3>2. wire' = [wire EXCEPT ![0][0] = s, ![0][1] = u]
      BY <1>1, <1>3, <2>2, <3>1 DEF TypeOK
    <3> QED
      BY <1>1, <1>3, <3>1, <3>2 DEF TypeOK, Proc
  <2>8. TypeOK'
    BY <1>1, <2>2, <2>5, <2>6, <2>7 DEF TypeOK
  <2>9. Main' = 1 /\ Late' /\ ~Late /\ 0 # None
    BY <1>3, <1>4, <2>5, <2>6, NoneAssumption DEF Main, Late
  <2>10. \A q \in Proc : stage'[1][q] = stage[1][q]
    BY <1>3, <2>6
  <2>11. (\A q \in Proc : Closed(q)' <=> Closed(q)) /\ stage[1][1] = "closed" /\ stage[1][0] \in {"closing", "closed"}
    <3>1. \A q \in Proc : Closed(q)' <=> Closed(q)
      BY <1>3, <2>9, <2>10 DEF Closed
    <3>2. stage[1][1] = "closed"
      BY <1>3, <2>1 DEF Closed
    <3>3. stage[1][0] \in {"closing", "closed"}
      <4>1. stage[Main][1 - 1] \in {"closing", "closed"}
        BY <1>1, <1>3, <2>1 DEF Handshake
      <4> QED
        BY <1>3, <4>1
    <3> QED
      BY <3>1, <3>2, <3>3
  <2>12. Handshake'
    BY <1>1, <1>3, <2>9, <2>10 DEF Handshake, Closed, Proc
  <2>13. Conns'
    BY <1>1, <1>3, <2>5, <2>6, <2>9, <2>10, <2>11 DEF Conns, Asking, Live, Closed
  <2>14. Other'
    BY <1>1, <1>3, <1>4, <1>7, <2>5, <2>6, <2>7, <2>9, <2>10, <2>11, Zenon DEF Other
  <2>15. Queue(0)' /\ Deferrals(0)' /\ Protocol(0)'
    <3>1. \A d \in Proc : stage'[d][0] = stage[d][0]
      BY <1>3, <2>6
    <3> QED
      BY <1>3, <2>2, <2>5, <2>9, <3>1, OthersKept, ZenonT(60)
  <2>16. Queue(1)'
    BY <1>3, <1>4, <2>2, <2>3, <2>5, <2>9, <2>10, <2>11 DEF Queue
  <2>17. Deferrals(1)'
    <3>1. ~deferConnect[1] /\ deferWrites[1] = 0
      BY <1>3, <2>1, <2>3, <2>11 DEF Deferrals
    <3> QED
      BY <1>3, <2>2, <2>3, <2>9, <2>10, <3>1 DEF Deferrals
  <2>18. Protocol(1)'
    <3>1. ended'[1] = ended[1]
      BY <2>2 DEF ended
    <3> QED
      BY <1>3, <2>1, <2>2, <2>3, <2>5, <2>9, <2>11, <3>1 DEF Protocol
  <2>19. ASSUME NEW p \in Proc
         PROVE  Flow(p)'
    <3>1. Flow(p)
      BY DEF Inv
    <3>2. Before(p)' = Before(p) /\ After(p)' = After(p)
      BY <1>3, <2>9, <2>10, <2>11, Sides DEF Before, After
    <3>3. Unwritten(p)' = Unwritten(p)
      BY <1>3, <2>2, <2>9 DEF Unwritten
    <3>4. wire'[Main][p] = wire[Main][p] /\ stage'[Main][p] = stage[Main][p]
      BY <1>3, <2>7, <2>10
    <3> QED
      BY <1>3, <2>2, <2>9, <3>1, <3>2, <3>3, <3>4, FlowKept
  <2> QED
    BY <2>8, <2>12, <2>13, <2>14, <2>15, <2>16, <2>17, <2>18, <2>19 DEF Inv, Proc
<1> QED
  BY <1>8, <1>9

(* The request of the main connection, accepted. *)
LEMMA MainRequestStep ==
  ASSUME OneSender, Inv, RecvOpenRequestData(Main)
  PROVE  Inv'
<1>1. TypeOK /\ Handshake /\ Conns /\ Other
  BY DEF Inv
<1>2. PICK c \in Proc, p \in Proc : c = Main /\ p = 1 - c /\ c = 1 - p /\ c # p /\ Peer(c) = p
  BY MainIs DEF Peer
<1>3. RecvOpenRequestData(c) /\ Peer(c) = p
  BY <1>2
<1>4. /\ stage[c][p] = "accepted" /\ wire[c][c] # <<>> /\ Head(wire[c][c]).type = "OPEN_REQ"
      /\ completing[p] = None
      /\ state' = [state EXCEPT ![p] = IF @ = "INACTIVE" THEN "ACTIVE" ELSE @]
      /\ UNCHANGED <<plan, mpi, sendq, outstanding, completing, deferConnect, deferWrites, writes,
                     sent, received>>
  <2>1. Idle(p) /\ stage[c][p] = "accepted" /\ Arrived(c, p, "OPEN_REQ")
    BY <1>3, ZenonT(60) DEF RecvOpenRequestData
  <2>2. state' = [state EXCEPT ![p] = IF @ = "INACTIVE" THEN "ACTIVE" ELSE @]
    BY <1>3, ZenonT(60) DEF RecvOpenRequestData
  <2>3. UNCHANGED <<plan, mpi, sendq, outstanding, completing, deferConnect, deferWrites, writes,
                    sent, received>>
    BY <1>3, Zenon DEF RecvOpenRequestData
  <2>4. completing[p] = None /\ wire[c][c] # <<>> /\ Head(wire[c][c]).type = "OPEN_REQ"
    <3>1. Peer(p) = c
      BY <1>2 DEF Peer
    <3> QED
      BY <2>1, <3>1 DEF Arrived, Idle
  <2> QED
    BY <2>1, <2>2, <2>3, <2>4, SMTT(60)
<1>5. /\ stage[Main][Main] \in Requested /\ wire[c][c] = <<OpenReq>>
      /\ Tail(wire[c][c]) = <<>> /\ wire[c][p] = <<>>
      /\ \A x \in Proc : Way(x) = <<>> /\ After(x) = <<>> /\ ~Closed(x)
      /\ conn[p] = None \/ (conn[p] = 0 /\ Main = 1)
      /\ ~Refuses(p, c)
  BY <1>2, <1>4, RequestOnMain, SMTT(60)
<1>6. /\ conn' = [conn EXCEPT ![p] = c]
      /\ chState' = [chState EXCEPT ![p] = IF conn[p] = None THEN "CONNECTING" ELSE @]
      /\ \/ /\ conn[p] = None
            /\ Move(c, p, "accepting")
            /\ wire' = [wire EXCEPT ![c][c] = Tail(@), ![c][p] = Append(@, OpenResp(TRUE))]
         \/ /\ conn[p] # None
            /\ stage' = [stage EXCEPT ![c][p] = "accepting", ![conn[p]][p] = StageAfterClose(@)]
            /\ wire' = [wire EXCEPT ![c][c] = Tail(@), ![c][p] = Append(@, OpenResp(TRUE)),
                                    ![conn[p]][p] = IF stage[conn[p]][p] = "connecting" THEN @
                                                    ELSE Append(@, Fin)]
  BY <1>3, <1>5 DEF RecvOpenRequestData
<1>7. /\ <<OpenResp(TRUE)>> \in Seq(Wired) /\ <<>> \in Seq(Wired) /\ <<>> \in Seq(Packets)
      /\ Append(<<>>, OpenResp(TRUE)) = <<OpenResp(TRUE)>>
  <2>1. OpenResp(TRUE) \in Wired
    BY WiredPackets
  <2>2. \A x : Append(<<>>, x) = <<x>>
    OBVIOUS
  <2>3. <<OpenResp(TRUE)>> \in Seq(Wired)
    BY ONLY <2>1, One
  <2>4. <<>> \in Seq(Wired) /\ <<>> \in Seq(Packets)
    OBVIOUS
  <2> QED
    BY <2>2, <2>3, <2>4
<1>8. /\ conn' \in [Proc -> Proc \cup {None}] /\ conn'[p] = c /\ conn'[c] = conn[c]
      /\ chState' \in [Proc -> {"UNCONNECTED", "CONNECTING", "CONNECTED"}]
      /\ chState'[p] = (IF conn[p] = None THEN "CONNECTING" ELSE chState[p]) /\ chState'[c] = chState[c]
      /\ state' \in [Proc -> {"INACTIVE", "ACTIVE", "LOCAL_CLOSE", "REMOTE_CLOSE", "CLOSE_ACKED"}]
      /\ state'[p] = (IF state[p] = "INACTIVE" THEN "ACTIVE" ELSE state[p]) /\ state'[c] = state[c]
  BY <1>1, <1>2, <1>4, <1>6, ZenonT(60) DEF TypeOK
<1>9. ASSUME conn[p] = None
      PROVE  /\ stage' \in [Proc -> [Proc -> Stages]] /\ wire' \in [Proc -> [Proc -> Seq(Wired)]]
             /\ stage'[c][p] = "accepting" /\ wire'[c][c] = <<>> /\ wire'[c][p] = <<OpenResp(TRUE)>>
             /\ \A d, x \in Proc : d # c \/ x # p => stage'[d][x] = stage[d][x]
             /\ \A x \in Proc : wire'[1 - c][x] = wire[1 - c][x]
  <2>1. /\ stage' \in [Proc -> [Proc -> Stages]] /\ stage'[c][p] = "accepting"
        /\ \A d, x \in Proc : d # c \/ x # p => stage'[d][x] = stage[d][x]
    BY <1>1, <1>6, <1>9, Moved DEF Stages
  <2>2. wire' = [wire EXCEPT ![c][c] = <<>>, ![c][p] = <<OpenResp(TRUE)>>]
    BY <1>1, <1>2, <1>5, <1>6, <1>7, <1>9 DEF TypeOK
  <2> QED
    BY <1>1, <1>2, <1>7, <2>1, <2>2, ZenonT(60) DEF TypeOK
<1>10. ASSUME conn[p] # None
       PROVE  /\ c = 1 /\ p = 0 /\ conn[0] = 0 /\ 0 \in Proc /\ 1 \in Proc
              /\ stage[0][0] \in Asking \cup {"refused", "ended"}
              /\ stage' \in [Proc -> [Proc -> Stages]] /\ wire' \in [Proc -> [Proc -> Seq(Wired)]]
              /\ stage'[c][p] = "accepting" /\ wire'[c][c] = <<>> /\ wire'[c][p] = <<OpenResp(TRUE)>>
              /\ stage'[c][c] = stage[c][c] /\ stage'[0][1] = stage[0][1]
              /\ stage'[0][0] \in {"aborted", "closed", "closing"}
              /\ wire'[0][0] \in Seq({OpenReq, Fin}) /\ wire'[0][1] = wire[0][1]
  <2>1. c = 1 /\ p = 0 /\ conn[0] = 0 /\ 0 \in Proc /\ 1 \in Proc
    BY <1>2, <1>5, <1>10 DEF Proc
  <2>2. /\ stage[0][0] \in Asking \cup {"refused", "ended"} /\ wire[0][0] \in Seq({OpenReq, Fin})
        /\ wire[0][0] \in Seq(Wired)
    BY <1>1, <1>2, <2>1 DEF Other, TypeOK
  <2>3. PICK s \in {"aborted", "closed", "closing"} : s = StageAfterClose(stage[0][0])
    BY DEF StageAfterClose
  <2>4. stage' = [stage EXCEPT ![1][0] = "accepting", ![0][0] = s]
    BY <1>1, <1>6, <1>10, <2>1, <2>3 DEF TypeOK
  <2>5. /\ Append(wire[0][0], Fin) \in Seq({OpenReq, Fin}) /\ Append(wire[0][0], Fin) \in Seq(Wired)
    BY <2>2, WiredPackets, LostWires
  <2>6. PICK u \in Seq(Wired) : /\ u \in Seq({OpenReq, Fin})
                                /\ u = IF stage[0][0] = "connecting" THEN wire[0][0] ELSE Append(wire[0][0], Fin)
    BY <2>2, <2>5
  <2>7. wire' = [wire EXCEPT ![1][1] = <<>>, ![1][0] = <<OpenResp(TRUE)>>, ![0][0] = u]
    <3>1. wire' = [wire EXCEPT ![1][1] = Tail(@), ![1][0] = Append(@, OpenResp(TRUE)),
                               ![0][0] = IF stage[0][0] = "connecting" THEN @ ELSE Append(@, Fin)]
      BY <1>6, <1>10, <2>1
    <3>2. Tail(wire[1][1]) = <<>> /\ Append(wire[1][0], OpenResp(TRUE)) = <<OpenResp(TRUE)>>
      BY <1>5, <1>7, <2>1
    <3> QED
      BY <1>1, <2>1, <2>6, <3>1, <3>2 DEF TypeOK
  <2>8. /\ stage' \in [Proc -> [Proc -> Stages]]
        /\ stage'[1][0] = "accepting" /\ stage'[0][0] = s
        /\ stage'[1][1] = stage[1][1] /\ stage'[0][1] = stage[0][1]
    <3>1. /\ s \in Stages /\ "accepting" \in Stages
          /\ stage \in [Proc -> [Proc -> Stages]]
      BY <1>1, <2>3 DEF TypeOK, Stages
    <3>2. stage' \in [Proc -> [Proc -> Stages]]
      BY <2>1, <2>4, <3>1
    <3>3. stage'[1][0] = "accepting" /\ stage'[0][0] = s
      BY <2>1, <2>4, <3>1
    <3>4. stage'[1][1] = stage[1][1] /\ stage'[0][1] = stage[0][1]
      BY <2>1, <2>4, <3>1
    <3> QED
      BY <3>2, <3>3, <3>4
  <2>9. /\ wire' \in [Proc -> [Proc -> Seq(Wired)]]
        /\ wire'[1][1] = <<>> /\ wire'[1][0] = <<OpenResp(TRUE)>> /\ wire'[0][0] = u /\ wire'[0][1] = wire[0][1]
    <3>1. wire \in [Proc -> [Proc -> Seq(Wired)]]
      BY <1>1 DEF TypeOK
    <3>2. PICK a \in Seq(Wired), b \in Seq(Wired) : a = <<>> /\ b = <<OpenResp(TRUE)>>
      BY <1>7
    <3>3. wire' = [wire EXCEPT ![1][1] = a, ![1][0] = b, ![0][0] = u]
      BY <2>7, <3>2
    <3>4. wire' \in [Proc -> [Proc -> Seq(Wired)]]
      BY <2>1, <3>1, <3>3
    <3>5. wire'[1][1] = a /\ wire'[1][0] = b
      BY <2>1, <3>1, <3>3
    <3>6. wire'[0][0] = u /\ wire'[0][1] = wire[0][1]
      BY <2>1, <3>1, <3>3
    <3> QED
      BY <3>2, <3>4, <3>5, <3>6
  <2> QED
    BY <2>1, <2>2, <2>3, <2>6, <2>8, <2>9
<1>11. /\ stage' \in [Proc -> [Proc -> Stages]] /\ wire' \in [Proc -> [Proc -> Seq(Wired)]]
       /\ stage'[c][p] = "accepting" /\ wire'[c][c] = <<>> /\ wire'[c][p] = <<OpenResp(TRUE)>>
       /\ stage'[c][c] = stage[c][c]
  BY <1>2, <1>9, <1>10
<1>12. Main' = Main /\ Main \in Proc
  <2>1. CASE conn[p] = None
    BY <1>2, <1>9, <2>1, MainIs DEF Main, Proc
  <2>2. CASE conn[p] # None
    BY <1>2, <1>10, <2>2, MainIs DEF Main
  <2> QED
    BY <2>1, <2>2
<1>13. TypeOK'
  BY <1>1, <1>4, <1>8, <1>11 DEF TypeOK
<1>14. \A x \in Proc : x = c \/ x = p
  BY <1>2, Sides
<1>15. \A x \in Proc : ~Closed(x)'
  BY <1>2, <1>5, <1>11, <1>12, <1>14 DEF Closed
<1>16. Handshake'
  BY <1>1, <1>2, <1>5, <1>11, <1>12, <1>15 DEF Handshake, Asking, Requested, Over, Agreed
<1>17. conn[c] = c /\ c # None
  BY <1>1, <1>2, <1>5, NoneAssumption DEF Conns, Asking, Requested, Proc
<1>18. Conns'
  <2>1. stage'[Main][Main] \in Requested /\ stage'[Main][1 - Main] = "accepting" /\ conn'[Main] = Main
        /\ conn'[1 - Main] = Main
    BY <1>2, <1>5, <1>8, <1>11, <1>17
  <2>2. Main = 0 => stage'[0][1] = "accepting" /\ stage'[0][0] # "none"
    BY <1>2, <1>5, <1>11 DEF Requested
  <2>3. Main = 1 => conn'[0] = 1
    BY <1>2, <1>8
  <2> QED
    BY <1>12, <1>15, <2>1, <2>2, <2>3, MainIs DEF Conns, Requested, Asking, Live
<1>19. Late' = Late /\ ~Late
  BY <1>2, <1>8, <1>12, <1>17 DEF Late
<1>20. Other'
  <2>1. CASE Main = 0
    <3>1. c = 0 /\ p = 1 /\ conn[p] = None /\ 1 - c = 1 /\ 1 \in Proc
      BY <1>2, <1>5, <2>1
    <3>2. \A x \in Proc : stage'[1][x] = stage[1][x] /\ wire'[1][x] = wire[1][x]
      <4>1. \A d, x \in Proc : d # 0 => stage'[d][x] = stage[d][x]
        BY <1>9, <3>1
      <4>2. \A x \in Proc : wire'[1][x] = wire[1][x]
        BY <1>9, <3>1
      <4> QED
        BY <3>1, <4>1, <4>2
    <3>3. \A x \in Proc : stage[1][x] = "none" /\ wire[1][x] = <<>>
      BY <1>1, <2>1 DEF Other
    <3>4. \A x \in Proc : stage'[1][x] = "none" /\ wire'[1][x] = <<>>
      BY <3>2, <3>3
    <3>5. Main' = 0
      BY <1>12, <2>1
    <3> QED
      BY <3>4, <3>5 DEF Other
  <2>2. CASE Main = 1 /\ conn[p] = None
    <3>1. c = 1 /\ p = 0 /\ 1 - c = 0 /\ 0 \in Proc /\ 1 \in Proc
      BY <1>2, <2>2
    <3>2. /\ stage'[0][0] = stage[0][0] /\ stage'[0][1] = stage[0][1]
          /\ wire'[0][0] = wire[0][0] /\ wire'[0][1] = wire[0][1]
      BY <1>9, <2>2, <3>1
    <3>3. conn[0] = None /\ conn'[0] = 1 /\ 0 # None /\ 1 # None
      BY <1>8, <2>2, <3>1, NoneAssumption
    <3>4. stage[1][0] = "accepted"
      BY <1>4, <3>1
    <3> QED
      BY <1>1, <1>12, <1>19, <2>2, <3>2, <3>3, <3>4 DEF Other
  <2>3. CASE Main = 1 /\ conn[p] # None
    <3>1. conn'[0] = 1 /\ 1 # None
      BY <1>2, <1>8, <1>10, <1>17, <2>3
    <3>2. stage[0][0] # "none" /\ stage'[0][0] # "none"
      BY <1>10, <2>3 DEF Asking
    <3> QED
      BY <1>1, <1>10, <1>12, <1>19, <2>3, <3>1, <3>2 DEF Other
  <2> QED
    BY <2>1, <2>2, <2>3, MainIs
<1>21. Queue(c)' /\ Deferrals(c)' /\ Protocol(c)'
  <2>1. \A d \in Proc : stage'[d][c] = stage[d][c]
    <3>1. CASE conn[p] = None
      BY <1>2, <1>9, <3>1
    <3>2. CASE conn[p] # None
      BY <1>10, <1>11, <3>2 DEF Proc
    <3> QED
      BY <3>1, <3>2
  <2> QED
    BY <1>4, <1>8, <1>12, <1>19, <2>1, OthersKept
<1>22. Queue(p) /\ Deferrals(p) /\ Protocol(p)
  BY DEF Inv
<1>23. /\ chState'[p] = "CONNECTING" /\ conn'[p] = c /\ c # p /\ c # None
       /\ writes[Main][p] = 0 /\ writes[1 - Main][p] = 0 /\ deferWrites[p] = 0
       /\ deferConnect[p] = FALSE
       /\ plan.threads /\ plan.messages[p + 1] = 0 => stage'[p][p] = "none"
  <2>1. chState[p] # "CONNECTED"
    BY <1>2, <1>4, <1>19, <1>22 DEF Queue, Live
  <2>2. conn[p] # None => chState[p] = "CONNECTING"
    BY <1>1, <1>22, <2>1 DEF Queue, TypeOK
  <2>3. writes[Main][p] = 0 /\ writes[1 - Main][p] = 0 /\ deferWrites[p] = 0
    BY <1>2, <1>4, <1>22 DEF Queue, Deferrals
  <2>4. ~deferConnect[p]
    <3>1. stage[c][c] # "none"
      BY <1>2, <1>5 DEF Requested
    <3> QED
      BY <1>2, <3>1, AskedDoesNotAsk
  <2>5. stage[p][p] = "none" => stage'[p][p] = "none"
    <3>1. CASE conn[p] = None
      BY <1>2, <1>9, <3>1
    <3>2. CASE conn[p] # None
      BY <1>10, <3>2 DEF Asking
    <3> QED
      BY <3>1, <3>2
  <2>6. plan.threads /\ plan.messages[p + 1] = 0 => stage[p][p] = "none"
    BY <1>22 DEF Deferrals
  <2>7. deferConnect[p] = FALSE
    BY <1>1, <2>4 DEF TypeOK
  <2> QED
    BY <1>2, <1>8, <1>17, <2>2, <2>3, <2>5, <2>6, <2>7
<1>24. Queue(p)'
  BY <1>2, <1>4, <1>11, <1>12, <1>22, <1>23 DEF Queue
<1>25. Deferrals(p)'
  BY <1>4, <1>12, <1>22, <1>23 DEF Deferrals
<1>26. Protocol(p)'
  <2>1. ~Closed(p) /\ ~Closed(p)' /\ ended'[p] = ended[p]
    BY <1>4, <1>5, <1>15 DEF ended
  <2>2. stage'[Main][p] = "accepting" /\ stage[Main][p] = "accepted"
    BY <1>2, <1>4, <1>11
  <2>3. state[p] = "INACTIVE" => NoClose(sent[p]) /\ NoClose(received[p]) /\ outstanding[p] = 0
    BY <1>22, <2>1, NoneYet DEF Protocol
  <2> QED
    BY <1>4, <1>8, <1>12, <1>22, <2>1, <2>2, <2>3 DEF Protocol
<1>27. \A x \in Proc : Unwritten(x)' = Unwritten(x)
  BY <1>4, <1>12 DEF Unwritten
<1>28. \A x \in Proc : After(x)' = <<>>
  BY <1>2, <1>5, <1>11, <1>12, <1>14 DEF After, Requested
<1>29. ASSUME NEW x \in Proc, Before(x)' = wire'[Main][x]
       PROVE  Flow(x)'
  <2>1. wire'[Main][x] \in Seq(Wired)
    BY <1>11, <1>12
  <2>2. (wire[Main][x])' = Before(x)' \o (<<>> \o After(x)')
    <3>1. wire'[Main][x] \o (<<>> \o <<>>) = wire'[Main][x]
      BY <2>1, Joins
    <3> QED
      BY <1>12, <1>28, <1>29, <3>1
  <2>3. /\ sent'[x] = received'[1 - x] \o (<<>> \o Unwritten(x)')
        /\ received'[1 - x] \in Seq(Packets) /\ Unwritten(x)' \in Seq(Packets)
    BY <1>4, <1>5, <1>27, Known
  <2> QED
    BY <1>7, <2>2, <2>3, FlowNext
<1>30. Before(c)' = wire'[Main][c] /\ Before(p)' = wire'[Main][p]
  BY <1>2, <1>5, <1>11, <1>12, <1>14 DEF Before, Requested, Agreed
<1> QED
  BY <1>13, <1>14, <1>16, <1>18, <1>20, <1>21, <1>24, <1>25, <1>26, <1>29, <1>30 DEF Inv

-----------------------------------------------------------------------------
(***************************************************************************)
(* The end of the making of a connection.                                  *)
(***************************************************************************)

(* A side completes the main connection: nothing was written on it, and it is *)
(* the one that its virtual connection has.                                    *)
LEMMA Completion ==
  ASSUME Inv, NEW p \in Proc, NEW q \in Proc, q = 1 - p, p = 1 - q, p # q,
         completing[p] = None, ConnectionComplete(Main, p),
         \/ p = Main /\ stage[Main][p] = "awaiting" /\ stage[Main][1 - Main] \in Agreed
         \/ q = Main /\ stage[Main][p] = "accepting",
         wire' \in [Proc -> [Proc -> Seq(Wired)]],
         \A x \in Proc : wire'[1 - Main][x] = wire[1 - Main][x],
         \A x \in Proc : Flow(x)'
  PROVE  Inv'
<1>1. TypeOK /\ Handshake /\ Conns /\ Other /\ Queue(p) /\ Deferrals(p) /\ Protocol(p)
  BY DEF Inv
<1>2. /\ chState' = [chState EXCEPT ![p] = "CONNECTED"]
      /\ completing' = [completing EXCEPT ![p] = Main]
      /\ UNCHANGED <<plan, mpi, state, conn, sendq, outstanding, deferConnect, deferWrites, writes,
                     sent, received>>
  BY DEF ConnectionComplete
<1>3. Main \in Proc /\ 1 - Main \in Proc /\ Main # None
  BY MainIs, Sides
<1>4. /\ stage' \in [Proc -> [Proc -> Stages]] /\ stage'[Main][p] = "open"
      /\ \A d, x \in Proc : d # Main \/ x # p => stage'[d][x] = stage[d][x]
  <2>1. Move(Main, p, "open") /\ "open" \in Stages
    BY DEF ConnectionComplete, Stages
  <2> QED
    BY <1>1, <1>3, <2>1, Moved, SMTT(60)
<1>5. /\ chState' \in [Proc -> {"UNCONNECTED", "CONNECTING", "CONNECTED"}]
      /\ chState'[p] = "CONNECTED" /\ chState'[q] = chState[q]
      /\ completing' \in [Proc -> Proc \cup {None}] /\ completing'[p] = Main
      /\ completing'[q] = completing[q]
  BY <1>1, <1>2, <1>3 DEF TypeOK
<1>6. TypeOK'
  BY <1>1, <1>2, <1>4, <1>5 DEF TypeOK
<1>7. Main' = Main
  <2>1. CASE Main = 1
    BY <1>3, <1>4, <2>1, MainIs DEF Main, Proc
  <2>2. CASE Main = 0
    BY <1>3, <1>4, <2>2, MainIs DEF Main, Proc
  <2> QED
    BY <2>1, <2>2, MainIs
<1>8. stage'[Main][q] = stage[Main][q] /\ \A x \in Proc : stage'[1 - Main][x] = stage[1 - Main][x]
  BY <1>3, <1>4, MainIs
<1>9. \A x \in Proc : x = p \/ x = q
  BY Sides
<1>10. (p = Main /\ q = 1 - Main) \/ (q = Main /\ p = 1 - Main)
  OBVIOUS
<1>11. \A x \in Proc : ~Closed(x) /\ ~Closed(x)'
  <2>1. ~Closed(p) /\ ~Closed(p)'
    BY <1>4, <1>7 DEF Closed
  <2>2. stage[Main][p] \notin {"closing", "closed"}
    OBVIOUS
  <2>3. ~Closed(q)
    <3>1. Closed(q) => stage[Main][1 - q] \in {"closing", "closed"}
      BY <1>1 DEF Handshake
    <3> QED
      BY <2>2, <3>1
  <2>4. ~Closed(q)'
    BY <1>7, <1>8, <2>3 DEF Closed
  <2> QED
    BY <1>9, <2>1, <2>3, <2>4
<1>12. Handshake'
  <2>1. CASE p = Main /\ q = 1 - Main
    BY <1>1, <1>4, <1>7, <1>8, <1>11, <2>1 DEF Handshake, Agreed, Over, Asking, Requested
  <2>2. CASE q = Main /\ p = 1 - Main
    BY <1>1, <1>4, <1>7, <1>8, <1>11, <2>2 DEF Handshake, Agreed, Over, Asking, Requested
  <2> QED
    BY <1>10, <2>1, <2>2
<1>13. conn[p] = Main
  <2>1. CASE p = Main /\ q = 1 - Main
    BY <1>1, <2>1 DEF Conns, Asking
  <2>2. CASE q = Main /\ p = 1 - Main
    BY <1>1, <2>2 DEF Conns
  <2> QED
    BY <1>10, <2>1, <2>2
<1>14. conn' = conn
  BY <1>2
<1>15. Late' = Late
  BY <1>7, <1>14 DEF Late
<1>16. Conns'
  <2>1. stage'[0][0] = "none" <=> stage[0][0] = "none"
    <3>1. CASE Main = 0
      BY <1>3, <1>4, <1>8, <1>9, <3>1 DEF Proc
    <3>2. CASE Main = 1
      BY <1>8, <3>2 DEF Proc
    <3> QED
      BY <3>1, <3>2, MainIs
  <2>2. Main = 0 => (stage[0][1] \in {"accepting"} \cup Live => stage'[0][1] \in {"accepting"} \cup Live)
    BY <1>4, <1>8, <1>9 DEF Live, Proc
  <2>3. CASE p = Main /\ q = 1 - Main
    BY <1>1, <1>4, <1>7, <1>8, <1>11, <1>13, <1>14, <2>1, <2>2, <2>3, SMTT(60) DEF Conns, Asking, Live
  <2>4. CASE q = Main /\ p = 1 - Main
    BY <1>1, <1>4, <1>7, <1>8, <1>11, <1>13, <1>14, <2>1, <2>2, <2>4 DEF Conns, Asking, Live
  <2> QED
    BY <1>10, <2>3, <2>4
<1>17. Other'
  <2>1. CASE Main = 0
    <3>1. \A x \in Proc : stage'[1][x] = stage[1][x] /\ wire'[1][x] = wire[1][x]
      BY <1>8, <2>1
    <3> QED
      BY <1>1, <1>7, <2>1, <3>1, ZenonT(60) DEF Other
  <2>2. CASE Main = 1
    <3>1. \A x \in Proc : stage'[0][x] = stage[0][x] /\ wire'[0][x] = wire[0][x]
      BY <1>8, <2>2
    <3>2. 0 \in Proc /\ 1 \in Proc /\ 0 # None /\ 1 # None
      BY NoneAssumption DEF Proc
    <3>3. /\ stage'[0][0] = stage[0][0] /\ stage'[0][1] = stage[0][1]
          /\ wire'[0][0] = wire[0][0] /\ wire'[0][1] = wire[0][1]
      BY <3>1, <3>2
    <3>4. conn[0] \in {0, None} => stage'[1][0] = stage[1][0]
      BY <1>4, <1>13, <2>2, <3>2, SMTT(60)
    <3>5. ~Late
      <4>1. CASE p = 1
        BY <1>13, <2>2, <4>1 DEF Late
      <4>2. CASE p = 0
        BY <1>1, <1>11, <2>2, <3>2, <4>2 DEF Other, Closed
      <4> QED
        BY <4>1, <4>2 DEF Proc
    <3> QED
      BY <1>1, <1>7, <1>14, <1>15, <2>2, <3>3, <3>4, <3>5 DEF Other
  <2> QED
    BY <2>1, <2>2, MainIs
<1>18. Queue(q)' /\ Deferrals(q)' /\ Protocol(q)'
  <2>1. \A d \in Proc : stage'[d][q] = stage[d][q]
    BY <1>4
  <2> QED
    BY <1>2, <1>5, <1>7, <1>15, <2>1, OthersKept
<1>19. Queue(p)'
  <2>1. p = Main => sendq[p] # <<>>
    BY <1>1, <1>13 DEF Queue, Over
  <2>2. writes[Main][p] = 0 /\ writes[1 - Main][p] = 0
    BY <1>1 DEF Queue
  <2> QED
    BY <1>1, <1>2, <1>3, <1>4, <1>5, <1>7, <1>11, <1>13, <1>14, <2>1, <2>2, SMTT(60) DEF Queue, Live, Over
<1>20. Deferrals(p)'
  <2>1. deferWrites[p] = 0
    BY <1>1 DEF Deferrals
  <2>2. ~deferConnect[p]
    BY <1>1, <1>3, <1>13 DEF Deferrals
  <2>3. stage[p][p] = "none" => stage'[p][p] = "none"
    BY <1>4
  <2> QED
    BY <1>1, <1>2, <1>7, <2>1, <2>2, <2>3 DEF Deferrals
<1>21. Protocol(p)'
  <2>1. ended'[p] = ended[p]
    BY <1>2 DEF ended
  <2>2. stage[Main][p] \notin {"draining", "closing"}
    OBVIOUS
  <2> QED
    BY <1>1, <1>2, <1>4, <1>7, <1>11, <2>1, <2>2 DEF Protocol
<1> QED
  BY <1>6, <1>9, <1>12, <1>16, <1>17, <1>18, <1>19, <1>20, <1>21 DEF Inv

(* The acceptor of the main connection has sent its response. *)
LEMMA AcceptedOnMain ==
  ASSUME Inv, NEW c \in Proc, c = Main, SendOpenResponseSucceeded(c), stage[c][1 - c] = "accepting"
  PROVE  Inv'
<1>1. TypeOK /\ Handshake
  BY DEF Inv
<1>2. PICK p \in Proc : p = 1 - c /\ c = 1 - p /\ c # p /\ Peer(c) = p
  BY Sides
<1>3. /\ completing[p] = None /\ ConnectionComplete(c, p) /\ UNCHANGED wire
      /\ stage[c][p] = "accepting"
  BY <1>2 DEF SendOpenResponseSucceeded, Idle
<1>4. Move(c, p, "open") /\ "open" \in Stages /\ sent' = sent /\ received' = received /\ sendq' = sendq /\ writes' = writes
  BY <1>3 DEF ConnectionComplete, Stages
<1>5. /\ stage'[c][p] = "open" /\ stage'[c][c] = stage[c][c]
      /\ \A d, x \in Proc : d # c \/ x # p => stage'[d][x] = stage[d][x]
  BY <1>1, <1>2, <1>4, Moved
<1>6. Main' = Main
  <2>1. c = 1 => stage'[1][1] = stage[1][1]
    BY <1>5
  <2>2. c = 0 => stage'[1][1] = stage[1][1]
    BY <1>5 DEF Proc
  <2> QED
    BY <2>1, <2>2 DEF Main, Proc
<1>7. ASSUME NEW x \in Proc
      PROVE  Flow(x)'
  <2>1. Flow(x)
    BY DEF Inv
  <2>2. Closed(1 - x)' <=> Closed(1 - x)
    BY <1>2, <1>3, <1>5, <1>6, Sides, Zenon DEF Closed
  <2>3. /\ stage[Main][c] = stage'[Main][c]
        /\ stage[Main][p] = "accepting" /\ stage'[Main][p] = "open"
    BY <1>3, <1>5
  <2>4. Before(x)' = Before(x)
    BY <1>2, <1>6, <2>3 DEF Before, Agreed, Over
  <2>5. After(x)' = After(x)
    BY <1>2, <1>6, <2>2, <2>3, Sides DEF After
  <2>6. Unwritten(x)' = Unwritten(x)
    BY <1>4, <1>6 DEF Unwritten
  <2>7. stage'[Main][x] \in Over \/ stage[Main][x] \notin Over
    BY <1>2, <2>3, Sides DEF Over
  <2>8. wire'[Main][x] = wire[Main][x] /\ sent'[x] = sent[x] /\ received'[1 - x] = received[1 - x]
    BY <1>3, <1>4
  <2> QED
    BY <1>6, <2>1, <2>4, <2>5, <2>6, <2>7, <2>8, FlowKept
<1>8. wire' \in [Proc -> [Proc -> Seq(Wired)]]
  BY <1>1, <1>3 DEF TypeOK
<1>9. \A x \in Proc : wire'[1 - Main][x] = wire[1 - Main][x]
  BY <1>3
<1>10. ConnectionComplete(Main, p)
  BY <1>3
<1> QED
  BY <1>2, <1>3, <1>7, <1>8, <1>9, <1>10, Completion

(* The acceptance of the connection that lost comes late: there is no other any more. *)
LEMMA AcceptedLate ==
  ASSUME Inv, NEW c \in Proc, c # Main, SendOpenResponseSucceeded(c), stage[c][1 - c] = "accepting"
  PROVE  Inv'
<1>1. TypeOK /\ Handshake /\ Conns /\ Other
  BY DEF Inv
<1>2. Main = 1 /\ c = 0 /\ 0 \in Proc /\ 1 \in Proc /\ 0 # None /\ 1 - c = 1
  BY Lost, Sides, NoneAssumption DEF Proc
<1>3. Late /\ conn[1] = 0 /\ stage[1][1] = "closed" /\ stage[0][1] = "accepting"
  BY <1>1, <1>2 DEF Other, Late
<1>4. SendOpenResponseSucceeded(0) /\ Peer(0) = 1
  BY <1>2 DEF Peer
<1>5. completing[1] = None /\ ConnectionComplete(0, 1) /\ UNCHANGED wire
  BY <1>3, <1>4 DEF SendOpenResponseSucceeded, Idle
<1>6. /\ chState' = [chState EXCEPT ![1] = "CONNECTED"]
      /\ completing' = [completing EXCEPT ![1] = 0]
      /\ UNCHANGED <<plan, mpi, state, conn, sendq, outstanding, deferConnect, deferWrites, writes,
                     sent, received, wire>>
      /\ Move(0, 1, "open") /\ "open" \in Stages
  BY <1>5 DEF ConnectionComplete, Stages
<1>7. /\ stage' \in [Proc -> [Proc -> Stages]] /\ stage'[0][1] = "open"
      /\ \A d, x \in Proc : d # 0 \/ x # 1 => stage'[d][x] = stage[d][x]
  BY <1>1, <1>2, <1>6, Moved, ZenonT(60)
<1>8. /\ chState' \in [Proc -> {"UNCONNECTED", "CONNECTING", "CONNECTED"}]
      /\ chState'[1] = "CONNECTED" /\ chState'[0] = chState[0]
      /\ completing' \in [Proc -> Proc \cup {None}] /\ completing'[1] = 0
      /\ completing'[0] = completing[0]
  BY <1>1, <1>2, <1>6 DEF TypeOK
<1>9. TypeOK'
  BY <1>1, <1>6, <1>7, <1>8 DEF TypeOK
<1>10. stage'[1][1] = stage[1][1] /\ stage'[1][0] = stage[1][0] /\ stage'[0][0] = stage[0][0]
  BY <1>2, <1>7
<1>11. Main' = Main
  BY <1>10 DEF Main
<1>12. Late' = Late
  BY <1>6, <1>11 DEF Late
<1>13. \A x \in Proc : stage'[Main][x] = stage[Main][x]
  BY <1>2, <1>10 DEF Proc
<1>14. \A x \in Proc : Closed(x)' <=> Closed(x)
  BY <1>11, <1>13 DEF Closed
<1>15. Handshake'
  BY <1>1, <1>2, <1>11, <1>13, <1>14, MainIs DEF Handshake
<1>16. Conns'
  BY <1>1, <1>2, <1>6, <1>10, <1>11, <1>14 DEF Conns
<1>17. Other'
  BY <1>1, <1>2, <1>3, <1>6, <1>7, <1>10, <1>11, <1>12 DEF Other
<1>18. Queue(0)' /\ Deferrals(0)' /\ Protocol(0)'
  <2>1. \A d \in Proc : stage'[d][0] = stage[d][0]
    BY <1>2, <1>7
  <2> QED
    BY <1>2, <1>6, <1>8, <1>11, <1>12, <2>1, OthersKept
<1>19. Queue(1) /\ Deferrals(1) /\ Protocol(1)
  BY <1>2 DEF Inv
<1>20. Queue(1)'
  BY <1>2, <1>3, <1>6, <1>7, <1>8, <1>10, <1>11, <1>12, <1>13, <1>14, <1>19 DEF Queue
<1>21. Deferrals(1)'
  <2>1. deferWrites[1] = 0 /\ ~deferConnect[1]
    BY <1>2, <1>3, <1>19 DEF Deferrals
  <2> QED
    BY <1>6, <1>10, <1>11, <1>19, <2>1 DEF Deferrals
<1>22. Protocol(1)'
  <2>1. ended'[1] = ended[1]
    BY <1>6 DEF ended
  <2> QED
    BY <1>2, <1>6, <1>11, <1>12, <1>13, <1>14, <1>19, <2>1 DEF Protocol
<1>23. ASSUME NEW x \in Proc
       PROVE  Flow(x)'
  <2>1. Flow(x) /\ 1 - x \in Proc
    BY Sides DEF Inv
  <2>2. Before(x)' = Before(x)
    BY <1>11, <1>13, MainIs DEF Before
  <2>3. After(x)' = After(x)
    BY <1>11, <1>13, <1>14, <2>1 DEF After
  <2>4. Unwritten(x)' = Unwritten(x)
    BY <1>6, <1>11 DEF Unwritten
  <2> QED
    BY <1>6, <1>11, <1>13, <2>1, <2>2, <2>3, <2>4, FlowKept
<1> QED
  BY <1>9, <1>15, <1>16, <1>17, <1>18, <1>20, <1>21, <1>22, <1>23 DEF Inv, Proc

(* A response that accepts is that of the main connection. *)
LEMMA ResponseStep ==
  ASSUME Inv, NEW c \in Proc, RecvOpenResponse(c), Head(wire[c][1 - c]).ack
  PROVE  Inv'
<1>1. TypeOK /\ Handshake /\ Other
  BY DEF Inv
<1>2. PICK q \in Proc : q = 1 - c /\ c = 1 - q /\ c # q /\ Peer(c) = q
  BY Sides
<1>3. /\ completing[c] = None /\ stage[c][c] = "awaiting" /\ wire[c][q] # <<>>
      /\ Head(wire[c][q]).type = "OPEN_RESP" /\ Head(wire[c][q]).ack
      /\ Take(c, c) /\ ConnectionComplete(c, c)
  BY <1>2 DEF RecvOpenResponse, Idle, Arrived
<1>4. c = Main
  <2>1. SUFFICES ASSUME c # Main PROVE FALSE
    OBVIOUS
  <2>2. Main = 1 /\ c = 0 /\ q = 1 /\ 0 \in Proc
    BY <1>2, <1>3, <2>1, Lost DEF Proc
  <2>3. stage[0][0] = "awaiting" /\ wire[0][1] # <<>> /\ Head(wire[0][1]).type = "OPEN_RESP" /\ Head(wire[0][1]).ack
    BY <1>3, <2>2
  <2>4. wire[0][1] \in Seq({OpenResp(FALSE), Fin})
    BY <1>1, <2>2, <2>3 DEF Other
  <2>5. Head(wire[0][1]) \in {OpenResp(FALSE), Fin}
    BY <2>3, <2>4, HeadFirst
  <2> QED
    BY <2>3, <2>5, WiredPackets
<1>5. /\ stage[Main][q] \in Agreed /\ Tail(wire[c][q]) = Way(q) \o After(q)
  BY <1>2, <1>3, <1>4, ResponseMeans
<1>6. /\ wire' \in [Proc -> [Proc -> Seq(Wired)]] /\ wire'[c][q] = Way(q) \o After(q)
      /\ \A d, x \in Proc : d # c \/ x = c => wire'[d][x] = wire[d][x]
  <2>1. wire[c][1 - c] # <<>> /\ Take(c, c)
    BY <1>2, <1>3
  <2>2. /\ wire' \in [Proc -> [Proc -> Seq(Wired)]]
        /\ wire'[c][1 - c] = Tail(wire[c][1 - c])
        /\ \A d, x \in Proc : d # c \/ x = c => wire'[d][x] = wire[d][x]
    BY <1>1, <2>1, TakenFrom
  <2> QED
    BY <1>2, <1>5, <2>2
<1>7. Move(c, c, "open") /\ "open" \in Stages /\ sent' = sent /\ received' = received /\ sendq' = sendq /\ writes' = writes
  BY <1>3 DEF ConnectionComplete, Stages
<1>8. /\ stage'[c][c] = "open" /\ stage'[c][q] = stage[c][q]
      /\ \A d, x \in Proc : d # c \/ x # c => stage'[d][x] = stage[d][x]
  BY <1>1, <1>2, <1>7, Moved
<1>9. Main' = Main
  <2>1. c = 1 => stage'[1][1] = "open"
    BY <1>8
  <2>2. c = 0 => stage'[1][1] = stage[1][1]
    BY <1>8 DEF Proc
  <2>3. c = 1 => stage[1][1] # "none"
    BY <1>3
  <2> QED
    BY <2>1, <2>2, <2>3 DEF Main, Proc
<1>10. /\ Before(c) = <<>> /\ Before(c)' = <<>> /\ Before(q)' = <<>>
       /\ After(c)' = After(c) /\ After(q)' = After(q)
  <2>1. Closed(c) = Closed(c)' /\ Closed(q) = Closed(q)'
    BY <1>3, <1>4, <1>8, <1>9 DEF Closed
  <2>2. Before(c) = <<>>
    BY <1>2, <1>4, <1>5 DEF Before, Agreed, Over
  <2>3. Before(c)' = <<>> /\ Before(q)' = <<>>
    BY <1>4, <1>8, <1>9 DEF Before, Requested
  <2>4. After(c)' = After(c) /\ After(q)' = After(q)
    BY <1>2, <1>3, <1>4, <1>8, <1>9, <2>1 DEF After
  <2> QED
    BY <2>2, <2>3, <2>4
<1>11. \A x \in Proc : Unwritten(x)' = Unwritten(x)
  BY <1>7, <1>9 DEF Unwritten
<1>12. Flow(c)'
  <2>1. Flow(c) /\ q \in Proc
    BY DEF Inv
  <2>2. wire'[Main][c] = wire[Main][c] /\ stage'[Main][c] \in Over
    BY <1>4, <1>6, <1>8 DEF Over
  <2>3. sent'[c] = sent[c] /\ received'[1 - c] = received[1 - c] /\ Unwritten(c)' = Unwritten(c)
    BY <1>7, <1>11
  <2> QED
    BY <1>9, <1>10, <2>1, <2>2, <2>3, FlowKept
<1>13. Flow(q)'
  <2>1. /\ Way(q) \in Seq(Packets) /\ Unwritten(q)' \in Seq(Packets) /\ received'[1 - q] \in Seq(Packets)
        /\ sent'[q] = received'[1 - q] \o (Way(q) \o Unwritten(q)')
    BY <1>7, <1>11, Known
  <2>2. (wire[Main][q])' = Before(q)' \o (Way(q) \o After(q)')
    <3>1. Way(q) \o After(q) \in Seq(Wired)
      <4>1. wire'[c][q] \in Seq(Wired)
        BY <1>6
      <4> QED
        BY <1>6, <4>1
    <3>2. <<>> \o (Way(q) \o After(q)) = Way(q) \o After(q)
      BY <3>1, Joins
    <3> QED
      BY <1>4, <1>6, <1>9, <1>10, <3>2
  <2>3. (stage[Main][q] \in Over)' \/ Way(q) = <<>>
    <3>1. Flow(q)
      BY DEF Inv
    <3> QED
      BY <1>4, <1>8, <1>9, <3>1 DEF Flow
  <2> QED
    BY <2>1, <2>2, <2>3, FlowNext
<1>14. \A x \in Proc : Flow(x)'
  BY <1>2, <1>12, <1>13, Sides
<1>15. \A x \in Proc : wire'[1 - Main][x] = wire[1 - Main][x]
  BY <1>4, <1>6, MainIs
<1>16. ConnectionComplete(Main, c) /\ stage[Main][c] = "awaiting" /\ stage[Main][1 - Main] \in Agreed
  BY <1>2, <1>3, <1>4, <1>5
<1> QED
  BY <1>2, <1>3, <1>4, <1>6, <1>14, <1>15, <1>16, Completion

(* All steps of the making of connections. *)
LEMMA ConnectStep ==
  ASSUME OneSender, Inv, NEW c \in Proc, Connect(c)
  PROVE  Inv'
<1>1. CASE ConnectSucceeded(c)
  BY <1>1, ConnectSucceededStep
<1>2. CASE SendOpenRequestSucceeded(c) \/ AcceptNewConnection(c)
  BY <1>2, QuietSteps
<1>3. CASE RecvOpenRequestData(c)
  <2>1. CASE c = Main
    <3>1. RecvOpenRequestData(Main)
      BY <1>3, <2>1
    <3> QED
      BY <3>1, MainRequestStep
  <2>2. CASE c # Main
    BY <1>3, <2>2, LostRequestStep
  <2> QED
    BY <2>1, <2>2
<1>4. CASE RecvOpenRequestFailed(c)
  BY <1>4, RecvOpenRequestFailedStep
<1>5. CASE SendOpenResponseSucceeded(c)
  <2>1. stage[c][1 - c] = "accepting" \/ stage[c][1 - c] = "rejecting"
    BY <1>5, Sides DEF SendOpenResponseSucceeded
  <2> QED
    BY <1>5, <2>1, AcceptedOnMain, AcceptedLate, Refusing
<1>6. CASE RecvOpenResponse(c)
  BY <1>6, ResponseStep, Refused
<1> QED
  BY <1>1, <1>2, <1>3, <1>4, <1>5, <1>6 DEF Connect

-----------------------------------------------------------------------------
(***************************************************************************)
(* Sending.                                                                *)
(***************************************************************************)

(* What a call of the program may find: its connection is not about to close. *)
LEMMA Calling ==
  ASSUME Inv, NEW p \in Proc, mpi[p] = "running"
  PROVE  /\ ~Closed(p) /\ stage[Main][p] \notin {"draining", "closing", "closed"}
         /\ After(p) = <<>> /\ ~(p = 1 /\ Late)
         /\ NoClose(sent[p]) /\ state[p] \in {"INACTIVE", "ACTIVE", "REMOTE_CLOSE"}
         /\ chState[p] = "CONNECTED" => conn[p] = Main /\ stage[Main][p] = "open"
         /\ state[p] = "INACTIVE" => sent[p] = <<>> /\ received[p] = <<>> /\ conn[p] = None
<1>1. TypeOK /\ Other /\ Queue(p) /\ Protocol(p)
  BY DEF Inv
<1>2. ~Closed(p)
  BY <1>1 DEF Protocol
<1>3. state[p] \in {"INACTIVE", "ACTIVE", "REMOTE_CLOSE"} /\ NoClose(sent[p])
  BY <1>1, <1>2 DEF Protocol, TypeOK
<1>4. stage[Main][p] \notin {"draining", "closing", "closed"}
  <2>1. stage[Main][p] # "closed"
    BY <1>2 DEF Closed
  <2> QED
    BY <1>1, <1>2, <1>3, <2>1 DEF Protocol
<1>5. After(p) = <<>>
  BY <1>4 DEF After
<1>6. ~(p = 1 /\ Late)
  <2>1. Late => Main = 1 /\ stage[1][1] = "closed"
    BY <1>1 DEF Other, Late
  <2> QED
    BY <1>4, <2>1
<1>7. chState[p] = "CONNECTED" => conn[p] = Main /\ stage[Main][p] = "open"
  BY <1>1, <1>4, <1>6 DEF Queue, Live
<1>8. state[p] = "INACTIVE" => sent[p] = <<>> /\ received[p] = <<>> /\ conn[p] = None
  BY <1>1, <1>2 DEF Protocol
<1> QED
  BY <1>2, <1>3, <1>4, <1>5, <1>6, <1>7, <1>8

(* A call that starts no connect leaves all but its own queue and wire alone. *)
LEMMA SendKept ==
  ASSUME Inv, NEW p \in Proc, TypeOK', NEW q \in Proc, q = 1 - p, p = 1 - q,
         UNCHANGED <<plan, chState, conn, stage, completing, received>>,
         mpi'[q] = mpi[q], state'[q] = state[q], sendq'[q] = sendq[q],
         outstanding'[q] = outstanding[q], deferConnect'[q] = deferConnect[q],
         deferWrites'[q] = deferWrites[q], sent'[q] = sent[q],
         \A d \in Proc : writes'[d][q] = writes[d][q] /\ wire'[d][q] = wire[d][q],
         wire'[1 - Main][p] = wire[1 - Main][p],
         Queue(p)', Deferrals(p)', Protocol(p)', Flow(p)'
  PROVE  Inv'
<1>1. TypeOK /\ Handshake /\ Conns /\ Other
  BY DEF Inv
<1>2. Main' = Main /\ Main \in Proc /\ 1 - Main \in Proc
  BY MainIs DEF Main
<1>3. Late' = Late /\ (\A x \in Proc : Closed(x)' = Closed(x)) /\ \A x \in Proc : x = p \/ x = q
  BY <1>2, Sides DEF Late, Closed
<1>4. Handshake' /\ Conns'
  BY <1>1, <1>2, <1>3 DEF Handshake, Conns
<1>5. \A x \in Proc : wire'[1 - Main][x] = wire[1 - Main][x]
  BY <1>2, <1>3
<1>6. Other'
  <2>1. CASE Main = 0
    <3>1. \A x \in Proc : wire'[1][x] = wire[1][x]
      BY <1>5, <2>1
    <3>2. \A x \in Proc : stage[1][x] = "none" /\ wire[1][x] = <<>>
      BY <1>1, <2>1 DEF Other
    <3>3. \A x \in Proc : stage'[1][x] = "none" /\ wire'[1][x] = <<>>
      BY <3>1, <3>2
    <3>4. Main' = 0
      BY <1>2, <2>1
    <3> QED
      BY <3>3, <3>4 DEF Other
  <2>2. CASE Main = 1
    <3>1. wire'[0][0] = wire[0][0] /\ wire'[0][1] = wire[0][1]
      BY <1>5, <2>2 DEF Proc
    <3> QED
      BY <1>1, <1>2, <1>3, <2>2, <3>1 DEF Other
  <2> QED
    BY <2>1, <2>2, MainIs
<1>7. Queue(q)' /\ Deferrals(q)' /\ Protocol(q)'
  BY <1>2, <1>3, OthersKept
<1>8. Flow(q)'
  <2>1. Flow(q)
    BY DEF Inv
  <2>2. Before(q)' = Before(q) /\ After(q)' = After(q)
    BY <1>2, <1>3 DEF Before, After
  <2>3. Unwritten(q)' = Unwritten(q)
    BY <1>2 DEF Unwritten
  <2> QED
    BY <1>2, <2>1, <2>2, <2>3, FlowKept
<1> QED
  BY <1>3, <1>4, <1>6, <1>7, <1>8 DEF Inv

(* The sockets of a connect that starts: nothing of the main connection is *)
(* agreed, and the connect of process 1 makes its own the main one.        *)
LEMMA Starting ==
  ASSUME Inv, NEW p \in Proc, StartConnect(p), ~Closed(p), wire' = wire
  PROVE  /\ Handshake' /\ Conns' /\ Other'
         /\ \A x \in Proc : /\ stage[Main][x] \notin Over /\ (stage[Main][x] \notin Over)'
                            /\ (wire[Main][x])' = Before(x)'
         /\ Main' \in Proc
<1>1. TypeOK /\ Handshake /\ Conns /\ Other
  BY DEF Inv
<1>2. /\ conn[p] = None /\ stage' = [stage EXCEPT ![p][p] = "connecting"]
      /\ conn' = [conn EXCEPT ![p] = p]
  BY DEF StartConnect, Move
<1>3. 0 \in Proc /\ 1 \in Proc /\ 0 # None /\ 1 # None /\ \A x \in Proc : x = 0 \/ x = 1
  BY NoneAssumption DEF Proc
<1>4. /\ stage'[p][p] = "connecting"
      /\ \A d, x \in Proc : d # p \/ x # p => stage'[d][x] = stage[d][x]
      /\ conn'[p] = p /\ \A x \in Proc : x # p => conn'[x] = conn[x]
  BY <1>1, <1>2 DEF TypeOK
<1>5. stage[Main][p] \notin Over
  BY <1>1, <1>2, MainIs, Sides DEF Conns, Closed, Over, Live
<1>6. stage[Main][1 - p] \notin Over
  <2>1. CASE p = Main
    BY <1>1, <1>2, <1>5, <2>1, MainIs, Sides DEF Handshake, Conns, Agreed, Over, Live
  <2>2. CASE p = 1 - Main
    <3>1. stage[Main][p] \notin Agreed
      BY <1>1, <1>2, <1>5, <2>2, MainIs, Sides DEF Conns, Agreed
    <3> QED
      BY <1>1, <2>2, <3>1, MainIs DEF Handshake
  <2> QED
    BY <2>1, <2>2, MainIs
<1>7. \A x \in Proc : stage[Main][x] \notin Over /\ Way(x) = <<>> /\ After(x) = <<>> /\ wire[Main][x] = Before(x)
  <2>1. \A x \in Proc : stage[Main][x] \notin Over
    BY <1>5, <1>6, Sides
  <2>2. ASSUME NEW x \in Proc
        PROVE  Way(x) = <<>> /\ After(x) = <<>> /\ wire[Main][x] = Before(x)
    <3>1. Way(x) = <<>>
      BY <2>1 DEF Inv, Flow
    <3>2. After(x) = <<>>
      BY <2>1 DEF After, Over
    <3>3. wire[Main][x] = Before(x) \o (<<>> \o <<>>) /\ Before(x) \in Seq(Wired)
      BY <3>1, <3>2, Known, Around
    <3>4. Before(x) \o (<<>> \o <<>>) = Before(x)
      BY <3>3, Joins
    <3> QED
      BY <3>1, <3>2, <3>3, <3>4
  <2> QED
    BY <2>1, <2>2
<1>8. CASE Main = 0 /\ p = 0
  <2>1. Main' = 0 /\ stage[0][0] = "none" /\ stage[0][1] = "none" /\ stage'[0][0] = "connecting" /\ stage'[0][1] = "none"
    BY <1>1, <1>2, <1>3, <1>4, <1>7, <1>8, MainIs DEF Handshake, Conns, Main, Asking
  <2>2. \A x \in Proc : stage'[1][x] = stage[1][x]
    BY <1>3, <1>4, <1>8
  <2>3. Handshake'
    BY <1>3, <2>1 DEF Handshake, Asking, Over, Agreed, Requested, Closed
  <2>4. Conns'
    BY <1>1, <1>3, <1>4, <1>8, <2>1 DEF Conns, Asking, Live, Closed
  <2>5. Other'
    BY <1>1, <1>8, <2>1, <2>2 DEF Other
  <2>6. \A x \in Proc : Before(x) = <<>> /\ Before(x)' = <<>>
    BY <1>8, <2>1 DEF Before, Requested
  <2> QED
    BY <1>3, <1>7, <1>8, <2>1, <2>3, <2>4, <2>5, <2>6 DEF Over
<1>9. CASE Main = 0 /\ p = 1
  <2>1. Main' = 1 /\ stage'[1][1] = "connecting" /\ stage'[1][0] = "none" /\ wire[1][0] = <<>> /\ wire[1][1] = <<>>
        /\ stage[1][1] = "none"
    BY <1>1, <1>3, <1>4, <1>9 DEF Main, Other
  <2>2. stage'[0][0] = stage[0][0] /\ stage'[0][1] = stage[0][1]
    BY <1>3, <1>4, <1>9
  <2>3. stage[0][0] \in {"none"} \cup Asking /\ stage[0][1] \in {"none", "accepted"}
    BY <1>1, <1>2, <1>3, <1>7, <1>9 DEF Handshake, Conns, Agreed
  <2>4. Handshake'
    BY <1>3, <2>1 DEF Handshake, Asking, Over, Agreed, Requested, Closed
  <2>5. conn'[1] = 1 /\ conn'[0] = conn[0] /\ conn[0] = (IF stage[0][0] = "none" THEN None ELSE 0)
    BY <1>1, <1>3, <1>4, <1>9, <2>3 DEF Conns
  <2>6. Conns'
    BY <1>3, <2>1, <2>2, <2>5 DEF Conns, Asking, Live, Closed
  <2>7. /\ wire[0][0] = Before(0) /\ wire[0][1] = Before(1)
        /\ Before(0) \in {<<>>, <<OpenReq>>} /\ Before(1) = <<>>
        /\ stage[0][0] = "none" => Before(0) = <<>>
    <3>1. wire[0][0] = Before(0) /\ wire[0][1] = Before(1)
      BY <1>3, <1>7, <1>9
    <3>2. Before(0) \in {<<>>, <<OpenReq>>} /\ Before(1) = <<>>
      BY <1>9, <2>3 DEF Before, Agreed, Over
    <3>3. stage[0][0] = "none" => Before(0) = <<>>
      BY <1>9 DEF Before, Requested
    <3> QED
      BY <3>1, <3>2, <3>3
  <2>8. wire[0][0] \in Seq({OpenReq, Fin}) /\ wire[0][1] = <<>>
    <3>1. <<OpenReq>> \in Seq({OpenReq, Fin})
      BY One
    <3>2. <<>> \in Seq({OpenReq, Fin})
      OBVIOUS
    <3> QED
      BY <2>7, <3>1, <3>2
  <2>9. stage[0][0] = "none" => stage[0][1] = "none"
    BY <1>1, <1>9 DEF Handshake
  <2>10. Late' = FALSE /\ <<>> \in Seq({OpenResp(FALSE), Fin}) /\ <<>> \in Seq({OpenResp(TRUE), OpenResp(FALSE), Fin})
    BY <2>5 DEF Late
  <2>11. Other'
    BY <1>3, <2>1, <2>2, <2>3, <2>5, <2>7, <2>8, <2>9, <2>10, Zenon DEF Other, Asking
  <2>12. \A x \in Proc : (wire[Main][x])' = <<>> /\ Before(x)' = <<>> /\ (stage[Main][x] \notin Over)'
    BY <1>3, <2>1 DEF Before, Requested, Over
  <2> QED
    BY <1>3, <1>7, <2>1, <2>4, <2>6, <2>11, <2>12
<1>10. CASE Main = 1 /\ p = 0
  <2>1. /\ Main' = 1 /\ stage'[1][1] = stage[1][1] /\ stage'[1][0] = stage[1][0]
        /\ stage'[0][1] = stage[0][1] /\ stage'[0][0] = "connecting"
        /\ conn'[0] = 0 /\ conn'[1] = conn[1]
    BY <1>3, <1>4, <1>10, MainIs DEF Main
  <2>2. /\ stage[0][0] = "none" /\ stage[0][1] = "none" /\ wire[0][0] = <<>> /\ wire[0][1] = <<>>
        /\ stage[1][0] \in {"none", "accepted"} /\ stage[1][1] \in Asking
    BY <1>1, <1>2, <1>3, <1>7, <1>10, MainIs DEF Other, Handshake, Conns, Agreed, Over
  <2>3. \A x \in Proc : stage'[1][x] = stage[1][x] /\ (Closed(x)' <=> Closed(x))
    BY <1>3, <1>10, <2>1 DEF Closed
  <2>4. Handshake'
    BY <1>1, <1>3, <1>10, <2>1, <2>3 DEF Handshake
  <2>5. Conns'
    BY <1>1, <1>3, <1>10, <2>1, <2>2, <2>3 DEF Conns, Asking, Live, Closed
  <2>6. /\ Late' = Late /\ <<>> \in Seq({OpenResp(FALSE), Fin}) /\ <<>> \in Seq({OpenReq, Fin})
        /\ <<>> \in Seq({OpenResp(TRUE), OpenResp(FALSE), Fin})
    BY <1>10, <2>1 DEF Late
  <2>7. Other'
    BY <1>1, <1>3, <1>10, <2>1, <2>2, <2>6 DEF Other, Asking
  <2>8. \A x \in Proc : Before(x)' = Before(x)
    BY <1>10, <2>1 DEF Before
  <2> QED
    BY <1>3, <1>7, <1>10, <2>1, <2>3, <2>4, <2>5, <2>7, <2>8
<1>11. ~(Main = 1 /\ p = 1)
  BY <1>1, <1>2, <1>3, <1>7, MainIs DEF Handshake, Conns
<1> QED
  BY <1>3, <1>8, <1>9, <1>10, <1>11, MainIs

(* A connect starts, under a packet that is sent or one that is in the queue. *)
LEMMA Started ==
  ASSUME Inv, NEW p \in Proc, NEW q \in Proc, q = 1 - p, p = 1 - q, p # q, TypeOK',
         StartConnect(p), ~Closed(p),
         UNCHANGED <<plan, completing, deferWrites, received, wire, writes>>,
         mpi'[q] = mpi[q], state'[q] = state[q], sendq'[q] = sendq[q],
         outstanding'[q] = outstanding[q], deferConnect'[q] = deferConnect[q], sent'[q] = sent[q],
         NEW x \in Seq(Packets), sent'[p] = sent[p] \o x, sendq'[p] = sendq[p] \o x,
         sendq'[p] # <<>>, ~deferConnect'[p], plan.threads => plan.messages[p + 1] # 0,
         (stage[Main][p] \notin Over)' => Protocol(p)'
  PROVE  Inv'
<1>1. TypeOK /\ \A y \in Proc : Queue(y) /\ Deferrals(y) /\ Protocol(y)
  BY DEF Inv
<1>2. /\ Handshake' /\ Conns' /\ Other' /\ Main' \in Proc
      /\ \A y \in Proc : /\ stage[Main][y] \notin Over /\ (stage[Main][y] \notin Over)'
                         /\ (wire[Main][y])' = Before(y)'
  BY Starting
<1>3. /\ stage'[p][p] = "connecting"
      /\ \A d, y \in Proc : d # p \/ y # p => stage'[d][y] = stage[d][y]
      /\ conn'[p] = p /\ conn'[q] = conn[q] /\ conn[p] = None
      /\ chState'[p] = "CONNECTING" /\ chState'[q] = chState[q]
  BY <1>1 DEF StartConnect, Move, TypeOK
<1>4. \A y \in Proc : y = p \/ y = q
  BY Sides
<1>5. ~Late
  <2>1. Other /\ (Late => stage[Main][1] = "closed")
    BY DEF Inv, Other, Late
  <2>2. 1 \in Proc
    BY DEF Proc
  <2> QED
    BY <1>2, <2>1, <2>2 DEF Over
<1>6. \A y \in Proc : /\ chState[y] # "CONNECTED" /\ completing[y] = None /\ deferWrites[y] = 0
                      /\ \A d \in Proc : writes[d][y] = 0
  <2>1. ASSUME NEW y \in Proc
        PROVE  /\ chState[y] # "CONNECTED" /\ completing[y] = None /\ deferWrites[y] = 0
               /\ writes[Main][y] = 0 /\ writes[1 - Main][y] = 0
    <3>1. Queue(y) /\ Deferrals(y) /\ stage[Main][y] \notin Over
      BY <1>1, <1>2
    <3>2. chState[y] # "CONNECTED"
      BY <1>5, <3>1 DEF Queue, Live, Over
    <3>3. completing[y] = None
      BY <3>1, <3>2 DEF Queue
    <3>4. writes[Main][y] = 0 /\ writes[1 - Main][y] = 0
      BY <3>1 DEF Queue, Over
    <3>5. deferWrites[y] = 0
      BY <3>1 DEF Deferrals, Over
    <3> QED
      BY <3>2, <3>3, <3>4, <3>5
  <2>2. \A d \in Proc : d = Main \/ d = 1 - Main
    BY MainIs
  <2> QED
    BY <2>1, <2>2, ZenonT(60)
<1>7. \A y \in Proc : /\ ~Closed(y) /\ ~Closed(y)'
  BY <1>2 DEF Closed, Over
<1>8. /\ completing' = completing /\ deferWrites' = deferWrites /\ plan' = plan /\ wire' = wire
      /\ writes' = writes /\ received' = received
  OBVIOUS
<1>9. \A y \in Proc : writes'[Main'][y] = 0 /\ writes'[1 - Main'][y] = 0
  <2>1. 1 - Main' \in Proc
    BY <1>2, Sides
  <2> QED
    BY <1>2, <1>6, <1>8, <2>1
<1>10. Queue(q)'
  <2>1. stage'[q][q] = stage[q][q]
    BY <1>3
  <2>2. /\ chState'[q] = chState[q] /\ conn'[q] = conn[q] /\ completing'[q] = None /\ sendq'[q] = sendq[q]
        /\ state'[q] = state[q] /\ chState[q] # "CONNECTED"
    BY <1>3, <1>6, <1>8
  <2>3. /\ conn[q] = None <=> chState[q] = "UNCONNECTED"
        /\ conn[q] = q /\ stage[q][q] \notin Over => sendq[q] # <<>>
        /\ conn[q] = None /\ ~Closed(q) /\ state[q] # "INACTIVE" => sendq[q] # <<>>
    BY <1>1 DEF Queue
  <2> QED
    BY <1>2, <1>7, <1>9, <2>1, <2>2, <2>3 DEF Queue, Over
<1>11. Queue(p)'
  <2>1. p # None
    BY Sides
  <2>2. completing'[p] = None
    BY <1>6, <1>8
  <2> QED
    BY <1>2, <1>3, <1>9, <2>1, <2>2 DEF Queue, Over
<1>12. Deferrals(q)'
  <2>1. stage'[q][q] = stage[q][q] /\ deferWrites'[q] = 0 /\ conn'[q] = conn[q] /\ sendq'[q] = sendq[q]
        /\ deferConnect'[q] = deferConnect[q] /\ state'[q] = state[q]
    BY <1>3, <1>6, <1>8
  <2>2. /\ plan.threads /\ plan.messages[q + 1] = 0 => stage[q][q] = "none" /\ ~deferConnect[q]
        /\ deferConnect[q] => plan.threads /\ conn[q] = None /\ sendq[q] # <<>> /\ state[q] # "INACTIVE"
    BY <1>1 DEF Deferrals
  <2> QED
    BY <1>7, <1>8, <2>1, <2>2 DEF Deferrals
<1>13. Deferrals(p)'
  <2>1. deferWrites'[p] = 0
    BY <1>6, <1>8
  <2> QED
    BY <1>8, <2>1 DEF Deferrals
<1>14. Protocol(q)'
  <2>1. /\ mpi'[q] = mpi[q] /\ sent'[q] = sent[q] /\ received'[q] = received[q] /\ conn'[q] = conn[q]
        /\ outstanding'[q] = outstanding[q] /\ state'[q] = state[q]
    BY <1>3
  <2>2. ended[q] <=> mpi[q] # "running" /\ outstanding[q] = 0 /\ sent[q] # <<>>
    BY DEF ended
  <2>3. ended'[q] <=> mpi'[q] # "running" /\ outstanding'[q] = 0 /\ sent'[q] # <<>>
    BY DEF ended
  <2>4. stage[Main][q] \notin {"draining", "closing"} /\ (stage[Main][q] \notin {"draining", "closing"})'
    BY <1>2 DEF Over
  <2>5. Protocol(q) /\ ~Closed(q) /\ ~Closed(q)'
    BY <1>1, <1>7
  <2> QED
    BY <2>1, <2>2, <2>3, <2>4, <2>5 DEF Protocol
<1>15. ASSUME NEW y \in Proc, NEW z \in Seq(Packets),
              sent'[y] = sent[y] \o z, sendq'[y] = sendq[y] \o z
       PROVE  Flow(y)'
  <2>1. Way(y) = <<>> /\ Unwritten(y) = sendq[y]
    <3>1. Way(y) = <<>>
      BY <1>2 DEF Inv, Flow
    <3>2. writes[Main][y] = 0
      BY <1>6, MainIs
    <3> QED
      BY <3>1, <3>2 DEF Unwritten
  <2>2. Unwritten(y)' = sendq'[y]
    BY <1>9 DEF Unwritten
  <2>3. After(y)' = <<>>
    BY <1>2 DEF After, Over
  <2>4. /\ received[1 - y] \in Seq(Packets) /\ sendq[y] \in Seq(Packets) /\ sendq[y] \o z \in Seq(Packets)
        /\ sent[y] = received[1 - y] \o (<<>> \o sendq[y])
    <3>1. /\ received[1 - y] \in Seq(Packets) /\ sendq[y] \in Seq(Packets)
          /\ sent[y] = received[1 - y] \o (Way(y) \o Unwritten(y))
      BY Known
    <3>2. sendq[y] \o z \in Seq(Packets)
      BY <1>15, <3>1, Joins
    <3> QED
      BY <2>1, <3>1, <3>2
  <2>5. sent'[y] = received'[1 - y] \o (<<>> \o Unwritten(y)')
    <3>1. <<>> \o sendq[y] = sendq[y] /\ <<>> \o (sendq[y] \o z) = sendq[y] \o z
      BY <2>4, PacketsEmpty
    <3>2. (received[1 - y] \o sendq[y]) \o z = received[1 - y] \o (sendq[y] \o z)
      BY <1>15, <2>4, PacketsJoin
    <3> QED
      BY <1>8, <1>15, <2>2, <2>4, <3>1, <3>2
  <2>6. (wire[Main][y])' = Before(y)' \o (<<>> \o After(y)')
    <3>1. Before(y)' \in Seq(Wired)
      <4>1. wire'[Main'][y] \in Seq(Wired)
        BY <1>2 DEF TypeOK
      <4> QED
        BY <1>2, <4>1
    <3>2. Before(y)' \o (<<>> \o <<>>) = Before(y)'
      BY <3>1, Joins
    <3> QED
      BY <1>2, <2>3, <3>2
  <2>7. /\ <<>> \in Seq(Packets) /\ received'[1 - y] \in Seq(Packets) /\ Unwritten(y)' \in Seq(Packets)
    BY <1>8, <1>15, <2>2, <2>4
  <2> QED
    BY <2>5, <2>6, <2>7, FlowNext
<1>16. Flow(p)'
  BY <1>15
<1>17. Flow(q)'
  <2>1. sent[q] \o <<>> = sent[q] /\ sendq[q] \o <<>> = sendq[q] /\ <<>> \in Seq(Packets)
    BY Known, Joins
  <2> QED
    BY <1>15, <2>1
<1>18. Protocol(p)'
  BY <1>2
<1> QED
  BY <1>2, <1>4, <1>10, <1>11, <1>12, <1>13, <1>14, <1>16, <1>17, <1>18 DEF Inv

(* The progress engine starts the connect that was left to it. *)
LEMMA ConnectDeferredStep ==
  ASSUME Inv, NEW p \in Proc, ConnectDeferred(p)
  PROVE  Inv'
<1>1. TypeOK /\ Queue(p) /\ Deferrals(p) /\ Protocol(p)
  BY DEF Inv
<1>2. PICK q \in Proc : q = 1 - p /\ p = 1 - q /\ p # q
  BY Sides
<1>3. /\ deferConnect[p] /\ deferConnect' = [deferConnect EXCEPT ![p] = FALSE]
      /\ UNCHANGED <<plan, mpi, state, sendq, outstanding, completing, deferWrites, writes, wire,
                     sent, received>>
  BY DEF ConnectDeferred
<1>4. plan.threads /\ conn[p] = None /\ sendq[p] # <<>> /\ ~Closed(p) /\ state[p] # "INACTIVE"
  BY <1>1, <1>3 DEF Deferrals
<1>5. StartConnect(p)
  BY <1>1, <1>4 DEF ConnectDeferred, Queue
<1>6. TypeOK'
  <2>1. /\ stage' \in [Proc -> [Proc -> Stages]]
        /\ conn' \in [Proc -> Proc \cup {None}]
        /\ chState' \in [Proc -> {"UNCONNECTED", "CONNECTING", "CONNECTED"}]
        /\ deferConnect' \in [Proc -> BOOLEAN]
    BY <1>1, <1>3, <1>5 DEF StartConnect, Move, TypeOK, Stages
  <2> QED
    BY <1>1, <1>3, <2>1 DEF TypeOK
<1>7. deferConnect'[p] = FALSE /\ deferConnect'[q] = deferConnect[q]
  BY <1>1, <1>2, <1>3 DEF TypeOK
<1>8. sent[p] \o <<>> = sent[p] /\ sendq[p] \o <<>> = sendq[p] /\ <<>> \in Seq(Packets)
  BY Known, Joins
<1>9. plan.threads => plan.messages[p + 1] # 0
  BY <1>1, <1>3 DEF Deferrals
<1>10. (stage[Main][p] \notin Over)' => Protocol(p)'
  <2>1. SUFFICES ASSUME (stage[Main][p] \notin Over)' PROVE Protocol(p)'
    OBVIOUS
  <2>2. ~Closed(p)' /\ (stage[Main][p] \notin {"draining", "closing"})'
    BY <2>1 DEF Closed, Over
  <2>3. ended'[p] = ended[p]
    BY <1>3 DEF ended
  <2>4. stage[Main][p] \notin {"draining", "closing"}
    BY <1>3, <1>4, <1>5, Starting DEF Over
  <2> QED
    BY <1>1, <1>3, <1>4, <2>2, <2>3, <2>4 DEF Protocol
<1> QED
  BY <1>2, <1>3, <1>4, <1>5, <1>6, <1>7, <1>8, <1>9, <1>10, Started

(* A packet that a call leaves in the queue. *)
LEMMA Queued ==
  ASSUME Inv, NEW p \in Proc, NEW q \in Proc, q = 1 - p, p = 1 - q, p # q, NEW m \in Packets,
         mpi[p] = "running", TypeOK', sent' = [sent EXCEPT ![p] = Append(@, m)],
         sendq' = [sendq EXCEPT ![p] = Append(@, m)],
         UNCHANGED <<plan, chState, conn, stage, completing, received, writes, wire>>,
         mpi'[q] = mpi[q], state'[q] = state[q], outstanding'[q] = outstanding[q],
         deferConnect'[q] = deferConnect[q], deferWrites'[q] = deferWrites[q],
         state'[p] # "INACTIVE", Deferrals(p)', Protocol(p)'
  PROVE  Inv'
<1>1. TypeOK /\ Queue(p)
  BY DEF Inv
<1>2. /\ sendq[p] \in Seq(Packets) /\ sent[p] \in Seq(Packets)
      /\ sendq'[p] = Append(sendq[p], m) /\ sendq'[q] = sendq[q]
      /\ sent'[p] = Append(sent[p], m) /\ sent'[q] = sent[q]
  BY <1>1, ZenonT(60) DEF TypeOK
<1>3. /\ Append(sendq[p], m) \in Seq(Packets) /\ Append(sendq[p], m) = sendq[p] \o <<m>>
      /\ Append(sendq[p], m) # <<>> /\ Append(sent[p], m) = sent[p] \o <<m>>
      /\ <<m>> \in Seq(Packets) /\ <<>> \in Seq(Packets)
  BY <1>2, AppendJoined, One, SMTT(60)
<1>4. Main' = Main
  BY DEF Main
<1>5. After(p) = <<>> /\ After(p)' = <<>> /\ Before(p)' = Before(p)
  <2>1. After(p) = <<>>
    BY Calling
  <2>2. After(p)' = After(p) /\ Before(p)' = Before(p)
    BY <1>4 DEF After, Before, Closed
  <2> QED
    BY <2>1, <2>2
<1>6. /\ Unwritten(p) \o <<m>> = <<>> \o Unwritten(p)' /\ Unwritten(p)' \in Seq(Packets)
  <2>1. CASE writes[Main][p] = 0
    <3>1. Unwritten(p) = sendq[p] /\ Unwritten(p)' = Append(sendq[p], m)
      BY <1>2, <1>4, <2>1 DEF Unwritten
    <3>2. <<>> \o Append(sendq[p], m) = Append(sendq[p], m)
      BY <1>3, PacketsEmpty
    <3> QED
      BY <1>3, <3>1, <3>2
  <2>2. CASE writes[Main][p] # 0
    <3>1. sendq[p] # <<>>
      BY <1>1, <2>2 DEF Queue
    <3>2. Tail(sendq[p] \o <<m>>) = Tail(sendq[p]) \o <<m>> /\ Tail(sendq[p]) \in Seq(Packets)
      <4>1. sendq[p] \in Seq(Packets) /\ <<m>> \in Seq(Packets)
        BY <1>2, <1>3
      <4>2. Tail(sendq[p] \o <<m>>) = Tail(sendq[p]) \o <<m>>
        BY <3>1, <4>1, HeadJoined
      <4>3. Tail(sendq[p]) \in Seq(Packets)
        BY <3>1, <4>1, HeadFirst
      <4> QED
        BY <4>2, <4>3
    <3>3. Unwritten(p) = Tail(sendq[p]) /\ Unwritten(p)' = Tail(Append(sendq[p], m))
      BY <1>2, <1>4, <2>2 DEF Unwritten
    <3>4. Tail(sendq[p]) \o <<m>> \in Seq(Packets)
      BY <1>3, <3>2, Joins
    <3>5. <<>> \o (Tail(sendq[p]) \o <<m>>) = Tail(sendq[p]) \o <<m>>
      BY <3>4, PacketsEmpty, SMTT(60)
    <3> QED
      BY <1>3, <3>2, <3>3, <3>4, <3>5
  <2> QED
    BY <2>1, <2>2
<1>7. Flow(p)'
  <2>1. wire'[Main][p] = wire[Main][p] \o (<<>> \o After(p)')
    <3>1. wire[Main][p] \in Seq(Wired)
      BY Known
    <3>2. wire[Main][p] \o (<<>> \o <<>>) = wire[Main][p]
      BY <3>1, Joins
    <3> QED
      BY <1>5, <3>2
  <2>2. sent'[p] = sent[p] \o <<m>> /\ received'[1 - p] = received[1 - p]
    BY <1>2, <1>3
  <2>3. stage'[Main][p] \in Over \/ stage[Main][p] \notin Over
    OBVIOUS
  <2> QED
    BY <1>3, <1>4, <1>5, <1>6, <2>1, <2>2, <2>3, FlowWrite
<1>8. Queue(p)'
  <2>1. stage[Main][p] \notin {"closing", "closed"} /\ ~(p = 1 /\ Late)
    BY Calling
  <2>2. sendq'[p] # <<>>
    BY <1>2, <1>3
  <2> QED
    BY <1>1, <1>4, <2>1, <2>2 DEF Queue
<1>9. \A d \in Proc : writes'[d][q] = writes[d][q] /\ wire'[d][q] = wire[d][q]
  OBVIOUS
<1> QED
  BY <1>2, <1>7, <1>8, <1>9, SendKept

(* A packet that a call writes, whole or in part. *)
LEMMA Written ==
  ASSUME Inv, NEW p \in Proc, NEW q \in Proc, q = 1 - p, p = 1 - q, p # q, NEW m \in Packets,
         NEW way \in {"whole", "part"}, mpi[p] = "running", TypeOK',
         sendq[p] = <<>>, completing[p] = None, stage[Main][p] = "open", conn[p] = Main,
         sent' = [sent EXCEPT ![p] = Append(@, m)], SendConnected(p, m, way),
         UNCHANGED <<plan, completing, received>>,
         mpi'[q] = mpi[q], state'[q] = state[q], outstanding'[q] = outstanding[q],
         Protocol(p)'
  PROVE  Inv'
<1>1. TypeOK /\ Queue(p) /\ Deferrals(p)
  BY DEF Inv
<1>2. /\ Put(Main, p, <<m>>)
      /\ sendq' = [sendq EXCEPT ![p] = IF way = "whole" THEN @ ELSE Append(@, m)]
      /\ writes' = [writes EXCEPT ![Main][p] = IF way = "part" THEN @ + 1 ELSE @]
      /\ deferWrites' = [deferWrites EXCEPT ![p] = @]
      /\ UNCHANGED <<chState, conn, deferConnect, stage>>
  BY DEF SendConnected
<1>3. /\ Main' = Main /\ Main \in Proc /\ 1 - Main \in Proc /\ 1 - Main # Main /\ Main # None
  BY <1>2, MainIs, Sides DEF Main
<1>4. writes[Main][p] = 0 /\ writes[1 - Main][p] = 0 /\ deferWrites[p] = 0
  BY <1>1 DEF Queue, Deferrals
<1>5. PICK n \in {0, 1} : n = IF way = "part" THEN 1 ELSE 0
  OBVIOUS
<1>6. writes' = [writes EXCEPT ![Main][p] = n]
  BY <1>1, <1>2, <1>3, <1>4, <1>5 DEF TypeOK
<1>7. /\ writes'[Main][p] = n
      /\ \A d, x \in Proc : d # Main \/ x # p => writes'[d][x] = writes[d][x]
  BY <1>1, <1>3, <1>6 DEF TypeOK
<1>8. deferWrites' = deferWrites
  BY <1>1, <1>2 DEF TypeOK
<1>9. <<m>> \in Seq(Packets) /\ <<m>> \in Seq(Wired) /\ <<m>> # <<>> /\ <<>> \in Seq(Packets)
      /\ sent[p] \in Seq(Packets) /\ Append(sent[p], m) = sent[p] \o <<m>>
  <2>1. sent[p] \in Seq(Packets)
    BY <1>1 DEF TypeOK
  <2>2. <<m>> \in Seq(Packets) /\ <<m>> # <<>>
    BY One
  <2>3. <<m>> \in Seq(Wired)
    BY <2>2, WiredPackets
  <2>4. Append(sent[p], m) = sent[p] \o <<m>>
    BY <2>1, AppendJoined
  <2> QED
    BY <2>1, <2>2, <2>3, <2>4
<1>10. /\ wire'[Main][p] = wire[Main][p] \o <<m>>
       /\ \A d, x \in Proc : d # Main \/ x # p => wire'[d][x] = wire[d][x]
  BY <1>1, <1>2, <1>3, <1>9, PutOn, ZenonT(60)
<1>11. /\ sendq'[p] = (IF way = "whole" THEN <<>> ELSE <<m>>) /\ sendq'[q] = sendq[q]
       /\ sent'[p] = sent[p] \o <<m>> /\ sent'[q] = sent[q]
  <2>1. \A x : Append(<<>>, x) = <<x>>
    OBVIOUS
  <2>2. sent'[p] = Append(sent[p], m) /\ sent'[q] = sent[q]
    BY <1>1 DEF TypeOK
  <2>3. sendq'[p] = (IF way = "whole" THEN <<>> ELSE Append(<<>>, m)) /\ sendq'[q] = sendq[q]
    BY <1>1, <1>2 DEF TypeOK
  <2> QED
    BY <1>9, <2>1, <2>2, <2>3
<1>12. After(p) = <<>> /\ After(p)' = <<>> /\ Before(p)' = Before(p)
  <2>1. After(p) = <<>>
    BY Calling
  <2>2. After(p)' = After(p) /\ Before(p)' = Before(p)
    BY <1>2, <1>3 DEF After, Before, Closed
  <2> QED
    BY <2>1, <2>2
<1>13. Unwritten(p) = <<>> /\ Unwritten(p)' = <<>>
  <2>1. Unwritten(p) = <<>>
    BY <1>4 DEF Unwritten
  <2>2. Unwritten(p)' = (IF n = 0 THEN sendq'[p] ELSE Tail(sendq'[p]))
    BY <1>3, <1>7 DEF Unwritten
  <2>3. Tail(<<m>>) = <<>>
    OBVIOUS
  <2> QED
    BY <1>5, <1>11, <2>1, <2>2, <2>3
<1>14. Flow(p)'
  <2>1. wire'[Main][p] = wire[Main][p] \o (<<m>> \o After(p)')
    <3>1. <<m>> \o <<>> = <<m>>
      BY <1>9, Joins
    <3> QED
      BY <1>10, <1>12, <3>1
  <2>2. Unwritten(p) \o <<m>> = <<m>> \o Unwritten(p)' /\ Unwritten(p)' \in Seq(Packets)
    <3>1. <<>> \o <<m>> = <<m>> /\ <<m>> \o <<>> = <<m>>
      BY <1>9, Joins
    <3> QED
      BY <1>9, <1>13, <3>1
  <2>3. stage'[Main][p] \in Over /\ received'[1 - p] = received[1 - p]
    BY <1>2 DEF Over
  <2> QED
    BY <1>3, <1>9, <1>11, <1>12, <2>1, <2>2, <2>3, FlowWrite
<1>15. Queue(p)'
  <2>1. writes'[1 - Main][p] = 0
    BY <1>3, <1>4, <1>7
  <2>2. n = 1 => sendq'[p] # <<>>
    BY <1>5, <1>9, <1>11
  <2>3. stage'[Main][p] = "open" /\ conn'[p] = Main /\ completing'[p] = None /\ chState'[p] = chState[p]
    BY <1>2
  <2>4. conn[p] = None <=> chState[p] = "UNCONNECTED"
    BY <1>1 DEF Queue
  <2> QED
    BY <1>2, <1>3, <1>7, <2>1, <2>2, <2>3, <2>4 DEF Queue, Live, Over
<1>16. Deferrals(p)'
  <2>1. ~deferConnect[p]
    BY <1>1, <1>3 DEF Deferrals
  <2> QED
    BY <1>1, <1>2, <1>3, <1>4, <1>8, <2>1 DEF Deferrals
<1>17. \A d \in Proc : writes'[d][q] = writes[d][q] /\ wire'[d][q] = wire[d][q]
  BY <1>7, <1>10
<1>18. wire'[1 - Main][p] = wire[1 - Main][p]
  BY <1>3, <1>10
<1>19. deferConnect'[q] = deferConnect[q] /\ deferWrites'[q] = deferWrites[q]
  BY <1>2, <1>8
<1> QED
  BY <1>2, <1>11, <1>14, <1>15, <1>16, <1>17, <1>18, <1>19, SendKept

(* MPIDI_CH3_SendRequest, in a call that says how it leaves the protocol. *)
LEMMA SendRequestStep ==
  ASSUME OneSender, Inv, NEW p \in Proc, NEW m \in Packets, NEW alone \in BOOLEAN,
         SendRequest(p, m, alone), mpi[p] = "running",
         UNCHANGED <<plan, completing, received>>,
         mpi' \in [Proc -> {"running", "finalizing", "finalized"}],
         state' \in [Proc -> {"INACTIVE", "ACTIVE", "LOCAL_CLOSE", "REMOTE_CLOSE", "CLOSE_ACKED"}],
         outstanding' \in [Proc -> {0, 1}],
         \A x \in Proc : x # p => mpi'[x] = mpi[x] /\ state'[x] = state[x] /\ outstanding'[x] = outstanding[x],
         state'[p] # "INACTIVE", alone => state[p] # "INACTIVE",
         plan.threads /\ ~alone => plan.messages[p + 1] # 0,
         (stage[Main][p] \notin {"draining", "closing", "closed"})' => Protocol(p)'
  PROVE  Inv'
<1>1. TypeOK /\ Queue(p) /\ Deferrals(p) /\ Protocol(p)
  BY DEF Inv
<1>2. PICK q \in Proc : q = 1 - p /\ p = 1 - q /\ p # q
  BY Sides
<1>3. /\ ~Closed(p) /\ stage[Main][p] \notin {"draining", "closing", "closed"}
      /\ chState[p] = "CONNECTED" => conn[p] = Main /\ stage[Main][p] = "open"
  BY Calling
<1>4. /\ sent' = [sent EXCEPT ![p] = Append(@, m)] /\ sent' \in [Proc -> Seq(Packets)]
      /\ sent[p] \in Seq(Packets) /\ sent'[p] = Append(sent[p], m) /\ sent'[q] = sent[q]
  <2>1. sent' = [sent EXCEPT ![p] = Append(@, m)] /\ sent \in [Proc -> Seq(Packets)]
    BY <1>1 DEF SendRequest, TypeOK
  <2>2. sent[p] \in Seq(Packets) /\ Append(sent[p], m) \in Seq(Packets)
    BY <2>1, AppendJoined
  <2> QED
    BY <1>2, <2>1, <2>2
<1>5. mpi'[q] = mpi[q] /\ state'[q] = state[q] /\ outstanding'[q] = outstanding[q]
  BY <1>2
<1>6. sendq[p] \in Seq(Packets) /\ Append(sendq[p], m) \in Seq(Packets) /\ Append(sendq[p], m) # <<>>
      /\ Append(sendq[p], m) = sendq[p] \o <<m>>
  <2>1. sendq[p] \in Seq(Packets)
    BY <1>1 DEF TypeOK
  <2> QED
    BY <2>1, AppendJoined
<1>7. ASSUME sendq' = [sendq EXCEPT ![p] = Append(@, m)]
      PROVE  /\ sendq' \in [Proc -> Seq(Packets)] /\ sendq'[p] = Append(sendq[p], m)
             /\ sendq'[q] = sendq[q]
  <2>1. sendq \in [Proc -> Seq(Packets)]
    BY <1>1 DEF TypeOK
  <2> QED
    BY <1>2, <1>6, <1>7, <2>1
<1>8. UNCHANGED stage => Main' = Main /\ Protocol(p)' /\ ~Closed(p)'
  <2>1. SUFFICES ASSUME UNCHANGED stage PROVE Main' = Main /\ Protocol(p)' /\ ~Closed(p)'
    OBVIOUS
  <2>2. Main' = Main
    BY <2>1 DEF Main
  <2>3. (stage[Main][p] \notin {"draining", "closing", "closed"})'
    BY <1>3, <2>1, <2>2
  <2> QED
    BY <2>2, <2>3 DEF Closed
<1>9. ASSUME sendq' = [sendq EXCEPT ![p] = Append(@, m)],
             UNCHANGED <<chState, conn, stage, writes, wire>>,
             deferConnect' \in [Proc -> BOOLEAN], deferWrites' \in [Proc -> Nat],
             deferConnect'[q] = deferConnect[q], deferWrites'[q] = deferWrites[q],
             Deferrals(p)'
      PROVE  Inv'
  <2>1. TypeOK'
    BY <1>1, <1>4, <1>7, <1>9 DEF TypeOK
  <2>2. Protocol(p)'
    BY <1>8, <1>9
  <2> QED
    BY <1>2, <1>4, <1>5, <1>9, <2>1, <2>2, Queued
<1>10. ASSUME sendq' = [sendq EXCEPT ![p] = Append(@, m)],
              UNCHANGED <<chState, conn, stage, writes, wire, deferConnect, deferWrites>>
       PROVE  Inv'
  <2>1. deferConnect \in [Proc -> BOOLEAN] /\ deferWrites \in [Proc -> Nat]
    BY <1>1 DEF TypeOK
  <2>2. Main' = Main /\ ~Closed(p)' /\ sendq'[p] # <<>>
    BY <1>6, <1>7, <1>8, <1>10
  <2>3. Deferrals(p)'
    BY <1>1, <1>10, <2>2 DEF Deferrals
  <2> QED
    BY <1>9, <1>10, <2>1, <2>3
<1>11. CASE chState[p] = "UNCONNECTED"
  <2>1. /\ sendq' = [sendq EXCEPT ![p] = Append(@, m)] /\ UNCHANGED <<writes, wire, deferWrites>>
        /\ IF sendq[p] # <<>> THEN UNCHANGED <<chState, conn, stage, deferConnect>>
           ELSE IF plan.threads /\ ~alone
           THEN /\ deferConnect' = [deferConnect EXCEPT ![p] = TRUE]
                /\ UNCHANGED <<chState, conn, stage>>
           ELSE StartConnect(p) /\ UNCHANGED deferConnect
    BY <1>11 DEF SendRequest
  <2>2. CASE sendq[p] # <<>>
    BY <1>10, <2>1, <2>2
  <2>3. CASE sendq[p] = <<>> /\ plan.threads /\ ~alone
    <3>1. /\ deferConnect' = [deferConnect EXCEPT ![p] = TRUE] /\ UNCHANGED <<chState, conn, stage>>
          /\ UNCHANGED <<writes, wire, deferWrites>>
      BY <2>1, <2>3
    <3>2. deferConnect' \in [Proc -> BOOLEAN] /\ deferConnect'[q] = deferConnect[q]
      BY <1>1, <1>2, <3>1 DEF TypeOK
    <3>3. deferWrites' \in [Proc -> Nat] /\ deferWrites'[q] = deferWrites[q] /\ deferWrites'[p] = 0
      BY <1>1, <2>3, <3>1, SMTT(60) DEF TypeOK, Deferrals
    <3>4. conn'[p] = None /\ sendq'[p] # <<>> /\ ~Closed(p)' /\ Main' = Main
      BY <1>1, <1>6, <1>7, <1>8, <1>11, <2>1, <3>1 DEF Queue
    <3>5. plan' = plan /\ plan.threads /\ plan.messages[p + 1] # 0
      BY <2>3
    <3>6. Deferrals(p)'
      BY <3>3, <3>4, <3>5 DEF Deferrals
    <3> QED
      BY <1>9, <2>1, <3>1, <3>2, <3>3, <3>6
  <2>4. CASE sendq[p] = <<>> /\ ~(plan.threads /\ ~alone)
    <3>1. StartConnect(p) /\ UNCHANGED <<writes, wire, deferWrites, deferConnect>>
      BY <2>1, <2>4
    <3>2. TypeOK'
      <4>1. /\ stage' \in [Proc -> [Proc -> Stages]]
            /\ conn' \in [Proc -> Proc \cup {None}]
            /\ chState' \in [Proc -> {"UNCONNECTED", "CONNECTING", "CONNECTED"}]
        BY <1>1, <3>1 DEF StartConnect, Move, TypeOK, Stages
      <4> QED
        BY <1>1, <1>4, <1>7, <2>1, <3>1, <4>1, Zenon DEF TypeOK
    <3>3. state[p] = "INACTIVE"
      BY <1>1, <1>3, <2>4, <3>1 DEF Queue, StartConnect
    <3>4. ~plan.threads
      BY <2>4, <3>3
    <3>5. ~deferConnect'[p]
      BY <1>1, <2>4, <3>1 DEF Deferrals
    <3>6. <<m>> \in Seq(Packets) /\ sent'[p] = sent[p] \o <<m>> /\ sendq'[p] = sendq[p] \o <<m>>
          /\ sendq'[p] # <<>> /\ sendq'[q] = sendq[q]
      <4>1. <<m>> \in Seq(Packets) /\ Append(sent[p], m) = sent[p] \o <<m>>
        BY <1>4, One, AppendJoined
      <4> QED
        BY <1>4, <1>6, <1>7, <2>1, <4>1
    <3>7. (stage[Main][p] \notin Over)' => Protocol(p)'
      BY DEF Over
    <3> QED
      BY <1>2, <1>3, <1>4, <1>5, <3>1, <3>2, <3>4, <3>5, <3>6, <3>7, Started
  <2> QED
    BY <2>2, <2>3, <2>4
<1>12. CASE chState[p] = "CONNECTING"
  <2>1. /\ sendq' = [sendq EXCEPT ![p] = Append(@, m)]
        /\ UNCHANGED <<chState, conn, stage, deferConnect, writes, wire, deferWrites>>
    BY <1>12 DEF SendRequest
  <2> QED
    BY <1>10, <2>1
<1>13. CASE chState[p] = "CONNECTED"
  <2>1. PICK way \in Ways(p, alone) : SendConnected(p, m, way)
    BY <1>13 DEF SendRequest
  <2>2. conn[p] = Main /\ stage[Main][p] = "open"
    BY <1>3, <1>13
  <2>3. CASE way \in {"whole", "part"}
    <3>1. sendq[p] = <<>> /\ completing[p] = None
      BY <2>1, <2>3 DEF Ways
    <3>2. /\ Put(Main, p, <<m>>) /\ UNCHANGED <<chState, conn, deferConnect, stage>>
          /\ sendq' = [sendq EXCEPT ![p] = IF way = "whole" THEN @ ELSE Append(@, m)]
          /\ writes' = [writes EXCEPT ![Main][p] = IF way = "part" THEN @ + 1 ELSE @]
          /\ deferWrites' = [deferWrites EXCEPT ![p] = @]
      BY <2>1, <2>2, <2>3 DEF SendConnected
    <3>3. TypeOK'
      <4>1. wire' \in [Proc -> [Proc -> Seq(Wired)]]
        <5>1. <<m>> \in Seq(Wired) /\ Main \in Proc
          BY One, WiredPackets, MainIs
        <5> QED
          BY <1>1, <3>2, <5>1, PutOn
      <4>2. sendq' \in [Proc -> Seq(Packets)]
        BY <1>1, <1>6, <3>2 DEF TypeOK
      <4>3. writes' \in [Proc -> [Proc -> Nat]]
        <5>1. writes[Main][p] = 0 /\ Main \in Proc
          BY <1>1, <3>1, MainIs DEF Queue
        <5>2. PICK n \in Nat : n = IF way = "part" THEN 1 ELSE 0
          OBVIOUS
        <5>3. writes' = [writes EXCEPT ![Main][p] = n]
          BY <1>1, <3>2, <5>1, <5>2 DEF TypeOK
        <5> QED
          BY <1>1, <5>1, <5>3, Counted
      <4>4. deferWrites' = deferWrites
        BY <1>1, <3>2 DEF TypeOK
      <4> QED
        BY <1>1, <1>4, <3>2, <4>1, <4>2, <4>3, <4>4 DEF TypeOK
    <3>4. Protocol(p)'
      BY <1>8, <3>2
    <3> QED
      BY <1>2, <1>4, <1>5, <2>1, <2>2, <2>3, <3>1, <3>3, <3>4, Written, ZenonT(60)
  <2>4. CASE way = "queued"
    <3>1. /\ sendq' = [sendq EXCEPT ![p] = Append(@, m)]
          /\ writes' = [writes EXCEPT ![Main][p] = @]
          /\ deferWrites' = [deferWrites EXCEPT ![p] = @]
          /\ UNCHANGED <<chState, conn, stage, wire, deferConnect>>
      BY <2>1, <2>2, <2>4 DEF SendConnected
    <3>2. writes' = writes /\ deferWrites' = deferWrites
      BY <1>1, <3>1, MainIs DEF TypeOK
    <3> QED
      BY <1>10, <3>1, <3>2
  <2>5. CASE way = "deferred"
    <3>1. /\ sendq' = [sendq EXCEPT ![p] = Append(@, m)]
          /\ writes' = [writes EXCEPT ![Main][p] = @]
          /\ deferWrites' = [deferWrites EXCEPT ![p] = @ + 1]
          /\ UNCHANGED <<chState, conn, stage, wire, deferConnect>>
      BY <2>1, <2>2, <2>5 DEF SendConnected
    <3>2. writes' = writes
      BY <1>1, <3>1, MainIs DEF TypeOK
    <3>3. sendq[p] = <<>> /\ plan.threads /\ ~alone
      BY <2>1, <2>5 DEF Ways
    <3>4. deferWrites[p] = 0 /\ writes[Main][p] = 0
      BY <1>1, <3>3 DEF Deferrals, Queue
    <3>5. deferWrites' \in [Proc -> Nat] /\ deferWrites'[p] = 1 /\ deferWrites'[q] = deferWrites[q]
      <4>1. deferWrites' = [deferWrites EXCEPT ![p] = 1]
        BY <1>1, <3>1, <3>4 DEF TypeOK
      <4> QED
        BY <1>1, <1>2, <4>1 DEF TypeOK
    <3>6. completing[p] = None
      <4>1. SUFFICES ASSUME completing[p] # None PROVE FALSE
        OBVIOUS
      <4>2. completing[p] = Main /\ Main # p
        BY <1>1, <2>2, <3>3, <4>1 DEF Queue
      <4>3. Main = q /\ stage[q][1 - q] = "open"
        BY <1>2, <2>2, <4>2, MainIs, Sides
      <4>4. stage[q][q] # "none"
        BY <4>3 DEF Inv, Handshake
      <4>5. plan.messages[q + 1] # 0 /\ plan.messages[p + 1] # 0
        BY <3>3, <4>4 DEF Inv, Deferrals
      <4>6. plan.messages[1] = 0 \/ plan.messages[2] = 0
        BY <1>1, <3>3 DEF OneSender, TypeOK
      <4>7. (p + 1 = 1 /\ q + 1 = 2) \/ (p + 1 = 2 /\ q + 1 = 1)
        BY <1>2 DEF Proc
      <4> QED
        BY <4>5, <4>6, <4>7
    <3>7. Deferrals(p)'
      <4>1. Main' = Main /\ sendq'[p] # <<>> /\ writes'[Main][p] = 0 /\ completing'[p] = None
        BY <1>6, <1>7, <1>8, <3>1, <3>2, <3>4, <3>6
      <4>2. ~deferConnect'[p] /\ conn'[p] = Main /\ stage'[Main][p] = "open" /\ plan'.messages[p + 1] # 0
        BY <1>1, <2>2, <3>1, <3>3, Sides, MainIs DEF Deferrals
      <4> QED
        BY <3>5, <4>1, <4>2 DEF Deferrals
    <3>8. deferConnect' \in [Proc -> BOOLEAN] /\ deferConnect'[q] = deferConnect[q]
      BY <1>1, <3>1 DEF TypeOK
    <3> QED
      BY <1>9, <3>1, <3>2, <3>5, <3>7, <3>8
  <2> QED
    BY <2>1, <2>3, <2>4, <2>5 DEF Ways
<1> QED
  BY <1>1, <1>11, <1>12, <1>13 DEF TypeOK

(* A count of messages is a number, and a message of the program is a packet. *)
LEMMA MessagesCount ==
  ASSUME NEW s \in Seq(Packets)
  PROVE  Messages(s) \in Nat
<1>1. Len(s) \in Nat /\ DOMAIN s = 1 .. Len(s)
  BY LenProperties
<1>2. IsFiniteSet(1 .. Len(s))
  BY <1>1, FS_Interval
<1>3. {i \in DOMAIN s : s[i].type = "DATA"} \in SUBSET (1 .. Len(s))
  BY <1>1
<1>4. IsFiniteSet({i \in DOMAIN s : s[i].type = "DATA"})
  BY <1>2, <1>3, FS_Subset
<1> QED
  BY <1>4, FS_CardinalityType DEF Messages

LEMMA MessageIsPacket ==
  ASSUME NEW pl \in Plans, NEW p \in Proc, NEW k \in Nat, k < pl.messages[p + 1]
  PROVE  Data(k + 1) \in Packets /\ Data(k + 1).type = "DATA" /\ pl.messages[p + 1] # 0
<1>1. pl.messages[1] \in Nat /\ pl.messages[2] \in Nat
  BY PlansAssumption
<1>2. p + 1 = 1 \/ p + 1 = 2
  BY DEF Proc
<1>3. k + 1 \in (1 .. pl.messages[1]) \cup (1 .. pl.messages[2]) /\ pl.messages[p + 1] # 0
  BY <1>1, <1>2
<1>4. k + 1 \in Numbers
  BY <1>3 DEF Numbers
<1> QED
  BY <1>3, <1>4 DEF Data, Packets

LEMMA SendMessageStep ==
  ASSUME OneSender, Inv, NEW p \in Proc, SendMessage(p)
  PROVE  Inv'
<1>1. TypeOK /\ Protocol(p)
  BY DEF Inv
<1>2. /\ mpi[p] = "running" /\ Messages(sent[p]) < plan.messages[p + 1]
      /\ state' = [state EXCEPT ![p] = IF @ = "INACTIVE" THEN "ACTIVE" ELSE @]
      /\ SendRequest(p, Data(Messages(sent[p]) + 1), FALSE)
      /\ UNCHANGED <<plan, mpi, outstanding, completing, received>>
  BY DEF SendMessage, MayCall
<1>3. PICK m \in Packets : m = Data(Messages(sent[p]) + 1) /\ m.type = "DATA" /\ plan.messages[p + 1] # 0
  <2>1. sent[p] \in Seq(Packets) /\ plan \in Plans
    BY <1>1 DEF TypeOK
  <2> QED
    BY <1>2, <2>1, MessagesCount, MessageIsPacket
<1>4. SendRequest(p, m, FALSE)
  BY <1>2, <1>3
<1>5. /\ state' \in [Proc -> {"INACTIVE", "ACTIVE", "LOCAL_CLOSE", "REMOTE_CLOSE", "CLOSE_ACKED"}]
      /\ state'[p] = (IF state[p] = "INACTIVE" THEN "ACTIVE" ELSE state[p])
      /\ \A x \in Proc : x # p => state'[x] = state[x]
  BY <1>1, <1>2 DEF TypeOK
<1>6. /\ mpi' \in [Proc -> {"running", "finalizing", "finalized"}] /\ outstanding' \in [Proc -> {0, 1}]
      /\ mpi' = mpi /\ outstanding' = outstanding
  BY <1>1, <1>2 DEF TypeOK
<1>7. (stage[Main][p] \notin {"draining", "closing", "closed"})' => Protocol(p)'
  <2>1. SUFFICES ASSUME (stage[Main][p] \notin {"draining", "closing", "closed"})' PROVE Protocol(p)'
    OBVIOUS
  <2>2. ~Closed(p)' /\ (stage[Main][p] \notin {"draining", "closing"})'
    BY <2>1 DEF Closed
  <2>3. /\ ~Closed(p) /\ NoClose(sent[p]) /\ state[p] \in {"INACTIVE", "ACTIVE", "REMOTE_CLOSE"}
        /\ state[p] = "INACTIVE" => received[p] = <<>>
    BY <1>2, Calling
  <2>4. NoClose(sent'[p])
    <3>1. sent[p] \in Seq(Packets) /\ sent'[p] = Append(sent[p], m)
      BY <1>1, <1>4 DEF TypeOK, SendRequest
    <3> QED
      BY <1>3, <2>3, <3>1, Closing
  <2>5. ended'[p] = FALSE
    BY <1>2 DEF ended
  <2>6. state[p] = "INACTIVE" => NoClose(received[p])
    BY <2>3, NoneYet
  <2> QED
    BY <1>1, <1>2, <1>5, <1>6, <2>2, <2>3, <2>4, <2>5, <2>6 DEF Protocol
<1> QED
  BY <1>2, <1>3, <1>4, <1>5, <1>6, <1>7, SendRequestStep

(* MPI_Finalize: the close packet follows all others, and asks or answers. *)
LEMMA FinalizeStep ==
  ASSUME OneSender, Inv, NEW p \in Proc, Finalize(p)
  PROVE  Inv'
<1>1. TypeOK /\ Protocol(p) /\ Queue(p) /\ Deferrals(p)
  BY DEF Inv
<1>2. /\ mpi[p] = "running" /\ mpi' = [mpi EXCEPT ![p] = "finalizing"]
      /\ UNCHANGED <<plan, completing, received>>
  BY DEF Finalize, MayCall
<1>3. /\ ~Closed(p) /\ NoClose(sent[p]) /\ state[p] \in {"INACTIVE", "ACTIVE", "REMOTE_CLOSE"}
      /\ state[p] = "INACTIVE" => sent[p] = <<>> /\ received[p] = <<>>
  BY <1>2, Calling
<1>4. /\ mpi' \in [Proc -> {"running", "finalizing", "finalized"}] /\ mpi'[p] = "finalizing"
      /\ \A x \in Proc : x # p => mpi'[x] = mpi[x]
  BY <1>1, <1>2 DEF TypeOK
<1>5. CASE state[p] \in {"ACTIVE", "REMOTE_CLOSE"}
  <2>1. /\ outstanding' = [outstanding EXCEPT ![p] = @ + 1]
        /\ state' = [state EXCEPT ![p] = IF @ = "ACTIVE" THEN "LOCAL_CLOSE" ELSE "CLOSE_ACKED"]
        /\ SendRequest(p, Close(state[p] # "ACTIVE"), TRUE)
    BY <1>5 DEF Finalize
  <2>2. PICK m \in Packets : /\ m = Close(state[p] # "ACTIVE")
                             /\ state[p] = "ACTIVE" => m = Close(FALSE)
                             /\ state[p] = "REMOTE_CLOSE" => m = Close(TRUE)
    <3>1. CASE state[p] = "ACTIVE"
      BY <3>1, ClosePackets
    <3>2. CASE state[p] = "REMOTE_CLOSE"
      BY <3>2, ClosePackets
    <3> QED
      BY <1>5, <3>1, <3>2
  <2>3. SendRequest(p, m, TRUE)
    BY <2>1, <2>2
  <2>4. outstanding[p] = 0
    BY <1>1, <1>3, <1>5 DEF Protocol
  <2>5. /\ outstanding' \in [Proc -> {0, 1}] /\ outstanding'[p] = 1
        /\ \A x \in Proc : x # p => outstanding'[x] = outstanding[x]
    <3>1. outstanding' = [outstanding EXCEPT ![p] = 1]
      BY <1>1, <2>1, <2>4 DEF TypeOK
    <3> QED
      BY <1>1, <3>1 DEF TypeOK
  <2>6. /\ state' \in [Proc -> {"INACTIVE", "ACTIVE", "LOCAL_CLOSE", "REMOTE_CLOSE", "CLOSE_ACKED"}]
        /\ state'[p] = (IF state[p] = "ACTIVE" THEN "LOCAL_CLOSE" ELSE "CLOSE_ACKED")
        /\ \A x \in Proc : x # p => state'[x] = state[x]
    BY <1>1, <2>1 DEF TypeOK
  <2>7. (stage[Main][p] \notin {"draining", "closing", "closed"})' => Protocol(p)'
    <3>1. SUFFICES ASSUME (stage[Main][p] \notin {"draining", "closing", "closed"})' PROVE Protocol(p)'
      OBVIOUS
    <3>2. ~Closed(p)' /\ (stage[Main][p] \notin {"draining", "closing"})'
      BY <3>1 DEF Closed
    <3>3. sent[p] \in Seq(Packets) /\ received[p] \in Seq(Packets) /\ sent'[p] = Append(sent[p], m)
      BY <1>1, <2>3 DEF TypeOK, SendRequest
    <3>4. state[p] = "ACTIVE" => Asks(sent'[p]) /\ NoClose(received[p])
      BY <1>1, <1>3, <2>2, <3>3, Closing DEF Protocol
    <3>5. state[p] = "REMOTE_CLOSE" => Answers(sent'[p]) /\ Asks(received[p]) /\ ~Complete(received[p])
      BY <1>1, <1>3, <2>2, <3>3, Closing, FormsDiffer DEF Protocol
    <3>6. ~ended'[p]
      <4>1. ended'[p] <=> mpi'[p] # "running" /\ outstanding'[p] = 0 /\ sent'[p] # <<>>
        BY DEF ended
      <4> QED
        BY <2>5, <4>1
    <3> QED
      BY <1>2, <1>4, <1>5, <2>5, <2>6, <3>2, <3>4, <3>5, <3>6 DEF Protocol
  <2> QED
    BY <1>2, <1>4, <1>5, <2>3, <2>5, <2>6, <2>7, SendRequestStep, ZenonT(60)
<1>6. CASE state[p] \notin {"ACTIVE", "REMOTE_CLOSE"}
  <2>1. UNCHANGED <<outstanding, state, sent, chState, conn, stage, deferConnect, sendq,
                    writes, wire, deferWrites>>
    BY <1>6 DEF Finalize
  <2>2. PICK q \in Proc : q = 1 - p /\ p = 1 - q /\ p # q
    BY Sides
  <2>3. TypeOK'
    BY <1>1, <1>2, <1>4, <2>1 DEF TypeOK
  <2>4. Main' = Main
    BY <2>1 DEF Main
  <2>5. Queue(p)' /\ Deferrals(p)'
    BY <1>1, <1>2, <2>1, <2>4 DEF Queue, Deferrals, Closed, Late
  <2>6. Protocol(p)'
    <3>1. ended'[p] = FALSE
      BY <1>3, <1>6, <2>1 DEF ended
    <3>2. ~Closed(p)' /\ state[p] = "INACTIVE"
      BY <1>3, <1>6, <2>1, <2>4 DEF Closed
    <3> QED
      BY <1>1, <1>2, <1>3, <1>4, <2>1, <2>4, <3>1, <3>2 DEF Protocol
  <2>7. Flow(p)'
    <3>1. Flow(p)
      BY DEF Inv
    <3>2. Before(p)' = Before(p) /\ After(p)' = After(p) /\ Unwritten(p)' = Unwritten(p)
      BY <2>1, <2>4 DEF Before, After, Unwritten, Closed
    <3> QED
      BY <1>2, <2>1, <2>4, <3>1, <3>2, FlowKept
  <2>8. mpi'[q] = mpi[q]
    BY <1>4, <2>2
  <2> QED
    BY <1>2, <2>1, <2>2, <2>3, <2>5, <2>6, <2>7, <2>8, SendKept
<1> QED
  BY <1>5, <1>6

LEMMA FinalizeReturnStep ==
  ASSUME Inv, NEW p \in Proc, FinalizeReturn(p)
  PROVE  Inv'
<1>1. TypeOK /\ Protocol(p) /\ Queue(p) /\ Deferrals(p)
  BY DEF Inv
<1>2. /\ mpi[p] = "finalizing" /\ mpi' = [mpi EXCEPT ![p] = "finalized"]
      /\ UNCHANGED <<plan, vcs, stage, writes, wire, sent, received>>
  BY DEF FinalizeReturn
<1>3. UNCHANGED <<state, chState, conn, sendq, outstanding, completing, deferConnect, deferWrites>>
  BY <1>2 DEF vcs
<1>4. PICK q \in Proc : q = 1 - p /\ p = 1 - q /\ p # q
  BY Sides
<1>5. /\ mpi' \in [Proc -> {"running", "finalizing", "finalized"}] /\ mpi'[p] = "finalized"
      /\ mpi'[q] = mpi[q]
  BY <1>1, <1>2, <1>4 DEF TypeOK
<1>6. TypeOK'
  BY <1>1, <1>2, <1>3, <1>5 DEF TypeOK
<1>7. Main' = Main
  BY <1>2 DEF Main
<1>8. Queue(p)' /\ Deferrals(p)'
  BY <1>1, <1>2, <1>3, <1>7 DEF Queue, Deferrals, Closed, Late
<1>9. Protocol(p)'
  <2>1. ended[p] <=> outstanding[p] = 0 /\ sent[p] # <<>>
    BY <1>2 DEF ended
  <2>2. ended'[p] <=> outstanding'[p] = 0 /\ sent'[p] # <<>>
    BY <1>5 DEF ended
  <2>3. Late' = Late /\ Closed(p)' = Closed(p)
    BY <1>2, <1>3, <1>7 DEF Late, Closed
  <2> QED
    BY <1>1, <1>2, <1>3, <1>5, <1>7, <2>1, <2>2, <2>3 DEF Protocol
<1>10. Flow(p)'
  <2>1. Flow(p)
    BY DEF Inv
  <2>2. Before(p)' = Before(p) /\ After(p)' = After(p) /\ Unwritten(p)' = Unwritten(p)
    BY <1>2, <1>3, <1>7 DEF Before, After, Unwritten, Closed
  <2> QED
    BY <1>2, <1>7, <2>1, <2>2, FlowKept
<1> QED
  BY <1>2, <1>3, <1>4, <1>5, <1>6, <1>8, <1>9, <1>10, SendKept

-----------------------------------------------------------------------------
(***************************************************************************)
(* The invariant.                                                          *)
(***************************************************************************)
LEMMA InvInit == Init => Inv
<1> SUFFICES ASSUME Init PROVE Inv
  OBVIOUS
<1>1. /\ plan \in Plans
      /\ mpi = [p \in Proc |-> "running"] /\ state = [p \in Proc |-> "INACTIVE"]
      /\ chState = [p \in Proc |-> "UNCONNECTED"] /\ conn = [p \in Proc |-> None]
      /\ sendq = [p \in Proc |-> <<>>] /\ outstanding = [p \in Proc |-> 0]
      /\ completing = [p \in Proc |-> None] /\ deferConnect = [p \in Proc |-> FALSE]
      /\ deferWrites = [p \in Proc |-> 0]
      /\ stage = [c \in Proc |-> [p \in Proc |-> "none"]]
      /\ writes = [c \in Proc |-> [p \in Proc |-> 0]]
      /\ wire = [c \in Proc |-> [p \in Proc |-> <<>>]]
      /\ sent = [p \in Proc |-> <<>>] /\ received = [p \in Proc |-> <<>>]
  BY DEF Init, Ends
<1>2. <<>> \in Seq(Packets) /\ <<>> \in Seq(Wired)
  OBVIOUS
<1>3. TypeOK
  BY <1>1, <1>2 DEF TypeOK, Stages
<1>4. \A c, p \in Proc : stage[c][p] = "none" /\ writes[c][p] = 0 /\ wire[c][p] = <<>>
  BY <1>1
<1>5. Main = 0 /\ 0 \in Proc /\ 1 \in Proc /\ 1 - Main = 1 /\ 0 # None /\ 1 # None
  BY <1>4, NoneAssumption DEF Main, Proc
<1>6. \A p \in Proc : ~Closed(p) /\ conn[p] = None
  BY <1>1, <1>4, <1>5 DEF Closed
<1>7. Handshake
  BY <1>4, <1>5, <1>6 DEF Handshake, Asking, Requested, Over, Agreed
<1>8. Conns
  BY <1>4, <1>5, <1>6 DEF Conns, Asking, Live
<1>9. Other
  BY <1>4, <1>5 DEF Other
<1>10. ASSUME NEW p \in Proc
       PROVE  Flow(p) /\ Queue(p) /\ Deferrals(p) /\ Protocol(p)
  <2>1. /\ stage[Main][p] = "none" /\ stage[p][p] = "none" /\ wire[Main][p] = <<>>
        /\ writes[Main][p] = 0 /\ writes[1 - Main][p] = 0
        /\ stage[Main][Main] = "none"
    BY <1>4, <1>5
  <2>2. /\ mpi[p] = "running" /\ state[p] = "INACTIVE" /\ chState[p] = "UNCONNECTED" /\ conn[p] = None
        /\ sendq[p] = <<>> /\ outstanding[p] = 0 /\ completing[p] = None /\ deferConnect[p] = FALSE
        /\ deferWrites[p] = 0 /\ sent[p] = <<>> /\ received[p] = <<>> /\ received[1 - p] = <<>>
    BY <1>1, Sides
  <2>3. Before(p) = <<>> /\ After(p) = <<>> /\ Unwritten(p) = <<>>
    BY <2>1, <2>2 DEF Before, After, Unwritten, Requested
  <2>4. Way(p) = <<>>
    <3>1. Len(<<>>) = 0
      OBVIOUS
    <3>2. SubSeq(<<>>, 0 + 1, 0 - 0) = <<>>
      BY SubSeqEmpty
    <3> QED
      BY <2>1, <2>3, <3>1, <3>2 DEF Way
  <2>5. Flow(p)
    <3>1. <<>> \o <<>> \o <<>> = <<>>
      BY <1>2, Joins
    <3> QED
      BY <1>2, <2>1, <2>2, <2>3, <2>4, <3>1 DEF Flow
  <2>6. Queue(p)
    BY <1>6, <2>1, <2>2, Sides DEF Queue, Over
  <2>7. Deferrals(p)
    BY <2>1, <2>2 DEF Deferrals
  <2>8. Protocol(p)
    <3>1. ~ended[p]
      BY <2>2 DEF ended
    <3> QED
      BY <1>6, <2>1, <2>2, <3>1, NoneYet DEF Protocol
  <2> QED
    BY <2>5, <2>6, <2>7, <2>8
<1> QED
  BY <1>3, <1>7, <1>8, <1>9, <1>10 DEF Inv

LEMMA InvKept ==
  ASSUME Inv, UNCHANGED vars
  PROVE  Inv'
<1>1. UNCHANGED <<plan, mpi, state, chState, conn, sendq, outstanding, completing, deferConnect,
                  deferWrites, stage, writes, wire, sent, received>>
  BY DEF vars, vcs
<1>2. PICK p \in Proc, q \in Proc : q = 1 - p /\ p = 1 - q
  BY DEF Proc
<1>3. TypeOK /\ Flow(p) /\ Queue(p) /\ Deferrals(p) /\ Protocol(p)
  BY DEF Inv
<1>4. TypeOK' /\ Main' = Main
  BY <1>1, <1>3 DEF TypeOK, Main
<1>5. ended'[p] = ended[p] /\ Late' = Late /\ Closed(p)' = Closed(p)
  BY <1>1, <1>4 DEF ended, Late, Closed
<1>6. Queue(p)' /\ Deferrals(p)' /\ Protocol(p)'
  BY <1>1, <1>3, <1>4, <1>5 DEF Queue, Deferrals, Protocol
<1>7. Before(p)' = Before(p) /\ After(p)' = After(p) /\ Unwritten(p)' = Unwritten(p)
  BY <1>1, <1>4 DEF Before, After, Unwritten, Closed
<1>8. Flow(p)'
  BY <1>1, <1>3, <1>4, <1>7, FlowKept
<1> QED
  BY <1>1, <1>2, <1>4, <1>6, <1>8, SendKept

LEMMA InvNext ==
  ASSUME OneSender, Inv, [Next]_vars
  PROVE  Inv'
<1>1. CASE UNCHANGED vars
  BY <1>1, InvKept
<1>2. ASSUME NEW p \in Proc, SendMessage(p) \/ Finalize(p) \/ Establish(p) \/ Connect(p)
      PROVE  Inv'
  BY <1>2, SendMessageStep, FinalizeStep, QuietSteps, ConnectStep
<1>3. ASSUME NEW p \in Proc, Progress(p)
      PROVE  Inv'
  <2>1. CASE ConnectDeferred(p) \/ WriteDeferred(p) \/ SendHead(p) \/ FinalizeReturn(p)
    BY <2>1, ConnectDeferredStep, WriteDeferredStep, SendHeadStep, FinalizeReturnStep
  <2>2. ASSUME NEW c \in Proc,
               \/ SendMessageSucceeded(c, p) \/ HandleData(c, p) \/ HandleClose(c, p)
               \/ RecvFailed(c, p) \/ GracefulCloseDiscard(c, p) \/ CloseConnectionComplete(c, p)
        PROVE  Inv'
    BY <2>2, SendMessageSucceededStep, HandleDataStep, HandleCloseStep, RecvFailedStep,
       GracefulCloseDiscardStep, CloseConnectionCompleteStep
  <2> QED
    BY <1>3, <2>1, <2>2 DEF Progress
<1> QED
  BY <1>1, <1>2, <1>3 DEF Next

(* At every moment the ends of the connection fit each other, what is on the *)
(* wires and in the queues is what was sent and not yet received, and the    *)
(* close packets say how far both sides are: MPIDI_CH3_SendRequest, the      *)
(* callbacks of the sockets and the close protocol keep this together, for   *)
(* any numbers of messages, if no thread makes progress under two senders.   *)
THEOREM Invariance == OneSender => (Spec => []Inv)
<1> SUFFICES ASSUME OneSender PROVE Spec => []Inv
  OBVIOUS
<1>1. Init => Inv
  BY InvInit
<1>2. Inv /\ [Next]_vars => Inv'
  BY InvNext
<1> QED
  BY <1>1, <1>2, PTL DEF Spec

-----------------------------------------------------------------------------
(***************************************************************************)
(* What the invariant says of the code's assertions.                       *)
(***************************************************************************)
LEMMA OneWriterHolds == Inv => OneWriter
<1> SUFFICES ASSUME Inv, NEW c \in Proc, NEW p \in Proc, writes[c][p] > 0
             PROVE  sendq[p] # <<>> /\ writes[c][p] = 1 /\ writes[1 - c][p] = 0
  BY DEF OneWriter
<1>1. Queue(p)
  BY DEF Inv
<1>2. c = Main
  BY <1>1, MainIs DEF Queue
<1> QED
  BY <1>1, <1>2 DEF Queue

(* A packet on a wire is one of the main connection, before either side is done. *)
LEMMA CarriesPackets ==
  ASSUME Inv, NEW c \in Proc, NEW p \in Proc, NEW i \in DOMAIN wire[c][p], wire[c][p][i] \in Packets
  PROVE  c = Main /\ stage[Main][p] \in Over /\ ~Closed(1 - p)
<1>1. TypeOK /\ Other /\ Flow(p)
  BY DEF Inv
<1> DEFINE Signals == {OpenReq, OpenResp(TRUE), OpenResp(FALSE), Fin}
<1>2. \A m \in Signals : m \notin Packets
  <2>1. OpenReq.type = "OPEN_REQ" /\ Fin.type = "FIN" /\ OpenResp(TRUE).type = "OPEN_RESP" /\ OpenResp(FALSE).type = "OPEN_RESP"
    BY WiredPackets
  <2> QED
    BY <2>1, ClosePackets
<1>3. wire[c][p] \notin Seq(Signals)
  <2>1. ASSUME wire[c][p] \in Seq(Signals)
        PROVE  FALSE
    <3>1. i \in 1 .. Len(wire[c][p])
      BY <2>1, LenProperties
    <3>2. wire[c][p][i] \in Signals
      BY <2>1, <3>1, ElementOfSeq
    <3> QED
      BY <1>2, <3>2
  <2> QED
    BY <2>1
<1>4. c = Main
  <2>1. SUFFICES ASSUME c # Main PROVE FALSE
    OBVIOUS
  <2>2. {OpenReq, Fin} \subseteq Signals /\ {OpenResp(TRUE), OpenResp(FALSE), Fin} \subseteq Signals
    OBVIOUS
  <2>3. \A s : s \in Seq({OpenReq, Fin}) \/ s \in Seq({OpenResp(TRUE), OpenResp(FALSE), Fin}) => s \in Seq(Signals)
    BY <2>2, SeqMonotonic
  <2>4. CASE Main = 0
    <3>1. c = 1
      BY <2>1, <2>4 DEF Proc
    <3>2. wire[c][p] = <<>>
      BY <1>1, <2>4, <3>1 DEF Other
    <3> QED
      BY <1>3, <3>2
  <2>5. CASE Main = 1
    <3>1. c = 0
      BY <2>1, <2>5 DEF Proc
    <3>2. wire[c][p] \in Seq({OpenReq, Fin}) \/ wire[c][p] \in Seq({OpenResp(TRUE), OpenResp(FALSE), Fin})
      BY <1>1, <2>5, <3>1 DEF Other, Proc
    <3> QED
      BY <1>3, <2>3, <3>2
  <2> QED
    BY <2>4, <2>5, MainIs
<1>5. Way(p) # <<>>
  <2>1. SUFFICES ASSUME Way(p) = <<>> PROVE FALSE
    OBVIOUS
  <2>2. wire[Main][p] = Before(p) \o (<<>> \o After(p)) /\ After(p) \in Seq(Wired)
    BY <2>1, Known, Around
  <2>3. <<>> \o After(p) = After(p)
    BY <2>2, Joins
  <2>4. Before(p) \in Seq(Signals) /\ After(p) \in Seq(Signals)
    <3>1. \A m \in Signals : <<m>> \in Seq(Signals)
      BY One
    <3>2. <<>> \in Seq(Signals)
      OBVIOUS
    <3>3. <<OpenReq>> \in Seq(Signals) /\ <<OpenResp(TRUE)>> \in Seq(Signals) /\ <<Fin>> \in Seq(Signals)
      BY <3>1
    <3> HIDE DEF Signals
    <3> QED
      BY <3>2, <3>3, Around
  <2>5. Before(p) \o After(p) \in Seq(Signals)
    BY <2>4, ConcatProperties
  <2> QED
    BY <1>3, <1>4, <2>2, <2>3, <2>5
<1>6. stage[Main][p] \in Over
  BY <1>1, <1>5 DEF Flow
<1>7. ~Closed(1 - p)
  <2>1. PICK q \in Proc : q = 1 - p /\ p = 1 - q
    BY Sides
  <2>2. stage[Main][q] = "closed" => Way(1 - q) = <<>>
    BY NothingMore
  <2> QED
    BY <1>5, <2>1, <2>2 DEF Closed
<1> QED
  BY <1>4, <1>6, <1>7

LEMMA OneConnectionHolds == Inv => OneConnection
<1> SUFFICES ASSUME Inv PROVE OneConnection
  OBVIOUS
<1>1. TypeOK /\ Handshake /\ Conns /\ Other
  BY DEF Inv
<1>2. 0 \in Proc /\ 1 \in Proc /\ \A x \in Proc : x = 0 \/ x = 1
  BY DEF Proc
<1>3. ASSUME NEW c \in Proc, stage[c][0] = "open", stage[1 - c][1] = "open"
      PROVE  FALSE
  <2>1. Main = 1
    BY <1>1, <1>2, <1>3, MainIs DEF Other
  <2>2. c = 1
    <3>1. stage[0][0] # "open"
      BY <1>1, <2>1 DEF Other, Asking
    <3> QED
      BY <1>2, <1>3, <3>1
  <2>3. stage[0][1] = "open" /\ stage[1][0] = "open"
    BY <1>3, <2>2
  <2>4. stage[1][1] = "closed"
    BY <1>1, <2>1, <2>3 DEF Other
  <2>5. Closed(1)
    BY <2>1, <2>4 DEF Closed
  <2>6. stage[Main][1 - 1] \in {"closing", "closed"}
    BY <1>1, <1>2, <2>5 DEF Handshake
  <2> QED
    BY <2>1, <2>3, <2>6
<1>4. ASSUME NEW c \in Proc, NEW p \in Proc, stage[c][p] \in {"open", "draining"}
      PROVE  conn[p] = c
  <2>1. CASE c = Main
    BY <1>1, <1>4, <2>1, MainIs DEF Conns, Live
  <2>2. CASE c # Main
    <3>1. Main = 1 /\ c = 0
      BY <1>4, <2>2, Lost
    <3>2. p = 1
      BY <1>1, <1>2, <1>4, <3>1 DEF Other, Asking
    <3> QED
      BY <1>1, <1>4, <3>1, <3>2 DEF Other, Late
  <2> QED
    BY <2>1, <2>2
<1>5. ASSUME NEW c \in Proc, NEW p \in Proc, NEW i \in DOMAIN wire[c][p], wire[c][p][i] \in Packets
      PROVE  conn[Peer(p)] \in {c, None}
  <2>1. c = Main /\ stage[Main][p] \in Over /\ ~Closed(1 - p)
    BY <1>5, CarriesPackets
  <2>2. PICK q \in Proc : q = 1 - p /\ p = 1 - q /\ q = Peer(p)
    BY Sides
  <2>3. stage[Main][q] # "closed"
    BY <2>1, <2>2 DEF Closed
  <2>4. CASE q = Main /\ p = 1 - Main
    BY <1>1, <2>1, <2>2, <2>3, <2>4 DEF Handshake, Conns, Over, Live, Asking, Requested
  <2>5. CASE q = 1 - Main /\ p = Main
    BY <1>1, <2>1, <2>2, <2>3, <2>5 DEF Handshake, Conns, Over, Agreed, Live
  <2> QED
    BY <2>2, <2>4, <2>5, MainIs
<1> QED
  BY <1>3, <1>4, <1>5 DEF OneConnection

LEMMA CloseInOrderHolds == Inv => CloseInOrder
<1> SUFFICES ASSUME Inv PROVE CloseInOrder
  OBVIOUS
<1>1. TypeOK /\ Handshake /\ Conns /\ Other
  BY DEF Inv
<1>2. ASSUME NEW p \in Proc
      PROVE  outstanding[p] = 1 <=> state[p] \in {"LOCAL_CLOSE", "CLOSE_ACKED"}
  <2>1. Protocol(p)
    BY DEF Inv
  <2>2. state[p] \in {"INACTIVE", "ACTIVE", "LOCAL_CLOSE", "REMOTE_CLOSE", "CLOSE_ACKED"} /\ 0 # 1
    BY <1>1 DEF TypeOK
  <2>3. CASE Closed(p)
    BY <2>1, <2>3 DEF Protocol
  <2>4. CASE ~Closed(p)
    BY <2>1, <2>2, <2>4 DEF Protocol
  <2> QED
    BY <2>3, <2>4
<1>3. ASSUME NEW p \in Proc, NEW c \in Proc, stage[c][p] = "closing", conn[p] = c
      PROVE  sendq[p] = <<>> /\ state[p] = "CLOSE_ACKED"
  <2>1. c = Main
    <3>1. SUFFICES ASSUME c # Main PROVE FALSE
      OBVIOUS
    <3>2. Main = 1 /\ c = 0
      BY <1>3, <3>1, Lost
    <3>3. p = 0 \/ p = 1
      BY DEF Proc
    <3> QED
      BY <1>1, <1>3, <3>2, <3>3 DEF Other, Late, Asking
  <2>2. Queue(p) /\ Protocol(p) /\ ~Closed(p)
    BY <1>3, <2>1 DEF Inv, Closed
  <2> QED
    BY <1>3, <2>1, <2>2 DEF Queue, Protocol
<1>4. ASSUME NEW p \in Proc, NEW c \in Proc, stage[c][p] = "open", Arrived(c, p, "CLOSE")
      PROVE  state[p] \in (IF Head(wire[c][Peer(p)]).ack THEN {"LOCAL_CLOSE", "CLOSE_ACKED"}
                           ELSE {"ACTIVE", "LOCAL_CLOSE"})
  <2>1. PICK q \in Proc : q = 1 - p /\ p = 1 - q /\ q = Peer(p)
    BY Sides
  <2>2. wire[c][q] # <<>> /\ Head(wire[c][q]).type = "CLOSE" /\ Head(wire[c][q]).type \in {"DATA", "CLOSE"}
    BY <1>4, <2>1 DEF Arrived
  <2>3. c = Main
    BY <2>2, PacketsOnMain
  <2>4. /\ Head(wire[Main][q]) \in Packets
        /\ Head(wire[Main][q]) = Close(FALSE) => state[p] \in {"ACTIVE", "LOCAL_CLOSE"}
        /\ Head(wire[Main][q]) = Close(TRUE) => state[p] \in {"LOCAL_CLOSE", "CLOSE_ACKED"}
    BY <1>4, <2>1, <2>2, <2>3, Reading
  <2>5. /\ Head(wire[Main][q]) = Close(Head(wire[Main][q]).ack)
        /\ Head(wire[Main][q]).ack \in BOOLEAN
    BY <2>2, <2>3, <2>4, ClosePackets
  <2>6. CASE Head(wire[Main][q]).ack = TRUE
    BY <2>1, <2>3, <2>4, <2>5, <2>6
  <2>7. CASE Head(wire[Main][q]).ack = FALSE
    BY <2>1, <2>3, <2>4, <2>5, <2>7
  <2> QED
    BY <2>5, <2>6, <2>7
<1> QED
  BY <1>2, <1>3, <1>4 DEF CloseInOrder

(* Whenever a write of the head of the queue is complete, the packet is      *)
(* still there and no other write of it is under way: what                   *)
(* SendMessageSucceeded_cb asserts, for connection_complete_ex, the deferred *)
(* writes and the calls that write at once.                                  *)
THEOREM OneWriterAtATime == OneSender => (Spec => []OneWriter)
<1> SUFFICES ASSUME OneSender PROVE Spec => []OneWriter
  OBVIOUS
<1>1. Spec => []Inv
  BY Invariance
<1> QED
  BY <1>1, OneWriterHolds, PTL

(* However two connects that are begun at once, their refusals and a late    *)
(* acceptance interleave, both sides never use different connections, and no *)
(* packet is on a connection that its reader does not use.                   *)
THEOREM OneConnectionWins == OneSender => (Spec => []OneConnection)
<1> SUFFICES ASSUME OneSender PROVE Spec => []OneConnection
  OBVIOUS
<1>1. Spec => []Inv
  BY Invariance
<1> QED
  BY <1>1, OneConnectionHolds, PTL

(* Handle_MPIDI_CH3_PKT_CLOSE never meets a state that it has no answer for, *)
(* no connection closes over packets of its queue, and each close that is    *)
(* begun is counted as outstanding until it ends.                            *)
THEOREM ClosesInOrder == OneSender => (Spec => []CloseInOrder)
<1> SUFFICES ASSUME OneSender PROVE Spec => []CloseInOrder
  OBVIOUS
<1>1. Spec => []Inv
  BY Invariance
<1> QED
  BY <1>1, CloseInOrderHolds, PTL

-----------------------------------------------------------------------------
(***************************************************************************)
(* The connection implements the channel.                                  *)
(***************************************************************************)

(* Who is ended is done with the main connection, and neither side reads or writes. *)
LEMMA NobodyEnded ==
  ASSUME Inv, NEW p \in Proc, stage[Main][p] \notin {"closing", "closed"}
  PROVE  \A x \in Proc : ~ended[x]
<1>1. ASSUME NEW x \in Proc
      PROVE  ~Closed(x)
  <2>1. Handshake
    BY DEF Inv
  <2>2. PICK q \in Proc : q = 1 - p /\ p = 1 - q /\ \A y \in Proc : y = p \/ y = q
    BY Sides
  <2>3. stage[Main][q] = "closed" => stage[Main][1 - q] \in {"closing", "closed"}
    BY <2>1 DEF Handshake, Closed
  <2> QED
    BY <2>2, <2>3 DEF Closed
<1> QED
  BY <1>1 DEF Inv, Protocol

(* Where the ended of a process comes from. *)
LEMMA EndedIs ==
  /\ ended = [p \in Proc |-> ended[p]] /\ ended' = [p \in Proc |-> ended'[p]]
  /\ \A p \in Proc : /\ ended[p] \in BOOLEAN /\ ended'[p] \in BOOLEAN
                     /\ ended[p] <=> mpi[p] # "running" /\ outstanding[p] = 0 /\ sent[p] # <<>>
                     /\ ended'[p] <=> mpi'[p] # "running" /\ outstanding'[p] = 0 /\ sent'[p] # <<>>
BY DEF ended

LEMMA EndedKept ==
  ASSUME \A p \in Proc : ended'[p] <=> ended[p]
  PROVE  ended' = ended
<1>1. \A p \in Proc : ended'[p] = ended[p]
  BY EndedIs
<1> QED
  BY <1>1, EndedIs

(* Most steps are none of the channel. *)
LEMMA NoneOfTheChannel ==
  ASSUME UNCHANGED <<sent, received, mpi, outstanding>>
  PROVE  UNCHANGED C!vars
<1>1. ended' = ended
  BY DEF ended
<1> QED
  BY <1>1 DEF C!vars

(* The packet that is read is the next one of those that were sent. *)
LEMMA NextPacket ==
  ASSUME NEW r \in Seq(Packets), NEW t \in Seq(Packets), t # <<>>
  PROVE  Len(r) < Len(r \o t) /\ (r \o t)[Len(r) + 1] = Head(t)
<1>1. /\ Len(r) \in Nat /\ Len(t) \in Nat /\ Len(t) >= 1 /\ Head(t) = t[1]
  BY HeadFirst, LenProperties
<1>2. /\ Len(r \o t) = Len(r) + Len(t)
      /\ \A i \in 1 .. Len(r) + Len(t) : (r \o t)[i] = IF i <= Len(r) THEN r[i] ELSE t[i - Len(r)]
  BY ConcatProperties
<1>3. /\ Len(r) + 1 \in 1 .. Len(r) + Len(t) /\ ~(Len(r) + 1 <= Len(r)) /\ Len(r) + 1 - Len(r) = 1
  BY <1>1
<1> QED
  BY <1>1, <1>2, <1>3

LEMMA Delivers ==
  ASSUME Inv, NEW c \in Proc, NEW p \in Proc, Reads(c, p, "DATA") \/ Reads(c, p, "CLOSE"), Handled(c, p)
  PROVE  C!Deliver(p) /\ stage[Main][p] = "open"
<1>1. PICK q \in Proc : q = 1 - p /\ p = 1 - q /\ q = Peer(p)
  BY Sides
<1>2. /\ stage[c][p] = "open" /\ wire[c][q] # <<>> /\ Head(wire[c][q]).type \in {"DATA", "CLOSE"}
      /\ received' = [received EXCEPT ![p] = Append(@, Head(wire[c][q]))]
  BY <1>1 DEF Reads, Arrived, Handled
<1>3. c = Main
  BY <1>2, PacketsOnMain
<1>4. Way(q) # <<>> /\ Head(wire[c][q]) = Head(Way(q))
  BY <1>1, <1>2, <1>3, Reading
<1>5. /\ received[p] \in Seq(Packets) /\ Way(q) \in Seq(Packets) /\ Unwritten(q) \in Seq(Packets)
      /\ Way(q) \o Unwritten(q) \in Seq(Packets)
      /\ sent[q] = received[p] \o (Way(q) \o Unwritten(q))
  BY <1>1, Known
<1>6. Way(q) \o Unwritten(q) # <<>> /\ Head(Way(q) \o Unwritten(q)) = Head(Way(q))
  BY <1>4, <1>5, HeadJoined
<1>7. Len(received[p]) < Len(sent[q]) /\ sent[q][Len(received[p]) + 1] = Head(wire[c][q])
  BY <1>4, <1>5, <1>6, NextPacket, ZenonT(60)
<1>8. received' = [received EXCEPT ![p] = Append(@, sent[1 - p][Len(@) + 1])]
  BY <1>1, <1>2, <1>7
<1> QED
  BY <1>1, <1>2, <1>3, <1>7, <1>8 DEF C!Deliver

(* A call that sends is a Send of the channel. *)
LEMMA CallSends ==
  ASSUME Inv, NEW p \in Proc, NEW m \in Packets, mpi[p] = "running",
         sent' = [sent EXCEPT ![p] = Append(@, m)], received' = received,
         \A x \in Proc : x # p => mpi'[x] = mpi[x] /\ outstanding'[x] = outstanding[x],
         mpi'[p] = "running" \/ outstanding'[p] # 0
  PROVE  [C!Next]_(C!vars)
<1>1. TypeOK
  BY DEF Inv
<1>2. \A x \in Proc : ~ended[x]
  <2>1. stage[Main][p] \notin {"closing", "closed"}
    BY Calling
  <2> QED
    BY <2>1, NobodyEnded
<1>3. \A x \in Proc : x # p => sent'[x] = sent[x]
  BY <1>1 DEF TypeOK
<1>4. ended' = ended
  <2>1. ~ended'[p]
    BY EndedIs
  <2>2. \A x \in Proc : x # p => (ended'[x] <=> ended[x])
    BY <1>3, EndedIs
  <2> QED
    BY <1>2, <2>1, <2>2, EndedKept
<1>5. C!Send(p)
  BY <1>2 DEF C!Send, C!Proc, Proc
<1> QED
  BY <1>4, <1>5 DEF C!Next, C!Proc, Proc

(* The end of the main connection: nothing is unread on either side. *)
LEMMA ClosesChannel ==
  ASSUME Inv, NEW c \in Proc, NEW p \in Proc, CloseConnectionComplete(c, p)
  PROVE  [C!Next]_(C!vars)
<1>1. TypeOK /\ Other
  BY DEF Inv
<1>2. PICK q \in Proc : q = 1 - p /\ p = 1 - q /\ q # p /\ Peer(p) = q
  BY Sides
<1>3. /\ stage[c][p] = "closing" /\ wire[c][q] # <<>> /\ Head(wire[c][q]).type = "FIN"
      /\ HandleConnection(c, p) /\ UNCHANGED <<mpi, sent, received>>
  BY <1>2 DEF CloseConnectionComplete, Arrived
<1>4. CASE conn[p] # c
  <2>1. UNCHANGED outstanding
    BY <1>3, <1>4 DEF HandleConnection
  <2> QED
    BY <1>3, <2>1, NoneOfTheChannel
<1>5. CASE conn[p] = c
  <2>1. c = Main
    <3>1. SUFFICES ASSUME c # Main PROVE FALSE
      OBVIOUS
    <3>2. Main = 1 /\ c = 0
      BY <1>3, <3>1, Lost
    <3>3. p = 0 \/ p = 1
      BY DEF Proc
    <3> QED
      BY <1>1, <1>3, <1>5, <3>2, <3>3 DEF Other, Late, Asking
  <2>2. Protocol(p) /\ ~Closed(p)
    BY <1>3, <2>1 DEF Inv, Closed
  <2>3. state[p] = "CLOSE_ACKED" /\ outstanding[p] = 1 /\ mpi[p] # "running" /\ sent[p] # <<>>
    <3>1. state[p] = "CLOSE_ACKED"
      BY <1>3, <2>1, <2>2 DEF Protocol
    <3>2. /\ outstanding[p] = 1 /\ mpi[p] # "running" /\ Complete(sent[p])
      BY <2>2, <3>1 DEF Protocol, Complete
    <3>3. sent[p] \in Seq(Packets)
      BY <1>1 DEF TypeOK
    <3> QED
      BY <3>1, <3>2, <3>3, FormsDiffer
  <2>4. outstanding' = [outstanding EXCEPT ![p] = @ - 1]
    BY <1>3, <1>5, <2>3 DEF HandleConnection
  <2>5. outstanding'[p] = 0 /\ outstanding'[q] = outstanding[q]
    <3>1. outstanding' = [outstanding EXCEPT ![p] = 0]
      BY <1>1, <2>3, <2>4 DEF TypeOK
    <3> QED
      BY <1>1, <1>2, <3>1 DEF TypeOK
  <2>6. ended' = [ended EXCEPT ![p] = TRUE]
    <3>1. ended'[p] = TRUE /\ ended'[q] = ended[q]
      BY <1>3, <2>3, <2>5, EndedIs
    <3>2. \A x \in Proc : x = p \/ x = q
      BY <1>2, Sides
    <3>3. \A x \in Proc : ended'[x] = [ended EXCEPT ![p] = TRUE][x]
      BY <3>1, <3>2, EndedIs
    <3>4. [ended EXCEPT ![p] = TRUE] = [x \in Proc |-> [ended EXCEPT ![p] = TRUE][x]]
      BY EndedIs
    <3> QED
      BY <3>3, <3>4, EndedIs
  <2>7. received[p] = sent[q]
    BY <1>2, <1>3, <2>1, NothingMore
  <2>8. received[q] = sent[p]
    <3>1. stage[Main][q] \in {"closing", "closed"}
      BY <1>3, <2>1, FinMeans
    <3>2. received[q] = sent[1 - q]
      BY <3>1, NothingMore
    <3> QED
      BY <1>2, <3>2
  <2>9. C!End(p)
    <3>1. \A x \in Proc : x = p \/ x = q
      BY <1>2, Sides
    <3>2. \A x \in Proc : received[x] = sent[1 - x]
      BY <1>2, <2>7, <2>8, <3>1
    <3> QED
      BY <2>6, <3>2 DEF C!End, C!Proc, Proc
  <2> QED
    BY <1>3, <2>9 DEF C!Next, C!Proc, Proc
<1> QED
  BY <1>4, <1>5

(* The handlers of packets. *)
LEMMA HandlersDeliver ==
  ASSUME Inv, NEW c \in Proc, NEW p \in Proc, HandleData(c, p) \/ HandleClose(c, p)
  PROVE  [C!Next]_(C!vars)
<1>1. TypeOK /\ Protocol(p)
  BY SMTT(60) DEF Inv
<1>2. C!Deliver(p) /\ stage[Main][p] = "open"
  BY Delivers, Zenon DEF HandleData, HandleClose
<1>3. CASE HandleData(c, p)
  <2>1. UNCHANGED <<sent, mpi, outstanding>>
    BY <1>3 DEF HandleData, vcs
  <2>2. ended' = ended
    BY <2>1 DEF ended
  <2> QED
    BY <1>2, <2>1, <2>2 DEF C!Next, C!Proc, Proc
<1>4. CASE HandleClose(c, p)
  <2>1. /\ UNCHANGED <<mpi, outstanding>>
        /\ sent' = [sent EXCEPT ![p] = @ \o (IF state[p] = "LOCAL_CLOSE" THEN <<Close(TRUE)>> ELSE <<>>)]
    BY <1>4, Zenon DEF HandleClose
  <2>2. sent[p] \in Seq(Packets)
    BY <1>1 DEF TypeOK
  <2>3. CASE state[p] = "LOCAL_CLOSE"
    <3>1. PICK m \in Packets : m = Close(TRUE)
      BY ClosePackets
    <3>2. sent' = [sent EXCEPT ![p] = Append(@, m)]
      <4>1. \A k \in Packets : Append(sent[p], k) = sent[p] \o <<k>>
        BY <2>2, AppendIsConcat
      <4>2. sent' = [sent EXCEPT ![p] = @ \o <<m>>]
        BY <2>1, <2>3, <3>1
      <4> QED
        BY <1>1, <4>1, <4>2 DEF TypeOK
    <3>3. \A x \in Proc : ~ended[x]
      BY <1>2, NobodyEnded
    <3>4. outstanding[p] = 1
      <4>1. ~Closed(p)
        BY <1>2 DEF Closed
      <4> QED
        BY <1>1, <2>3, <4>1 DEF Protocol
    <3>5. ended' = ended
      <4>1. ~ended'[p]
        BY <2>1, <3>4, EndedIs
      <4>2. \A x \in Proc : x # p => sent'[x] = sent[x]
        BY <1>1, <3>2 DEF TypeOK
      <4>3. \A x \in Proc : x # p => (ended'[x] <=> ended[x])
        BY <2>1, <4>2, EndedIs
      <4> QED
        BY <3>3, <4>1, <4>3, EndedKept
    <3>6. C!Send(p)
      BY <3>2, <3>3 DEF C!Send, C!Proc, Proc
    <3> QED
      BY <1>2, <3>5, <3>6 DEF C!Next, C!Proc, Proc
  <2>4. CASE state[p] # "LOCAL_CLOSE"
    <3>1. sent' = sent
      <4>1. sent[p] \o <<>> = sent[p]
        BY <2>2, PacketsEmpty
      <4> QED
        BY <1>1, <2>1, <2>4, <4>1 DEF TypeOK
    <3>2. ended' = ended
      BY <2>1, <3>1 DEF ended
    <3> QED
      BY <1>2, <3>1, <3>2 DEF C!Next, C!Proc, Proc
  <2> QED
    BY <2>3, <2>4, SMTT(60)
<1> QED
  BY <1>3, <1>4

(* Neither side is ended while one may call the library. *)
LEMMA SendMessageSends ==
  ASSUME Inv, NEW p \in Proc, SendMessage(p)
  PROVE  [C!Next]_(C!vars)
<1>1. TypeOK
  BY DEF Inv
<1>2. /\ mpi[p] = "running" /\ Messages(sent[p]) < plan.messages[p + 1]
      /\ SendRequest(p, Data(Messages(sent[p]) + 1), FALSE)
      /\ UNCHANGED <<mpi, outstanding, received>>
  BY DEF SendMessage, MayCall
<1>3. PICK m \in Packets : m = Data(Messages(sent[p]) + 1)
  <2>1. sent[p] \in Seq(Packets) /\ plan \in Plans
    BY <1>1 DEF TypeOK
  <2> QED
    BY <1>2, <2>1, MessagesCount, MessageIsPacket
<1>4. sent' = [sent EXCEPT ![p] = Append(@, m)]
  BY <1>2, <1>3 DEF SendRequest
<1>5. /\ received' = received /\ mpi'[p] = "running"
      /\ \A x \in Proc : x # p => mpi'[x] = mpi[x] /\ outstanding'[x] = outstanding[x]
  BY <1>2
<1> QED
  BY <1>2, <1>4, <1>5, CallSends

(* MPI_Finalize sends a close packet, or nothing if nothing was ever sent. *)
LEMMA FinalizeSends ==
  ASSUME Inv, NEW p \in Proc, Finalize(p)
  PROVE  [C!Next]_(C!vars)
<1>1. TypeOK
  BY DEF Inv
<1>2. /\ mpi[p] = "running" /\ mpi' = [mpi EXCEPT ![p] = "finalizing"] /\ received' = received
  BY DEF Finalize, MayCall
<1>3. /\ ~Closed(p) /\ state[p] \in {"INACTIVE", "ACTIVE", "REMOTE_CLOSE"}
      /\ state[p] = "INACTIVE" => sent[p] = <<>>
      /\ stage[Main][p] \notin {"closing", "closed"}
  BY <1>2, Calling
<1>4. \A x \in Proc : x # p => mpi'[x] = mpi[x]
  BY <1>2
<1>5. CASE state[p] \in {"ACTIVE", "REMOTE_CLOSE"}
  <2>1. /\ outstanding' = [outstanding EXCEPT ![p] = @ + 1]
        /\ SendRequest(p, Close(state[p] # "ACTIVE"), TRUE)
    BY <1>5 DEF Finalize
  <2>2. PICK m \in Packets : m = Close(state[p] # "ACTIVE")
    <3>1. CASE state[p] = "ACTIVE"
      BY <3>1, ClosePackets
    <3>2. CASE state[p] = "REMOTE_CLOSE"
      BY <3>2, ClosePackets
    <3> QED
      BY <1>5, <3>1, <3>2
  <2>3. sent' = [sent EXCEPT ![p] = Append(@, m)]
    BY <2>1, <2>2 DEF SendRequest
  <2>4. outstanding'[p] # 0 /\ \A x \in Proc : x # p => outstanding'[x] = outstanding[x]
    <3>1. outstanding \in [Proc -> {0, 1}]
      BY <1>1 DEF TypeOK
    <3>2. outstanding' = [outstanding EXCEPT ![p] = @ + 1]
      BY <2>1
    <3>3. outstanding'[p] = outstanding[p] + 1 /\ outstanding[p] \in {0, 1}
      BY <3>1, <3>2
    <3> QED
      BY <3>1, <3>2, <3>3
  <2>5. \A x \in Proc : x # p => mpi'[x] = mpi[x] /\ outstanding'[x] = outstanding[x]
    BY <1>4, <2>4
  <2> QED
    BY <1>2, <2>3, <2>4, <2>5, CallSends
<1>6. CASE state[p] = "INACTIVE"
  <2>1. UNCHANGED <<outstanding, sent>> /\ sent[p] = <<>>
    BY <1>3, <1>6 DEF Finalize
  <2>2. \A x \in Proc : ended'[x] <=> ended[x]
    BY <1>2, <1>4, <2>1, EndedIs
  <2> QED
    BY <1>2, <2>1, <2>2, EndedKept DEF C!vars
<1> QED
  BY <1>3, <1>5, <1>6

(* MPI_Finalize returns: its connection is ended already. *)
LEMMA ReturnIsNone ==
  ASSUME NEW p \in Proc, mpi \in [Proc -> {"running", "finalizing", "finalized"}], FinalizeReturn(p)
  PROVE  UNCHANGED C!vars
<1>1. /\ mpi[p] = "finalizing" /\ mpi' = [mpi EXCEPT ![p] = "finalized"]
      /\ UNCHANGED <<sent, received, outstanding>>
  BY DEF FinalizeReturn, vcs
<1>2. mpi'[p] # "running" /\ \A x \in Proc : x # p => mpi'[x] = mpi[x]
  BY <1>1
<1>3. \A x \in Proc : ended'[x] <=> ended[x]
  BY <1>1, <1>2, EndedIs
<1> QED
  BY <1>1, <1>3, EndedKept DEF C!vars

(* What the callbacks that connect, write or drop do not touch. *)
LEMMA ConnectingIsNone ==
  ASSUME NEW p \in Proc, Establish(p) \/ Connect(p)
  PROVE  UNCHANGED <<sent, received, mpi, outstanding>>
<1>1. CASE Establish(p)
  BY <1>1 DEF Establish, OnlySockets, vcs
<1>2. CASE ConnectSucceeded(p) \/ SendOpenRequestSucceeded(p) \/ AcceptNewConnection(p)
  BY <1>2, SMTT(60) DEF ConnectSucceeded, SendOpenRequestSucceeded, AcceptNewConnection, OnlySockets, vcs
<1>3. CASE RecvOpenRequestData(p)
  BY <1>3 DEF RecvOpenRequestData
<1>4. CASE RecvOpenRequestFailed(p)
  BY <1>4 DEF RecvOpenRequestFailed, OnlySockets, vcs
<1>5. CASE SendOpenResponseSucceeded(p)
  BY <1>5 DEF SendOpenResponseSucceeded, ConnectionComplete, OnlySockets, vcs
<1>6. CASE RecvOpenResponse(p)
  BY <1>6 DEF RecvOpenResponse, ConnectionComplete, OnlySockets, vcs
<1> QED
  BY <1>1, <1>2, <1>3, <1>4, <1>5, <1>6, SMTT(60) DEF Connect

LEMMA WritingIsNone ==
  ASSUME NEW c \in Proc, NEW p \in Proc,
         \/ ConnectDeferred(p) \/ WriteDeferred(p) \/ SendHead(p)
         \/ SendMessageSucceeded(c, p) \/ RecvFailed(c, p) \/ GracefulCloseDiscard(c, p)
  PROVE  UNCHANGED <<sent, received, mpi, outstanding>>
<1>1. CASE ConnectDeferred(p)
  BY <1>1 DEF ConnectDeferred
<1>2. CASE WriteDeferred(p)
  BY <1>2 DEF WriteDeferred
<1>3. CASE SendHead(p)
  BY <1>3 DEF SendHead
<1>4. CASE SendMessageSucceeded(c, p)
  BY <1>4 DEF SendMessageSucceeded
<1>5. CASE RecvFailed(c, p) \/ GracefulCloseDiscard(c, p)
  BY <1>5 DEF RecvFailed, GracefulCloseDiscard, OnlySockets, vcs
<1> QED
  BY <1>1, <1>2, <1>3, <1>4, <1>5

(* Every step of the connection is a step of the channel, or none. *)
LEMMA ChannelStep ==
  ASSUME Inv, [Next]_vars
  PROVE  [C!Next]_(C!vars)
<1>1. CASE UNCHANGED vars
  <2>1. UNCHANGED <<sent, received, mpi, outstanding>>
    BY <1>1 DEF vars, vcs
  <2> QED
    BY <2>1, NoneOfTheChannel
<1>2. ASSUME NEW p \in Proc, SendMessage(p) \/ Finalize(p)
      PROVE  [C!Next]_(C!vars)
  BY <1>2, SendMessageSends, FinalizeSends
<1>3. ASSUME NEW p \in Proc, Establish(p) \/ Connect(p)
      PROVE  [C!Next]_(C!vars)
  BY <1>3, ConnectingIsNone, NoneOfTheChannel
<1>4. ASSUME NEW p \in Proc, Progress(p)
      PROVE  [C!Next]_(C!vars)
  <2>1. CASE ConnectDeferred(p) \/ WriteDeferred(p) \/ SendHead(p)
    <3>1. UNCHANGED <<sent, received, mpi, outstanding>>
      BY <2>1, WritingIsNone
    <3> QED
      BY <3>1, NoneOfTheChannel
  <2>2. CASE FinalizeReturn(p)
    <3>1. mpi \in [Proc -> {"running", "finalizing", "finalized"}]
      BY DEF Inv, TypeOK
    <3> QED
      BY <2>2, <3>1, ReturnIsNone
  <2>3. ASSUME NEW c \in Proc,
               SendMessageSucceeded(c, p) \/ RecvFailed(c, p) \/ GracefulCloseDiscard(c, p)
        PROVE  [C!Next]_(C!vars)
    <3>1. UNCHANGED <<sent, received, mpi, outstanding>>
      BY <2>3, WritingIsNone
    <3> QED
      BY <3>1, NoneOfTheChannel
  <2>4. ASSUME NEW c \in Proc,
               HandleData(c, p) \/ HandleClose(c, p) \/ CloseConnectionComplete(c, p)
        PROVE  [C!Next]_(C!vars)
    BY <2>4, HandlersDeliver, ClosesChannel
  <2> QED
    BY <1>4, <2>1, <2>2, <2>3, <2>4 DEF Progress
<1> QED
  BY <1>1, <1>2, <1>3, <1>4 DEF Next

LEMMA ChannelInit == Init => C!Init
<1> SUFFICES ASSUME Init PROVE C!Init
  OBVIOUS
<1>1. /\ mpi = [p \in Proc |-> "running"] /\ sent = [p \in Proc |-> <<>>]
      /\ received = [p \in Proc |-> <<>>]
  BY DEF Init
<1>2. \A p \in Proc : ended[p] = FALSE
  BY <1>1, EndedIs
<1>3. ended = [p \in Proc |-> FALSE]
  BY <1>2, EndedIs
<1> QED
  BY <1>1, <1>3 DEF C!Init, C!Proc, Proc

(* Over the making of two connections at once, the queue, writes in part and  *)
(* the close protocol, MPIDI_CH3_SendRequest and the handlers give what a     *)
(* channel promises: each packet is handled once and in order, and who ends   *)
(* its virtual connection has left nothing unread on either side.             *)
THEOREM ImplementsChannel == OneSender => (Spec => ChannelSpec)
<1> SUFFICES ASSUME OneSender PROVE Spec => ChannelSpec
  OBVIOUS
<1>1. Spec => []Inv
  BY Invariance
<1>2. Init => C!Init
  BY ChannelInit
<1>3. Inv /\ [Next]_vars => [C!Next]_(C!vars)
  BY ChannelStep
<1> QED
  BY <1>1, <1>2, <1>3, PTL DEF Spec, ChannelSpec, C!Spec
=============================================================================

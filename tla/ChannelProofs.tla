---------------------------- MODULE ChannelProofs ----------------------------
(***************************************************************************)
(* Proofs about Channel, the promise of a virtual connection, for every    *)
(* set of packets: what the specification says step by step amounts to an  *)
(* ordered and complete delivery.                                          *)
(***************************************************************************)
EXTENDS Channel, SequenceTheorems, TLAPS

(* A packet put at the end, and the ones before it. *)
LEMMA AppendOne ==
  ASSUME NEW S, NEW s \in Seq(S), NEW m \in S
  PROVE  /\ Append(s, m) \in Seq(S)
         /\ Len(s) \in Nat
         /\ Len(Append(s, m)) = Len(s) + 1
         /\ \A i \in 1 .. Len(s) : Append(s, m)[i] = s[i]
         /\ Append(s, m)[Len(s) + 1] = m
BY AppendProperties, LenProperties

LEMMA SentByPeer ==
  ASSUME TypeOK, NEW p \in Proc
  PROVE  /\ 1 - p \in Proc /\ 1 - (1 - p) = p
         /\ sent[p] \in Seq(Packet) /\ received[p] \in Seq(Packet)
         /\ Len(sent[p]) \in Nat /\ Len(received[p]) \in Nat
         /\ \A i \in 1 .. Len(sent[p]) : sent[p][i] \in Packet
<1>1. 1 - p \in Proc /\ 1 - (1 - p) = p
  BY DEF Proc
<1>2. sent[p] \in Seq(Packet) /\ received[p] \in Seq(Packet)
  BY DEF TypeOK
<1> QED
  BY <1>1, <1>2, LenProperties, ElementOfSeq

LEMMA ChannelTypes == TypeOK /\ [Next]_vars => TypeOK'
<1> SUFFICES ASSUME TypeOK, [Next]_vars PROVE TypeOK'
  OBVIOUS
<1>1. ASSUME NEW p \in Proc, Send(p)
      PROVE  sent' \in [Proc -> Seq(Packet)]
  <2>1. PICK m \in Packet : sent' = [sent EXCEPT ![p] = Append(@, m)]
    BY <1>1 DEF Send
  <2>2. Append(sent[p], m) \in Seq(Packet)
    BY SentByPeer, AppendOne
  <2> QED
    BY <2>1, <2>2 DEF TypeOK
<1>2. ASSUME NEW p \in Proc, Deliver(p)
      PROVE  received' \in [Proc -> Seq(Packet)]
  <2>1. Len(received[p]) + 1 \in 1 .. Len(sent[1 - p])
    BY <1>2, SentByPeer DEF Deliver
  <2>2. sent[1 - p][Len(received[p]) + 1] \in Packet
    BY <2>1, SentByPeer
  <2>3. Append(received[p], sent[1 - p][Len(received[p]) + 1]) \in Seq(Packet)
    BY <2>2, SentByPeer, AppendOne
  <2> QED
    BY <1>2, <2>3 DEF Deliver, TypeOK
<1>3. CASE Next
  <2>1. ASSUME NEW p \in Proc, Send(p) /\ UNCHANGED <<received, ended>>
        PROVE  TypeOK'
    BY <1>1, <2>1 DEF TypeOK
  <2>2. ASSUME NEW p \in Proc, Deliver(p) /\ (Send(p) \/ UNCHANGED sent) /\ UNCHANGED ended
        PROVE  TypeOK'
    BY <1>1, <1>2, <2>2 DEF TypeOK
  <2>3. ASSUME NEW p \in Proc, End(p) /\ UNCHANGED <<sent, received>>
        PROVE  TypeOK'
    BY <2>3 DEF End, TypeOK
  <2> QED
    BY <1>3, <2>1, <2>2, <2>3 DEF Next
<1>4. CASE UNCHANGED vars
  BY <1>4 DEF vars, TypeOK
<1> QED
  BY <1>3, <1>4

-----------------------------------------------------------------------------
(* What a step does to one direction, from p's peer to p. *)
LEMMA SendGrows ==
  ASSUME TypeOK, NEW p \in Proc, Send(p)
  PROVE  \A q \in Proc : /\ Len(sent'[q]) \in Nat /\ Len(sent[q]) <= Len(sent'[q])
                         /\ \A i \in 1 .. Len(sent[q]) : sent'[q][i] = sent[q][i]
<1>1. PICK m \in Packet : sent' = [sent EXCEPT ![p] = Append(@, m)]
  BY DEF Send
<1>2. TAKE q \in Proc
<1>3. CASE q = p
  <2>1. sent'[q] = Append(sent[p], m)
    BY <1>1, <1>3 DEF TypeOK
  <2> QED
    BY <1>3, <2>1, SentByPeer, AppendOne
<1>4. CASE q # p
  <2>1. sent'[q] = sent[q]
    BY <1>1, <1>4 DEF TypeOK
  <2> QED
    BY <2>1, SentByPeer
<1> QED
  BY <1>3, <1>4

LEMMA DeliverNext ==
  ASSUME TypeOK, InOrder, NEW p \in Proc, Deliver(p)
  PROVE  \A q \in Proc : /\ Len(received'[q]) \in Nat /\ Len(received'[q]) <= Len(sent[1 - q])
                         /\ \A i \in 1 .. Len(received'[q]) : received'[q][i] = sent[1 - q][i]
<1> DEFINE m == sent[1 - p][Len(received[p]) + 1]
<1>1. TAKE q \in Proc
<1>2. CASE q = p
  <2>1. received'[q] = Append(received[p], m)
    BY <1>2 DEF Deliver, TypeOK
  <2>2. m \in Packet
    BY SentByPeer DEF Deliver
  <2> HIDE DEF m
  <2>3. /\ Len(received'[q]) = Len(received[p]) + 1
        /\ \A i \in 1 .. Len(received[p]) : received'[q][i] = received[p][i]
        /\ received'[q][Len(received[p]) + 1] = m
    BY <2>1, <2>2, SentByPeer, AppendOne
  <2> USE DEF m
  <2> QED
    BY <1>2, <2>3, SentByPeer DEF Deliver, InOrder
<1>3. CASE q # p
  <2>1. received'[q] = received[q]
    BY <1>3 DEF Deliver, TypeOK
  <2> QED
    BY <2>1, SentByPeer DEF InOrder
<1> QED
  BY <1>2, <1>3

LEMMA OrderStep == TypeOK /\ InOrder /\ [Next]_vars => InOrder'
<1> SUFFICES ASSUME TypeOK, InOrder, [Next]_vars PROVE InOrder'
  OBVIOUS
<1>1. ASSUME NEW p \in Proc, Send(p), UNCHANGED received
      PROVE  InOrder'
  <2>1. ASSUME NEW q \in Proc
        PROVE  /\ Len(received'[q]) <= Len(sent'[1 - q])
               /\ \A i \in 1 .. Len(received'[q]) : received'[q][i] = sent'[1 - q][i]
    BY <1>1, SendGrows, SentByPeer DEF InOrder
  <2> QED
    BY <2>1 DEF InOrder
<1>2. ASSUME NEW p \in Proc, Deliver(p), Send(p) \/ UNCHANGED sent
      PROVE  InOrder'
  <2>1. ASSUME NEW q \in Proc
        PROVE  /\ Len(received'[q]) <= Len(sent'[1 - q])
               /\ \A i \in 1 .. Len(received'[q]) : received'[q][i] = sent'[1 - q][i]
    BY <1>2, SendGrows, DeliverNext, SentByPeer
  <2> QED
    BY <2>1 DEF InOrder
<1>3. ASSUME UNCHANGED <<sent, received>>
      PROVE  InOrder'
  BY <1>3 DEF InOrder
<1> QED
  BY <1>1, <1>2, <1>3 DEF Next, vars

LEMMA LeftStep == TypeOK /\ InOrder /\ NothingLeft /\ [Next]_vars => NothingLeft'
<1> SUFFICES ASSUME TypeOK, InOrder, NothingLeft, [Next]_vars PROVE NothingLeft'
  OBVIOUS
<1>1. ASSUME NEW p \in Proc, Send(p), UNCHANGED ended
      PROVE  NothingLeft'
  BY <1>1 DEF Send, NothingLeft
<1>2. ASSUME NEW p \in Proc, Deliver(p), UNCHANGED <<sent, ended>>
      PROVE  NothingLeft'
  <2>1. received[p] # sent[1 - p]
    BY <1>2 , SentByPeer DEF Deliver
  <2> QED
    BY <1>2, <2>1 DEF NothingLeft
<1>3. ASSUME NEW p \in Proc, End(p), UNCHANGED <<sent, received>>
      PROVE  NothingLeft'
  BY <1>3 DEF End, NothingLeft
<1>4. CASE UNCHANGED vars
  BY <1>4 DEF vars, NothingLeft
<1> QED
  BY <1>1, <1>2, <1>3, <1>4 DEF Next

-----------------------------------------------------------------------------
(* What a virtual connection promises, for every set of packets and for as *)
(* many as the two processes send: what a side has handled is a prefix of  *)
(* what the other has sent, and once either side has ended the connection  *)
(* it is all of it, in both directions.                                    *)
THEOREM DeliveredInOrder == Spec => [](InOrder /\ NothingLeft)
<1>1. Init => TypeOK /\ InOrder /\ NothingLeft
  <2> SUFFICES ASSUME Init PROVE TypeOK /\ InOrder /\ NothingLeft
    OBVIOUS
  <2>1. \A p \in Proc : 1 - p \in Proc /\ Len(received[p]) = 0 /\ Len(sent[p]) = 0
    BY EmptySeq DEF Init, Proc
  <2>2. TypeOK
    BY EmptySeq DEF Init, TypeOK
  <2>3. InOrder
    BY <2>1 DEF InOrder
  <2>4. NothingLeft
    BY DEF Init, NothingLeft
  <2> QED
    BY <2>2, <2>3, <2>4
<1>2. TypeOK /\ InOrder /\ NothingLeft /\ [Next]_vars => (TypeOK /\ InOrder /\ NothingLeft)'
  BY ChannelTypes, OrderStep, LeftStep
<1> QED
  BY <1>1, <1>2, PTL DEF Spec
=============================================================================

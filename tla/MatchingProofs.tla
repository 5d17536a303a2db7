--------------------------- MODULE MatchingProofs ---------------------------
(***************************************************************************)
(* What Matching promises, proved for every set of processes and tags and  *)
(* for histories of any length: a matched receive holds a message of its   *)
(* own, the fate of a message or a receive is final, and neither side is   *)
(* overtaken.                                                              *)
(*                                                                         *)
(* The argument is the same for all of them.  A step only adds sends and   *)
(* receives at the end and decides pending ones (SendsKept, RecvsKept),    *)
(* and it matches at most one receive, correctly and in order (Fresh).     *)
(***************************************************************************)
EXTENDS Matching, SequenceTheorems, TLAPS

(* A step leaves every send in its place and decides only pending ones.    *)
SendsKept ==
  \A p \in Proc :
    /\ Len(sends[p]) <= Len(sends'[p])
    /\ \A i \in 1 .. Len(sends[p]) :
         /\ sends'[p][i].dst = sends[p][i].dst
         /\ sends'[p][i].tag = sends[p][i].tag
         /\ sends[p][i].fate # "pending" => sends'[p][i].fate = sends[p][i].fate

(* The same of receives, except that what is no longer pending is frozen.  *)
RecvsKept ==
  \A q \in Proc :
    /\ Len(recvs[q]) <= Len(recvs'[q])
    /\ \A j \in 1 .. Len(recvs[q]) :
         /\ recvs'[q][j].rank = recvs[q][j].rank
         /\ recvs'[q][j].tag = recvs[q][j].tag
         /\ recvs[q][j].fate # "pending" => recvs'[q][j] = recvs[q][j]

(* Receive j of q now holds message i of p, which was not taken before.    *)
NowHolds(q, j, p, i) ==
  /\ j \in 1 .. Len(recvs'[q])
  /\ recvs'[q][j].msg = <<p, i>>
  /\ i \in 1 .. Len(sends'[p])
  /\ sends'[p][i].fate = "matched"
  /\ sends'[p][i].dst = q
  /\ Matches(p, sends'[p][i].tag, recvs'[q][j])
  /\ i <= Len(sends[p]) => sends[p][i].fate = "pending"
  /\ j <= Len(recvs[q]) => recvs[q][j].fate = "pending"

(* ... and it overtook nothing.                                            *)
InOrder(q, j, p, i) ==
  /\ \A k \in 1 .. i - 1 :
       /\ sends'[p][k].dst = q
       /\ sends'[p][k].fate = "pending"
       => ~Matches(p, sends'[p][k].tag, recvs'[q][j])
  /\ \A k \in 1 .. j - 1 :
       recvs'[q][k].fate = "pending" => ~Matches(p, sends'[p][i].tag, recvs'[q][k])

(* Every matched receive but (q, j) was matched before the step.           *)
OnlyNew(q, j) ==
  \A r \in Proc : \A k \in 1 .. Len(recvs'[r]) :
    recvs'[r][k].fate = "matched" =>
      \/ r = q /\ k = j
      \/ k <= Len(recvs[r]) /\ recvs[r][k].fate = "matched"

NoneNew ==
  \A r \in Proc : \A k \in 1 .. Len(recvs'[r]) :
    recvs'[r][k].fate = "matched" =>
      k <= Len(recvs[r]) /\ recvs[r][k].fate = "matched"

Fresh ==
  \/ NoneNew
  \/ \E q, p \in Proc : \E j, i \in Nat :
       OnlyNew(q, j) /\ NowHolds(q, j, p, i) /\ InOrder(q, j, p, i)

-----------------------------------------------------------------------------
(* Appending to, and overwriting in, the sequence of one process.          *)
LEMMA AppendOne ==
  ASSUME NEW S, NEW f \in [Proc -> Seq(S)], NEW p \in Proc, NEW v \in S
  PROVE  LET g == [f EXCEPT ![p] = Append(@, v)] IN
         /\ g \in [Proc -> Seq(S)]
         /\ \A r \in Proc \ {p} : g[r] = f[r]
         /\ Len(f[p]) \in Nat
         /\ Len(g[p]) = Len(f[p]) + 1
         /\ \A k \in 1 .. Len(f[p]) : g[p][k] = f[p][k]
         /\ g[p][Len(f[p]) + 1] = v
BY AppendProperties, LenProperties

LEMMA SetOne ==
  ASSUME NEW S, NEW f \in [Proc -> Seq(S)], NEW p \in Proc,
         NEW i \in 1 .. Len(f[p]), NEW v \in S
  PROVE  LET g == [f EXCEPT ![p] = [@ EXCEPT ![i] = v]] IN
         /\ g \in [Proc -> Seq(S)]
         /\ \A r \in Proc \ {p} : g[r] = f[r]
         /\ Len(f[p]) \in Nat
         /\ Len(g[p]) = Len(f[p])
         /\ \A k \in 1 .. Len(f[p]) : g[p][k] = IF k = i THEN v ELSE f[p][k]
<1> DEFINE s == [f[p] EXCEPT ![i] = v]
<1>1. /\ s \in Seq(S) /\ Len(s) = Len(f[p]) /\ Len(f[p]) \in Nat
      /\ \A k \in 1 .. Len(f[p]) : s[k] = IF k = i THEN v ELSE f[p][k]
  BY ExceptSeq, LenProperties
<1>2. [f EXCEPT ![p] = [@ EXCEPT ![i] = v]] = [f EXCEPT ![p] = s]
  OBVIOUS
<1> HIDE DEF s
<1> QED
  BY <1>1, <1>2

(* Types of one entry. *)
LEMMA EntryTypes ==
  ASSUME TypeOK
  PROVE  /\ \A p \in Proc : Len(sends[p]) \in Nat
         /\ \A q \in Proc : Len(recvs[q]) \in Nat
         /\ \A p \in Proc : \A i \in 1 .. Len(sends[p]) : sends[p][i] \in SendRec
         /\ \A q \in Proc : \A j \in 1 .. Len(recvs[q]) : recvs[q][j] \in RecvRec
BY ElementOfSeq, LenProperties DEF TypeOK

-----------------------------------------------------------------------------
(* e may take the place of an old entry: the same send or receive, decided  *)
(* now if it was pending.                                                  *)
SettlesSend(old, e) ==
  /\ e \in SendRec
  /\ e.dst = old.dst /\ e.tag = old.tag
  /\ old.fate = "pending" \/ e.fate = old.fate

SettlesRecv(old, e) ==
  /\ e \in RecvRec
  /\ e.rank = old.rank /\ e.tag = old.tag
  /\ old.fate = "pending"

(* new is old with e added at the end, or with e in place i.               *)
Appended(new, old, e) ==
  /\ Len(new) = Len(old) + 1
  /\ \A k \in 1 .. Len(old) : new[k] = old[k]
  /\ new[Len(old) + 1] = e

Overwritten(new, old, i, e) ==
  /\ Len(new) = Len(old)
  /\ \A k \in 1 .. Len(old) : new[k] = IF k = i THEN e ELSE old[k]

(***************************************************************************)
(* The four ways a step changes the histories.                             *)
(***************************************************************************)
LEMMA AppendSend ==
  ASSUME TypeOK, NEW p \in Proc, NEW e \in SendRec,
         sends' = [sends EXCEPT ![p] = Append(@, e)]
  PROVE  /\ sends' \in [Proc -> Seq(SendRec)]
         /\ SendsKept
         /\ Appended(sends'[p], sends[p], e)
<1>1. /\ sends' \in [Proc -> Seq(SendRec)]
      /\ \A r \in Proc \ {p} : sends'[r] = sends[r]
      /\ Len(sends'[p]) = Len(sends[p]) + 1
      /\ \A k \in 1 .. Len(sends[p]) : sends'[p][k] = sends[p][k]
      /\ sends'[p][Len(sends[p]) + 1] = e
  BY AppendOne DEF TypeOK
<1>2. ASSUME NEW r \in Proc
      PROVE  /\ Len(sends[r]) <= Len(sends'[r])
             /\ \A i \in 1 .. Len(sends[r]) : sends'[r][i] = sends[r][i]
  <2>1. Len(sends[r]) \in Nat
    BY EntryTypes
  <2>2. CASE r = p
    BY <1>1, <2>1, <2>2
  <2>3. CASE r # p
    BY <1>1, <2>1, <2>3
  <2> QED
    BY <2>2, <2>3
<1> QED
  BY <1>1, <1>2 DEF SendsKept, Appended

LEMMA DecideSend ==
  ASSUME TypeOK, NEW p \in Proc, NEW i \in 1 .. Len(sends[p]), NEW e,
         SettlesSend(sends[p][i], e),
         sends' = [sends EXCEPT ![p] = [@ EXCEPT ![i] = e]]
  PROVE  /\ sends' \in [Proc -> Seq(SendRec)]
         /\ SendsKept
         /\ Overwritten(sends'[p], sends[p], i, e)
<1>1. /\ sends' \in [Proc -> Seq(SendRec)]
      /\ \A r \in Proc \ {p} : sends'[r] = sends[r]
      /\ Len(sends'[p]) = Len(sends[p])
      /\ \A k \in 1 .. Len(sends[p]) : sends'[p][k] = IF k = i THEN e ELSE sends[p][k]
  BY SetOne DEF TypeOK, SettlesSend
<1>2. ASSUME NEW r \in Proc
      PROVE  /\ Len(sends[r]) <= Len(sends'[r])
             /\ \A k \in 1 .. Len(sends[r]) :
                  sends'[r][k] = IF r = p /\ k = i THEN e ELSE sends[r][k]
  <2>1. Len(sends[r]) \in Nat
    BY EntryTypes
  <2>2. CASE r = p
    BY <1>1, <2>1, <2>2
  <2>3. CASE r # p
    BY <1>1, <2>1, <2>3
  <2> QED
    BY <2>2, <2>3
<1>3. SendsKept
  BY <1>2 DEF SendsKept, SettlesSend
<1> QED
  BY <1>1, <1>3 DEF Overwritten

LEMMA AppendRecv ==
  ASSUME TypeOK, NEW q \in Proc, NEW e \in RecvRec,
         recvs' = [recvs EXCEPT ![q] = Append(@, e)]
  PROVE  /\ recvs' \in [Proc -> Seq(RecvRec)]
         /\ RecvsKept
         /\ OnlyNew(q, Len(recvs[q]) + 1)
         /\ e.fate # "matched" => NoneNew
         /\ Appended(recvs'[q], recvs[q], e)
<1>1. /\ recvs' \in [Proc -> Seq(RecvRec)]
      /\ \A r \in Proc \ {q} : recvs'[r] = recvs[r]
      /\ Len(recvs'[q]) = Len(recvs[q]) + 1
      /\ \A k \in 1 .. Len(recvs[q]) : recvs'[q][k] = recvs[q][k]
      /\ recvs'[q][Len(recvs[q]) + 1] = e
  BY AppendOne DEF TypeOK
<1>2. ASSUME NEW r \in Proc
      PROVE  /\ Len(recvs[r]) <= Len(recvs'[r])
             /\ \A k \in 1 .. Len(recvs[r]) : recvs'[r][k] = recvs[r][k]
             /\ \A k \in 1 .. Len(recvs'[r]) :
                  k <= Len(recvs[r]) \/ (r = q /\ k = Len(recvs[q]) + 1)
  <2>1. Len(recvs[r]) \in Nat
    BY EntryTypes
  <2>2. CASE r = q
    BY <1>1, <2>1, <2>2
  <2>3. CASE r # q
    BY <1>1, <2>1, <2>3
  <2> QED
    BY <2>2, <2>3
<1>3. RecvsKept
  BY <1>2 DEF RecvsKept
<1>4. ASSUME NEW r \in Proc, NEW k \in 1 .. Len(recvs'[r]), recvs'[r][k].fate = "matched"
      PROVE  \/ r = q /\ k = Len(recvs[q]) + 1 /\ e.fate = "matched"
             \/ k <= Len(recvs[r]) /\ recvs[r][k].fate = "matched"
  <2>1. Len(recvs[r]) \in Nat
    BY EntryTypes
  <2>2. CASE k <= Len(recvs[r])
    BY <1>2, <1>4, <2>1, <2>2
  <2>3. CASE r = q /\ k = Len(recvs[q]) + 1
    BY <1>1, <1>4, <2>3
  <2> QED
    BY <1>2, <2>2, <2>3
<1> QED
  BY <1>1, <1>3, <1>4 DEF OnlyNew, NoneNew, Appended

LEMMA DecideRecv ==
  ASSUME TypeOK, NEW q \in Proc, NEW j \in 1 .. Len(recvs[q]), NEW e,
         SettlesRecv(recvs[q][j], e),
         recvs' = [recvs EXCEPT ![q] = [@ EXCEPT ![j] = e]]
  PROVE  /\ recvs' \in [Proc -> Seq(RecvRec)]
         /\ RecvsKept
         /\ OnlyNew(q, j)
         /\ e.fate # "matched" => NoneNew
         /\ Overwritten(recvs'[q], recvs[q], j, e)
<1>1. /\ recvs' \in [Proc -> Seq(RecvRec)]
      /\ \A r \in Proc \ {q} : recvs'[r] = recvs[r]
      /\ Len(recvs'[q]) = Len(recvs[q])
      /\ \A k \in 1 .. Len(recvs[q]) : recvs'[q][k] = IF k = j THEN e ELSE recvs[q][k]
  BY SetOne DEF TypeOK, SettlesRecv
<1>2. ASSUME NEW r \in Proc
      PROVE  /\ Len(recvs'[r]) = Len(recvs[r])
             /\ Len(recvs[r]) \in Nat
             /\ \A k \in 1 .. Len(recvs[r]) :
                  recvs'[r][k] = IF r = q /\ k = j THEN e ELSE recvs[r][k]
  <2>1. Len(recvs[r]) \in Nat
    BY EntryTypes
  <2>2. CASE r = q
    BY <1>1, <2>1, <2>2
  <2>3. CASE r # q
    BY <1>1, <2>1, <2>3
  <2> QED
    BY <2>2, <2>3
<1>3. RecvsKept
  BY <1>2 DEF RecvsKept, SettlesRecv
<1>4. ASSUME NEW r \in Proc, NEW k \in 1 .. Len(recvs'[r]), recvs'[r][k].fate = "matched"
      PROVE  \/ r = q /\ k = j /\ e.fate = "matched"
             \/ k <= Len(recvs[r]) /\ recvs[r][k].fate = "matched"
  BY <1>2, <1>4
<1> QED
  BY <1>1, <1>3, <1>4 DEF OnlyNew, NoneNew, Overwritten

LEMMA MatchedSend ==
  ASSUME TypeOK, NEW p \in Proc, NEW i \in 1 .. Len(sends[p]),
         sends[p][i].fate = "pending",
         sends' = [sends EXCEPT ![p][i].fate = "matched"]
  PROVE  \E e : /\ SettlesSend(sends[p][i], e) /\ e.fate = "matched"
                /\ sends' = [sends EXCEPT ![p] = [@ EXCEPT ![i] = e]]
<1> DEFINE e == [sends[p][i] EXCEPT !.fate = "matched"]
<1>1. sends[p][i] \in SendRec
  BY EntryTypes
<1>2. SettlesSend(sends[p][i], e) /\ e.fate = "matched"
  BY <1>1 DEF SendRec, Fate, SettlesSend
<1>3. sends' = [sends EXCEPT ![p] = [@ EXCEPT ![i] = e]]
  OBVIOUS
<1> HIDE DEF e
<1> QED
  BY <1>2, <1>3, Zenon

LEMMA SendsSame ==
  ASSUME TypeOK, UNCHANGED sends
  PROVE  sends' \in [Proc -> Seq(SendRec)] /\ SendsKept
BY EntryTypes DEF SendsKept, TypeOK

LEMMA RecvsSame ==
  ASSUME TypeOK, UNCHANGED recvs
  PROVE  recvs' \in [Proc -> Seq(RecvRec)] /\ RecvsKept /\ NoneNew
BY EntryTypes DEF RecvsKept, NoneNew, TypeOK

-----------------------------------------------------------------------------
(***************************************************************************)
(* One lemma per action: it keeps what there was, and matches in order.    *)
(***************************************************************************)
StepEffect == TypeOK' /\ SendsKept /\ RecvsKept /\ Fresh

LEMMA SendEffect ==
  ASSUME TypeOK, NEW p \in Proc, NEW q \in Proc, NEW t \in Tag, Send(p, q, t)
  PROVE  StepEffect
<1>1. NewSend(q, t, "pending") \in SendRec
  BY DEF NewSend, SendRec, Fate
<1>2. sends' \in [Proc -> Seq(SendRec)] /\ SendsKept
  BY <1>1, AppendSend DEF Send
<1>3. recvs' \in [Proc -> Seq(RecvRec)] /\ RecvsKept /\ NoneNew
  BY RecvsSame DEF Send
<1> QED
  BY <1>2, <1>3 DEF StepEffect, TypeOK, Fresh

LEMMA PostEffect ==
  ASSUME TypeOK, NEW q \in Proc, NEW src \in Proc \cup {Wildcard},
         NEW t \in Tag \cup {Wildcard}, Post(q, src, t)
  PROVE  StepEffect
<1> DEFINE e == NewRecv(src, t, "pending", None)
<1>1. e \in RecvRec /\ e.fate # "matched"
  BY DEF NewRecv, RecvRec, Fate
<1>2. recvs' = [recvs EXCEPT ![q] = Append(@, e)]
  BY DEF Post
<1>3. recvs' \in [Proc -> Seq(RecvRec)] /\ RecvsKept /\ NoneNew
  <2> HIDE DEF e
  <2> QED
    BY <1>1, <1>2, AppendRecv
<1>4. sends' \in [Proc -> Seq(SendRec)] /\ SendsKept
  BY SendsSame DEF Post
<1> QED
  BY <1>3, <1>4 DEF StepEffect, TypeOK, Fresh

LEMMA MatchEffect ==
  ASSUME TypeOK, NEW p \in Proc, NEW q \in Proc, NEW i \in 1 .. Len(sends[p]),
         NEW j \in 1 .. Len(recvs[q]), Match(p, i, q, j)
  PROVE  StepEffect
<1>1. /\ sends[p][i] \in SendRec /\ recvs[q][j] \in RecvRec
      /\ Len(sends[p]) \in Nat /\ Len(recvs[q]) \in Nat
      /\ recvs[q][j].fate = "pending" /\ sends[p][i].fate = "pending"
      /\ sends[p][i].dst = q
      /\ Matches(p, sends[p][i].tag, recvs[q][j])
  BY EntryTypes DEF Match, FirstFor
<1>2. PICK e : /\ SettlesSend(sends[p][i], e) /\ e.fate = "matched"
               /\ sends' = [sends EXCEPT ![p] = [@ EXCEPT ![i] = e]]
  BY <1>1, MatchedSend DEF Match
<1>3. PICK g : /\ SettlesRecv(recvs[q][j], g) /\ g.fate = "matched" /\ g.msg = <<p, i>>
               /\ recvs' = [recvs EXCEPT ![q] = [@ EXCEPT ![j] = g]]
  <2> DEFINE g == [recvs[q][j] EXCEPT !.fate = "matched", !.msg = <<p, i>>]
  <2>1. <<p, i>> \in MsgId
    BY <1>1 DEF MsgId
  <2>2. SettlesRecv(recvs[q][j], g) /\ g.fate = "matched" /\ g.msg = <<p, i>>
    BY <1>1, <2>1 DEF RecvRec, Fate, SettlesRecv
  <2>3. recvs' = [recvs EXCEPT ![q] = [@ EXCEPT ![j] = g]]
    BY DEF Match
  <2> HIDE DEF g
  <2> QED
    BY <2>2, <2>3, Zenon
<1>4. /\ sends' \in [Proc -> Seq(SendRec)]
      /\ SendsKept
      /\ Overwritten(sends'[p], sends[p], i, e)
  BY <1>2, DecideSend
<1>5. /\ recvs' \in [Proc -> Seq(RecvRec)]
      /\ RecvsKept
      /\ OnlyNew(q, j)
      /\ Overwritten(recvs'[q], recvs[q], j, g)
  BY <1>3, DecideRecv
<1>6. /\ Len(sends'[p]) = Len(sends[p]) /\ Len(recvs'[q]) = Len(recvs[q])
      /\ \A k \in 1 .. Len(sends[p]) : sends'[p][k] = IF k = i THEN e ELSE sends[p][k]
      /\ \A k \in 1 .. Len(recvs[q]) : recvs'[q][k] = IF k = j THEN g ELSE recvs[q][k]
  BY <1>4, <1>5 DEF Overwritten
<1>7. \A r \in Proc, t \in Tag : Matches(r, t, g) <=> Matches(r, t, recvs[q][j])
  BY <1>3 DEF Matches, SettlesRecv
<1>8. \A k \in 1 .. Len(sends[p]) : sends[p][k].tag \in Tag
  BY EntryTypes DEF SendRec
<1>9. NowHolds(q, j, p, i)
  BY <1>1, <1>2, <1>3, <1>6, <1>7, <1>8 DEF NowHolds, SettlesSend
<1>10. InOrder(q, j, p, i)
  <2>1. ASSUME NEW k \in 1 .. i - 1, sends'[p][k].dst = q, sends'[p][k].fate = "pending"
        PROVE  ~Matches(p, sends'[p][k].tag, recvs'[q][j])
    <3>1. k \in 1 .. Len(sends[p]) /\ sends'[p][k] = sends[p][k]
      BY <1>1, <1>6
    <3>2. recvs'[q][j] = g
      BY <1>6
    <3> QED
      BY <2>1, <3>1, <3>2, <1>7, <1>8 DEF Match, FirstFor
  <2>2. ASSUME NEW k \in 1 .. j - 1, recvs'[q][k].fate = "pending"
        PROVE  ~Matches(p, sends'[p][i].tag, recvs'[q][k])
    <3>1. k \in 1 .. Len(recvs[q]) /\ k # j
      BY <1>1
    <3>2. recvs'[q][k] = recvs[q][k] /\ sends'[p][i] = e
      BY <3>1, <1>6
    <3> QED
      BY <2>2, <3>2, <1>2 DEF Match, NoEarlierRecv, SettlesSend
  <2> QED
    BY <2>1, <2>2 DEF InOrder
<1>11. Fresh
  <2>1. i \in Nat /\ j \in Nat
    BY <1>1
  <2> QED
    BY <2>1, <1>5, <1>9, <1>10 DEF Fresh
<1> QED
  BY <1>4, <1>5, <1>11 DEF StepEffect, TypeOK

LEMMA ReceiveEffect ==
  ASSUME TypeOK, NEW p \in Proc, NEW q \in Proc, NEW i \in 1 .. Len(sends[p]),
         NEW src \in Proc \cup {Wildcard}, NEW t \in Tag \cup {Wildcard},
         Receive(p, i, q, src, t)
  PROVE  StepEffect
<1> DEFINE g == NewRecv(src, t, "matched", <<p, i>>)
           j == Len(recvs[q]) + 1
<1>1. /\ sends[p][i] \in SendRec
      /\ Len(sends[p]) \in Nat /\ Len(recvs[q]) \in Nat
      /\ sends[p][i].fate = "pending"
      /\ sends[p][i].dst = q
      /\ Matches(p, sends[p][i].tag, g)
  BY EntryTypes DEF Receive, FirstFor
<1>2. PICK e : /\ SettlesSend(sends[p][i], e) /\ e.fate = "matched"
               /\ sends' = [sends EXCEPT ![p] = [@ EXCEPT ![i] = e]]
  BY <1>1, MatchedSend DEF Receive
<1>3. /\ g \in RecvRec /\ g.fate = "matched" /\ g.msg = <<p, i>>
  <2>1. <<p, i>> \in MsgId
    BY <1>1 DEF MsgId
  <2> QED
    BY <2>1 DEF RecvRec, Fate, NewRecv
<1>4. /\ recvs' = [recvs EXCEPT ![q] = Append(@, g)]
      /\ FirstFor(p, i, q, g)
      /\ NoEarlierRecv(p, sends[p][i].tag, q, j)
  BY DEF Receive
<1> HIDE DEF g
<1>5. /\ sends' \in [Proc -> Seq(SendRec)]
      /\ SendsKept
      /\ Overwritten(sends'[p], sends[p], i, e)
  BY <1>2, DecideSend
<1>6. /\ recvs' \in [Proc -> Seq(RecvRec)]
      /\ RecvsKept
      /\ OnlyNew(q, j)
      /\ Appended(recvs'[q], recvs[q], g)
  BY <1>3, <1>4, AppendRecv
<1>7. /\ Len(sends'[p]) = Len(sends[p]) /\ Len(recvs'[q]) = j
      /\ \A k \in 1 .. Len(sends[p]) : sends'[p][k] = IF k = i THEN e ELSE sends[p][k]
      /\ \A k \in 1 .. Len(recvs[q]) : recvs'[q][k] = recvs[q][k]
      /\ recvs'[q][j] = g
  BY <1>5, <1>6 DEF Overwritten, Appended
<1>8. NowHolds(q, j, p, i)
  BY <1>1, <1>2, <1>3, <1>7 DEF NowHolds, SettlesSend
<1>9. InOrder(q, j, p, i)
  <2>1. ASSUME NEW k \in 1 .. i - 1, sends'[p][k].dst = q, sends'[p][k].fate = "pending"
        PROVE  ~Matches(p, sends'[p][k].tag, recvs'[q][j])
    <3>1. sends'[p][k] = sends[p][k]
      BY <1>1, <1>7
    <3> QED
      BY <2>1, <3>1, <1>4, <1>7 DEF FirstFor
  <2>2. ASSUME NEW k \in 1 .. j - 1, recvs'[q][k].fate = "pending"
        PROVE  ~Matches(p, sends'[p][i].tag, recvs'[q][k])
    <3>1. recvs'[q][k] = recvs[q][k] /\ sends'[p][i] = e
      BY <1>1, <1>7
    <3> QED
      BY <2>2, <3>1, <1>2, <1>4 DEF NoEarlierRecv, SettlesSend
  <2> QED
    BY <2>1, <2>2 DEF InOrder
<1>10. Fresh
  <2>1. i \in Nat /\ j \in Nat
    BY <1>1
  <2> QED
    BY <2>1, <1>6, <1>8, <1>9 DEF Fresh
<1> QED
  BY <1>5, <1>6, <1>10 DEF StepEffect, TypeOK

LEMMA SendToPostedEffect ==
  ASSUME TypeOK, NEW p \in Proc, NEW t \in Tag, NEW j \in 1 .. Len(recvs[p]),
         SendToPosted(p, t, j)
  PROVE  StepEffect
<1> DEFINE i == Len(sends[p]) + 1
           e == NewSend(p, t, "matched")
<1>1. /\ recvs[p][j] \in RecvRec
      /\ Len(sends[p]) \in Nat /\ Len(recvs[p]) \in Nat
      /\ recvs[p][j].fate = "pending"
      /\ Matches(p, t, recvs[p][j])
  BY EntryTypes DEF SendToPosted
<1>2. e \in SendRec /\ e.fate = "matched" /\ e.dst = p /\ e.tag = t
  BY DEF SendRec, Fate, NewSend
<1>3. PICK g : /\ SettlesRecv(recvs[p][j], g) /\ g.fate = "matched" /\ g.msg = <<p, i>>
               /\ recvs' = [recvs EXCEPT ![p] = [@ EXCEPT ![j] = g]]
  <2> DEFINE g == [recvs[p][j] EXCEPT !.fate = "matched", !.msg = <<p, i>>]
  <2>1. <<p, i>> \in MsgId
    BY <1>1 DEF MsgId
  <2>2. SettlesRecv(recvs[p][j], g) /\ g.fate = "matched" /\ g.msg = <<p, i>>
    BY <1>1, <2>1 DEF RecvRec, Fate, SettlesRecv
  <2>3. recvs' = [recvs EXCEPT ![p] = [@ EXCEPT ![j] = g]]
    BY DEF SendToPosted
  <2> HIDE DEF g
  <2> QED
    BY <2>2, <2>3, Zenon
<1>4. sends' = [sends EXCEPT ![p] = Append(@, e)]
  BY DEF SendToPosted
<1> HIDE DEF e
<1>5. /\ sends' \in [Proc -> Seq(SendRec)]
      /\ SendsKept
      /\ Appended(sends'[p], sends[p], e)
  BY <1>2, <1>4, AppendSend
<1>6. /\ recvs' \in [Proc -> Seq(RecvRec)]
      /\ RecvsKept
      /\ OnlyNew(p, j)
      /\ Overwritten(recvs'[p], recvs[p], j, g)
  BY <1>3, DecideRecv
<1>7. /\ Len(sends'[p]) = i /\ Len(recvs'[p]) = Len(recvs[p])
      /\ \A k \in 1 .. Len(sends[p]) : sends'[p][k] = sends[p][k]
      /\ sends'[p][i] = e
      /\ \A k \in 1 .. Len(recvs[p]) : recvs'[p][k] = IF k = j THEN g ELSE recvs[p][k]
  BY <1>5, <1>6 DEF Overwritten, Appended
<1>8. \A r \in Proc, u \in Tag : Matches(r, u, g) <=> Matches(r, u, recvs[p][j])
  BY <1>3 DEF Matches, SettlesRecv
<1>9. \A k \in 1 .. Len(sends[p]) : sends[p][k].tag \in Tag
  BY EntryTypes DEF SendRec
<1>10. NowHolds(p, j, p, i)
  BY <1>1, <1>2, <1>3, <1>7, <1>8 DEF NowHolds
<1>11. InOrder(p, j, p, i)
  <2>1. ASSUME NEW k \in 1 .. i - 1, sends'[p][k].dst = p, sends'[p][k].fate = "pending"
        PROVE  ~Matches(p, sends'[p][k].tag, recvs'[p][j])
    <3>1. k \in 1 .. Len(sends[p]) /\ sends'[p][k] = sends[p][k] /\ recvs'[p][j] = g
      BY <1>1, <1>7
    <3> QED
      BY <2>1, <3>1, <1>8, <1>9 DEF SendToPosted
  <2>2. ASSUME NEW k \in 1 .. j - 1, recvs'[p][k].fate = "pending"
        PROVE  ~Matches(p, sends'[p][i].tag, recvs'[p][k])
    <3>1. recvs'[p][k] = recvs[p][k]
      BY <1>1, <1>7
    <3> QED
      BY <2>2, <3>1, <1>2, <1>7 DEF SendToPosted, NoEarlierRecv
  <2> QED
    BY <2>1, <2>2 DEF InOrder
<1>12. Fresh
  <2>1. i \in Nat /\ j \in Nat
    BY <1>1
  <2> QED
    BY <2>1, <1>6, <1>10, <1>11 DEF Fresh
<1> QED
  BY <1>5, <1>6, <1>12 DEF StepEffect, TypeOK

LEMMA AskEffect ==
  ASSUME TypeOK, NEW p \in Proc, NEW i \in 1 .. Len(sends[p]),
         AskCancel(p, i) \/ CancelSend(p, i) \/ AskAndCancel(p, i)
  PROVE  StepEffect
<1>1. sends[p][i] \in SendRec
  BY EntryTypes
<1>2. PICK e : /\ SettlesSend(sends[p][i], e)
               /\ sends' = [sends EXCEPT ![p] = [@ EXCEPT ![i] = e]]
  <2> DEFINE a == [sends[p][i] EXCEPT !.asked = TRUE]
             c == [sends[p][i] EXCEPT !.fate = "cancelled"]
             ac == [sends[p][i] EXCEPT !.asked = TRUE, !.fate = "cancelled"]
  <2>1. /\ SettlesSend(sends[p][i], a)
        /\ sends[p][i].fate = "pending" =>
             SettlesSend(sends[p][i], c) /\ SettlesSend(sends[p][i], ac)
    BY <1>1 DEF SettlesSend, SendRec, Fate
  <2>2. \/ sends' = [sends EXCEPT ![p] = [@ EXCEPT ![i] = a]]
        \/ /\ sends[p][i].fate = "pending"
           /\ sends' = [sends EXCEPT ![p] = [@ EXCEPT ![i] = c]]
        \/ /\ sends[p][i].fate = "pending"
           /\ sends' = [sends EXCEPT ![p] = [@ EXCEPT ![i] = ac]]
    BY DEF AskCancel, CancelSend, AskAndCancel
  <2> HIDE DEF a, c, ac
  <2> QED
    BY <2>1, <2>2, Zenon
<1>3. sends' \in [Proc -> Seq(SendRec)] /\ SendsKept
  BY <1>2, DecideSend
<1>4. recvs' \in [Proc -> Seq(RecvRec)] /\ RecvsKept /\ NoneNew
  BY RecvsSame DEF AskCancel, CancelSend, AskAndCancel
<1> QED
  BY <1>3, <1>4 DEF StepEffect, TypeOK, Fresh

LEMMA CancelRecvEffect ==
  ASSUME TypeOK, NEW q \in Proc, NEW j \in 1 .. Len(recvs[q]), CancelRecv(q, j)
  PROVE  StepEffect
<1>1. recvs[q][j] \in RecvRec /\ recvs[q][j].fate = "pending"
  BY EntryTypes DEF CancelRecv
<1>2. PICK e : /\ SettlesRecv(recvs[q][j], e) /\ e.fate # "matched"
               /\ recvs' = [recvs EXCEPT ![q] = [@ EXCEPT ![j] = e]]
  <2> DEFINE e == [recvs[q][j] EXCEPT !.fate = "cancelled"]
  <2>1. SettlesRecv(recvs[q][j], e) /\ e.fate # "matched"
    BY <1>1 DEF RecvRec, Fate, SettlesRecv
  <2>2. recvs' = [recvs EXCEPT ![q] = [@ EXCEPT ![j] = e]]
    BY DEF CancelRecv
  <2> HIDE DEF e
  <2> QED
    BY <2>1, <2>2, Zenon
<1>3. recvs' \in [Proc -> Seq(RecvRec)] /\ RecvsKept /\ NoneNew
  BY <1>2, DecideRecv
<1>4. sends' \in [Proc -> Seq(SendRec)] /\ SendsKept
  BY SendsSame DEF CancelRecv
<1> QED
  BY <1>3, <1>4 DEF StepEffect, TypeOK, Fresh

LEMMA EveryStep == TypeOK /\ [Next]_vars => StepEffect
<1> SUFFICES ASSUME TypeOK, [Next]_vars PROVE StepEffect
  OBVIOUS
<1>1. CASE UNCHANGED vars
  BY <1>1, SendsSame, RecvsSame DEF vars, StepEffect, TypeOK, Fresh
<1>2. CASE Next
  BY <1>2, SendEffect, PostEffect, MatchEffect, ReceiveEffect, SendToPostedEffect,
     AskEffect, CancelRecvEffect DEF Next
<1> QED
  BY <1>1, <1>2

-----------------------------------------------------------------------------
(***************************************************************************)
(* What follows for the histories after a step.                            *)
(***************************************************************************)

(* A receive that was matched before the step is untouched by it, and so   *)
(* is what matters of its message.                                         *)
LEMMA OldMatch ==
  ASSUME TypeOK, HoldsItsMessage, StepEffect, NEW q \in Proc,
         NEW j \in 1 .. Len(recvs[q]), recvs[q][j].fate = "matched"
  PROVE  LET m == recvs[q][j].msg IN
         /\ recvs'[q][j] = recvs[q][j]
         /\ m \in MsgId /\ m[1] \in Proc /\ m[2] \in 1 .. Len(sends[m[1]])
         /\ Len(sends[m[1]]) <= Len(sends'[m[1]])
         /\ sends[m[1]][m[2]].fate = "matched"
         /\ sends'[m[1]][m[2]].fate = "matched"
         /\ sends'[m[1]][m[2]].dst = sends[m[1]][m[2]].dst
         /\ sends'[m[1]][m[2]].tag = sends[m[1]][m[2]].tag
<1> DEFINE m == recvs[q][j].msg
<1>1. recvs'[q][j] = recvs[q][j]
  BY DEF StepEffect, RecvsKept
<1>2. m \in MsgId /\ m[2] <= Len(sends[m[1]]) /\ sends[m[1]][m[2]].fate = "matched"
  BY DEF HoldsItsMessage
<1> HIDE DEF m
<1>3. m[1] \in Proc /\ m[2] \in 1 .. Len(sends[m[1]])
  <2>1. m[1] \in Proc /\ m[2] \in Nat \ {0}
    BY <1>2 DEF MsgId
  <2> QED
    BY <1>2, <2>1, EntryTypes
<1>4. /\ Len(sends[m[1]]) <= Len(sends'[m[1]])
      /\ sends'[m[1]][m[2]].fate = sends[m[1]][m[2]].fate
      /\ sends'[m[1]][m[2]].dst = sends[m[1]][m[2]].dst
      /\ sends'[m[1]][m[2]].tag = sends[m[1]][m[2]].tag
  BY <1>2, <1>3 DEF StepEffect, SendsKept
<1> QED
  BY <1>1, <1>2, <1>3, <1>4 DEF m

(* A receive that is matched after a step was so before, or is the one the *)
(* step matched.                                                           *)
LEMMA OldOrNew ==
  ASSUME TypeOK, StepEffect, NEW q \in Proc, NEW j \in 1 .. Len(recvs'[q]),
         recvs'[q][j].fate = "matched"
  PROVE  \/ j \in 1 .. Len(recvs[q]) /\ recvs[q][j].fate = "matched"
         \/ \E p \in Proc, i \in Nat :
              OnlyNew(q, j) /\ NowHolds(q, j, p, i) /\ InOrder(q, j, p, i)
<1>1. Len(recvs[q]) \in Nat
  BY EntryTypes
<1>2. CASE NoneNew
  BY <1>1, <1>2 DEF NoneNew
<1>3. ASSUME NEW q0 \in Proc, NEW p \in Proc, NEW j0 \in Nat, NEW i \in Nat,
             OnlyNew(q0, j0), NowHolds(q0, j0, p, i), InOrder(q0, j0, p, i)
      PROVE  \/ j \in 1 .. Len(recvs[q]) /\ recvs[q][j].fate = "matched"
             \/ \E r \in Proc, k \in Nat :
                  OnlyNew(q, j) /\ NowHolds(q, j, r, k) /\ InOrder(q, j, r, k)
  <2>1. CASE q = q0 /\ j = j0
    BY <1>3, <2>1
  <2>2. CASE ~(q = q0 /\ j = j0)
    BY <1>1, <1>3, <2>2 DEF OnlyNew
  <2> QED
    BY <2>1, <2>2
<1> QED
  BY <1>2, <1>3 DEF StepEffect, Fresh

LEMMA HoldsStep ==
  ASSUME TypeOK, HoldsItsMessage, StepEffect
  PROVE  HoldsItsMessage'
<1> SUFFICES ASSUME NEW q \in Proc, NEW j \in 1 .. Len(recvs'[q]),
                    recvs'[q][j].fate = "matched"
             PROVE  LET m == recvs'[q][j].msg IN
                    /\ m \in MsgId
                    /\ m[2] <= Len(sends'[m[1]])
                    /\ sends'[m[1]][m[2]].fate = "matched"
                    /\ sends'[m[1]][m[2]].dst = q
                    /\ Matches(m[1], sends'[m[1]][m[2]].tag, recvs'[q][j])
  BY DEF HoldsItsMessage, Matches
<1>1. CASE j \in 1 .. Len(recvs[q]) /\ recvs[q][j].fate = "matched"
  <2> DEFINE m == recvs[q][j].msg
  <2>1. /\ recvs'[q][j] = recvs[q][j]
        /\ m \in MsgId /\ m[1] \in Proc /\ m[2] \in 1 .. Len(sends[m[1]])
        /\ Len(sends[m[1]]) <= Len(sends'[m[1]])
        /\ sends'[m[1]][m[2]].fate = "matched"
        /\ sends'[m[1]][m[2]].dst = sends[m[1]][m[2]].dst
        /\ sends'[m[1]][m[2]].tag = sends[m[1]][m[2]].tag
    BY <1>1, OldMatch
  <2>2. sends[m[1]][m[2]].dst = q /\ Matches(m[1], sends[m[1]][m[2]].tag, recvs[q][j])
    BY <1>1 DEF HoldsItsMessage
  <2>3. Len(sends[m[1]]) \in Nat /\ Len(sends'[m[1]]) \in Nat
    <3>1. sends'[m[1]] \in Seq(SendRec)
      BY <2>1 DEF StepEffect, TypeOK
    <3> QED
      BY <2>1, <3>1, EntryTypes, LenProperties
  <2>4. m[2] <= Len(sends'[m[1]])
    <3> HIDE DEF m
    <3> QED
      BY <2>1, <2>3
  <2> QED
    BY <2>1, <2>2, <2>4
<1>2. ASSUME NEW p \in Proc, NEW i \in Nat, NowHolds(q, j, p, i)
      PROVE  LET m == recvs'[q][j].msg IN
             /\ m \in MsgId
             /\ m[2] <= Len(sends'[m[1]])
             /\ sends'[m[1]][m[2]].fate = "matched"
             /\ sends'[m[1]][m[2]].dst = q
             /\ Matches(m[1], sends'[m[1]][m[2]].tag, recvs'[q][j])
  <2>1. recvs'[q][j].msg = <<p, i>> /\ i \in 1 .. Len(sends'[p])
    BY <1>2 DEF NowHolds
  <2>2. <<p, i>> \in MsgId
    BY <2>1 DEF MsgId
  <2> QED
    BY <1>2, <2>1, <2>2 DEF NowHolds
<1> QED
  BY <1>1, <1>2, OldOrNew

LEMMA OnceStep ==
  ASSUME TypeOK, HoldsItsMessage, MatchedOnce, StepEffect
  PROVE  MatchedOnce'
<1> SUFFICES ASSUME NEW q1 \in Proc, NEW q2 \in Proc,
                    NEW j1 \in 1 .. Len(recvs'[q1]), NEW j2 \in 1 .. Len(recvs'[q2]),
                    recvs'[q1][j1].fate = "matched", recvs'[q2][j2].fate = "matched",
                    recvs'[q1][j1].msg = recvs'[q2][j2].msg
             PROVE  q1 = q2 /\ j1 = j2
  BY DEF MatchedOnce
<1> DEFINE Old(q, j) == j \in 1 .. Len(recvs[q]) /\ recvs[q][j].fate = "matched"
           New(q, j) == \E p \in Proc, i \in Nat :
                          OnlyNew(q, j) /\ NowHolds(q, j, p, i) /\ InOrder(q, j, p, i)
<1>1. (Old(q1, j1) \/ New(q1, j1)) /\ (Old(q2, j2) \/ New(q2, j2))
  BY OldOrNew
<1>2. ASSUME NEW q \in Proc, NEW r \in Proc, NEW j, NEW k, Old(q, j), New(r, k)
      PROVE  recvs'[q][j].msg # recvs'[r][k].msg
  <2> PICK p \in Proc, i \in Nat : NowHolds(r, k, p, i)
    BY <1>2
  <2>1. recvs'[r][k].msg = <<p, i>> /\ (i <= Len(sends[p]) => sends[p][i].fate = "pending")
    BY DEF NowHolds
  <2>2. LET m == recvs[q][j].msg IN
        /\ recvs'[q][j] = recvs[q][j]
        /\ m[1] \in Proc /\ m[2] \in 1 .. Len(sends[m[1]])
        /\ sends[m[1]][m[2]].fate = "matched"
    BY <1>2, OldMatch
  <2> SUFFICES ASSUME recvs[q][j].msg = <<p, i>> PROVE FALSE
    BY <2>1, <2>2
  <2>3. i \in 1 .. Len(sends[p]) /\ sends[p][i].fate = "matched"
    BY <2>2
  <2> QED
    BY <2>1, <2>3
<1>3. CASE Old(q1, j1) /\ Old(q2, j2)
  <2>1. recvs'[q1][j1] = recvs[q1][j1] /\ recvs'[q2][j2] = recvs[q2][j2]
    BY <1>3, OldMatch
  <2> QED
    BY <1>3, <2>1 DEF MatchedOnce
<1>4. CASE New(q1, j1) /\ New(q2, j2)
  <2>1. OnlyNew(q1, j1) /\ ~Old(q2, j2)
    <3>1. OnlyNew(q1, j1)
      BY <1>4
    <3>2. PICK p \in Proc, i \in Nat : NowHolds(q2, j2, p, i)
      BY <1>4
    <3>3. Len(recvs[q2]) \in Nat
      BY EntryTypes
    <3>4. ~Old(q2, j2)
      BY <3>2, <3>3 DEF NowHolds
    <3> QED
      BY <3>1, <3>4
  <2>2. j2 <= Len(recvs[q2]) => j2 \in 1 .. Len(recvs[q2])
    BY EntryTypes
  <2> QED
    BY <2>1, <2>2 DEF OnlyNew
<1>5. CASE Old(q1, j1) /\ New(q2, j2)
  BY <1>2, <1>5
<1>6. CASE New(q1, j1) /\ Old(q2, j2)
  BY <1>2, <1>6
<1> QED
  BY <1>1, <1>3, <1>4, <1>5, <1>6

LEMMA SendsOrderStep ==
  ASSUME TypeOK, HoldsItsMessage, SendsNotOvertaken, StepEffect
  PROVE  SendsNotOvertaken'
<1> SUFFICES ASSUME NEW q \in Proc, NEW j \in 1 .. Len(recvs'[q]),
                    recvs'[q][j].fate = "matched",
                    NEW k \in 1 .. recvs'[q][j].msg[2] - 1,
                    sends'[recvs'[q][j].msg[1]][k].dst = q,
                    sends'[recvs'[q][j].msg[1]][k].fate = "pending"
             PROVE  ~Matches(recvs'[q][j].msg[1],
                             sends'[recvs'[q][j].msg[1]][k].tag, recvs'[q][j])
  BY DEF SendsNotOvertaken, Matches
<1>1. CASE j \in 1 .. Len(recvs[q]) /\ recvs[q][j].fate = "matched"
  <2> DEFINE m == recvs[q][j].msg
  <2>1. /\ recvs'[q][j] = recvs[q][j]
        /\ m[1] \in Proc /\ m[2] \in 1 .. Len(sends[m[1]])
    BY <1>1, OldMatch
  <2>2. k \in 1 .. Len(sends[m[1]]) /\ k \in 1 .. m[2] - 1
    <3>1. Len(sends[m[1]]) \in Nat
      BY <2>1, EntryTypes
    <3> QED
      BY <2>1, <3>1
  <2>3. /\ sends[m[1]][k].dst = q /\ sends[m[1]][k].fate = "pending"
        /\ sends'[m[1]][k].tag = sends[m[1]][k].tag
    BY <2>1, <2>2 DEF StepEffect, SendsKept
  <2> QED
    BY <1>1, <2>1, <2>2, <2>3 DEF SendsNotOvertaken
<1>2. ASSUME NEW p \in Proc, NEW i \in Nat, NowHolds(q, j, p, i), InOrder(q, j, p, i)
      PROVE  ~Matches(recvs'[q][j].msg[1],
                      sends'[recvs'[q][j].msg[1]][k].tag, recvs'[q][j])
  <2>1. recvs'[q][j].msg = <<p, i>>
    BY <1>2 DEF NowHolds
  <2>2. recvs'[q][j].msg[1] = p /\ recvs'[q][j].msg[2] = i
    BY <2>1
  <2> QED
    BY <1>2, <2>2 DEF InOrder
<1> QED
  BY <1>1, <1>2, OldOrNew

LEMMA RecvsOrderStep ==
  ASSUME TypeOK, HoldsItsMessage, RecvsNotOvertaken, StepEffect
  PROVE  RecvsNotOvertaken'
<1> SUFFICES ASSUME NEW q \in Proc, NEW j \in 1 .. Len(recvs'[q]),
                    recvs'[q][j].fate = "matched",
                    NEW k \in 1 .. j - 1, recvs'[q][k].fate = "pending"
             PROVE  ~Matches(recvs'[q][j].msg[1],
                       sends'[recvs'[q][j].msg[1]][recvs'[q][j].msg[2]].tag, recvs'[q][k])
  BY DEF RecvsNotOvertaken, Matches
<1>1. CASE j \in 1 .. Len(recvs[q]) /\ recvs[q][j].fate = "matched"
  <2> DEFINE m == recvs[q][j].msg
  <2>1. /\ recvs'[q][j] = recvs[q][j]
        /\ sends'[m[1]][m[2]].tag = sends[m[1]][m[2]].tag
    BY <1>1, OldMatch
  <2>2. k \in 1 .. Len(recvs[q])
    BY <1>1, EntryTypes
  <2>3. /\ recvs[q][k].fate = "pending"
        /\ recvs'[q][k].rank = recvs[q][k].rank
        /\ recvs'[q][k].tag = recvs[q][k].tag
    BY <2>2 DEF StepEffect, RecvsKept
  <2>4. ~Matches(m[1], sends[m[1]][m[2]].tag, recvs[q][k])
    BY <1>1, <2>3 DEF RecvsNotOvertaken
  <2> QED
    BY <2>1, <2>3, <2>4 DEF Matches
<1>2. ASSUME NEW p \in Proc, NEW i \in Nat, NowHolds(q, j, p, i), InOrder(q, j, p, i)
      PROVE  ~Matches(recvs'[q][j].msg[1],
                sends'[recvs'[q][j].msg[1]][recvs'[q][j].msg[2]].tag, recvs'[q][k])
  <2>1. recvs'[q][j].msg = <<p, i>>
    BY <1>2 DEF NowHolds
  <2>2. recvs'[q][j].msg[1] = p /\ recvs'[q][j].msg[2] = i
    BY <2>1
  <2> QED
    BY <1>2, <2>2 DEF InOrder
<1> QED
  BY <1>1, <1>2, OldOrNew

-----------------------------------------------------------------------------
(* The inductive invariant: the order properties need to know that what a  *)
(* receive holds exists, and that it will never change.                    *)
Kept ==
  /\ TypeOK
  /\ HoldsItsMessage
  /\ MatchedOnce
  /\ SendsNotOvertaken
  /\ RecvsNotOvertaken

LEMMA InitKept == Init => Kept
<1> SUFFICES ASSUME Init PROVE Kept
  OBVIOUS
<1>1. \A S : <<>> \in Seq(S)
  BY EmptySeq
<1>2. \A q \in Proc : Len(recvs[q]) = 0
  BY EmptySeq DEF Init
<1>3. TypeOK
  BY <1>1 DEF Init, TypeOK
<1>4. \A q \in Proc : \A j \in 1 .. Len(recvs[q]) : FALSE
  BY <1>2
<1> QED
  BY <1>3, <1>4
  DEF Kept, HoldsItsMessage, MatchedOnce, SendsNotOvertaken, RecvsNotOvertaken

LEMMA StepKept == Kept /\ [Next]_vars => Kept'
<1> SUFFICES ASSUME Kept, [Next]_vars PROVE Kept'
  OBVIOUS
<1>1. TypeOK /\ StepEffect
  BY EveryStep DEF Kept
<1>2. TypeOK'
  BY <1>1 DEF StepEffect
<1> QED
  BY <1>1, <1>2, HoldsStep, OnceStep, SendsOrderStep, RecvsOrderStep DEF Kept

(* Matching keeps its promises in every reachable state: every matched     *)
(* receive holds a message sent to it that its filter accepts, no message  *)
(* is held twice or both held and cancelled, and neither sends nor         *)
(* receives are overtaken (MPI's non-overtaking rule), for any number of   *)
(* processes and tags and histories of any length.                         *)
THEOREM MatchingCorrect ==
  Spec => [](TypeOK /\ HoldsItsMessage /\ MatchedOnce /\ SendsNotOvertaken /\ RecvsNotOvertaken)
<1>1. Kept => TypeOK /\ HoldsItsMessage /\ MatchedOnce /\ SendsNotOvertaken /\ RecvsNotOvertaken
  BY DEF Kept
<1> QED
  BY <1>1, InitKept, StepKept, PTL DEF Spec

(* What was decided stays decided: no step turns a matched message into a  *)
(* cancelled one or a cancelled one into a matched one, and a receive that *)
(* is matched or cancelled keeps its message and its envelope.             *)
THEOREM FatesAreFinal == Spec => FateIsFinal
<1>1. Kept /\ [Next]_vars =>
        [/\ \A p \in Proc : \A i \in 1 .. Len(sends[p]) :
              sends[p][i].fate # "pending" => sends'[p][i].fate = sends[p][i].fate
         /\ \A q \in Proc : \A j \in 1 .. Len(recvs[q]) :
              recvs[q][j].fate # "pending" => recvs'[q][j] = recvs[q][j]]_vars
  BY EveryStep DEF Kept, StepEffect, SendsKept, RecvsKept
<1> QED
  BY <1>1, InitKept, StepKept, PTL DEF Spec, FateIsFinal
=============================================================================

---------------------------- MODULE WinLockLemmas ---------------------------
(***************************************************************************)
(* Lemmas about the channels of WinLock: what a packet put at the end or   *)
(* taken from the front does to the predicates of WinLockInv, and to the   *)
(* numbers of gets and of their responses.  Then that every step keeps the *)
(* types, and what a step leaves alone.                                    *)
(***************************************************************************)
EXTENDS WinLockInv, SequenceTheorems, FiniteSetTheorems, WellFoundedInduction, TLAPS

(* The requests and the answers are different packets. *)
LEMMA Sides ==
  ASSUME NEW m
  PROVE  /\ Final(m) => m.type \in Requests
         /\ FinalAnswer(m) => m.type \notin Requests
         /\ m.type \in Requests => m.type # "RMA_RESP"
         /\ m.type \notin Requests => m.type # "GET"
BY DEF Final, FinalAnswer, Requests, Asks

LEMMA Appended ==
  ASSUME NEW S, NEW s \in Seq(S), NEW m \in S
  PROVE  /\ Append(s, m) \in Seq(S)
         /\ Len(s) \in Nat
         /\ Len(Append(s, m)) = Len(s) + 1
         /\ \A i \in 1 .. Len(s) : Append(s, m)[i] = s[i]
         /\ Append(s, m)[Len(s) + 1] = m
         /\ Append(s, m) # <<>>
BY AppendProperties, LenProperties

LEMMA FirstTaken ==
  ASSUME NEW S, NEW s \in Seq(S), s # <<>>
  PROVE  /\ Tail(s) \in Seq(S)
         /\ Head(s) \in S /\ Head(s) = s[1]
         /\ Len(s) \in Nat /\ Len(s) >= 1
         /\ Len(Tail(s)) = Len(s) - 1
         /\ \A i \in 1 .. Len(s) - 1 : Tail(s)[i] = s[i + 1]
<1>1. Len(s) \in Nat \ {0}
  BY EmptySeq
<1>2. Head(s) = s[1]
  OBVIOUS
<1> QED
  BY <1>1, <1>2, HeadTailProperties

-----------------------------------------------------------------------------
(***************************************************************************)
(* Counting.                                                               *)
(***************************************************************************)
LEMMA Shifted ==
  ASSUME NEW A \in SUBSET Int, NEW B \in SUBSET Int, NEW k \in Int, IsFiniteSet(A),
         \A i \in A : i - k \in B, \A j \in B : j + k \in A
  PROVE  IsFiniteSet(B) /\ Cardinality(B) = Cardinality(A)
<1> DEFINE f == [i \in A |-> i - k]
<1>1. f \in [A -> B]
  OBVIOUS
<1>2. \A a, b \in A : f[a] = f[b] => a = b
  OBVIOUS
<1>3. \A j \in B : \E a \in A : f[a] = j
  <2>1. ASSUME NEW j \in B
        PROVE  j + k \in A /\ f[j + k] = j
    BY <2>1
  <2> QED
    BY <2>1
<1>4. f \in Bijection(A, B)
  BY <1>1, <1>2, <1>3 DEF Bijection, Injection, Surjection, IsInjective
<1>5. ExistsBijection(A, B)
  BY <1>4 DEF ExistsBijection
<1> QED
  BY <1>5, FS_Bijection

LEMMA PlacesFinite ==
  ASSUME NEW S, NEW s \in Seq(S), NEW type
  PROVE  IsFiniteSet(Places(s, type)) /\ NumberOf(s, type) \in Nat
<1>1. Len(s) \in Nat
  BY LenProperties
<1>2. IsFiniteSet(1 .. Len(s))
  BY <1>1, FS_Interval
<1>3. Places(s, type) \subseteq 1 .. Len(s)
  BY DEF Places
<1>4. IsFiniteSet(Places(s, type))
  BY <1>2, <1>3, FS_Subset
<1> QED
  BY <1>4, FS_CardinalityType DEF NumberOf

LEMMA NumberAppended ==
  ASSUME NEW S, NEW s \in Seq(S), NEW m \in S, NEW type
  PROVE  NumberOf(Append(s, m), type) = NumberOf(s, type) + (IF m.type = type THEN 1 ELSE 0)
<1> DEFINE n == Len(s) + 1
<1>1. /\ Len(s) \in Nat /\ Len(Append(s, m)) = n
      /\ \A i \in 1 .. Len(s) : Append(s, m)[i] = s[i]
      /\ Append(s, m)[n] = m
  BY Appended
<1>2. IsFiniteSet(Places(s, type)) /\ NumberOf(s, type) \in Nat
  BY PlacesFinite
<1>3. n \notin Places(s, type)
  BY <1>1 DEF Places
<1>4. CASE m.type = type
  <2>1. Places(Append(s, m), type) = Places(s, type) \cup {n}
    BY <1>1, <1>4 DEF Places
  <2> QED
    BY <1>2, <1>3, <1>4, <2>1, FS_AddElement DEF NumberOf
<1>5. CASE m.type # type
  <2>1. Places(Append(s, m), type) = Places(s, type)
    BY <1>1, <1>5 DEF Places
  <2> QED
    BY <1>2, <1>5, <2>1 DEF NumberOf
<1> QED
  BY <1>4, <1>5

LEMMA NumberTaken ==
  ASSUME NEW S, NEW s \in Seq(S), s # <<>>, NEW type
  PROVE  NumberOf(Tail(s), type) = NumberOf(s, type) - (IF Head(s).type = type THEN 1 ELSE 0)
<1> DEFINE A == Places(s, type) \ {1}
           B == Places(Tail(s), type)
<1>1. /\ Head(s) = s[1] /\ Len(s) \in Nat /\ Len(s) >= 1
      /\ Len(Tail(s)) = Len(s) - 1
      /\ \A i \in 1 .. Len(s) - 1 : Tail(s)[i] = s[i + 1]
  BY FirstTaken
<1>2. IsFiniteSet(Places(s, type)) /\ NumberOf(s, type) \in Nat
  BY PlacesFinite
<1>3. /\ IsFiniteSet(A)
      /\ Cardinality(A) = NumberOf(s, type) - (IF Head(s).type = type THEN 1 ELSE 0)
  <2>1. 1 \in Places(s, type) <=> Head(s).type = type
    BY <1>1 DEF Places
  <2> QED
    BY <1>2, <2>1, FS_RemoveElement DEF NumberOf
<1>4. A \in SUBSET Int /\ B \in SUBSET Int
  BY DEF Places
<1>5. ASSUME NEW i \in A PROVE i - 1 \in B
  <2>1. i \in 2 .. Len(s) /\ s[i].type = type
    BY <1>1 DEF Places
  <2>2. i - 1 \in 1 .. Len(s) - 1 /\ Tail(s)[i - 1] = s[i]
    BY <1>1, <2>1
  <2> QED
    BY <1>1, <2>1, <2>2 DEF Places
<1>6. ASSUME NEW j \in B PROVE j + 1 \in A
  <2>1. j \in 1 .. Len(s) - 1 /\ Tail(s)[j].type = type
    BY <1>1 DEF Places
  <2> QED
    BY <1>1, <2>1 DEF Places
<1>7. Cardinality(B) = Cardinality(A)
  <2>1. 1 \in Int
    OBVIOUS
  <2> HIDE DEF A, B
  <2>2. (\A i \in A : i - 1 \in B) /\ (\A j \in B : j + 1 \in A)
    BY <1>5, <1>6
  <2> QED
    BY <1>3, <1>4, <2>1, <2>2, Shifted, Zenon
<1> QED
  BY <1>3, <1>7 DEF NumberOf

LEMMA NumberJoined ==
  ASSUME NEW S, NEW s \in Seq(S), NEW r \in Seq(S), NEW type
  PROVE  NumberOf(s \o r, type) = NumberOf(s, type) + NumberOf(r, type)
<1> DEFINE n == Len(s)
           A == Places(s, type)
           B == Places(r, type)
           D == {i \in Places(s \o r, type) : i > n}
<1>1. /\ n \in Nat /\ Len(r) \in Nat /\ Len(s \o r) = n + Len(r)
      /\ \A i \in 1 .. n + Len(r) : (s \o r)[i] = IF i <= n THEN s[i] ELSE r[i - n]
  BY ConcatProperties, LenProperties
<1>2. IsFiniteSet(A) /\ NumberOf(s, type) \in Nat /\ IsFiniteSet(B) /\ NumberOf(r, type) \in Nat
  BY PlacesFinite
<1>3. B \in SUBSET Int /\ D \in SUBSET Int
  BY DEF Places
<1>4. ASSUME NEW i \in B PROVE i + n \in D
  <2>1. i \in 1 .. Len(r) /\ r[i].type = type
    BY DEF Places
  <2>2. i + n \in 1 .. n + Len(r) /\ i + n > n /\ (i + n) - n = i
    BY <1>1, <2>1
  <2>3. (s \o r)[i + n] = r[i]
    BY <1>1, <2>2
  <2> QED
    BY <1>1, <2>1, <2>2, <2>3 DEF Places
<1>5. ASSUME NEW j \in D PROVE j - n \in B
  <2>1. j \in 1 .. n + Len(r) /\ j > n /\ (s \o r)[j].type = type
    BY <1>1 DEF Places
  <2> QED
    BY <1>1, <2>1 DEF Places
<1>6. IsFiniteSet(D) /\ Cardinality(D) = Cardinality(B)
  <2>1. IsFiniteSet(Places(s \o r, type))
    BY ConcatProperties, PlacesFinite
  <2>2. IsFiniteSet(D)
    BY <2>1, FS_Subset
  <2>3. n \in Int
    BY <1>1
  <2> HIDE DEF B, D
  <2>4. (\A i \in D : i - n \in B) /\ (\A j \in B : j + n \in D)
    BY <1>4, <1>5
  <2>5. IsFiniteSet(B) /\ Cardinality(B) = Cardinality(D)
    BY <1>3, <2>2, <2>3, <2>4, Shifted, Zenon
  <2> QED
    BY <2>2, <2>5
<1>7. Places(s \o r, type) = A \cup D /\ A \cap D = {}
  <2>1. ASSUME NEW i \in 1 .. n PROVE i \in 1 .. n + Len(r) /\ (s \o r)[i] = s[i]
    BY <1>1
  <2> QED
    BY <1>1, <2>1 DEF Places
<1>8. Cardinality(A \cup D) = Cardinality(A) + Cardinality(D) - Cardinality({})
  BY <1>2, <1>6, <1>7, FS_Union
<1>9. Cardinality({}) = 0
  BY FS_EmptySet
<1>10. Cardinality(A) \in Nat /\ Cardinality(B) \in Nat
  BY <1>2 DEF NumberOf
<1>11. /\ NumberOf(s \o r, type) = Cardinality(A \cup D)
       /\ NumberOf(s, type) = Cardinality(A) /\ NumberOf(r, type) = Cardinality(B)
  BY <1>7 DEF NumberOf
<1> HIDE DEF A, B, D
<1> QED
  BY <1>6, <1>8, <1>9, <1>10, <1>11

(* Who is in a sequence is counted. *)
LEMMA Counted ==
  ASSUME NEW S, NEW s \in Seq(S), NEW i \in 1 .. Len(s)
  PROVE  NumberOf(s, s[i].type) >= 1
<1>1. i \in Places(s, s[i].type)
  BY DEF Places
<1>2. IsFiniteSet(Places(s, s[i].type)) /\ NumberOf(s, s[i].type) \in Nat
  BY PlacesFinite
<1>3. NumberOf(s, s[i].type) # 0
  BY <1>1, <1>2, FS_EmptySet DEF NumberOf
<1> QED
  BY <1>2, <1>3

-----------------------------------------------------------------------------
(***************************************************************************)
(* A packet of the other kind changes nothing.                             *)
(***************************************************************************)
LEMMA Unchanged ==
  ASSUME NEW s
  PROVE  SameRequests(s, s) /\ SameAnswers(s, s)
BY DEF SameRequests, SameAnswers

LEMMA AnswerAppended ==
  ASSUME NEW S, NEW s \in Seq(S), NEW a \in S, a.type \notin Requests
  PROVE  SameRequests(s, Append(s, a))
<1> DEFINE r == Append(s, a)
           n == Len(s) + 1
<1>1. /\ Len(s) \in Nat /\ Len(r) = n
      /\ \A i \in 1 .. Len(s) : r[i] = s[i]
      /\ r[n] = a
  BY Appended
<1>2. ~Final(a) /\ a.type # "GET" /\ a.type \notin {"GET", "PUT"}
  BY DEF Final, Requests, Asks
<1>3. \A i \in 1 .. n : i \in 1 .. Len(s) \/ i = n
  BY <1>1
<1>4. \A i \in 1 .. Len(s) : i \in 1 .. n /\ i # n
  BY <1>1
<1>5. NumberOf(r, "GET") = NumberOf(s, "GET")
  BY <1>2, PlacesFinite, NumberAppended
<1> HIDE DEF r, n
<1>6. NoRequest(s) => NoRequest(r)
  BY <1>1, <1>3 DEF NoRequest
<1>7. NoFinal(s) => NoFinal(r)
  BY <1>1, <1>2, <1>3 DEF NoFinal
<1>8. LastUnlocks(s) => LastUnlocks(r)
  BY <1>1, <1>2, <1>3 DEF LastUnlocks
<1>9. ASSUME NEW m PROVE LastFinal(s, m) => LastFinal(r, m)
  <2>1. SUFFICES ASSUME LastFinal(s, m) PROVE LastFinal(r, m)
    OBVIOUS
  <2>2. PICK i \in 1 .. Len(s) :
          /\ s[i] = m /\ Final(m)
          /\ \A j \in 1 .. Len(s) : j # i /\ s[j].type \in Requests => j < i /\ ~Final(s[j])
    BY <2>1 DEF LastFinal
  <2>3. \A j \in 1 .. n : j # i /\ r[j].type \in Requests => j < i /\ ~Final(r[j])
    BY <2>2, <1>1, <1>3
  <2> QED
    BY <2>2, <2>3, <1>1, <1>4 DEF LastFinal
<1>10. ASSUME NEW m PROVE OnlyRequest(s, m) => OnlyRequest(r, m)
  BY <1>1, <1>3, <1>4 DEF OnlyRequest
<1> QED
  BY <1>5, <1>6, <1>7, <1>8, <1>9, <1>10 DEF SameRequests, r

LEMMA RequestAppended ==
  ASSUME NEW S, NEW s \in Seq(S), NEW a \in S, a.type \in Requests
  PROVE  SameAnswers(s, Append(s, a))
<1> DEFINE r == Append(s, a)
           n == Len(s) + 1
<1>1. /\ Len(s) \in Nat /\ Len(r) = n
      /\ \A i \in 1 .. Len(s) : r[i] = s[i]
      /\ r[n] = a
  BY Appended
<1>2. ~FinalAnswer(a) /\ a.type # "RMA_RESP"
  BY DEF FinalAnswer, Requests
<1>3. \A i \in 1 .. n : i \in 1 .. Len(s) \/ i = n
  BY <1>1
<1>4. \A i \in 1 .. Len(s) : i \in 1 .. n /\ i # n
  BY <1>1
<1>5. NumberOf(r, "RMA_RESP") = NumberOf(s, "RMA_RESP")
  BY <1>2, PlacesFinite, NumberAppended
<1> HIDE DEF r, n
<1>6. NoAnswer(s) => NoAnswer(r)
  BY <1>1, <1>2, <1>3 DEF NoAnswer
<1>7. ASSUME NEW m PROVE OneAnswer(s, m) => OneAnswer(r, m)
  BY <1>1, <1>2, <1>3, <1>4 DEF OneAnswer
<1> QED
  BY <1>5, <1>6, <1>7 DEF SameAnswers, r

LEMMA RequestsJoined ==
  ASSUME NEW S, NEW s \in Seq(S), NEW a \in Seq(S),
         \A i \in 1 .. Len(a) : a[i].type \in Requests
  PROVE  SameAnswers(s, s \o a)
<1> DEFINE r == s \o a
           n == Len(s)
<1>1. /\ n \in Nat /\ Len(a) \in Nat /\ Len(r) = n + Len(a)
      /\ \A i \in 1 .. n + Len(a) : r[i] = IF i <= n THEN s[i] ELSE a[i - n]
  BY ConcatProperties, LenProperties
<1>2. \A i \in 1 .. n : i \in 1 .. Len(r) /\ r[i] = s[i]
  BY <1>1
<1>3. \A i \in 1 .. Len(r) : i \in 1 .. n \/ (i \notin 1 .. n /\ r[i].type \in Requests)
  <2> SUFFICES ASSUME NEW i \in 1 .. Len(r), i \notin 1 .. n PROVE r[i].type \in Requests
    OBVIOUS
  <2>1. i - n \in 1 .. Len(a) /\ r[i] = a[i - n]
    BY <1>1
  <2> QED
    BY <2>1
<1>4. \A i \in 1 .. Len(r) : i \in 1 .. n \/ (i \notin 1 .. n /\ ~FinalAnswer(r[i]))
  BY <1>3 DEF FinalAnswer, Requests
<1>5. NumberOf(r, "RMA_RESP") = NumberOf(s, "RMA_RESP")
  <2>1. Places(a, "RMA_RESP") = {}
    BY DEF Places, Requests
  <2>2. NumberOf(a, "RMA_RESP") = 0
    BY <2>1, FS_EmptySet DEF NumberOf
  <2> QED
    BY <2>2, PlacesFinite, NumberJoined
<1> HIDE DEF r, n
<1>6. NoAnswer(s) => NoAnswer(r)
  BY <1>2, <1>4 DEF NoAnswer, n
<1>7. ASSUME NEW m PROVE OneAnswer(s, m) => OneAnswer(r, m)
  BY <1>2, <1>4 DEF OneAnswer, n
<1> QED
  BY <1>5, <1>6, <1>7 DEF SameAnswers, r

LEMMA AnswerTaken ==
  ASSUME NEW S, NEW s \in Seq(S), s # <<>>, Head(s).type \notin Requests
  PROVE  SameRequests(s, Tail(s))
<1> DEFINE r == Tail(s)
           n == Len(s) - 1
<1>1. /\ Head(s) = s[1] /\ Len(s) \in Nat /\ Len(s) >= 1 /\ Len(r) = n
      /\ \A i \in 1 .. n : r[i] = s[i + 1]
  BY FirstTaken
<1>2. s[1].type \notin Requests /\ ~Final(s[1])
  BY <1>1 DEF Final, Requests, Asks
<1>3. \A i \in 1 .. n : i + 1 \in 1 .. Len(s) /\ i + 1 # 1
  BY <1>1
<1>4. \A i \in 1 .. Len(s) : i = 1 \/ (i - 1 \in 1 .. n /\ r[i - 1] = s[i])
  <2> SUFFICES ASSUME NEW i \in 1 .. Len(s), i # 1 PROVE i - 1 \in 1 .. n /\ r[i - 1] = s[i]
    OBVIOUS
  <2>1. i - 1 \in 1 .. n /\ (i - 1) + 1 = i
    BY <1>1
  <2> QED
    BY <2>1, <1>1
<1>5. NumberOf(r, "GET") = NumberOf(s, "GET")
  <2>1. Head(s).type # "GET"
    BY DEF Requests
  <2> QED
    BY <2>1, PlacesFinite, NumberTaken
<1> HIDE DEF r, n
<1>6. NoRequest(s) => NoRequest(r)
  BY <1>1, <1>3 DEF NoRequest
<1>7. NoFinal(s) => NoFinal(r)
  BY <1>1, <1>3 DEF NoFinal
<1>8. LastUnlocks(s) => LastUnlocks(r)
  BY <1>1, <1>3 DEF LastUnlocks
<1>9. ASSUME NEW m PROVE LastFinal(s, m) => LastFinal(r, m)
  <2>1. SUFFICES ASSUME LastFinal(s, m) PROVE LastFinal(r, m)
    OBVIOUS
  <2>2. PICK i \in 1 .. Len(s) :
          /\ s[i] = m /\ Final(m)
          /\ \A j \in 1 .. Len(s) : j # i /\ s[j].type \in Requests => j < i /\ ~Final(s[j])
    BY <2>1 DEF LastFinal
  <2>3. i # 1
    BY <2>2, <1>2
  <2>4. i - 1 \in 1 .. n /\ r[i - 1] = m
    BY <2>2, <2>3, <1>4
  <2>5. ASSUME NEW j \in 1 .. n, j # i - 1, r[j].type \in Requests
        PROVE  j < i - 1 /\ ~Final(r[j])
    <3>1. j + 1 \in 1 .. Len(s) /\ j + 1 # i /\ r[j] = s[j + 1]
      BY <2>4, <2>5, <1>1, <1>3
    <3>2. j + 1 < i /\ ~Final(s[j + 1])
      BY <3>1, <2>2, <2>5
    <3> QED
      BY <3>1, <3>2
  <2> QED
    BY <2>2, <2>4, <2>5, <1>1 DEF LastFinal
<1>10. ASSUME NEW m PROVE OnlyRequest(s, m) => OnlyRequest(r, m)
  <2>1. SUFFICES ASSUME OnlyRequest(s, m) PROVE OnlyRequest(r, m)
    OBVIOUS
  <2>2. PICK i \in 1 .. Len(s) :
          /\ s[i] = m /\ m.type \in Requests
          /\ \A j \in 1 .. Len(s) : j # i => s[j].type \notin Requests
    BY <2>1 DEF OnlyRequest
  <2>3. i - 1 \in 1 .. n /\ r[i - 1] = m
    BY <2>2, <1>2, <1>4
  <2>4. ASSUME NEW j \in 1 .. n, j # i - 1 PROVE r[j].type \notin Requests
    <3>1. j + 1 \in 1 .. Len(s) /\ j + 1 # i /\ r[j] = s[j + 1]
      BY <2>3, <2>4, <1>1, <1>3
    <3> QED
      BY <3>1, <2>2
  <2> QED
    BY <2>2, <2>3, <2>4, <1>1 DEF OnlyRequest
<1> QED
  BY <1>5, <1>6, <1>7, <1>8, <1>9, <1>10 DEF SameRequests, r

LEMMA RequestTaken ==
  ASSUME NEW S, NEW s \in Seq(S), s # <<>>, Head(s).type \in Requests
  PROVE  SameAnswers(s, Tail(s))
<1> DEFINE r == Tail(s)
           n == Len(s) - 1
<1>1. /\ Head(s) = s[1] /\ Len(s) \in Nat /\ Len(s) >= 1 /\ Len(r) = n
      /\ \A i \in 1 .. n : r[i] = s[i + 1]
  BY FirstTaken
<1>2. ~FinalAnswer(s[1])
  BY <1>1 DEF FinalAnswer, Requests
<1>3. \A i \in 1 .. n : i + 1 \in 1 .. Len(s) /\ i + 1 # 1
  BY <1>1
<1>4. \A i \in 1 .. Len(s) : i = 1 \/ (i - 1 \in 1 .. n /\ r[i - 1] = s[i])
  <2> SUFFICES ASSUME NEW i \in 1 .. Len(s), i # 1 PROVE i - 1 \in 1 .. n /\ r[i - 1] = s[i]
    OBVIOUS
  <2>1. i - 1 \in 1 .. n /\ (i - 1) + 1 = i
    BY <1>1
  <2> QED
    BY <2>1, <1>1
<1>5. NumberOf(r, "RMA_RESP") = NumberOf(s, "RMA_RESP")
  <2>1. Head(s).type # "RMA_RESP"
    BY DEF Requests
  <2> QED
    BY <2>1, PlacesFinite, NumberTaken
<1> HIDE DEF r, n
<1>6. NoAnswer(s) => NoAnswer(r)
  BY <1>1, <1>3 DEF NoAnswer
<1>7. ASSUME NEW m PROVE OneAnswer(s, m) => OneAnswer(r, m)
  <2>1. SUFFICES ASSUME OneAnswer(s, m) PROVE OneAnswer(r, m)
    OBVIOUS
  <2>2. PICK i \in 1 .. Len(s) :
          /\ s[i] = m /\ FinalAnswer(m)
          /\ \A j \in 1 .. Len(s) : j # i => ~FinalAnswer(s[j])
    BY <2>1 DEF OneAnswer
  <2>3. i - 1 \in 1 .. n /\ r[i - 1] = m
    BY <2>2, <1>2, <1>4
  <2>4. ASSUME NEW j \in 1 .. n, j # i - 1 PROVE ~FinalAnswer(r[j])
    <3>1. j + 1 \in 1 .. Len(s) /\ j + 1 # i /\ r[j] = s[j + 1]
      BY <2>3, <2>4, <1>1, <1>3
    <3> QED
      BY <3>1, <2>2
  <2> QED
    BY <2>2, <2>3, <2>4, <1>1 DEF OneAnswer
<1> QED
  BY <1>5, <1>6, <1>7 DEF SameAnswers, r

-----------------------------------------------------------------------------
(***************************************************************************)
(* A packet that is waited for, put at the end or taken from the front.    *)
(***************************************************************************)
LEMMA FinalAppended ==
  ASSUME NEW S, NEW s \in Seq(S), NEW m \in S, Final(m)
  PROVE  /\ NoRequest(s) => OnlyRequest(Append(s, m), m)
         /\ NoFinal(s) => LastFinal(Append(s, m), m)
<1> DEFINE r == Append(s, m)
           n == Len(s) + 1
<1>1. /\ Len(s) \in Nat /\ Len(r) = n
      /\ \A i \in 1 .. Len(s) : r[i] = s[i]
      /\ r[n] = m
  BY Appended
<1>2. n \in 1 .. n /\ \A i \in 1 .. n : i # n => i \in 1 .. Len(s) /\ i < n
  BY <1>1
<1>3. m.type \in Requests
  BY Sides
<1> HIDE DEF r, n
<1>4. NoRequest(s) => OnlyRequest(r, m)
  BY <1>1, <1>2, <1>3 DEF NoRequest, OnlyRequest
<1>5. NoFinal(s) => LastFinal(r, m)
  BY <1>1, <1>2 DEF NoFinal, LastFinal
<1> QED
  BY <1>4, <1>5 DEF r

LEMMA FinalAnswerAppended ==
  ASSUME NEW S, NEW s \in Seq(S), NEW m \in S, NoAnswer(s)
  PROVE  IF FinalAnswer(m) THEN OneAnswer(Append(s, m), m) ELSE NoAnswer(Append(s, m))
<1> DEFINE r == Append(s, m)
           n == Len(s) + 1
<1>1. /\ Len(s) \in Nat /\ Len(r) = n
      /\ \A i \in 1 .. Len(s) : r[i] = s[i]
      /\ r[n] = m
  BY Appended
<1>2. n \in 1 .. n /\ \A i \in 1 .. n : i # n => i \in 1 .. Len(s)
  BY <1>1
<1> HIDE DEF r, n
<1>3. FinalAnswer(m) => OneAnswer(r, m)
  BY <1>1, <1>2 DEF NoAnswer, OneAnswer
<1>4. ~FinalAnswer(m) => NoAnswer(r)
  BY <1>1, <1>2 DEF NoAnswer
<1> QED
  BY <1>3, <1>4 DEF r

(* Places of the tail of a sequence. *)
LEMMA TailPlaces ==
  ASSUME NEW S, NEW s \in Seq(S), s # <<>>
  PROVE  /\ Head(s) = s[1] /\ 1 \in 1 .. Len(s)
         /\ \A i \in 1 .. Len(Tail(s)) :
              i + 1 \in 1 .. Len(s) /\ i + 1 # 1 /\ Tail(s)[i] = s[i + 1]
         /\ \A i \in 1 .. Len(s) :
              i # 1 => i - 1 \in 1 .. Len(Tail(s)) /\ Tail(s)[i - 1] = s[i]
<1>1. /\ Head(s) = s[1] /\ Len(s) \in Nat /\ Len(s) >= 1 /\ Len(Tail(s)) = Len(s) - 1
      /\ \A i \in 1 .. Len(s) - 1 : Tail(s)[i] = s[i + 1]
  BY FirstTaken
<1>2. ASSUME NEW i \in 1 .. Len(s), i # 1
      PROVE  i - 1 \in 1 .. Len(Tail(s)) /\ Tail(s)[i - 1] = s[i]
  <2>1. i - 1 \in 1 .. Len(s) - 1 /\ (i - 1) + 1 = i
    BY <1>1, <1>2
  <2> QED
    BY <2>1, <1>1
<1> QED
  BY <1>1, <1>2

LEMMA FrontRequest ==
  ASSUME NEW S, NEW s \in Seq(S), s # <<>>
  PROVE  /\ NoRequest(s) => Head(s).type \notin Requests /\ NoRequest(Tail(s))
         /\ NoFinal(s) => ~Final(Head(s)) /\ NoFinal(Tail(s))
         /\ LastUnlocks(s) => /\ LastUnlocks(Tail(s))
                              /\ Head(s).type \in {"GET", "PUT"} /\ Head(s).unlock => Head(s).last
         /\ Head(s).type \in Requests =>
              \A m : /\ OnlyRequest(s, m) => m = Head(s) /\ NoRequest(Tail(s))
                     /\ LastFinal(s, m) =>
                          IF Final(Head(s)) THEN m = Head(s) /\ NoRequest(Tail(s))
                          ELSE m # Head(s) /\ LastFinal(Tail(s), m)
<1> DEFINE r == Tail(s)
<1>1. /\ Head(s) = s[1] /\ 1 \in 1 .. Len(s)
      /\ \A i \in 1 .. Len(r) : i + 1 \in 1 .. Len(s) /\ i + 1 # 1 /\ r[i] = s[i + 1]
      /\ \A i \in 1 .. Len(s) : i # 1 => i - 1 \in 1 .. Len(r) /\ r[i - 1] = s[i]
  BY TailPlaces
<1> HIDE DEF r
<1>2. NoRequest(s) => Head(s).type \notin Requests /\ NoRequest(r)
  BY <1>1 DEF NoRequest
<1>3. NoFinal(s) => ~Final(Head(s)) /\ NoFinal(r)
  BY <1>1 DEF NoFinal
<1>4. LastUnlocks(s) => /\ LastUnlocks(r)
                        /\ Head(s).type \in {"GET", "PUT"} /\ Head(s).unlock => Head(s).last
  BY <1>1 DEF LastUnlocks
<1>5. ASSUME NEW m, OnlyRequest(s, m), Head(s).type \in Requests
      PROVE  m = Head(s) /\ NoRequest(r)
  BY <1>1, <1>5 DEF NoRequest, OnlyRequest
<1>6. ASSUME NEW m, LastFinal(s, m), Head(s).type \in Requests
      PROVE  IF Final(Head(s)) THEN m = Head(s) /\ NoRequest(r)
             ELSE m # Head(s) /\ LastFinal(r, m)
  <2>1. PICK i \in 1 .. Len(s) :
          /\ s[i] = m /\ Final(m)
          /\ \A j \in 1 .. Len(s) : j # i /\ s[j].type \in Requests => j < i /\ ~Final(s[j])
    BY <1>6 DEF LastFinal
  <2>2. CASE Final(Head(s))
    <3>1. i = 1
      BY <2>1, <2>2, <1>1, <1>6
    <3>2. ASSUME NEW k \in 1 .. Len(r) PROVE r[k].type \notin Requests
      <4>1. k + 1 \in 1 .. Len(s) /\ k + 1 # 1 /\ r[k] = s[k + 1] /\ ~(k + 1 < 1)
        BY <1>1
      <4> QED
        BY <4>1, <3>1, <2>1
    <3> QED
      BY <2>1, <2>2, <3>1, <3>2, <1>1 DEF NoRequest
  <2>3. CASE ~Final(Head(s))
    <3>1. i # 1 /\ m # Head(s)
      BY <2>1, <2>3, <1>1
    <3>2. i - 1 \in 1 .. Len(r) /\ r[i - 1] = m
      BY <3>1, <2>1, <1>1
    <3>3. ASSUME NEW j \in 1 .. Len(r), j # i - 1, r[j].type \in Requests
          PROVE  j < i - 1 /\ ~Final(r[j])
      <4>1. j + 1 \in 1 .. Len(s) /\ j + 1 # i /\ r[j] = s[j + 1]
        BY <3>3, <1>1
      <4>2. j + 1 < i /\ ~Final(s[j + 1])
        BY <4>1, <2>1, <3>3
      <4> QED
        BY <4>1, <4>2
    <3>4. LastFinal(r, m)
      BY <2>1, <3>2, <3>3 DEF LastFinal
    <3> QED
      BY <2>3, <3>1, <3>4
  <2> QED
    BY <2>2, <2>3
<1> QED
  BY <1>2, <1>3, <1>4, <1>5, <1>6 DEF r

LEMMA FrontAnswer ==
  ASSUME NEW S, NEW s \in Seq(S), s # <<>>
  PROVE  /\ NoAnswer(s) => ~FinalAnswer(Head(s)) /\ NoAnswer(Tail(s))
         /\ \A m : OneAnswer(s, m) =>
              IF FinalAnswer(Head(s)) THEN m = Head(s) /\ NoAnswer(Tail(s))
              ELSE m # Head(s) /\ OneAnswer(Tail(s), m)
<1> DEFINE r == Tail(s)
<1>1. /\ Head(s) = s[1] /\ 1 \in 1 .. Len(s)
      /\ \A i \in 1 .. Len(r) : i + 1 \in 1 .. Len(s) /\ i + 1 # 1 /\ r[i] = s[i + 1]
      /\ \A i \in 1 .. Len(s) : i # 1 => i - 1 \in 1 .. Len(r) /\ r[i - 1] = s[i]
  BY TailPlaces
<1> HIDE DEF r
<1>2. NoAnswer(s) => ~FinalAnswer(Head(s)) /\ NoAnswer(r)
  BY <1>1 DEF NoAnswer
<1>3. ASSUME NEW m, OneAnswer(s, m)
      PROVE  IF FinalAnswer(Head(s)) THEN m = Head(s) /\ NoAnswer(r)
             ELSE m # Head(s) /\ OneAnswer(r, m)
  <2>1. PICK i \in 1 .. Len(s) :
          /\ s[i] = m /\ FinalAnswer(m)
          /\ \A j \in 1 .. Len(s) : j # i => ~FinalAnswer(s[j])
    BY <1>3 DEF OneAnswer
  <2>2. CASE FinalAnswer(Head(s))
    BY <2>1, <2>2, <1>1 DEF NoAnswer
  <2>3. CASE ~FinalAnswer(Head(s))
    <3>1. i # 1 /\ m # Head(s)
      BY <2>1, <2>3, <1>1
    <3>2. i - 1 \in 1 .. Len(r) /\ r[i - 1] = m
      BY <3>1, <2>1, <1>1
    <3>3. ASSUME NEW j \in 1 .. Len(r), j # i - 1 PROVE ~FinalAnswer(r[j])
      <4>1. j + 1 \in 1 .. Len(s) /\ j + 1 # i /\ r[j] = s[j + 1]
        BY <3>3, <1>1
      <4> QED
        BY <4>1, <2>1
    <3> QED
      BY <2>1, <2>3, <3>1, <3>2, <3>3 DEF OneAnswer
  <2> QED
    BY <2>2, <2>3
<1> QED
  BY <1>2, <1>3 DEF r

-----------------------------------------------------------------------------
(***************************************************************************)
(* The operations of a flush or an unlock, issued together.                *)
(***************************************************************************)
Ops == [kind : Kinds, n : Nat \ {0}]

LEMMA LastOne ==
  ASSUME NEW n \in Nat, NEW A \in SUBSET (1 .. n), A # {}
  PROVE  \E i \in A : \A j \in i + 1 .. n : j \notin A
<1> DEFINE B == {n - i : i \in A}
<1>1. B \subseteq Nat /\ B # {}
  <2>1. \A i \in A : n - i \in Nat
    OBVIOUS
  <2>2. B \subseteq Nat
    BY <2>1
  <2>3. PICK i \in A : TRUE
    OBVIOUS
  <2>4. n - i \in B
    OBVIOUS
  <2> QED
    BY <2>2, <2>4
<1>2. PICK x \in B : \A y \in B : ~(<<y, x>> \in OpToRel(<, Nat))
  <2> HIDE DEF B
  <2> QED
    BY <1>1, NatLessThanWellFounded, WFMin
<1>3. PICK i \in A : x = n - i
  BY <1>2
<1>4. ASSUME NEW j \in i + 1 .. n, j \in A PROVE FALSE
  <2>1. n - j \in B /\ n - j \in Nat /\ n - i \in Nat /\ n - j < n - i
    BY <1>4
  <2> QED
    BY <2>1, <1>2, <1>3 DEF OpToRel
<1> QED
  BY <1>4

LEMMA ReorderedOps ==
  ASSUME NEW ops \in Seq(Ops)
  PROVE  /\ Reordered(ops) \in Seq(Ops)
         /\ Len(Reordered(ops)) = Len(ops)
         /\ \A i \in 1 .. Len(ops) : \E j \in 1 .. Len(ops) : Reordered(ops)[i] = ops[j]
<1> DEFINE n == Len(ops)
           IsLast(i) == ops[i].kind = "get" /\ \A j \in i + 1 .. n : ops[j].kind # "get"
           last == CHOOSE i \in DOMAIN ops : IsLast(i)
           r == [i \in 1 .. n |-> IF i < last THEN ops[i]
                                  ELSE IF i < n THEN ops[i + 1] ELSE ops[last]]
<1>1. n \in Nat /\ DOMAIN ops = 1 .. n /\ \A i \in 1 .. n : ops[i] \in Ops
  BY LenProperties, ElementOfSeq
<1>2. CASE \E i \in DOMAIN ops : ops[i].kind = "get"
  <2>1. \E i \in DOMAIN ops : IsLast(i)
    <3> DEFINE A == {i \in 1 .. n : ops[i].kind = "get"}
    <3>1. A \in SUBSET (1 .. n) /\ A # {}
      BY <1>1, <1>2
    <3>2. PICK i \in A : \A j \in i + 1 .. n : j \notin A
      <4> HIDE DEF A
      <4> QED
        BY <1>1, <3>1, LastOne
    <3>3. \A j \in i + 1 .. n : j \in 1 .. n
      BY <1>1
    <3> QED
      BY <1>1, <3>2, <3>3
  <2>2. last \in 1 .. n
    <3> HIDE DEF IsLast
    <3> QED
      BY <1>1, <2>1
  <2>3. Reordered(ops) = r
    BY <1>1, <1>2 DEF Reordered
  <2> HIDE DEF last
  <2>4. ASSUME NEW i \in 1 .. n PROVE \E j \in 1 .. n : r[i] = ops[j]
    <3>1. CASE i < last
      BY <3>1
    <3>2. CASE ~(i < last) /\ i < n
      <4>1. i + 1 \in 1 .. n /\ r[i] = ops[i + 1]
        BY <1>1, <3>2
      <4> QED
        BY <4>1
    <3>3. CASE ~(i < last) /\ ~(i < n)
      BY <2>2, <3>3
    <3> QED
      BY <3>1, <3>2, <3>3
  <2>5. r \in [1 .. n -> Ops]
    <3>1. \A i \in 1 .. n : r[i] \in Ops
      BY <1>1, <2>4
    <3> QED
      BY <3>1
  <2>6. r \in Seq(Ops) /\ Len(r) = n
    BY <1>1, <2>5
  <2> HIDE DEF r
  <2> QED
    BY <2>3, <2>4, <2>6
<1>3. CASE ~\E i \in DOMAIN ops : ops[i].kind = "get"
  BY <1>3 DEF Reordered
<1> QED
  BY <1>2, <1>3

PacketTypes ==
  {"LOCK", "UNLOCK", "PUT", "GET", "LOCK_PUT_UNLOCK", "LOCK_ACCUM_UNLOCK",
   "LOCK_GRANTED", "UNLOCK_DONE", "PT_RMA_DONE", "RMA_RESP"}

LEMMA PacketFields ==
  ASSUME NEW type \in PacketTypes, NEW lock \in Types, NEW n \in Nat, NEW k \in Nat,
         NEW last \in BOOLEAN, NEW unlock \in BOOLEAN,
         NEW m, m = Packet(type, lock, n, k, last, unlock)
  PROVE  /\ m \in Packets
         /\ m.type = type /\ m.lock = lock /\ m.n = n /\ m.k = k /\ m.last = last
         /\ m.unlock = unlock
BY DEF Packet, Packets, PacketTypes

LEMMA Issued ==
  ASSUME NEW ops \in Seq(Ops), ops # <<>>, NEW k \in Nat, NEW unlock \in BOOLEAN,
         NEW packets, packets = PacketsOf(ops, k, unlock)
  PROVE  /\ packets \in Seq(Packets)
         /\ Len(packets) = Len(ops) /\ Len(ops) \in Nat \ {0}
         /\ \A i \in 1 .. Len(packets) :
              /\ packets[i].type = IF ops[i].kind = "get" THEN "GET" ELSE "PUT"
              /\ packets[i].last <=> i = Len(ops)
              /\ packets[i].unlock <=> (i = Len(ops) /\ unlock)
              /\ packets[i].k = k
<1>1. Len(ops) \in Nat \ {0} /\ DOMAIN ops = 1 .. Len(ops)
  BY LenProperties, EmptySeq
<1>2. ASSUME NEW i \in 1 .. Len(ops)
      PROVE  /\ packets[i] \in Packets
             /\ packets[i].type = IF ops[i].kind = "get" THEN "GET" ELSE "PUT"
             /\ packets[i].last <=> i = Len(ops)
             /\ packets[i].unlock <=> (i = Len(ops) /\ unlock)
             /\ packets[i].k = k
  <2>1. ops[i] \in Ops
    BY ElementOfSeq
  <2>2. packets[i] = PacketOf(ops[i], k, i = Len(ops), unlock)
    BY <1>1 DEF PacketsOf
  <2> DEFINE last == i = Len(ops)
             type == IF ops[i].kind = "get" THEN "GET" ELSE "PUT"
  <2>3. packets[i] = Packet(type, "SHARED", ops[i].n, k, last, last /\ unlock)
    BY <2>2 DEF PacketOf
  <2>4. ops[i].n \in Nat /\ last \in BOOLEAN /\ (last /\ unlock) \in BOOLEAN /\ type \in {"GET", "PUT"}
    BY <2>1 DEF Ops
  <2>5. type \in PacketTypes /\ "SHARED" \in Types
    BY <2>4 DEF PacketTypes, Types
  <2> HIDE DEF type, last
  <2>6. /\ packets[i] \in Packets
        /\ packets[i].type = type /\ packets[i].last = last
        /\ packets[i].unlock = (last /\ unlock) /\ packets[i].k = k
    BY <2>3, <2>4, <2>5, PacketFields
  <2> QED
    BY <2>6 DEF type, last
<1>3. packets \in [1 .. Len(ops) -> Packets]
  <2>1. packets = [i \in 1 .. Len(ops) |-> packets[i]]
    BY <1>1 DEF PacketsOf
  <2> QED
    BY <1>2, <2>1
<1>4. packets \in Seq(Packets) /\ Len(packets) = Len(ops)
  BY <1>1, <1>3
<1> QED
  BY <1>1, <1>2, <1>4

LEMMA IssuedJoined ==
  ASSUME NEW s \in Seq(Packets), NEW r \in Seq(Packets), NEW unlock \in BOOLEAN, Len(r) \in Nat \ {0},
         \A i \in 1 .. Len(r) :
           /\ r[i].type \in {"GET", "PUT"}
           /\ r[i].last <=> i = Len(r)
           /\ r[i].unlock <=> (i = Len(r) /\ unlock),
         NoFinal(s)
  PROVE  /\ s \o r \in Seq(Packets)
         /\ LastUnlocks(s) => LastUnlocks(s \o r)
         /\ IF r[Len(r)].type = "PUT" \/ unlock THEN LastFinal(s \o r, r[Len(r)])
            ELSE NoFinal(s \o r)
<1> DEFINE n == Len(s)
           j == Len(r)
           q == s \o r
           m == r[j]
<1>1. /\ n \in Nat /\ j \in Nat /\ q \in Seq(Packets) /\ Len(q) = n + j
      /\ \A i \in 1 .. n + j : q[i] = IF i <= n THEN s[i] ELSE r[i - n]
  BY ConcatProperties, LenProperties
<1>2. \A i \in 1 .. Len(q) :
        \/ i \in 1 .. n /\ q[i] = s[i]
        \/ i - n \in 1 .. j /\ q[i] = r[i - n]
  BY <1>1
<1>3. n + j \in 1 .. Len(q) /\ q[n + j] = m
  <2>1. n + j \in 1 .. n + j /\ ~(n + j <= n) /\ (n + j) - n = j
    BY <1>1
  <2> QED
    BY <1>1, <2>1
<1>4. \A i \in 1 .. j : Final(r[i]) <=> i = j /\ (r[i].type = "PUT" \/ unlock)
  BY DEF Final, Asks
<1>5. LastUnlocks(s) => LastUnlocks(q)
  <2> HIDE DEF q
  <2> QED
    BY <1>2 DEF LastUnlocks
<1>6. CASE m.type = "PUT" \/ unlock
  <2>1. Final(m)
    BY <1>1, <1>4, <1>6
  <2>2. ASSUME NEW i \in 1 .. Len(q), i # n + j PROVE i < n + j /\ ~Final(q[i])
    <3>1. i \in 1 .. n + j /\ n + j \in Nat
      BY <1>1, <2>2
    <3> HIDE DEF n, j, q
    <3>2. i < n + j
      BY <3>1, <2>2
    <3> USE DEF n, j, q
    <3>3. CASE i \in 1 .. n /\ q[i] = s[i]
      BY <3>2, <3>3 DEF NoFinal
    <3>4. CASE i - n \in 1 .. j /\ q[i] = r[i - n]
      <4>1. i - n # j
        BY <1>1, <2>2
      <4> QED
        BY <3>2, <3>4, <4>1, <1>4
    <3> QED
      BY <3>3, <3>4, <1>2
  <2> HIDE DEF q, m
  <2>3. LastFinal(q, m)
    BY <1>3, <2>1, <2>2 DEF LastFinal
  <2> QED
    BY <1>1, <1>5, <1>6, <2>3 DEF q, m
<1>7. CASE ~(m.type = "PUT" \/ unlock)
  <2>1. ASSUME NEW i \in 1 .. Len(q) PROVE ~Final(q[i])
    <3>1. CASE i \in 1 .. n /\ q[i] = s[i]
      BY <3>1 DEF NoFinal
    <3>2. CASE i - n \in 1 .. j /\ q[i] = r[i - n]
      BY <3>2, <1>4, <1>7
    <3> QED
      BY <3>1, <3>2, <1>2
  <2> HIDE DEF q, m
  <2>2. NoFinal(q)
    BY <2>1 DEF NoFinal
  <2> QED
    BY <1>1, <1>5, <1>7, <2>2 DEF q, m
<1> QED
  BY <1>6, <1>7

-----------------------------------------------------------------------------
(***************************************************************************)
(* The lock queue.                                                         *)
(***************************************************************************)
LEMMA EntryAdded ==
  ASSUME NEW s \in Seq(Entries), NEW e \in Entries
  PROVE  /\ Append(s, e) \in Seq(Entries)
         /\ NoneOf(s, e.src) => OnlyOf(Append(s, e), e.src, e)
         /\ \A a : a # e.src =>
              /\ NoneOf(s, a) => NoneOf(Append(s, e), a)
              /\ \A x : OnlyOf(s, a, x) => OnlyOf(Append(s, e), a, x)
<1> DEFINE r == Append(s, e)
           n == Len(s) + 1
<1>1. /\ Len(s) \in Nat /\ Len(r) = n /\ r \in Seq(Entries)
      /\ \A i \in 1 .. Len(s) : r[i] = s[i]
      /\ r[n] = e
  BY Appended
<1>2. n \in 1 .. n /\ \A i \in 1 .. n : i # n => i \in 1 .. Len(s)
  BY <1>1
<1>3. \A i \in 1 .. Len(s) : i \in 1 .. n /\ i # n
  BY <1>1
<1> HIDE DEF r, n
<1>4. NoneOf(s, e.src) => OnlyOf(r, e.src, e)
  BY <1>1, <1>2 DEF NoneOf, OnlyOf
<1>5. ASSUME NEW a, a # e.src PROVE NoneOf(s, a) => NoneOf(r, a)
  BY <1>1, <1>2, <1>5 DEF NoneOf
<1>6. ASSUME NEW a, a # e.src, NEW x PROVE OnlyOf(s, a, x) => OnlyOf(r, a, x)
  BY <1>1, <1>2, <1>3, <1>6 DEF OnlyOf
<1> QED
  BY <1>1, <1>4, <1>5, <1>6 DEF r

LEMMA EntryTaken ==
  ASSUME NEW s \in Seq(Entries), NEW i \in 1 .. Len(s)
  PROVE  /\ Without(s, i) \in Seq(Entries)
         /\ Len(Without(s, i)) = Len(s) - 1
         /\ \A x : OnlyOf(s, s[i].src, x) => x = s[i] /\ NoneOf(Without(s, i), s[i].src)
         /\ \A a : a # s[i].src =>
              /\ NoneOf(s, a) => NoneOf(Without(s, i), a)
              /\ \A x : OnlyOf(s, a, x) => OnlyOf(Without(s, i), a, x)
<1> DEFINE r == Without(s, i)
           n == Len(s)
           Old(j) == IF j < i THEN j ELSE j + 1
           New(j) == IF j < i THEN j ELSE j - 1
<1>1. n \in Nat /\ i \in 1 .. n /\ \A j \in 1 .. n : s[j] \in Entries
  BY LenProperties, ElementOfSeq
<1>2. ASSUME NEW j \in 1 .. n - 1 PROVE Old(j) \in 1 .. n /\ Old(j) # i /\ r[j] = s[Old(j)]
  BY <1>1 DEF Without
<1>3. r \in Seq(Entries) /\ Len(r) = n - 1
  <2>1. r = [j \in 1 .. n - 1 |-> IF j < i THEN s[j] ELSE s[j + 1]]
    BY DEF Without
  <2>2. \A j \in 1 .. n - 1 : r[j] \in Entries
    BY <1>1, <1>2
  <2>3. r \in [1 .. n - 1 -> Entries]
    BY <2>1, <2>2
  <2>4. n - 1 \in Nat
    BY <1>1
  <2> HIDE DEF r
  <2> QED
    BY <2>3, <2>4
<1>4. ASSUME NEW j \in 1 .. n, j # i
      PROVE  New(j) \in 1 .. n - 1 /\ Old(New(j)) = j /\ r[New(j)] = s[j]
  <2>1. New(j) \in 1 .. n - 1 /\ Old(New(j)) = j
    BY <1>1, <1>4
  <2> QED
    BY <2>1, <1>2
<1>5. \A j \in 1 .. n - 1 : New(Old(j)) = j
  BY <1>1
<1> HIDE DEF r, Old, New
<1>6. ASSUME NEW x, OnlyOf(s, s[i].src, x) PROVE x = s[i] /\ NoneOf(r, s[i].src)
  <2>1. PICK k \in 1 .. n : s[k] = x /\ \A j \in 1 .. n : j # k => s[j].src # s[i].src
    BY <1>6 DEF OnlyOf
  <2>2. k = i
    BY <2>1, <1>1
  <2> QED
    BY <2>1, <2>2, <1>2, <1>3 DEF NoneOf
<1>7. ASSUME NEW a, a # s[i].src, NoneOf(s, a) PROVE NoneOf(r, a)
  BY <1>2, <1>3, <1>7 DEF NoneOf
<1>8. ASSUME NEW a, a # s[i].src, NEW x, OnlyOf(s, a, x) PROVE OnlyOf(r, a, x)
  <2>1. PICK k \in 1 .. n : s[k] = x /\ x.src = a /\ \A j \in 1 .. n : j # k => s[j].src # a
    BY <1>8 DEF OnlyOf
  <2>2. New(k) \in 1 .. n - 1 /\ Old(New(k)) = k /\ r[New(k)] = x
    BY <2>1, <1>4, <1>8
  <2>3. ASSUME NEW j \in 1 .. n - 1, j # New(k) PROVE r[j].src # a
    BY <2>1, <2>2, <2>3, <1>2, <1>5
  <2> QED
    BY <2>1, <2>2, <2>3, <1>3 DEF OnlyOf
<1> QED
  BY <1>3, <1>6, <1>7, <1>8 DEF r

Replaced(s, i, e) == [s EXCEPT ![i] = e]

LEMMA EntryReceived ==
  ASSUME NEW s \in Seq(Entries), NEW i \in 1 .. Len(s), NEW e \in Entries, e.src = s[i].src
  PROVE  /\ Replaced(s, i, e) \in Seq(Entries)
         /\ \A x : OnlyOf(s, e.src, x) => x = s[i] /\ OnlyOf(Replaced(s, i, e), e.src, e)
         /\ \A a : a # e.src =>
              /\ NoneOf(s, a) => NoneOf(Replaced(s, i, e), a)
              /\ \A x : OnlyOf(s, a, x) => OnlyOf(Replaced(s, i, e), a, x)
<1> DEFINE r == Replaced(s, i, e)
<1>4. /\ r \in Seq(Entries) /\ Len(r) = Len(s)
      /\ \A j \in 1 .. Len(s) : r[j] = IF j = i THEN e ELSE s[j]
  <2>1. Len(s) \in Nat /\ s \in [1 .. Len(s) -> Entries]
    BY LenProperties
  <2>2. /\ r \in [1 .. Len(s) -> Entries]
        /\ \A j \in 1 .. Len(s) : r[j] = IF j = i THEN e ELSE s[j]
    BY <2>1 DEF Replaced
  <2>3. r \in Seq(Entries) /\ Len(r) = Len(s)
    BY <2>1, <2>2
  <2> QED
    BY <2>2, <2>3
<1> HIDE DEF r
<1>5. ASSUME NEW x, OnlyOf(s, e.src, x) PROVE x = s[i] /\ OnlyOf(r, e.src, e)
  <2>1. PICK k \in 1 .. Len(s) : s[k] = x /\ \A j \in 1 .. Len(s) : j # k => s[j].src # e.src
    BY <1>5 DEF OnlyOf
  <2>2. k = i
    BY <2>1
  <2> QED
    BY <2>1, <2>2, <1>4 DEF OnlyOf
<1>6. ASSUME NEW a, a # e.src PROVE NoneOf(s, a) => NoneOf(r, a)
  BY <1>4, <1>6 DEF NoneOf
<1>7. ASSUME NEW a, a # e.src, NEW x PROVE OnlyOf(s, a, x) => OnlyOf(r, a, x)
  BY <1>4, <1>7 DEF OnlyOf
<1> QED
  BY <1>4, <1>5, <1>6, <1>7 DEF r

-----------------------------------------------------------------------------
(***************************************************************************)
(* What the variables of WinLock hold is kept by every step.               *)
(***************************************************************************)
(* What the operations on channels, lock and queue store. *)
LEMMA SendTyped ==
  ASSUME Typed, NEW p \in Proc, NEW q \in Proc, NEW m \in Packets, Send(p, q, m)
  PROVE  chan' \in [Proc -> [Proc -> Seq(Packets)]]
<1>1. chan[p][q] \in Seq(Packets)
  BY DEF Typed
<1>2. Append(chan[p][q], m) \in Seq(Packets)
  BY <1>1, Appended
<1> QED
  BY <1>2 DEF Typed, Send

LEMMA ReceiveTyped ==
  ASSUME Typed, NEW p \in Proc, NEW q \in Proc, chan[p][q] # <<>>, Receive(p, q)
  PROVE  chan' \in [Proc -> [Proc -> Seq(Packets)]] /\ Head(chan[p][q]) \in Packets
<1>1. chan[p][q] \in Seq(Packets)
  BY DEF Typed
<1>2. Tail(chan[p][q]) \in Seq(Packets) /\ Head(chan[p][q]) \in Packets
  BY <1>1, FirstTaken
<1> QED
  BY <1>2 DEF Typed, Receive

LEMMA AnswerTyped ==
  ASSUME Typed, NEW p \in Proc, NEW q \in Proc, p # q, chan[p][q] # <<>>, NEW m \in Packets,
         Answer(p, q, m)
  PROVE  chan' \in [Proc -> [Proc -> Seq(Packets)]]
<1>1. chan[p][q] \in Seq(Packets) /\ chan[q][p] \in Seq(Packets)
  BY DEF Typed
<1>2. Tail(chan[p][q]) \in Seq(Packets) /\ Append(chan[q][p], m) \in Seq(Packets)
  BY <1>1, FirstTaken, Appended
<1> QED
  BY <1>2 DEF Typed, Answer

LEMMA AcquireTyped ==
  ASSUME Typed, NEW o \in Proc, NEW t \in Proc, NEW type \in Types, NEW k \in Nat,
         Acquire(o, t, type, k)
  PROVE  /\ lock_state' \in [Proc -> Types \cup {"NOT_LOCKED"}]
         /\ shared_lock_ref_cnt' \in [Proc -> Int]
         /\ held' \in [Proc -> SUBSET (Proc \X Types \X Nat)]
<1>1. /\ lock_state \in [Proc -> Types \cup {"NOT_LOCKED"}]
      /\ shared_lock_ref_cnt \in [Proc -> Int]
      /\ held \in [Proc -> SUBSET (Proc \X Types \X Nat)]
  BY DEF Typed
<1>2. shared_lock_ref_cnt' \in [Proc -> Int]
  BY <1>1 DEF Acquire
<1>3. /\ lock_state' \in [Proc -> Types \cup {"NOT_LOCKED"}]
      /\ held' \in [Proc -> SUBSET (Proc \X Types \X Nat)]
  BY <1>1 DEF Acquire
<1> QED
  BY <1>2, <1>3

LEMMA DropTyped ==
  ASSUME Typed, NEW o \in Proc, NEW t \in Proc, NEW k \in Nat, Drop(o, t, k)
  PROVE  /\ lock_state' \in [Proc -> Types \cup {"NOT_LOCKED"}]
         /\ shared_lock_ref_cnt' \in [Proc -> Int]
         /\ held' \in [Proc -> SUBSET (Proc \X Types \X Nat)]
         /\ release' \in [Proc -> Nat] /\ release'[t] # 0
<1>1. lock_queue[t] \in Seq(Entries)
  BY DEF Typed, Entries
<1>2. Len(lock_queue[t]) \in Nat
  BY <1>1, LenProperties
<1>3. /\ lock_state \in [Proc -> Types \cup {"NOT_LOCKED"}]
      /\ shared_lock_ref_cnt \in [Proc -> Int]
      /\ held \in [Proc -> SUBSET (Proc \X Types \X Nat)]
      /\ release \in [Proc -> Nat]
  BY DEF Typed
<1>4. shared_lock_ref_cnt' \in [Proc -> Int]
  BY <1>3 DEF Drop
<1>5. /\ lock_state' \in [Proc -> Types \cup {"NOT_LOCKED"}]
      /\ held' \in [Proc -> SUBSET (Proc \X Types \X Nat)]
  BY <1>3 DEF Drop
<1>6. release' \in [Proc -> Nat] /\ release'[t] # 0
  BY <1>2, <1>3 DEF Drop
<1> QED
  BY <1>4, <1>5, <1>6

LEMMA EnqueueTyped ==
  ASSUME Typed, NEW o \in Proc, NEW t \in Proc, NEW m \in Packets, Enqueue(t, o, m)
  PROVE  lock_queue' \in [Proc -> Seq(Entries)]
<1> DEFINE e == [src |-> o, type |-> m.lock, op |-> m.n, k |-> m.k, data_recd |-> FALSE]
<1>1. e \in Entries
  BY DEF Entries, Packets
<1>2. lock_queue[t] \in Seq(Entries) /\ lock_queue' = [lock_queue EXCEPT ![t] = Append(@, e)]
  BY DEF Typed, Entries, Enqueue
<1> HIDE DEF e
<1>3. Append(lock_queue[t], e) \in Seq(Entries)
  BY <1>1, <1>2, Appended
<1> QED
  BY <1>2, <1>3 DEF Typed, Entries

LEMMA IssueTyped ==
  ASSUME Typed, NEW o \in Proc, NEW t \in Proc, NEW unlock \in BOOLEAN, NEW isLocal \in BOOLEAN,
         rma_ops_list[o][t] # <<>>, Issue(o, t, unlock, isLocal)
  PROVE  /\ chan' \in [Proc -> [Proc -> Seq(Packets)]]
         /\ gets' \in [Proc -> [Proc -> Int]]
         /\ pt_rma_puts_accs' \in [Proc -> [Proc -> Nat]]
         /\ remote_ops_done' \in [Proc -> [Proc -> {0, 1}]]
<1> DEFINE ops == Reordered(rma_ops_list[o][t])
           packets == PacketsOf(ops, epochs[o][t], unlock)
           Number(S) == Cardinality({i \in DOMAIN ops : ops[i].kind \in S})
<1>1. rma_ops_list[o][t] \in Seq(Ops) /\ epochs[o][t] \in Nat /\ chan[o][t] \in Seq(Packets)
  BY DEF Typed, Ops
<1>2. ops \in Seq(Ops) /\ Len(ops) = Len(rma_ops_list[o][t])
  BY <1>1, ReorderedOps
<1>3. ops # <<>>
  BY <1>1, <1>2, EmptySeq, LenProperties
<1> HIDE DEF ops
<1>4. packets \in Seq(Packets)
  <2>1. ops \in Seq(Ops) /\ ops # <<>> /\ epochs[o][t] \in Nat
    BY <1>1, <1>2, <1>3
  <2> QED
    BY <2>1, Issued
<1>5. chan[o][t] \o packets \in Seq(Packets)
  BY <1>1, <1>4, ConcatProperties
<1>6. ASSUME NEW S PROVE Number(S) \in Nat
  <2>1. DOMAIN ops = 1 .. Len(ops) /\ Len(ops) \in Nat
    BY <1>2, LenProperties
  <2>2. IsFiniteSet(1 .. Len(ops))
    BY <2>1, FS_Interval
  <2>3. {i \in DOMAIN ops : ops[i].kind \in S} \subseteq 1 .. Len(ops)
    BY <2>1
  <2> QED
    BY <2>2, <2>3, FS_Subset, FS_CardinalityType
<1>7. /\ chan' = [chan EXCEPT ![o][t] = @ \o packets]
      /\ gets' = [gets EXCEPT ![o][t] = @ + Number({"get"})]
      /\ pt_rma_puts_accs' = [pt_rma_puts_accs EXCEPT ![o][t] = @ + Number({"put", "long", "acc"})]
  BY DEF Issue, ops
<1>8. remote_ops_done' \in [Proc -> [Proc -> {0, 1}]]
  BY DEF Issue, Typed
<1>9. Number({"get"}) \in Nat /\ Number({"put", "long", "acc"}) \in Nat
  BY <1>6
<1> HIDE DEF Number, packets
<1> QED
  <2>1. chan \in [Proc -> [Proc -> Seq(Packets)]] /\ gets \in [Proc -> [Proc -> Int]]
        /\ pt_rma_puts_accs \in [Proc -> [Proc -> Nat]]
    BY DEF Typed
  <2>2. chan' \in [Proc -> [Proc -> Seq(Packets)]]
    BY <1>5, <1>7, <2>1
  <2>3. gets' \in [Proc -> [Proc -> Int]] /\ pt_rma_puts_accs' \in [Proc -> [Proc -> Nat]]
    BY <1>7, <1>9, <2>1
  <2> QED
    BY <1>8, <2>2, <2>3

(* A payload that is read from now on. *)
Reads(t, o) == reading' = [reading EXCEPT ![t][o] = Head(chan[o][t])]

LEMMA Made ==
  ASSUME NEW lock \in Types, NEW n \in Nat, NEW k \in Nat, NEW last \in BOOLEAN,
         NEW unlock \in BOOLEAN
  PROVE  /\ \A type \in PacketTypes : Packet(type, lock, n, k, last, unlock) \in Packets
         /\ \A type \in PacketTypes : LockPacket(type, lock, k) \in Packets
         /\ \A type \in PacketTypes : Bare(type, k) \in Packets
         /\ RmaDone(k, unlock) \in Packets
BY DEF Packet, LockPacket, Bare, RmaDone, Packets, PacketTypes, Types

LEMMA Updated ==
  ASSUME NEW A, NEW B, NEW S, NEW f \in [A -> [B -> S]], NEW a \in A, NEW b \in B, NEW v \in S
  PROVE  [f EXCEPT ![a][b] = v] \in [A -> [B -> S]]
OBVIOUS

LEMMA Counters ==
  ASSUME Typed
  PROVE  /\ epochs \in [Proc -> [Proc -> Nat]] /\ queued \in [Proc -> [Proc -> Nat]]
         /\ pt_rma_puts_accs \in [Proc -> [Proc -> Nat]] /\ gets \in [Proc -> [Proc -> Int]]
         /\ my_pt_rma_puts_accs \in [Proc -> Nat] /\ release \in [Proc -> Nat]
         /\ lockType \in [Proc -> [Proc -> Types]]
BY DEF Typed

LEMMA TypedOrigins ==
  ASSUME Typed, NEW o \in Proc, NEW t \in Proc
  PROVE  /\ \A type \in Types : Lock(o, t, type) => Typed'
         /\ \A type \in Types : LockSelf(o, type) => Typed'
         /\ SelfLocked(o) => Typed'
         /\ AccessSelf(o) => Typed'
         /\ UnlockSelf(o) => Typed'
         /\ UnlockUnused(o, t) => Typed'
         /\ FlushEmpty(o, t) => Typed'
         /\ Return(o) => Typed'
<1>1. ASSUME NEW type \in Types, Lock(o, t, type) PROVE Typed'
  <2>1. remote_lock_state' \in [Proc -> [Proc -> Types \cup {"NOT_LOCKED", "LOCK_REQUESTED"}]]
    BY <1>1 DEF Typed, Lock
  <2>2. lockType' \in [Proc -> [Proc -> Types]]
    BY <1>1 DEF Typed, Lock
  <2>3. epochs' \in [Proc -> [Proc -> Nat]]
    BY <1>1, Counters DEF Lock
  <2> QED
    BY <1>1, <2>1, <2>2, <2>3 DEF Typed, Lock, UnchangedAtTargets, target
<1>2. ASSUME NEW type \in Types, LockSelf(o, type) PROVE Typed'
  <2>1. call' \in [Proc -> Calls \cup {None}]
    BY <1>2 DEF Typed, LockSelf, Calls
  <2>2. lockType' \in [Proc -> [Proc -> Types]]
    BY <1>2 DEF Typed, LockSelf
  <2>3. epochs' \in [Proc -> [Proc -> Nat]]
    BY <1>2, Counters DEF LockSelf
  <2> QED
    BY <1>2, <2>1, <2>2, <2>3 DEF Typed, LockSelf, UnchangedAtTargets, target
<1>3. ASSUME SelfLocked(o) PROVE Typed'
  <2>1. lockType[o][o] \in Types /\ epochs[o][o] \in Nat
    BY DEF Typed
  <2>2. /\ lock_state' \in [Proc -> Types \cup {"NOT_LOCKED"}]
        /\ shared_lock_ref_cnt' \in [Proc -> Int]
        /\ held' \in [Proc -> SUBSET (Proc \X Types \X Nat)]
    BY <1>3, <2>1, AcquireTyped DEF SelfLocked
  <2> QED
    BY <1>3, <2>1, <2>2 DEF Typed, SelfLocked
<1>4. ASSUME AccessSelf(o) PROVE Typed'
  <2>1. queued' \in [Proc -> [Proc -> Nat]]
    BY <1>4, Counters DEF AccessSelf
  <2>2. queued[o][o] + 1 \in Nat
    BY Counters
  <2>3. applied' \in [Proc -> SUBSET (Proc \X Nat)]
    <3>1. applied \in [Proc -> SUBSET (Proc \X Nat)]
      BY DEF Typed
    <3> DEFINE n == queued[o][o] + 1
    <3>2. applied' = [applied EXCEPT ![o] = @ \cup {<<o, n>>}] /\ n \in Nat
      BY <1>4, <2>2 DEF AccessSelf, Apply
    <3> HIDE DEF n
    <3> QED
      BY <3>1, <3>2
  <2> QED
    BY <1>4, <2>1, <2>3 DEF Typed, AccessSelf, target
<1>5. ASSUME UnlockSelf(o) PROVE Typed'
  <2>1. epochs[o][o] \in Nat
    BY DEF Typed
  <2>2. /\ lock_state' \in [Proc -> Types \cup {"NOT_LOCKED"}]
        /\ shared_lock_ref_cnt' \in [Proc -> Int]
        /\ held' \in [Proc -> SUBSET (Proc \X Types \X Nat)]
        /\ release' \in [Proc -> Nat]
    BY <1>5, <2>1, DropTyped DEF UnlockSelf
  <2>3. /\ remote_lock_state' \in [Proc -> [Proc -> Types \cup {"NOT_LOCKED", "LOCK_REQUESTED"}]]
        /\ completed' \in [Proc -> [Proc -> Nat]]
    BY <1>5 DEF Typed, UnlockSelf
  <2> QED
    BY <1>5, <2>2, <2>3 DEF Typed, UnlockSelf
<1>6. ASSUME UnlockUnused(o, t) PROVE Typed'
  BY <1>6 DEF Typed, UnlockUnused, UnchangedAtTargets, target
<1>7. ASSUME FlushEmpty(o, t) PROVE Typed'
  BY <1>7 DEF Typed, FlushEmpty, Wait, UnchangedAtTargets, target, Calls
<1>8. ASSUME Return(o) PROVE Typed'
  <2>1. call[o].t \in Proc
    BY <1>8 DEF Typed, Return, Calls
  <2> DEFINE u == call[o].t
  <2>2. /\ rma_ops_list' = [rma_ops_list EXCEPT ![o][u] = <<>>]
        /\ remote_lock_state' =
             [remote_lock_state EXCEPT ![o][u] = IF call[o].unlock THEN "NOT_LOCKED" ELSE @]
        /\ completed' = [completed EXCEPT ![o][u] = IF call[o].isLocal THEN @ ELSE queued[o][u]]
        /\ call' = [call EXCEPT ![o] = None]
    BY <1>8 DEF Return
  <2> HIDE DEF u
  <2>3. u \in Proc /\ <<>> \in Seq([kind : Kinds, n : Nat \ {0}])
    BY <2>1, EmptySeq DEF u
  <2>4. rma_ops_list' \in [Proc -> [Proc -> Seq([kind : Kinds, n : Nat \ {0}])]]
    BY <2>2, <2>3, Updated DEF Typed
  <2>5. remote_lock_state' \in [Proc -> [Proc -> Types \cup {"NOT_LOCKED", "LOCK_REQUESTED"}]]
    BY <2>2, <2>3 DEF Typed
  <2>6. completed' \in [Proc -> [Proc -> Nat]]
    BY <2>2, <2>3 DEF Typed
  <2>7. call' \in [Proc -> Calls \cup {None}]
    BY <2>2 DEF Typed
  <2> QED
    BY <1>8, <2>4, <2>5, <2>6, <2>7 DEF Typed, Return, UnchangedAtTargets, target
<1> QED
  BY <1>1, <1>2, <1>3, <1>4, <1>5, <1>6, <1>7, <1>8

LEMMA TypedSends ==
  ASSUME Typed, NEW o \in Proc, NEW t \in Proc, NEW unlock \in BOOLEAN, NEW isLocal \in BOOLEAN
  PROVE  /\ \A kind \in Kinds : Queue(o, t, kind) => Typed'
         /\ UnlockEmpty(o, t) => Typed'
         /\ UnlockSingleOp(o, t) => Typed'
         /\ FlushLocked(o, t, unlock, isLocal) => Typed'
         /\ FlushUnlocked(o, t, unlock, isLocal) => Typed'
<1>0. epochs[o][t] \in Nat /\ lockType[o][t] \in Types /\ queued[o][t] + 1 \in Nat \ {0}
  BY Counters
<1>1. ASSUME NEW kind \in Kinds, Queue(o, t, kind) PROVE Typed'
  <2> DEFINE op == [kind |-> kind, n |-> queued[o][t] + 1]
  <2>1. rma_ops_list[o][t] \in Seq([kind : Kinds, n : Nat \ {0}]) /\ op \in [kind : Kinds, n : Nat \ {0}]
    BY <1>0 DEF Typed
  <2>2. rma_ops_list' = [rma_ops_list EXCEPT ![o][t] = Append(@, op)]
    BY <1>1 DEF Queue
  <2> HIDE DEF op
  <2>3. Append(rma_ops_list[o][t], op) \in Seq([kind : Kinds, n : Nat \ {0}])
    BY <2>1, Appended
  <2>4. rma_ops_list' \in [Proc -> [Proc -> Seq([kind : Kinds, n : Nat \ {0}])]]
    BY <2>2, <2>3 DEF Typed
  <2>5. queued' \in [Proc -> [Proc -> Nat]]
    <3>1. queued' = [queued EXCEPT ![o][t] = @ + 1]
      BY <1>1 DEF Queue
    <3> QED
      BY <3>1, Counters
  <2> QED
    BY <1>1, <2>4, <2>5 DEF Typed, Queue, UnchangedAtTargets, target
<1>2. ASSUME UnlockEmpty(o, t) PROVE Typed'
  <2>1. Bare("UNLOCK", epochs[o][t]) \in Packets
    BY <1>0, Made DEF PacketTypes
  <2>2. chan' \in [Proc -> [Proc -> Seq(Packets)]]
    BY <1>2, <2>1, SendTyped DEF UnlockEmpty
  <2>3. call' \in [Proc -> Calls \cup {None}]
    BY <1>2 DEF UnlockEmpty, Wait, Typed, Calls
  <2> QED
    BY <1>2, <2>2, <2>3 DEF Typed, UnlockEmpty, UnchangedAtTargets, target
<1>3. ASSUME UnlockSingleOp(o, t) PROVE Typed'
  <2> DEFINE op == Head(rma_ops_list[o][t])
             type == IF op.kind = "put" THEN "LOCK_PUT_UNLOCK" ELSE "LOCK_ACCUM_UNLOCK"
             m == Packet(type, lockType[o][t], op.n, epochs[o][t], TRUE, TRUE)
  <2>1. rma_ops_list[o][t] \in Seq([kind : Kinds, n : Nat \ {0}]) /\ rma_ops_list[o][t] # <<>>
    <3>1. rma_ops_list[o][t] \in Seq([kind : Kinds, n : Nat \ {0}])
      BY DEF Typed
    <3>2. Len(rma_ops_list[o][t]) = 1
      BY <1>3 DEF UnlockSingleOp, SingleOp
    <3> QED
      BY <3>1, <3>2, EmptySeq
  <2>2. op \in [kind : Kinds, n : Nat \ {0}]
    BY <2>1, FirstTaken
  <2>3. type \in PacketTypes /\ op.n \in Nat /\ Send(o, t, m)
    BY <1>3, <2>2 DEF PacketTypes, UnlockSingleOp
  <2> HIDE DEF type, op
  <2>4. m \in Packets
    BY <1>0, <2>3, Made
  <2>5. chan' \in [Proc -> [Proc -> Seq(Packets)]]
    BY <2>3, <2>4, SendTyped
  <2>6. call' \in [Proc -> Calls \cup {None}]
    BY <1>3 DEF UnlockSingleOp, Wait, Typed, Calls
  <2>7. remote_lock_state' \in [Proc -> [Proc -> Types \cup {"NOT_LOCKED", "LOCK_REQUESTED"}]]
    BY <1>0, <1>3 DEF Typed, UnlockSingleOp
  <2>8. pt_rma_puts_accs' \in [Proc -> [Proc -> Nat]]
    <3>1. pt_rma_puts_accs' = [pt_rma_puts_accs EXCEPT ![o][t] = @ + 1]
      BY <1>3 DEF UnlockSingleOp
    <3> QED
      BY <3>1, Counters
  <2>9. remote_ops_done' \in [Proc -> [Proc -> {0, 1}]]
    BY <1>3 DEF Typed, UnlockSingleOp
  <2> QED
    BY <1>3, <2>5, <2>6, <2>7, <2>8, <2>9 DEF Typed, UnlockSingleOp, UnchangedAtTargets, target
<1>4. ASSUME FlushLocked(o, t, unlock, isLocal) PROVE Typed'
  <2>1. /\ chan' \in [Proc -> [Proc -> Seq(Packets)]]
        /\ gets' \in [Proc -> [Proc -> Int]]
        /\ pt_rma_puts_accs' \in [Proc -> [Proc -> Nat]]
        /\ remote_ops_done' \in [Proc -> [Proc -> {0, 1}]]
    BY <1>4, IssueTyped DEF FlushLocked
  <2>2. call' \in [Proc -> Calls \cup {None}]
    BY <1>4 DEF FlushLocked, Issue, Wait, Typed, Calls
  <2> QED
    BY <1>4, <2>1, <2>2 DEF Typed, FlushLocked, UnchangedAtTargets, target
<1>5. ASSUME FlushUnlocked(o, t, unlock, isLocal) PROVE Typed'
  <2>1. LockPacket("LOCK", lockType[o][t], epochs[o][t]) \in Packets
    BY <1>0, Made DEF PacketTypes
  <2>2. chan' \in [Proc -> [Proc -> Seq(Packets)]]
    BY <1>5, <2>1, SendTyped DEF FlushUnlocked
  <2>3. call' \in [Proc -> Calls \cup {None}]
    BY <1>5 DEF FlushUnlocked, Wait, Typed, Calls
  <2> QED
    BY <1>5, <2>2, <2>3 DEF Typed, FlushUnlocked, UnchangedAtTargets, target
<1> QED
  BY <1>1, <1>2, <1>3, <1>4, <1>5

LEMMA TypedServes ==
  ASSUME Typed, NEW t \in Proc, NEW o \in Proc, o # t
  PROVE  /\ HandleLock(t, o) => Typed'
         /\ HandleUnlock(t, o) => Typed'
         /\ HandlePut(t, o) => Typed'
         /\ HandleLockPut(t, o) => Typed'
         /\ HandleLockAccum(t, o) => Typed'
<1>0. ASSUME NEW type, First(o, t, type)
      PROVE  /\ chan[o][t] # <<>> /\ Head(chan[o][t]) \in Packets
             /\ Receive(o, t) => chan' \in [Proc -> [Proc -> Seq(Packets)]]
  <2>1. chan[o][t] \in Seq(Packets) /\ chan[o][t] # <<>>
    BY <1>0 DEF Typed, First
  <2> QED
    BY <2>1, FirstTaken, ReceiveTyped
<1> DEFINE m == Head(chan[o][t])
<1>1. ASSUME m \in Packets
      PROVE  m.lock \in Types /\ m.k \in Nat /\ m.n \in Nat /\ m.last \in BOOLEAN /\ m.unlock \in BOOLEAN
  BY <1>1 DEF Packets
<1>2. ASSUME Reads(t, o), m \in Packets
      PROVE  reading' \in [Proc -> [Proc -> Packets \cup {None}]]
  BY <1>2 DEF Typed, Reads
<1>3. ASSUME HandleLock(t, o) PROVE Typed'
  <2>1. m \in Packets /\ m.lock \in Types /\ m.k \in Nat /\ chan[o][t] # <<>>
    BY <1>0, <1>1, <1>3 DEF HandleLock
  <2>2. CASE /\ Acquire(o, t, m.lock, m.k)
             /\ Answer(o, t, LockPacket("LOCK_GRANTED", m.lock, m.k))
             /\ UNCHANGED <<lock_queue, release>>
    <3>1. LockPacket("LOCK_GRANTED", m.lock, m.k) \in Packets
      BY <2>1, Made DEF PacketTypes
    <3>2. chan' \in [Proc -> [Proc -> Seq(Packets)]]
      BY <2>1, <2>2, <3>1, AnswerTyped
    <3>3. /\ lock_state' \in [Proc -> Types \cup {"NOT_LOCKED"}]
          /\ shared_lock_ref_cnt' \in [Proc -> Int]
          /\ held' \in [Proc -> SUBSET (Proc \X Types \X Nat)]
      BY <2>1, <2>2, AcquireTyped
    <3> QED
      BY <1>3, <2>2, <3>2, <3>3 DEF Typed, HandleLock, origin
  <2>3. CASE /\ ~CanAcquire(t, m.lock)
             /\ Enqueue(t, o, m) /\ Receive(o, t)
             /\ UNCHANGED <<lock_state, shared_lock_ref_cnt, held, release>>
    <3>1. lock_queue' \in [Proc -> Seq(Entries)]
      BY <2>1, <2>3, EnqueueTyped
    <3>2. chan' \in [Proc -> [Proc -> Seq(Packets)]]
      BY <1>0, <1>3, <2>3 DEF HandleLock
    <3> QED
      BY <1>3, <2>3, <3>1, <3>2 DEF Typed, HandleLock, origin, Entries
  <2> QED
    BY <1>3, <2>2, <2>3 DEF HandleLock
<1>4. ASSUME HandleUnlock(t, o) PROVE Typed'
  <2>1. m.k \in Nat /\ chan' \in [Proc -> [Proc -> Seq(Packets)]] /\ Drop(o, t, m.k)
    BY <1>0, <1>1, <1>4 DEF HandleUnlock
  <2>2. /\ lock_state' \in [Proc -> Types \cup {"NOT_LOCKED"}]
        /\ shared_lock_ref_cnt' \in [Proc -> Int]
        /\ held' \in [Proc -> SUBSET (Proc \X Types \X Nat)]
        /\ release' \in [Proc -> Nat]
    BY <2>1, DropTyped
  <2>3. unlockDone' \in [Proc -> Proc \cup {None}]
    BY <1>4 DEF Typed, HandleUnlock
  <2> QED
    BY <1>4, <2>1, <2>2, <2>3 DEF Typed, HandleUnlock, origin
<1>5. ASSUME HandlePut(t, o) PROVE Typed'
  <2>1. m \in Packets /\ chan' \in [Proc -> [Proc -> Seq(Packets)]] /\ Reads(t, o)
    BY <1>0, <1>5 DEF HandlePut, StartReading, Reads
  <2> QED
    BY <1>2, <1>5, <2>1 DEF Typed, HandlePut, StartReading, origin, target
<1>6. ASSUME HandleLockPut(t, o) PROVE Typed'
  <2>1. m \in Packets /\ chan' \in [Proc -> [Proc -> Seq(Packets)]] /\ Reads(t, o)
    BY <1>0, <1>6 DEF HandleLockPut, StartReading, Reads
  <2>2. m.lock \in Types /\ m.k \in Nat /\ reading' \in [Proc -> [Proc -> Packets \cup {None}]]
    BY <1>1, <1>2, <2>1
  <2>3. CASE Acquire(o, t, m.lock, m.k) /\ UNCHANGED <<lock_queue, release>>
    <3>1. /\ lock_state' \in [Proc -> Types \cup {"NOT_LOCKED"}]
          /\ shared_lock_ref_cnt' \in [Proc -> Int]
          /\ held' \in [Proc -> SUBSET (Proc \X Types \X Nat)]
      BY <2>2, <2>3, AcquireTyped
    <3> QED
      BY <1>6, <2>1, <2>2, <2>3, <3>1 DEF Typed, HandleLockPut, StartReading, origin
  <2>4. CASE /\ ~CanAcquire(t, m.lock) /\ Enqueue(t, o, m)
             /\ UNCHANGED <<lock_state, shared_lock_ref_cnt, held, release>>
    <3>1. lock_queue' \in [Proc -> Seq(Entries)]
      BY <2>1, <2>4, EnqueueTyped
    <3> QED
      BY <1>6, <2>1, <2>2, <2>4, <3>1 DEF Typed, HandleLockPut, StartReading, origin, Entries
  <2> QED
    BY <1>6, <2>3, <2>4 DEF HandleLockPut
<1>7. ASSUME HandleLockAccum(t, o) PROVE Typed'
  <2>1. m \in Packets /\ chan' \in [Proc -> [Proc -> Seq(Packets)]] /\ Reads(t, o) /\ Enqueue(t, o, m)
    BY <1>0, <1>7 DEF HandleLockAccum, StartReading, Reads
  <2>2. reading' \in [Proc -> [Proc -> Packets \cup {None}]]
    BY <1>2, <2>1
  <2>3. lock_queue' \in [Proc -> Seq(Entries)]
    BY <2>1, EnqueueTyped
  <2> QED
    BY <1>7, <2>1, <2>2, <2>3 DEF Typed, HandleLockAccum, StartReading, origin, Entries
<1> QED
  BY <1>3, <1>4, <1>5, <1>6, <1>7

LEMMA AppliedTyped ==
  ASSUME Typed, NEW t \in Proc, NEW o \in Proc, NEW n \in Nat, Apply(t, o, n)
  PROVE  applied' \in [Proc -> SUBSET (Proc \X Nat)]
<1>1. applied \in [Proc -> SUBSET (Proc \X Nat)]
  BY DEF Typed
<1> QED
  BY <1>1 DEF Apply

LEMMA CountTyped ==
  ASSUME Typed, NEW t \in Proc, NEW o \in Proc, NEW n \in Nat, Applied(t, o, n)
  PROVE  /\ applied' \in [Proc -> SUBSET (Proc \X Nat)]
         /\ my_pt_rma_puts_accs' \in [Proc -> Nat]
<1>1. Apply(t, o, n) /\ my_pt_rma_puts_accs' = [my_pt_rma_puts_accs EXCEPT ![t] = @ + 1]
  BY DEF Applied
<1> QED
  BY <1>1, AppliedTyped, Counters

(* Window t lets go of an entry of its queue, and stops to read from o. *)
Takes(t, i) == lock_queue' = [lock_queue EXCEPT ![t] = Without(@, i)]
Read(t, o) == reading' = [reading EXCEPT ![t][o] = None]

LEMMA TakesTyped ==
  ASSUME Typed, NEW t \in Proc, NEW i \in 1 .. Len(lock_queue[t]), Takes(t, i)
  PROVE  /\ lock_queue' \in [Proc -> Seq(Entries)]
         /\ lock_queue[t][i] \in Entries /\ Len(lock_queue[t]) \in Nat
<1>1. lock_queue \in [Proc -> Seq(Entries)]
  BY DEF Typed, Entries
<1>2. lock_queue[t] \in Seq(Entries)
  BY <1>1
<1>3. Without(lock_queue[t], i) \in Seq(Entries)
  BY <1>2, EntryTaken
<1>4. lock_queue[t][i] \in Entries /\ Len(lock_queue[t]) \in Nat
  BY <1>2, ElementOfSeq, LenProperties
<1> QED
  BY <1>1, <1>3, <1>4 DEF Takes

LEMMA ReadTyped ==
  ASSUME Typed, NEW t \in Proc, NEW o \in Proc, Read(t, o)
  PROVE  reading' \in [Proc -> [Proc -> Packets \cup {None}]]
BY DEF Typed, Read

LEMMA PlaceInQueue ==
  ASSUME Typed, NEW t \in Proc, NEW o \in Proc, IsQueued(t, o)
  PROVE  /\ PlaceOf(t, o) \in 1 .. Len(lock_queue[t])
         /\ lock_queue[t][PlaceOf(t, o)].src = o
<1>1. lock_queue[t] \in Seq(Entries)
  BY DEF Typed, Entries
<1>2. DOMAIN lock_queue[t] = 1 .. Len(lock_queue[t])
  BY <1>1, LenProperties
<1> QED
  BY <1>2 DEF IsQueued, PlaceOf

LEMMA TypedReads ==
  ASSUME Typed, NEW t \in Proc, NEW o \in Proc, o # t
  PROVE  /\ HandleGet(t, o) => Typed'
         /\ \A k \in Nat : GetSendRespComplete(t, o, k) => Typed'
         /\ PutRespComplete(t, o) => Typed'
         /\ SinglePutAccumComplete(t, o) => Typed'
<1>1. ASSUME HandleGet(t, o) PROVE Typed'
  <2> DEFINE m == Head(chan[o][t])
             a == Packet("RMA_RESP", "SHARED", m.n, m.k, FALSE, m.unlock)
  <2>1. chan[o][t] \in Seq(Packets) /\ chan[o][t] # <<>>
    BY <1>1 DEF Typed, HandleGet, First
  <2>2. m \in Packets
    BY <2>1, FirstTaken
  <2>3. m.n \in Nat /\ m.k \in Nat /\ m.unlock \in BOOLEAN
    BY <2>2 DEF Packets
  <2>4. Apply(t, o, m.n) /\ Answer(o, t, a)
    BY <1>1 DEF HandleGet
  <2>5. sending' \subseteq Proc \X Proc \X Nat
    <3>1. sending' = sending \/ sending' = sending \cup {<<t, o, m.k>>}
      BY <1>1 DEF HandleGet
    <3>2. sending \subseteq Proc \X Proc \X Nat
      BY DEF Typed
    <3> HIDE DEF m
    <3> QED
      BY <2>3, <3>1, <3>2
  <2> HIDE DEF m
  <2>6. a \in Packets
    BY <2>3, Made DEF PacketTypes, Types
  <2>7. chan' \in [Proc -> [Proc -> Seq(Packets)]]
    BY <2>1, <2>4, <2>6, AnswerTyped
  <2>8. applied' \in [Proc -> SUBSET (Proc \X Nat)]
    BY <2>3, <2>4, AppliedTyped
  <2> QED
    BY <1>1, <2>5, <2>7, <2>8 DEF Typed, HandleGet, target, origin
<1>2. ASSUME NEW k \in Nat, GetSendRespComplete(t, o, k) PROVE Typed'
  <2>1. /\ lock_state' \in [Proc -> Types \cup {"NOT_LOCKED"}]
        /\ shared_lock_ref_cnt' \in [Proc -> Int]
        /\ held' \in [Proc -> SUBSET (Proc \X Types \X Nat)]
        /\ release' \in [Proc -> Nat]
    BY <1>2, DropTyped DEF GetSendRespComplete
  <2>2. sending' \subseteq Proc \X Proc \X Nat
    BY <1>2 DEF GetSendRespComplete, Typed
  <2> QED
    BY <1>2, <2>1, <2>2 DEF Typed, GetSendRespComplete, origin
<1>3. ASSUME PutRespComplete(t, o) PROVE Typed'
  <2> DEFINE m == reading[t][o]
  <2>1. m \in Packets
    BY <1>3 DEF Typed, PutRespComplete
  <2>2. m.n \in Nat /\ m.k \in Nat /\ m.unlock \in BOOLEAN
    BY <2>1 DEF Packets
  <2>3. /\ Applied(t, o, m.n)
        /\ IF m.last THEN Send(t, o, RmaDone(m.k, m.unlock)) ELSE UNCHANGED chan
        /\ IF m.unlock THEN Drop(o, t, m.k)
           ELSE UNCHANGED <<lock_state, shared_lock_ref_cnt, held, release>>
        /\ Read(t, o)
    BY <1>3 DEF PutRespComplete, Read
  <2> HIDE DEF m
  <2>4. chan' \in [Proc -> [Proc -> Seq(Packets)]]
    <3>1. chan \in [Proc -> [Proc -> Seq(Packets)]]
      BY DEF Typed
    <3>2. RmaDone(m.k, m.unlock) \in Packets
      BY <2>2, Made DEF Types
    <3> QED
      BY <2>3, <3>1, <3>2, SendTyped
  <2>5. /\ lock_state' \in [Proc -> Types \cup {"NOT_LOCKED"}]
        /\ shared_lock_ref_cnt' \in [Proc -> Int]
        /\ held' \in [Proc -> SUBSET (Proc \X Types \X Nat)]
        /\ release' \in [Proc -> Nat]
    <3>1. CASE m.unlock
      BY <2>2, <2>3, <3>1, DropTyped
    <3>2. CASE ~m.unlock
      BY <2>3, <3>2 DEF Typed
    <3> QED
      BY <3>1, <3>2
  <2>6. /\ applied' \in [Proc -> SUBSET (Proc \X Nat)]
        /\ my_pt_rma_puts_accs' \in [Proc -> Nat]
        /\ reading' \in [Proc -> [Proc -> Packets \cup {None}]]
    BY <2>2, <2>3, CountTyped, ReadTyped
  <2> QED
    BY <1>3, <2>4, <2>5, <2>6 DEF Typed, PutRespComplete, origin
<1>4. ASSUME SinglePutAccumComplete(t, o) PROVE Typed'
  <2> DEFINE i == PlaceOf(t, o)
             e == lock_queue[t][i]
  <2>1. i \in 1 .. Len(lock_queue[t])
    BY <1>4, PlaceInQueue DEF SinglePutAccumComplete
  <2>2. lock_queue[t] \in Seq(Entries)
    BY DEF Typed, Entries
  <2>3. e \in Entries /\ Len(lock_queue[t]) \in Nat
    BY <2>1, <2>2, ElementOfSeq, LenProperties
  <2>4. e.op \in Nat /\ e.k \in Nat
    BY <2>3 DEF Entries
  <2>5. reading' \in [Proc -> [Proc -> Packets \cup {None}]]
    BY <1>4, ReadTyped DEF SinglePutAccumComplete, Read
  <2>6. CASE /\ Applied(t, o, e.op)
             /\ Send(t, o, RmaDone(e.k, TRUE))
             /\ Takes(t, i)
             /\ release' = [release EXCEPT ![t] =
                              IF lock_state[t] = "NOT_LOCKED" THEN 1 ELSE Len(lock_queue[t])]
    <3> HIDE DEF e, i
    <3>1. RmaDone(e.k, TRUE) \in Packets
      BY <2>4, Made DEF Types
    <3>2. chan' \in [Proc -> [Proc -> Seq(Packets)]]
      BY <2>6, <3>1, SendTyped
    <3>3. /\ applied' \in [Proc -> SUBSET (Proc \X Nat)]
          /\ my_pt_rma_puts_accs' \in [Proc -> Nat]
          /\ lock_queue' \in [Proc -> Seq(Entries)]
      BY <2>1, <2>4, <2>6, CountTyped, TakesTyped
    <3>4. release' \in [Proc -> Nat]
      BY <2>3, <2>6, Counters
    <3> QED
      BY <1>4, <2>5, <3>2, <3>3, <3>4 DEF Typed, SinglePutAccumComplete, origin, Entries
  <2>7. CASE /\ lock_queue' = [lock_queue EXCEPT ![t][i].data_recd = TRUE]
             /\ UNCHANGED <<my_pt_rma_puts_accs, applied, chan, release>>
    <3> DEFINE f == [e EXCEPT !.data_recd = TRUE]
               r == Replaced(lock_queue[t], i, f)
    <3>1. f \in Entries /\ f.src = lock_queue[t][i].src
      BY <2>3 DEF Entries
    <3>2. lock_queue' = [lock_queue EXCEPT ![t] = r]
      BY <2>7 DEF Replaced
    <3> HIDE DEF f, i
    <3>4. r \in Seq(Entries)
      BY <2>1, <2>2, <3>1, EntryReceived
    <3> HIDE DEF r
    <3>3. lock_queue' \in [Proc -> Seq(Entries)]
      BY <3>2, <3>4 DEF Typed, Entries
    <3> QED
      BY <1>4, <2>5, <2>7, <3>3 DEF Typed, SinglePutAccumComplete, origin, Entries
  <2> QED
    BY <1>4, <2>6, <2>7 DEF SinglePutAccumComplete, Takes
<1> QED
  BY <1>1, <1>2, <1>3, <1>4

LEMMA TypedReleases ==
  ASSUME Typed, NEW t \in Proc
  PROVE  /\ SkipEntry(t) => Typed'
         /\ GrantEntry(t) => Typed'
         /\ ServeEntry(t) => Typed'
         /\ Released(t) => Typed'
<1>1. ASSUME AtEntry(t)
      PROVE  /\ release[t] \in 1 .. Len(lock_queue[t])
             /\ Entry(t).src \in Proc /\ Entry(t).type \in Types
             /\ Entry(t).k \in Nat /\ Entry(t).op \in Nat
             /\ Len(lock_queue[t]) \in Nat
  <2>1. lock_queue[t] \in Seq(Entries)
    BY DEF Typed, Entries
  <2>2. release[t] \in 1 .. Len(lock_queue[t]) /\ Len(lock_queue[t]) \in Nat
    BY <1>1, <2>1, LenProperties DEF AtEntry
  <2>3. Entry(t) \in Entries
    BY <2>1, <2>2, ElementOfSeq DEF Entry
  <2> QED
    BY <2>2, <2>3 DEF Entries
<1>2. ASSUME SkipEntry(t) PROVE Typed'
  <2>1. release' \in [Proc -> Nat]
    BY <1>2, Counters DEF SkipEntry
  <2> QED
    BY <1>2, <2>1 DEF Typed, SkipEntry, origin
<1>3. ASSUME GrantEntry(t) PROVE Typed'
  <2> DEFINE e == Entry(t)
  <2>1. /\ Acquire(e.src, t, e.type, e.k)
        /\ Send(t, e.src, LockPacket("LOCK_GRANTED", e.type, e.k))
        /\ release' = [release EXCEPT ![t] = IF e.type = "EXCLUSIVE" THEN Len(lock_queue[t]) ELSE @]
        /\ Takes(t, release[t])
    BY <1>3 DEF GrantEntry, Takes
  <2>2. /\ release[t] \in 1 .. Len(lock_queue[t]) /\ Len(lock_queue[t]) \in Nat
        /\ e.src \in Proc /\ e.type \in Types /\ e.k \in Nat
    BY <1>1, <1>3 DEF GrantEntry
  <2> HIDE DEF e
  <2>3. LockPacket("LOCK_GRANTED", e.type, e.k) \in Packets
    BY <2>2, Made DEF PacketTypes
  <2>4. chan' \in [Proc -> [Proc -> Seq(Packets)]]
    BY <2>1, <2>2, <2>3, SendTyped
  <2>5. /\ lock_state' \in [Proc -> Types \cup {"NOT_LOCKED"}]
        /\ shared_lock_ref_cnt' \in [Proc -> Int]
        /\ held' \in [Proc -> SUBSET (Proc \X Types \X Nat)]
    BY <2>1, <2>2, AcquireTyped
  <2>6. lock_queue' \in [Proc -> Seq(Entries)]
    BY <2>1, <2>2, TakesTyped
  <2>7. release' \in [Proc -> Nat]
    BY <2>1, <2>2, Counters
  <2> QED
    BY <1>3, <2>4, <2>5, <2>6, <2>7 DEF Typed, GrantEntry, origin, Entries
<1>4. ASSUME ServeEntry(t) PROVE Typed'
  <2> DEFINE e == Entry(t)
  <2>1. /\ Applied(t, e.src, e.op)
        /\ Send(t, e.src, RmaDone(e.k, TRUE))
        /\ Takes(t, release[t])
    BY <1>4 DEF ServeEntry, Takes
  <2>2. /\ release[t] \in 1 .. Len(lock_queue[t])
        /\ e.src \in Proc /\ e.op \in Nat /\ e.k \in Nat
    BY <1>1, <1>4 DEF ServeEntry
  <2> HIDE DEF e
  <2>3. RmaDone(e.k, TRUE) \in Packets
    BY <2>2, Made DEF Types
  <2>4. chan' \in [Proc -> [Proc -> Seq(Packets)]]
    BY <2>1, <2>2, <2>3, SendTyped
  <2>5. /\ applied' \in [Proc -> SUBSET (Proc \X Nat)]
        /\ my_pt_rma_puts_accs' \in [Proc -> Nat]
        /\ lock_queue' \in [Proc -> Seq(Entries)]
    BY <2>1, <2>2, CountTyped, TakesTyped
  <2> QED
    BY <1>4, <2>4, <2>5 DEF Typed, ServeEntry, origin, Entries
<1>5. ASSUME Released(t) PROVE Typed'
  <2>1. release' \in [Proc -> Nat]
    BY <1>5, Counters DEF Released
  <2>2. unlockDone' \in [Proc -> Proc \cup {None}]
    BY <1>5 DEF Typed, Released
  <2>3. chan' \in [Proc -> [Proc -> Seq(Packets)]]
    <3>1. CASE unlockDone[t] = None
      BY <1>5, <3>1 DEF Typed, Released
    <3>2. CASE unlockDone[t] # None
      <4>1. unlockDone[t] \in Proc
        BY <3>2 DEF Typed
      <4>2. Bare("UNLOCK_DONE", 0) \in Packets
        BY Made DEF PacketTypes, Types
      <4>3. Send(t, unlockDone[t], Bare("UNLOCK_DONE", 0))
        BY <1>5, <3>2 DEF Released
      <4> QED
        BY <4>1, <4>2, <4>3, SendTyped
    <3> QED
      BY <3>1, <3>2
  <2> QED
    BY <1>5, <2>1, <2>2, <2>3 DEF Typed, Released, origin
<1> QED
  BY <1>2, <1>3, <1>4, <1>5

LEMMA TypedAnswers ==
  ASSUME Typed, NEW o \in Proc, NEW t \in Proc, o # t
  PROVE  /\ Granted(o) /\ rma_ops_list[o][call[o].t] # <<>> => Typed'
         /\ HandleLockGranted(o, t) => Typed'
         /\ HandleUnlockDone(o, t) => Typed'
         /\ HandlePtRmaDone(o, t) => Typed'
         /\ HandleRmaResp(o, t) => Typed'
<1> DEFINE States == Types \cup {"NOT_LOCKED", "LOCK_REQUESTED"}
           m == Head(chan[t][o])
<1>1. ASSUME NEW state \in States, Learn(o, t, state), chan[t][o] # <<>>,
             remote_ops_done' \in [Proc -> [Proc -> {0, 1}]],
             gets' \in [Proc -> [Proc -> Int]]
      PROVE  Typed'
  <2>1. chan' \in [Proc -> [Proc -> Seq(Packets)]]
    BY <1>1, ReceiveTyped DEF Learn
  <2>2. remote_lock_state' \in [Proc -> [Proc -> States]]
    BY <1>1 DEF Learn, Typed
  <2> QED
    BY <1>1, <2>1, <2>2 DEF Typed, Learn, UnchangedAtTargets, target
<1>2. ASSUME NEW type, First(t, o, type) PROVE chan[t][o] # <<>> /\ m \in Packets
  <2>1. chan[t][o] \in Seq(Packets) /\ chan[t][o] # <<>>
    BY <1>2 DEF Typed, First
  <2> QED
    BY <2>1, FirstTaken
<1>3. remote_ops_done \in [Proc -> [Proc -> {0, 1}]] /\ gets \in [Proc -> [Proc -> Int]]
  BY DEF Typed
<1>4. remote_lock_state[o][t] \in States
  BY DEF Typed
<1>5. StateAfter(o, t, m) \in States
  BY <1>4 DEF StateAfter
<1>6. ASSUME Granted(o), rma_ops_list[o][call[o].t] # <<>> PROVE Typed'
  <2> DEFINE u == call[o].t
  <2>1. u \in Proc /\ call[o].unlock \in BOOLEAN /\ call[o].isLocal \in BOOLEAN
    BY <1>6 DEF Typed, Granted, Calls
  <2>2. Issue(o, u, call[o].unlock, call[o].isLocal)
    BY <1>6 DEF Granted
  <2>3. rma_ops_list[o][u] # <<>>
    BY <1>6
  <2> HIDE DEF u
  <2>4. Typed'
    <3>1. /\ chan' \in [Proc -> [Proc -> Seq(Packets)]]
          /\ gets' \in [Proc -> [Proc -> Int]]
          /\ pt_rma_puts_accs' \in [Proc -> [Proc -> Nat]]
          /\ remote_ops_done' \in [Proc -> [Proc -> {0, 1}]]
      BY <2>1, <2>2, <2>3, IssueTyped
    <3>2. call' \in [Proc -> Calls \cup {None}]
      BY <2>1, <2>2 DEF Issue, Wait, Typed, Calls
    <3> QED
      BY <1>6, <3>1, <3>2 DEF Typed, Granted, UnchangedAtTargets, target
  <2> QED
    BY <2>4
<1>7. ASSUME HandleLockGranted(o, t) PROVE Typed'
  <2>1. m.lock \in States /\ chan[t][o] # <<>>
    BY <1>2, <1>7 DEF HandleLockGranted, Packets
  <2> QED
    BY <1>1, <1>3, <1>7, <2>1 DEF HandleLockGranted
<1>8. ASSUME HandleUnlockDone(o, t) PROVE Typed'
  BY <1>1, <1>2, <1>3, <1>8 DEF HandleUnlockDone
<1>9. ASSUME HandlePtRmaDone(o, t) PROVE Typed'
  <2>1. remote_ops_done' \in [Proc -> [Proc -> {0, 1}]]
    BY <1>3, <1>9 DEF HandlePtRmaDone
  <2> QED
    BY <1>1, <1>2, <1>3, <1>5, <1>9, <2>1 DEF HandlePtRmaDone
<1>10. ASSUME HandleRmaResp(o, t) PROVE Typed'
  <2>1. gets' \in [Proc -> [Proc -> Int]]
    BY <1>3, <1>10 DEF HandleRmaResp
  <2> QED
    BY <1>1, <1>2, <1>3, <1>5, <1>10, <2>1 DEF HandleRmaResp
<1> QED
  BY <1>6, <1>7, <1>8, <1>9, <1>10

-----------------------------------------------------------------------------
(***************************************************************************)
(* What a step leaves alone: most steps of WinLock concern one origin and  *)
(* one target, and keep the invariant of every other pair.                 *)
(***************************************************************************)
KeepsRequests(s, r) ==
  /\ NoRequest(s) => NoRequest(r)
  /\ NoFinal(s) => NoFinal(r)
  /\ \A m : LastFinal(s, m) => LastFinal(r, m)
  /\ \A m : Final(m) /\ OnlyRequest(s, m) => OnlyRequest(r, m)
KeepsAnswers(s, r) ==
  /\ NoAnswer(s) => NoAnswer(r)
  /\ \A m : OneAnswer(s, m) => OneAnswer(r, m)
KeepsQueue(s, r, o) ==
  /\ NoneOf(s, o) => NoneOf(r, o)
  /\ \A e : OnlyOf(s, o, e) => OnlyOf(r, o, e)

(* Origin o for target t; its lists; what the target has of it; its locks; *)
(* the packets between them.                                               *)
SameOrigin(o, t) ==
  /\ remote_lock_state'[o][t] = remote_lock_state[o][t]
  /\ lockType'[o][t] = lockType[o][t]
  /\ epochs'[o][t] = epochs[o][t]
  /\ remote_ops_done'[o][t] = remote_ops_done[o][t]
  /\ Waits(o, t)' <=> Waits(o, t)
  /\ Waits(o, t) => call'[o] = call[o]
SameLists(o, t) == gets'[o][t] = gets[o][t] /\ rma_ops_list'[o][t] = rma_ops_list[o][t]
SameTarget(o, t) ==
  /\ reading'[t][o] = reading[t][o]
  /\ unlockDone'[t] = o <=> unlockDone[t] = o
  /\ KeepsQueue(lock_queue[t], lock_queue'[t], o)
SameLocks(o, t) ==
  /\ \A h : h[1] = o => (h \in held'[t] <=> h \in held[t])
  /\ \A x : x[1] = t /\ x[2] = o => (x \in sending' <=> x \in sending)
SameChan(o, t) ==
  /\ SameRequests(chan[o][t], chan'[o][t])
  /\ SameAnswers(chan[t][o], chan'[t][o])
  /\ o = t => chan'[o][t] = chan[o][t]

Same(o, t) ==
  SameOrigin(o, t) /\ SameLists(o, t) /\ SameTarget(o, t) /\ SameLocks(o, t) /\ SameChan(o, t)

KeepsLocks(o, t) ==
  (Has(o, t) => Has(o, t)') /\ (HasNot(o, t) => HasNot(o, t)') /\ (NeverHad(o, t) => NeverHad(o, t)')

SamePlace(o, t) ==
  /\ SameOrigin(o, t) /\ SameTarget(o, t) /\ KeepsLocks(o, t)
  /\ KeepsRequests(chan[o][t], chan'[o][t])
  /\ KeepsAnswers(chan[t][o], chan'[t][o])

PairInv(o, t) == InOnePlace(o, t) /\ Linked(o, t) /\ OldLocks(o, t)

-----------------------------------------------------------------------------
LEMMA Members ==
  ASSUME NEW s, NEW m, NEW o
  PROVE  /\ OnlyRequest(s, m) => m \in Elements(s)
         /\ LastFinal(s, m) => m \in Elements(s)
         /\ OneAnswer(s, m) => m \in Elements(s)
         /\ OnlyOf(s, o, m) => m \in Elements(s)
BY DEF OnlyRequest, LastFinal, OneAnswer, OnlyOf, Elements

LEMMA OriginKept ==
  ASSUME NEW o \in Proc, NEW t \in Proc, SameOrigin(o, t)
  PROVE  /\ K(o, t)' = K(o, t)
         /\ \A stage : Stage(o, t, stage)' <=> Stage(o, t, stage)
         /\ AsksFor(o, t)' <=> AsksFor(o, t)
         /\ \A stage : Uses(o, t, stage)' <=> Uses(o, t, stage)
         /\ Waits(o, t) => Unlocks(o, t)' = Unlocks(o, t) /\ (Undone(o, t)' <=> Undone(o, t))
BY DEF SameOrigin, K, Stage, AsksFor, Uses, Waits, Unlocks, Undone

(* The request of a waiting call is in the channel, or none waits: then    *)
(* payloads of earlier operations may be read.                             *)
Part(o, t) ==
  \/ AtRest(o, t) /\ ~Clean(o, t)
  \/ /\ NotQueued(o, t) /\ NotEnding(o, t) /\ NotAnswered(o, t)
     /\ \E m : m.k = K(o, t) /\ EndInChan(o, t, m)

LEMMA PartKept ==
  ASSUME NEW o \in Proc, NEW t \in Proc, SameOrigin(o, t), KeepsLocks(o, t),
         unlockDone'[t] = o <=> unlockDone[t] = o,
         KeepsQueue(lock_queue[t], lock_queue'[t], o),
         KeepsRequests(chan[o][t], chan'[o][t]), KeepsAnswers(chan[t][o], chan'[t][o]),
         ReadsPart(o, t)', Part(o, t)
  PROVE  InOnePlace(o, t)'
<1>1. /\ NotInChan(o, t) => NotInChan(o, t)'
      /\ NotQueued(o, t) => NotQueued(o, t)'
      /\ NotEnding(o, t) => NotEnding(o, t)'
      /\ NotAnswered(o, t) => NotAnswered(o, t)'
  BY DEF NotInChan, NotQueued, NotEnding, NotAnswered, KeepsRequests, KeepsAnswers, KeepsQueue
<1>2. /\ remote_lock_state[o][t]' = remote_lock_state[o][t]
      /\ lockType[o][t]' = lockType[o][t]
      /\ remote_ops_done[o][t]' = remote_ops_done[o][t]
      /\ Waits(o, t)' <=> Waits(o, t)
      /\ Waits(o, t) => call[o]' = call[o]
  BY DEF SameOrigin
<1>3. Has(o, t) => Has(o, t)'
  BY DEF KeepsLocks
<1>4. CASE AtRest(o, t) /\ ~Clean(o, t)
  <2>1. AtRest(o, t)'
    BY <1>1, <1>2, <1>3, <1>4 DEF AtRest, Unlocks
  <2> QED
    BY <2>1 DEF InOnePlace
<1>5. ASSUME NotQueued(o, t), NotEnding(o, t), NotAnswered(o, t),
             NEW m, m.k = K(o, t), EndInChan(o, t, m)
      PROVE  InOnePlace(o, t)'
  <2>1. LastFinal(chan[o][t]', m)
    BY <1>5 DEF EndInChan, KeepsRequests
  <2>2. Waits(o, t)
    BY <1>5 DEF EndInChan, Uses, Stage
  <2>3. EndInChan(o, t, m)'
    BY <1>1, <1>2, <1>3, <1>5, <2>1, <2>2, OriginKept DEF EndInChan
  <2>4. m \in Elements(chan[o][t])' /\ m.k = K(o, t)'
    BY <1>5, <2>1, Members, OriginKept
  <2>5. InChan(o, t)'
    BY <1>1, <1>5, <2>3, <2>4 DEF InChan
  <2> QED
    BY <2>5 DEF InOnePlace
<1> QED
  BY <1>4, <1>5 DEF Part

LEMMA PlaceKept ==
  ASSUME NEW o \in Proc, NEW t \in Proc, SamePlace(o, t), InOnePlace(o, t)
  PROVE  InOnePlace(o, t)'
<1>1. /\ SameOrigin(o, t) /\ SameTarget(o, t) /\ KeepsLocks(o, t)
      /\ KeepsRequests(chan[o][t], chan'[o][t])
      /\ KeepsAnswers(chan[t][o], chan'[t][o])
  BY DEF SamePlace
<1>2. /\ NotInChan(o, t) => NotInChan(o, t)'
      /\ NotQueued(o, t) => NotQueued(o, t)'
      /\ NotEnding(o, t) => NotEnding(o, t)'
      /\ NotAnswered(o, t) => NotAnswered(o, t)'
      /\ NoRequest(chan[o][t]) => NoRequest(chan[o][t])'
      /\ Clean(o, t) => Clean(o, t)'
      /\ ReadsPart(o, t) => ReadsPart(o, t)'
      /\ reading[t][o]' = reading[t][o]
  BY <1>1 DEF NotInChan, NotQueued, NotEnding, NotAnswered, Clean, ReadsPart, SameTarget,
              KeepsRequests, KeepsAnswers, KeepsQueue
<1>3. /\ remote_lock_state[o][t]' = remote_lock_state[o][t]
      /\ lockType[o][t]' = lockType[o][t]
      /\ remote_ops_done[o][t]' = remote_ops_done[o][t]
      /\ Waits(o, t)' <=> Waits(o, t)
      /\ Waits(o, t) => call[o]' = call[o]
  BY <1>1 DEF SameOrigin
<1>4. /\ Has(o, t) => Has(o, t)'
      /\ HasNot(o, t) => HasNot(o, t)'
      /\ NeverHad(o, t) => NeverHad(o, t)'
  BY <1>1 DEF KeepsLocks
<1>5. CASE AtRest(o, t)
  <2>1. AtRest(o, t)'
    BY <1>2, <1>3, <1>4, <1>5 DEF AtRest, Unlocks
  <2> QED
    BY <2>1 DEF InOnePlace
<1>6. CASE InChan(o, t)
  <2>1. PICK m : m.k = K(o, t) /\ (AskInChan(o, t, m) \/ EndInChan(o, t, m))
    BY <1>6 DEF InChan
  <2>2. m.k = K(o, t)'
    BY <1>1, <2>1, OriginKept
  <2>3. CASE AskInChan(o, t, m)
    <3>1. OnlyRequest(chan[o][t]', m)
      BY <1>1, <2>3 DEF AskInChan, KeepsRequests, Final, Asks
    <3>2. Waits(o, t)
      BY <2>3 DEF AskInChan, AsksFor, Uses, Stage
    <3>3. AskInChan(o, t, m)'
      BY <1>1, <1>2, <1>3, <1>4, <2>3, <3>1, <3>2, OriginKept DEF AskInChan
    <3>4. m \in Elements(chan[o][t])'
      BY <3>1, Members
    <3>5. InChan(o, t)'
      BY <1>2, <1>6, <2>2, <3>3, <3>4 DEF InChan
    <3> QED
      BY <3>5 DEF InOnePlace
  <2>4. CASE EndInChan(o, t, m)
    <3>1. LastFinal(chan[o][t]', m)
      BY <1>1, <2>4 DEF EndInChan, KeepsRequests
    <3>2. Waits(o, t)
      BY <2>4 DEF EndInChan, Uses, Stage
    <3>3. EndInChan(o, t, m)'
      BY <1>1, <1>2, <1>3, <1>4, <2>4, <3>1, <3>2, OriginKept DEF EndInChan
    <3>4. m \in Elements(chan[o][t])'
      BY <3>1, Members
    <3>5. InChan(o, t)'
      BY <1>2, <1>6, <2>2, <3>3, <3>4 DEF InChan
    <3> QED
      BY <3>5 DEF InOnePlace
  <2> QED
    BY <2>1, <2>3, <2>4
<1>7. CASE InQueue(o, t)
  <2>1. PICK e \in Elements(lock_queue[t]) :
          /\ Queued(o, t, e) /\ e.k = K(o, t) /\ e.type = lockType[o][t]
          /\ \/ e.op = 0 /\ AsksFor(o, t) /\ reading[t][o] = None /\ remote_ops_done[o][t] = 1
             \/ /\ e.op # 0 /\ Uses(o, t, "done") /\ Unlocks(o, t) /\ Undone(o, t)
                /\ e.data_recd <=> reading[t][o] = None
    BY <1>7 DEF InQueue
  <2>2. Queued(o, t, e)'
    BY <1>1, <2>1 DEF SameTarget, KeepsQueue, Queued
  <2>3. e \in Elements(lock_queue[t])'
    BY <2>2, Members DEF Queued
  <2>4. Waits(o, t)
    BY <2>1 DEF AsksFor, Uses, Stage
  <2>5. K(o, t)' = K(o, t)
    BY <1>1, OriginKept
  <2>6. \/ e.op = 0 /\ AsksFor(o, t)' /\ reading[t][o]' = None /\ remote_ops_done[o][t]' = 1
        \/ /\ e.op # 0 /\ Uses(o, t, "done")' /\ Unlocks(o, t)' /\ Undone(o, t)'
           /\ e.data_recd <=> reading[t][o]' = None
    BY <1>1, <1>2, <1>3, <2>1, <2>4, OriginKept
  <2>7. InQueue(o, t)'
    BY <1>2, <1>3, <1>4, <1>7, <2>1, <2>2, <2>3, <2>5, <2>6 DEF InQueue
  <2> QED
    BY <2>7 DEF InOnePlace
<1>8. CASE BeingRead(o, t)
  <2>1. Waits(o, t)
    BY <1>8 DEF BeingRead, Uses, Stage
  <2>2. BeingRead(o, t)'
    BY <1>1, <1>2, <1>4, <1>8, <2>1, OriginKept DEF BeingRead
  <2> QED
    BY <2>2 DEF InOnePlace
<1>9. CASE Ending(o, t)
  <2>1. Waits(o, t) /\ unlockDone[t]' = o
    BY <1>1, <1>9 DEF Ending, Uses, Stage, SameTarget
  <2>2. Ending(o, t)'
    BY <1>1, <1>2, <1>3, <1>4, <1>9, <2>1, OriginKept DEF Ending
  <2> QED
    BY <2>2 DEF InOnePlace
<1>10. CASE Answered(o, t)
  <2> DEFINE Ends(m) ==
         \/ /\ m.type = "LOCK_GRANTED" /\ AsksFor(o, t) /\ Has(o, t) /\ m.lock = lockType[o][t]
            /\ remote_ops_done[o][t] = 1
         \/ /\ m.type = "UNLOCK_DONE" /\ Uses(o, t, "unlock") /\ Unlocks(o, t) /\ HasNot(o, t)
            /\ remote_ops_done[o][t] = 1
         \/ /\ m.type = "PT_RMA_DONE" /\ Uses(o, t, "done") /\ m.unlock = Unlocks(o, t)
            /\ IF m.unlock THEN HasNot(o, t) ELSE Has(o, t)
            /\ Undone(o, t)
         \/ /\ m.type = "RMA_RESP" /\ Uses(o, t, "done") /\ Unlocks(o, t) /\ HasNot(o, t)
            /\ remote_ops_done[o][t] = 1
  <2>1. PICK m : OneAnswer(chan[t][o], m) /\ Ends(m)
    BY <1>10 DEF Answered
  <2>2. OneAnswer(chan[t][o]', m)
    BY <1>1, <2>1 DEF KeepsAnswers
  <2>3. Waits(o, t)
    BY <2>1 DEF AsksFor, Uses, Stage
  <2>4. /\ AsksFor(o, t)' <=> AsksFor(o, t)
        /\ Uses(o, t, "unlock")' <=> Uses(o, t, "unlock")
        /\ Uses(o, t, "done")' <=> Uses(o, t, "done")
        /\ Unlocks(o, t)' = Unlocks(o, t)
        /\ Undone(o, t)' <=> Undone(o, t)
    <3>1. Unlocks(o, t)' = Unlocks(o, t)
      BY <1>3, <2>3 DEF Unlocks
    <3> QED
      BY <1>1, <2>3, <3>1, OriginKept
  <2>5. Ends(m)'
    BY <1>3, <1>4, <2>1, <2>4
  <2>6. m \in Elements(chan[t][o])'
    BY <2>2, Members
  <2> HIDE DEF Ends
  <2>7. Answered(o, t)'
    <3>1. NotQueued(o, t)' /\ NotEnding(o, t)' /\ Clean(o, t)'
      BY <1>2, <1>10 DEF Answered
    <3> QED
      BY <2>2, <2>5, <2>6, <3>1 DEF Answered, Ends
  <2> QED
    BY <2>7 DEF InOnePlace
<1> QED
  BY <1>5, <1>6, <1>7, <1>8, <1>9, <1>10 DEF InOnePlace

LEMMA LocksKept ==
  ASSUME NEW o \in Proc, NEW t \in Proc, SameLocks(o, t), lockType'[o][t] = lockType[o][t],
         epochs'[o][t] = epochs[o][t]
  PROVE  KeepsLocks(o, t) /\ (OldLocks(o, t) => OldLocks(o, t)')
<1>1. <<t, o, epochs[o][t]>>[1] = t /\ <<t, o, epochs[o][t]>>[2] = o
  OBVIOUS
<1>2. <<o, lockType[o][t], epochs[o][t]>>[1] = o
  OBVIOUS
<1>3. K(o, t)' = K(o, t) /\ lockType[o][t]' = lockType[o][t]
  BY DEF K
<1>4. <<t, o, K(o, t)>> \in sending' <=> <<t, o, K(o, t)>> \in sending
  BY <1>1 DEF SameLocks, K
<1>5. <<o, lockType[o][t], K(o, t)>> \in held[t]' <=> <<o, lockType[o][t], K(o, t)>> \in held[t]
  BY <1>2 DEF SameLocks, K
<1>6. \A h : h[1] = o => (h \in held[t]' <=> h \in held[t])
  BY DEF SameLocks
<1>7. KeepsLocks(o, t)
  BY <1>3, <1>4, <1>5, <1>6 DEF KeepsLocks, Has, HasNot, NeverHad
<1>8. ASSUME OldLocks(o, t) PROVE OldLocks(o, t)'
  <2>1. ASSUME NEW h \in held[t]', h[1] = o, h[3] # K(o, t)'
        PROVE  h[3] < K(o, t)' /\ <<t, o, h[3]>> \in sending'
    <3>1. h \in held[t] /\ h[3] # K(o, t)
      BY <1>3, <1>6, <2>1
    <3>2. h[3] < K(o, t) /\ <<t, o, h[3]>> \in sending
      BY <1>8, <2>1, <3>1 DEF OldLocks
    <3> QED
      BY <1>3, <3>2 DEF SameLocks
  <2>2. ASSUME NEW x \in sending', x[1] = t, x[2] = o
        PROVE  t # o /\ x[3] <= K(o, t)' /\ \E h \in held[t]' : h[1] = o /\ h[3] = x[3]
    <3>1. x \in sending
      BY <2>2 DEF SameLocks
    <3>2. t # o /\ x[3] <= K(o, t) /\ \E h \in held[t] : h[1] = o /\ h[3] = x[3]
      BY <1>8, <2>2, <3>1 DEF OldLocks
    <3> QED
      BY <1>3, <1>6, <3>2
  <2>3. ASSUME NEW h \in held[t]', NEW g \in held[t]', h[1] = o, g[1] = o, h[3] = g[3]
        PROVE  h = g
    BY <1>6, <1>8, <2>3 DEF OldLocks
  <2> QED
    BY <2>1, <2>2, <2>3 DEF OldLocks
<1> QED
  BY <1>7, <1>8

LEMMA LinksKept ==
  ASSUME NEW o \in Proc, NEW t \in Proc, SameOrigin(o, t), SameLists(o, t), SameChan(o, t),
         reading'[t][o] = reading[t][o], plan' = plan, Linked(o, t)
  PROVE  Linked(o, t)'
<1>1. gets[o][t]' = NumberOf(chan[o][t]', "GET") + NumberOf(chan[t][o]', "RMA_RESP")
  BY DEF Linked, SameLists, SameChan, SameRequests, SameAnswers
<1>2. LastUnlocks(chan[o][t])'
  BY DEF Linked, SameChan, SameRequests
<1>3. rma_ops_list[o][t]' = rma_ops_list[o][t]
  BY DEF SameLists
<1>4. /\ Waits(o, t)' <=> Waits(o, t)
      /\ Waits(o, t) => call[o]' = call[o]
      /\ \A stage : Stage(o, t, stage)' <=> Stage(o, t, stage)
  BY OriginKept DEF SameOrigin
<1>5. Waits(o, t)' /\ call[o].isLocal' => "flush_local" \in plan.flushes' /\ ~Unlocks(o, t)'
  BY <1>4 DEF Linked, Unlocks
<1>6. o = t => /\ chan[o][t]' = <<>> /\ rma_ops_list[o][t]' = <<>> /\ reading[t][o]' = None
               /\ remote_lock_state[o][t]' # "LOCK_REQUESTED"
               /\ Waits(o, t)' => call[o].stage' = "self"
  BY <1>4 DEF Linked, SameChan, SameLists, SameOrigin
<1> QED
  BY <1>1, <1>2, <1>3, <1>4, <1>5, <1>6 DEF Linked

LEMMA PairKept ==
  ASSUME NEW o \in Proc, NEW t \in Proc, Same(o, t), plan' = plan, PairInv(o, t)
  PROVE  PairInv(o, t)'
<1>1. KeepsLocks(o, t) /\ (OldLocks(o, t) => OldLocks(o, t)')
  BY LocksKept DEF Same, SameOrigin
<1>2. SamePlace(o, t)
  BY <1>1 DEF Same, SamePlace, SameChan, SameRequests, SameAnswers, KeepsRequests, KeepsAnswers
<1> QED
  BY <1>1, <1>2, PlaceKept, LinksKept DEF PairInv, Same, SameTarget

(* A step of origin o and target t. *)
SameOthers(o, t) == \A a, b \in Proc : a # o \/ b # t => Same(a, b)

LEMMA Whole ==
  ASSUME Inv, NEW o \in Proc, NEW t \in Proc, SameOthers(o, t), plan' = plan,
         PairInv(o, t)', \A p \in Proc : TargetInv(p)'
  PROVE  Inv'
<1>1. ASSUME NEW a \in Proc, NEW b \in Proc
      PROVE  PairInv(a, b)'
  <2>1. PairInv(a, b)
    BY DEF Inv, PairInv
  <2> QED
    BY <2>1, PairKept DEF SameOthers
<1> QED
  BY <1>1 DEF Inv, PairInv

-----------------------------------------------------------------------------
(* Parts of a step. *)
LEMMA StillTargets ==
  ASSUME UnchangedAtTargets, Inv
  PROVE  \A p \in Proc : TargetInv(p)'
<1>1. lock_state' = lock_state /\ shared_lock_ref_cnt' = shared_lock_ref_cnt /\ held' = held
      /\ release' = release /\ unlockDone' = unlockDone
  BY DEF UnchangedAtTargets, target
<1> QED
  BY <1>1 DEF TargetInv, LockInv, Inv

LEMMA StillChan ==
  ASSUME chan' = chan, NEW o \in Proc, NEW t \in Proc
  PROVE  SameChan(o, t)
BY Unchanged DEF SameChan

LEMMA StillQueue ==
  ASSUME lock_queue' = lock_queue, NEW o, NEW t
  PROVE  KeepsQueue(lock_queue[t], lock_queue'[t], o)
BY DEF KeepsQueue

LEMMA StillLocks ==
  ASSUME held' = held, sending' = sending, NEW o, NEW t
  PROVE  SameLocks(o, t)
BY DEF SameLocks

LEMMA StillOrigin ==
  ASSUME UNCHANGED origin, NEW o, NEW t
  PROVE  SameOrigin(o, t) /\ SameLists(o, t)
BY DEF SameOrigin, SameLists, Waits, origin

(* A change of the variables of origin o that concerns target t. *)
ChanSet(p, q, r) == chan' = [chan EXCEPT ![p][q] = r]
ChansSet(p, q, r, s) == chan' = [chan EXCEPT ![p][q] = r, ![q][p] = s]

LEMMA ChanRequest ==
  ASSUME Typed, NEW o \in Proc, NEW t \in Proc, o # t, NEW r \in Seq(Packets),
         SameAnswers(chan[o][t], r), ChanSet(o, t, r)
  PROVE  /\ \A a, b \in Proc : a # o \/ b # t => SameChan(a, b)
         /\ chan'[o][t] = r /\ chan'[t][o] = chan[t][o]
<1>1. chan \in [Proc -> [Proc -> Seq(Packets)]]
  BY DEF Typed
<1>2. \A a, b \in Proc : chan'[a][b] = IF a = o /\ b = t THEN r ELSE chan[a][b]
  BY <1>1 DEF ChanSet
<1>3. ASSUME NEW a \in Proc, NEW b \in Proc, a # o \/ b # t PROVE SameChan(a, b)
  <2>1. chan'[a][b] = chan[a][b]
    BY <1>2, <1>3
  <2>2. SameAnswers(chan[b][a], chan'[b][a])
    BY <1>2, Unchanged
  <2> QED
    BY <2>1, <2>2, Unchanged DEF SameChan
<1> QED
  BY <1>2, <1>3

LEMMA ChanAnswer ==
  ASSUME Typed, NEW o \in Proc, NEW t \in Proc, o # t, NEW r \in Seq(Packets),
         SameRequests(chan[t][o], r), ChanSet(t, o, r)
  PROVE  /\ \A a, b \in Proc : a # o \/ b # t => SameChan(a, b)
         /\ chan'[t][o] = r /\ chan'[o][t] = chan[o][t]
<1>1. chan \in [Proc -> [Proc -> Seq(Packets)]]
  BY DEF Typed
<1>2. \A a, b \in Proc : chan'[a][b] = IF a = t /\ b = o THEN r ELSE chan[a][b]
  BY <1>1 DEF ChanSet
<1>3. ASSUME NEW a \in Proc, NEW b \in Proc, a # o \/ b # t PROVE SameChan(a, b)
  <2>1. chan'[b][a] = chan[b][a]
    BY <1>2, <1>3
  <2>2. SameRequests(chan[a][b], chan'[a][b])
    BY <1>2, Unchanged
  <2>3. a = b => chan'[a][b] = chan[a][b]
    BY <2>1
  <2> QED
    BY <2>1, <2>2, <2>3, Unchanged DEF SameChan
<1> QED
  BY <1>2, <1>3

LEMMA ChanBoth ==
  ASSUME Typed, NEW o \in Proc, NEW t \in Proc, o # t, NEW r \in Seq(Packets), NEW s \in Seq(Packets),
         SameAnswers(chan[o][t], r), SameRequests(chan[t][o], s),
         ChansSet(o, t, r, s)
  PROVE  /\ \A a, b \in Proc : a # o \/ b # t => SameChan(a, b)
         /\ chan'[o][t] = r /\ chan'[t][o] = s
<1>1. chan \in [Proc -> [Proc -> Seq(Packets)]]
  BY DEF Typed
<1>2. /\ chan'[o][t] = r /\ chan'[t][o] = s
      /\ \A a, b \in Proc : (a # o \/ b # t) /\ (a # t \/ b # o) => chan'[a][b] = chan[a][b]
  BY <1>1 DEF ChansSet
<1>3. ASSUME NEW a \in Proc, NEW b \in Proc, a # o \/ b # t PROVE SameChan(a, b)
  <2>1. CASE a = t /\ b = o
    BY <1>2, <2>1 DEF SameChan
  <2>2. CASE a # t \/ b # o
    <3>1. chan'[a][b] = chan[a][b]
      BY <1>2, <1>3, <2>2
    <3>2. chan'[b][a] = chan[b][a]
      BY <1>2, <1>3, <2>2
    <3> QED
      BY <3>1, <3>2, Unchanged DEF SameChan
  <2> QED
    BY <2>1, <2>2
<1> QED
  BY <1>2, <1>3

-----------------------------------------------------------------------------
(* The lock of a window. *)
LEMMA AcquireParts ==
  ASSUME Typed, NEW o \in Proc, NEW t \in Proc, NEW type \in Types, NEW k \in Nat,
         Acquire(o, t, type, k), \A p \in Proc : LockInv(p), <<o, type, k>> \notin held[t]
  PROVE  /\ \A p \in Proc : LockInv(p)'
         /\ held'[t] = held[t] \cup {<<o, type, k>>}
         /\ \A p \in Proc : p # t => held'[p] = held[p]
<1> DEFINE g == <<o, type, k>>
<1>1. /\ lock_state \in [Proc -> Types \cup {"NOT_LOCKED"}]
      /\ shared_lock_ref_cnt \in [Proc -> Int]
      /\ held \in [Proc -> SUBSET (Proc \X Types \X Nat)]
  BY DEF Typed
<1>2. /\ held'[t] = held[t] \cup {g} /\ lock_state'[t] = type
      /\ shared_lock_ref_cnt'[t] = IF type = "SHARED" THEN shared_lock_ref_cnt[t] + 1
                                   ELSE shared_lock_ref_cnt[t]
  BY <1>1 DEF Acquire
<1>3. ASSUME NEW p \in Proc, p # t
      PROVE  /\ held'[p] = held[p] /\ lock_state'[p] = lock_state[p]
             /\ shared_lock_ref_cnt'[p] = shared_lock_ref_cnt[p]
  BY <1>1, <1>3 DEF Acquire
<1>4. \A p \in Proc : p # t => LockInv(p)'
  BY <1>3 DEF LockInv
<1>5. g[2] = type /\ g \notin held[t] /\ IsFiniteSet(held[t])
  BY DEF LockInv
<1> HIDE DEF g
<1>6. IsFiniteSet(held'[t]) /\ Cardinality(held'[t]) = Cardinality(held[t]) + 1
  BY <1>2, <1>5, FS_AddElement
<1>7. CASE lock_state[t] = "NOT_LOCKED"
  <2>1. held[t] = {} /\ shared_lock_ref_cnt[t] = 0
    BY <1>7 DEF LockInv
  <2>2. held'[t] = {g} /\ Cardinality(held'[t]) = 1
    BY <1>2, <1>6, <2>1, FS_EmptySet
  <2>3. LockInv(t)'
    BY <1>2, <1>5, <1>6, <2>1, <2>2 DEF LockInv, Types
  <2> QED
    BY <1>2, <1>3, <1>4, <2>3 DEF g
<1>8. CASE lock_state[t] = "SHARED" /\ type = "SHARED"
  <2>1. (\A h \in held[t] : h[2] = "SHARED") /\ shared_lock_ref_cnt[t] = Cardinality(held[t])
    BY <1>8 DEF LockInv
  <2>2. \A h \in held'[t] : h[2] = "SHARED"
    BY <1>2, <1>5, <1>8, <2>1
  <2>3. LockInv(t)'
    BY <1>2, <1>6, <1>8, <2>1, <2>2 DEF LockInv
  <2> QED
    BY <1>2, <1>3, <1>4, <2>3 DEF g
<1> QED
  BY <1>7, <1>8 DEF Acquire, CanAcquire

LEMMA DropParts ==
  ASSUME Typed, NEW o \in Proc, NEW t \in Proc, NEW k \in Nat, Drop(o, t, k),
         \A p \in Proc : LockInv(p),
         NEW g \in held[t], g[1] = o, g[3] = k,
         \A h \in held[t] : h[1] = o /\ h[3] = k => h = g
  PROVE  /\ \A p \in Proc : LockInv(p)'
         /\ held'[t] = held[t] \ {g}
         /\ \A p \in Proc : p # t => held'[p] = held[p]
<1> DEFINE refs == shared_lock_ref_cnt[t] - (IF lock_state[t] = "SHARED" THEN 1 ELSE 0)
<1>1. /\ lock_state \in [Proc -> Types \cup {"NOT_LOCKED"}]
      /\ shared_lock_ref_cnt \in [Proc -> Int]
      /\ held \in [Proc -> SUBSET (Proc \X Types \X Nat)]
  BY DEF Typed
<1>2. /\ held'[t] = {h \in held[t] : h[1] # o \/ h[3] # k}
      /\ shared_lock_ref_cnt'[t] = refs
      /\ lock_state'[t] = IF refs = 0 THEN "NOT_LOCKED" ELSE lock_state[t]
  BY <1>1 DEF Drop
<1>3. held'[t] = held[t] \ {g}
  BY <1>2
<1>4. ASSUME NEW p \in Proc, p # t
      PROVE  /\ held'[p] = held[p] /\ lock_state'[p] = lock_state[p]
             /\ shared_lock_ref_cnt'[p] = shared_lock_ref_cnt[p]
  BY <1>1, <1>4 DEF Drop
<1>5. \A p \in Proc : p # t => LockInv(p)'
  BY <1>4 DEF LockInv
<1>6. IsFiniteSet(held[t])
  BY DEF LockInv
<1>7. IsFiniteSet(held'[t]) /\ Cardinality(held'[t]) = Cardinality(held[t]) - 1
  BY <1>3, <1>6, FS_RemoveElement
<1>8. CASE lock_state[t] = "EXCLUSIVE"
  <2>1. shared_lock_ref_cnt[t] = 0 /\ \E h \in held[t] : held[t] = {h}
    BY <1>8 DEF LockInv
  <2>2. refs = 0 /\ held'[t] = {}
    BY <1>3, <1>8, <2>1
  <2>3. LockInv(t)'
    BY <1>2, <1>7, <2>2 DEF LockInv
  <2> QED
    BY <1>3, <1>4, <1>5, <2>3
<1>9. CASE lock_state[t] = "SHARED"
  <2>1. (\A h \in held[t] : h[2] = "SHARED") /\ shared_lock_ref_cnt[t] = Cardinality(held[t])
    BY <1>9 DEF LockInv
  <2>2. refs = Cardinality(held'[t])
    BY <1>7, <1>9, <2>1
  <2>3. refs = 0 <=> held'[t] = {}
    BY <1>7, <2>2, FS_EmptySet
  <2> HIDE DEF refs
  <2>4. LockInv(t)'
    BY <1>2, <1>3, <1>7, <1>9, <2>1, <2>2, <2>3 DEF LockInv
  <2> QED
    BY <1>3, <1>4, <1>5, <2>4
<1>10. CASE lock_state[t] = "NOT_LOCKED"
  BY <1>10 DEF LockInv
<1> QED
  BY <1>1, <1>8, <1>9, <1>10 DEF Types

(* A lock of o at t that comes or goes. *)
LEMMA OtherLocks ==
  ASSUME NEW o \in Proc, NEW t \in Proc, NEW g, g[1] = o,
         \A p \in Proc : p # t => held'[p] = held[p],
         held'[t] = held[t] \cup {g} \/ held'[t] = held[t] \ {g} \/ held'[t] = held[t],
         \A x : x[1] # t \/ x[2] # o => (x \in sending' <=> x \in sending)
  PROVE  \A a, b \in Proc : a # o \/ b # t => SameLocks(a, b)
<1>1. SUFFICES ASSUME NEW a \in Proc, NEW b \in Proc, a # o \/ b # t PROVE SameLocks(a, b)
  OBVIOUS
<1>2. \A h : h[1] = a => (h \in held'[b] <=> h \in held[b])
  BY <1>1
<1>3. \A x : x[1] = b /\ x[2] = a => (x \in sending' <=> x \in sending)
  BY <1>1
<1> QED
  BY <1>2, <1>3 DEF SameLocks

-----------------------------------------------------------------------------
(* The lock queue of a window. *)
LEMMA EnqueueParts ==
  ASSUME Typed, NEW o \in Proc, NEW t \in Proc, NEW m \in Packets, Enqueue(t, o, m),
         NotQueued(o, t)
  PROVE  /\ \A a, b \in Proc : a # o \/ b # t => KeepsQueue(lock_queue[b], lock_queue'[b], a)
         /\ \E e : /\ Queued(o, t, e)' /\ e \in Elements(lock_queue'[t])
                   /\ e.type = m.lock /\ e.op = m.n /\ e.k = m.k /\ e.data_recd = FALSE
<1> DEFINE e == [src |-> o, type |-> m.lock, op |-> m.n, k |-> m.k, data_recd |-> FALSE]
<1>1. e \in Entries
  BY DEF Entries, Packets
<1>2. /\ lock_queue \in [Proc -> Seq(Entries)]
      /\ lock_queue' = [lock_queue EXCEPT ![t] = Append(@, e)]
  BY DEF Typed, Entries, Enqueue
<1>3. /\ e.src = o /\ e.type = m.lock /\ e.op = m.n /\ e.k = m.k /\ e.data_recd = FALSE
  OBVIOUS
<1> HIDE DEF e
<1>4. lock_queue[t] \in Seq(Entries) /\ lock_queue'[t] = Append(lock_queue[t], e)
  BY <1>2
<1>5. ASSUME NEW a \in Proc, NEW b \in Proc, a # o \/ b # t
      PROVE  KeepsQueue(lock_queue[b], lock_queue'[b], a)
  <2>1. CASE b = t
    <3>1. a # e.src
      BY <1>3, <1>5, <2>1
    <3> QED
      BY <1>1, <1>4, <2>1, <3>1, EntryAdded DEF KeepsQueue
  <2>2. CASE b # t
    BY <1>2, <2>2 DEF KeepsQueue
  <2> QED
    BY <2>1, <2>2
<1>6. OnlyOf(lock_queue'[t], o, e)
  BY <1>1, <1>3, <1>4, EntryAdded DEF NotQueued
<1> QED
  BY <1>3, <1>5, <1>6, Members DEF Queued

LEMMA TakesParts ==
  ASSUME Typed, NEW o \in Proc, NEW t \in Proc, NEW i \in 1 .. Len(lock_queue[t]), Takes(t, i),
         lock_queue[t][i].src = o
  PROVE  /\ \A a, b \in Proc : a # o \/ b # t => KeepsQueue(lock_queue[b], lock_queue'[b], a)
         /\ \A x : Queued(o, t, x) => x = lock_queue[t][i] /\ NotQueued(o, t)'
<1>1. /\ lock_queue \in [Proc -> Seq(Entries)] /\ lock_queue[t] \in Seq(Entries)
      /\ lock_queue' = [lock_queue EXCEPT ![t] = Without(@, i)]
  BY DEF Typed, Entries, Takes
<1>2. lock_queue'[t] = Without(lock_queue[t], i)
  BY <1>1
<1>3. ASSUME NEW a \in Proc, NEW b \in Proc, a # o \/ b # t
      PROVE  KeepsQueue(lock_queue[b], lock_queue'[b], a)
  <2>1. CASE b = t
    BY <1>1, <1>2, <1>3, <2>1, EntryTaken DEF KeepsQueue
  <2>2. CASE b # t
    BY <1>1, <2>2 DEF KeepsQueue
  <2> QED
    BY <2>1, <2>2
<1>4. ASSUME NEW x, Queued(o, t, x) PROVE x = lock_queue[t][i] /\ NotQueued(o, t)'
  BY <1>1, <1>2, <1>4, EntryTaken DEF Queued, NotQueued
<1> QED
  BY <1>3, <1>4

(* A change that concerns origin o and target t alone. *)
OnlyAt(f, g, o, t) == \A a, b \in Proc : a # o \/ b # t => g[a][b] = f[a][b]
CallAt(o, t) ==
  /\ \A a \in Proc : a # o => call'[a] = call[a]
  /\ call[o] = None \/ call[o].t = t
  /\ call'[o] = None \/ call'[o].t = t

LEMMA ChangedAt ==
  ASSUME NEW S, NEW f \in [Proc -> [Proc -> S]], NEW o \in Proc, NEW t \in Proc, NEW v
  PROVE  /\ OnlyAt(f, [f EXCEPT ![o][t] = v], o, t)
         /\ [f EXCEPT ![o][t] = v][o][t] = v
         /\ OnlyAt(f, f, o, t)
BY DEF OnlyAt

LEMMA OtherOrigins ==
  ASSUME NEW o \in Proc, NEW t \in Proc,
         OnlyAt(remote_lock_state, remote_lock_state', o, t), OnlyAt(lockType, lockType', o, t),
         OnlyAt(epochs, epochs', o, t), OnlyAt(remote_ops_done, remote_ops_done', o, t),
         OnlyAt(gets, gets', o, t), OnlyAt(rma_ops_list, rma_ops_list', o, t),
         call' = call \/ CallAt(o, t)
  PROVE  \A a, b \in Proc : a # o \/ b # t => SameOrigin(a, b) /\ SameLists(a, b)
<1>1. SUFFICES ASSUME NEW a \in Proc, NEW b \in Proc, a # o \/ b # t
               PROVE  SameOrigin(a, b) /\ SameLists(a, b)
  OBVIOUS
<1>2. (Waits(a, b)' <=> Waits(a, b)) /\ (Waits(a, b) => call'[a] = call[a])
  <2>1. CASE call' = call
    BY <2>1 DEF Waits
  <2>2. CASE CallAt(o, t)
    BY <1>1, <2>2 DEF CallAt, Waits
  <2> QED
    BY <2>1, <2>2
<1>3. SameLists(a, b)
  BY <1>1 DEF OnlyAt, SameLists
<1> QED
  BY <1>1, <1>2, <1>3 DEF OnlyAt, SameOrigin
=============================================================================

-------------------------------- MODULE Bsend --------------------------------
(***************************************************************************)
(* Buffered sends (mpid/pt2pt.cpp): the program attaches a buffer, each    *)
(* buffered send takes a segment of it for a copy of its message, and the  *)
(* segments of sends that are complete are freed when the next one is made.*)
(*                                                                         *)
(* A segment begins with its header (BsendData_t).  The segments are in    *)
(* one of two doubly linked lists, avail in the order of their addresses   *)
(* and active with the latest first.                                       *)
(***************************************************************************)
EXTENDS Integers, SequencesExt, TLC

CONSTANTS
  Header,       \* BSENDDATA_HEADER_TRUE_SIZE
  Word,         \* what sizes and the buffer are aligned to
  MinBlock,     \* MIN_BUFFER_BLOCK
  Overhead,     \* MPI_BSEND_OVERHEAD
  Attachable,   \* the buffers the program may attach: [base, size]
  Sizes,        \* of messages
  Packed,       \* whether messages are of type MPI_PACKED: a set of BOOLEAN
  MayFail,      \* whether MPID_Send may return an error
  MaxSends, MaxAttach

ASSUME BsendAssumption ==
  /\ {Header, Word, MinBlock, Overhead} \subseteq Nat \ {0}
  /\ Header % Word = 0
  /\ Overhead >= Header + Word - 1
  /\ Attachable \subseteq [base : Nat \ {0}, size : Nat]
  /\ Sizes \subseteq Nat /\ Packed \subseteq BOOLEAN /\ MayFail \in BOOLEAN
  /\ MaxSends \in Nat /\ MaxAttach \in Nat

Null == 0
NoBuffer == [base |-> Null, size |-> 0]

VARIABLES
  orig,       \* origbuffer and origbuffer_size, NoBuffer when there is none
  avail,      \* address of the first segment of the list, or Null
  active,
  seg,        \* what the headers at these addresses say
  byte,       \* what is at an address: a byte of a message or of a header
  attached,   \* how many times a buffer was attached
  msgs        \* history: the messages sent so far

vars == <<orig, avail, active, seg, byte, msgs, attached>>

Top == Max({b.base + b.size + Word : b \in Attachable})
Addresses == 1 .. Top

RoundUp(n) == n + ((-n) % Word)
First(b) == RoundUp(b.base)

Init ==
  /\ orig = NoBuffer
  /\ avail = Null
  /\ active = Null
  /\ seg = [a \in Addresses |-> [total_size |-> 0, next |-> Null, prev |-> Null, request |-> 0]]
  /\ byte = [a \in Addresses |-> <<0, 0>>]
  /\ msgs = <<>>
  /\ attached = 0

-----------------------------------------------------------------------------
(***************************************************************************)
(* Lists.  h is the heap [avail, active, seg, byte, msgs]; a pointer of a  *)
(* segment is set only if there is a segment.                              *)
(***************************************************************************)
SetNext(s, a, to) == IF a = Null THEN s ELSE [s EXCEPT ![a].next = to]
SetPrev(s, a, to) == IF a = Null THEN s ELSE [s EXCEPT ![a].prev = to]

(* The segments of a list, and of a cycle no more than there is room for. *)
Walk(s, head) ==
  LET Next[a \in Addresses \cup {Null}] == IF a = Null THEN Null ELSE s[a].next
      At[k \in 1 .. Top \div Header] == IF k = 1 THEN head ELSE Next[At[k - 1]]
  IN SelectSeq([k \in 1 .. Top \div Header |-> At[k]], LAMBDA a : a # Null)

(* Mutant: the segment after keeps pointing to the one that is taken out. *)
UnlinkForward(s, p) == SetNext(s, s[p].prev, s[p].next)

Unlink(s, p) == SetPrev(SetNext(s, s[p].prev, s[p].next), s[p].next, s[p].prev)

(* n bytes are written from address p on: byte k of message i, or i = 0 for a header. *)
Put(b, p, n, i) == [a \in p .. p + n - 1 |-> <<i, a - p + 1>>] @@ b

HeaderAt(b, p) == Put(b, p, Header, 0)

-----------------------------------------------------------------------------
(* The first of the list that can hold size bytes. *)
FindBuffer(h, size) ==
  LET fits == SelectSeq(Walk(h.seg, h.avail), LAMBDA p : h.seg[p].total_size - Header >= size)
  IN IF fits = <<>> THEN Null ELSE fits[1]

(* Leaves what is not needed of p on the list, if it can be a segment. *)
Carve(h, p, size) ==
  LET new == p + Header + RoundUp(size)
      rest == h.seg[p].total_size - Header - RoundUp(size)
      next == h.seg[p].next
  IN IF rest < Header + MinBlock THEN h
     ELSE [h EXCEPT
       !.seg = [SetPrev(@, next, new) EXCEPT
                  ![new] = [@ EXCEPT !.total_size = rest, !.next = next, !.prev = p],
                  ![p].next = new, ![p].total_size = new - p],
       !.byte = HeaderAt(@, new)]

TakeBuffer(h, p, size) ==
  LET c == Carve(h, p, size)
      out == Unlink(c.seg, p)
  IN [c EXCEPT !.avail = IF c.seg[p].prev = Null THEN c.seg[p].next ELSE @,
               !.seg = [SetPrev(out, c.active, p) EXCEPT ![p].next = c.active, ![p].prev = Null],
               !.active = p]

(* Takes p out of the list of active segments. *)
Taken(h, p) ==
  [h EXCEPT !.active = IF h.seg[p].prev = Null THEN h.seg[p].next ELSE @, !.seg = Unlink(@, p)]

(* The last segment of a list before the first one behind p, and that one. *)
Neighbours(list, p) ==
  LET k == SelectInSeq(list, LAMBDA a : a > p)
      n == IF k = 0 THEN Len(list) + 1 ELSE k
  IN [prev |-> IF n = 1 THEN Null ELSE list[n - 1], next |-> IF k = 0 THEN Null ELSE list[k]]

Adjacent(s, p, q) == p + s[p].total_size = q

(* p is followed by next, or takes it in. *)
JoinNext(s, p, next) ==
  IF next # Null /\ Adjacent(s, p, next)
  THEN SetPrev([s EXCEPT ![p].total_size = @ + s[next].total_size, ![p].next = s[next].next],
               s[next].next, p)
  ELSE SetPrev([s EXCEPT ![p].next = next], next, p)

(* p is preceded by prev, or taken in by it. *)
JoinPrev(s, p, prev) ==
  IF prev = Null THEN [s EXCEPT ![p].prev = Null]
  ELSE IF Adjacent(s, prev, p)
  THEN SetPrev([s EXCEPT ![prev].total_size = @ + s[p].total_size, ![prev].next = s[p].next],
               s[p].next, prev)
  ELSE [s EXCEPT ![prev].next = p, ![p].prev = prev]

Insert(h, p, near) ==
  [h EXCEPT !.seg = JoinPrev(JoinNext(@, p, near.next), p, near.prev),
            !.avail = IF near.prev = Null THEN p ELSE @]

(* Moves p to the list of available segments and merges it with its neighbours. *)
FreeSegment(h, p) ==
  LET out == Taken(h, p)
  IN Insert(out, p, Neighbours(Walk(out.seg, out.avail), p))

(* Mutant: a segment is freed whether its send is complete or not. *)
CheckActiveHasty(h) == FoldLeft(FreeSegment, h, Walk(h.seg, h.active))

(* Frees the segments of sends that are complete. *)
CheckActive(h) ==
  FoldLeft(FreeSegment, h,
           SelectSeq(Walk(h.seg, h.active), LAMBDA p : h.msgs[h.seg[p].request].status = "sent"))

(***************************************************************************)
(* What the receiver gets of message i: the number of bytes that was given *)
(* to MPID_Send, from behind the header, as they are when they are read.   *)
(***************************************************************************)
Transmit(h, i) ==
  LET m == h.msgs[i]
  IN [h EXCEPT !.msgs[i].status = "sent",
               !.msgs[i].received = [k \in 1 .. m.length |-> h.byte[m.at + Header + k - 1]]]

Pending(h) == {i \in DOMAIN h.msgs : h.msgs[i].status = "sending"}

(* The progress engine completes sends before the segments are looked at. *)
Check(h, done) == CheckActive(FoldLeft(Transmit, h, SetToSeq(done)))

Heap == [avail |-> avail, active |-> active, seg |-> seg, byte |-> byte, msgs |-> msgs]

Become(h) ==
  /\ avail' = h.avail
  /\ active' = h.active
  /\ seg' = h.seg
  /\ byte' = h.byte
  /\ msgs' = h.msgs

-----------------------------------------------------------------------------
(* MPIR_Bsend_attach: total_size is the user's size, whatever the alignment took. *)
Attach(b) ==
  LET p == First(b)
  IN /\ orig = NoBuffer
     /\ b.size >= Overhead
     /\ attached < MaxAttach
     /\ attached' = attached + 1
     /\ orig' = b
     /\ avail' = p
     /\ active' = Null
     /\ seg' = [seg EXCEPT ![p] = [@ EXCEPT !.total_size = b.size, !.next = Null, !.prev = Null]]
     /\ byte' = HeaderAt(byte, p)
     /\ UNCHANGED <<msgs>>

(* MPI_Buffer_detach returns when all active sends are complete. *)
Detach ==
  /\ orig # NoBuffer
  /\ \A p \in Range(Walk(seg, active)) : msgs[seg[p].request].status = "sent"
  /\ orig' = NoBuffer
  /\ avail' = Null
  /\ active' = Null
  /\ UNCHANGED <<seg, byte, msgs, attached>>

(* A message of the given size is copied into segment p. *)
Copied(h, p, size, packed) ==
  LET i == Len(h.msgs) + 1
  IN [h EXCEPT
    !.byte = Put(@, p + Header, size, i),
    !.msgs = Append(@, [size |-> size, at |-> p, length |-> IF packed THEN 0 ELSE size,
                        status |-> "sending", received |-> <<>>])]

(* What is looked at again, when there is no segment for the message. *)
Again(h, size) == IF FindBuffer(h, size) = Null THEN SUBSET Pending(h) ELSE {{}}

(***************************************************************************)
(* The latest message, in segment p, is given to MPID_Send, which may have *)
(* sent it when it returns, may leave it to be sent later, or fail.  The   *)
(* segment is taken by the length that was given to MPID_Send, or freed.   *)
(***************************************************************************)
Sent(h, p) ==
  LET i == Len(h.msgs)
      length == h.msgs[i].length
      started == [h EXCEPT !.seg[p].request = i]
  IN \/ Become(TakeBuffer(started, p, length))
     \/ Become(TakeBuffer(Transmit(started, i), p, length))
     \/ MayFail /\ Become(FreeSegment([h EXCEPT !.msgs[i].status = "failed"], p))

(***************************************************************************)
(* MPIR_Bsend_isend.  The segments of complete sends are freed first, and  *)
(* again when no segment is large enough; if there still is none, a last   *)
(* time before the call fails.                                             *)
(***************************************************************************)
Isend(size, packed) ==
  /\ orig # NoBuffer
  /\ Len(msgs) < MaxSends
  /\ UNCHANGED <<orig, attached>>
  /\ \E d1 \in SUBSET Pending(Heap) : \E first \in {Check(Heap, d1)} :
       \E d2 \in Again(first, size) : \E second \in {Check(first, d2)} :
         LET p == FindBuffer(second, size)
         IN IF p = Null
            THEN \E d3 \in SUBSET Pending(second) : Become(Check(second, d3))
            ELSE \E started \in {Copied(second, p, size, packed)} : Sent(started, p)

(* The progress engine, in any other MPI call, transmits a message. *)
Complete(i) ==
  /\ i \in Pending(Heap)
  /\ Become(Transmit(Heap, i))
  /\ UNCHANGED <<orig, attached>>

Next ==
  \/ \E b \in Attachable : Attach(b)
  \/ Detach
  \/ \E size \in Sizes, packed \in Packed : Isend(size, packed)
  \/ \E i \in DOMAIN msgs : Complete(i)

Spec == Init /\ [][Next]_vars

-----------------------------------------------------------------------------
(***************************************************************************)
(* The segments of both lists cover the attached buffer, from its first    *)
(* aligned address to its end and not beyond, without gap or overlap; each *)
(* is in one list, once; the available ones are in order and no two   *)
(* are neighbours; and the active ones are those of the sends that are not *)
(* known to be complete.  It holds for buffers that begin at an aligned    *)
(* address; for others MPIR_Bsend_attach makes the first segment too long. *)
(***************************************************************************)
Segments ==
  LET free == Walk(seg, avail)
      taken == Walk(seg, active)
      blocks == Range(free) \cup Range(taken)
      EndOf(p) == p + seg[p].total_size
      Linked(list) ==
        \A k \in DOMAIN list : seg[list[k]].prev = IF k = 1 THEN Null ELSE list[k - 1]
  IN orig # NoBuffer =>
       /\ Cardinality(blocks) = Len(free) + Len(taken)
       /\ Linked(free) /\ Linked(taken)
       /\ First(orig) \in blocks
       /\ \A p \in blocks :
            /\ seg[p].total_size >= Header
            /\ EndOf(p) \in blocks \cup {orig.base + orig.size}
            /\ \A q \in blocks : p < q => EndOf(p) <= q
       /\ \A k \in 1 .. Len(free) - 1 : EndOf(free[k]) < free[k + 1]
       /\ \A i \in Pending(Heap) : \E p \in Range(taken) : seg[p].request = i

(***************************************************************************)
(* What is received is what was sent: nobody writes to a segment before    *)
(* its message has been read, and all of the message is given to MPID_Send.*)
(***************************************************************************)
SendsWhole ==
  \A i \in DOMAIN msgs :
    msgs[i].status = "sent" => msgs[i].received = [k \in 1 .. msgs[i].size |-> <<i, k>>]
==============================================================================

------------------------------ MODULE Matching ------------------------------
(***************************************************************************)
(* What MS-MPI's point-to-point layer promises about messages, with no     *)
(* packets, queues or requests in it: a message is matched by at most one  *)
(* receive, or it is cancelled, never both; and matching follows the order *)
(* of the sends of one sender and of the receives of one receiver.         *)
(*                                                                         *)
(* One communicator is modelled, so the context id of a message and of a   *)
(* receive always agree.  Pt2pt.tla is the detailed specification that     *)
(* implements this one.                                                    *)
(***************************************************************************)
EXTENDS Integers, Sequences

CONSTANTS
  Proc,       \* the processes of the communicator
  Tag,        \* message tags, internal ones included
  UserTag,    \* the tags >= 0: all that MPI_ANY_TAG stands for
  Wildcard,   \* MPI_ANY_SOURCE and MPI_ANY_TAG
  None        \* "no message"

VARIABLES
  sends,      \* sends[p]: what p has sent, in the order of the calls
  recvs       \* recvs[q]: what q has received or is receiving, likewise

vars == <<sends, recvs>>

MsgId == Proc \X (Nat \ {0})

Fate == {"pending", "matched", "cancelled"}

SendRec == [dst : Proc, tag : Tag, asked : BOOLEAN, fate : Fate]
RecvRec == [rank : Proc \cup {Wildcard}, tag : Tag \cup {Wildcard},
            fate : Fate, msg : MsgId \cup {None}]

(***************************************************************************)
(* matching(match, filter): does a message from p with tag t satisfy a     *)
(* receive that names f.rank and f.tag?                                    *)
(***************************************************************************)
Matches(p, t, f) ==
  /\ f.rank # Wildcard => f.rank = p
  /\ IF f.tag = Wildcard THEN t \in UserTag ELSE f.tag = t

(***************************************************************************)
(* The i-th message of p is the first that process q could still hand to a *)
(* receive with filter f.                                                  *)
(***************************************************************************)
FirstFor(p, i, q, f) ==
  /\ sends[p][i].dst = q
  /\ sends[p][i].fate = "pending"
  /\ Matches(p, sends[p][i].tag, f)
  /\ \A k \in 1 .. i - 1 :
       /\ sends[p][k].dst = q
       /\ sends[p][k].fate = "pending"
       => ~Matches(p, sends[p][k].tag, f)

(***************************************************************************)
(* No receive of q before the j-th one still waits for a message from p    *)
(* with tag t.                                                             *)
(***************************************************************************)
NoEarlierRecv(p, t, q, j) ==
  \A k \in 1 .. j - 1 :
    recvs[q][k].fate = "pending" => ~Matches(p, t, recvs[q][k])

Init ==
  /\ sends = [p \in Proc |-> <<>>]
  /\ recvs = [p \in Proc |-> <<>>]

NewSend(q, t, fate) == [dst |-> q, tag |-> t, asked |-> FALSE, fate |-> fate]
NewRecv(src, t, fate, m) == [rank |-> src, tag |-> t, fate |-> fate, msg |-> m]

Send(p, q, t) ==
  /\ sends' = [sends EXCEPT ![p] = Append(@, NewSend(q, t, "pending"))]
  /\ UNCHANGED recvs

Post(q, src, t) ==
  /\ recvs' = [recvs EXCEPT ![q] = Append(@, NewRecv(src, t, "pending", None))]
  /\ UNCHANGED sends

(* A message already sent meets a receive already posted. *)
Match(p, i, q, j) ==
  /\ recvs[q][j].fate = "pending"
  /\ FirstFor(p, i, q, recvs[q][j])
  /\ NoEarlierRecv(p, sends[p][i].tag, q, j)
  /\ sends' = [sends EXCEPT ![p][i].fate = "matched"]
  /\ recvs' = [recvs EXCEPT ![q][j].fate = "matched", ![q][j].msg = <<p, i>>]

(* A receive (or a matched probe) takes a message that is already there. *)
Receive(p, i, q, src, t) ==
  LET f == NewRecv(src, t, "matched", <<p, i>>) IN
  /\ FirstFor(p, i, q, f)
  /\ NoEarlierRecv(p, sends[p][i].tag, q, Len(recvs[q]) + 1)
  /\ sends' = [sends EXCEPT ![p][i].fate = "matched"]
  /\ recvs' = [recvs EXCEPT ![q] = Append(@, f)]

(* A process sends to itself and one of its posted receives takes it. *)
SendToPosted(p, t, j) ==
  /\ recvs[p][j].fate = "pending"
  /\ Matches(p, t, recvs[p][j])
  /\ NoEarlierRecv(p, t, p, j)
  /\ \A k \in 1 .. Len(sends[p]) :
       /\ sends[p][k].dst = p
       /\ sends[p][k].fate = "pending"
       => ~Matches(p, sends[p][k].tag, recvs[p][j])
  /\ sends' = [sends EXCEPT ![p] = Append(@, NewSend(p, t, "matched"))]
  /\ recvs' = [recvs EXCEPT ![p][j].fate = "matched",
                            ![p][j].msg = <<p, Len(sends[p]) + 1>>]

AskCancel(p, i) ==
  /\ ~sends[p][i].asked
  /\ sends' = [sends EXCEPT ![p][i].asked = TRUE]
  /\ UNCHANGED recvs

(* Only a message whose cancellation was asked for may be dropped. *)
CancelSend(p, i) ==
  /\ sends[p][i].asked
  /\ sends[p][i].fate = "pending"
  /\ sends' = [sends EXCEPT ![p][i].fate = "cancelled"]
  /\ UNCHANGED recvs

(* A send to the caller itself is asked to be cancelled and is, at once. *)
AskAndCancel(p, i) ==
  /\ ~sends[p][i].asked
  /\ sends[p][i].fate = "pending"
  /\ sends' = [sends EXCEPT ![p][i].asked = TRUE, ![p][i].fate = "cancelled"]
  /\ UNCHANGED recvs

CancelRecv(q, j) ==
  /\ recvs[q][j].fate = "pending"
  /\ recvs' = [recvs EXCEPT ![q][j].fate = "cancelled"]
  /\ UNCHANGED sends

Next ==
  \/ \E p, q \in Proc, t \in Tag : Send(p, q, t)
  \/ \E q \in Proc, src \in Proc \cup {Wildcard}, t \in Tag \cup {Wildcard} : Post(q, src, t)
  \/ \E p, q \in Proc : \E i \in 1 .. Len(sends[p]), j \in 1 .. Len(recvs[q]) :
       Match(p, i, q, j)
  \/ \E p, q \in Proc, src \in Proc \cup {Wildcard}, t \in Tag \cup {Wildcard} :
       \E i \in 1 .. Len(sends[p]) : Receive(p, i, q, src, t)
  \/ \E p \in Proc, t \in Tag : \E j \in 1 .. Len(recvs[p]) : SendToPosted(p, t, j)
  \/ \E p \in Proc : \E i \in 1 .. Len(sends[p]) :
       AskCancel(p, i) \/ CancelSend(p, i) \/ AskAndCancel(p, i)
  \/ \E q \in Proc : \E j \in 1 .. Len(recvs[q]) : CancelRecv(q, j)

Spec == Init /\ [][Next]_vars

-----------------------------------------------------------------------------
TypeOK ==
  /\ sends \in [Proc -> Seq(SendRec)]
  /\ recvs \in [Proc -> Seq(RecvRec)]

(***************************************************************************)
(* A matched receive holds a message that was sent to its process, that    *)
(* its filter accepts and that is not also cancelled; and no two receives  *)
(* hold the same message.                                                  *)
(***************************************************************************)
HoldsItsMessage ==
  \A q \in Proc : \A j \in 1 .. Len(recvs[q]) :
    recvs[q][j].fate = "matched" =>
      LET m == recvs[q][j].msg IN
      /\ m \in MsgId
      /\ m[2] <= Len(sends[m[1]])
      /\ sends[m[1]][m[2]].fate = "matched"
      /\ sends[m[1]][m[2]].dst = q
      /\ Matches(m[1], sends[m[1]][m[2]].tag, recvs[q][j])

MatchedOnce ==
  \A q1, q2 \in Proc :
    \A j1 \in 1 .. Len(recvs[q1]), j2 \in 1 .. Len(recvs[q2]) :
      /\ recvs[q1][j1].fate = "matched"
      /\ recvs[q2][j2].fate = "matched"
      /\ recvs[q1][j1].msg = recvs[q2][j2].msg
      => q1 = q2 /\ j1 = j2

(***************************************************************************)
(* Non-overtaking on the sending side: when a receive took a message, no   *)
(* earlier message of that sender which it would also have accepted is     *)
(* still waiting.                                                          *)
(***************************************************************************)
SendsNotOvertaken ==
  \A q \in Proc : \A j \in 1 .. Len(recvs[q]) :
    recvs[q][j].fate = "matched" =>
      LET m == recvs[q][j].msg IN
      \A k \in 1 .. m[2] - 1 :
        /\ sends[m[1]][k].dst = q
        /\ sends[m[1]][k].fate = "pending"
        => ~Matches(m[1], sends[m[1]][k].tag, recvs[q][j])

(***************************************************************************)
(* Non-overtaking on the receiving side: no receive posted before the one  *)
(* that took a message is still waiting although it accepts that message.  *)
(***************************************************************************)
RecvsNotOvertaken ==
  \A q \in Proc : \A j \in 1 .. Len(recvs[q]) :
    recvs[q][j].fate = "matched" =>
      LET m == recvs[q][j].msg IN
      \A k \in 1 .. j - 1 :
        recvs[q][k].fate = "pending" =>
          ~Matches(m[1], sends[m[1]][m[2]].tag, recvs[q][k])

(***************************************************************************)
(* A fate is final: no step turns a matched message or receive into a      *)
(* cancelled one, or takes it back.                                        *)
(***************************************************************************)
FateIsFinal ==
  [][/\ \A p \in Proc : \A i \in 1 .. Len(sends[p]) :
          sends[p][i].fate # "pending" => sends'[p][i].fate = sends[p][i].fate
     /\ \A q \in Proc : \A j \in 1 .. Len(recvs[q]) :
          recvs[q][j].fate # "pending" => recvs'[q][j] = recvs[q][j]]_vars
=============================================================================

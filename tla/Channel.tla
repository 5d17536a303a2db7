------------------------------ MODULE Channel ------------------------------
(***************************************************************************)
(* What a virtual connection promises: two processes, 0 and 1, send each   *)
(* other packets.  Each packet is handled once, in the order of the        *)
(* MPIDI_CH3_SendRequest calls, and whoever has ended the connection has   *)
(* nothing left to receive or to be received.  Connection.tla is the       *)
(* detailed specification that implements this one.                        *)
(***************************************************************************)
EXTENDS Integers, Sequences

CONSTANT Packet

VARIABLES
  sent,       \* sent[p]: the packets p has handed to MPIDI_CH3_SendRequest
  received,   \* received[p]: the packets p has handled
  ended       \* ended[p]: the connection of p is terminated

vars == <<sent, received, ended>>

Proc == {0, 1}

Init ==
  /\ sent = [p \in Proc |-> <<>>]
  /\ received = [p \in Proc |-> <<>>]
  /\ ended = [p \in Proc |-> FALSE]

Send(p) ==
  /\ \A q \in Proc : ~ended[q]
  /\ \E m \in Packet : sent' = [sent EXCEPT ![p] = Append(@, m)]

Deliver(p) ==
  /\ Len(received[p]) < Len(sent[1 - p])
  /\ received' = [received EXCEPT ![p] = Append(@, sent[1 - p][Len(@) + 1])]

End(p) ==
  /\ \A q \in Proc : received[q] = sent[1 - q]
  /\ ended' = [ended EXCEPT ![p] = TRUE]

(* A packet may be handled and answered at once. *)
Next ==
  \E p \in Proc :
    \/ Send(p) /\ UNCHANGED <<received, ended>>
    \/ Deliver(p) /\ (Send(p) \/ UNCHANGED sent) /\ UNCHANGED ended
    \/ End(p) /\ UNCHANGED <<sent, received>>

Spec == Init /\ [][Next]_vars

-----------------------------------------------------------------------------
TypeOK ==
  /\ sent \in [Proc -> Seq(Packet)]
  /\ received \in [Proc -> Seq(Packet)]
  /\ ended \in [Proc -> BOOLEAN]

(* What is handled is a prefix of what was sent. *)
InOrder ==
  \A p \in Proc :
    /\ Len(received[p]) <= Len(sent[1 - p])
    /\ \A i \in 1 .. Len(received[p]) : received[p][i] = sent[1 - p][i]

(* Once either side has ended the connection, all that was sent is handled. *)
NothingLeft ==
  (\E p \in Proc : ended[p]) => \A p \in Proc : received[p] = sent[1 - p]
=============================================================================

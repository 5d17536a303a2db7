----------------------------- MODULE WinLockInv ------------------------------
(***************************************************************************)
(* The inductive invariant behind the exclusion of WinLock.  A call that   *)
(* waits has exactly one request that ends it, and that is in one place:   *)
(* in the channel, in the lock queue, being read, being released, or       *)
(* answered.  Where it is says whether the origin has the lock.            *)
(***************************************************************************)
EXTENDS WinLock

Entries == [src : Proc, type : Types, op : Nat, k : Nat, data_recd : BOOLEAN]

Requests == {"LOCK", "UNLOCK", "PUT", "GET", "LOCK_PUT_UNLOCK", "LOCK_ACCUM_UNLOCK"}
Asks == {"LOCK", "LOCK_PUT_UNLOCK", "LOCK_ACCUM_UNLOCK"}

(* The request, and the answer, for which a call waits. *)
Final(m) ==
  \/ m.type \in Asks \cup {"UNLOCK"}
  \/ m.type = "PUT" /\ m.last
  \/ m.type = "GET" /\ m.unlock
FinalAnswer(m) ==
  \/ m.type \in {"LOCK_GRANTED", "UNLOCK_DONE", "PT_RMA_DONE"}
  \/ m.type = "RMA_RESP" /\ m.unlock

(* Of a sequence of packets. *)
NoRequest(s) == \A i \in 1 .. Len(s) : s[i].type \notin Requests
NoFinal(s) == \A i \in 1 .. Len(s) : ~Final(s[i])
LastFinal(s, m) ==
  \E i \in 1 .. Len(s) :
    /\ s[i] = m /\ Final(m)
    /\ \A j \in 1 .. Len(s) : j # i /\ s[j].type \in Requests => j < i /\ ~Final(s[j])
OnlyRequest(s, m) ==
  \E i \in 1 .. Len(s) :
    /\ s[i] = m /\ m.type \in Requests
    /\ \A j \in 1 .. Len(s) : j # i => s[j].type \notin Requests
NoAnswer(s) == \A i \in 1 .. Len(s) : ~FinalAnswer(s[i])
OneAnswer(s, m) ==
  \E i \in 1 .. Len(s) :
    s[i] = m /\ FinalAnswer(m) /\ \A j \in 1 .. Len(s) : j # i => ~FinalAnswer(s[j])

LastUnlocks(s) ==
  \A i \in 1 .. Len(s) : s[i].type \in {"GET", "PUT"} /\ s[i].unlock => s[i].last

Elements(s) == {s[i] : i \in 1 .. Len(s)}

Places(s, type) == {i \in 1 .. Len(s) : s[i].type = type}
NumberOf(s, type) == Cardinality(Places(s, type))

(* Of a lock queue: no entry of o; e is the only one. *)
NoneOf(s, o) == \A i \in 1 .. Len(s) : s[i].src # o
OnlyOf(s, o, e) ==
  \E i \in 1 .. Len(s) :
    /\ s[i] = e /\ e.src = o
    /\ \A j \in 1 .. Len(s) : j # i => s[j].src # o

(* A change of a channel that concerns its answers, or its requests, alone. *)
SameRequests(s, r) ==
  /\ NoRequest(s) => NoRequest(r)
  /\ NoFinal(s) => NoFinal(r)
  /\ LastUnlocks(s) => LastUnlocks(r)
  /\ \A m : (LastFinal(s, m) => LastFinal(r, m)) /\ (OnlyRequest(s, m) => OnlyRequest(r, m))
  /\ NumberOf(r, "GET") = NumberOf(s, "GET")
SameAnswers(s, r) ==
  /\ NoAnswer(s) => NoAnswer(r)
  /\ \A m : OneAnswer(s, m) => OneAnswer(r, m)
  /\ NumberOf(r, "RMA_RESP") = NumberOf(s, "RMA_RESP")

-----------------------------------------------------------------------------
(* Origin o and target t. *)
K(o, t) == epochs[o][t]
Waits(o, t) == call[o] # None /\ call[o].t = t
Stage(o, t, stage) == Waits(o, t) /\ call[o].stage = stage
Unlocks(o, t) == call[o].unlock
AsksFor(o, t) == Stage(o, t, "grant") /\ remote_lock_state[o][t] = "LOCK_REQUESTED"
Uses(o, t, stage) == Stage(o, t, stage) /\ remote_lock_state[o][t] = lockType[o][t]
Undone(o, t) == remote_ops_done[o][t] = 0 /\ ~call[o].isLocal

(* Who has the lock now; who has not, unless a response is still being     *)
(* sent; and who has not at all.                                           *)
Has(o, t) ==
  /\ <<o, lockType[o][t], K(o, t)>> \in held[t]
  /\ <<t, o, K(o, t)>> \notin sending
HasNot(o, t) ==
  \A h \in held[t] : h[1] = o /\ h[3] = K(o, t) => <<t, o, K(o, t)>> \in sending
NeverHad(o, t) ==
  /\ \A h \in held[t] : h[1] # o \/ h[3] # K(o, t)
  /\ <<t, o, K(o, t)>> \notin sending

NotQueued(o, t) == NoneOf(lock_queue[t], o)
Queued(o, t, e) == OnlyOf(lock_queue[t], o, e)

ReadsPart(o, t) ==
  reading[t][o] # None =>
    reading[t][o].type = "PUT" /\ ~reading[t][o].last /\ ~reading[t][o].unlock

NotInChan(o, t) == NoFinal(chan[o][t])
NotEnding(o, t) == unlockDone[t] # o
NotAnswered(o, t) == NoAnswer(chan[t][o])
Clean(o, t) == NoRequest(chan[o][t]) /\ reading[t][o] = None

AtRest(o, t) ==
  /\ NotInChan(o, t) /\ NotQueued(o, t) /\ NotEnding(o, t) /\ NotAnswered(o, t)
  /\ remote_ops_done[o][t] = 1
  /\ \/ /\ remote_lock_state[o][t] = "NOT_LOCKED" /\ Clean(o, t) /\ HasNot(o, t)
        /\ Waits(o, t) => \/ Unlocks(o, t) /\ call[o].stage \in {"unlock", "done"}
                          \/ o = t /\ call[o].stage = "self"
     \/ /\ remote_lock_state[o][t] = "LOCK_REQUESTED" /\ Clean(o, t) /\ NeverHad(o, t)
        /\ ~Waits(o, t)
     \/ /\ remote_lock_state[o][t] = lockType[o][t] /\ ReadsPart(o, t) /\ Has(o, t)
        /\ Waits(o, t) => \/ call[o].stage = "grant"
                          \/ call[o].stage = "done" /\ ~Unlocks(o, t)

AskInChan(o, t, m) ==
  /\ OnlyRequest(chan[o][t], m) /\ reading[t][o] = None
  /\ m.lock = lockType[o][t] /\ NeverHad(o, t)
  /\ \/ m.type = "LOCK" /\ m.n = 0 /\ AsksFor(o, t) /\ remote_ops_done[o][t] = 1
     \/ /\ m.type \in {"LOCK_PUT_UNLOCK", "LOCK_ACCUM_UNLOCK"}
        /\ m.n # 0 /\ m.last /\ m.unlock
        /\ Uses(o, t, "done") /\ Unlocks(o, t) /\ Undone(o, t)

EndInChan(o, t, m) ==
  /\ LastFinal(chan[o][t], m) /\ ReadsPart(o, t) /\ Has(o, t)
  /\ \/ m.type = "UNLOCK" /\ Uses(o, t, "unlock") /\ Unlocks(o, t) /\ remote_ops_done[o][t] = 1
     \/ m.type = "PUT" /\ Uses(o, t, "done") /\ m.unlock = Unlocks(o, t) /\ m.last /\ Undone(o, t)
     \/ /\ m.type = "GET" /\ Uses(o, t, "done") /\ m.unlock /\ m.last /\ Unlocks(o, t)
        /\ remote_ops_done[o][t] = 1

InChan(o, t) ==
  /\ NotQueued(o, t) /\ NotEnding(o, t) /\ NotAnswered(o, t)
  /\ \E m \in Elements(chan[o][t]) : m.k = K(o, t) /\ (AskInChan(o, t, m) \/ EndInChan(o, t, m))

InQueue(o, t) ==
  /\ NotEnding(o, t) /\ NotAnswered(o, t) /\ NoRequest(chan[o][t]) /\ NeverHad(o, t)
  /\ \E e \in Elements(lock_queue[t]) :
       /\ Queued(o, t, e) /\ e.k = K(o, t) /\ e.type = lockType[o][t]
       /\ \/ e.op = 0 /\ AsksFor(o, t) /\ reading[t][o] = None /\ remote_ops_done[o][t] = 1
          \/ /\ e.op # 0 /\ Uses(o, t, "done") /\ Unlocks(o, t) /\ Undone(o, t)
             /\ e.data_recd <=> reading[t][o] = None

BeingRead(o, t) ==
  /\ NotQueued(o, t) /\ NotEnding(o, t) /\ NotAnswered(o, t)
  /\ NoRequest(chan[o][t]) /\ Has(o, t)
  /\ reading[t][o] # None
  /\ reading[t][o].k = K(o, t) /\ reading[t][o].last /\ reading[t][o].unlock = Unlocks(o, t)
  /\ Uses(o, t, "done") /\ Undone(o, t)

Ending(o, t) ==
  /\ NotQueued(o, t) /\ NotAnswered(o, t) /\ Clean(o, t) /\ HasNot(o, t)
  /\ unlockDone[t] = o
  /\ Uses(o, t, "unlock") /\ Unlocks(o, t) /\ remote_ops_done[o][t] = 1

Answered(o, t) ==
  /\ NotQueued(o, t) /\ NotEnding(o, t) /\ Clean(o, t)
  /\ \E m \in Elements(chan[t][o]) :
       /\ OneAnswer(chan[t][o], m)
       /\ \/ /\ m.type = "LOCK_GRANTED" /\ AsksFor(o, t) /\ Has(o, t) /\ m.lock = lockType[o][t]
             /\ remote_ops_done[o][t] = 1
          \/ /\ m.type = "UNLOCK_DONE" /\ Uses(o, t, "unlock") /\ Unlocks(o, t) /\ HasNot(o, t)
             /\ remote_ops_done[o][t] = 1
          \/ /\ m.type = "PT_RMA_DONE" /\ Uses(o, t, "done") /\ m.unlock = Unlocks(o, t)
             /\ IF m.unlock THEN HasNot(o, t) ELSE Has(o, t)
             /\ Undone(o, t)
          \/ /\ m.type = "RMA_RESP" /\ Uses(o, t, "done") /\ Unlocks(o, t) /\ HasNot(o, t)
             /\ remote_ops_done[o][t] = 1

InOnePlace(o, t) ==
  \/ AtRest(o, t) \/ InChan(o, t) \/ InQueue(o, t) \/ BeingRead(o, t) \/ Ending(o, t)
  \/ Answered(o, t)

(* What else is true of the two. *)
Linked(o, t) ==
  /\ gets[o][t] = NumberOf(chan[o][t], "GET") + NumberOf(chan[t][o], "RMA_RESP")
  /\ LastUnlocks(chan[o][t])
  /\ Stage(o, t, "grant") => rma_ops_list[o][t] # <<>>
  /\ "flush_local" \in plan.flushes =>
       \A i \in 1 .. Len(rma_ops_list[o][t]) : rma_ops_list[o][t][i].kind = "get"
  /\ Waits(o, t) /\ call[o].isLocal => "flush_local" \in plan.flushes /\ ~Unlocks(o, t)
  /\ o = t => /\ chan[o][t] = <<>> /\ rma_ops_list[o][t] = <<>> /\ reading[t][o] = None
              /\ remote_lock_state[o][t] # "LOCK_REQUESTED"
              /\ Waits(o, t) => call[o].stage = "self"

(* The locks of earlier epochs, and those that responses still keep. *)
OldLocks(o, t) ==
  /\ \A h \in held[t] : h[1] = o /\ h[3] # K(o, t) => h[3] < K(o, t) /\ <<t, o, h[3]>> \in sending
  /\ \A x \in sending : x[1] = t /\ x[2] = o =>
       /\ t # o /\ x[3] <= K(o, t)
       /\ \E h \in held[t] : h[1] = o /\ h[3] = x[3]
  /\ \A h, g \in held[t] : h[1] = o /\ g[1] = o /\ h[3] = g[3] => h = g

LockInv(t) ==
  /\ IsFiniteSet(held[t])
  /\ lock_state[t] = "NOT_LOCKED" => held[t] = {} /\ shared_lock_ref_cnt[t] = 0
  /\ lock_state[t] = "EXCLUSIVE" =>
       /\ \E h \in held[t] : held[t] = {h} /\ h[2] = "EXCLUSIVE"
       /\ shared_lock_ref_cnt[t] = 0
  /\ lock_state[t] = "SHARED" =>
       /\ held[t] # {} /\ \A h \in held[t] : h[2] = "SHARED"
       /\ shared_lock_ref_cnt[t] = Cardinality(held[t])

TargetInv(t) == LockInv(t) /\ (release[t] = 0 => unlockDone[t] = None)

(***************************************************************************)
(* Every request for which a call of win.cpp waits is in exactly one       *)
(* place, at rest there is none, and where it is says whether its origin   *)
(* has the lock; locks exclude each other, and the lock of an earlier      *)
(* epoch is held only while a response is still being sent.                *)
(***************************************************************************)
Inv ==
  /\ \A t \in Proc : TargetInv(t)
  /\ \A o, t \in Proc : InOnePlace(o, t) /\ Linked(o, t) /\ OldLocks(o, t)

-----------------------------------------------------------------------------
(* The operations.  A packet carries one; a get is the last request sent.  *)
Carriers == {"PUT", "GET", "LOCK_PUT_UNLOCK", "LOCK_ACCUM_UNLOCK"}
Carries(s, n) == \E i \in 1 .. Len(s) : s[i].type \in Carriers /\ s[i].n = n
EndsWithGet(s) ==
  \E i \in 1 .. Len(s) :
    s[i].type = "GET" /\ \A j \in 1 .. Len(s) : j > i => s[j].type \notin Requests

IsApplied(o, t, n) == <<o, n>> \in applied[t]
Listed(o, t) == {op.n : op \in Elements(rma_ops_list[o][t])}

(* Where the n-th operation is between its origin and the window. *)
OnItsWay(o, t, n) ==
  \/ Carries(chan[o][t], n)
  \/ reading[t][o] # None /\ NotQueued(o, t) /\ reading[t][o].n = n
  \/ \E e \in Elements(lock_queue[t]) : Queued(o, t, e) /\ e.op = n

AllApplied(o, t) == \A n \in Listed(o, t) : IsApplied(o, t, n)
AllIssued(o, t) == \A n \in Listed(o, t) : IsApplied(o, t, n) \/ OnItsWay(o, t, n)

(***************************************************************************)
(* No operation is lost: what was started is done or still in the list,    *)
(* and while a call of win.cpp waits for the list, the operations not done *)
(* are on their way, and a get behind them or remote_ops_done says so.     *)
(***************************************************************************)
OpsInv(o, t) ==
  /\ \A n \in 1 .. completed[o][t] : IsApplied(o, t, n)
  /\ \A n \in 1 .. queued[o][t] : IsApplied(o, t, n) \/ n \in Listed(o, t)
  /\ Stage(o, t, "unlock") => rma_ops_list[o][t] = <<>>
  /\ Stage(o, t, "done") =>
       AllApplied(o, t) \/ (AllIssued(o, t) /\ (EndsWithGet(chan[o][t]) \/ Undone(o, t)))

InvOps == Inv /\ \A o, t \in Proc : OpsInv(o, t)
=============================================================================

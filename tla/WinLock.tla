------------------------------ MODULE WinLock ------------------------------
(***************************************************************************)
(* Passive target one-sided communication: MPI_Win_lock, put, accumulate,  *)
(* get, flush and unlock at the origins (mpid/win.cpp), the window lock    *)
(* with its queue at the targets (mpid/packethandling.cpp) and the packets *)
(* between them, in order for each pair.                                   *)
(*                                                                         *)
(* A lock is only asked for when operations are issued.  A process handles *)
(* packets when it is in a call that waits, and between its calls.         *)
(***************************************************************************)
EXTENDS Integers, Sequences, FiniteSets, FiniteSetsExt

CONSTANTS
  Proc,       \* the processes; everyone has a window
  Plans,      \* what the processes may do, one of:
              \*   locks: who may lock whose window and how, as <<o, t, type>>
              \*   epochs: how often each; ops: how many operations for each window
              \*   kinds: of operations, a "long" put is above the eager limit
              \*   flushes: "flush", "flush_local"
  None        \* no process, no call, no request

Types == {"SHARED", "EXCLUSIVE"}

Kinds == {"put", "long", "acc", "get"}

ASSUME PlansAssumption ==
  \A p \in Plans :
    /\ p.locks \subseteq Proc \X Proc \X Types
    /\ p.epochs \in Nat /\ p.ops \in Nat /\ p.kinds \subseteq Kinds
    /\ p.flushes \subseteq {"flush", "flush_local"}

(* The calls that wait. *)
Calls == [stage : {"self", "grant", "done", "unlock"}, t : Proc, unlock : BOOLEAN, isLocal : BOOLEAN]

Packets ==
  [type : {"LOCK", "UNLOCK", "PUT", "GET", "LOCK_PUT_UNLOCK", "LOCK_ACCUM_UNLOCK",
           "LOCK_GRANTED", "UNLOCK_DONE", "PT_RMA_DONE", "RMA_RESP"},
   lock : Types, n : Nat, k : Nat, last : BOOLEAN, unlock : BOOLEAN]

ASSUME NoneAssumption == None \notin Proc /\ None \notin Calls /\ None \notin Packets

VARIABLES
  plan,                   \* what may be done
  \* the window of a target
  lock_state,
  shared_lock_ref_cnt,
  lock_queue,             \* requests [src, type, op, k, data_recd], op 0 for a bare lock
  my_pt_rma_puts_accs,
  release,                \* the place in the queue of a running Release_lock, or 0
  unlockDone,             \* the origin that waits for the end of that, or None
  \* an origin, for each target
  remote_lock_state,
  rma_ops_list,           \* [kind, n]: the n-th operation; its lock entry is LOCK_REQUESTED
  remote_ops_done,
  pt_rma_puts_accs,
  gets,                   \* requests of gets not complete
  call,                   \* the call a process waits in: [stage, t, unlock, isLocal]
  \* between them
  chan,                   \* chan[p][q]: packets from p to q
  reading,                \* reading[t][o]: the packet from o whose payload t still reads
  sending,                \* <<t, o, epoch>>: responses still being sent that unlock
  \* history
  lockType,               \* of the current epoch
  held,                   \* <<origin, type, epoch>>: who holds the lock of the window
  applied,                \* <<origin, n>>: operations done at the window
  queued,                 \* how many operations an origin has started
  completed,              \* how many of them a flush or unlock has declared complete
  epochs                  \* how many an origin has begun

target == <<lock_state, shared_lock_ref_cnt, lock_queue, release, held>>
origin == <<remote_lock_state, rma_ops_list, remote_ops_done, pt_rma_puts_accs,
            gets, call, lockType, queued, completed, epochs>>
vars == <<plan, target, my_pt_rma_puts_accs, unlockDone, applied, origin,
          chan, reading, sending>>

Zero == [o \in Proc |-> [t \in Proc |-> 0]]

Init ==
  /\ plan \in Plans
  /\ lock_state = [t \in Proc |-> "NOT_LOCKED"]
  /\ shared_lock_ref_cnt = [t \in Proc |-> 0]
  /\ lock_queue = [t \in Proc |-> <<>>]
  /\ my_pt_rma_puts_accs = [t \in Proc |-> 0]
  /\ release = [t \in Proc |-> 0]
  /\ unlockDone = [t \in Proc |-> None]
  /\ remote_lock_state = [o \in Proc |-> [t \in Proc |-> "NOT_LOCKED"]]
  /\ rma_ops_list = [o \in Proc |-> [t \in Proc |-> <<>>]]
  /\ remote_ops_done = [o \in Proc |-> [t \in Proc |-> 1]]
  /\ pt_rma_puts_accs = Zero
  /\ gets = Zero
  /\ call = [o \in Proc |-> None]
  /\ chan = [p \in Proc |-> [q \in Proc |-> <<>>]]
  /\ reading = [t \in Proc |-> [o \in Proc |-> None]]
  /\ sending = {}
  /\ lockType = [o \in Proc |-> [t \in Proc |-> "SHARED"]]
  /\ held = [t \in Proc |-> {}]
  /\ applied = [t \in Proc |-> {}]
  /\ queued = Zero
  /\ completed = Zero
  /\ epochs = Zero

-----------------------------------------------------------------------------
(* Mutant: a shared lock is granted whatever the state. *)
CanAcquireShared(t, type) == type = "SHARED" \/ lock_state[t] = "NOT_LOCKED"

(* The lock of window t. *)
CanAcquire(t, type) ==
  \/ lock_state[t] = "NOT_LOCKED"
  \/ type = "SHARED" /\ lock_state[t] = "SHARED"

(* Try_acquire_win_lock for epoch k of o, when it succeeds. *)
Acquire(o, t, type, k) ==
  /\ CanAcquire(t, type)
  /\ lock_state' = [lock_state EXCEPT ![t] = type]
  /\ shared_lock_ref_cnt' =
       [shared_lock_ref_cnt EXCEPT ![t] = IF type = "SHARED" THEN @ + 1 ELSE @]
  /\ held' = [held EXCEPT ![t] = @ \cup {<<o, type, k>>}]

(* Mutant: the end of an exclusive lock counts as that of a shared one. *)
DropOne(o, t, k) ==
  LET refs == shared_lock_ref_cnt[t] - 1
  IN /\ shared_lock_ref_cnt' = [shared_lock_ref_cnt EXCEPT ![t] = refs]
     /\ lock_state' = [lock_state EXCEPT ![t] = IF refs = 0 THEN "NOT_LOCKED" ELSE @]
     /\ held' = [held EXCEPT ![t] = {h \in @ : h[1] # o \/ h[3] # k}]
     /\ release' = [release EXCEPT ![t] = IF refs = 0 THEN 1 ELSE Len(lock_queue[t]) + 1]

(* Drops a lock, as Release_lock does before it looks at the queue. *)
Drop(o, t, k) ==
  LET refs == shared_lock_ref_cnt[t] - (IF lock_state[t] = "SHARED" THEN 1 ELSE 0)
  IN /\ shared_lock_ref_cnt' = [shared_lock_ref_cnt EXCEPT ![t] = refs]
     /\ lock_state' = [lock_state EXCEPT ![t] = IF refs = 0 THEN "NOT_LOCKED" ELSE @]
     /\ held' = [held EXCEPT ![t] = {h \in @ : h[1] # o \/ h[3] # k}]
     /\ release' = [release EXCEPT ![t] = IF refs = 0 THEN 1 ELSE Len(lock_queue[t]) + 1]

Apply(t, o, n) == applied' = [applied EXCEPT ![t] = @ \cup {<<o, n>>}]

Send(p, q, packet) == chan' = [chan EXCEPT ![p][q] = Append(@, packet)]

(* Takes the first packet from p to q and answers it. *)
Answer(p, q, packet) ==
  chan' = [chan EXCEPT ![p][q] = Tail(@), ![q][p] = Append(@, packet)]
Receive(p, q) == chan' = [chan EXCEPT ![p][q] = Tail(@)]

(* Nothing else happens in a process while it releases a lock. *)
Free(p) == release[p] = 0

First(p, q, type) ==
  /\ Free(q) /\ reading[q][p] = None
  /\ chan[p][q] # <<>> /\ Head(chan[p][q]).type = type

(* Packets; n is the operation and, as history, k the epoch. *)
Packet(type, lock, n, k, last, unlock) ==
  [type |-> type, lock |-> lock, n |-> n, k |-> k, last |-> last, unlock |-> unlock]
Bare(type, k) == Packet(type, "SHARED", 0, k, FALSE, FALSE)
LockPacket(type, lock, k) == Packet(type, lock, 0, k, FALSE, FALSE)

-----------------------------------------------------------------------------
(* The calls of origin o. *)
Idle(o) == Free(o) /\ call[o] = None

UnchangedAtTargets == UNCHANGED <<target, my_pt_rma_puts_accs, unlockDone, applied>>

Lock(o, t, type) ==
  /\ Idle(o) /\ o # t /\ <<o, t, type>> \in plan.locks /\ epochs[o][t] < plan.epochs
  /\ remote_lock_state[o][t] = "NOT_LOCKED"
  /\ remote_lock_state' = [remote_lock_state EXCEPT ![o][t] = "LOCK_REQUESTED"]
  /\ lockType' = [lockType EXCEPT ![o][t] = type]
  /\ epochs' = [epochs EXCEPT ![o][t] = @ + 1]
  /\ UnchangedAtTargets
  /\ UNCHANGED <<plan, rma_ops_list, remote_ops_done, pt_rma_puts_accs, gets, call, queued,
                 completed, chan, reading, sending>>

(* A lock of the own window waits in the progress engine until it is free. *)
LockSelf(o, type) ==
  /\ Idle(o) /\ <<o, o, type>> \in plan.locks /\ epochs[o][o] < plan.epochs
  /\ remote_lock_state[o][o] = "NOT_LOCKED"
  /\ lockType' = [lockType EXCEPT ![o][o] = type]
  /\ epochs' = [epochs EXCEPT ![o][o] = @ + 1]
  /\ call' = [call EXCEPT ![o] = [stage |-> "self", t |-> o, unlock |-> FALSE, isLocal |-> FALSE]]
  /\ UnchangedAtTargets
  /\ UNCHANGED <<plan, remote_lock_state, rma_ops_list, remote_ops_done, pt_rma_puts_accs, gets,
                 queued, completed, chan, reading, sending>>

SelfLocked(o) ==
  /\ Free(o) /\ call[o] # None /\ call[o].stage = "self"
  /\ Acquire(o, o, lockType[o][o], epochs[o][o])
  /\ remote_lock_state' = [remote_lock_state EXCEPT ![o][o] = lockType[o][o]]
  /\ call' = [call EXCEPT ![o] = None]
  /\ UNCHANGED <<plan, lock_queue, release, my_pt_rma_puts_accs, unlockDone, applied,
                 rma_ops_list, remote_ops_done, pt_rma_puts_accs, gets, lockType, queued,
                 completed, epochs, chan, reading, sending>>

MayAccess(o, t) ==
  Idle(o) /\ remote_lock_state[o][t] # "NOT_LOCKED" /\ queued[o][t] < plan.ops

(* An operation is queued; on the own window it is done at once. *)
Queue(o, t, kind) ==
  /\ o # t /\ MayAccess(o, t)
  /\ rma_ops_list' =
       [rma_ops_list EXCEPT ![o][t] = Append(@, [kind |-> kind, n |-> queued[o][t] + 1])]
  /\ queued' = [queued EXCEPT ![o][t] = @ + 1]
  /\ UnchangedAtTargets
  /\ UNCHANGED <<plan, remote_lock_state, remote_ops_done, pt_rma_puts_accs, gets, call,
                 lockType, completed, epochs, chan, reading, sending>>

AccessSelf(o) ==
  /\ MayAccess(o, o)
  /\ queued' = [queued EXCEPT ![o][o] = @ + 1]
  /\ Apply(o, o, queued[o][o] + 1)
  /\ UNCHANGED <<plan, target, my_pt_rma_puts_accs, unlockDone, remote_lock_state, rma_ops_list,
                 remote_ops_done, pt_rma_puts_accs, gets, call, lockType, completed, epochs,
                 chan, reading, sending>>

UnlockSelf(o) ==
  /\ Idle(o) /\ remote_lock_state[o][o] # "NOT_LOCKED"
  /\ Drop(o, o, epochs[o][o])
  /\ remote_lock_state' = [remote_lock_state EXCEPT ![o][o] = "NOT_LOCKED"]
  /\ completed' = [completed EXCEPT ![o][o] = queued[o][o]]
  /\ UNCHANGED <<plan, lock_queue, my_pt_rma_puts_accs, unlockDone, applied, rma_ops_list,
                 remote_ops_done, pt_rma_puts_accs, gets, call, lockType, queued, epochs,
                 chan, reading, sending>>

(* A lock that was not used was never asked for. *)
UnlockUnused(o, t) ==
  /\ Idle(o) /\ remote_lock_state[o][t] = "LOCK_REQUESTED" /\ rma_ops_list[o][t] = <<>>
  /\ remote_lock_state' = [remote_lock_state EXCEPT ![o][t] = "NOT_LOCKED"]
  /\ UnchangedAtTargets
  /\ UNCHANGED <<plan, rma_ops_list, remote_ops_done, pt_rma_puts_accs, gets, call, lockType,
                 queued, completed, epochs, chan, reading, sending>>

Wait(o, t, stage, unlock, isLocal) ==
  call' = [call EXCEPT ![o] = [stage |-> stage, t |-> t, unlock |-> unlock, isLocal |-> isLocal]]

UnlockEmpty(o, t) ==
  /\ Idle(o) /\ o # t /\ remote_lock_state[o][t] \in Types /\ rma_ops_list[o][t] = <<>>
  /\ Send(o, t, Bare("UNLOCK", epochs[o][t]))
  /\ Wait(o, t, "unlock", TRUE, FALSE)
  /\ UnchangedAtTargets
  /\ UNCHANGED <<plan, remote_lock_state, rma_ops_list, remote_ops_done, pt_rma_puts_accs, gets,
                 lockType, queued, completed, epochs, reading, sending>>

(* One short operation goes with the lock and the unlock in a single packet. *)
SingleOp(o, t) ==
  /\ remote_lock_state[o][t] = "LOCK_REQUESTED"
  /\ Len(rma_ops_list[o][t]) = 1 /\ Head(rma_ops_list[o][t]).kind \in {"put", "acc"}

UnlockSingleOp(o, t) ==
  /\ Idle(o) /\ SingleOp(o, t)
  /\ LET op == Head(rma_ops_list[o][t])
     IN Send(o, t, Packet(IF op.kind = "put" THEN "LOCK_PUT_UNLOCK" ELSE "LOCK_ACCUM_UNLOCK",
                          lockType[o][t], op.n, epochs[o][t], TRUE, TRUE))
  /\ remote_lock_state' = [remote_lock_state EXCEPT ![o][t] = lockType[o][t]]
  /\ pt_rma_puts_accs' = [pt_rma_puts_accs EXCEPT ![o][t] = @ + 1]
  /\ remote_ops_done' = [remote_ops_done EXCEPT ![o][t] = 0]
  /\ Wait(o, t, "done", TRUE, FALSE)
  /\ UnchangedAtTargets
  /\ UNCHANGED <<plan, rma_ops_list, gets, lockType, queued, completed, epochs, reading, sending>>

(* The last get of the list goes to its end. *)
Reordered(ops) ==
  LET last == CHOOSE i \in DOMAIN ops :
                ops[i].kind = "get" /\ \A j \in i + 1 .. Len(ops) : ops[j].kind # "get"
  IN IF \E i \in DOMAIN ops : ops[i].kind = "get"
     THEN [i \in DOMAIN ops |-> IF i < last THEN ops[i]
                                ELSE IF i < Len(ops) THEN ops[i + 1] ELSE ops[last]]
     ELSE ops

(* Mutant: the last operation of a flush unlocks as well. *)
PacketOfUnlock(op, k, last, unlock) ==
  Packet(IF op.kind = "get" THEN "GET" ELSE "PUT", "SHARED", op.n, k, last, last)

PacketOf(op, k, last, unlock) ==
  Packet(IF op.kind = "get" THEN "GET" ELSE "PUT", "SHARED", op.n, k, last, last /\ unlock)

PacketsOf(ops, k, unlock) ==
  [i \in DOMAIN ops |-> PacketOf(ops[i], k, i = Len(ops), unlock)]

(* Do_passive_target_rma: all operations are issued, then their requests waited for. *)
Issue(o, t, unlock, isLocal) ==
  LET ops == Reordered(rma_ops_list[o][t])
      Number(S) == Cardinality({i \in DOMAIN ops : ops[i].kind \in S})
  IN /\ chan' = [chan EXCEPT ![o][t] = @ \o PacketsOf(ops, epochs[o][t], unlock)]
     /\ gets' = [gets EXCEPT ![o][t] = @ + Number({"get"})]
     /\ pt_rma_puts_accs' = [pt_rma_puts_accs EXCEPT ![o][t] = @ + Number({"put", "long", "acc"})]
     /\ remote_ops_done' =
          [remote_ops_done EXCEPT ![o][t] = IF ops[Len(ops)].kind = "get" THEN 1 ELSE 0]
     /\ Wait(o, t, "done", unlock, isLocal)

(* Win_unlock and Win_flush with operations; without the lock, it comes first. *)
FlushLocked(o, t, unlock, isLocal) ==
  /\ Idle(o) /\ remote_lock_state[o][t] \in Types /\ rma_ops_list[o][t] # <<>>
  /\ Issue(o, t, unlock, isLocal)
  /\ UnchangedAtTargets
  /\ UNCHANGED <<plan, remote_lock_state, rma_ops_list, lockType, queued, completed, epochs,
                 reading, sending>>

FlushUnlocked(o, t, unlock, isLocal) ==
  /\ Idle(o) /\ remote_lock_state[o][t] = "LOCK_REQUESTED" /\ rma_ops_list[o][t] # <<>>
  /\ ~(unlock /\ SingleOp(o, t))
  /\ Send(o, t, LockPacket("LOCK", lockType[o][t], epochs[o][t]))
  /\ Wait(o, t, "grant", unlock, isLocal)
  /\ UnchangedAtTargets
  /\ UNCHANGED <<plan, remote_lock_state, rma_ops_list, remote_ops_done, pt_rma_puts_accs, gets,
                 lockType, queued, completed, epochs, reading, sending>>

Granted(o) ==
  /\ Free(o) /\ call[o] # None /\ call[o].stage = "grant"
  /\ remote_lock_state[o][call[o].t] # "LOCK_REQUESTED"
  /\ Issue(o, call[o].t, call[o].unlock, call[o].isLocal)
  /\ UnchangedAtTargets
  /\ UNCHANGED <<plan, remote_lock_state, rma_ops_list, lockType, queued, completed, epochs,
                 reading, sending>>

(* A flush without operations waits for those issued before. *)
FlushEmpty(o, t) ==
  /\ Idle(o) /\ o # t /\ rma_ops_list[o][t] = <<>> /\ remote_lock_state[o][t] \in Types
  /\ Wait(o, t, "done", FALSE, FALSE)
  /\ UnchangedAtTargets
  /\ UNCHANGED <<plan, remote_lock_state, rma_ops_list, remote_ops_done, pt_rma_puts_accs, gets,
                 lockType, queued, completed, epochs, chan, reading, sending>>

(* Mutant: a flush is done when its operations are sent. *)
IsSent(o, t) == gets[o][t] = 0

IsDone(o, t) == gets[o][t] = 0 /\ (call[o].isLocal \/ remote_ops_done[o][t] = 1)

(* The end of a flush or an unlock. *)
Return(o) ==
  /\ Free(o) /\ call[o] # None
  /\ LET t == call[o].t
     IN /\ \/ call[o].stage = "unlock" /\ remote_lock_state[o][t] = "NOT_LOCKED"
           \/ call[o].stage = "done" /\ IsDone(o, t)
        /\ rma_ops_list' = [rma_ops_list EXCEPT ![o][t] = <<>>]
        /\ remote_lock_state' =
             [remote_lock_state EXCEPT ![o][t] = IF call[o].unlock THEN "NOT_LOCKED" ELSE @]
        /\ completed' = [completed EXCEPT ![o][t] = IF call[o].isLocal THEN @ ELSE queued[o][t]]
  /\ call' = [call EXCEPT ![o] = None]
  /\ UnchangedAtTargets
  /\ UNCHANGED <<plan, remote_ops_done, pt_rma_puts_accs, gets, lockType, queued, epochs,
                 chan, reading, sending>>

-----------------------------------------------------------------------------
(* What target t does with packets from o. *)
Enqueue(t, o, m) ==
  lock_queue' = [lock_queue EXCEPT ![t] =
    Append(@, [src |-> o, type |-> m.lock, op |-> m.n, k |-> m.k, data_recd |-> FALSE])]

HandleLock(t, o) ==
  /\ First(o, t, "LOCK")
  /\ LET m == Head(chan[o][t])
     IN \/ /\ Acquire(o, t, m.lock, m.k)
           /\ Answer(o, t, LockPacket("LOCK_GRANTED", m.lock, m.k))
           /\ UNCHANGED <<lock_queue, release>>
        \/ /\ ~CanAcquire(t, m.lock)
           /\ Enqueue(t, o, m)
           /\ Receive(o, t)
           /\ UNCHANGED <<lock_state, shared_lock_ref_cnt, held, release>>
  /\ UNCHANGED <<plan, my_pt_rma_puts_accs, unlockDone, applied, origin, reading, sending>>

HandleUnlock(t, o) ==
  /\ First(o, t, "UNLOCK")
  /\ Drop(o, t, Head(chan[o][t]).k)
  /\ unlockDone' = [unlockDone EXCEPT ![t] = o]
  /\ Receive(o, t)
  /\ UNCHANGED <<plan, lock_queue, my_pt_rma_puts_accs, applied, origin, reading, sending>>

StartReading(t, o) ==
  /\ reading' = [reading EXCEPT ![t][o] = Head(chan[o][t])]
  /\ Receive(o, t)
  /\ UNCHANGED <<plan, my_pt_rma_puts_accs, unlockDone, applied, origin, sending>>

HandlePut(t, o) ==
  /\ First(o, t, "PUT")
  /\ StartReading(t, o)
  /\ UNCHANGED target

(* A put with its lock is read into the window if the lock is free. *)
HandleLockPut(t, o) ==
  /\ First(o, t, "LOCK_PUT_UNLOCK")
  /\ LET m == Head(chan[o][t])
     IN \/ Acquire(o, t, m.lock, m.k) /\ UNCHANGED <<lock_queue, release>>
        \/ /\ ~CanAcquire(t, m.lock)
           /\ Enqueue(t, o, m)
           /\ UNCHANGED <<lock_state, shared_lock_ref_cnt, held, release>>
  /\ StartReading(t, o)

(* An accumulate is always queued, and asks for the lock when its data is there. *)
HandleLockAccum(t, o) ==
  /\ First(o, t, "LOCK_ACCUM_UNLOCK")
  /\ Enqueue(t, o, Head(chan[o][t]))
  /\ StartReading(t, o)
  /\ UNCHANGED <<lock_state, shared_lock_ref_cnt, held, release>>

(* The response may be on its way before its sending is complete here. *)
HandleGet(t, o) ==
  /\ First(o, t, "GET")
  /\ LET m == Head(chan[o][t])
     IN /\ Apply(t, o, m.n)
        /\ Answer(o, t, Packet("RMA_RESP", "SHARED", m.n, m.k, FALSE, m.unlock))
        /\ sending' = IF m.last /\ m.unlock THEN sending \cup {<<t, o, m.k>>} ELSE sending
  /\ UNCHANGED <<plan, target, my_pt_rma_puts_accs, unlockDone, origin, reading>>

GetSendRespComplete(t, o, k) ==
  /\ Free(t) /\ <<t, o, k>> \in sending
  /\ sending' = sending \ {<<t, o, k>>}
  /\ Drop(o, t, k)
  /\ UNCHANGED <<plan, lock_queue, my_pt_rma_puts_accs, unlockDone, applied, origin, chan, reading>>

IsQueued(t, o) == \E i \in DOMAIN lock_queue[t] : lock_queue[t][i].src = o
PlaceOf(t, o) == CHOOSE i \in DOMAIN lock_queue[t] : lock_queue[t][i].src = o

Without(s, i) == [j \in 1 .. Len(s) - 1 |-> IF j < i THEN s[j] ELSE s[j + 1]]

(* Mutant: the operation is not counted. *)
AppliedOnly(t, o, n) == Apply(t, o, n) /\ UNCHANGED my_pt_rma_puts_accs

Applied(t, o, n) ==
  /\ Apply(t, o, n)
  /\ my_pt_rma_puts_accs' = [my_pt_rma_puts_accs EXCEPT ![t] = @ + 1]

RmaDone(k, unlock) == Packet("PT_RMA_DONE", "SHARED", 0, k, FALSE, unlock)

(* The payload of a put or accumulate under the lock: rma_op_tail. *)
PutRespComplete(t, o) ==
  /\ Free(t) /\ reading[t][o] # None /\ ~IsQueued(t, o)
  /\ LET m == reading[t][o]
     IN /\ Applied(t, o, m.n)
        /\ IF m.last THEN Send(t, o, RmaDone(m.k, m.unlock)) ELSE UNCHANGED chan
        /\ IF m.unlock THEN Drop(o, t, m.k)
           ELSE UNCHANGED <<lock_state, shared_lock_ref_cnt, held, release>>
  /\ reading' = [reading EXCEPT ![t][o] = None]
  /\ UNCHANGED <<plan, lock_queue, unlockDone, origin, sending>>

(* The payload of a queued one: done now if the lock is free, else later. *)
SinglePutAccumComplete(t, o) ==
  /\ Free(t) /\ reading[t][o] # None /\ IsQueued(t, o)
  /\ LET i == PlaceOf(t, o)
         e == lock_queue[t][i]
     IN \/ /\ CanAcquire(t, e.type)
           /\ Applied(t, o, e.op)
           /\ Send(t, o, RmaDone(e.k, TRUE))
           /\ lock_queue' = [lock_queue EXCEPT ![t] = Without(@, i)]
           /\ release' = [release EXCEPT ![t] =
                            IF lock_state[t] = "NOT_LOCKED" THEN 1 ELSE Len(lock_queue[t])]
        \/ /\ ~CanAcquire(t, e.type)
           /\ lock_queue' = [lock_queue EXCEPT ![t][i].data_recd = TRUE]
           /\ UNCHANGED <<my_pt_rma_puts_accs, applied, chan, release>>
  /\ reading' = [reading EXCEPT ![t][o] = None]
  /\ UNCHANGED <<plan, lock_state, shared_lock_ref_cnt, held, unlockDone, origin, sending>>

-----------------------------------------------------------------------------
(***************************************************************************)
(* Release_lock at t goes through its queue.  There is no case for an      *)
(* entry that is ready but cannot have the lock: the loop stays there.     *)
(***************************************************************************)
AtEntry(t) == release[t] \in DOMAIN lock_queue[t]
Entry(t) == lock_queue[t][release[t]]
Ready(e) == e.op = 0 \/ e.data_recd

SkipEntry(t) ==
  /\ AtEntry(t) /\ ~Ready(Entry(t))
  /\ release' = [release EXCEPT ![t] = @ + 1]
  /\ UNCHANGED <<plan, lock_state, shared_lock_ref_cnt, lock_queue, held, my_pt_rma_puts_accs,
                 unlockDone, applied, origin, chan, reading, sending>>

(* Mutant: an exclusive grant does not end the walk. *)
GrantEntries(t) ==
  /\ AtEntry(t) /\ Entry(t).op = 0
  /\ LET e == Entry(t)
     IN /\ Acquire(e.src, t, e.type, e.k)
        /\ Send(t, e.src, LockPacket("LOCK_GRANTED", e.type, e.k))
  /\ lock_queue' = [lock_queue EXCEPT ![t] = Without(@, release[t])]
  /\ UNCHANGED <<plan, release, my_pt_rma_puts_accs, unlockDone, applied, origin, reading, sending>>

GrantEntry(t) ==
  /\ AtEntry(t) /\ Entry(t).op = 0
  /\ LET e == Entry(t)
     IN /\ Acquire(e.src, t, e.type, e.k)
        /\ Send(t, e.src, LockPacket("LOCK_GRANTED", e.type, e.k))
        /\ release' = [release EXCEPT ![t] = IF e.type = "EXCLUSIVE" THEN Len(lock_queue[t]) ELSE @]
  /\ lock_queue' = [lock_queue EXCEPT ![t] = Without(@, release[t])]
  /\ UNCHANGED <<plan, my_pt_rma_puts_accs, unlockDone, applied, origin, reading, sending>>

(* An operation with its data is done, and its lock is free again. *)
ServeEntry(t) ==
  /\ AtEntry(t) /\ Entry(t).op # 0 /\ Entry(t).data_recd
  /\ LET e == Entry(t)
     IN /\ CanAcquire(t, e.type)
        /\ Applied(t, e.src, e.op)
        /\ Send(t, e.src, RmaDone(e.k, TRUE))
  /\ lock_queue' = [lock_queue EXCEPT ![t] = Without(@, release[t])]
  /\ UNCHANGED <<plan, lock_state, shared_lock_ref_cnt, held, release, unlockDone, origin, reading,
                 sending>>

Released(t) ==
  /\ release[t] > Len(lock_queue[t])
  /\ release' = [release EXCEPT ![t] = 0]
  /\ IF unlockDone[t] = None THEN UNCHANGED chan
     ELSE Send(t, unlockDone[t], Bare("UNLOCK_DONE", 0))
  /\ unlockDone' = [unlockDone EXCEPT ![t] = None]
  /\ UNCHANGED <<plan, lock_state, shared_lock_ref_cnt, lock_queue, held, my_pt_rma_puts_accs,
                 applied, origin, reading, sending>>

-----------------------------------------------------------------------------
(* What origin o does with packets from t. *)
Learn(o, t, state) ==
  /\ remote_lock_state' = [remote_lock_state EXCEPT ![o][t] = state]
  /\ Receive(t, o)
  /\ UnchangedAtTargets
  /\ UNCHANGED <<plan, rma_ops_list, pt_rma_puts_accs, call, lockType, queued, completed, epochs,
                 reading, sending>>

HandleLockGranted(o, t) ==
  /\ First(t, o, "LOCK_GRANTED")
  /\ Learn(o, t, Head(chan[t][o]).lock)
  /\ UNCHANGED <<remote_ops_done, gets>>

HandleUnlockDone(o, t) ==
  /\ First(t, o, "UNLOCK_DONE")
  /\ Learn(o, t, "NOT_LOCKED")
  /\ UNCHANGED <<remote_ops_done, gets>>

StateAfter(o, t, m) == IF m.unlock THEN "NOT_LOCKED" ELSE remote_lock_state[o][t]

HandlePtRmaDone(o, t) ==
  /\ First(t, o, "PT_RMA_DONE")
  /\ Learn(o, t, StateAfter(o, t, Head(chan[t][o])))
  /\ remote_ops_done' = [remote_ops_done EXCEPT ![o][t] = 1]
  /\ UNCHANGED gets

HandleRmaResp(o, t) ==
  /\ First(t, o, "RMA_RESP")
  /\ Learn(o, t, StateAfter(o, t, Head(chan[t][o])))
  /\ gets' = [gets EXCEPT ![o][t] = @ - 1]
  /\ UNCHANGED remote_ops_done

-----------------------------------------------------------------------------
StartEpoch(o) ==
  \/ \E type \in Types : LockSelf(o, type) \/ \E t \in Proc : Lock(o, t, type)

Access(o) == AccessSelf(o) \/ \E t \in Proc, kind \in plan.kinds : Queue(o, t, kind)

Unlock(o, t) ==
  \/ o = t /\ UnlockSelf(o)
  \/ UnlockUnused(o, t) \/ UnlockEmpty(o, t) \/ UnlockSingleOp(o, t)
  \/ o # t /\ (FlushLocked(o, t, TRUE, FALSE) \/ FlushUnlocked(o, t, TRUE, FALSE))

Flush(o, t) ==
  \/ /\ "flush" \in plan.flushes
     /\ FlushEmpty(o, t) \/ FlushLocked(o, t, FALSE, FALSE) \/ FlushUnlocked(o, t, FALSE, FALSE)
  \/ /\ "flush_local" \in plan.flushes
     /\ FlushLocked(o, t, FALSE, TRUE) \/ FlushUnlocked(o, t, FALSE, TRUE)

(* What process p goes on with in a call, or in Release_lock. *)
Continue(p) ==
  \/ SelfLocked(p) \/ Granted(p) \/ Return(p)
  \/ SkipEntry(p) \/ GrantEntry(p) \/ ServeEntry(p) \/ Released(p)

(* What the progress engine of p does for the connection with o. *)
Serve(p, o) ==
  \/ HandleLock(p, o) \/ HandleUnlock(p, o) \/ HandlePut(p, o) \/ HandleLockPut(p, o)
  \/ HandleLockAccum(p, o) \/ HandleGet(p, o)
  \/ \E k \in 1 .. plan.epochs : GetSendRespComplete(p, o, k)
  \/ PutRespComplete(p, o) \/ SinglePutAccumComplete(p, o)
  \/ HandleLockGranted(p, o) \/ HandleUnlockDone(p, o) \/ HandlePtRmaDone(p, o)
  \/ HandleRmaResp(p, o)

Next ==
  \E p \in Proc :
    \/ StartEpoch(p) \/ Access(p) \/ Continue(p)
    \/ \E t \in Proc : Serve(p, t) \/ Unlock(p, t) \/ Flush(p, t)

Spec == Init /\ [][Next]_vars

(* Every connection is served, and whoever has asked for a lock unlocks. *)
FairSpec ==
  /\ Spec
  /\ \A p \in Proc :
       /\ WF_vars(Continue(p))
       /\ \A t \in Proc : WF_vars(Serve(p, t)) /\ SF_vars(Unlock(p, t))

-----------------------------------------------------------------------------
Typed ==
  /\ plan \in Plans
  /\ lock_state \in [Proc -> Types \cup {"NOT_LOCKED"}]
  /\ shared_lock_ref_cnt \in [Proc -> Int]
  /\ lock_queue \in [Proc -> Seq([src : Proc, type : Types, op : Nat, k : Nat, data_recd : BOOLEAN])]
  /\ my_pt_rma_puts_accs \in [Proc -> Nat]
  /\ release \in [Proc -> Nat]
  /\ unlockDone \in [Proc -> Proc \cup {None}]
  /\ remote_lock_state \in [Proc -> [Proc -> Types \cup {"NOT_LOCKED", "LOCK_REQUESTED"}]]
  /\ rma_ops_list \in [Proc -> [Proc -> Seq([kind : Kinds, n : Nat \ {0}])]]
  /\ remote_ops_done \in [Proc -> [Proc -> {0, 1}]]
  /\ pt_rma_puts_accs \in [Proc -> [Proc -> Nat]]
  /\ gets \in [Proc -> [Proc -> Int]]
  /\ call \in [Proc -> Calls \cup {None}]
  /\ chan \in [Proc -> [Proc -> Seq(Packets)]]
  /\ reading \in [Proc -> [Proc -> Packets \cup {None}]]
  /\ sending \subseteq Proc \X Proc \X Nat
  /\ lockType \in [Proc -> [Proc -> Types]]
  /\ held \in [Proc -> SUBSET (Proc \X Types \X Nat)]
  /\ applied \in [Proc -> SUBSET (Proc \X Nat)]
  /\ queued \in [Proc -> [Proc -> Nat]] /\ completed \in [Proc -> [Proc -> Nat]]
  /\ epochs \in [Proc -> [Proc -> Nat]]

TypeOK == Typed /\ \A t \in Proc : shared_lock_ref_cnt[t] >= 0

(***************************************************************************)
(* The lock state and the count of a window, which name no holder, say     *)
(* what is true of its holders: one exclusive one, or as many shared ones  *)
(* as are counted (Try_acquire_win_lock, Release_lock).                    *)
(***************************************************************************)
HoldersExclude ==
  \A t \in Proc :
    /\ lock_state[t] = "NOT_LOCKED" => held[t] = {} /\ shared_lock_ref_cnt[t] = 0
    /\ lock_state[t] = "EXCLUSIVE" =>
         /\ \E h \in held[t] : held[t] = {h} /\ h[2] = "EXCLUSIVE"
         /\ shared_lock_ref_cnt[t] = 0
    /\ lock_state[t] = "SHARED" =>
         /\ held[t] # {} /\ \A h \in held[t] : h[2] = "SHARED"
         /\ shared_lock_ref_cnt[t] = Cardinality(held[t])

(* o has been told that it has the lock, and has not begun to unlock. *)
Believes(o, t) ==
  /\ remote_lock_state[o][t] \in Types
  /\ call[o] # None => call[o].t # t \/ call[o].stage = "grant" \/ ~call[o].unlock

(***************************************************************************)
(* Whoever believes to have a lock has it: no late answer of an earlier    *)
(* epoch or operation is taken for the grant of this one, and no window    *)
(* lets go of a lock whose origin goes on using it.                        *)
(***************************************************************************)
BelieverHolds ==
  \A o, t \in Proc : Believes(o, t) => <<o, remote_lock_state[o][t], epochs[o][t]>> \in held[t]

(***************************************************************************)
(* An operation touches the window only when no other origin has a lock    *)
(* that forbids it, also when it brings its own lock (LOCK_PUT_UNLOCK).    *)
(***************************************************************************)
NoConflictingAccess ==
  [][\A t \in Proc : \A a \in applied'[t] \ applied[t] : \A h \in held[t] :
       h[1] # a[1] => h[2] = "SHARED" /\ lockType[a[1]][t] = "SHARED"]_vars

(***************************************************************************)
(* MPI_Win_unlock and MPI_Win_flush return when the operations started     *)
(* before are complete at the target, not only sent.                       *)
(***************************************************************************)
CompletedApplied ==
  \A o, t \in Proc : \A n \in 1 .. completed[o][t] : <<o, n>> \in applied[t]

Quiet ==
  /\ \A p, q \in Proc : chan[p][q] = <<>> /\ reading[p][q] = None
  /\ \A p \in Proc : Idle(p) /\ sending = {}

(***************************************************************************)
(* The sums over which MPI_Win_free waits agree in the end, and a window   *)
(* never counts an operation that no origin has issued: Win_free neither   *)
(* hangs nor frees a window under an operation.                            *)
(***************************************************************************)
CountsAgree ==
  \A t \in Proc :
    LET issued == MapThenSumSet(LAMBDA o : pt_rma_puts_accs[o][t], Proc)
    IN /\ my_pt_rma_puts_accs[t] <= issued
       /\ Quiet => my_pt_rma_puts_accs[t] = issued

(***************************************************************************)
(* Every call returns: a queued lock is granted, an operation answered and *)
(* an unlock acknowledged, if whoever has a lock unlocks in the end.       *)
(***************************************************************************)
CallsReturn == \A o \in Proc : call[o] # None ~> call[o] = None

(***************************************************************************)
(* The part of that which a state shows: while a call waits, the progress  *)
(* engine of some process has something to do or some origin can unlock,   *)
(* and no loop over a lock queue is at an entry that it can neither serve  *)
(* nor skip.                                                               *)
(***************************************************************************)
NobodyStuck ==
  /\ \A p \in Proc : release[p] # 0 => ENABLED Continue(p)
  /\ \A o \in Proc : call[o] # None =>
       \E p, q \in Proc : ENABLED Serve(p, q) \/ ENABLED Continue(p) \/ ENABLED Unlock(p, q)
=============================================================================

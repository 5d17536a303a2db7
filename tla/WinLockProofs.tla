---------------------------- MODULE WinLockProofs ----------------------------
(***************************************************************************)
(* Proofs about WinLock, for any processes, plans and numbers of           *)
(* operations and epochs: window locks exclude each other, whoever         *)
(* believes to have a lock has it, accesses respect the locks, and a flush *)
(* or an unlock that has returned left no operation undone.                *)
(***************************************************************************)
EXTENDS WinLockLemmas

-----------------------------------------------------------------------------
(* Where the request of a call is, from what a step sees. *)
Elsewhere(o, t) == NotQueued(o, t) /\ NotEnding(o, t) /\ NotAnswered(o, t)

LEMMA Resting ==
  ASSUME NEW o \in Proc, NEW t \in Proc, InOnePlace(o, t), ~Waits(o, t)
  PROVE  AtRest(o, t)
BY DEF InOnePlace, InChan, AskInChan, EndInChan, InQueue, BeingRead, Ending, Answered, AsksFor, Uses,
       Stage

LEMMA HeadAsks ==
  ASSUME Typed, NEW o \in Proc, NEW t \in Proc, PairInv(o, t), chan[o][t] # <<>>,
         NEW m, m = Head(chan[o][t]), m.type \in Asks
  PROVE  /\ Elsewhere(o, t) /\ AskInChan(o, t, m) /\ m.k = K(o, t)
         /\ NoRequest(Tail(chan[o][t]))
<1>1. chan[o][t] \in Seq(Packets)
  BY DEF Typed
<1>2. Final(m) /\ m.type \in Requests
  BY DEF Final, Asks, Requests
<1>3. ~NoRequest(chan[o][t]) /\ ~NoFinal(chan[o][t])
  BY <1>1, <1>2, FrontRequest
<1>4. InChan(o, t)
  BY <1>3 DEF PairInv, InOnePlace, AtRest, NotInChan, InQueue, BeingRead, Ending, Answered, Clean
<1>5. PICK x : x.k = K(o, t) /\ (AskInChan(o, t, x) \/ EndInChan(o, t, x))
  BY <1>4 DEF InChan
<1>6. x = m /\ NoRequest(Tail(chan[o][t]))
  BY <1>1, <1>2, <1>5, FrontRequest DEF AskInChan, EndInChan
<1>7. ~EndInChan(o, t, m)
  BY DEF EndInChan, Asks
<1> QED
  BY <1>4, <1>5, <1>6, <1>7 DEF Elsewhere, InChan

LEMMA HeadEnds ==
  ASSUME Typed, NEW o \in Proc, NEW t \in Proc, PairInv(o, t), chan[o][t] # <<>>,
         NEW m, m = Head(chan[o][t]), Final(m), m.type \notin Asks
  PROVE  /\ Elsewhere(o, t) /\ EndInChan(o, t, m) /\ m.k = K(o, t)
         /\ NoRequest(Tail(chan[o][t]))
<1>1. chan[o][t] \in Seq(Packets)
  BY DEF Typed
<1>2. m.type \in Requests
  BY Sides
<1>3. ~NoRequest(chan[o][t]) /\ ~NoFinal(chan[o][t])
  BY <1>1, <1>2, FrontRequest
<1>4. InChan(o, t)
  BY <1>3 DEF PairInv, InOnePlace, AtRest, NotInChan, InQueue, BeingRead, Ending, Answered, Clean
<1>5. PICK x : x.k = K(o, t) /\ (AskInChan(o, t, x) \/ EndInChan(o, t, x))
  BY <1>4 DEF InChan
<1>6. x = m /\ NoRequest(Tail(chan[o][t]))
  BY <1>1, <1>2, <1>5, FrontRequest DEF AskInChan, EndInChan
<1>7. ~AskInChan(o, t, m)
  BY DEF AskInChan, Asks
<1> QED
  BY <1>4, <1>5, <1>6, <1>7 DEF Elsewhere, InChan

LEMMA HeadPart ==
  ASSUME Typed, NEW o \in Proc, NEW t \in Proc, PairInv(o, t), chan[o][t] # <<>>,
         NEW m, m = Head(chan[o][t]), m.type \in Requests, ~Final(m)
  PROVE  Part(o, t) /\ KeepsRequests(chan[o][t], Tail(chan[o][t]))
<1>1. chan[o][t] \in Seq(Packets)
  BY DEF Typed
<1>2. ~NoRequest(chan[o][t])
  BY <1>1, FrontRequest
<1>3. AtRest(o, t) \/ InChan(o, t)
  BY <1>2 DEF PairInv, InOnePlace, InQueue, BeingRead, Ending, Answered, Clean
<1>4. KeepsRequests(chan[o][t], Tail(chan[o][t]))
  BY <1>1, <1>2, FrontRequest DEF KeepsRequests
<1>5. ASSUME NEW x, AskInChan(o, t, x) PROVE FALSE
  BY <1>1, <1>5, FrontRequest DEF AskInChan, Final, Asks
<1> QED
  BY <1>2, <1>3, <1>4, <1>5 DEF Part, InChan, Clean

LEMMA Reading ==
  ASSUME NEW o \in Proc, NEW t \in Proc, PairInv(o, t), reading[t][o] # None, NotQueued(o, t)
  PROVE  (Part(o, t) /\ ReadsPart(o, t)) \/ BeingRead(o, t)
<1>1. ~Clean(o, t)
  BY DEF Clean
<1>2. ~InQueue(o, t)
  BY Members DEF InQueue, Queued, OnlyOf, NotQueued, NoneOf
<1>3. CASE AtRest(o, t)
  BY <1>1, <1>3 DEF AtRest, Part
<1>4. CASE InChan(o, t)
  BY <1>4 DEF InChan, AskInChan, EndInChan, Part
<1> QED
  BY <1>1, <1>2, <1>3, <1>4 DEF PairInv, InOnePlace, Ending, Answered

LEMMA EntryWaits ==
  ASSUME NEW o \in Proc, NEW t \in Proc, PairInv(o, t), ~NotQueued(o, t)
  PROVE  InQueue(o, t)
BY DEF PairInv, InOnePlace, AtRest, InChan, BeingRead, Ending, Answered

LEMMA UnlockEnds ==
  ASSUME NEW o \in Proc, NEW t \in Proc, PairInv(o, t), ~NotEnding(o, t)
  PROVE  Ending(o, t)
BY DEF PairInv, InOnePlace, AtRest, InChan, BeingRead, InQueue, Answered

LEMMA HeadAnswers ==
  ASSUME Typed, NEW o \in Proc, NEW t \in Proc, PairInv(o, t), chan[t][o] # <<>>,
         NEW m, m = Head(chan[t][o]), FinalAnswer(m)
  PROVE  /\ Answered(o, t) /\ OneAnswer(chan[t][o], m) /\ NoAnswer(Tail(chan[t][o]))
         /\ \A x : OneAnswer(chan[t][o], x) => x = m
<1>1. chan[t][o] \in Seq(Packets)
  BY DEF Typed
<1>2. ~NotAnswered(o, t)
  BY <1>1, FrontAnswer DEF NotAnswered
<1>3. Answered(o, t)
  BY <1>2 DEF PairInv, InOnePlace, AtRest, InChan, BeingRead, InQueue, Ending
<1>4. PICK x : OneAnswer(chan[t][o], x)
  BY <1>3 DEF Answered
<1> QED
  BY <1>1, <1>3, <1>4, FrontAnswer

-----------------------------------------------------------------------------
(* The lock of the current epoch comes and goes. *)
LEMMA Acquired ==
  ASSUME Typed, Inv, NEW o \in Proc, NEW t \in Proc, NeverHad(o, t),
         Acquire(o, t, lockType[o][t], K(o, t)),
         sending' = sending, lockType' = lockType, epochs' = epochs, unlockDone' = unlockDone,
         \A p \in Proc : release'[p] = 0 => release[p] = 0
  PROVE  /\ \A p \in Proc : TargetInv(p)'
         /\ Has(o, t)' /\ OldLocks(o, t)'
         /\ \A a, b \in Proc : a # o \/ b # t => SameLocks(a, b)
<1> DEFINE g == <<o, lockType[o][t], K(o, t)>>
<1>1. lockType[o][t] \in Types /\ K(o, t) \in Nat
  BY DEF Typed, K
<1>2. g \notin held[t]
  BY DEF NeverHad
<1>3. \A p \in Proc : LockInv(p)
  BY DEF Inv, TargetInv
<1>4. /\ \A p \in Proc : LockInv(p)'
      /\ held'[t] = held[t] \cup {g}
      /\ \A p \in Proc : p # t => held'[p] = held[p]
  BY <1>1, <1>2, <1>3, AcquireParts
<1>5. K(o, t)' = K(o, t) /\ g[1] = o /\ g[3] = K(o, t)
  BY DEF K
<1>6. Has(o, t)'
  BY <1>4, <1>5 DEF Has, NeverHad
<1>7. OldLocks(o, t)
  BY DEF Inv
<1> HIDE DEF g
<1>8. OldLocks(o, t)'
  <2>1. ASSUME NEW h \in held[t]', h[1] = o, h[3] # K(o, t)'
        PROVE  h[3] < K(o, t)' /\ <<t, o, h[3]>> \in sending'
    BY <1>4, <1>5, <1>7, <2>1 DEF OldLocks
  <2>2. ASSUME NEW x \in sending', x[1] = t, x[2] = o
        PROVE  t # o /\ x[3] <= K(o, t)' /\ \E h \in held[t]' : h[1] = o /\ h[3] = x[3]
    BY <1>4, <1>5, <1>7, <2>2 DEF OldLocks
  <2>3. ASSUME NEW h \in held[t]', NEW f \in held[t]', h[1] = o, f[1] = o, h[3] = f[3]
        PROVE  h = f
    BY <1>4, <1>5, <1>7, <2>3 DEF OldLocks, NeverHad
  <2> QED
    BY <2>1, <2>2, <2>3 DEF OldLocks
<1>9. \A p \in Proc : TargetInv(p)'
  BY <1>4 DEF TargetInv, Inv
<1> QED
  BY <1>4, <1>5, <1>6, <1>8, <1>9, OtherLocks

LEMMA Dropped ==
  ASSUME Typed, Inv, NEW o \in Proc, NEW t \in Proc, Has(o, t), Drop(o, t, K(o, t)),
         sending' = sending, lockType' = lockType, epochs' = epochs,
         \A p \in Proc : p # t => unlockDone'[p] = unlockDone[p]
  PROVE  /\ \A p \in Proc : TargetInv(p)'
         /\ HasNot(o, t)' /\ OldLocks(o, t)'
         /\ \A a, b \in Proc : a # o \/ b # t => SameLocks(a, b)
<1> DEFINE g == <<o, lockType[o][t], K(o, t)>>
<1>1. K(o, t) \in Nat
  BY DEF Typed, K
<1>2. g \in held[t] /\ g[1] = o /\ g[3] = K(o, t)
  BY DEF Has
<1>3. \A p \in Proc : LockInv(p)
  BY DEF Inv, TargetInv
<1>4. OldLocks(o, t)
  BY DEF Inv
<1> HIDE DEF g
<1>5. \A h \in held[t] : h[1] = o /\ h[3] = K(o, t) => h = g
  BY <1>2, <1>4 DEF OldLocks
<1>6. /\ \A p \in Proc : LockInv(p)'
      /\ held'[t] = held[t] \ {g}
      /\ \A p \in Proc : p # t => held'[p] = held[p]
  BY <1>1, <1>2, <1>3, <1>5, DropParts
<1>7. K(o, t)' = K(o, t)
  BY DEF K
<1>8. HasNot(o, t)'
  BY <1>5, <1>6, <1>7 DEF HasNot
<1>9. OldLocks(o, t)'
  <2>1. ASSUME NEW h \in held[t]', h[1] = o, h[3] # K(o, t)'
        PROVE  h[3] < K(o, t)' /\ <<t, o, h[3]>> \in sending'
    BY <1>4, <1>6, <1>7, <2>1 DEF OldLocks
  <2>2. ASSUME NEW x \in sending', x[1] = t, x[2] = o
        PROVE  t # o /\ x[3] <= K(o, t)' /\ \E h \in held[t]' : h[1] = o /\ h[3] = x[3]
    <3>1. sending \subseteq Proc \X Proc \X Nat
      BY DEF Typed
    <3>2. x = <<t, o, x[3]>>
      BY <2>2, <3>1
    <3>3. x[3] # K(o, t)
      BY <2>2, <3>2 DEF Has
    <3>4. PICK h \in held[t] : h[1] = o /\ h[3] = x[3]
      BY <1>4, <2>2 DEF OldLocks
    <3>5. h \in held'[t]
      BY <1>2, <1>6, <3>3, <3>4
    <3> QED
      BY <1>4, <1>7, <2>2, <3>4, <3>5 DEF OldLocks
  <2>3. ASSUME NEW h \in held[t]', NEW f \in held[t]', h[1] = o, f[1] = o, h[3] = f[3]
        PROVE  h = f
    BY <1>4, <1>6, <2>3 DEF OldLocks
  <2> QED
    BY <2>1, <2>2, <2>3 DEF OldLocks
<1>10. release'[t] # 0 /\ \A p \in Proc : p # t => release'[p] = release[p]
  <2>1. release \in [Proc -> Nat]
    BY DEF Typed
  <2>2. release'[t] # 0
    BY <1>1, DropTyped
  <2> QED
    BY <2>1, <2>2 DEF Drop
<1>11. \A p \in Proc : TargetInv(p)'
  BY <1>6, <1>10 DEF TargetInv, Inv
<1> QED
  BY <1>2, <1>6, <1>8, <1>9, <1>11, OtherLocks

LEMMA StillPair ==
  ASSUME NEW o \in Proc, NEW t \in Proc, held' = held, sending' = sending,
         lockType'[o][t] = lockType[o][t], epochs'[o][t] = epochs[o][t]
  PROVE  KeepsLocks(o, t) /\ (OldLocks(o, t) => OldLocks(o, t)')
BY StillLocks, LocksKept

-----------------------------------------------------------------------------
(* The calls of origins.  Targets, channels and locks do not change, or    *)
(* there is one packet more.                                               *)
LEMMA CallAlone ==
  ASSUME Typed, Inv, NEW o \in Proc, NEW t \in Proc,
         UnchangedAtTargets, reading' = reading, sending' = sending, plan' = plan,
         OnlyAt(remote_lock_state, remote_lock_state', o, t), OnlyAt(lockType, lockType', o, t),
         OnlyAt(epochs, epochs', o, t), OnlyAt(remote_ops_done, remote_ops_done', o, t),
         OnlyAt(gets, gets', o, t), OnlyAt(rma_ops_list, rma_ops_list', o, t),
         call' = call \/ CallAt(o, t),
         \A a, b \in Proc : a # o \/ b # t => SameChan(a, b),
         PairInv(o, t)'
  PROVE  Inv'
<1>1. \A a, b \in Proc : a # o \/ b # t => SameOrigin(a, b) /\ SameLists(a, b)
  BY OtherOrigins
<1>2. /\ held' = held /\ lock_queue' = lock_queue /\ unlockDone' = unlockDone
  BY DEF UnchangedAtTargets, target
<1>3. \A a, b \in Proc : SameLocks(a, b)
  BY <1>2, StillLocks
<1>4. \A a, b \in Proc : SameTarget(a, b)
  BY <1>2, StillQueue DEF SameTarget
<1>5. SameOthers(o, t)
  BY <1>1, <1>3, <1>4 DEF SameOthers, Same
<1>6. \A p \in Proc : TargetInv(p)'
  BY StillTargets
<1> QED
  BY <1>5, <1>6, Whole

(* What a pair keeps then. *)
LEMMA TargetsKept ==
  ASSUME UnchangedAtTargets, reading' = reading, sending' = sending, NEW o \in Proc, NEW t \in Proc
  PROVE  /\ NotQueued(o, t)' <=> NotQueued(o, t)
         /\ NotEnding(o, t)' <=> NotEnding(o, t)
         /\ ReadsPart(o, t)' <=> ReadsPart(o, t)
         /\ reading[t][o]' = reading[t][o]
         /\ held' = held /\ sending' = sending /\ lock_queue' = lock_queue
BY DEF UnchangedAtTargets, target, NotQueued, NotEnding, ReadsPart

LEMMA NewEpoch ==
  ASSUME Typed, NEW o \in Proc, NEW t \in Proc, OldLocks(o, t), HasNot(o, t),
         held' = held, sending' = sending, epochs'[o][t] = epochs[o][t] + 1
  PROVE  NeverHad(o, t)' /\ OldLocks(o, t)'
<1>1. /\ epochs \in [Proc -> [Proc -> Nat]] /\ sending \subseteq Proc \X Proc \X Nat
      /\ held[t] \subseteq Proc \X Types \X Nat
  BY DEF Typed
<1>2. K(o, t)' = K(o, t) + 1 /\ K(o, t) \in Nat
  BY <1>1 DEF K
<1>3. \A h \in held[t] : h[1] = o => h[3] <= K(o, t) /\ <<t, o, h[3]>> \in sending
  <2>1. \A h \in held[t] : h[1] = o /\ h[3] = K(o, t) => <<t, o, h[3]>> \in sending
    BY DEF HasNot
  <2> QED
    BY <1>1, <1>2, <2>1 DEF OldLocks
<1>4. <<t, o, K(o, t) + 1>> \notin sending
  <2>1. \A x \in sending : x[1] = t /\ x[2] = o => x[3] <= K(o, t)
    BY DEF OldLocks
  <2>2. <<t, o, K(o, t) + 1>>[3] = K(o, t) + 1
    OBVIOUS
  <2> QED
    BY <1>2, <2>1
<1>5. \A h \in held[t] : h[1] = o => h[3] \in Nat
  BY <1>1
<1>6. NeverHad(o, t)'
  BY <1>2, <1>3, <1>4, <1>5 DEF NeverHad
<1>7. OldLocks(o, t)'
  BY <1>2, <1>3, <1>5 DEF OldLocks
<1> QED
  BY <1>6, <1>7

LEMMA InvLock ==
  ASSUME Typed, Inv, NEW o \in Proc, NEW t \in Proc, NEW type \in Types, Lock(o, t, type)
  PROVE  Inv'
<1>1. PairInv(o, t) /\ ~Waits(o, t)
  BY DEF Inv, PairInv, Lock, Idle, Waits
<1>2. AtRest(o, t)
  BY <1>1, Resting DEF PairInv
<1>3. /\ remote_lock_state \in [Proc -> [Proc -> Types \cup {"NOT_LOCKED", "LOCK_REQUESTED"}]]
      /\ lockType \in [Proc -> [Proc -> Types]] /\ epochs \in [Proc -> [Proc -> Nat]]
      /\ sending \subseteq Proc \X Proc \X Nat
  BY DEF Typed
<1>4. /\ OnlyAt(remote_lock_state, remote_lock_state', o, t)
      /\ OnlyAt(lockType, lockType', o, t)
      /\ OnlyAt(epochs, epochs', o, t)
      /\ remote_lock_state'[o][t] = "LOCK_REQUESTED" /\ lockType'[o][t] = type
      /\ epochs'[o][t] = epochs[o][t] + 1
  <2>1. /\ remote_lock_state' = [remote_lock_state EXCEPT ![o][t] = "LOCK_REQUESTED"]
        /\ lockType' = [lockType EXCEPT ![o][t] = type]
        /\ epochs' = [epochs EXCEPT ![o][t] = epochs[o][t] + 1]
    BY DEF Lock
  <2>2. OnlyAt(remote_lock_state, remote_lock_state', o, t) /\ OnlyAt(lockType, lockType', o, t)
    BY <1>3, <2>1 DEF OnlyAt
  <2>3. OnlyAt(epochs, epochs', o, t)
    BY <1>3, <2>1 DEF OnlyAt
  <2> QED
    BY <1>3, <2>1, <2>2, <2>3
<1>5. /\ UnchangedAtTargets /\ reading' = reading /\ sending' = sending /\ plan' = plan
      /\ rma_ops_list' = rma_ops_list /\ remote_ops_done' = remote_ops_done /\ gets' = gets
      /\ call' = call /\ chan' = chan /\ o # t /\ remote_lock_state[o][t] = "NOT_LOCKED"
  BY DEF Lock
<1>6. HasNot(o, t) /\ Clean(o, t)
  BY <1>2, <1>3, <1>5 DEF AtRest, Types
<1>7. OldLocks(o, t) /\ held' = held
  BY <1>1, <1>5 DEF PairInv, UnchangedAtTargets, target
<1>8. NeverHad(o, t)' /\ OldLocks(o, t)'
  BY <1>4, <1>5, <1>6, <1>7, NewEpoch
<1>9. AtRest(o, t)'
  <2>1. NotInChan(o, t)' /\ NotAnswered(o, t)' /\ Clean(o, t)' /\ ~Waits(o, t)'
    BY <1>1, <1>2, <1>5, <1>6 DEF AtRest, NotInChan, NotAnswered, Clean, Waits
  <2>2. NotQueued(o, t)' /\ NotEnding(o, t)' /\ remote_ops_done[o][t]' = 1
    BY <1>2, <1>5, TargetsKept DEF AtRest
  <2> QED
    BY <1>4, <1>8, <2>1, <2>2 DEF AtRest
<1>10. Linked(o, t)'
  BY <1>1, <1>5 DEF PairInv, Linked, Waits, Stage
<1>11. PairInv(o, t)'
  BY <1>8, <1>9, <1>10 DEF PairInv, InOnePlace
<1>12. \A a, b \in Proc : SameChan(a, b)
  BY <1>5, StillChan
<1> QED
  BY <1>4, <1>5, <1>11, <1>12, CallAlone DEF OnlyAt

LEMMA InvLockSelf ==
  ASSUME Typed, Inv, NEW o \in Proc, NEW type \in Types, LockSelf(o, type)
  PROVE  Inv'
<1>1. PairInv(o, o) /\ ~Waits(o, o)
  BY DEF Inv, PairInv, LockSelf, Idle, Waits
<1>2. AtRest(o, o)
  BY <1>1, Resting DEF PairInv
<1>3. /\ lockType \in [Proc -> [Proc -> Types]] /\ epochs \in [Proc -> [Proc -> Nat]]
      /\ call \in [Proc -> Calls \cup {None}]
  BY DEF Typed
<1>4. /\ lockType' = [lockType EXCEPT ![o][o] = type]
      /\ epochs' = [epochs EXCEPT ![o][o] = epochs[o][o] + 1]
      /\ call' = [call EXCEPT ![o] = [stage |-> "self", t |-> o, unlock |-> FALSE, isLocal |-> FALSE]]
      /\ call[o] = None
  BY DEF LockSelf, Idle
<1>5. /\ UnchangedAtTargets /\ reading' = reading /\ sending' = sending /\ plan' = plan
      /\ rma_ops_list' = rma_ops_list /\ remote_ops_done' = remote_ops_done /\ gets' = gets
      /\ chan' = chan /\ remote_lock_state' = remote_lock_state
      /\ remote_lock_state[o][o] = "NOT_LOCKED"
  BY DEF LockSelf
<1>6. OnlyAt(lockType, lockType', o, o) /\ OnlyAt(epochs, epochs', o, o)
  BY <1>3, <1>4 DEF OnlyAt
<1>7. epochs'[o][o] = epochs[o][o] + 1
  BY <1>3, <1>4
<1>8. /\ CallAt(o, o)
      /\ call'[o] = [stage |-> "self", t |-> o, unlock |-> FALSE, isLocal |-> FALSE]
  BY <1>3, <1>4 DEF CallAt
<1>9. HasNot(o, o) /\ Clean(o, o)
  BY <1>2, <1>3, <1>5 DEF AtRest, Types
<1>10. OldLocks(o, o) /\ held' = held
  BY <1>1, <1>5 DEF PairInv, UnchangedAtTargets, target
<1>11. NeverHad(o, o)' /\ OldLocks(o, o)'
  BY <1>5, <1>7, <1>9, <1>10, NewEpoch
<1>12. Waits(o, o)' => call[o].stage' = "self"
  BY <1>8
<1>13. AtRest(o, o)'
  <2>1. NotInChan(o, o)' /\ NotAnswered(o, o)' /\ Clean(o, o)'
    BY <1>2, <1>5, <1>9 DEF AtRest, NotInChan, NotAnswered, Clean
  <2>2. NotQueued(o, o)' /\ NotEnding(o, o)' /\ remote_ops_done[o][o]' = 1
    BY <1>2, <1>5, TargetsKept DEF AtRest
  <2>3. HasNot(o, o)'
    BY <1>11 DEF NeverHad, HasNot
  <2> QED
    BY <1>5, <1>12, <2>1, <2>2, <2>3 DEF AtRest
<1>14. Linked(o, o)'
  BY <1>1, <1>5, <1>8 DEF PairInv, Linked, Waits, Stage
<1>15. PairInv(o, o)'
  BY <1>11, <1>13, <1>14 DEF PairInv, InOnePlace
<1>16. \A a, b \in Proc : SameChan(a, b)
  BY <1>5, StillChan
<1> QED
  BY <1>5, <1>6, <1>8, <1>15, <1>16, CallAlone DEF OnlyAt

LEMMA InvSelfLocked ==
  ASSUME Typed, Inv, NEW o \in Proc, SelfLocked(o)
  PROVE  Inv'
<1>0. PICK t \in Proc : t = call[o].t
  BY DEF SelfLocked, Typed, Calls
<1>1. PairInv(o, o) /\ PairInv(o, t) /\ Waits(o, t) /\ call[o].stage = "self"
  BY <1>0 DEF Inv, PairInv, SelfLocked, Waits
<1>2. AtRest(o, t)
  BY <1>1 DEF PairInv, InOnePlace, InChan, AskInChan, EndInChan, InQueue, BeingRead, Ending, Answered,
              AsksFor, Uses, Stage
<1>3. /\ remote_lock_state \in [Proc -> [Proc -> Types \cup {"NOT_LOCKED", "LOCK_REQUESTED"}]]
      /\ lockType \in [Proc -> [Proc -> Types]] /\ sending \subseteq Proc \X Proc \X Nat
      /\ call \in [Proc -> Calls \cup {None}]
  BY DEF Typed
<1>4. o = t /\ remote_lock_state[o][o] = "NOT_LOCKED" /\ HasNot(o, o) /\ Clean(o, o)
  BY <1>1, <1>2 DEF AtRest
<1>5. Elsewhere(o, o) /\ remote_ops_done[o][o] = 1 /\ NotInChan(o, o)
  BY <1>2, <1>4 DEF AtRest, Elsewhere
<1>6. NeverHad(o, o)
  <2>1. <<o, o, K(o, o)>>[1] = o /\ <<o, o, K(o, o)>>[2] = o
    OBVIOUS
  <2>2. <<o, o, K(o, o)>> \notin sending
    BY <1>1, <2>1 DEF PairInv, OldLocks
  <2> QED
    BY <1>4, <2>2 DEF HasNot, NeverHad
<1>7. /\ remote_lock_state' = [remote_lock_state EXCEPT ![o][o] = lockType[o][o]]
      /\ call' = [call EXCEPT ![o] = None]
      /\ Acquire(o, o, lockType[o][o], K(o, o))
  BY DEF SelfLocked, K
<1>8. /\ reading' = reading /\ sending' = sending /\ plan' = plan /\ lockType' = lockType
      /\ epochs' = epochs /\ unlockDone' = unlockDone /\ release' = release
      /\ rma_ops_list' = rma_ops_list /\ remote_ops_done' = remote_ops_done /\ gets' = gets
      /\ chan' = chan /\ lock_queue' = lock_queue
  BY DEF SelfLocked
<1>9. /\ \A p \in Proc : TargetInv(p)'
      /\ Has(o, o)' /\ OldLocks(o, o)'
      /\ \A a, b \in Proc : a # o \/ b # o => SameLocks(a, b)
  BY <1>6, <1>7, <1>8, Acquired
<1>10. /\ OnlyAt(remote_lock_state, remote_lock_state', o, o)
       /\ remote_lock_state'[o][o] = lockType[o][o]
  BY <1>3, <1>7 DEF OnlyAt
<1>11. CallAt(o, o) /\ call'[o] = None
  BY <1>0, <1>3, <1>4, <1>7 DEF CallAt
<1>12. \A a, b \in Proc : a # o \/ b # o => SameOrigin(a, b) /\ SameLists(a, b)
  BY <1>8, <1>10, <1>11, OtherOrigins DEF OnlyAt
<1>13. SameOthers(o, o)
  BY <1>8, <1>9, <1>12, StillQueue, StillChan DEF SameOthers, Same, SameTarget
<1>14. AtRest(o, o)'
  <2>1. Elsewhere(o, o)' /\ remote_ops_done[o][o]' = 1 /\ NotInChan(o, o)' /\ ~Waits(o, o)'
    BY <1>5, <1>8, <1>11 DEF Elsewhere, NotQueued, NotEnding, NotAnswered, NotInChan, Waits
  <2>2. ReadsPart(o, o)'
    BY <1>4, <1>8 DEF Clean, ReadsPart
  <2> QED
    BY <1>8, <1>9, <1>10, <2>1, <2>2 DEF AtRest, Elsewhere
<1>15. Linked(o, o)'
  <2>1. lockType[o][o] # "LOCK_REQUESTED"
    BY <1>3 DEF Types
  <2> QED
    BY <1>1, <1>8, <1>10, <1>11, <2>1 DEF PairInv, Linked, Waits, Stage
<1>16. PairInv(o, o)'
  BY <1>9, <1>14, <1>15 DEF PairInv, InOnePlace
<1> QED
  BY <1>8, <1>9, <1>13, <1>16, Whole

LEMMA InvUnlockSelf ==
  ASSUME Typed, Inv, NEW o \in Proc, UnlockSelf(o)
  PROVE  Inv'
<1>1. PairInv(o, o) /\ ~Waits(o, o) /\ call[o] = None
  BY DEF Inv, PairInv, UnlockSelf, Idle, Waits
<1>2. AtRest(o, o)
  BY <1>1, Resting DEF PairInv
<1>3. /\ remote_lock_state \in [Proc -> [Proc -> Types \cup {"NOT_LOCKED", "LOCK_REQUESTED"}]]
      /\ lockType \in [Proc -> [Proc -> Types]]
  BY DEF Typed
<1>4. remote_lock_state[o][o] # "NOT_LOCKED" /\ remote_lock_state[o][o] # "LOCK_REQUESTED"
  BY <1>1 DEF UnlockSelf, PairInv, Linked
<1>5. Elsewhere(o, o) /\ remote_ops_done[o][o] = 1 /\ NotInChan(o, o) /\ Has(o, o) /\ ReadsPart(o, o)
  BY <1>2, <1>4 DEF AtRest, Elsewhere
<1>6. /\ remote_lock_state' = [remote_lock_state EXCEPT ![o][o] = "NOT_LOCKED"]
      /\ Drop(o, o, K(o, o))
  BY DEF UnlockSelf, K
<1>7. /\ reading' = reading /\ sending' = sending /\ plan' = plan /\ lockType' = lockType
      /\ epochs' = epochs /\ unlockDone' = unlockDone /\ call' = call
      /\ rma_ops_list' = rma_ops_list /\ remote_ops_done' = remote_ops_done /\ gets' = gets
      /\ chan' = chan /\ lock_queue' = lock_queue
  BY DEF UnlockSelf
<1>8. /\ \A p \in Proc : TargetInv(p)'
      /\ HasNot(o, o)' /\ OldLocks(o, o)'
      /\ \A a, b \in Proc : a # o \/ b # o => SameLocks(a, b)
  BY <1>5, <1>6, <1>7, Dropped
<1>9. /\ OnlyAt(remote_lock_state, remote_lock_state', o, o)
      /\ remote_lock_state'[o][o] = "NOT_LOCKED"
  BY <1>3, <1>6 DEF OnlyAt
<1>10. \A a, b \in Proc : a # o \/ b # o => SameOrigin(a, b) /\ SameLists(a, b)
  BY <1>7, <1>9, OtherOrigins DEF OnlyAt
<1>11. SameOthers(o, o)
  BY <1>7, <1>8, <1>10, StillQueue, StillChan DEF SameOthers, Same, SameTarget
<1>12. Clean(o, o)'
  <2>1. chan[o][o] = <<>> /\ reading[o][o] = None
    BY <1>1 DEF PairInv, Linked
  <2> QED
    BY <1>7, <2>1 DEF Clean, NoRequest
<1>13. AtRest(o, o)'
  <2>1. Elsewhere(o, o)' /\ remote_ops_done[o][o]' = 1 /\ NotInChan(o, o)' /\ ~Waits(o, o)'
    BY <1>1, <1>5, <1>7 DEF Elsewhere, NotQueued, NotEnding, NotAnswered, NotInChan, Waits
  <2> QED
    BY <1>8, <1>9, <1>12, <2>1 DEF AtRest, Elsewhere
<1>14. Linked(o, o)'
  BY <1>1, <1>7, <1>9 DEF PairInv, Linked, Waits, Stage
<1>15. PairInv(o, o)'
  BY <1>8, <1>13, <1>14 DEF PairInv, InOnePlace
<1> QED
  BY <1>7, <1>8, <1>11, <1>15, Whole

LEMMA InvAccessSelf ==
  ASSUME Typed, Inv, NEW o \in Proc, AccessSelf(o)
  PROVE  Inv'
<1>1. /\ UNCHANGED <<lock_state, shared_lock_ref_cnt, lock_queue, release, held>>
      /\ UNCHANGED <<unlockDone, remote_lock_state, rma_ops_list, remote_ops_done>>
      /\ UNCHANGED <<gets, call, lockType, epochs, chan, reading, sending, plan>>
  BY DEF AccessSelf, target
<1>2. \A a, b \in Proc : SameOrigin(a, b) /\ SameLists(a, b)
  BY <1>1 DEF SameOrigin, SameLists, Waits
<1>3. \A a, b \in Proc : SameLocks(a, b) /\ SameChan(a, b) /\ SameTarget(a, b)
  BY <1>1, StillLocks, StillChan, StillQueue DEF SameTarget
<1>4. SameOthers(o, o) /\ Same(o, o)
  BY <1>2, <1>3 DEF SameOthers, Same
<1>5. PairInv(o, o)'
  BY <1>1, <1>4, PairKept DEF Inv, PairInv
<1>6. \A p \in Proc : TargetInv(p)'
  BY <1>1 DEF Inv, TargetInv, LockInv
<1> QED
  BY <1>1, <1>4, <1>5, <1>6, Whole

(* Whoever flushes locally only gets: then the answers of an earlier flush *)
(* cannot be taken for those of a later one.                               *)
LocalGets == \A p \in Plans : "flush_local" \in p.flushes => p.kinds \subseteq {"get"}

LEMMA InvQueue ==
  ASSUME Typed, Inv, LocalGets, NEW o \in Proc, NEW t \in Proc, NEW kind \in plan.kinds,
         Queue(o, t, kind)
  PROVE  Inv'
<1> DEFINE op == [kind |-> kind, n |-> queued[o][t] + 1]
<1>1. PairInv(o, t) /\ ~Waits(o, t) /\ call[o] = None /\ o # t
  BY DEF Inv, PairInv, Queue, MayAccess, Idle, Waits
<1>2. AtRest(o, t)
  BY <1>1, Resting DEF PairInv
<1>3. /\ UnchangedAtTargets /\ reading' = reading /\ sending' = sending /\ plan' = plan
      /\ remote_lock_state' = remote_lock_state /\ remote_ops_done' = remote_ops_done
      /\ gets' = gets /\ call' = call /\ chan' = chan /\ lockType' = lockType /\ epochs' = epochs
      /\ rma_ops_list' = [rma_ops_list EXCEPT ![o][t] = Append(@, op)]
  BY DEF Queue
<1>4. /\ rma_ops_list \in [Proc -> [Proc -> Seq(Ops)]] /\ queued[o][t] \in Nat
      /\ rma_ops_list[o][t] \in Seq(Ops) /\ plan \in Plans
  BY DEF Typed, Ops
<1>5. /\ op \in Ops /\ op.kind = kind
      /\ "flush_local" \in plan.flushes => kind = "get"
  <2>1. kind \in Kinds
    BY <1>4, PlansAssumption
  <2>2. op \in Ops /\ op.kind = kind
    BY <1>4, <2>1 DEF Ops
  <2>3. "flush_local" \in plan.flushes => kind = "get"
    BY <1>4 DEF LocalGets
  <2> QED
    BY <2>2, <2>3
<1> HIDE DEF op
<1>6. /\ OnlyAt(rma_ops_list, rma_ops_list', o, t)
      /\ rma_ops_list'[o][t] = Append(rma_ops_list[o][t], op)
  BY <1>3, <1>4 DEF OnlyAt
<1>7. SameOrigin(o, t) /\ SameTarget(o, t) /\ KeepsLocks(o, t) /\ OldLocks(o, t)'
  <2>1. SameOrigin(o, t) /\ held' = held
    BY <1>3 DEF SameOrigin, Waits, UnchangedAtTargets, target
  <2>2. SameTarget(o, t)
    BY <1>3, StillQueue DEF SameTarget, UnchangedAtTargets, target
  <2> QED
    BY <1>1, <1>3, <2>1, <2>2, StillPair DEF PairInv
<1>8. InOnePlace(o, t)'
  <2>1. KeepsRequests(chan[o][t], chan'[o][t]) /\ KeepsAnswers(chan[t][o], chan'[t][o])
    BY <1>3 DEF KeepsRequests, KeepsAnswers
  <2> QED
    BY <1>1, <1>7, <2>1, PlaceKept DEF PairInv, SamePlace
<1>9. Linked(o, t)'
  <2>1. "flush_local" \in plan.flushes' =>
          \A i \in 1 .. Len(rma_ops_list[o][t]') : rma_ops_list[o][t]'[i].kind = "get"
    <3>1. "flush_local" \in plan.flushes =>
            \A i \in 1 .. Len(rma_ops_list[o][t]) : rma_ops_list[o][t][i].kind = "get"
      BY <1>1 DEF PairInv, Linked
    <3>2. /\ Len(rma_ops_list[o][t]) \in Nat
          /\ Len(rma_ops_list'[o][t]) = Len(rma_ops_list[o][t]) + 1
          /\ \A i \in 1 .. Len(rma_ops_list[o][t]) : rma_ops_list'[o][t][i] = rma_ops_list[o][t][i]
          /\ rma_ops_list'[o][t][Len(rma_ops_list[o][t]) + 1] = op
      BY <1>4, <1>5, <1>6, Appended
    <3> QED
      BY <1>3, <1>5, <3>1, <3>2
  <2> QED
    BY <1>1, <1>3, <2>1 DEF PairInv, Linked, Waits, Stage
<1>10. \A a, b \in Proc : SameChan(a, b)
  BY <1>3, StillChan
<1>11. PairInv(o, t)'
  BY <1>7, <1>8, <1>9 DEF PairInv
<1> QED
  BY <1>3, <1>6, <1>10, <1>11, CallAlone DEF OnlyAt

LEMMA InvUnlockUnused ==
  ASSUME Typed, Inv, NEW o \in Proc, NEW t \in Proc, UnlockUnused(o, t)
  PROVE  Inv'
<1>1. PairInv(o, t) /\ ~Waits(o, t) /\ call[o] = None
  BY DEF Inv, PairInv, UnlockUnused, Idle, Waits
<1>2. AtRest(o, t)
  BY <1>1, Resting DEF PairInv
<1>3. /\ remote_lock_state \in [Proc -> [Proc -> Types \cup {"NOT_LOCKED", "LOCK_REQUESTED"}]]
      /\ lockType \in [Proc -> [Proc -> Types]]
  BY DEF Typed
<1>4. /\ UnchangedAtTargets /\ reading' = reading /\ sending' = sending /\ plan' = plan
      /\ rma_ops_list' = rma_ops_list /\ remote_ops_done' = remote_ops_done
      /\ gets' = gets /\ call' = call /\ chan' = chan /\ lockType' = lockType /\ epochs' = epochs
      /\ remote_lock_state' = [remote_lock_state EXCEPT ![o][t] = "NOT_LOCKED"]
      /\ remote_lock_state[o][t] = "LOCK_REQUESTED"
  BY DEF UnlockUnused
<1>5. /\ OnlyAt(remote_lock_state, remote_lock_state', o, t)
      /\ remote_lock_state'[o][t] = "NOT_LOCKED"
  BY <1>3, <1>4 DEF OnlyAt
<1>6. Clean(o, t) /\ NeverHad(o, t)
  BY <1>2, <1>3, <1>4 DEF AtRest, Types
<1>7. KeepsLocks(o, t) /\ OldLocks(o, t)'
  BY <1>1, <1>4, StillPair DEF PairInv, UnchangedAtTargets, target
<1>8. AtRest(o, t)'
  <2>1. NotInChan(o, t)' /\ NotAnswered(o, t)' /\ Clean(o, t)' /\ ~Waits(o, t)'
    BY <1>1, <1>2, <1>4, <1>6 DEF AtRest, NotInChan, NotAnswered, Clean, Waits
  <2>2. NotQueued(o, t)' /\ NotEnding(o, t)' /\ remote_ops_done[o][t]' = 1
    BY <1>2, <1>4, TargetsKept DEF AtRest
  <2>3. HasNot(o, t)'
    BY <1>6, <1>7 DEF KeepsLocks, NeverHad, HasNot
  <2> QED
    BY <1>5, <2>1, <2>2, <2>3 DEF AtRest
<1>9. Linked(o, t)'
  BY <1>1, <1>4, <1>5 DEF PairInv, Linked, Waits, Stage
<1>10. PairInv(o, t)'
  BY <1>7, <1>8, <1>9 DEF PairInv, InOnePlace
<1>11. \A a, b \in Proc : SameChan(a, b)
  BY <1>4, StillChan
<1> QED
  BY <1>4, <1>5, <1>10, <1>11, CallAlone DEF OnlyAt

LEMMA Waiting ==
  ASSUME Typed, NEW o \in Proc, NEW t \in Proc, NEW stage,
         NEW unlock \in BOOLEAN, NEW isLocal \in BOOLEAN,
         Wait(o, t, stage, unlock, isLocal), call[o] = None \/ call[o].t = t,
         stage \in {"self", "grant", "done", "unlock"}
  PROVE  /\ CallAt(o, t) /\ call'[o] # None
         /\ call'[o] = [stage |-> stage, t |-> t, unlock |-> unlock, isLocal |-> isLocal]
BY NoneAssumption DEF Wait, CallAt, Typed, Calls

LEMMA InvFlushEmpty ==
  ASSUME Typed, Inv, NEW o \in Proc, NEW t \in Proc, FlushEmpty(o, t)
  PROVE  Inv'
<1>1. PairInv(o, t) /\ ~Waits(o, t) /\ call[o] = None /\ o # t
  BY DEF Inv, PairInv, FlushEmpty, Idle, Waits
<1>2. AtRest(o, t)
  BY <1>1, Resting DEF PairInv
<1>3. /\ UnchangedAtTargets /\ reading' = reading /\ sending' = sending /\ plan' = plan
      /\ rma_ops_list' = rma_ops_list /\ remote_ops_done' = remote_ops_done
      /\ gets' = gets /\ chan' = chan /\ lockType' = lockType /\ epochs' = epochs
      /\ remote_lock_state' = remote_lock_state /\ remote_lock_state[o][t] \in Types
      /\ Wait(o, t, "done", FALSE, FALSE)
  BY DEF FlushEmpty
<1>4. CallAt(o, t) /\ call'[o] = [stage |-> "done", t |-> t, unlock |-> FALSE, isLocal |-> FALSE]
  BY <1>1, <1>3, Waiting
<1>5. KeepsLocks(o, t) /\ OldLocks(o, t)'
  BY <1>1, <1>3, StillPair DEF PairInv, UnchangedAtTargets, target
<1>6. AtRest(o, t)'
  <2>1. remote_lock_state[o][t] = lockType[o][t] /\ ReadsPart(o, t) /\ Has(o, t)
    BY <1>2, <1>3 DEF AtRest, Types
  <2>2. NotInChan(o, t)' /\ NotAnswered(o, t)'
    BY <1>2, <1>3 DEF AtRest, NotInChan, NotAnswered
  <2>3. NotQueued(o, t)' /\ NotEnding(o, t)' /\ remote_ops_done[o][t]' = 1 /\ ReadsPart(o, t)'
    BY <1>2, <1>3, <2>1, TargetsKept DEF AtRest
  <2>4. call[o].stage' = "done" /\ ~Unlocks(o, t)' /\ Has(o, t)'
    BY <1>4, <1>5, <2>1 DEF KeepsLocks, Unlocks
  <2> QED
    BY <1>3, <2>1, <2>2, <2>3, <2>4 DEF AtRest
<1>7. Linked(o, t)'
  BY <1>1, <1>3, <1>4 DEF PairInv, Linked, Waits, Stage
<1>8. PairInv(o, t)'
  BY <1>5, <1>6, <1>7 DEF PairInv, InOnePlace
<1>9. \A a, b \in Proc : SameChan(a, b)
  BY <1>3, StillChan
<1> QED
  BY <1>3, <1>4, <1>8, <1>9, CallAlone DEF OnlyAt

LEMMA Done ==
  ASSUME Typed, NEW o \in Proc, NEW t \in Proc, PairInv(o, t), Waits(o, t),
         \/ call[o].stage = "unlock" /\ remote_lock_state[o][t] = "NOT_LOCKED"
         \/ call[o].stage = "done" /\ IsDone(o, t)
  PROVE  /\ AtRest(o, t)
         /\ IF Unlocks(o, t) THEN remote_lock_state[o][t] = "NOT_LOCKED"
            ELSE remote_lock_state[o][t] = lockType[o][t]
<1>1. lockType[o][t] \in Types /\ call[o].unlock \in BOOLEAN
  BY DEF Typed, Waits, Calls
<1>2. CASE call[o].stage = "unlock" /\ remote_lock_state[o][t] = "NOT_LOCKED"
  <2>1. ~Uses(o, t, "unlock") /\ ~Uses(o, t, "done") /\ ~AsksFor(o, t)
    BY <1>1, <1>2 DEF Uses, AsksFor, Types
  <2>2. AtRest(o, t)
    BY <2>1 DEF PairInv, InOnePlace, InChan, AskInChan, EndInChan, InQueue, BeingRead, Ending, Answered
  <2> QED
    BY <1>1, <1>2, <2>2 DEF AtRest, Types
<1>3. CASE call[o].stage = "done" /\ IsDone(o, t)
  <2>1. ~Uses(o, t, "unlock") /\ ~AsksFor(o, t) /\ ~Undone(o, t)
    BY <1>3 DEF Uses, AsksFor, Stage, Undone, IsDone
  <2>2. chan[o][t] \in Seq(Packets) /\ chan[t][o] \in Seq(Packets)
    BY DEF Typed
  <2>3. NumberOf(chan[o][t], "GET") \in Nat /\ NumberOf(chan[t][o], "RMA_RESP") \in Nat
    BY <2>2, PlacesFinite
  <2>4. NumberOf(chan[o][t], "GET") = 0 /\ NumberOf(chan[t][o], "RMA_RESP") = 0
    BY <1>3, <2>3 DEF PairInv, Linked, IsDone
  <2>5. ASSUME NEW m, LastFinal(chan[o][t], m), m.type = "GET" PROVE FALSE
    <3>1. PICK i \in 1 .. Len(chan[o][t]) : chan[o][t][i] = m
      BY <2>5 DEF LastFinal
    <3> QED
      BY <2>2, <2>4, <2>5, <3>1, Counted
  <2>6. ASSUME NEW m, OneAnswer(chan[t][o], m), m.type = "RMA_RESP" PROVE FALSE
    <3>1. PICK i \in 1 .. Len(chan[t][o]) : chan[t][o][i] = m
      BY <2>6 DEF OneAnswer
    <3> QED
      BY <2>2, <2>4, <2>6, <3>1, Counted
  <2>7. ~InChan(o, t)
    BY <2>1, <2>5 DEF InChan, AskInChan, EndInChan
  <2>8. ~Answered(o, t)
    BY <2>1, <2>6 DEF Answered
  <2>9. AtRest(o, t)
    BY <2>1, <2>7, <2>8 DEF PairInv, InOnePlace, InQueue, BeingRead, Ending
  <2> QED
    BY <1>1, <1>3, <2>9 DEF AtRest, Types
<1> QED
  BY <1>2, <1>3

LEMMA InvReturn ==
  ASSUME Typed, Inv, NEW o \in Proc, Return(o)
  PROVE  Inv'
<1>0. PICK t \in Proc : t = call[o].t
  BY DEF Return, Typed, Calls
<1>1. PairInv(o, t) /\ Waits(o, t) /\ o # t
  <2>1. PairInv(o, t) /\ Waits(o, t)
    BY <1>0 DEF Inv, PairInv, Return, Waits
  <2> QED
    BY <2>1 DEF PairInv, Linked, Return
<1>2. /\ AtRest(o, t)
      /\ IF Unlocks(o, t) THEN remote_lock_state[o][t] = "NOT_LOCKED"
         ELSE remote_lock_state[o][t] = lockType[o][t]
  BY <1>0, <1>1, Done DEF Return
<1>3. /\ UnchangedAtTargets /\ reading' = reading /\ sending' = sending /\ plan' = plan
      /\ remote_ops_done' = remote_ops_done /\ gets' = gets /\ chan' = chan
      /\ lockType' = lockType /\ epochs' = epochs
      /\ rma_ops_list' = [rma_ops_list EXCEPT ![o][t] = <<>>]
      /\ remote_lock_state' =
           [remote_lock_state EXCEPT ![o][t] = IF call[o].unlock THEN "NOT_LOCKED" ELSE @]
      /\ call' = [call EXCEPT ![o] = None]
  BY <1>0 DEF Return
<1>4. /\ remote_lock_state \in [Proc -> [Proc -> Types \cup {"NOT_LOCKED", "LOCK_REQUESTED"}]]
      /\ rma_ops_list \in [Proc -> [Proc -> Seq(Ops)]]
      /\ lockType \in [Proc -> [Proc -> Types]]
      /\ call \in [Proc -> Calls \cup {None}]
  BY DEF Typed, Ops
<1>5. OnlyAt(rma_ops_list, rma_ops_list', o, t) /\ rma_ops_list'[o][t] = <<>>
  BY <1>3, <1>4 DEF OnlyAt
<1>6. /\ OnlyAt(remote_lock_state, remote_lock_state', o, t)
      /\ remote_lock_state'[o][t] = remote_lock_state[o][t]
  BY <1>2, <1>3, <1>4 DEF OnlyAt, Unlocks
<1>7. CallAt(o, t) /\ call'[o] = None
  BY <1>0, <1>3, <1>4 DEF CallAt
<1>8. KeepsLocks(o, t) /\ OldLocks(o, t)'
  BY <1>1, <1>3, StillPair DEF PairInv, UnchangedAtTargets, target
<1>9. AtRest(o, t)'
  <2>1. NotInChan(o, t)' /\ NotAnswered(o, t)' /\ ~Waits(o, t)' /\ (Clean(o, t) => Clean(o, t)')
    BY <1>2, <1>3, <1>7 DEF AtRest, NotInChan, NotAnswered, Waits, Clean
  <2>2. /\ NotQueued(o, t)' /\ NotEnding(o, t)' /\ remote_ops_done[o][t]' = 1
        /\ ReadsPart(o, t) => ReadsPart(o, t)'
    BY <1>2, <1>3, TargetsKept DEF AtRest
  <2> QED
    BY <1>2, <1>3, <1>6, <1>8, <2>1, <2>2 DEF AtRest, KeepsLocks
<1>10. Linked(o, t)'
  <2>1. Len(rma_ops_list'[o][t]) = 0
    BY <1>5, EmptySeq
  <2> QED
    BY <1>1, <1>3, <1>6, <1>7, <2>1 DEF PairInv, Linked, Waits, Stage
<1>11. PairInv(o, t)'
  BY <1>8, <1>9, <1>10 DEF PairInv, InOnePlace
<1>12. \A a, b \in Proc : SameChan(a, b)
  BY <1>3, StillChan
<1> QED
  BY <1>3, <1>5, <1>6, <1>7, <1>11, <1>12, CallAlone DEF OnlyAt

-----------------------------------------------------------------------------
(* An origin sends a request that its call waits for. *)
LEMMA Constants ==
  /\ "SHARED" \in Types /\ 0 \in Nat /\ TRUE \in BOOLEAN /\ FALSE \in BOOLEAN
  /\ \A x \in {"LOCK", "UNLOCK", "LOCK_PUT_UNLOCK", "LOCK_ACCUM_UNLOCK", "LOCK_GRANTED",
               "UNLOCK_DONE", "PT_RMA_DONE", "RMA_RESP"} : x \in PacketTypes
BY DEF Types, PacketTypes

LEMMA RequestSent ==
  ASSUME Typed, NEW o \in Proc, NEW t \in Proc, o # t, PairInv(o, t),
         NEW m \in Packets, m.type \in Asks \cup {"UNLOCK"}, Send(o, t, m)
  PROVE  /\ \A a, b \in Proc : a # o \/ b # t => SameChan(a, b)
         /\ chan'[t][o] = chan[t][o]
         /\ LastUnlocks(chan'[o][t])
         /\ NumberOf(chan'[o][t], "GET") = NumberOf(chan[o][t], "GET")
         /\ NoRequest(chan[o][t]) => OnlyRequest(chan'[o][t], m)
         /\ NoFinal(chan[o][t]) => LastFinal(chan'[o][t], m)
<1> DEFINE s == chan[o][t]
           r == Append(s, m)
<1>1. s \in Seq(Packets) /\ r \in Seq(Packets)
  BY Appended DEF Typed
<1>2. Final(m) /\ m.type \in Requests /\ m.type \notin {"GET", "PUT"}
  BY DEF Final, Asks, Requests
<1>3. ChanSet(o, t, r)
  BY DEF Send, ChanSet
<1>4. SameAnswers(s, r)
  BY <1>1, <1>2, RequestAppended
<1>5. LastUnlocks(s)
  BY DEF PairInv, Linked
<1>6. LastUnlocks(r)
  <2>1. /\ Len(s) \in Nat /\ Len(r) = Len(s) + 1 /\ r[Len(s) + 1] = m
        /\ \A i \in 1 .. Len(s) : r[i] = s[i]
    BY <1>1, Appended
  <2> QED
    BY <1>2, <1>5, <2>1 DEF LastUnlocks
<1>7. NumberOf(r, "GET") = NumberOf(s, "GET")
  <2>1. NumberOf(r, "GET") = NumberOf(s, "GET") + 0
    BY <1>1, <1>2, NumberAppended
  <2>2. NumberOf(s, "GET") \in Nat
    BY <1>1, PlacesFinite
  <2> QED
    BY <2>1, <2>2
<1>8. (NoRequest(s) => OnlyRequest(r, m)) /\ (NoFinal(s) => LastFinal(r, m))
  BY <1>1, <1>2, FinalAppended
<1> HIDE DEF r
<1>9. /\ \A a, b \in Proc : a # o \/ b # t => SameChan(a, b)
      /\ chan'[o][t] = r /\ chan'[t][o] = chan[t][o]
  BY <1>1, <1>3, <1>4, ChanRequest
<1> QED
  BY <1>6, <1>7, <1>8, <1>9

LEMMA InvUnlockEmpty ==
  ASSUME Typed, Inv, NEW o \in Proc, NEW t \in Proc, UnlockEmpty(o, t)
  PROVE  Inv'
<1>0. PICK m : m = Packet("UNLOCK", "SHARED", 0, epochs[o][t], FALSE, FALSE)
  OBVIOUS
<1>1. PairInv(o, t) /\ ~Waits(o, t) /\ call[o] = None /\ o # t
  BY DEF Inv, PairInv, UnlockEmpty, Idle, Waits
<1>2. AtRest(o, t)
  BY <1>1, Resting DEF PairInv
<1>3. /\ UnchangedAtTargets /\ reading' = reading /\ sending' = sending /\ plan' = plan
      /\ rma_ops_list' = rma_ops_list /\ remote_ops_done' = remote_ops_done
      /\ gets' = gets /\ lockType' = lockType /\ epochs' = epochs
      /\ remote_lock_state' = remote_lock_state /\ remote_lock_state[o][t] \in Types
      /\ Wait(o, t, "unlock", TRUE, FALSE) /\ Send(o, t, m)
  BY <1>0 DEF UnlockEmpty, Bare
<1>4. CallAt(o, t) /\ call'[o] # None /\ call'[o] = [stage |-> "unlock", t |-> t, unlock |-> TRUE, isLocal |-> FALSE]
  BY <1>1, <1>3, Waiting
<1>5. m \in Packets /\ m.type = "UNLOCK" /\ m.k = epochs[o][t]
  <2>1. epochs[o][t] \in Nat
    BY Counters
  <2>2. m \in Packets
    BY <1>0, <2>1, Made, Constants
  <2> QED
    BY <1>0, <2>2 DEF Packet
<1>6. /\ \A a, b \in Proc : a # o \/ b # t => SameChan(a, b)
      /\ chan'[t][o] = chan[t][o]
      /\ LastUnlocks(chan'[o][t])
      /\ NumberOf(chan'[o][t], "GET") = NumberOf(chan[o][t], "GET")
      /\ NoFinal(chan[o][t]) => LastFinal(chan'[o][t], m)
  BY <1>1, <1>3, <1>5, RequestSent
<1>7. /\ remote_lock_state[o][t] = lockType[o][t] /\ ReadsPart(o, t) /\ Has(o, t)
      /\ NoFinal(chan[o][t]) /\ NotAnswered(o, t)
  BY <1>2, <1>3 DEF AtRest, Types, NotInChan
<1>8. KeepsLocks(o, t) /\ OldLocks(o, t)'
  BY <1>1, <1>3, StillPair DEF PairInv, UnchangedAtTargets, target
<1>9. InChan(o, t)'
  <2>1. /\ NotQueued(o, t)' /\ NotEnding(o, t)' /\ remote_ops_done[o][t]' = 1 /\ ReadsPart(o, t)'
        /\ NotAnswered(o, t)'
    BY <1>2, <1>3, <1>6, <1>7, TargetsKept DEF AtRest, NotAnswered
  <2>2. Uses(o, t, "unlock")' /\ Unlocks(o, t)' /\ Has(o, t)'
    <3>1. Has(o, t)'
      BY <1>7, <1>8 DEF KeepsLocks
    <3> QED
      BY <1>3, <1>4, <1>7, <3>1 DEF Uses, Stage, Waits, Unlocks
  <2>3. LastFinal(chan[o][t], m)' /\ m.k = K(o, t)'
    BY <1>3, <1>5, <1>6, <1>7 DEF K
  <2>4. EndInChan(o, t, m)'
    BY <1>5, <2>1, <2>2, <2>3 DEF EndInChan
  <2> QED
    BY <2>1, <2>3, <2>4, Members DEF InChan
<1>10. Linked(o, t)'
  BY <1>1, <1>3, <1>4, <1>6 DEF PairInv, Linked, Waits, Stage
<1>11. PairInv(o, t)'
  BY <1>8, <1>9, <1>10 DEF PairInv, InOnePlace
<1> QED
  BY <1>3, <1>4, <1>6, <1>11, CallAlone DEF OnlyAt

LEMMA AskSent ==
  ASSUME Typed, Inv, NEW o \in Proc, NEW t \in Proc, Idle(o),
         remote_lock_state[o][t] = "LOCK_REQUESTED", rma_ops_list[o][t] # <<>>,
         NEW m \in Packets, Send(o, t, m), m.lock = lockType[o][t], m.k = epochs[o][t],
         NEW unlock \in BOOLEAN, NEW isLocal \in BOOLEAN,
         isLocal => "flush_local" \in plan.flushes /\ ~unlock,
         \/ /\ m.type = "LOCK" /\ m.n = 0 /\ Wait(o, t, "grant", unlock, isLocal)
            /\ remote_lock_state' = remote_lock_state /\ remote_ops_done' = remote_ops_done
         \/ /\ m.type \in {"LOCK_PUT_UNLOCK", "LOCK_ACCUM_UNLOCK"}
            /\ m.n # 0 /\ m.last /\ m.unlock
            /\ Wait(o, t, "done", unlock, isLocal) /\ unlock
            /\ remote_lock_state' = [remote_lock_state EXCEPT ![o][t] = lockType[o][t]]
            /\ remote_ops_done' = [remote_ops_done EXCEPT ![o][t] = 0],
         UnchangedAtTargets, reading' = reading, sending' = sending, plan' = plan,
         rma_ops_list' = rma_ops_list, gets' = gets, lockType' = lockType, epochs' = epochs
  PROVE  Inv'
<1>1. PairInv(o, t) /\ ~Waits(o, t) /\ call[o] = None /\ o # t
  <2>1. PairInv(o, t) /\ ~Waits(o, t) /\ call[o] = None
    BY DEF Inv, PairInv, Idle, Waits
  <2> QED
    BY <2>1 DEF PairInv, Linked
<1>2. AtRest(o, t)
  BY <1>1, Resting DEF PairInv
<1>3. /\ remote_lock_state \in [Proc -> [Proc -> Types \cup {"NOT_LOCKED", "LOCK_REQUESTED"}]]
      /\ remote_ops_done \in [Proc -> [Proc -> {0, 1}]]
      /\ lockType \in [Proc -> [Proc -> Types]]
  BY DEF Typed
<1>4. PICK stage \in {"grant", "done"} :
        Wait(o, t, stage, unlock, isLocal) /\ (stage = "grant" <=> m.type = "LOCK")
  OBVIOUS
<1>5. CallAt(o, t) /\ call'[o] # None
      /\ call'[o] = [stage |-> stage, t |-> t, unlock |-> unlock, isLocal |-> isLocal]
  BY <1>1, <1>4, Waiting
<1>6. m.type \in Asks
  BY DEF Asks
<1>7. /\ \A a, b \in Proc : a # o \/ b # t => SameChan(a, b)
      /\ chan'[t][o] = chan[t][o]
      /\ LastUnlocks(chan'[o][t])
      /\ NumberOf(chan'[o][t], "GET") = NumberOf(chan[o][t], "GET")
      /\ NoRequest(chan[o][t]) => OnlyRequest(chan'[o][t], m)
  BY <1>1, <1>6, RequestSent
<1>8. /\ NoRequest(chan[o][t]) /\ reading[t][o] = None /\ NeverHad(o, t)
      /\ NotAnswered(o, t) /\ remote_ops_done[o][t] = 1
  BY <1>2, <1>3 DEF AtRest, Types, Clean
<1>9. KeepsLocks(o, t) /\ OldLocks(o, t)'
  BY <1>1, StillPair DEF PairInv, UnchangedAtTargets, target
<1>10. /\ OnlyAt(remote_lock_state, remote_lock_state', o, t)
       /\ OnlyAt(remote_ops_done, remote_ops_done', o, t)
       /\ \/ /\ m.type = "LOCK" /\ m.n = 0 /\ stage = "grant"
             /\ remote_lock_state'[o][t] = "LOCK_REQUESTED" /\ remote_ops_done'[o][t] = 1
          \/ /\ m.type \in {"LOCK_PUT_UNLOCK", "LOCK_ACCUM_UNLOCK"} /\ m.n # 0 /\ m.last /\ m.unlock
             /\ stage = "done" /\ unlock
             /\ remote_lock_state'[o][t] = lockType[o][t] /\ remote_ops_done'[o][t] = 0
  BY <1>3, <1>4, <1>8 DEF OnlyAt
<1>11. AskInChan(o, t, m)'
  <2>1. OnlyRequest(chan[o][t], m)' /\ reading[t][o]' = None /\ m.lock = lockType[o][t]'
    BY <1>7, <1>8
  <2>2. NeverHad(o, t)'
    BY <1>8, <1>9 DEF KeepsLocks
  <2>3. Stage(o, t, stage)' /\ (Unlocks(o, t)' <=> unlock) /\ (call[o].isLocal' <=> isLocal)
    BY <1>5 DEF Stage, Waits, Unlocks
  <2>4. CASE m.type = "LOCK"
    BY <1>10, <2>1, <2>2, <2>3, <2>4 DEF AskInChan, AsksFor
  <2>5. CASE m.type # "LOCK"
    BY <1>10, <2>1, <2>2, <2>3, <2>5 DEF AskInChan, Uses, Undone
  <2> QED
    BY <2>4, <2>5
<1>12. InChan(o, t)'
  <2>1. NotQueued(o, t)' /\ NotEnding(o, t)' /\ NotAnswered(o, t)'
    BY <1>2, <1>7, <1>8, TargetsKept DEF AtRest, NotAnswered
  <2>2. m.k = K(o, t)' /\ m \in Elements(chan[o][t])'
    BY <1>7, <1>8, Members DEF K
  <2> QED
    BY <1>11, <2>1, <2>2 DEF InChan
<1>13. Linked(o, t)'
  <2>1. /\ Waits(o, t)' /\ call[o].isLocal' = isLocal /\ Unlocks(o, t)' = unlock
    BY <1>5 DEF Waits, Unlocks
  <2> QED
    BY <1>1, <1>7, <2>1 DEF PairInv, Linked
<1>14. PairInv(o, t)'
  BY <1>9, <1>12, <1>13 DEF PairInv, InOnePlace
<1> QED
  BY <1>5, <1>7, <1>10, <1>14, CallAlone DEF OnlyAt

LEMMA InvUnlockSingleOp ==
  ASSUME Typed, Inv, NEW o \in Proc, NEW t \in Proc, UnlockSingleOp(o, t)
  PROVE  Inv'
<1>1. rma_ops_list[o][t] \in Seq(Ops) /\ lockType[o][t] \in Types /\ epochs[o][t] \in Nat
  BY DEF Typed, Ops
<1>2. rma_ops_list[o][t] # <<>>
  BY <1>1, EmptySeq DEF UnlockSingleOp, SingleOp
<1>3. PICK op \in Ops : op = Head(rma_ops_list[o][t])
  BY <1>1, <1>2, FirstTaken
<1>4. PICK type \in {"LOCK_PUT_UNLOCK", "LOCK_ACCUM_UNLOCK"} :
        Send(o, t, Packet(type, lockType[o][t], op.n, epochs[o][t], TRUE, TRUE))
  BY <1>3 DEF UnlockSingleOp
<1>5. PICK m : m = Packet(type, lockType[o][t], op.n, epochs[o][t], TRUE, TRUE)
  OBVIOUS
<1>6. op.n \in Nat /\ op.n # 0
  BY DEF Ops
<1>7. m \in Packets
  BY <1>1, <1>5, <1>6, Made, Constants
<1>8. /\ m.type = type /\ m.lock = lockType[o][t] /\ m.n # 0 /\ m.last /\ m.unlock
      /\ m.k = epochs[o][t]
  BY <1>5, <1>6 DEF Packet
<1>9. /\ Idle(o) /\ remote_lock_state[o][t] = "LOCK_REQUESTED" /\ Send(o, t, m)
      /\ Wait(o, t, "done", TRUE, FALSE)
      /\ remote_lock_state' = [remote_lock_state EXCEPT ![o][t] = lockType[o][t]]
      /\ remote_ops_done' = [remote_ops_done EXCEPT ![o][t] = 0]
      /\ UnchangedAtTargets /\ reading' = reading /\ sending' = sending /\ plan' = plan
      /\ rma_ops_list' = rma_ops_list /\ gets' = gets /\ lockType' = lockType /\ epochs' = epochs
  BY <1>4, <1>5 DEF UnlockSingleOp, SingleOp
<1> QED
  BY <1>2, <1>7, <1>8, <1>9, AskSent, Constants

LEMMA InvFlushUnlocked ==
  ASSUME Typed, Inv, NEW o \in Proc, NEW t \in Proc, NEW unlock \in BOOLEAN, NEW isLocal \in BOOLEAN,
         isLocal => "flush_local" \in plan.flushes /\ ~unlock,
         FlushUnlocked(o, t, unlock, isLocal)
  PROVE  Inv'
<1>1. lockType[o][t] \in Types /\ epochs[o][t] \in Nat
  BY DEF Typed
<1>2. PICK m : m = LockPacket("LOCK", lockType[o][t], epochs[o][t])
  OBVIOUS
<1>3. m \in Packets
  BY <1>1, <1>2, Made, Constants
<1>4. m.type = "LOCK" /\ m.lock = lockType[o][t] /\ m.n = 0 /\ m.k = epochs[o][t]
  BY <1>2 DEF Packet, LockPacket
<1>5. /\ Idle(o) /\ remote_lock_state[o][t] = "LOCK_REQUESTED" /\ Send(o, t, m)
      /\ rma_ops_list[o][t] # <<>> /\ Wait(o, t, "grant", unlock, isLocal)
      /\ remote_lock_state' = remote_lock_state /\ remote_ops_done' = remote_ops_done
      /\ UnchangedAtTargets /\ reading' = reading /\ sending' = sending /\ plan' = plan
      /\ rma_ops_list' = rma_ops_list /\ gets' = gets /\ lockType' = lockType /\ epochs' = epochs
  BY <1>2 DEF FlushUnlocked
<1> QED
  BY <1>3, <1>4, <1>5, AskSent

(* The packets of Issue, for the channel and the count of gets. *)
LEMMA PacketsIssued ==
  ASSUME Typed, NEW o \in Proc, NEW t \in Proc, o # t, PairInv(o, t), NoFinal(chan[o][t]),
         NEW unlock \in BOOLEAN, NEW isLocal \in BOOLEAN,
         rma_ops_list[o][t] # <<>>, Issue(o, t, unlock, isLocal)
  PROVE  /\ \A a, b \in Proc : a # o \/ b # t => SameChan(a, b)
         /\ chan'[t][o] = chan[t][o] /\ LastUnlocks(chan'[o][t])
         /\ gets'[o][t] = NumberOf(chan'[o][t], "GET") + NumberOf(chan'[t][o], "RMA_RESP")
         /\ OnlyAt(gets, gets', o, t) /\ OnlyAt(remote_ops_done, remote_ops_done', o, t)
         /\ \E m : /\ m.type \in {"GET", "PUT"} /\ m.last /\ m.unlock = unlock /\ m.k = K(o, t)
                   /\ remote_ops_done'[o][t] = IF m.type = "GET" THEN 1 ELSE 0
                   /\ m.type = "PUT" =>
                        \E i \in 1 .. Len(rma_ops_list[o][t]) : rma_ops_list[o][t][i].kind # "get"
                   /\ IF m.type = "PUT" \/ unlock THEN LastFinal(chan'[o][t], m)
                      ELSE NoFinal(chan'[o][t])
<1>1. /\ rma_ops_list[o][t] \in Seq(Ops) /\ epochs[o][t] \in Nat
      /\ chan[o][t] \in Seq(Packets) /\ chan[t][o] \in Seq(Packets)
      /\ gets \in [Proc -> [Proc -> Int]] /\ remote_ops_done \in [Proc -> [Proc -> {0, 1}]]
  BY DEF Typed, Ops
<1> DEFINE ops == Reordered(rma_ops_list[o][t])
           packets == PacketsOf(ops, epochs[o][t], unlock)
           r == chan[o][t] \o packets
           m == packets[Len(packets)]
<1>2. /\ ChanSet(o, t, r)
      /\ gets' = [gets EXCEPT ![o][t] = gets[o][t] + Cardinality({i \in DOMAIN ops : ops[i].kind \in {"get"}})]
      /\ remote_ops_done' =
           [remote_ops_done EXCEPT ![o][t] = IF ops[Len(ops)].kind = "get" THEN 1 ELSE 0]
  BY DEF Issue, ChanSet
<1>3. /\ ops \in Seq(Ops) /\ ops # <<>>
      /\ Len(ops) = Len(rma_ops_list[o][t])
      /\ \A i \in 1 .. Len(ops) :
           \E j \in 1 .. Len(rma_ops_list[o][t]) : ops[i] = rma_ops_list[o][t][j]
  <2>1. /\ ops \in Seq(Ops) /\ Len(ops) = Len(rma_ops_list[o][t])
        /\ \A i \in 1 .. Len(ops) :
             \E j \in 1 .. Len(rma_ops_list[o][t]) : ops[i] = rma_ops_list[o][t][j]
    <3>1. ops \in Seq(Ops)
      BY <1>1, ReorderedOps
    <3>2. Len(ops) = Len(rma_ops_list[o][t])
      BY <1>1, ReorderedOps
    <3>3. \A i \in 1 .. Len(rma_ops_list[o][t]) :
            \E j \in 1 .. Len(rma_ops_list[o][t]) : ops[i] = rma_ops_list[o][t][j]
      BY <1>1, ReorderedOps
    <3> QED
      BY <3>1, <3>2, <3>3
  <2>2. Len(ops) # 0
    BY <1>1, <2>1, EmptySeq
  <2> QED
    BY <2>1, <2>2, EmptySeq
<1> HIDE DEF ops
<1>5. /\ packets \in Seq(Packets)
      /\ Len(packets) = Len(ops) /\ Len(ops) \in Nat \ {0}
      /\ \A i \in 1 .. Len(packets) :
           /\ packets[i].type = IF ops[i].kind = "get" THEN "GET" ELSE "PUT"
           /\ packets[i].last <=> i = Len(ops)
           /\ packets[i].unlock <=> (i = Len(ops) /\ unlock)
           /\ packets[i].k = epochs[o][t]
  <2>1. ops \in Seq(Ops) /\ ops # <<>> /\ epochs[o][t] \in Nat
    BY <1>1, <1>3
  <2> QED
    BY <2>1, Issued
<1> HIDE DEF packets
<1>8. /\ r \in Seq(Packets)
      /\ LastUnlocks(r)
      /\ IF packets[Len(packets)].type = "PUT" \/ unlock THEN LastFinal(r, packets[Len(packets)])
         ELSE NoFinal(r)
  <2>1. LastUnlocks(chan[o][t])
    BY DEF PairInv, Linked
  <2>2. \A i \in 1 .. Len(packets) :
          /\ packets[i].type \in {"GET", "PUT"}
          /\ packets[i].last <=> i = Len(packets)
          /\ packets[i].unlock <=> (i = Len(packets) /\ unlock)
    BY <1>5
  <2>3. Len(packets) \in Nat \ {0}
    BY <1>5
  <2> QED
    BY <1>1, <1>5, <2>1, <2>2, <2>3, IssuedJoined
<1>9. SameAnswers(chan[o][t], r)
  <2>1. \A i \in 1 .. Len(packets) : packets[i].type \in Requests
    BY <1>5 DEF Requests
  <2> QED
    BY <1>1, <1>5, <2>1, RequestsJoined
<1>7. NumberOf(r, "GET") = NumberOf(chan[o][t], "GET") + NumberOf(packets, "GET")
  BY <1>1, <1>5, NumberJoined
<1> HIDE DEF r
<1>10. /\ \A a, b \in Proc : a # o \/ b # t => SameChan(a, b)
       /\ chan'[o][t] = r /\ chan'[t][o] = chan[t][o]
  BY <1>1, <1>2, <1>8, <1>9, ChanRequest
<1>11. gets'[o][t] = NumberOf(r, "GET") + NumberOf(chan[t][o], "RMA_RESP")
  <2>2. {i \in DOMAIN ops : ops[i].kind \in {"get"}} = Places(packets, "GET")
    <3>1. DOMAIN ops = 1 .. Len(packets)
      BY <1>3, <1>5
    <3> QED
      BY <1>5, <3>1 DEF Places
  <2>3. gets'[o][t] = gets[o][t] + NumberOf(packets, "GET")
    BY <1>1, <1>2, <2>2 DEF NumberOf
  <2>4. gets[o][t] = NumberOf(chan[o][t], "GET") + NumberOf(chan[t][o], "RMA_RESP")
    BY DEF PairInv, Linked
  <2>5. /\ NumberOf(chan[o][t], "GET") \in Nat /\ NumberOf(packets, "GET") \in Nat
        /\ NumberOf(chan[t][o], "RMA_RESP") \in Nat
    BY <1>1, <1>5, PlacesFinite
  <2> QED
    BY <1>7, <2>3, <2>4, <2>5
<1>12. OnlyAt(gets, gets', o, t) /\ OnlyAt(remote_ops_done, remote_ops_done', o, t)
  BY <1>1, <1>2 DEF OnlyAt
<1>13. m = packets[Len(packets)]
  OBVIOUS
<1> HIDE DEF m
<1>14. /\ m.type = (IF ops[Len(ops)].kind = "get" THEN "GET" ELSE "PUT")
       /\ m.last /\ m.unlock = unlock /\ m.k = epochs[o][t]
       /\ Len(ops) \in 1 .. Len(ops)
  <2>1. Len(ops) \in 1 .. Len(packets) /\ Len(ops) = Len(packets)
    BY <1>5
  <2>2. m \in Packets
    BY <1>5, <1>13, <2>1
  <2>3. m.unlock \in BOOLEAN
    BY <2>2 DEF Packets
  <2>4. m.unlock <=> unlock
    BY <1>5, <1>13, <2>1
  <2>5. m.unlock = unlock
    BY <2>3, <2>4
  <2> QED
    BY <1>5, <1>13, <2>1, <2>5
<1>15. remote_ops_done'[o][t] = IF m.type = "GET" THEN 1 ELSE 0
  BY <1>1, <1>2, <1>14
<1>16. m.type = "PUT" =>
         \E i \in 1 .. Len(rma_ops_list[o][t]) : rma_ops_list[o][t][i].kind # "get"
  BY <1>3, <1>14
<1>17. m.type \in {"GET", "PUT"}
  BY <1>14
<1> QED
  BY <1>8, <1>10, <1>11, <1>12, <1>13, <1>14, <1>15, <1>16, <1>17 DEF K

LEMMA InvIssue ==
  ASSUME Typed, Inv, NEW o \in Proc, NEW t \in Proc, AtRest(o, t),
         call[o] = None \/ call[o].t = t,
         remote_lock_state[o][t] \in Types, rma_ops_list[o][t] # <<>>,
         NEW unlock \in BOOLEAN, NEW isLocal \in BOOLEAN,
         isLocal => "flush_local" \in plan.flushes /\ ~unlock,
         Issue(o, t, unlock, isLocal), UnchangedAtTargets,
         reading' = reading, sending' = sending, plan' = plan, rma_ops_list' = rma_ops_list,
         remote_lock_state' = remote_lock_state, lockType' = lockType, epochs' = epochs
  PROVE  Inv'
<1>1. PairInv(o, t) /\ o # t
  <2>1. PairInv(o, t)
    BY DEF Inv, PairInv
  <2> QED
    BY <2>1 DEF PairInv, Linked
<1>2. lockType[o][t] \in Types
  BY DEF Typed
<1>3. /\ remote_lock_state[o][t] = lockType[o][t] /\ ReadsPart(o, t) /\ Has(o, t)
      /\ NoFinal(chan[o][t]) /\ NotAnswered(o, t)
  BY <1>2 DEF AtRest, Types, NotInChan
<1>4. CallAt(o, t) /\ call'[o] # None
      /\ call'[o] = [stage |-> "done", t |-> t, unlock |-> unlock, isLocal |-> isLocal]
  <2>1. Wait(o, t, "done", unlock, isLocal)
    BY DEF Issue
  <2> QED
    BY <2>1, Waiting
<1>5. /\ \A a, b \in Proc : a # o \/ b # t => SameChan(a, b)
      /\ chan'[t][o] = chan[t][o] /\ LastUnlocks(chan'[o][t])
      /\ gets'[o][t] = NumberOf(chan'[o][t], "GET") + NumberOf(chan'[t][o], "RMA_RESP")
      /\ OnlyAt(gets, gets', o, t) /\ OnlyAt(remote_ops_done, remote_ops_done', o, t)
  BY <1>1, <1>3, PacketsIssued
<1>6. PICK m :
        /\ m.type \in {"GET", "PUT"} /\ m.last /\ m.unlock = unlock /\ m.k = K(o, t)
        /\ remote_ops_done'[o][t] = IF m.type = "GET" THEN 1 ELSE 0
        /\ m.type = "PUT" =>
             \E i \in 1 .. Len(rma_ops_list[o][t]) : rma_ops_list[o][t][i].kind # "get"
        /\ IF m.type = "PUT" \/ unlock THEN LastFinal(chan'[o][t], m) ELSE NoFinal(chan'[o][t])
  BY <1>1, <1>3, PacketsIssued
<1>7. m.type = "PUT" => ~isLocal
  BY <1>1, <1>6 DEF PairInv, Linked
<1>8. KeepsLocks(o, t) /\ OldLocks(o, t)'
  BY <1>1, StillPair DEF PairInv, UnchangedAtTargets, target
<1>9. /\ NotQueued(o, t)' /\ NotEnding(o, t)' /\ NotAnswered(o, t)' /\ ReadsPart(o, t)'
      /\ Has(o, t)' /\ K(o, t)' = K(o, t)
      /\ Uses(o, t, "done")' /\ Unlocks(o, t)' = unlock /\ (call[o].isLocal' <=> isLocal)
      /\ remote_lock_state[o][t]' = lockType[o][t]'
  <2>1. NotQueued(o, t)' /\ NotEnding(o, t)' /\ ReadsPart(o, t)'
    BY <1>3, TargetsKept DEF AtRest
  <2>2. NotAnswered(o, t)'
    BY <1>3, <1>5 DEF NotAnswered
  <2>3. Has(o, t)' /\ K(o, t)' = K(o, t)
    BY <1>3, <1>8 DEF KeepsLocks, K
  <2>4. Uses(o, t, "done")' /\ Unlocks(o, t)' = unlock /\ (call[o].isLocal' <=> isLocal)
    BY <1>3, <1>4 DEF Uses, Stage, Waits, Unlocks
  <2> QED
    BY <1>3, <2>1, <2>2, <2>3, <2>4
<1>10. InOnePlace(o, t)'
  <2>1. CASE m.type = "PUT" \/ unlock
    <3>1. LastFinal(chan[o][t], m)' /\ m.k = K(o, t)'
      BY <1>6, <1>9, <2>1
    <3>2. EndInChan(o, t, m)'
      <4>1. CASE m.type = "PUT"
        <5>1. Undone(o, t)'
          BY <1>6, <1>7, <1>9, <4>1 DEF Undone
        <5> QED
          BY <1>6, <1>9, <3>1, <4>1, <5>1 DEF EndInChan
      <4>2. CASE m.type = "GET" /\ unlock
        BY <1>6, <1>9, <3>1, <4>2 DEF EndInChan
      <4> QED
        BY <1>6, <2>1, <4>1, <4>2
    <3> QED
      BY <1>9, <3>1, <3>2, Members DEF InOnePlace, InChan
  <2>2. CASE m.type = "GET" /\ ~unlock
    <3>1. NotInChan(o, t)' /\ remote_ops_done[o][t]' = 1
      BY <1>6, <2>2 DEF NotInChan
    <3>2. call[o].stage' = "done" /\ ~Unlocks(o, t)'
      BY <1>4, <1>9, <2>2
    <3> QED
      BY <1>9, <3>1, <3>2 DEF InOnePlace, AtRest
  <2> QED
    BY <1>6, <2>1, <2>2
<1>11. Linked(o, t)'
  <2>1. Waits(o, t)' /\ ~Stage(o, t, "grant")'
    BY <1>4 DEF Waits, Stage
  <2> QED
    BY <1>1, <1>5, <1>9, <2>1 DEF PairInv, Linked
<1>12. PairInv(o, t)'
  BY <1>8, <1>10, <1>11 DEF PairInv
<1> QED
  BY <1>4, <1>5, <1>12, CallAlone DEF OnlyAt

LEMMA InvFlushLocked ==
  ASSUME Typed, Inv, NEW o \in Proc, NEW t \in Proc, NEW unlock \in BOOLEAN, NEW isLocal \in BOOLEAN,
         isLocal => "flush_local" \in plan.flushes /\ ~unlock,
         FlushLocked(o, t, unlock, isLocal)
  PROVE  Inv'
<1>1. PairInv(o, t) /\ ~Waits(o, t) /\ call[o] = None
  BY DEF Inv, PairInv, FlushLocked, Idle, Waits
<1>2. AtRest(o, t)
  BY <1>1, Resting DEF PairInv
<1> QED
  BY <1>1, <1>2, InvIssue DEF FlushLocked

LEMMA InvGranted ==
  ASSUME Typed, Inv, NEW o \in Proc, Granted(o)
  PROVE  Inv' /\ rma_ops_list[o][call[o].t] # <<>>
<1>0. PICK t \in Proc : t = call[o].t
  BY DEF Granted, Typed, Calls
<1>1. PairInv(o, t) /\ Stage(o, t, "grant") /\ remote_lock_state[o][t] # "LOCK_REQUESTED"
  BY <1>0 DEF Inv, PairInv, Granted, Stage, Waits
<1>2. call[o].unlock \in BOOLEAN /\ call[o].isLocal \in BOOLEAN /\ lockType[o][t] \in Types
  BY DEF Granted, Typed, Calls
<1>3. AtRest(o, t)
  BY <1>1 DEF PairInv, InOnePlace, InChan, AskInChan, EndInChan, InQueue, BeingRead, Ending,
     Answered, AsksFor, Uses, Stage
<1>4. remote_lock_state[o][t] \in Types
  BY <1>1, <1>2, <1>3 DEF AtRest, Stage
<1>5. rma_ops_list[o][t] # <<>>
  BY <1>1 DEF PairInv, Linked
<1>6. call[o].isLocal => "flush_local" \in plan.flushes /\ ~call[o].unlock
  BY <1>1 DEF PairInv, Linked, Stage, Unlocks
<1>7. /\ Issue(o, t, call[o].unlock, call[o].isLocal) /\ UnchangedAtTargets
      /\ reading' = reading /\ sending' = sending /\ plan' = plan /\ rma_ops_list' = rma_ops_list
      /\ remote_lock_state' = remote_lock_state /\ lockType' = lockType /\ epochs' = epochs
  BY <1>0 DEF Granted
<1>8. Inv'
  BY <1>0, <1>2, <1>3, <1>4, <1>5, <1>6, <1>7, InvIssue
<1> QED
  BY <1>0, <1>5, <1>8

-----------------------------------------------------------------------------
(* What targets do.  Origins do not change. *)
LEMMA ServeAlone ==
  ASSUME Inv, NEW o \in Proc, NEW t \in Proc, UNCHANGED origin, plan' = plan,
         \A a, b \in Proc : a # o \/ b # t => SameChan(a, b),
         \A a, b \in Proc : a # o \/ b # t => SameLocks(a, b),
         \A a, b \in Proc : a # o \/ b # t => KeepsQueue(lock_queue[b], lock_queue'[b], a),
         \A a, b \in Proc : a # o \/ b # t => reading'[b][a] = reading[b][a],
         \A a, b \in Proc : a # o \/ b # t => (unlockDone'[b] = a <=> unlockDone[b] = a),
         PairInv(o, t)', \A p \in Proc : TargetInv(p)'
  PROVE  Inv'
<1>1. ASSUME NEW a \in Proc, NEW b \in Proc, a # o \/ b # t PROVE Same(a, b)
  <2>1. SameOrigin(a, b) /\ SameLists(a, b)
    BY StillOrigin
  <2> QED
    BY <1>1, <2>1 DEF Same, SameTarget
<1> QED
  BY <1>1, Whole DEF SameOthers

LEMMA LinksCounted ==
  ASSUME NEW o \in Proc, NEW t \in Proc, o # t, UNCHANGED origin, plan' = plan, Linked(o, t),
         LastUnlocks(chan'[o][t]),
         NumberOf(chan'[o][t], "GET") + NumberOf(chan'[t][o], "RMA_RESP")
           = NumberOf(chan[o][t], "GET") + NumberOf(chan[t][o], "RMA_RESP")
  PROVE  Linked(o, t)'
BY DEF Linked, Waits, Stage, Unlocks, origin

LEMMA RequestReceived ==
  ASSUME Typed, NEW o \in Proc, NEW t \in Proc, o # t, PairInv(o, t), UNCHANGED origin, plan' = plan,
         chan[o][t] # <<>>, Head(chan[o][t]).type \in Requests \ {"GET"}, Receive(o, t)
  PROVE  /\ \A a, b \in Proc : a # o \/ b # t => SameChan(a, b)
         /\ chan'[o][t] = Tail(chan[o][t]) /\ chan'[t][o] = chan[t][o]
         /\ Linked(o, t)'
<1> DEFINE s == chan[o][t]
           r == Tail(s)
<1>1. s \in Seq(Packets)
  BY DEF Typed
<1>2. r \in Seq(Packets)
  BY <1>1, FirstTaken
<1>3. SameAnswers(s, r)
  BY <1>1, RequestTaken
<1>4. LastUnlocks(r)
  BY <1>1, FrontRequest DEF PairInv, Linked
<1>5. NumberOf(r, "GET") = NumberOf(s, "GET")
  <2>1. NumberOf(r, "GET") = NumberOf(s, "GET") - 0
    BY <1>1, NumberTaken
  <2>2. NumberOf(s, "GET") \in Nat
    BY <1>1, PlacesFinite
  <2> QED
    BY <2>1, <2>2
<1>6. ChanSet(o, t, r)
  BY DEF Receive, ChanSet
<1> HIDE DEF r
<1>7. /\ \A a, b \in Proc : a # o \/ b # t => SameChan(a, b)
      /\ chan'[o][t] = r /\ chan'[t][o] = chan[t][o]
  BY <1>2, <1>3, <1>6, ChanRequest
<1>8. Linked(o, t)'
  BY <1>4, <1>5, <1>7, LinksCounted DEF PairInv
<1> QED
  BY <1>7, <1>8 DEF r

LEMMA RequestAnswered ==
  ASSUME Typed, NEW o \in Proc, NEW t \in Proc, o # t, PairInv(o, t), UNCHANGED origin, plan' = plan,
         chan[o][t] # <<>>, Head(chan[o][t]).type \in Requests,
         NEW m \in Packets, m.type \notin Requests,
         m.type = "RMA_RESP" <=> Head(chan[o][t]).type = "GET",
         Answer(o, t, m)
  PROVE  /\ \A a, b \in Proc : a # o \/ b # t => SameChan(a, b)
         /\ chan'[o][t] = Tail(chan[o][t]) /\ chan'[t][o] = Append(chan[t][o], m)
         /\ Linked(o, t)'
<1> DEFINE s == chan[o][t]
           r == Tail(s)
           u == chan[t][o]
           v == Append(u, m)
<1>1. s \in Seq(Packets) /\ u \in Seq(Packets)
  BY DEF Typed
<1>2. r \in Seq(Packets) /\ v \in Seq(Packets)
  BY <1>1, FirstTaken, Appended
<1>3. SameAnswers(s, r) /\ SameRequests(u, v)
  BY <1>1, RequestTaken, AnswerAppended
<1>4. LastUnlocks(r)
  BY <1>1, FrontRequest DEF PairInv, Linked
<1>5. NumberOf(r, "GET") + NumberOf(v, "RMA_RESP") = NumberOf(s, "GET") + NumberOf(u, "RMA_RESP")
  <2>1. NumberOf(r, "GET") = NumberOf(s, "GET") - (IF Head(s).type = "GET" THEN 1 ELSE 0)
    BY <1>1, NumberTaken
  <2>2. NumberOf(v, "RMA_RESP") = NumberOf(u, "RMA_RESP") + (IF m.type = "RMA_RESP" THEN 1 ELSE 0)
    BY <1>1, NumberAppended
  <2>3. NumberOf(s, "GET") \in Nat /\ NumberOf(u, "RMA_RESP") \in Nat
    BY <1>1, PlacesFinite
  <2> QED
    BY <2>1, <2>2, <2>3
<1>6. ChansSet(o, t, r, v)
  <2>1. [chan EXCEPT ![o][t] = r][t][o] = u
    BY <1>1 DEF Typed
  <2> QED
    BY <2>1 DEF Answer, ChansSet
<1> HIDE DEF r, v
<1>7. /\ \A a, b \in Proc : a # o \/ b # t => SameChan(a, b)
      /\ chan'[o][t] = r /\ chan'[t][o] = v
  BY <1>2, <1>3, <1>6, ChanBoth
<1>8. Linked(o, t)'
  BY <1>4, <1>5, <1>7, LinksCounted DEF PairInv
<1> QED
  BY <1>7, <1>8 DEF r, v

LEMMA AnswerSent ==
  ASSUME Typed, NEW o \in Proc, NEW t \in Proc, o # t, PairInv(o, t), UNCHANGED origin, plan' = plan,
         NEW m \in Packets, m.type \notin Requests, m.type # "RMA_RESP", Send(t, o, m)
  PROVE  /\ \A a, b \in Proc : a # o \/ b # t => SameChan(a, b)
         /\ chan'[o][t] = chan[o][t] /\ chan'[t][o] = Append(chan[t][o], m)
         /\ Linked(o, t)'
<1> DEFINE u == chan[t][o]
           v == Append(u, m)
<1>1. u \in Seq(Packets)
  BY DEF Typed
<1>2. v \in Seq(Packets) /\ SameRequests(u, v)
  BY <1>1, Appended, AnswerAppended
<1>3. NumberOf(v, "RMA_RESP") = NumberOf(u, "RMA_RESP")
  <2>1. NumberOf(v, "RMA_RESP") = NumberOf(u, "RMA_RESP") + 0
    BY <1>1, NumberAppended
  <2>2. NumberOf(u, "RMA_RESP") \in Nat
    BY <1>1, PlacesFinite
  <2> QED
    BY <2>1, <2>2
<1>4. ChanSet(t, o, v)
  BY DEF Send, ChanSet
<1> HIDE DEF v
<1>5. /\ \A a, b \in Proc : a # o \/ b # t => SameChan(a, b)
      /\ chan'[o][t] = chan[o][t] /\ chan'[t][o] = v
  BY <1>2, <1>4, ChanAnswer
<1>6. Linked(o, t)'
  BY <1>3, <1>5, LinksCounted DEF PairInv, Linked
<1> QED
  BY <1>5, <1>6 DEF v

LEMMA TargetsStill ==
  ASSUME Inv, UNCHANGED <<lock_state, shared_lock_ref_cnt, held, release, unlockDone>>
  PROVE  \A p \in Proc : TargetInv(p)'
BY DEF Inv, TargetInv, LockInv

LEMMA PlacesStill ==
  ASSUME NEW o \in Proc, NEW t \in Proc, UNCHANGED origin, Elsewhere(o, t)
  PROVE  /\ lock_queue' = lock_queue => NotQueued(o, t)'
         /\ unlockDone' = unlockDone => NotEnding(o, t)'
         /\ chan'[t][o] = chan[t][o] => NotAnswered(o, t)'
         /\ K(o, t)' = K(o, t) /\ lockType'[o][t] = lockType[o][t]
         /\ remote_ops_done'[o][t] = remote_ops_done[o][t]
         /\ \A stage : Stage(o, t, stage)' <=> Stage(o, t, stage)
         /\ AsksFor(o, t)' <=> AsksFor(o, t)
         /\ \A stage : Uses(o, t, stage)' <=> Uses(o, t, stage)
         /\ Unlocks(o, t)' = Unlocks(o, t) /\ (Undone(o, t)' <=> Undone(o, t))
BY DEF Elsewhere, NotQueued, NotEnding, NotAnswered, K, Stage, Waits, AsksFor, Uses, Unlocks, Undone,
       origin

LEMMA ReadingAt ==
  ASSUME Typed, NEW o \in Proc, NEW t \in Proc, chan[o][t] # <<>>, NEW m, m = Head(chan[o][t])
  PROVE  /\ m \in Packets /\ m # None
         /\ StartReading(t, o) => /\ reading'[t][o] = m
                                  /\ \A a, b \in Proc : a # o \/ b # t => reading'[b][a] = reading[b][a]
<1>1. chan[o][t] \in Seq(Packets) /\ reading \in [Proc -> [Proc -> Packets \cup {None}]]
  BY DEF Typed
<1>2. m \in Packets
  BY <1>1, FirstTaken
<1> QED
  BY <1>1, <1>2, NoneAssumption DEF StartReading

(* A request that cannot have the lock, or is an accumulate, is queued. *)
LEMMA Enqueued ==
  ASSUME Typed, Inv, NEW o \in Proc, NEW t \in Proc, o # t, UNCHANGED origin,
         NEW m \in Packets, AskInChan(o, t, m), m.k = K(o, t), Elsewhere(o, t),
         NoRequest(chan'[o][t]), chan'[t][o] = chan[t][o], Enqueue(t, o, m),
         IF m.type = "LOCK" THEN reading'[t][o] = None ELSE reading'[t][o] # None,
         UNCHANGED <<lock_state, shared_lock_ref_cnt, held, release, unlockDone, sending>>
  PROVE  /\ \A a, b \in Proc : a # o \/ b # t => KeepsQueue(lock_queue[b], lock_queue'[b], a)
         /\ \A a, b \in Proc : SameLocks(a, b)
         /\ InOnePlace(o, t)' /\ OldLocks(o, t)'
         /\ \A p \in Proc : TargetInv(p)'
<1>1. NotQueued(o, t)
  BY DEF Elsewhere
<1>2. /\ \A a, b \in Proc : a # o \/ b # t => KeepsQueue(lock_queue[b], lock_queue'[b], a)
      /\ \E e : /\ Queued(o, t, e)' /\ e \in Elements(lock_queue'[t])
                /\ e.type = m.lock /\ e.op = m.n /\ e.k = m.k /\ e.data_recd = FALSE
  BY <1>1, EnqueueParts
<1>3. PICK e : /\ Queued(o, t, e)' /\ e \in Elements(lock_queue'[t])
               /\ e.type = m.lock /\ e.op = m.n /\ e.k = m.k /\ e.data_recd = FALSE
  BY <1>2
<1>4. lockType'[o][t] = lockType[o][t] /\ epochs'[o][t] = epochs[o][t]
  BY DEF origin
<1>5. KeepsLocks(o, t) /\ OldLocks(o, t)'
  BY <1>4, StillPair DEF Inv
<1>6. NeverHad(o, t)'
  BY <1>5 DEF KeepsLocks, AskInChan
<1>7. InQueue(o, t)'
  <2>1. /\ NotEnding(o, t)' /\ NotAnswered(o, t)' /\ K(o, t)' = K(o, t)
        /\ remote_ops_done'[o][t] = remote_ops_done[o][t]
        /\ AsksFor(o, t)' <=> AsksFor(o, t)
        /\ Uses(o, t, "done")' <=> Uses(o, t, "done")
        /\ Unlocks(o, t)' = Unlocks(o, t) /\ (Undone(o, t)' <=> Undone(o, t))
    BY PlacesStill
  <2>2. e.k = K(o, t)' /\ e.type = lockType'[o][t] /\ Queued(o, t, e)' /\ e \in Elements(lock_queue'[t])
    BY <1>3, <1>4, <2>1 DEF AskInChan
  <2>3. CASE m.type = "LOCK"
    <3>1. e.op = 0 /\ AsksFor(o, t)' /\ reading[t][o]' = None /\ remote_ops_done'[o][t] = 1
      BY <1>3, <2>1, <2>3 DEF AskInChan
    <3> QED
      BY <1>6, <2>1, <2>2, <3>1 DEF InQueue
  <2>4. CASE m.type # "LOCK"
    <3>1. /\ e.op # 0 /\ Uses(o, t, "done")' /\ Unlocks(o, t)' /\ Undone(o, t)'
          /\ e.data_recd <=> reading[t][o]' = None
      BY <1>3, <2>1, <2>4 DEF AskInChan
    <3> QED
      BY <1>6, <2>1, <2>2, <3>1 DEF InQueue
  <2> QED
    BY <2>3, <2>4
<1> QED
  BY <1>2, <1>5, <1>7, StillLocks, TargetsStill DEF InOnePlace

LEMMA AnsweredWith ==
  ASSUME Typed, NEW o \in Proc, NEW t \in Proc, NotAnswered(o, t), NEW a \in Packets, FinalAnswer(a),
         chan'[t][o] = Append(chan[t][o], a)
  PROVE  OneAnswer(chan'[t][o], a) /\ a \in Elements(chan'[t][o])
<1>1. chan[t][o] \in Seq(Packets)
  BY DEF Typed
<1>2. OneAnswer(Append(chan[t][o], a), a)
  BY <1>1, FinalAnswerAppended DEF NotAnswered
<1> QED
  BY <1>2, Members

LEMMA InvHandleLock ==
  ASSUME Typed, Inv, NEW t \in Proc, NEW o \in Proc, o # t, HandleLock(t, o)
  PROVE  Inv'
<1>0. PICK m : m = Head(chan[o][t])
  OBVIOUS
<1>1. /\ chan[o][t] # <<>> /\ m.type = "LOCK" /\ PairInv(o, t)
      /\ UNCHANGED <<plan, unlockDone, reading, sending>> /\ UNCHANGED origin
  BY <1>0 DEF HandleLock, First, Inv, PairInv
<1>2. m.type \in Asks /\ m.type \in Requests \ {"GET"}
  BY <1>1 DEF Asks, Requests
<1>3. /\ Elsewhere(o, t) /\ AskInChan(o, t, m) /\ m.k = K(o, t)
      /\ NoRequest(Tail(chan[o][t])) /\ m \in Packets
  BY <1>0, <1>1, <1>2, HeadAsks, ReadingAt
<1>4. /\ m.lock = lockType[o][t] /\ NeverHad(o, t) /\ AsksFor(o, t) /\ remote_ops_done[o][t] = 1
      /\ reading[t][o] = None /\ m.lock \in Types /\ m.k \in Nat
  BY <1>1, <1>3 DEF AskInChan, Packets
<1>5. CASE Acquire(o, t, m.lock, m.k) /\ Answer(o, t, LockPacket("LOCK_GRANTED", m.lock, m.k))
           /\ UNCHANGED <<lock_queue, release>>
  <2>0. PICK a : a = LockPacket("LOCK_GRANTED", m.lock, m.k)
    OBVIOUS
  <2>1. a \in Packets
    BY <1>4, <2>0, Made, Constants
  <2>2. a.type = "LOCK_GRANTED" /\ a.lock = lockType[o][t] /\ FinalAnswer(a) /\ a.type \notin Requests
    BY <1>4, <2>0 DEF LockPacket, Packet, FinalAnswer, Requests
  <2>3. /\ \A p \in Proc : TargetInv(p)'
        /\ Has(o, t)' /\ OldLocks(o, t)'
        /\ \A x, y \in Proc : x # o \/ y # t => SameLocks(x, y)
    <3>1. lockType' = lockType /\ epochs' = epochs
      BY <1>1 DEF origin
    <3> QED
      BY <1>1, <1>3, <1>4, <1>5, <3>1, Acquired
  <2>4. /\ \A x, y \in Proc : x # o \/ y # t => SameChan(x, y)
        /\ chan'[o][t] = Tail(chan[o][t]) /\ chan'[t][o] = Append(chan[t][o], a)
        /\ Linked(o, t)'
    BY <1>0, <1>1, <1>2, <1>5, <2>0, <2>1, <2>2, RequestAnswered
  <2>5. Answered(o, t)'
    <3>1. NotQueued(o, t)' /\ NotEnding(o, t)' /\ AsksFor(o, t)' /\ remote_ops_done'[o][t] = 1
          /\ a.lock = lockType'[o][t]
      BY <1>1, <1>3, <1>4, <1>5, <2>2, PlacesStill
    <3>2. Clean(o, t)'
      BY <1>1, <1>3, <1>4, <2>4 DEF Clean
    <3>3. OneAnswer(chan[t][o], a)' /\ a \in Elements(chan[t][o])'
      BY <1>3, <2>1, <2>2, <2>4, AnsweredWith DEF Elsewhere
    <3> QED
      BY <2>2, <2>3, <3>1, <3>2, <3>3 DEF Answered
  <2>6. PairInv(o, t)'
    BY <2>3, <2>4, <2>5 DEF PairInv, InOnePlace
  <2> QED
    BY <1>1, <1>5, <2>3, <2>4, <2>6, ServeAlone, StillQueue
<1>6. CASE Enqueue(t, o, m) /\ Receive(o, t)
           /\ UNCHANGED <<lock_state, shared_lock_ref_cnt, held, release>>
  <2>1. /\ \A x, y \in Proc : x # o \/ y # t => SameChan(x, y)
        /\ chan'[o][t] = Tail(chan[o][t]) /\ chan'[t][o] = chan[t][o]
        /\ Linked(o, t)'
    BY <1>0, <1>1, <1>2, <1>6, RequestReceived
  <2>2. /\ \A x, y \in Proc : x # o \/ y # t => KeepsQueue(lock_queue[y], lock_queue'[y], x)
        /\ \A x, y \in Proc : SameLocks(x, y)
        /\ InOnePlace(o, t)' /\ OldLocks(o, t)'
        /\ \A p \in Proc : TargetInv(p)'
    BY <1>1, <1>3, <1>4, <1>6, <2>1, Enqueued
  <2>3. PairInv(o, t)'
    BY <2>1, <2>2 DEF PairInv
  <2> QED
    BY <1>1, <2>1, <2>2, <2>3, ServeAlone
<1> QED
  BY <1>0, <1>5, <1>6 DEF HandleLock

LEMMA InvHandleUnlock ==
  ASSUME Typed, Inv, NEW t \in Proc, NEW o \in Proc, o # t, HandleUnlock(t, o)
  PROVE  Inv'
<1>0. PICK m : m = Head(chan[o][t])
  OBVIOUS
<1>1. /\ chan[o][t] # <<>> /\ m.type = "UNLOCK" /\ PairInv(o, t) /\ release[t] = 0
      /\ UNCHANGED <<plan, lock_queue, reading, sending>> /\ UNCHANGED origin
      /\ Drop(o, t, m.k) /\ Receive(o, t) /\ unlockDone' = [unlockDone EXCEPT ![t] = o]
  BY <1>0 DEF HandleUnlock, First, Inv, PairInv, Free
<1>2. Final(m) /\ m.type \notin Asks /\ m.type \in Requests \ {"GET"}
  BY <1>1 DEF Final, Asks, Requests
<1>3. /\ Elsewhere(o, t) /\ EndInChan(o, t, m) /\ m.k = K(o, t)
      /\ NoRequest(Tail(chan[o][t]))
  BY <1>0, <1>1, <1>2, HeadEnds
<1>4. /\ Has(o, t) /\ Uses(o, t, "unlock") /\ Unlocks(o, t) /\ remote_ops_done[o][t] = 1
      /\ ReadsPart(o, t) /\ reading[t][o] = None
  <2>1. Has(o, t) /\ Uses(o, t, "unlock") /\ Unlocks(o, t) /\ remote_ops_done[o][t] = 1 /\ ReadsPart(o, t)
    BY <1>1, <1>3 DEF EndInChan
  <2>2. reading[t][o] = None
    BY <1>0 DEF HandleUnlock, First
  <2> QED
    BY <2>1, <2>2
<1>5. unlockDone \in [Proc -> Proc \cup {None}]
  BY DEF Typed
<1>6. /\ unlockDone'[t] = o /\ \A p \in Proc : p # t => unlockDone'[p] = unlockDone[p]
      /\ unlockDone[t] = None
  BY <1>1, <1>5 DEF Inv, TargetInv
<1>7. /\ \A p \in Proc : TargetInv(p)'
      /\ HasNot(o, t)' /\ OldLocks(o, t)'
      /\ \A x, y \in Proc : x # o \/ y # t => SameLocks(x, y)
  <2>1. lockType' = lockType /\ epochs' = epochs
    BY <1>1 DEF origin
  <2> QED
    BY <1>1, <1>3, <1>4, <1>6, <2>1, Dropped
<1>8. /\ \A x, y \in Proc : x # o \/ y # t => SameChan(x, y)
      /\ chan'[o][t] = Tail(chan[o][t]) /\ chan'[t][o] = chan[t][o]
      /\ Linked(o, t)'
  BY <1>0, <1>1, <1>2, RequestReceived
<1>9. Ending(o, t)'
  <2>1. NotQueued(o, t)' /\ NotAnswered(o, t)' /\ Uses(o, t, "unlock")' /\ Unlocks(o, t)'
        /\ remote_ops_done'[o][t] = 1
    BY <1>1, <1>3, <1>4, <1>8, PlacesStill
  <2>2. Clean(o, t)'
    BY <1>1, <1>3, <1>4, <1>8 DEF Clean
  <2> QED
    BY <1>6, <1>7, <2>1, <2>2 DEF Ending
<1>10. PairInv(o, t)'
  BY <1>7, <1>8, <1>9 DEF PairInv, InOnePlace
<1>11. \A x, y \in Proc : x # o \/ y # t => (unlockDone'[y] = x <=> unlockDone[y] = x)
  BY <1>6, NoneAssumption
<1> QED
  BY <1>1, <1>7, <1>8, <1>10, <1>11, ServeAlone, StillQueue

LEMMA InvHandlePut ==
  ASSUME Typed, Inv, NEW t \in Proc, NEW o \in Proc, o # t, HandlePut(t, o)
  PROVE  Inv'
<1>0. PICK m : m = Head(chan[o][t])
  OBVIOUS
<1>1. /\ chan[o][t] # <<>> /\ m.type = "PUT" /\ PairInv(o, t) /\ StartReading(t, o) /\ Receive(o, t)
      /\ UNCHANGED <<plan, unlockDone, sending>> /\ UNCHANGED origin /\ UNCHANGED target
  BY <1>0 DEF HandlePut, StartReading, First, Inv, PairInv
<1>2. m.type \notin Asks /\ m.type \in Requests \ {"GET"}
  BY <1>1 DEF Asks, Requests
<1>3. /\ m \in Packets /\ m # None /\ reading'[t][o] = m
      /\ \A x, y \in Proc : x # o \/ y # t => reading'[y][x] = reading[y][x]
  BY <1>0, <1>1, ReadingAt
<1>4. /\ \A x, y \in Proc : x # o \/ y # t => SameChan(x, y)
      /\ chan'[o][t] = Tail(chan[o][t]) /\ chan'[t][o] = chan[t][o]
      /\ Linked(o, t)'
  BY <1>0, <1>1, <1>2, RequestReceived
<1>5. /\ held' = held /\ lock_queue' = lock_queue
      /\ UNCHANGED <<lock_state, shared_lock_ref_cnt, held, release, unlockDone>>
      /\ lockType' = lockType /\ epochs' = epochs
  BY <1>1 DEF target, origin
<1>6. KeepsLocks(o, t) /\ OldLocks(o, t)'
  BY <1>1, <1>5, StillPair DEF PairInv
<1>7. InOnePlace(o, t)'
  <2>1. CASE m.last
    <3>1. Final(m)
      BY <1>1, <2>1 DEF Final
    <3>2. /\ Elsewhere(o, t) /\ EndInChan(o, t, m) /\ m.k = K(o, t)
          /\ NoRequest(Tail(chan[o][t]))
      BY <1>0, <1>1, <1>2, <3>1, HeadEnds
    <3>3. /\ Has(o, t) /\ Uses(o, t, "done") /\ m.unlock = Unlocks(o, t) /\ Undone(o, t)
      BY <1>1, <3>2 DEF EndInChan
    <3>4. /\ NotQueued(o, t)' /\ NotEnding(o, t)' /\ NotAnswered(o, t)' /\ K(o, t)' = K(o, t)
          /\ Uses(o, t, "done")' /\ Unlocks(o, t)' = Unlocks(o, t) /\ Undone(o, t)'
      BY <1>1, <1>4, <1>5, <3>2, <3>3, PlacesStill
    <3>5. NoRequest(chan[o][t])' /\ Has(o, t)'
      BY <1>4, <1>6, <3>2, <3>3 DEF KeepsLocks
    <3>6. BeingRead(o, t)'
      BY <1>3, <2>1, <3>2, <3>3, <3>4, <3>5 DEF BeingRead
    <3> QED
      BY <3>6 DEF InOnePlace
  <2>2. CASE ~m.last
    <3>1. ~Final(m) /\ m.type \in Requests
      BY <1>1, <1>2, <2>2 DEF Final, Asks
    <3>2. Part(o, t) /\ KeepsRequests(chan[o][t], Tail(chan[o][t]))
      BY <1>0, <1>1, <3>1, HeadPart
    <3>3. ~m.unlock
      <4>1. chan[o][t] \in Seq(Packets) /\ LastUnlocks(chan[o][t])
        BY <1>1 DEF Typed, PairInv, Linked
      <4> QED
        BY <1>0, <1>1, <2>2, <4>1, FrontRequest
    <3>4. ReadsPart(o, t)'
      BY <1>1, <1>3, <2>2, <3>3 DEF ReadsPart
    <3>5. SameOrigin(o, t)
      BY <1>1, StillOrigin
    <3>6. KeepsQueue(lock_queue[t], lock_queue'[t], o) /\ KeepsAnswers(chan[t][o], chan'[t][o])
      BY <1>4, <1>5 DEF KeepsQueue, KeepsAnswers
    <3> QED
      BY <1>1, <1>4, <1>6, <3>2, <3>4, <3>5, <3>6, PartKept
  <2> QED
    BY <2>1, <2>2
<1>8. PairInv(o, t)'
  BY <1>4, <1>6, <1>7 DEF PairInv
<1> QED
  BY <1>1, <1>3, <1>4, <1>5, <1>8, ServeAlone, StillQueue, StillLocks, TargetsStill

LEMMA InvHandleLockPut ==
  ASSUME Typed, Inv, NEW t \in Proc, NEW o \in Proc, o # t,
         HandleLockPut(t, o) \/ HandleLockAccum(t, o)
  PROVE  Inv'
<1>0. PICK m : m = Head(chan[o][t])
  OBVIOUS
<1>1. /\ chan[o][t] # <<>> /\ m.type \in {"LOCK_PUT_UNLOCK", "LOCK_ACCUM_UNLOCK"}
      /\ PairInv(o, t) /\ StartReading(t, o) /\ Receive(o, t)
      /\ UNCHANGED <<plan, unlockDone, sending>> /\ UNCHANGED origin
  BY <1>0 DEF HandleLockPut, HandleLockAccum, StartReading, First, Inv, PairInv
<1>2. m.type \in Asks /\ m.type \in Requests \ {"GET"}
  BY <1>1 DEF Asks, Requests
<1>3. /\ Elsewhere(o, t) /\ AskInChan(o, t, m) /\ m.k = K(o, t)
      /\ NoRequest(Tail(chan[o][t]))
  BY <1>0, <1>1, <1>2, HeadAsks
<1>4. /\ m \in Packets /\ m # None /\ reading'[t][o] = m
      /\ \A x, y \in Proc : x # o \/ y # t => reading'[y][x] = reading[y][x]
  BY <1>0, <1>1, ReadingAt
<1>5. /\ \A x, y \in Proc : x # o \/ y # t => SameChan(x, y)
      /\ chan'[o][t] = Tail(chan[o][t]) /\ chan'[t][o] = chan[t][o]
      /\ Linked(o, t)'
  BY <1>0, <1>1, <1>2, RequestReceived
<1>6. /\ m.lock = lockType[o][t] /\ NeverHad(o, t) /\ m.last /\ m.unlock
      /\ Uses(o, t, "done") /\ Unlocks(o, t) /\ Undone(o, t)
  BY <1>1, <1>3 DEF AskInChan
<1>7. CASE Acquire(o, t, m.lock, m.k) /\ UNCHANGED <<lock_queue, release>>
  <2>1. /\ \A p \in Proc : TargetInv(p)'
        /\ Has(o, t)' /\ OldLocks(o, t)'
        /\ \A x, y \in Proc : x # o \/ y # t => SameLocks(x, y)
    <3>1. lockType' = lockType /\ epochs' = epochs
      BY <1>1 DEF origin
    <3> QED
      BY <1>1, <1>3, <1>6, <1>7, <3>1, Acquired
  <2>2. BeingRead(o, t)'
    <3>1. /\ NotQueued(o, t)' /\ NotEnding(o, t)' /\ NotAnswered(o, t)' /\ K(o, t)' = K(o, t)
          /\ Uses(o, t, "done")' /\ Unlocks(o, t)' = Unlocks(o, t) /\ Undone(o, t)'
      BY <1>1, <1>3, <1>5, <1>6, <1>7, PlacesStill
    <3>2. m.unlock = Unlocks(o, t)
      <4>1. m.unlock \in BOOLEAN
        BY <1>4 DEF Packets
      <4>2. Unlocks(o, t) \in BOOLEAN
        BY <1>6 DEF Typed, Calls, Uses, Stage, Waits, Unlocks
      <4> QED
        BY <1>6, <4>1, <4>2
    <3> QED
      BY <1>3, <1>4, <1>5, <1>6, <2>1, <3>1, <3>2 DEF BeingRead
  <2>3. PairInv(o, t)'
    BY <1>5, <2>1, <2>2 DEF PairInv, InOnePlace
  <2> QED
    BY <1>1, <1>4, <1>5, <1>7, <2>1, <2>3, ServeAlone, StillQueue
<1>8. CASE Enqueue(t, o, m) /\ UNCHANGED <<lock_state, shared_lock_ref_cnt, held, release>>
  <2>1. NoRequest(chan'[o][t])
    BY <1>3, <1>5
  <2>2. m.type # "LOCK"
    BY <1>1
  <2>3. /\ \A x, y \in Proc : x # o \/ y # t => KeepsQueue(lock_queue[y], lock_queue'[y], x)
        /\ \A x, y \in Proc : SameLocks(x, y)
        /\ InOnePlace(o, t)' /\ OldLocks(o, t)'
        /\ \A p \in Proc : TargetInv(p)'
    BY <1>1, <1>3, <1>4, <1>5, <1>8, <2>1, <2>2, Enqueued
  <2>4. PairInv(o, t)'
    BY <1>5, <2>3 DEF PairInv
  <2> QED
    BY <1>1, <1>4, <1>5, <2>3, <2>4, ServeAlone
<1> QED
  BY <1>0, <1>7, <1>8 DEF HandleLockPut, HandleLockAccum

LEMMA InvHandleGet ==
  ASSUME Typed, Inv, NEW t \in Proc, NEW o \in Proc, o # t, HandleGet(t, o)
  PROVE  Inv'
<1>0. PICK m : m = Head(chan[o][t])
  OBVIOUS
<1>1. /\ chan[o][t] # <<>> /\ m.type = "GET" /\ PairInv(o, t) /\ reading[t][o] = None
      /\ UNCHANGED <<plan, reading, unlockDone>> /\ UNCHANGED origin /\ UNCHANGED target
      /\ Answer(o, t, Packet("RMA_RESP", "SHARED", m.n, m.k, FALSE, m.unlock))
      /\ sending' = IF m.last /\ m.unlock THEN sending \cup {<<t, o, m.k>>} ELSE sending
  BY <1>0 DEF HandleGet, First, Inv, PairInv
<1>2. m.type \notin Asks /\ m.type \in Requests
  BY <1>1 DEF Asks, Requests
<1>3. m \in Packets /\ m.n \in Nat /\ m.k \in Nat /\ m.unlock \in BOOLEAN
  BY <1>0, <1>1, ReadingAt DEF Packets
<1>4. PICK a : a = Packet("RMA_RESP", "SHARED", m.n, m.k, FALSE, m.unlock)
  OBVIOUS
<1>5. a \in Packets /\ a.type = "RMA_RESP" /\ a.unlock = m.unlock /\ a.type \notin Requests
  <2>1. a \in Packets
    BY <1>3, <1>4, Made, Constants
  <2> QED
    BY <1>4, <2>1 DEF Packet, Requests
<1>6. /\ \A x, y \in Proc : x # o \/ y # t => SameChan(x, y)
      /\ chan'[o][t] = Tail(chan[o][t]) /\ chan'[t][o] = Append(chan[t][o], a)
      /\ Linked(o, t)'
  <2>1. Answer(o, t, a)
    BY <1>1, <1>4
  <2>2. Head(chan[o][t]).type \in Requests /\ (a.type = "RMA_RESP" <=> Head(chan[o][t]).type = "GET")
    BY <1>0, <1>1, <1>2, <1>5
  <2> QED
    BY <1>1, <1>5, <2>1, <2>2, RequestAnswered
<1>7. /\ held' = held /\ lock_queue' = lock_queue
      /\ UNCHANGED <<lock_state, shared_lock_ref_cnt, held, release, unlockDone>>
      /\ lockType' = lockType /\ epochs' = epochs
  BY <1>1 DEF target, origin
<1>8. CASE m.unlock
  <2>1. Final(m)
    BY <1>1, <1>8 DEF Final
  <2>2. /\ Elsewhere(o, t) /\ EndInChan(o, t, m) /\ m.k = K(o, t)
        /\ NoRequest(Tail(chan[o][t]))
    BY <1>0, <1>1, <1>2, <2>1, HeadEnds
  <2>3. /\ Has(o, t) /\ Uses(o, t, "done") /\ Unlocks(o, t) /\ remote_ops_done[o][t] = 1 /\ m.last
    BY <1>1, <2>2 DEF EndInChan
  <2>4. sending' = sending \cup {<<t, o, K(o, t)>>}
    BY <1>1, <1>8, <2>2, <2>3
  <2>5. /\ NotQueued(o, t)' /\ NotEnding(o, t)' /\ K(o, t)' = K(o, t)
        /\ Uses(o, t, "done")' /\ Unlocks(o, t)' /\ remote_ops_done'[o][t] = 1
    BY <1>1, <1>7, <2>2, <2>3, PlacesStill
  <2>6. HasNot(o, t)'
    BY <2>4, <2>5 DEF HasNot
  <2>7. Clean(o, t)'
    BY <1>1, <1>6, <2>2 DEF Clean
  <2>8. OneAnswer(chan[t][o], a)' /\ a \in Elements(chan[t][o])'
    <3>1. FinalAnswer(a)
      BY <1>5, <1>8 DEF FinalAnswer
    <3> QED
      BY <1>5, <1>6, <2>2, <3>1, AnsweredWith DEF Elsewhere
  <2>9. Answered(o, t)'
    BY <1>5, <2>5, <2>6, <2>7, <2>8 DEF Answered
  <2>10. OldLocks(o, t)'
    <3>1. OldLocks(o, t)
      BY <1>1 DEF PairInv
    <3>2. K(o, t) \in Nat
      BY <1>3, <2>2
    <3>3. ASSUME NEW x \in sending', x[1] = t, x[2] = o
          PROVE  t # o /\ x[3] <= K(o, t)' /\ \E h \in held[t]' : h[1] = o /\ h[3] = x[3]
      <4>1. CASE x \in sending
        BY <1>7, <2>5, <3>1, <3>3, <4>1 DEF OldLocks
      <4>2. CASE x = <<t, o, K(o, t)>>
        <5>1. x[3] = K(o, t) /\ <<o, lockType[o][t], K(o, t)>> \in held'[t]
          BY <1>7, <2>3, <4>2 DEF Has
        <5>2. <<o, lockType[o][t], K(o, t)>>[1] = o /\ <<o, lockType[o][t], K(o, t)>>[3] = K(o, t)
          OBVIOUS
        <5>3. x[3] <= K(o, t)'
          BY <2>5, <3>2, <5>1
        <5> QED
          BY <5>1, <5>2, <5>3
      <4> QED
        BY <2>4, <4>1, <4>2
    <3>4. ASSUME NEW h \in held[t]', h[1] = o, h[3] # K(o, t)'
          PROVE  h[3] < K(o, t)' /\ <<t, o, h[3]>> \in sending'
      BY <1>7, <2>4, <2>5, <3>1, <3>4 DEF OldLocks
    <3>5. ASSUME NEW h \in held[t]', NEW f \in held[t]', h[1] = o, f[1] = o, h[3] = f[3]
          PROVE  h = f
      BY <1>7, <3>1, <3>5 DEF OldLocks
    <3> QED
      BY <3>3, <3>4, <3>5 DEF OldLocks
  <2>11. \A x, y \in Proc : x # o \/ y # t => SameLocks(x, y)
    BY <1>7, <2>4 DEF SameLocks
  <2>12. PairInv(o, t)'
    BY <1>6, <2>9, <2>10 DEF PairInv, InOnePlace
  <2> QED
    BY <1>1, <1>6, <1>7, <2>11, <2>12, ServeAlone, StillQueue, TargetsStill
<1>9. CASE ~m.unlock
  <2>1. ~Final(m)
    BY <1>1, <1>9 DEF Final, Asks
  <2>2. Part(o, t) /\ KeepsRequests(chan[o][t], Tail(chan[o][t]))
    BY <1>0, <1>1, <1>2, <2>1, HeadPart
  <2>3. sending' = sending
    BY <1>1, <1>9
  <2>4. KeepsLocks(o, t) /\ OldLocks(o, t)'
    BY <1>1, <1>7, <2>3, StillPair DEF PairInv
  <2>5. ReadsPart(o, t)'
    BY <1>1 DEF ReadsPart
  <2>6. KeepsAnswers(chan[t][o], chan'[t][o])
    <3>1. NoAnswer(chan[t][o]) /\ chan[t][o] \in Seq(Packets)
      BY <2>2 DEF Part, AtRest, NotAnswered, Typed
    <3>2. ~FinalAnswer(a)
      BY <1>5, <1>9 DEF FinalAnswer
    <3>3. NoAnswer(chan'[t][o])
      BY <1>5, <1>6, <3>1, <3>2, FinalAnswerAppended
    <3>4. \A x : ~OneAnswer(chan[t][o], x)
      BY <3>1 DEF NoAnswer, OneAnswer
    <3> QED
      BY <3>3, <3>4 DEF KeepsAnswers
  <2>7. SameOrigin(o, t) /\ KeepsQueue(lock_queue[t], lock_queue'[t], o)
    BY <1>1, <1>7, StillOrigin, StillQueue
  <2>8. InOnePlace(o, t)'
    BY <1>1, <1>6, <2>2, <2>4, <2>5, <2>6, <2>7, PartKept
  <2>9. PairInv(o, t)'
    BY <1>6, <2>4, <2>8 DEF PairInv
  <2> QED
    BY <1>1, <1>6, <1>7, <2>3, <2>9, ServeAlone, StillQueue, StillLocks, TargetsStill
<1> QED
  BY <1>8, <1>9

LEMMA InvGetSendRespComplete ==
  ASSUME Typed, Inv, NEW t \in Proc, NEW o \in Proc, o # t, NEW k \in Nat,
         GetSendRespComplete(t, o, k)
  PROVE  Inv'
<1>1. /\ <<t, o, k>> \in sending /\ sending' = sending \ {<<t, o, k>>} /\ Drop(o, t, k)
      /\ PairInv(o, t)
      /\ UNCHANGED <<plan, lock_queue, unlockDone, reading, chan>> /\ UNCHANGED origin
  BY DEF GetSendRespComplete, Inv, PairInv
<1>2. OldLocks(o, t)
  BY <1>1 DEF PairInv
<1>3. PICK g \in held[t] : g[1] = o /\ g[3] = k
  <2>1. <<t, o, k>>[1] = t /\ <<t, o, k>>[2] = o /\ <<t, o, k>>[3] = k
    OBVIOUS
  <2> QED
    BY <1>1, <1>2, <2>1 DEF OldLocks
<1>4. \A h \in held[t] : h[1] = o /\ h[3] = k => h = g
  BY <1>2, <1>3 DEF OldLocks
<1>5. /\ \A p \in Proc : LockInv(p)'
      /\ held'[t] = held[t] \ {g}
      /\ \A p \in Proc : p # t => held'[p] = held[p]
  BY <1>1, <1>3, <1>4, DropParts DEF Inv, TargetInv
<1>6. K(o, t)' = K(o, t) /\ lockType' = lockType
  BY <1>1 DEF K, origin
<1>7. sending \subseteq Proc \X Proc \X Nat
  BY DEF Typed
<1>8. KeepsLocks(o, t)
  <2>1. ASSUME Has(o, t) PROVE Has(o, t)'
    <3>1. K(o, t) # k
      BY <1>1, <2>1 DEF Has
    <3>2. <<o, lockType[o][t], K(o, t)>> # g
      BY <1>3, <3>1
    <3> QED
      BY <1>1, <1>5, <1>6, <2>1, <3>2 DEF Has
  <2>2. ASSUME HasNot(o, t) PROVE HasNot(o, t)'
    <3>1. ASSUME NEW h \in held[t]', h[1] = o, h[3] = K(o, t)' PROVE <<t, o, K(o, t)'>> \in sending'
      <4>1. h \in held[t] /\ h # g
        BY <1>5, <3>1
      <4>2. <<t, o, K(o, t)>> \in sending
        BY <1>6, <2>2, <3>1, <4>1 DEF HasNot
      <4>3. K(o, t) # k
        BY <1>4, <1>6, <3>1, <4>1
      <4> QED
        BY <1>1, <1>6, <4>2, <4>3
    <3> QED
      BY <3>1 DEF HasNot
  <2>3. ASSUME NeverHad(o, t) PROVE NeverHad(o, t)'
    BY <1>1, <1>5, <1>6, <2>3 DEF NeverHad
  <2> QED
    BY <2>1, <2>2, <2>3 DEF KeepsLocks
<1>9. OldLocks(o, t)'
  <2>1. ASSUME NEW h \in held[t]', h[1] = o, h[3] # K(o, t)'
        PROVE  h[3] < K(o, t)' /\ <<t, o, h[3]>> \in sending'
    <3>1. h \in held[t] /\ h # g
      BY <1>5, <2>1
    <3>2. h[3] # k
      BY <1>4, <2>1, <3>1
    <3>3. h[3] < K(o, t) /\ <<t, o, h[3]>> \in sending
      BY <1>2, <1>6, <2>1, <3>1 DEF OldLocks
    <3> QED
      BY <1>1, <1>6, <3>2, <3>3
  <2>2. ASSUME NEW x \in sending', x[1] = t, x[2] = o
        PROVE  t # o /\ x[3] <= K(o, t)' /\ \E h \in held[t]' : h[1] = o /\ h[3] = x[3]
    <3>1. x \in sending /\ x # <<t, o, k>>
      BY <1>1, <2>2
    <3>2. x = <<t, o, x[3]>>
      BY <1>7, <2>2, <3>1
    <3>3. x[3] # k
      BY <3>1, <3>2
    <3>4. x[3] <= K(o, t) /\ \E h \in held[t] : h[1] = o /\ h[3] = x[3]
      BY <1>2, <2>2, <3>1 DEF OldLocks
    <3>5. \E h \in held'[t] : h[1] = o /\ h[3] = x[3]
      BY <1>3, <1>5, <3>3, <3>4
    <3> QED
      BY <1>6, <3>4, <3>5
  <2>3. ASSUME NEW h \in held[t]', NEW f \in held[t]', h[1] = o, f[1] = o, h[3] = f[3]
        PROVE  h = f
    BY <1>2, <1>5, <2>3 DEF OldLocks
  <2> QED
    BY <2>1, <2>2, <2>3 DEF OldLocks
<1>10. \A x, y \in Proc : x # o \/ y # t => SameLocks(x, y)
  <2>1. \A x : x[1] # t \/ x[2] # o => (x \in sending' <=> x \in sending)
    <3>1. <<t, o, k>>[1] = t /\ <<t, o, k>>[2] = o
      OBVIOUS
    <3> QED
      BY <1>1, <3>1
  <2> QED
    BY <1>3, <1>5, <2>1, OtherLocks
<1>11. InOnePlace(o, t)'
  <2>1. SameOrigin(o, t) /\ SameTarget(o, t)
    BY <1>1, StillOrigin, StillQueue DEF SameTarget
  <2>2. KeepsRequests(chan[o][t], chan'[o][t]) /\ KeepsAnswers(chan[t][o], chan'[t][o])
    BY <1>1 DEF KeepsRequests, KeepsAnswers
  <2> QED
    BY <1>1, <1>8, <2>1, <2>2, PlaceKept DEF SamePlace, PairInv
<1>12. Linked(o, t)'
  BY <1>1, StillOrigin, StillChan, LinksKept DEF PairInv
<1>13. PairInv(o, t)'
  BY <1>9, <1>11, <1>12 DEF PairInv
<1>14. \A p \in Proc : TargetInv(p)'
  <2>1. release'[t] # 0 /\ \A p \in Proc : p # t => release'[p] = release[p]
    <3>1. release \in [Proc -> Nat]
      BY DEF Typed
    <3>2. release'[t] # 0
      BY <1>1, DropTyped
    <3> QED
      BY <1>1, <3>1, <3>2 DEF Drop
  <2> QED
    BY <1>1, <1>5, <2>1 DEF TargetInv, Inv
<1> QED
  BY <1>1, <1>10, <1>13, <1>14, ServeAlone, StillQueue, StillChan

LEMMA ReadDone ==
  ASSUME Typed, NEW o \in Proc, NEW t \in Proc, Read(t, o)
  PROVE  /\ reading'[t][o] = None
         /\ \A a, b \in Proc : a # o \/ b # t => reading'[b][a] = reading[b][a]
BY DEF Read, Typed

LEMMA DoneMade ==
  ASSUME NEW k \in Nat, NEW unlock \in BOOLEAN
  PROVE  \E a \in Packets : /\ a = RmaDone(k, unlock)
                            /\ a.type = "PT_RMA_DONE" /\ a.unlock = unlock /\ FinalAnswer(a)
                            /\ a.type \notin Requests /\ a.type # "RMA_RESP"
<1>1. PICK a : a = RmaDone(k, unlock)
  OBVIOUS
<1>2. a \in Packets
  BY <1>1, Made, Constants
<1>3. a.type = "PT_RMA_DONE" /\ a.unlock = unlock
  BY <1>1 DEF RmaDone, Packet
<1> QED
  BY <1>1, <1>2, <1>3 DEF FinalAnswer, Requests

(* The last operation of a call is done and answered. *)
LEMMA AnswersDone ==
  ASSUME Typed, NEW o \in Proc, NEW t \in Proc, o # t, PairInv(o, t), UNCHANGED origin, plan' = plan,
         NEW k \in Nat, NEW unlock \in BOOLEAN, unlock = Unlocks(o, t), Send(t, o, RmaDone(k, unlock)),
         NotEnding(o, t), NotAnswered(o, t), NoRequest(chan[o][t]),
         Uses(o, t, "done"), Undone(o, t),
         NotQueued(o, t)', unlockDone' = unlockDone, reading'[t][o] = None,
         IF unlock THEN HasNot(o, t)' ELSE Has(o, t)'
  PROVE  /\ \A a, b \in Proc : a # o \/ b # t => SameChan(a, b)
         /\ Answered(o, t)' /\ Linked(o, t)'
<1>1. PICK a \in Packets : /\ a = RmaDone(k, unlock)
                           /\ a.type = "PT_RMA_DONE" /\ a.unlock = unlock /\ FinalAnswer(a)
                           /\ a.type \notin Requests /\ a.type # "RMA_RESP"
  BY DoneMade
<1>2. Send(t, o, a)
  BY <1>1
<1>3. /\ \A x, y \in Proc : x # o \/ y # t => SameChan(x, y)
      /\ chan'[o][t] = chan[o][t] /\ chan'[t][o] = Append(chan[t][o], a)
      /\ Linked(o, t)'
  BY <1>1, <1>2, AnswerSent
<1>4. NotEnding(o, t)'
  BY DEF NotEnding
<1>5. Uses(o, t, "done")' /\ Unlocks(o, t)' = Unlocks(o, t) /\ Undone(o, t)'
  BY DEF Uses, Stage, Waits, Unlocks, Undone, origin
<1>6. Clean(o, t)'
  BY <1>3 DEF Clean
<1>7. OneAnswer(chan[t][o], a)' /\ a \in Elements(chan[t][o])'
  BY <1>1, <1>3, AnsweredWith
<1>8. Answered(o, t)'
  BY <1>1, <1>4, <1>5, <1>6, <1>7 DEF Answered
<1> QED
  BY <1>3, <1>8

LEMMA InvPutRespComplete ==
  ASSUME Typed, Inv, NEW t \in Proc, NEW o \in Proc, o # t, PutRespComplete(t, o)
  PROVE  Inv'
<1>0. PICK m : m = reading[t][o]
  OBVIOUS
<1>1. /\ PairInv(o, t) /\ reading[t][o] # None /\ Read(t, o)
      /\ UNCHANGED <<plan, lock_queue, unlockDone, sending>> /\ UNCHANGED origin
      /\ IF m.last THEN Send(t, o, RmaDone(m.k, m.unlock)) ELSE chan' = chan
      /\ IF m.unlock THEN Drop(o, t, m.k)
         ELSE UNCHANGED <<lock_state, shared_lock_ref_cnt, held, release>>
  BY <1>0 DEF PutRespComplete, Inv, PairInv, Read
<1>2. m \in Packets /\ m.k \in Nat /\ m.unlock \in BOOLEAN
  <2>1. m \in Packets
    BY <1>0, <1>1 DEF Typed
  <2> QED
    BY <2>1 DEF Packets
<1>3. NotQueued(o, t)
  <2>1. lock_queue[t] \in Seq(Entries)
    BY DEF Typed, Entries
  <2> QED
    BY <2>1, LenProperties DEF PutRespComplete, IsQueued, NotQueued, NoneOf
<1>4. /\ reading'[t][o] = None
      /\ \A x, y \in Proc : x # o \/ y # t => reading'[y][x] = reading[y][x]
  BY <1>1, ReadDone
<1>5. lockType' = lockType /\ epochs' = epochs
  BY <1>1 DEF origin
<1>6. CASE BeingRead(o, t)
  <2>1. /\ NotEnding(o, t) /\ NotAnswered(o, t) /\ NoRequest(chan[o][t]) /\ Has(o, t)
        /\ m.k = K(o, t) /\ m.last /\ m.unlock = Unlocks(o, t)
        /\ Uses(o, t, "done") /\ Undone(o, t)
    BY <1>0, <1>6 DEF BeingRead
  <2>2. /\ \A p \in Proc : TargetInv(p)'
        /\ IF m.unlock THEN HasNot(o, t)' ELSE Has(o, t)'
        /\ OldLocks(o, t)'
        /\ \A x, y \in Proc : x # o \/ y # t => SameLocks(x, y)
    <3>1. CASE m.unlock
      BY <1>1, <1>5, <2>1, <3>1, Dropped
    <3>2. CASE ~m.unlock
      <4>1. UNCHANGED <<lock_state, shared_lock_ref_cnt, held, release, unlockDone>>
        BY <1>1, <3>2
      <4>2. KeepsLocks(o, t) /\ OldLocks(o, t)'
        BY <1>1, <1>5, <4>1, StillPair DEF PairInv
      <4> QED
        BY <1>1, <2>1, <3>2, <4>1, <4>2, TargetsStill, StillLocks DEF KeepsLocks
    <3> QED
      BY <3>1, <3>2
  <2>3. NotQueued(o, t)'
    BY <1>1, <1>3 DEF NotQueued
  <2>4. /\ \A x, y \in Proc : x # o \/ y # t => SameChan(x, y)
        /\ Answered(o, t)' /\ Linked(o, t)'
    BY <1>1, <1>2, <1>4, <2>1, <2>2, <2>3, AnswersDone
  <2>5. PairInv(o, t)'
    BY <2>2, <2>4 DEF PairInv, InOnePlace
  <2> QED
    BY <1>1, <1>4, <2>2, <2>4, <2>5, ServeAlone, StillQueue
<1>7. CASE Part(o, t) /\ ReadsPart(o, t)
  <2>1. ~m.last /\ ~m.unlock
    BY <1>0, <1>1, <1>7 DEF ReadsPart
  <2>2. UNCHANGED <<lock_state, shared_lock_ref_cnt, held, release, unlockDone>> /\ chan' = chan
    BY <1>1, <2>1
  <2>3. KeepsLocks(o, t) /\ OldLocks(o, t)'
    BY <1>1, <1>5, <2>2, StillPair DEF PairInv
  <2>4. ReadsPart(o, t)'
    BY <1>4 DEF ReadsPart
  <2>5. SameOrigin(o, t) /\ KeepsQueue(lock_queue[t], lock_queue'[t], o)
    BY <1>1, StillOrigin, StillQueue
  <2>6. KeepsRequests(chan[o][t], chan'[o][t]) /\ KeepsAnswers(chan[t][o], chan'[t][o])
    BY <2>2 DEF KeepsRequests, KeepsAnswers
  <2>7. InOnePlace(o, t)'
    BY <1>1, <1>7, <2>3, <2>4, <2>5, <2>6, PartKept
  <2>8. Linked(o, t)'
    BY <1>1, <2>2, LinksCounted DEF PairInv, Linked
  <2>9. PairInv(o, t)'
    BY <2>3, <2>7, <2>8 DEF PairInv
  <2> QED
    BY <1>1, <1>4, <2>2, <2>9, ServeAlone, StillQueue, StillLocks, StillChan, TargetsStill
<1> QED
  BY <1>1, <1>3, <1>6, <1>7, Reading

-----------------------------------------------------------------------------
(* The lock queue. *)
LEMMA OwnUnlock ==
  ASSUME Typed, NEW o \in Proc, NEW t \in Proc, Waits(o, t)
  PROVE  Unlocks(o, t) \in BOOLEAN
BY DEF Typed, Calls, Waits, Unlocks

LEMMA TargetsWalk ==
  ASSUME Inv, UNCHANGED <<lock_state, shared_lock_ref_cnt, held>>,
         \A p \in Proc : release'[p] = 0 => unlockDone'[p] = None
  PROVE  \A p \in Proc : TargetInv(p)'
BY DEF Inv, TargetInv, LockInv

LEMMA PairsStill ==
  ASSUME Inv, UNCHANGED origin,
         UNCHANGED <<plan, chan, reading, sending, held, lock_queue, unlockDone>>,
         \A p \in Proc : TargetInv(p)'
  PROVE  Inv'
<1>1. ASSUME NEW o \in Proc, NEW t \in Proc PROVE PairInv(o, t)'
  <2>1. PairInv(o, t)
    BY DEF Inv, PairInv
  <2>2. SameTarget(o, t)
    BY StillQueue DEF SameTarget
  <2> QED
    BY <2>1, <2>2, StillOrigin, StillLocks, StillChan, PairKept DEF Same
<1> QED
  BY <1>1 DEF Inv, PairInv

(* An entry of the queue is the request of an origin that waits for it. *)
LEMMA EntryOf ==
  ASSUME Typed, Inv, NEW t \in Proc, NEW i \in 1 .. Len(lock_queue[t]),
         NEW e, e = lock_queue[t][i], NEW o, o = e.src
  PROVE  /\ e \in Entries /\ o \in Proc /\ o # t /\ PairInv(o, t)
         /\ NotEnding(o, t) /\ NotAnswered(o, t) /\ NoRequest(chan[o][t]) /\ NeverHad(o, t)
         /\ Queued(o, t, e) /\ e.k = K(o, t) /\ e.type = lockType[o][t]
         /\ \/ e.op = 0 /\ AsksFor(o, t) /\ reading[t][o] = None /\ remote_ops_done[o][t] = 1
            \/ /\ e.op # 0 /\ Uses(o, t, "done") /\ Unlocks(o, t) /\ Undone(o, t)
               /\ e.data_recd <=> reading[t][o] = None
<1>1. lock_queue[t] \in Seq(Entries)
  BY DEF Typed, Entries
<1>2. e \in Entries /\ o \in Proc
  <2>1. e \in Entries
    BY <1>1, ElementOfSeq
  <2> QED
    BY <2>1 DEF Entries
<1>3. PairInv(o, t)
  BY <1>2 DEF Inv, PairInv
<1>4. ~NotQueued(o, t)
  BY DEF NotQueued, NoneOf
<1>5. InQueue(o, t)
  BY <1>2, <1>3, <1>4, EntryWaits
<1>6. PICK x : /\ Queued(o, t, x) /\ x.k = K(o, t) /\ x.type = lockType[o][t]
               /\ \/ x.op = 0 /\ AsksFor(o, t) /\ reading[t][o] = None /\ remote_ops_done[o][t] = 1
                  \/ /\ x.op # 0 /\ Uses(o, t, "done") /\ Unlocks(o, t) /\ Undone(o, t)
                     /\ x.data_recd <=> reading[t][o] = None
  BY <1>5 DEF InQueue
<1>7. x = e
  BY <1>6 DEF Queued, OnlyOf
<1>8. o # t
  BY <1>3, <1>6 DEF PairInv, Linked, AsksFor, Uses, Stage
<1> QED
  BY <1>2, <1>3, <1>5, <1>6, <1>7, <1>8 DEF InQueue

LEMMA EntryChanged ==
  ASSUME NEW s \in Seq(Entries), NEW i \in 1 .. Len(s), NEW e \in Entries, e.src = s[i].src,
         OnlyOf(s, e.src, s[i])
  PROVE  /\ OnlyOf(Replaced(s, i, e), e.src, e)
         /\ \A a : a # e.src => KeepsQueue(s, Replaced(s, i, e), a)
BY EntryReceived DEF KeepsQueue

LEMMA EntryDone ==
  ASSUME Typed, NEW t \in Proc, NEW i \in 1 .. Len(lock_queue[t]), NEW e \in Entries,
         e = lock_queue[t][i], NEW o \in Proc, o = e.src, Queued(o, t, e),
         NEW f, f = [e EXCEPT !.data_recd = TRUE],
         lock_queue' = [lock_queue EXCEPT ![t][i].data_recd = TRUE]
  PROVE  /\ \A a, b \in Proc : a # o \/ b # t => KeepsQueue(lock_queue[b], lock_queue'[b], a)
         /\ Queued(o, t, f)'
<1>1. lock_queue[t] \in Seq(Entries) /\ lock_queue \in [Proc -> Seq(Entries)]
  BY DEF Typed, Entries
<1>2. /\ lock_queue'[t] = Replaced(lock_queue[t], i, f)
      /\ \A b \in Proc : b # t => lock_queue'[b] = lock_queue[b]
  BY <1>1 DEF Replaced
<1>3. f \in Entries /\ f.src = o
  BY DEF Entries
<1>4. f.src = lock_queue[t][i].src /\ OnlyOf(lock_queue[t], f.src, lock_queue[t][i])
  BY <1>3 DEF Queued
<1>5. /\ OnlyOf(Replaced(lock_queue[t], i, f), f.src, f)
      /\ \A a : a # f.src => KeepsQueue(lock_queue[t], Replaced(lock_queue[t], i, f), a)
  BY <1>1, <1>3, <1>4, EntryChanged
<1>6. ASSUME NEW a \in Proc, NEW b \in Proc, a # o \/ b # t
      PROVE  KeepsQueue(lock_queue[b], lock_queue'[b], a)
  <2>1. CASE b = t
    BY <1>2, <1>3, <1>5, <1>6, <2>1
  <2>2. CASE b # t
    BY <1>2, <2>2 DEF KeepsQueue
  <2> QED
    BY <2>1, <2>2
<1>7. Queued(o, t, f)'
  BY <1>2, <1>3, <1>5 DEF Queued
<1> QED
  BY <1>6, <1>7

LEMMA InvSinglePutAccumComplete ==
  ASSUME Typed, Inv, NEW t \in Proc, NEW o \in Proc, o # t, SinglePutAccumComplete(t, o)
  PROVE  Inv'
<1>0. PICK i \in 1 .. Len(lock_queue[t]) : i = PlaceOf(t, o) /\ lock_queue[t][i].src = o
  BY PlaceInQueue DEF SinglePutAccumComplete
<1>1. PICK e : e = lock_queue[t][i]
  OBVIOUS
<1>2. /\ reading[t][o] # None /\ Read(t, o) /\ release[t] = 0
      /\ UNCHANGED <<plan, lock_state, shared_lock_ref_cnt, held, unlockDone, sending>>
      /\ UNCHANGED origin
  BY DEF SinglePutAccumComplete, Read, Free
<1>3. /\ reading'[t][o] = None
      /\ \A x, y \in Proc : x # o \/ y # t => reading'[y][x] = reading[y][x]
  BY <1>2, ReadDone
<1>4. /\ e \in Entries /\ PairInv(o, t)
      /\ NotEnding(o, t) /\ NotAnswered(o, t) /\ NoRequest(chan[o][t]) /\ NeverHad(o, t)
      /\ Queued(o, t, e) /\ e.k = K(o, t) /\ e.type = lockType[o][t]
      /\ e.op # 0 /\ Uses(o, t, "done") /\ Unlocks(o, t) /\ Undone(o, t)
  BY <1>0, <1>1, <1>2, EntryOf
<1>5. lockType' = lockType /\ epochs' = epochs
  BY <1>2 DEF origin
<1>6. KeepsLocks(o, t) /\ OldLocks(o, t)'
  BY <1>2, <1>4, <1>5, StillPair DEF PairInv
<1>7. NeverHad(o, t)'
  BY <1>4, <1>6 DEF KeepsLocks
<1>8. CASE /\ Send(t, o, RmaDone(e.k, TRUE)) /\ Takes(t, i)
           /\ release' = [release EXCEPT ![t] =
                            IF lock_state[t] = "NOT_LOCKED" THEN 1 ELSE Len(lock_queue[t])]
  <2>1. /\ \A x, y \in Proc : x # o \/ y # t => KeepsQueue(lock_queue[y], lock_queue'[y], x)
        /\ NotQueued(o, t)'
    BY <1>0, <1>4, <1>8, TakesParts
  <2>2. HasNot(o, t)'
    BY <1>7 DEF NeverHad, HasNot
  <2>3. TRUE = Unlocks(o, t)
    BY <1>4, OwnUnlock DEF Uses, Stage
  <2>4. e.k \in Nat
    BY <1>4 DEF Entries
  <2>5. /\ \A x, y \in Proc : x # o \/ y # t => SameChan(x, y)
        /\ Answered(o, t)' /\ Linked(o, t)'
    BY <1>2, <1>3, <1>4, <1>8, <2>1, <2>2, <2>3, <2>4, Constants, AnswersDone
  <2>6. PairInv(o, t)'
    BY <1>6, <2>5 DEF PairInv, InOnePlace
  <2>7. \A p \in Proc : TargetInv(p)'
    <3>1. \A p \in Proc : p # t => release'[p] = release[p]
      BY <1>8
    <3>2. \A p \in Proc : release[p] = 0 => unlockDone[p] = None
      BY DEF Inv, TargetInv
    <3> QED
      BY <1>2, <3>1, <3>2, TargetsWalk
  <2> QED
    BY <1>2, <1>3, <2>1, <2>5, <2>6, <2>7, ServeAlone, StillLocks
<1>9. CASE /\ lock_queue' = [lock_queue EXCEPT ![t][i].data_recd = TRUE]
           /\ UNCHANGED <<chan, release>>
  <2>1. PICK f : f = [e EXCEPT !.data_recd = TRUE]
    OBVIOUS
  <2>2. /\ \A x, y \in Proc : x # o \/ y # t => KeepsQueue(lock_queue[y], lock_queue'[y], x)
        /\ Queued(o, t, f)'
    BY <1>0, <1>1, <1>4, <1>9, <2>1, EntryDone
  <2>3. f.k = e.k /\ f.type = e.type /\ f.op = e.op /\ f.data_recd
    BY <1>4, <2>1 DEF Entries
  <2>4. Queued(o, t, f)' /\ f \in Elements(lock_queue'[t])
    BY <2>2, Members DEF Queued
  <2>5. InQueue(o, t)'
    <3>1. /\ NotEnding(o, t)' /\ NotAnswered(o, t)' /\ K(o, t)' = K(o, t)
          /\ Uses(o, t, "done")' /\ Unlocks(o, t)' /\ Undone(o, t)'
      BY <1>2, <1>4, <1>9 DEF NotEnding, NotAnswered, K, Uses, Stage, Waits, Unlocks, Undone, origin
    <3> QED
      BY <1>3, <1>4, <1>5, <1>7, <1>9, <2>3, <2>4, <3>1 DEF InQueue
  <2>6. Linked(o, t)'
    BY <1>2, <1>4, <1>9, LinksCounted DEF PairInv, Linked
  <2>7. PairInv(o, t)'
    BY <1>6, <2>5, <2>6 DEF PairInv, InOnePlace
  <2> QED
    BY <1>2, <1>3, <1>9, <2>2, <2>7, ServeAlone, StillLocks, StillChan, TargetsStill
<1> QED
  BY <1>0, <1>1, <1>8, <1>9 DEF SinglePutAccumComplete, Takes

LEMMA AtItsEntry ==
  ASSUME Typed, NEW t \in Proc, AtEntry(t)
  PROVE  release[t] \in 1 .. Len(lock_queue[t]) /\ release[t] # 0
<1>1. lock_queue[t] \in Seq(Entries)
  BY DEF Typed, Entries
<1> QED
  BY <1>1, LenProperties DEF AtEntry

LEMMA InvSkipEntry ==
  ASSUME Typed, Inv, NEW t \in Proc, SkipEntry(t)
  PROVE  Inv'
<1>1. /\ UNCHANGED <<lock_state, shared_lock_ref_cnt, held>> /\ UNCHANGED origin
      /\ UNCHANGED <<plan, chan, reading, sending, held, lock_queue, unlockDone>>
      /\ release' = [release EXCEPT ![t] = @ + 1] /\ AtEntry(t)
  BY DEF SkipEntry
<1>2. \A p \in Proc : release[p] = 0 => unlockDone[p] = None
  BY DEF Inv, TargetInv
<1>3. release[t] \in Nat
  BY DEF Typed
<1>4. \A p \in Proc : p # t => release'[p] = release[p]
  BY <1>1
<1>5. release'[t] # 0
  <2>1. release'[t] = release[t] + 1
    BY <1>1, Counters
  <2> QED
    BY <1>3, <2>1
<1>6. \A p \in Proc : TargetInv(p)'
  BY <1>1, <1>2, <1>4, <1>5, TargetsWalk
<1> QED
  BY <1>1, <1>6, PairsStill

LEMMA InvGrantEntry ==
  ASSUME Typed, Inv, NEW t \in Proc, GrantEntry(t)
  PROVE  Inv'
<1>0. PICK i \in 1 .. Len(lock_queue[t]) : i = release[t]
  BY AtItsEntry DEF GrantEntry
<1>1. PICK e : e = lock_queue[t][i]
  OBVIOUS
<1>2. PICK o : o = e.src
  OBVIOUS
<1>3. /\ Acquire(o, t, e.type, e.k) /\ Takes(t, i) /\ e.op = 0
      /\ Send(t, o, LockPacket("LOCK_GRANTED", e.type, e.k))
      /\ release' = [release EXCEPT ![t] = IF e.type = "EXCLUSIVE" THEN Len(lock_queue[t]) ELSE @]
      /\ UNCHANGED <<plan, unlockDone, reading, sending>> /\ UNCHANGED origin
  BY <1>0, <1>1, <1>2 DEF GrantEntry, Entry, Takes
<1>4. /\ e \in Entries /\ o \in Proc /\ o # t /\ PairInv(o, t)
      /\ NotEnding(o, t) /\ NotAnswered(o, t) /\ NoRequest(chan[o][t]) /\ NeverHad(o, t)
      /\ Queued(o, t, e) /\ e.k = K(o, t) /\ e.type = lockType[o][t]
      /\ AsksFor(o, t) /\ reading[t][o] = None /\ remote_ops_done[o][t] = 1
  BY <1>1, <1>2, <1>3, EntryOf
<1>5. e.type \in Types /\ e.k \in Nat
  BY <1>4 DEF Entries
<1>6. lockType' = lockType /\ epochs' = epochs
  BY <1>3 DEF origin
<1>7. PICK a : a = LockPacket("LOCK_GRANTED", e.type, e.k)
  OBVIOUS
<1>8. a \in Packets
  BY <1>5, <1>7, Made, Constants
<1>9. /\ a.type = "LOCK_GRANTED" /\ a.lock = lockType[o][t] /\ FinalAnswer(a)
      /\ a.type \notin Requests /\ a.type # "RMA_RESP"
  BY <1>4, <1>7 DEF LockPacket, Packet, FinalAnswer, Requests
<1>10. \A p \in Proc : release'[p] = 0 => release[p] = 0
  <2>1. \A p \in Proc : p # t => release'[p] = release[p]
    BY <1>3
  <2>2. release[t] # 0 /\ release[t] \in 1 .. Len(lock_queue[t])
    BY AtItsEntry DEF GrantEntry
  <2>3. release'[t] = Len(lock_queue[t]) \/ release'[t] = release[t]
    BY <1>3, Counters
  <2>4. Len(lock_queue[t]) \in Nat
    BY <1>0, TakesTyped, <1>3
  <2> QED
    BY <2>1, <2>2, <2>3, <2>4
<1>11. /\ \A p \in Proc : TargetInv(p)'
       /\ Has(o, t)' /\ OldLocks(o, t)'
       /\ \A x, y \in Proc : x # o \/ y # t => SameLocks(x, y)
  BY <1>3, <1>4, <1>6, <1>10, Acquired
<1>12. /\ \A x, y \in Proc : x # o \/ y # t => SameChan(x, y)
       /\ chan'[o][t] = chan[o][t] /\ chan'[t][o] = Append(chan[t][o], a)
       /\ Linked(o, t)'
  BY <1>3, <1>4, <1>7, <1>8, <1>9, AnswerSent
<1>13. /\ \A x, y \in Proc : x # o \/ y # t => KeepsQueue(lock_queue[y], lock_queue'[y], x)
       /\ NotQueued(o, t)'
  BY <1>1, <1>2, <1>3, <1>4, TakesParts
<1>14. Answered(o, t)'
  <2>1. /\ NotEnding(o, t)' /\ AsksFor(o, t)' /\ remote_ops_done'[o][t] = 1
        /\ a.lock = lockType'[o][t]
    BY <1>3, <1>4, <1>6, <1>9 DEF NotEnding, AsksFor, Stage, Waits, origin
  <2>2. Clean(o, t)'
    BY <1>3, <1>4, <1>12 DEF Clean
  <2>3. OneAnswer(chan[t][o], a)' /\ a \in Elements(chan[t][o])'
    BY <1>4, <1>8, <1>9, <1>12, AnsweredWith
  <2> QED
    BY <1>9, <1>11, <1>13, <2>1, <2>2, <2>3 DEF Answered
<1>15. PairInv(o, t)'
  BY <1>11, <1>12, <1>14 DEF PairInv, InOnePlace
<1> QED
  BY <1>3, <1>4, <1>11, <1>12, <1>13, <1>15, ServeAlone

LEMMA InvServeEntry ==
  ASSUME Typed, Inv, NEW t \in Proc, ServeEntry(t)
  PROVE  Inv'
<1>0. PICK i \in 1 .. Len(lock_queue[t]) : i = release[t]
  BY AtItsEntry DEF ServeEntry
<1>1. PICK e : e = lock_queue[t][i]
  OBVIOUS
<1>2. PICK o : o = e.src
  OBVIOUS
<1>3. /\ Takes(t, i) /\ e.op # 0 /\ e.data_recd
      /\ Send(t, o, RmaDone(e.k, TRUE))
      /\ UNCHANGED <<lock_state, shared_lock_ref_cnt, held, release, unlockDone>>
      /\ UNCHANGED <<plan, unlockDone, reading, held, sending>> /\ UNCHANGED origin
  BY <1>0, <1>1, <1>2 DEF ServeEntry, Entry, Takes
<1>4. /\ e \in Entries /\ o \in Proc /\ o # t /\ PairInv(o, t)
      /\ NotEnding(o, t) /\ NotAnswered(o, t) /\ NoRequest(chan[o][t]) /\ NeverHad(o, t)
      /\ Queued(o, t, e) /\ e.k = K(o, t)
      /\ Uses(o, t, "done") /\ Unlocks(o, t) /\ Undone(o, t) /\ reading[t][o] = None
  BY <1>1, <1>2, <1>3, EntryOf
<1>5. lockType' = lockType /\ epochs' = epochs
  BY <1>3 DEF origin
<1>6. KeepsLocks(o, t) /\ OldLocks(o, t)'
  BY <1>3, <1>4, <1>5, StillPair DEF PairInv
<1>7. HasNot(o, t)'
  BY <1>4, <1>6 DEF KeepsLocks, NeverHad, HasNot
<1>8. /\ \A x, y \in Proc : x # o \/ y # t => KeepsQueue(lock_queue[y], lock_queue'[y], x)
      /\ NotQueued(o, t)'
  BY <1>1, <1>2, <1>3, <1>4, TakesParts
<1>9. TRUE = Unlocks(o, t) /\ e.k \in Nat /\ reading'[t][o] = None
  <2>1. TRUE = Unlocks(o, t)
    BY <1>4, OwnUnlock DEF Uses, Stage
  <2> QED
    BY <1>3, <1>4, <2>1 DEF Entries
<1>10. /\ \A x, y \in Proc : x # o \/ y # t => SameChan(x, y)
       /\ Answered(o, t)' /\ Linked(o, t)'
  BY <1>3, <1>4, <1>7, <1>8, <1>9, Constants, AnswersDone
<1>11. PairInv(o, t)'
  BY <1>6, <1>10 DEF PairInv, InOnePlace
<1> QED
  BY <1>3, <1>4, <1>8, <1>10, <1>11, ServeAlone, StillLocks, TargetsStill

LEMMA InvReleased ==
  ASSUME Typed, Inv, NEW t \in Proc, Released(t)
  PROVE  Inv'
<1>1. /\ UNCHANGED <<lock_state, shared_lock_ref_cnt, held>>
      /\ UNCHANGED <<plan, lock_queue, reading, sending>> /\ UNCHANGED origin
      /\ IF unlockDone[t] = None THEN chan' = chan
         ELSE Send(t, unlockDone[t], Bare("UNLOCK_DONE", 0))
      /\ release' = [release EXCEPT ![t] = 0]
      /\ unlockDone' = [unlockDone EXCEPT ![t] = None]
  BY DEF Released
<1>2. /\ unlockDone'[t] = None /\ \A p \in Proc : p # t => unlockDone'[p] = unlockDone[p]
      /\ \A p \in Proc : p # t => release'[p] = release[p]
  <2>1. unlockDone \in [Proc -> Proc \cup {None}] /\ release \in [Proc -> Nat]
    BY DEF Typed
  <2> QED
    BY <1>1, <2>1
<1>3. \A p \in Proc : release[p] = 0 => unlockDone[p] = None
  BY DEF Inv, TargetInv
<1>4. \A p \in Proc : TargetInv(p)'
  BY <1>1, <1>2, <1>3, TargetsWalk
<1>5. CASE unlockDone[t] = None
  <2>1. unlockDone' = unlockDone
    <3>1. unlockDone \in [Proc -> Proc \cup {None}]
      BY DEF Typed
    <3> QED
      BY <1>1, <1>5, <3>1
  <2> QED
    BY <1>1, <1>4, <1>5, <2>1, PairsStill
<1>6. CASE unlockDone[t] # None
  <2>1. PICK o \in Proc : o = unlockDone[t]
    <3>1. unlockDone \in [Proc -> Proc \cup {None}]
      BY DEF Typed
    <3> QED
      BY <1>6, <3>1
  <2>2. PairInv(o, t)
    BY DEF Inv, PairInv
  <2>3. Ending(o, t)
    BY <2>1, <2>2, UnlockEnds DEF NotEnding
  <2>4. o # t
    BY <2>2, <2>3 DEF PairInv, Linked, Ending, Uses, Stage
  <2>5. PICK a : a = Bare("UNLOCK_DONE", 0)
    OBVIOUS
  <2>6. a \in Packets
    BY <2>5, Made, Constants
  <2>7. /\ a.type = "UNLOCK_DONE" /\ FinalAnswer(a)
        /\ a.type \notin Requests /\ a.type # "RMA_RESP"
    BY <2>5 DEF Bare, Packet, FinalAnswer, Requests
  <2>8. /\ \A x, y \in Proc : x # o \/ y # t => SameChan(x, y)
        /\ chan'[o][t] = chan[o][t] /\ chan'[t][o] = Append(chan[t][o], a)
        /\ Linked(o, t)'
    BY <1>1, <1>6, <2>1, <2>2, <2>4, <2>5, <2>6, <2>7, AnswerSent
  <2>9. lockType' = lockType /\ epochs' = epochs
    BY <1>1 DEF origin
  <2>10. KeepsLocks(o, t) /\ OldLocks(o, t)'
    BY <1>1, <2>2, <2>9, StillPair DEF PairInv
  <2>11. Answered(o, t)'
    <3>1. NotQueued(o, t)' /\ HasNot(o, t)'
      BY <1>1, <2>3, <2>10 DEF Ending, NotQueued, KeepsLocks
    <3>2. /\ NotEnding(o, t)' /\ remote_ops_done'[o][t] = 1
          /\ Uses(o, t, "unlock")' /\ Unlocks(o, t)'
      BY <1>1, <1>2, <2>3, NoneAssumption
         DEF Ending, NotEnding, Uses, Stage, Waits, Unlocks, origin
    <3>3. Clean(o, t)'
      BY <1>1, <2>3, <2>8 DEF Ending, Clean
    <3>4. OneAnswer(chan[t][o], a)' /\ a \in Elements(chan[t][o])'
      BY <2>3, <2>6, <2>7, <2>8, AnsweredWith DEF Ending
    <3> QED
      BY <2>7, <3>1, <3>2, <3>3, <3>4 DEF Answered
  <2>12. PairInv(o, t)'
    BY <2>8, <2>10, <2>11 DEF PairInv, InOnePlace
  <2>13. \A x, y \in Proc : x # o \/ y # t => (unlockDone'[y] = x <=> unlockDone[y] = x)
    BY <1>2, <2>1, NoneAssumption
  <2> QED
    BY <1>1, <1>4, <2>8, <2>12, <2>13, ServeAlone, StillLocks, StillQueue
<1> QED
  BY <1>5, <1>6

-----------------------------------------------------------------------------
(* The answers at the origin. *)
LEMMA AnswerReceived ==
  ASSUME Typed, NEW o \in Proc, NEW t \in Proc, o # t, PairInv(o, t),
         chan[t][o] # <<>>, Head(chan[t][o]).type \notin Requests, Receive(t, o),
         UNCHANGED <<plan, call, rma_ops_list>>,
         gets'[o][t] = gets[o][t] - (IF Head(chan[t][o]).type = "RMA_RESP" THEN 1 ELSE 0)
  PROVE  /\ \A a, b \in Proc : a # o \/ b # t => SameChan(a, b)
         /\ chan'[t][o] = Tail(chan[t][o]) /\ chan'[o][t] = chan[o][t]
         /\ Linked(o, t)'
<1>1. chan[t][o] \in Seq(Packets) /\ chan[o][t] \in Seq(Packets)
  BY DEF Typed
<1>2. PICK r : r = Tail(chan[t][o])
  OBVIOUS
<1>3. r \in Seq(Packets)
  BY <1>1, <1>2, FirstTaken
<1>4. SameRequests(chan[t][o], r)
  BY <1>1, <1>2, AnswerTaken
<1>5. ChanSet(t, o, r)
  BY <1>2 DEF ChanSet, Receive
<1>6. /\ \A a, b \in Proc : a # o \/ b # t => SameChan(a, b)
      /\ chan'[t][o] = r /\ chan'[o][t] = chan[o][t]
  BY <1>3, <1>4, <1>5, ChanAnswer
<1>7. NumberOf(r, "RMA_RESP")
        = NumberOf(chan[t][o], "RMA_RESP") - (IF Head(chan[t][o]).type = "RMA_RESP" THEN 1 ELSE 0)
  BY <1>1, <1>2, NumberTaken
<1>8. /\ NumberOf(chan[t][o], "RMA_RESP") \in Nat /\ NumberOf(chan[o][t], "GET") \in Nat
  BY <1>1, PlacesFinite
<1>9. gets'[o][t] = NumberOf(chan'[o][t], "GET") + NumberOf(chan'[t][o], "RMA_RESP")
  <2>1. gets[o][t] = NumberOf(chan[o][t], "GET") + NumberOf(chan[t][o], "RMA_RESP")
    BY DEF PairInv, Linked
  <2> QED
    BY <1>6, <1>7, <1>8, <2>1
<1>10. Linked(o, t)'
  BY <1>6, <1>9 DEF PairInv, Linked, Stage, Waits, Unlocks
<1> QED
  BY <1>2, <1>6, <1>10

(* The answer for which its call waits ends the way of a request. *)
LEMMA Rested ==
  ASSUME NEW o \in Proc, NEW t \in Proc, Answered(o, t), UnchangedAtTargets,
         reading' = reading, sending' = sending, call' = call, lockType' = lockType,
         epochs' = epochs, chan'[o][t] = chan[o][t], NoAnswer(chan'[t][o]),
         remote_ops_done'[o][t] = 1, Waits(o, t),
         \/ /\ remote_lock_state'[o][t] = "NOT_LOCKED" /\ HasNot(o, t)
            /\ Unlocks(o, t) /\ call[o].stage \in {"unlock", "done"}
         \/ /\ remote_lock_state'[o][t] = lockType[o][t] /\ Has(o, t)
            /\ call[o].stage = "grant" \/ (call[o].stage = "done" /\ ~Unlocks(o, t))
  PROVE  AtRest(o, t)'
<1>1. NotQueued(o, t) /\ NotEnding(o, t) /\ Clean(o, t)
  BY DEF Answered
<1>2. NotQueued(o, t)' /\ NotEnding(o, t)' /\ held' = held
  BY <1>1, TargetsKept
<1>3. NotInChan(o, t)' /\ Clean(o, t)'
  BY <1>1, Sides DEF NotInChan, Clean, NoRequest, NoFinal
<1>4. NotAnswered(o, t)' /\ (Waits(o, t)' <=> Waits(o, t)) /\ (Unlocks(o, t)' <=> Unlocks(o, t))
  BY DEF NotAnswered, Waits, Unlocks
<1>5. (HasNot(o, t) => HasNot(o, t)') /\ (Has(o, t) => Has(o, t)')
  BY <1>2 DEF Has, HasNot, K
<1>6. ReadsPart(o, t)'
  BY <1>3 DEF Clean, ReadsPart
<1> QED
  BY <1>2, <1>3, <1>4, <1>5, <1>6 DEF AtRest

LEMMA AnswerRead ==
  ASSUME Typed, NEW o \in Proc, NEW t \in Proc, PairInv(o, t), chan[t][o] # <<>>,
         NEW m, m = Head(chan[t][o]), FinalAnswer(m)
  PROVE  /\ Answered(o, t) /\ NoAnswer(Tail(chan[t][o])) /\ Waits(o, t)
         /\ \/ /\ m.type = "LOCK_GRANTED" /\ AsksFor(o, t) /\ Has(o, t) /\ m.lock = lockType[o][t]
               /\ remote_ops_done[o][t] = 1
            \/ /\ m.type = "UNLOCK_DONE" /\ Uses(o, t, "unlock") /\ Unlocks(o, t) /\ HasNot(o, t)
               /\ remote_ops_done[o][t] = 1
            \/ /\ m.type = "PT_RMA_DONE" /\ Uses(o, t, "done") /\ m.unlock = Unlocks(o, t)
               /\ IF m.unlock THEN HasNot(o, t) ELSE Has(o, t)
               /\ Undone(o, t)
            \/ /\ m.type = "RMA_RESP" /\ Uses(o, t, "done") /\ Unlocks(o, t) /\ HasNot(o, t)
               /\ remote_ops_done[o][t] = 1
<1>1. /\ Answered(o, t) /\ OneAnswer(chan[t][o], m) /\ NoAnswer(Tail(chan[t][o]))
      /\ \A x : OneAnswer(chan[t][o], x) => x = m
  BY HeadAnswers
<1>2. \/ /\ m.type = "LOCK_GRANTED" /\ AsksFor(o, t) /\ Has(o, t) /\ m.lock = lockType[o][t]
         /\ remote_ops_done[o][t] = 1
      \/ /\ m.type = "UNLOCK_DONE" /\ Uses(o, t, "unlock") /\ Unlocks(o, t) /\ HasNot(o, t)
         /\ remote_ops_done[o][t] = 1
      \/ /\ m.type = "PT_RMA_DONE" /\ Uses(o, t, "done") /\ m.unlock = Unlocks(o, t)
         /\ IF m.unlock THEN HasNot(o, t) ELSE Has(o, t)
         /\ Undone(o, t)
      \/ /\ m.type = "RMA_RESP" /\ Uses(o, t, "done") /\ Unlocks(o, t) /\ HasNot(o, t)
         /\ remote_ops_done[o][t] = 1
  BY <1>1 DEF Answered
<1>3. Waits(o, t)
  BY <1>2 DEF AsksFor, Uses, Stage
<1> QED
  BY <1>1, <1>2, <1>3

(* What the handlers of the answers have in common. *)
LEMMA Learned ==
  ASSUME Typed, Inv, NEW o \in Proc, NEW t \in Proc, o # t, NEW state, Learn(o, t, state),
         \A a, b \in Proc : a # o \/ b # t => SameChan(a, b),
         OnlyAt(remote_ops_done, remote_ops_done', o, t), OnlyAt(gets, gets', o, t),
         InOnePlace(o, t)', Linked(o, t)'
  PROVE  Inv'
<1>1. /\ UnchangedAtTargets /\ reading' = reading /\ sending' = sending /\ plan' = plan
      /\ call' = call /\ lockType' = lockType /\ epochs' = epochs /\ rma_ops_list' = rma_ops_list
      /\ remote_lock_state' = [remote_lock_state EXCEPT ![o][t] = state]
  BY DEF Learn
<1>2. OnlyAt(remote_lock_state, remote_lock_state', o, t)
  <2>1. remote_lock_state \in [Proc -> [Proc -> Types \cup {"NOT_LOCKED", "LOCK_REQUESTED"}]]
    BY DEF Typed
  <2> QED
    BY <1>1, <2>1, ChangedAt
<1>3. /\ OnlyAt(lockType, lockType', o, t) /\ OnlyAt(epochs, epochs', o, t)
      /\ OnlyAt(rma_ops_list, rma_ops_list', o, t)
  BY <1>1 DEF OnlyAt
<1>4. PairInv(o, t)
  BY DEF Inv, PairInv
<1>5. held' = held
  BY <1>1 DEF UnchangedAtTargets, target
<1>6. OldLocks(o, t)'
  BY <1>1, <1>4, <1>5, StillPair DEF PairInv
<1>7. PairInv(o, t)'
  BY <1>6 DEF PairInv
<1> QED
  BY <1>1, <1>2, <1>3, <1>7, CallAlone

LEMMA LearnedState ==
  ASSUME Typed, NEW o \in Proc, NEW t \in Proc, NEW state, Learn(o, t, state)
  PROVE  /\ remote_lock_state'[o][t] = state
         /\ UnchangedAtTargets /\ Receive(t, o)
         /\ reading' = reading /\ sending' = sending /\ call' = call /\ lockType' = lockType
         /\ epochs' = epochs /\ plan' = plan /\ rma_ops_list' = rma_ops_list
<1>1. remote_lock_state \in [Proc -> [Proc -> Types \cup {"NOT_LOCKED", "LOCK_REQUESTED"}]]
  BY DEF Typed
<1> QED
  BY <1>1 DEF Learn

LEMMA InvHandleLockGranted ==
  ASSUME Typed, Inv, NEW o \in Proc, NEW t \in Proc, o # t,
         HandleLockGranted(o, t) \/ HandleUnlockDone(o, t)
  PROVE  Inv'
<1>0. PICK m : m = Head(chan[t][o])
  OBVIOUS
<1>1. PICK state : /\ Learn(o, t, state) /\ chan[t][o] # <<>>
                   /\ UNCHANGED <<remote_ops_done, gets>>
                   /\ \/ m.type = "LOCK_GRANTED" /\ state = m.lock
                      \/ m.type = "UNLOCK_DONE" /\ state = "NOT_LOCKED"
  BY <1>0 DEF HandleLockGranted, HandleUnlockDone, First
<1>2. /\ remote_lock_state'[o][t] = state
      /\ UnchangedAtTargets /\ Receive(t, o)
      /\ reading' = reading /\ sending' = sending /\ call' = call /\ lockType' = lockType
      /\ epochs' = epochs /\ plan' = plan /\ rma_ops_list' = rma_ops_list
  BY <1>1, LearnedState
<1>3. PairInv(o, t)
  BY DEF Inv, PairInv
<1>4. FinalAnswer(m) /\ m.type \notin Requests /\ m.type # "RMA_RESP" /\ m.type # "PT_RMA_DONE"
  BY <1>1 DEF FinalAnswer, Requests
<1>5. /\ Answered(o, t) /\ NoAnswer(Tail(chan[t][o])) /\ Waits(o, t)
      /\ remote_ops_done[o][t] = 1
      /\ \/ /\ m.type = "LOCK_GRANTED" /\ AsksFor(o, t) /\ Has(o, t) /\ m.lock = lockType[o][t]
         \/ /\ m.type = "UNLOCK_DONE" /\ Uses(o, t, "unlock") /\ Unlocks(o, t) /\ HasNot(o, t)
  BY <1>0, <1>1, <1>3, <1>4, AnswerRead
<1>6. gets'[o][t] = gets[o][t] - (IF m.type = "RMA_RESP" THEN 1 ELSE 0)
  <2>1. gets[o][t] \in Int
    BY Counters
  <2> QED
    BY <1>1, <1>4, <2>1
<1>7. /\ \A a, b \in Proc : a # o \/ b # t => SameChan(a, b)
      /\ chan'[t][o] = Tail(chan[t][o]) /\ chan'[o][t] = chan[o][t]
      /\ Linked(o, t)'
  BY <1>0, <1>1, <1>2, <1>3, <1>4, <1>6, AnswerReceived
<1>8. AtRest(o, t)'
  <2>1. \/ /\ remote_lock_state'[o][t] = "NOT_LOCKED" /\ HasNot(o, t)
           /\ Unlocks(o, t) /\ call[o].stage \in {"unlock", "done"}
        \/ /\ remote_lock_state'[o][t] = lockType[o][t] /\ Has(o, t)
           /\ call[o].stage = "grant" \/ (call[o].stage = "done" /\ ~Unlocks(o, t))
    BY <1>1, <1>2, <1>5 DEF AsksFor, Uses, Stage
  <2> QED
    BY <1>1, <1>2, <1>5, <1>7, <2>1, Rested
<1>9. OnlyAt(remote_ops_done, remote_ops_done', o, t) /\ OnlyAt(gets, gets', o, t)
  BY <1>1 DEF OnlyAt
<1> QED
  BY <1>1, <1>7, <1>8, <1>9, Learned DEF InOnePlace

LEMMA InvHandlePtRmaDone ==
  ASSUME Typed, Inv, NEW o \in Proc, NEW t \in Proc, o # t, HandlePtRmaDone(o, t)
  PROVE  Inv'
<1>0. PICK m : m = Head(chan[t][o])
  OBVIOUS
<1>1. PICK state : /\ Learn(o, t, state) /\ chan[t][o] # <<>> /\ m.type = "PT_RMA_DONE"
                   /\ remote_ops_done' = [remote_ops_done EXCEPT ![o][t] = 1]
                   /\ gets' = gets
                   /\ state = IF m.unlock THEN "NOT_LOCKED" ELSE remote_lock_state[o][t]
  BY <1>0 DEF HandlePtRmaDone, First, StateAfter
<1>2. /\ remote_lock_state'[o][t] = state
      /\ UnchangedAtTargets /\ Receive(t, o)
      /\ reading' = reading /\ sending' = sending /\ call' = call /\ lockType' = lockType
      /\ epochs' = epochs /\ plan' = plan /\ rma_ops_list' = rma_ops_list
  BY <1>1, LearnedState
<1>3. PairInv(o, t)
  BY DEF Inv, PairInv
<1>4. FinalAnswer(m) /\ m.type \notin Requests
  BY <1>1 DEF FinalAnswer, Requests
<1>5. /\ Answered(o, t) /\ NoAnswer(Tail(chan[t][o])) /\ Waits(o, t)
      /\ Uses(o, t, "done") /\ m.unlock = Unlocks(o, t)
      /\ IF m.unlock THEN HasNot(o, t) ELSE Has(o, t)
  BY <1>0, <1>1, <1>3, <1>4, AnswerRead
<1>6. gets'[o][t] = gets[o][t] - (IF m.type = "RMA_RESP" THEN 1 ELSE 0)
  <2>1. gets[o][t] \in Int
    BY Counters
  <2> QED
    BY <1>1, <2>1
<1>7. /\ \A a, b \in Proc : a # o \/ b # t => SameChan(a, b)
      /\ chan'[t][o] = Tail(chan[t][o]) /\ chan'[o][t] = chan[o][t]
      /\ Linked(o, t)'
  BY <1>0, <1>1, <1>2, <1>3, <1>4, <1>6, AnswerReceived
<1>8. /\ OnlyAt(remote_ops_done, remote_ops_done', o, t) /\ OnlyAt(gets, gets', o, t)
      /\ remote_ops_done'[o][t] = 1
  <2>1. remote_ops_done \in [Proc -> [Proc -> {0, 1}]]
    BY DEF Typed
  <2>2. OnlyAt(remote_ops_done, remote_ops_done', o, t) /\ remote_ops_done'[o][t] = 1
    BY <1>1, <2>1, ChangedAt
  <2> QED
    BY <1>1, <2>2 DEF OnlyAt
<1>9. AtRest(o, t)'
  <2>1. \/ /\ remote_lock_state'[o][t] = "NOT_LOCKED" /\ HasNot(o, t)
           /\ Unlocks(o, t) /\ call[o].stage \in {"unlock", "done"}
        \/ /\ remote_lock_state'[o][t] = lockType[o][t] /\ Has(o, t)
           /\ call[o].stage = "grant" \/ (call[o].stage = "done" /\ ~Unlocks(o, t))
    BY <1>1, <1>2, <1>5 DEF Uses, Stage
  <2> QED
    BY <1>2, <1>5, <1>7, <1>8, <2>1, Rested
<1> QED
  BY <1>1, <1>7, <1>8, <1>9, Learned DEF InOnePlace

LEMMA InvHandleRmaResp ==
  ASSUME Typed, Inv, NEW o \in Proc, NEW t \in Proc, o # t, HandleRmaResp(o, t)
  PROVE  Inv'
<1>0. PICK m : m = Head(chan[t][o])
  OBVIOUS
<1>1. PICK state : /\ Learn(o, t, state) /\ chan[t][o] # <<>> /\ m.type = "RMA_RESP"
                   /\ gets' = [gets EXCEPT ![o][t] = @ - 1]
                   /\ remote_ops_done' = remote_ops_done
                   /\ state = IF m.unlock THEN "NOT_LOCKED" ELSE remote_lock_state[o][t]
  BY <1>0 DEF HandleRmaResp, First, StateAfter
<1>2. /\ remote_lock_state'[o][t] = state
      /\ UnchangedAtTargets /\ Receive(t, o)
      /\ reading' = reading /\ sending' = sending /\ call' = call /\ lockType' = lockType
      /\ epochs' = epochs /\ plan' = plan /\ rma_ops_list' = rma_ops_list
  BY <1>1, LearnedState
<1>3. PairInv(o, t)
  BY DEF Inv, PairInv
<1>4. m.type \notin Requests
  BY <1>1 DEF Requests
<1>5. /\ OnlyAt(remote_ops_done, remote_ops_done', o, t) /\ OnlyAt(gets, gets', o, t)
      /\ gets'[o][t] = gets[o][t] - (IF m.type = "RMA_RESP" THEN 1 ELSE 0)
  <2>1. gets \in [Proc -> [Proc -> Int]]
    BY DEF Typed
  <2>2. OnlyAt(gets, gets', o, t) /\ gets'[o][t] = gets[o][t] - 1
    BY <1>1, <2>1, ChangedAt
  <2> QED
    BY <1>1, <2>2 DEF OnlyAt
<1>6. /\ \A a, b \in Proc : a # o \/ b # t => SameChan(a, b)
      /\ chan'[t][o] = Tail(chan[t][o]) /\ chan'[o][t] = chan[o][t]
      /\ Linked(o, t)'
  BY <1>0, <1>1, <1>2, <1>3, <1>4, <1>5, AnswerReceived
<1>7. CASE m.unlock
  <2>1. FinalAnswer(m)
    BY <1>1, <1>7 DEF FinalAnswer
  <2>2. /\ Answered(o, t) /\ NoAnswer(Tail(chan[t][o])) /\ Waits(o, t)
        /\ Uses(o, t, "done") /\ Unlocks(o, t) /\ HasNot(o, t) /\ remote_ops_done[o][t] = 1
    BY <1>0, <1>1, <1>3, <2>1, AnswerRead
  <2>3. AtRest(o, t)'
    <3>1. /\ remote_lock_state'[o][t] = "NOT_LOCKED" /\ HasNot(o, t)
          /\ Unlocks(o, t) /\ call[o].stage \in {"unlock", "done"}
      BY <1>1, <1>2, <1>7, <2>2 DEF Uses, Stage
    <3> QED
      BY <1>1, <1>2, <1>6, <2>2, <3>1, Rested
  <2> QED
    BY <1>1, <1>5, <1>6, <2>3, Learned DEF InOnePlace
<1>8. CASE ~m.unlock
  <2>1. ~FinalAnswer(m)
    BY <1>1, <1>8 DEF FinalAnswer
  <2>2. KeepsAnswers(chan[t][o], chan'[t][o])
    <3>1. chan[t][o] \in Seq(Packets)
      BY DEF Typed
    <3> QED
      BY <1>0, <1>1, <1>6, <2>1, <3>1, FrontAnswer DEF KeepsAnswers
  <2>3. KeepsRequests(chan[o][t], chan'[o][t])
    BY <1>6 DEF KeepsRequests
  <2>4. SameOrigin(o, t)
    BY <1>1, <1>2, <1>8 DEF SameOrigin, Waits
  <2>5. SameTarget(o, t) /\ held' = held
    BY <1>2, StillQueue DEF UnchangedAtTargets, target, SameTarget
  <2>6. KeepsLocks(o, t)
    BY <1>2, <2>5, StillPair
  <2>7. InOnePlace(o, t)'
    BY <1>3, <2>2, <2>3, <2>4, <2>5, <2>6, PlaceKept DEF SamePlace, PairInv
  <2> QED
    BY <1>1, <1>5, <1>6, <2>7, Learned
<1> QED
  BY <1>7, <1>8

-----------------------------------------------------------------------------
(* All steps. *)
LEMMA NotSelf ==
  ASSUME Typed, Inv, NEW p \in Proc, NEW q \in Proc, Serve(p, q)
  PROVE  q # p
<1>1. SUFFICES ASSUME q = p PROVE FALSE
  OBVIOUS
<1>2. /\ chan[p][p] = <<>> /\ reading[p][p] = None
      /\ \A x \in sending : x[1] = p => x[2] # p
  BY DEF Inv, Linked, OldLocks
<1>3. \A type : ~First(p, p, type)
  BY <1>2 DEF First
<1>4. \A k : ~GetSendRespComplete(p, p, k)
  BY <1>2 DEF GetSendRespComplete
<1>5. ~PutRespComplete(p, p) /\ ~SinglePutAccumComplete(p, p)
  BY <1>2 DEF PutRespComplete, SinglePutAccumComplete
<1> QED
  BY <1>1, <1>3, <1>4, <1>5
     DEF Serve, HandleLock, HandleUnlock, HandlePut, HandleLockPut, HandleLockAccum, HandleGet,
         HandleLockGranted, HandleUnlockDone, HandlePtRmaDone, HandleRmaResp

LEMMA ServesKeep ==
  ASSUME Typed, Inv, NEW p \in Proc, NEW q \in Proc, Serve(p, q)
  PROVE  Typed' /\ Inv'
<1>1. q # p
  BY NotSelf
<1>2. CASE HandleLock(p, q)
  BY <1>1, <1>2, TypedServes, InvHandleLock
<1>3. CASE HandleUnlock(p, q)
  BY <1>1, <1>3, TypedServes, InvHandleUnlock
<1>4. CASE HandlePut(p, q)
  BY <1>1, <1>4, TypedServes, InvHandlePut
<1>5. CASE HandleLockPut(p, q) \/ HandleLockAccum(p, q)
  BY <1>1, <1>5, TypedServes, InvHandleLockPut
<1>6. CASE HandleGet(p, q)
  BY <1>1, <1>6, TypedReads, InvHandleGet
<1>7. CASE \E k \in 1 .. plan.epochs : GetSendRespComplete(p, q, k)
  <2>1. PICK k \in 1 .. plan.epochs : GetSendRespComplete(p, q, k)
    BY <1>7
  <2>2. plan.epochs \in Nat
    BY PlansAssumption DEF Typed
  <2>3. k \in Nat
    BY <2>2
  <2> QED
    BY <1>1, <2>1, <2>3, TypedReads, InvGetSendRespComplete
<1>8. CASE PutRespComplete(p, q)
  BY <1>1, <1>8, TypedReads, InvPutRespComplete
<1>9. CASE SinglePutAccumComplete(p, q)
  BY <1>1, <1>9, TypedReads, InvSinglePutAccumComplete
<1>10. CASE HandleLockGranted(p, q) \/ HandleUnlockDone(p, q)
  BY <1>1, <1>10, TypedAnswers, InvHandleLockGranted
<1>11. CASE HandlePtRmaDone(p, q)
  BY <1>1, <1>11, TypedAnswers, InvHandlePtRmaDone
<1>12. CASE HandleRmaResp(p, q)
  BY <1>1, <1>12, TypedAnswers, InvHandleRmaResp
<1> QED
  BY <1>2, <1>3, <1>4, <1>5, <1>6, <1>7, <1>8, <1>9, <1>10, <1>11, <1>12 DEF Serve

LEMMA ContinuesKeep ==
  ASSUME Typed, Inv, NEW p \in Proc, Continue(p)
  PROVE  Typed' /\ Inv'
<1>1. CASE SelfLocked(p)
  BY <1>1, TypedOrigins, InvSelfLocked
<1>2. CASE Granted(p)
  <2>1. Inv' /\ rma_ops_list[p][call[p].t] # <<>>
    BY <1>2, InvGranted
  <2>2. CASE \E t \in Proc : t # p
    BY <1>2, <2>1, <2>2, TypedAnswers
  <2>3. CASE \A t \in Proc : t = p
    <3>1. call[p].t \in Proc
      BY <1>2 DEF Granted, Typed, Calls
    <3>2. Linked(p, p)
      BY DEF Inv
    <3> QED
      BY <2>1, <2>3, <3>1, <3>2 DEF Linked
  <2> QED
    BY <2>1, <2>2, <2>3
<1>3. CASE Return(p)
  BY <1>3, TypedOrigins, InvReturn
<1>4. CASE SkipEntry(p)
  BY <1>4, TypedReleases, InvSkipEntry
<1>5. CASE GrantEntry(p)
  BY <1>5, TypedReleases, InvGrantEntry
<1>6. CASE ServeEntry(p)
  BY <1>6, TypedReleases, InvServeEntry
<1>7. CASE Released(p)
  BY <1>7, TypedReleases, InvReleased
<1> QED
  BY <1>1, <1>2, <1>3, <1>4, <1>5, <1>6, <1>7 DEF Continue

LEMMA FlushesKeep ==
  ASSUME Typed, Inv, NEW o \in Proc, NEW t \in Proc, NEW unlock \in BOOLEAN, NEW isLocal \in BOOLEAN,
         isLocal => "flush_local" \in plan.flushes /\ ~unlock,
         FlushLocked(o, t, unlock, isLocal) \/ FlushUnlocked(o, t, unlock, isLocal)
  PROVE  Typed' /\ Inv'
BY TypedSends, InvFlushLocked, InvFlushUnlocked

LEMMA CallsKeep ==
  ASSUME Typed, Inv, LocalGets, NEW o \in Proc,
         StartEpoch(o) \/ Access(o) \/ \E t \in Proc : Unlock(o, t) \/ Flush(o, t)
  PROVE  Typed' /\ Inv'
<1>1. CASE \E type \in Types : LockSelf(o, type)
  BY <1>1, TypedOrigins, InvLockSelf
<1>2. CASE \E type \in Types, t \in Proc : Lock(o, t, type)
  BY <1>2, TypedOrigins, InvLock
<1>3. CASE AccessSelf(o)
  BY <1>3, TypedOrigins, InvAccessSelf
<1>4. CASE \E t \in Proc, kind \in plan.kinds : Queue(o, t, kind)
  <2>1. plan.kinds \subseteq Kinds
    BY PlansAssumption DEF Typed
  <2> QED
    BY <1>4, <2>1, TypedSends, InvQueue
<1>5. ASSUME NEW t \in Proc, Unlock(o, t) PROVE Typed' /\ Inv'
  <2>1. CASE UnlockSelf(o)
    BY <2>1, TypedOrigins, InvUnlockSelf
  <2>2. CASE UnlockUnused(o, t)
    BY <2>2, TypedOrigins, InvUnlockUnused
  <2>3. CASE UnlockEmpty(o, t)
    BY <2>3, TypedSends, InvUnlockEmpty
  <2>4. CASE UnlockSingleOp(o, t)
    BY <2>4, TypedSends, InvUnlockSingleOp
  <2>5. CASE FlushLocked(o, t, TRUE, FALSE) \/ FlushUnlocked(o, t, TRUE, FALSE)
    BY <2>5, Constants, FlushesKeep
  <2> QED
    BY <1>5, <2>1, <2>2, <2>3, <2>4, <2>5 DEF Unlock
<1>6. ASSUME NEW t \in Proc, Flush(o, t) PROVE Typed' /\ Inv'
  <2>1. CASE FlushEmpty(o, t)
    BY <2>1, TypedOrigins, InvFlushEmpty
  <2>2. CASE FlushLocked(o, t, FALSE, FALSE) \/ FlushUnlocked(o, t, FALSE, FALSE)
    BY <2>2, Constants, FlushesKeep
  <2>3. CASE /\ "flush_local" \in plan.flushes
             /\ FlushLocked(o, t, FALSE, TRUE) \/ FlushUnlocked(o, t, FALSE, TRUE)
    BY <2>3, Constants, FlushesKeep
  <2> QED
    BY <1>6, <2>1, <2>2, <2>3 DEF Flush
<1> QED
  BY <1>1, <1>2, <1>3, <1>4, <1>5, <1>6 DEF StartEpoch, Access

LEMMA InvStep ==
  ASSUME Typed, Inv, LocalGets, [Next]_vars
  PROVE  Typed' /\ Inv'
<1>1. CASE UNCHANGED vars
  <2>1. Typed'
    BY <1>1 DEF Typed, vars, target, origin
  <2>2. \A p \in Proc : TargetInv(p)'
    BY <1>1 DEF Inv, TargetInv, LockInv, vars, target
  <2>3. UNCHANGED origin /\ UNCHANGED <<plan, chan, reading, sending, held, lock_queue, unlockDone>>
    BY <1>1 DEF vars, target
  <2>4. Inv'
    BY <2>2, <2>3, PairsStill
  <2> QED
    BY <2>1, <2>4
<1>2. ASSUME NEW p \in Proc,
             \/ StartEpoch(p) \/ Access(p) \/ Continue(p)
             \/ \E t \in Proc : Serve(p, t) \/ Unlock(p, t) \/ Flush(p, t)
      PROVE  Typed' /\ Inv'
  BY <1>2, ServesKeep, ContinuesKeep, CallsKeep
<1> QED
  BY <1>1, <1>2 DEF Next

LEMMA InvStart ==
  ASSUME Init
  PROVE  Typed /\ Inv
<1>1. Typed
  BY Constants DEF Init, Typed, Zero, Types
<1>2. \A t \in Proc : TargetInv(t)
  BY FS_EmptySet DEF Init, TargetInv, LockInv
<1>3. ASSUME NEW o \in Proc, NEW t \in Proc PROVE InOnePlace(o, t) /\ Linked(o, t) /\ OldLocks(o, t)
  <2>1. /\ chan[o][t] = <<>> /\ chan[t][o] = <<>> /\ reading[t][o] = None /\ unlockDone[t] = None
        /\ lock_queue[t] = <<>> /\ held[t] = {} /\ sending = {} /\ call[o] = None
        /\ remote_lock_state[o][t] = "NOT_LOCKED" /\ remote_ops_done[o][t] = 1
        /\ gets[o][t] = 0 /\ rma_ops_list[o][t] = <<>>
    BY <1>3 DEF Init, Zero
  <2>2. Len(<<>>) = 0 /\ 1 .. 0 = {}
    OBVIOUS
  <2>3. AtRest(o, t)
    BY <2>1, <2>2, NoneAssumption
       DEF AtRest, NotInChan, NotQueued, NotEnding, NotAnswered, NoFinal, NoneOf, NoAnswer,
           Clean, NoRequest, HasNot, Waits
  <2>4. \A type : NumberOf(<<>>, type) = 0
    BY <2>2, FS_EmptySet DEF NumberOf, Places
  <2>5. Linked(o, t)
    BY <2>1, <2>2, <2>4 DEF Linked, LastUnlocks, Stage, Waits
  <2>6. OldLocks(o, t)
    BY <2>1 DEF OldLocks
  <2> QED
    BY <2>3, <2>5, <2>6 DEF InOnePlace
<1> QED
  BY <1>1, <1>2, <1>3 DEF Inv

(***************************************************************************)
(* Every call that waits has exactly one request that ends it, in one      *)
(* place, if only gets are flushed locally: after a local flush of puts    *)
(* their PT_RMA_DONE is still on its way when the next call asks (win.cpp).*)
(***************************************************************************)
THEOREM Invariant ==
  ASSUME LocalGets
  PROVE  Spec => [](Typed /\ Inv)
<1>1. Init => Typed /\ Inv
  BY InvStart
<1>2. Typed /\ Inv /\ [Next]_vars => Typed' /\ Inv'
  BY InvStep
<1> QED
  BY <1>1, <1>2, PTL DEF Spec

LEMMA CountTypes ==
  ASSUME Typed, NEW t \in Proc, LockInv(t)
  PROVE  shared_lock_ref_cnt[t] >= 0
<1>1. lock_state[t] \in Types \cup {"NOT_LOCKED"}
  BY DEF Typed
<1>2. CASE lock_state[t] = "SHARED"
  BY <1>2, FS_CardinalityType DEF LockInv
<1> QED
  BY <1>1, <1>2 DEF LockInv, Types

(* The types of the variables; no count of shared locks goes below zero. *)
THEOREM TypesHold ==
  ASSUME LocalGets
  PROVE  Spec => []TypeOK
<1>1. Typed /\ Inv => TypeOK
  BY CountTypes DEF Inv, TargetInv, TypeOK
<1> QED
  BY <1>1, Invariant, PTL

(* Lock state and count say what is true of the holders of every window. *)
THEOREM Exclusion ==
  ASSUME LocalGets
  PROVE  Spec => []HoldersExclude
<1>1. Inv => HoldersExclude
  BY DEF Inv, TargetInv, LockInv, HoldersExclude
<1> QED
  BY <1>1, Invariant, PTL

LEMMA BelieverHas ==
  ASSUME NEW o \in Proc, NEW t \in Proc, InOnePlace(o, t), Believes(o, t)
  PROVE  <<o, remote_lock_state[o][t], epochs[o][t]>> \in held[t]
<1>1. remote_lock_state[o][t] # "NOT_LOCKED" /\ remote_lock_state[o][t] # "LOCK_REQUESTED"
  BY DEF Believes, Types
<1>2. ~AsksFor(o, t)
  BY <1>1 DEF AsksFor
<1>3. ASSUME NEW stage, Uses(o, t, stage), stage # "grant" PROVE ~Unlocks(o, t)
  BY <1>3 DEF Uses, Stage, Waits, Unlocks, Believes
<1>4. Has(o, t) /\ remote_lock_state[o][t] = lockType[o][t]
  <2>1. CASE AtRest(o, t)
    BY <1>1, <2>1 DEF AtRest
  <2>2. CASE InChan(o, t)
    BY <1>2, <1>3, <2>2 DEF InChan, AskInChan, EndInChan, Uses
  <2>3. CASE InQueue(o, t)
    BY <1>2, <1>3, <2>3 DEF InQueue
  <2>4. CASE BeingRead(o, t)
    BY <2>4 DEF BeingRead, Uses
  <2>5. CASE Ending(o, t)
    BY <1>3, <2>5 DEF Ending
  <2>6. CASE Answered(o, t)
    BY <1>2, <1>3, <2>6 DEF Answered, Uses
  <2> QED
    BY <2>1, <2>2, <2>3, <2>4, <2>5, <2>6 DEF InOnePlace
<1> QED
  BY <1>4 DEF Has, K

(* Whoever believes to have a lock has it: no answer is taken for another. *)
THEOREM Belief ==
  ASSUME LocalGets
  PROVE  Spec => []BelieverHolds
<1>1. Inv => BelieverHolds
  BY BelieverHas DEF Inv, BelieverHolds
<1> QED
  BY <1>1, Invariant, PTL

-----------------------------------------------------------------------------
(* What an operation meets at its window. *)
Permits(o, t) ==
  \A h \in held[t] : h[1] # o => h[2] = "SHARED" /\ lockType[o][t] = "SHARED"

LEMMA HolderPermitted ==
  ASSUME Typed, Inv, NEW o \in Proc, NEW t \in Proc, Has(o, t)
  PROVE  Permits(o, t)
<1>1. lock_state[t] \in Types \cup {"NOT_LOCKED"} /\ LockInv(t)
  BY DEF Typed, Inv, TargetInv
<1>2. PICK g \in held[t] : g = <<o, lockType[o][t], K(o, t)>>
  BY DEF Has
<1>3. CASE lock_state[t] = "SHARED"
  <2>1. g[2] = "SHARED" /\ g[2] = lockType[o][t]
    BY <1>1, <1>2, <1>3 DEF LockInv
  <2> QED
    BY <1>1, <1>3, <2>1 DEF LockInv, Permits
<1>4. CASE lock_state[t] = "EXCLUSIVE"
  <2>1. PICK h \in held[t] : held[t] = {h}
    BY <1>1, <1>4 DEF LockInv
  <2>2. held[t] = {g} /\ g[1] = o
    BY <1>2, <2>1
  <2> QED
    BY <2>2 DEF Permits
<1> QED
  BY <1>1, <1>2, <1>3, <1>4 DEF LockInv, Types

LEMMA AcquirerPermitted ==
  ASSUME Inv, NEW o \in Proc, NEW t \in Proc, CanAcquire(t, lockType[o][t])
  PROVE  Permits(o, t)
BY DEF CanAcquire, Inv, TargetInv, LockInv, Permits

LEMMA PartHas ==
  ASSUME NEW o \in Proc, NEW t \in Proc, Part(o, t)
  PROVE  Has(o, t)
BY DEF Part, AtRest, EndInChan

OnlyPermitted ==
  \A t \in Proc : \A a \in applied'[t] \ applied[t] : \A h \in held[t] :
    h[1] # a[1] => h[2] = "SHARED" /\ lockType[a[1]][t] = "SHARED"

LEMMA AppliedBy ==
  ASSUME Typed, NEW o \in Proc, NEW t \in Proc, NEW n, Apply(t, o, n), Permits(o, t)
  PROVE  OnlyPermitted
<1>1. applied \in [Proc -> SUBSET (Proc \X Nat)]
  BY DEF Typed
<1>2. /\ applied'[t] = applied[t] \cup {<<o, n>>}
      /\ \A p \in Proc : p # t => applied'[p] = applied[p]
  BY <1>1 DEF Apply
<1>3. ASSUME NEW p \in Proc, NEW a \in applied'[p] \ applied[p] PROVE p = t /\ a[1] = o
  BY <1>2, <1>3
<1> QED
  BY <1>3 DEF OnlyPermitted, Permits

LEMMA ServePermitted ==
  ASSUME Typed, Inv, NEW t \in Proc, NEW o \in Proc, Serve(t, o)
  PROVE  OnlyPermitted \/ applied' = applied
<1>1. o # t /\ PairInv(o, t)
  BY NotSelf DEF Inv, PairInv
<1>2. CASE HandleGet(t, o)
  <2>1. PICK m : m = Head(chan[o][t])
    OBVIOUS
  <2>2. chan[o][t] # <<>> /\ m.type = "GET" /\ Apply(t, o, m.n)
    BY <1>2, <2>1 DEF HandleGet, First
  <2>3. m.type \in Requests /\ m.type \notin Asks
    BY <2>2 DEF Requests, Asks
  <2>4. CASE Final(m)
    BY <1>1, <2>1, <2>2, <2>3, <2>4, HeadEnds, HolderPermitted, AppliedBy DEF EndInChan
  <2>5. CASE ~Final(m)
    <3>1. Has(o, t)
      BY <1>1, <2>1, <2>2, <2>3, <2>5, HeadPart, PartHas
    <3> QED
      BY <2>2, <3>1, HolderPermitted, AppliedBy
  <2> QED
    BY <2>4, <2>5
<1>3. CASE PutRespComplete(t, o)
  <2>1. reading[t][o] # None /\ Apply(t, o, reading[t][o].n)
    BY <1>3 DEF PutRespComplete, Applied
  <2>2. NotQueued(o, t)
    <3>1. lock_queue[t] \in Seq(Entries)
      BY DEF Typed, Entries
    <3> QED
      BY <1>3, <3>1, LenProperties DEF PutRespComplete, IsQueued, NotQueued, NoneOf
  <2>3. Has(o, t)
    BY <1>1, <2>1, <2>2, Reading, PartHas DEF BeingRead
  <2> QED
    BY <2>1, <2>3, HolderPermitted, AppliedBy
<1>4. CASE SinglePutAccumComplete(t, o)
  <2>0. PICK i \in 1 .. Len(lock_queue[t]) : i = PlaceOf(t, o) /\ lock_queue[t][i].src = o
    BY <1>4, PlaceInQueue DEF SinglePutAccumComplete
  <2>1. PICK e : e = lock_queue[t][i]
    OBVIOUS
  <2>2. \/ CanAcquire(t, e.type) /\ Apply(t, o, e.op)
        \/ applied' = applied
    BY <1>4, <2>0, <2>1 DEF SinglePutAccumComplete, Applied
  <2>3. e.type = lockType[o][t]
    BY <2>0, <2>1, EntryOf
  <2> QED
    BY <2>2, <2>3, AcquirerPermitted, AppliedBy
<1>5. CASE \/ HandleLock(t, o) \/ HandleUnlock(t, o) \/ HandlePut(t, o) \/ HandleLockPut(t, o)
           \/ HandleLockAccum(t, o) \/ \E k \in 1 .. plan.epochs : GetSendRespComplete(t, o, k)
  BY <1>5 DEF HandleLock, HandleUnlock, HandlePut, HandleLockPut, HandleLockAccum,
              GetSendRespComplete, StartReading
<1>6. CASE \/ HandleLockGranted(t, o) \/ HandleUnlockDone(t, o) \/ HandlePtRmaDone(t, o)
           \/ HandleRmaResp(t, o)
  BY <1>6 DEF HandleLockGranted, HandleUnlockDone, HandlePtRmaDone, HandleRmaResp, Learn,
              UnchangedAtTargets
<1> QED
  BY <1>2, <1>3, <1>4, <1>5, <1>6 DEF Serve

LEMMA ContinuePermitted ==
  ASSUME Typed, Inv, NEW t \in Proc, Continue(t)
  PROVE  OnlyPermitted \/ applied' = applied
<1>1. CASE ServeEntry(t)
  <2>0. PICK i \in 1 .. Len(lock_queue[t]) : i = release[t]
    BY <1>1, AtItsEntry DEF ServeEntry
  <2>1. PICK e : e = lock_queue[t][i]
    OBVIOUS
  <2>2. CanAcquire(t, e.type) /\ Apply(t, e.src, e.op)
    BY <1>1, <2>0, <2>1 DEF ServeEntry, Entry, Applied
  <2>3. e.src \in Proc /\ e.type = lockType[e.src][t]
    BY <2>1, EntryOf
  <2> QED
    BY <2>2, <2>3, AcquirerPermitted, AppliedBy
<1>2. CASE SelfLocked(t) \/ Granted(t) \/ Return(t) \/ SkipEntry(t) \/ GrantEntry(t) \/ Released(t)
  BY <1>2 DEF SelfLocked, Granted, Return, SkipEntry, GrantEntry, Released, UnchangedAtTargets
<1> QED
  BY <1>1, <1>2 DEF Continue

LEMMA CallPermitted ==
  ASSUME Typed, Inv, NEW o \in Proc,
         StartEpoch(o) \/ Access(o) \/ \E t \in Proc : Unlock(o, t) \/ Flush(o, t)
  PROVE  OnlyPermitted \/ applied' = applied
<1>1. CASE AccessSelf(o)
  <2>1. /\ call[o] = None /\ remote_lock_state[o][o] # "NOT_LOCKED"
        /\ Apply(o, o, queued[o][o] + 1)
    BY <1>1 DEF AccessSelf, MayAccess, Idle
  <2>2. InOnePlace(o, o) /\ ~Waits(o, o) /\ remote_lock_state[o][o] # "LOCK_REQUESTED"
    BY <2>1 DEF Inv, Linked, Waits
  <2>3. Has(o, o)
    BY <2>1, <2>2, Resting DEF AtRest
  <2> QED
    BY <2>1, <2>3, HolderPermitted, AppliedBy
<1>2. CASE StartEpoch(o) \/ \E t \in Proc, kind \in plan.kinds : Queue(o, t, kind)
  BY <1>2 DEF StartEpoch, LockSelf, Lock, Queue, UnchangedAtTargets
<1>3. ASSUME NEW t \in Proc, Unlock(o, t) \/ Flush(o, t) PROVE applied' = applied
  <2>1. ASSUME NEW unlock, NEW isLocal,
               FlushLocked(o, t, unlock, isLocal) \/ FlushUnlocked(o, t, unlock, isLocal)
        PROVE  applied' = applied
    BY <2>1 DEF FlushLocked, FlushUnlocked, UnchangedAtTargets
  <2> QED
    BY <1>3, <2>1 DEF Unlock, Flush, UnlockSelf, UnlockUnused, UnlockEmpty, UnlockSingleOp,
                      FlushEmpty, UnchangedAtTargets
<1> QED
  BY <1>1, <1>2, <1>3 DEF Access

(* An operation touches a window only beside locks that allow it. *)
THEOREM Accesses ==
  ASSUME LocalGets
  PROVE  Spec => NoConflictingAccess
<1>1. Typed /\ Inv /\ [Next]_vars => [OnlyPermitted]_vars
  <2>1. SUFFICES ASSUME Typed, Inv, Next PROVE OnlyPermitted
    OBVIOUS
  <2>2. ASSUME NEW p \in Proc,
               \/ StartEpoch(p) \/ Access(p) \/ Continue(p)
               \/ \E t \in Proc : Serve(p, t) \/ Unlock(p, t) \/ Flush(p, t)
        PROVE  OnlyPermitted \/ applied' = applied
    BY <2>1, <2>2, ServePermitted, ContinuePermitted, CallPermitted
  <2>3. applied' = applied => OnlyPermitted
    BY DEF OnlyPermitted
  <2> QED
    BY <2>1, <2>2, <2>3 DEF Next
<1>2. NoConflictingAccess <=> [][OnlyPermitted]_vars
  BY DEF NoConflictingAccess, OnlyPermitted
<1> QED
  BY <1>1, <1>2, Invariant, PTL DEF Spec

-----------------------------------------------------------------------------
(***************************************************************************)
(* The operations: none is lost between its origin and the window.         *)
(***************************************************************************)
KeepsPackets(s, r) ==
  (\A n : Carries(s, n) => Carries(r, n)) /\ (EndsWithGet(s) => EndsWithGet(r))

LEMMA NoneCarried ==
  ASSUME NEW s, NoRequest(s)
  PROVE  ~EndsWithGet(s) /\ \A n : ~Carries(s, n)
BY DEF NoRequest, EndsWithGet, Carries, Carriers, Requests

LEMMA PacketAppended ==
  ASSUME NEW S, NEW s \in Seq(S), NEW m \in S
  PROVE  /\ \A n : Carries(s, n) => Carries(Append(s, m), n)
         /\ m.type \in Carriers => Carries(Append(s, m), m.n)
         /\ m.type \notin Requests => KeepsPackets(s, Append(s, m))
<1> DEFINE r == Append(s, m)
           l == Len(s) + 1
<1>1. /\ Len(s) \in Nat /\ Len(r) = l
      /\ \A i \in 1 .. Len(s) : r[i] = s[i]
      /\ r[l] = m
  BY Appended
<1> HIDE DEF r
<1>2. \A i \in 1 .. Len(s) : i \in 1 .. Len(r)
  BY <1>1
<1>3. ASSUME NEW n, Carries(s, n) PROVE Carries(r, n)
  BY <1>1, <1>2, <1>3 DEF Carries
<1>4. l \in 1 .. Len(r)
  BY <1>1
<1>5. m.type \in Carriers => Carries(r, m.n)
  BY <1>1, <1>4 DEF Carries
<1>6. ASSUME m.type \notin Requests, EndsWithGet(s) PROVE EndsWithGet(r)
  <2>1. PICK i \in 1 .. Len(s) :
          s[i].type = "GET" /\ \A j \in 1 .. Len(s) : j > i => s[j].type \notin Requests
    BY <1>6 DEF EndsWithGet
  <2>2. ASSUME NEW j \in 1 .. Len(r), j > i PROVE r[j].type \notin Requests
    <3>1. CASE j = l
      BY <1>1, <1>6, <3>1
    <3>2. CASE j # l
      <4>1. j \in 1 .. Len(s)
        BY <1>1, <2>2, <3>2
      <4> QED
        BY <1>1, <2>1, <2>2, <4>1
    <3> QED
      BY <3>1, <3>2
  <2>3. i \in 1 .. Len(r) /\ r[i].type = "GET"
    BY <1>1, <1>2, <2>1
  <2> QED
    BY <2>2, <2>3 DEF EndsWithGet
<1> QED
  BY <1>3, <1>5, <1>6 DEF r, KeepsPackets

LEMMA PacketTaken ==
  ASSUME NEW S, NEW s \in Seq(S), s # <<>>
  PROVE  /\ \A n : Carries(s, n) =>
              Carries(Tail(s), n) \/ (Head(s).type \in Carriers /\ Head(s).n = n)
         /\ EndsWithGet(s) =>
              EndsWithGet(Tail(s)) \/ (Head(s).type = "GET" /\ NoRequest(Tail(s)))
         /\ Head(s).type \notin Carriers => KeepsPackets(s, Tail(s))
<1> DEFINE r == Tail(s)
<1>1. /\ Head(s) = s[1] /\ 1 \in 1 .. Len(s)
      /\ \A i \in 1 .. Len(r) : i + 1 \in 1 .. Len(s) /\ i + 1 # 1 /\ r[i] = s[i + 1]
      /\ \A i \in 1 .. Len(s) : i # 1 => i - 1 \in 1 .. Len(r) /\ r[i - 1] = s[i]
  BY TailPlaces
<1> HIDE DEF r
<1>2. ASSUME NEW n, Carries(s, n)
      PROVE  Carries(r, n) \/ (Head(s).type \in Carriers /\ Head(s).n = n)
  <2>1. PICK i \in 1 .. Len(s) : s[i].type \in Carriers /\ s[i].n = n
    BY <1>2 DEF Carries
  <2>2. CASE i = 1
    BY <1>1, <2>1, <2>2
  <2>3. CASE i # 1
    <3>1. i - 1 \in 1 .. Len(r) /\ r[i - 1] = s[i]
      BY <1>1, <2>3
    <3> QED
      BY <2>1, <3>1 DEF Carries
  <2> QED
    BY <2>2, <2>3
<1>3. ASSUME EndsWithGet(s)
      PROVE  EndsWithGet(r) \/ (Head(s).type = "GET" /\ NoRequest(r))
  <2>1. PICK i \in 1 .. Len(s) :
          s[i].type = "GET" /\ \A j \in 1 .. Len(s) : j > i => s[j].type \notin Requests
    BY <1>3 DEF EndsWithGet
  <2>2. CASE i = 1
    <3>1. ASSUME NEW j \in 1 .. Len(r) PROVE r[j].type \notin Requests
      <4>1. j + 1 \in 1 .. Len(s) /\ j + 1 > i /\ r[j] = s[j + 1]
        BY <1>1, <2>2
      <4> QED
        BY <2>1, <4>1
    <3> QED
      BY <1>1, <2>1, <2>2, <3>1 DEF NoRequest
  <2>3. CASE i # 1
    <3>1. i - 1 \in 1 .. Len(r) /\ r[i - 1] = s[i]
      BY <1>1, <2>3
    <3>2. ASSUME NEW j \in 1 .. Len(r), j > i - 1 PROVE r[j].type \notin Requests
      <4>1. j + 1 \in 1 .. Len(s) /\ j + 1 > i /\ r[j] = s[j + 1]
        BY <1>1, <3>2
      <4> QED
        BY <2>1, <4>1
    <3> QED
      BY <2>1, <3>1, <3>2 DEF EndsWithGet
  <2> QED
    BY <2>2, <2>3
<1>4. Head(s).type \notin Carriers => Head(s).type # "GET"
  BY DEF Carriers
<1> QED
  BY <1>2, <1>3, <1>4 DEF r, KeepsPackets

LEMMA PacketsJoined ==
  ASSUME NEW S, NEW s \in Seq(S), NEW r \in Seq(S), Len(r) # 0
  PROVE  /\ \A i \in 1 .. Len(r) : r[i].type \in Carriers => Carries(s \o r, r[i].n)
         /\ r[Len(r)].type = "GET" => EndsWithGet(s \o r)
<1> DEFINE q == s \o r
           l == Len(s)
<1>1. /\ l \in Nat /\ Len(r) \in Nat /\ Len(q) = l + Len(r)
      /\ \A i \in 1 .. l + Len(r) : q[i] = IF i <= l THEN s[i] ELSE r[i - l]
  BY ConcatProperties, LenProperties
<1> HIDE DEF q, l
<1>2. ASSUME NEW i \in 1 .. Len(r) PROVE l + i \in 1 .. Len(q) /\ q[l + i] = r[i]
  <2>1. l + i \in 1 .. l + Len(r) /\ ~(l + i <= l) /\ (l + i) - l = i
    BY <1>1
  <2> QED
    BY <1>1, <2>1
<1>3. ASSUME NEW i \in 1 .. Len(r), r[i].type \in Carriers PROVE Carries(q, r[i].n)
  BY <1>2, <1>3 DEF Carries
<1>4. ASSUME r[Len(r)].type = "GET" PROVE EndsWithGet(q)
  <2>1. Len(r) \in 1 .. Len(r)
    BY <1>1
  <2>2. l + Len(r) \in 1 .. Len(q) /\ q[l + Len(r)].type = "GET"
    BY <1>2, <1>4, <2>1
  <2>3. \A j \in 1 .. Len(q) : ~(j > l + Len(r))
    BY <1>1
  <2> QED
    BY <2>2, <2>3 DEF EndsWithGet
<1> QED
  BY <1>3, <1>4 DEF q

(* The list reordered has all its operations, and a get at its end if any. *)
LEMMA AllReordered ==
  ASSUME NEW ops \in Seq(Ops), NEW j \in 1 .. Len(ops)
  PROVE  \E i \in 1 .. Len(ops) : Reordered(ops)[i] = ops[j]
<1> DEFINE n == Len(ops)
           IsLast(i) == ops[i].kind = "get" /\ \A k \in i + 1 .. n : ops[k].kind # "get"
           last == CHOOSE i \in DOMAIN ops : IsLast(i)
           r == [i \in 1 .. n |-> IF i < last THEN ops[i]
                                  ELSE IF i < n THEN ops[i + 1] ELSE ops[last]]
<1>1. n \in Nat /\ DOMAIN ops = 1 .. n /\ \A i \in 1 .. n : ops[i] \in Ops
  BY LenProperties, ElementOfSeq
<1>2. CASE \E i \in DOMAIN ops : ops[i].kind = "get"
  <2>1. \E i \in DOMAIN ops : IsLast(i)
    <3> DEFINE A == {i \in 1 .. n : ops[i].kind = "get"}
    <3>1. A \in SUBSET (1 .. n) /\ A # {}
      BY <1>1, <1>2
    <3>2. PICK i \in A : \A k \in i + 1 .. n : k \notin A
      <4> HIDE DEF A
      <4> QED
        BY <1>1, <3>1, LastOne
    <3>3. \A k \in i + 1 .. n : k \in 1 .. n
      BY <1>1
    <3> QED
      BY <1>1, <3>2, <3>3
  <2>2. last \in 1 .. n
    <3> HIDE DEF IsLast
    <3> QED
      BY <1>1, <2>1
  <2>3. Reordered(ops) = r
    BY <1>1, <1>2 DEF Reordered
  <2> HIDE DEF last
  <2>4. \E i \in 1 .. n : r[i] = ops[j]
    <3>1. CASE j < last
      BY <3>1
    <3>2. CASE j > last
      <4>1. j - 1 \in 1 .. n /\ ~(j - 1 < last) /\ j - 1 < n /\ (j - 1) + 1 = j
        BY <1>1, <2>2, <3>2
      <4>2. r[j - 1] = ops[j]
        BY <4>1
      <4> QED
        BY <4>1, <4>2
    <3>3. CASE j = last
      <4>1. n \in 1 .. n /\ ~(n < last) /\ ~(n < n)
        BY <1>1, <2>2
      <4>2. r[n] = ops[j]
        BY <3>3, <4>1
      <4> QED
        BY <4>1, <4>2
    <3> QED
      BY <1>1, <2>2, <3>1, <3>2, <3>3
  <2> HIDE DEF r
  <2> QED
    BY <2>3, <2>4
<1>3. CASE ~\E i \in DOMAIN ops : ops[i].kind = "get"
  BY <1>3 DEF Reordered
<1> QED
  BY <1>2, <1>3

LEMMA NumbersIssued ==
  ASSUME NEW ops \in Seq(Ops), ops # <<>>, NEW k \in Nat, NEW unlock \in BOOLEAN,
         NEW packets, packets = PacketsOf(ops, k, unlock)
  PROVE  /\ packets \in Seq(Packets) /\ Len(packets) = Len(ops)
         /\ \A i \in 1 .. Len(packets) :
              /\ packets[i].n = ops[i].n /\ packets[i].type \in Carriers
              /\ ops[i].kind = "get" => packets[i].type = "GET"
<1>1. /\ packets \in Seq(Packets)
      /\ Len(packets) = Len(ops) /\ Len(ops) \in Nat \ {0} /\ DOMAIN ops = 1 .. Len(ops)
      /\ \A i \in 1 .. Len(packets) : packets[i].type = IF ops[i].kind = "get" THEN "GET" ELSE "PUT"
  BY Issued, LenProperties
<1>2. ASSUME NEW i \in 1 .. Len(packets) PROVE packets[i].n = ops[i].n
  <2>1. packets[i] = PacketOf(ops[i], k, i = Len(ops), unlock)
    BY <1>1 DEF PacketsOf
  <2> QED
    BY <2>1 DEF PacketOf, Packet
<1> QED
  BY <1>1, <1>2 DEF Carriers

-----------------------------------------------------------------------------
(* What a step keeps of a pair. *)
KeepsApplied(o, t) == \A n : IsApplied(o, t, n) => IsApplied(o, t, n)'
KeepsWay(o, t) ==
  \A n : n # 0 /\ OnItsWay(o, t, n) => OnItsWay(o, t, n)' \/ IsApplied(o, t, n)'
KeepsOps(o, t) ==
  /\ KeepsApplied(o, t)
  /\ completed'[o][t] = completed[o][t] /\ queued'[o][t] = queued[o][t]
  /\ rma_ops_list'[o][t] = rma_ops_list[o][t]
  /\ \A stage : stage \in {"done", "unlock"} /\ Stage(o, t, stage)' => Stage(o, t, stage)
  /\ Stage(o, t, "done")' =>
       /\ Undone(o, t) => Undone(o, t)'
       /\ KeepsWay(o, t) /\ (EndsWithGet(chan[o][t]) => EndsWithGet(chan'[o][t]))

AllOps == \A o, t \in Proc : OpsInv(o, t)

LEMMA ListedNumbers ==
  ASSUME Typed, NEW o \in Proc, NEW t \in Proc
  PROVE  /\ rma_ops_list[o][t] \in Seq(Ops) /\ 0 \notin Listed(o, t)
         /\ \A n \in Listed(o, t) :
              \E i \in 1 .. Len(rma_ops_list[o][t]) : rma_ops_list[o][t][i].n = n
<1>1. rma_ops_list[o][t] \in Seq(Ops)
  BY DEF Typed, Ops
<1>2. \A i \in 1 .. Len(rma_ops_list[o][t]) : rma_ops_list[o][t][i] \in Ops
  BY <1>1, ElementOfSeq
<1> QED
  BY <1>1, <1>2 DEF Listed, Elements, Ops

LEMMA OpsKept ==
  ASSUME Typed, NEW o \in Proc, NEW t \in Proc, KeepsOps(o, t), OpsInv(o, t)
  PROVE  OpsInv(o, t)'
<1>1. /\ KeepsApplied(o, t)
      /\ completed'[o][t] = completed[o][t] /\ queued'[o][t] = queued[o][t]
      /\ rma_ops_list'[o][t] = rma_ops_list[o][t]
  BY DEF KeepsOps
<1>2. Listed(o, t)' = Listed(o, t)
  BY <1>1 DEF Listed
<1>3. AllApplied(o, t) => AllApplied(o, t)'
  BY <1>1, <1>2 DEF AllApplied, KeepsApplied
<1>4. /\ \A n \in 1 .. completed[o][t]' : IsApplied(o, t, n)'
      /\ \A n \in 1 .. queued[o][t]' : IsApplied(o, t, n)' \/ n \in Listed(o, t)'
  BY <1>1, <1>2 DEF OpsInv, KeepsApplied
<1>5. Stage(o, t, "unlock")' => rma_ops_list[o][t]' = <<>>
  BY <1>1 DEF OpsInv, KeepsOps
<1>6. ASSUME Stage(o, t, "done")'
      PROVE  \/ AllApplied(o, t)'
             \/ AllIssued(o, t)' /\ (EndsWithGet(chan[o][t])' \/ Undone(o, t)')
  <2>1. /\ Stage(o, t, "done") /\ (Undone(o, t) => Undone(o, t)')
        /\ KeepsWay(o, t) /\ (EndsWithGet(chan[o][t]) => EndsWithGet(chan'[o][t]))
    BY <1>6 DEF KeepsOps
  <2>2. AllIssued(o, t) => AllIssued(o, t)'
    BY <1>1, <1>2, <2>1, ListedNumbers DEF AllIssued, KeepsApplied, KeepsWay
  <2>3. AllApplied(o, t) \/ (AllIssued(o, t) /\ (EndsWithGet(chan[o][t]) \/ Undone(o, t)))
    BY <2>1 DEF OpsInv
  <2> QED
    BY <1>3, <2>1, <2>2, <2>3
<1> QED
  BY <1>4, <1>5, <1>6 DEF OpsInv

LEMMA OpsWhole ==
  ASSUME Typed, AllOps, NEW o \in Proc, NEW t \in Proc,
         \A a, b \in Proc : a # o \/ b # t => KeepsOps(a, b), OpsInv(o, t)'
  PROVE  AllOps'
<1>1. ASSUME NEW a \in Proc, NEW b \in Proc PROVE OpsInv(a, b)'
  <2>1. CASE a = o /\ b = t
    BY <2>1
  <2>2. CASE a # o \/ b # t
    BY <2>2, OpsKept DEF AllOps
  <2> QED
    BY <2>1, <2>2
<1> QED
  BY <1>1 DEF AllOps

LEMMA WayKept ==
  ASSUME NEW o \in Proc, NEW t \in Proc, KeepsPackets(chan[o][t], chan'[o][t]),
         reading'[t][o] = reading[t][o], KeepsQueue(lock_queue[t], lock_queue'[t], o)
  PROVE  KeepsWay(o, t)
<1>1. ASSUME NEW n, OnItsWay(o, t, n) PROVE OnItsWay(o, t, n)'
  <2>1. CASE Carries(chan[o][t], n)
    BY <2>1 DEF KeepsPackets, OnItsWay
  <2>2. CASE reading[t][o] # None /\ NotQueued(o, t) /\ reading[t][o].n = n
    BY <2>2 DEF KeepsQueue, NotQueued, OnItsWay
  <2>3. CASE \E e \in Elements(lock_queue[t]) : Queued(o, t, e) /\ e.op = n
    <3>1. PICK e : Queued(o, t, e) /\ e.op = n
      BY <2>3
    <3>2. Queued(o, t, e)'
      BY <3>1 DEF KeepsQueue, Queued
    <3>3. e \in Elements(lock_queue[t])'
      BY <3>2, Members DEF Queued
    <3> QED
      BY <3>1, <3>2, <3>3 DEF OnItsWay
  <2> QED
    BY <1>1, <2>1, <2>2, <2>3 DEF OnItsWay
<1> QED
  BY <1>1 DEF KeepsWay

(* Steps of an origin, which concern one target; steps of a target. *)
LEMMA OriginOps ==
  ASSUME NEW o \in Proc, NEW t \in Proc, lock_queue' = lock_queue, reading' = reading,
         \A a, b \in Proc : KeepsApplied(a, b),
         OnlyAt(completed, completed', o, t), OnlyAt(queued, queued', o, t),
         OnlyAt(rma_ops_list, rma_ops_list', o, t), OnlyAt(remote_ops_done, remote_ops_done', o, t),
         call' = call \/ CallAt(o, t),
         \A a, b \in Proc : a # o \/ b # t => KeepsPackets(chan[a][b], chan'[a][b])
  PROVE  \A a, b \in Proc : a # o \/ b # t => KeepsOps(a, b)
<1>1. SUFFICES ASSUME NEW a \in Proc, NEW b \in Proc, a # o \/ b # t PROVE KeepsOps(a, b)
  OBVIOUS
<1>2. (Waits(a, b)' <=> Waits(a, b)) /\ (Waits(a, b) => call'[a] = call[a])
  <2>1. CASE call' = call
    BY <2>1 DEF Waits
  <2>2. CASE CallAt(o, t)
    BY <1>1, <2>2 DEF CallAt, Waits
  <2> QED
    BY <2>1, <2>2
<1>3. KeepsPackets(chan[a][b], chan'[a][b]) /\ KeepsWay(a, b)
  BY <1>1, WayKept, StillQueue
<1>4. \A stage : Stage(a, b, stage)' => Stage(a, b, stage) /\ (Undone(a, b) => Undone(a, b)')
  BY <1>1, <1>2 DEF Stage, Undone, OnlyAt
<1>5. /\ completed'[a][b] = completed[a][b] /\ queued'[a][b] = queued[a][b]
      /\ rma_ops_list'[a][b] = rma_ops_list[a][b]
  BY <1>1 DEF OnlyAt
<1> QED
  BY <1>3, <1>4, <1>5 DEF KeepsOps, KeepsPackets

LEMMA TargetOps ==
  ASSUME NEW o \in Proc, NEW t \in Proc, UNCHANGED origin, KeepsApplied(o, t), KeepsWay(o, t),
         EndsWithGet(chan[o][t]) => EndsWithGet(chan'[o][t])
  PROVE  KeepsOps(o, t)
BY DEF KeepsOps, Stage, Waits, Undone, origin

(* Steps that leave operations alone. *)
LEMMA OpsStill ==
  ASSUME Typed, AllOps, lock_queue' = lock_queue, reading' = reading, applied' = applied,
         UNCHANGED <<completed, queued, rma_ops_list, remote_ops_done>>,
         \A a \in Proc : call'[a] = call[a] \/ call'[a] = None \/ call'[a].stage \in {"self", "grant"},
         \A a, b \in Proc : KeepsPackets(chan[a][b], chan'[a][b]) \/ ~Stage(a, b, "done")'
  PROVE  AllOps'
<1>1. ASSUME NEW a \in Proc, NEW b \in Proc PROVE KeepsOps(a, b)
  <2>1. ASSUME NEW stage \in {"done", "unlock"}, Stage(a, b, stage)'
        PROVE  Stage(a, b, stage) /\ call'[a] = call[a]
    BY <2>1 DEF Stage, Waits
  <2>2. ASSUME Stage(a, b, "done")'
        PROVE  /\ Undone(a, b) => Undone(a, b)'
               /\ KeepsPackets(chan[a][b], chan'[a][b]) /\ KeepsWay(a, b)
    <3>1. KeepsPackets(chan[a][b], chan'[a][b]) /\ call'[a] = call[a]
      BY <2>1, <2>2
    <3> QED
      BY <3>1, WayKept, StillQueue DEF Undone
  <2> QED
    BY <2>1, <2>2 DEF KeepsOps, KeepsApplied, IsApplied, KeepsPackets
<1> QED
  BY <1>1, OpsKept DEF AllOps

LEMMA SamePackets ==
  ASSUME NEW s
  PROVE  KeepsPackets(s, s)
BY DEF KeepsPackets

(* A change of one channel, or of both of a pair. *)
LEMMA ChanChanged ==
  ASSUME Typed, NEW p \in Proc, NEW q \in Proc, NEW r, ChanSet(p, q, r)
  PROVE  /\ chan'[p][q] = r
         /\ \A a, b \in Proc : a # p \/ b # q => chan'[a][b] = chan[a][b]
BY DEF Typed, ChanSet

LEMMA ChansChanged ==
  ASSUME Typed, NEW p \in Proc, NEW q \in Proc, p # q, NEW r, NEW s, ChansSet(p, q, r, s)
  PROVE  /\ chan'[p][q] = r /\ chan'[q][p] = s
         /\ \A a, b \in Proc : (a # p \/ b # q) /\ (a # q \/ b # p) => chan'[a][b] = chan[a][b]
<1>1. chan \in [Proc -> [Proc -> Seq(Packets)]]
  BY DEF Typed
<1> QED
  BY <1>1 DEF ChansSet

LEMMA SendKeeps ==
  ASSUME Typed, NEW p \in Proc, NEW q \in Proc, NEW m \in Packets, Send(p, q, m)
  PROVE  /\ chan'[p][q] = Append(chan[p][q], m)
         /\ \A a, b \in Proc : a # p \/ b # q => chan'[a][b] = chan[a][b]
         /\ \A a, b \in Proc : a # p \/ b # q => KeepsPackets(chan[a][b], chan'[a][b])
         /\ m.type \notin Requests => \A a, b \in Proc : KeepsPackets(chan[a][b], chan'[a][b])
         /\ \A a, b \in Proc : \A n : Carries(chan[a][b], n) => Carries(chan'[a][b], n)
<1>1. chan[p][q] \in Seq(Packets)
  BY DEF Typed
<1>2. PICK r : r = Append(chan[p][q], m)
  OBVIOUS
<1>3. ChanSet(p, q, r)
  BY <1>2 DEF ChanSet, Send
<1>4. /\ chan'[p][q] = r
      /\ \A a, b \in Proc : a # p \/ b # q => chan'[a][b] = chan[a][b]
  BY <1>3, ChanChanged
<1>5. /\ m.type \notin Requests => KeepsPackets(chan[p][q], r)
      /\ \A n : Carries(chan[p][q], n) => Carries(r, n)
  BY <1>1, <1>2, PacketAppended
<1> QED
  BY <1>2, <1>4, <1>5, SamePackets

LEMMA ReceiveKeeps ==
  ASSUME Typed, NEW p \in Proc, NEW q \in Proc, chan[p][q] # <<>>, Receive(p, q)
  PROVE  /\ chan'[p][q] = Tail(chan[p][q])
         /\ \A a, b \in Proc : a # p \/ b # q => KeepsPackets(chan[a][b], chan'[a][b])
         /\ Head(chan[p][q]).type \notin Carriers =>
              \A a, b \in Proc : KeepsPackets(chan[a][b], chan'[a][b])
<1>1. chan[p][q] \in Seq(Packets)
  BY DEF Typed
<1>2. PICK r : r = Tail(chan[p][q])
  OBVIOUS
<1>3. ChanSet(p, q, r)
  BY <1>2 DEF ChanSet, Receive
<1>4. /\ chan'[p][q] = r
      /\ \A a, b \in Proc : a # p \/ b # q => chan'[a][b] = chan[a][b]
  BY <1>3, ChanChanged
<1>5. Head(chan[p][q]).type \notin Carriers => KeepsPackets(chan[p][q], r)
  BY <1>1, <1>2, PacketTaken
<1> QED
  BY <1>2, <1>4, <1>5, SamePackets

LEMMA AnswerKeeps ==
  ASSUME Typed, NEW p \in Proc, NEW q \in Proc, p # q, chan[p][q] # <<>>,
         NEW m \in Packets, m.type \notin Requests, Answer(p, q, m)
  PROVE  /\ chan'[p][q] = Tail(chan[p][q])
         /\ \A a, b \in Proc : a # p \/ b # q => KeepsPackets(chan[a][b], chan'[a][b])
         /\ Head(chan[p][q]).type \notin Carriers =>
              \A a, b \in Proc : KeepsPackets(chan[a][b], chan'[a][b])
<1>1. chan[p][q] \in Seq(Packets) /\ chan[q][p] \in Seq(Packets)
  BY DEF Typed
<1>2. PICK r : r = Tail(chan[p][q])
  OBVIOUS
<1>3. PICK s : s = Append(chan[q][p], m)
  OBVIOUS
<1>4. ChansSet(p, q, r, s)
  BY <1>2, <1>3 DEF ChansSet, Answer
<1>5. /\ chan'[p][q] = r /\ chan'[q][p] = s
      /\ \A a, b \in Proc : (a # p \/ b # q) /\ (a # q \/ b # p) => chan'[a][b] = chan[a][b]
  BY <1>4, ChansChanged
<1>6. Head(chan[p][q]).type \notin Carriers => KeepsPackets(chan[p][q], r)
  BY <1>1, <1>2, PacketTaken
<1>7. KeepsPackets(chan[q][p], s)
  BY <1>1, <1>3, PacketAppended
<1> QED
  BY <1>2, <1>5, <1>6, <1>7, SamePackets

-----------------------------------------------------------------------------
(* Steps that neither issue nor do an operation. *)

LEMMA OpsBegin ==
  ASSUME Typed, AllOps, NEW o \in Proc,
         \/ \E t \in Proc, type \in Types : Lock(o, t, type)
         \/ \E type \in Types : LockSelf(o, type)
         \/ SelfLocked(o) \/ \E t \in Proc : UnlockUnused(o, t)
  PROVE  AllOps'
<1>1. /\ lock_queue' = lock_queue /\ reading' = reading /\ applied' = applied /\ chan' = chan
      /\ UNCHANGED <<completed, queued, rma_ops_list, remote_ops_done>>
  BY DEF Lock, LockSelf, SelfLocked, UnlockUnused, UnchangedAtTargets, target
<1>2. \/ call' = call \/ call' = [call EXCEPT ![o] = None]
      \/ call' = [call EXCEPT ![o] = [stage |-> "self", t |-> o, unlock |-> FALSE, isLocal |-> FALSE]]
  BY DEF Lock, LockSelf, SelfLocked, UnlockUnused
<1>3. \A a \in Proc : call'[a] = call[a] \/ call'[a] = None \/ call'[a].stage \in {"self", "grant"}
  <2>1. call \in [Proc -> Calls \cup {None}]
    BY DEF Typed
  <2>2. CASE call' = [call EXCEPT ![o] = None]
    BY <2>1, <2>2
  <2>3. CASE call' = [call EXCEPT ![o] =
                        [stage |-> "self", t |-> o, unlock |-> FALSE, isLocal |-> FALSE]]
    <3>1. call'[o].stage = "self" /\ \A a \in Proc : a # o => call'[a] = call[a]
      BY <2>1, <2>3
    <3> QED
      BY <3>1
  <2> QED
    BY <1>2, <2>2, <2>3
<1> QED
  BY <1>1, <1>3, SamePackets, OpsStill

LEMMA OpsFlushUnlocked ==
  ASSUME Typed, AllOps, NEW o \in Proc, NEW t \in Proc, NEW unlock \in BOOLEAN,
         NEW isLocal \in BOOLEAN, FlushUnlocked(o, t, unlock, isLocal)
  PROVE  AllOps'
<1>1. PICK m : m = LockPacket("LOCK", lockType[o][t], epochs[o][t])
  OBVIOUS
<1>2. m \in Packets
  <2>1. lockType[o][t] \in Types /\ epochs[o][t] \in Nat
    BY DEF Typed
  <2> QED
    BY <1>1, <2>1, Made, Constants
<1>3. /\ lock_queue' = lock_queue /\ reading' = reading /\ applied' = applied
      /\ UNCHANGED <<completed, queued, rma_ops_list, remote_ops_done>>
      /\ Send(o, t, m) /\ Wait(o, t, "grant", unlock, isLocal)
  BY <1>1 DEF FlushUnlocked, UnchangedAtTargets, target
<1>4. \A a, b \in Proc : a # o \/ b # t => KeepsPackets(chan[a][b], chan'[a][b])
  BY <1>2, <1>3, SendKeeps
<1>5. call'[o].stage = "grant" /\ \A a \in Proc : a # o => call'[a] = call[a]
  BY <1>3 DEF Wait, Typed
<1>6. ~Stage(o, t, "done")'
  BY <1>5 DEF Stage
<1> QED
  BY <1>3, <1>4, <1>5, <1>6, OpsStill

LEMMA OpsLearned ==
  ASSUME Typed, AllOps, NEW o \in Proc, NEW t \in Proc,
         HandleLockGranted(o, t) \/ HandleUnlockDone(o, t) \/ HandleRmaResp(o, t)
  PROVE  AllOps'
<1>1. /\ lock_queue' = lock_queue /\ reading' = reading /\ applied' = applied
      /\ UNCHANGED <<completed, queued, rma_ops_list, remote_ops_done, call>>
      /\ chan[t][o] # <<>> /\ Head(chan[t][o]).type \in {"LOCK_GRANTED", "UNLOCK_DONE", "RMA_RESP"}
      /\ Receive(t, o)
  BY DEF HandleLockGranted, HandleUnlockDone, HandleRmaResp, Learn, First, UnchangedAtTargets, target
<1>2. Head(chan[t][o]).type \notin Carriers
  BY <1>1 DEF Carriers
<1> QED
  BY <1>1, <1>2, ReceiveKeeps, OpsStill

LEMMA OpsHandleUnlock ==
  ASSUME Typed, AllOps, NEW t \in Proc, NEW o \in Proc, HandleUnlock(t, o)
  PROVE  AllOps'
<1>1. /\ lock_queue' = lock_queue /\ reading' = reading /\ applied' = applied
      /\ UNCHANGED <<completed, queued, rma_ops_list, remote_ops_done, call>>
      /\ chan[o][t] # <<>> /\ Head(chan[o][t]).type = "UNLOCK" /\ Receive(o, t)
  BY DEF HandleUnlock, First, origin
<1>2. Head(chan[o][t]).type \notin Carriers
  BY <1>1 DEF Carriers
<1> QED
  BY <1>1, <1>2, ReceiveKeeps, OpsStill

LEMMA OpsWalk ==
  ASSUME Typed, AllOps, NEW t \in Proc,
         \/ SkipEntry(t) \/ Released(t)
         \/ \E o \in Proc, k \in Nat : GetSendRespComplete(t, o, k)
  PROVE  AllOps'
<1>1. /\ lock_queue' = lock_queue /\ reading' = reading /\ applied' = applied
      /\ UNCHANGED <<completed, queued, rma_ops_list, remote_ops_done, call>>
      /\ \/ chan' = chan
         \/ unlockDone[t] # None /\ Send(t, unlockDone[t], Bare("UNLOCK_DONE", 0))
  BY DEF SkipEntry, Released, GetSendRespComplete, origin
<1>2. CASE chan' = chan
  BY <1>1, <1>2, SamePackets, OpsStill
<1>3. CASE unlockDone[t] # None /\ Send(t, unlockDone[t], Bare("UNLOCK_DONE", 0))
  <2>1. PICK o \in Proc : o = unlockDone[t]
    BY <1>3 DEF Typed
  <2>2. PICK m : m = Bare("UNLOCK_DONE", 0)
    OBVIOUS
  <2>3. m \in Packets /\ m.type \notin Requests
    BY <2>2, Made, Constants DEF Bare, Packet, Requests
  <2>4. Send(t, o, m)
    BY <1>3, <2>1, <2>2
  <2> QED
    BY <1>1, <2>3, <2>4, SendKeeps, OpsStill
<1> QED
  BY <1>1, <1>2, <1>3

-----------------------------------------------------------------------------
(* An operation is started; a call begins and ends. *)
LEMMA OpsQueue ==
  ASSUME Typed, AllOps, NEW o \in Proc, NEW t \in Proc, NEW kind \in Kinds, Queue(o, t, kind)
  PROVE  AllOps'
<1> DEFINE op == [kind |-> kind, n |-> queued[o][t] + 1]
<1>1. /\ lock_queue' = lock_queue /\ reading' = reading /\ applied' = applied /\ chan' = chan
      /\ UNCHANGED <<completed, remote_ops_done, call>> /\ call[o] = None
      /\ rma_ops_list' = [rma_ops_list EXCEPT ![o][t] = Append(@, op)]
      /\ queued' = [queued EXCEPT ![o][t] = @ + 1]
  BY DEF Queue, MayAccess, Idle, UnchangedAtTargets, target
<1>2. /\ rma_ops_list \in [Proc -> [Proc -> Seq(Ops)]] /\ queued \in [Proc -> [Proc -> Nat]]
      /\ rma_ops_list[o][t] \in Seq(Ops) /\ queued[o][t] \in Nat
  BY DEF Typed, Ops
<1>3. op \in Ops /\ op.n = queued[o][t] + 1
  BY <1>2 DEF Ops
<1> HIDE DEF op
<1>4. /\ OnlyAt(rma_ops_list, rma_ops_list', o, t) /\ OnlyAt(queued, queued', o, t)
      /\ OnlyAt(completed, completed', o, t) /\ OnlyAt(remote_ops_done, remote_ops_done', o, t)
      /\ rma_ops_list'[o][t] = Append(rma_ops_list[o][t], op)
      /\ queued'[o][t] = queued[o][t] + 1
  BY <1>1, <1>2 DEF OnlyAt
<1>5. \A a, b \in Proc : a # o \/ b # t => KeepsOps(a, b)
  BY <1>1, <1>4, SamePackets, OriginOps DEF KeepsApplied, IsApplied
<1>6. /\ Listed(o, t) \subseteq Listed(o, t)' /\ op.n \in Listed(o, t)'
  <2> DEFINE s == rma_ops_list[o][t]
  <2>1. /\ Len(s) \in Nat /\ Len(Append(s, op)) = Len(s) + 1
        /\ \A i \in 1 .. Len(s) : Append(s, op)[i] = s[i]
        /\ Append(s, op)[Len(s) + 1] = op
    BY <1>2, <1>3, Appended
  <2>2. Elements(s) \subseteq Elements(Append(s, op)) /\ op \in Elements(Append(s, op))
    BY <2>1 DEF Elements
  <2> QED
    BY <1>4, <2>2 DEF Listed
<1>7. OpsInv(o, t)'
  <2>1. OpsInv(o, t) /\ ~Waits(o, t)'
    BY <1>1 DEF AllOps, Waits
  <2>2. \A n \in 1 .. queued'[o][t] : n \in 1 .. queued[o][t] \/ n = op.n
    BY <1>2, <1>3, <1>4
  <2>3. \A n \in 1 .. queued'[o][t] : IsApplied(o, t, n)' \/ n \in Listed(o, t)'
    BY <1>1, <1>6, <2>1, <2>2 DEF OpsInv, IsApplied
  <2>4. \A n \in 1 .. completed'[o][t] : IsApplied(o, t, n)'
    BY <1>1, <2>1 DEF OpsInv, IsApplied
  <2> QED
    BY <2>1, <2>3, <2>4 DEF OpsInv, Stage
<1> QED
  BY <1>5, <1>7, OpsWhole

(* Operations on the own window are never in a list. *)
LEMMA OpsSelf ==
  ASSUME Typed, Inv, AllOps, NEW o \in Proc, AccessSelf(o) \/ UnlockSelf(o)
  PROVE  AllOps'
<1>1. /\ lock_queue' = lock_queue /\ reading' = reading /\ chan' = chan
      /\ UNCHANGED <<rma_ops_list, remote_ops_done, call>> /\ call[o] = None
  BY DEF AccessSelf, UnlockSelf, MayAccess, Idle, target
<1>2. /\ queued \in [Proc -> [Proc -> Nat]] /\ completed \in [Proc -> [Proc -> Nat]]
      /\ applied \in [Proc -> SUBSET (Proc \X Nat)] /\ queued[o][o] \in Nat
  BY DEF Typed
<1>3. OpsInv(o, o) /\ ~Waits(o, o)' /\ Listed(o, o) = {}
  <2>1. rma_ops_list[o][o] = <<>>
    BY DEF Inv, Linked
  <2>2. Elements(<<>>) = {}
    BY DEF Elements
  <2> QED
    BY <1>1, <2>1, <2>2 DEF AllOps, Waits, Listed
<1>4. \A n \in 1 .. queued[o][o] : IsApplied(o, o, n)
  BY <1>3 DEF OpsInv
<1>5. CASE AccessSelf(o)
  <2>1. /\ queued' = [queued EXCEPT ![o][o] = @ + 1] /\ completed' = completed
        /\ applied' = [applied EXCEPT ![o] = @ \cup {<<o, queued[o][o] + 1>>}]
    BY <1>5 DEF AccessSelf, Apply
  <2>2. /\ OnlyAt(queued, queued', o, o) /\ queued'[o][o] = queued[o][o] + 1
        /\ applied'[o] = applied[o] \cup {<<o, queued[o][o] + 1>>}
        /\ \A p \in Proc : p # o => applied'[p] = applied[p]
    BY <1>2, <2>1 DEF OnlyAt
  <2>3. \A a, b \in Proc : KeepsApplied(a, b)
    BY <2>2 DEF KeepsApplied, IsApplied
  <2>4. /\ OnlyAt(completed, completed', o, o) /\ OnlyAt(rma_ops_list, rma_ops_list', o, o)
        /\ OnlyAt(remote_ops_done, remote_ops_done', o, o)
    BY <1>1, <2>1 DEF OnlyAt
  <2>5. \A a, b \in Proc : a # o \/ b # o => KeepsOps(a, b)
    BY <1>1, <2>2, <2>3, <2>4, SamePackets, OriginOps
  <2>6. \A n \in 1 .. queued'[o][o] : IsApplied(o, o, n)'
    <3>1. \A n \in 1 .. queued'[o][o] : n \in 1 .. queued[o][o] \/ n = queued[o][o] + 1
      BY <1>2, <2>2
    <3> QED
      BY <1>4, <2>2, <3>1 DEF IsApplied
  <2>7. \A n \in 1 .. completed'[o][o] : IsApplied(o, o, n)'
    BY <1>3, <2>1, <2>3 DEF OpsInv, KeepsApplied
  <2>8. OpsInv(o, o)'
    BY <1>3, <2>6, <2>7 DEF OpsInv, Stage
  <2> QED
    BY <2>5, <2>8, OpsWhole
<1>6. CASE UnlockSelf(o)
  <2>1. /\ completed' = [completed EXCEPT ![o][o] = queued[o][o]] /\ queued' = queued
        /\ applied' = applied
    BY <1>6 DEF UnlockSelf
  <2>2. OnlyAt(completed, completed', o, o) /\ completed'[o][o] = queued[o][o]
    BY <1>2, <2>1 DEF OnlyAt
  <2>3. \A a, b \in Proc : KeepsApplied(a, b)
    BY <2>1 DEF KeepsApplied, IsApplied
  <2>4. /\ OnlyAt(queued, queued', o, o) /\ OnlyAt(rma_ops_list, rma_ops_list', o, o)
        /\ OnlyAt(remote_ops_done, remote_ops_done', o, o)
    BY <1>1, <2>1 DEF OnlyAt
  <2>5. \A a, b \in Proc : a # o \/ b # o => KeepsOps(a, b)
    BY <1>1, <2>2, <2>3, <2>4, SamePackets, OriginOps
  <2>6. OpsInv(o, o)'
    BY <1>3, <1>4, <2>1, <2>2 DEF OpsInv, Stage, IsApplied
  <2> QED
    BY <2>5, <2>6, OpsWhole
<1> QED
  BY <1>5, <1>6

LEMMA CountsKept ==
  ASSUME NEW o \in Proc, NEW t \in Proc, KeepsApplied(o, t), OpsInv(o, t),
         completed'[o][t] = completed[o][t], queued'[o][t] = queued[o][t],
         rma_ops_list'[o][t] = rma_ops_list[o][t]
  PROVE  /\ \A n \in 1 .. completed'[o][t] : IsApplied(o, t, n)'
         /\ \A n \in 1 .. queued'[o][t] : IsApplied(o, t, n)' \/ n \in Listed(o, t)'
         /\ Listed(o, t)' = Listed(o, t)
         /\ AllApplied(o, t) => AllApplied(o, t)'
<1>1. Listed(o, t)' = Listed(o, t)
  BY DEF Listed
<1> QED
  BY <1>1 DEF OpsInv, KeepsApplied, AllApplied

LEMMA OpsCallEmpty ==
  ASSUME Typed, AllOps, NEW o \in Proc, NEW t \in Proc, UnlockEmpty(o, t) \/ FlushEmpty(o, t)
  PROVE  AllOps'
<1>1. PICK stage \in {"unlock", "done"}, unlock \in BOOLEAN :
        /\ Wait(o, t, stage, unlock, FALSE)
        /\ chan' = chan \/ Send(o, t, Bare("UNLOCK", epochs[o][t]))
  BY DEF UnlockEmpty, FlushEmpty
<1>2. /\ lock_queue' = lock_queue /\ reading' = reading /\ applied' = applied
      /\ UNCHANGED <<completed, queued, rma_ops_list, remote_ops_done>>
      /\ call[o] = None /\ rma_ops_list[o][t] = <<>>
  BY DEF UnlockEmpty, FlushEmpty, Idle, UnchangedAtTargets, target
<1>3. CallAt(o, t)
  BY <1>1, <1>2, Waiting
<1>4. \A a, b \in Proc : a # o \/ b # t => KeepsPackets(chan[a][b], chan'[a][b])
  <2>1. epochs[o][t] \in Nat
    BY DEF Typed
  <2>2. Bare("UNLOCK", epochs[o][t]) \in Packets
    BY <2>1, Made, Constants
  <2> QED
    BY <1>1, <2>2, SamePackets, SendKeeps
<1>5. \A a, b \in Proc : a # o \/ b # t => KeepsOps(a, b)
  BY <1>2, <1>3, <1>4, OriginOps DEF OnlyAt, KeepsApplied, IsApplied
<1>6. OpsInv(o, t)'
  <2>1. OpsInv(o, t) /\ KeepsApplied(o, t)
    BY <1>2 DEF AllOps, KeepsApplied, IsApplied
  <2>2. AllApplied(o, t)'
    BY <1>2 DEF AllApplied, Listed, Elements
  <2> QED
    BY <1>2, <2>1, <2>2, CountsKept DEF OpsInv
<1> QED
  BY <1>5, <1>6, OpsWhole

(* The single operation with its lock and unlock. *)
LEMMA OpsUnlockSingleOp ==
  ASSUME Typed, AllOps, NEW o \in Proc, NEW t \in Proc, UnlockSingleOp(o, t)
  PROVE  AllOps'
<1>0. PICK op : op = Head(rma_ops_list[o][t])
  OBVIOUS
<1> DEFINE type == IF op.kind = "put" THEN "LOCK_PUT_UNLOCK" ELSE "LOCK_ACCUM_UNLOCK"
<1>1. PICK m : m = Packet(type, lockType[o][t], op.n, epochs[o][t], TRUE, TRUE)
  OBVIOUS
<1>2. /\ lock_queue' = lock_queue /\ reading' = reading /\ applied' = applied
      /\ UNCHANGED <<completed, queued, rma_ops_list>> /\ call[o] = None
      /\ remote_ops_done' = [remote_ops_done EXCEPT ![o][t] = 0]
      /\ Len(rma_ops_list[o][t]) = 1
      /\ Send(o, t, m) /\ Wait(o, t, "done", TRUE, FALSE)
  BY <1>0, <1>1 DEF UnlockSingleOp, SingleOp, Idle, UnchangedAtTargets, target
<1>3. op \in Ops /\ Listed(o, t) \subseteq {op.n}
  <2>1. rma_ops_list[o][t] \in Seq(Ops)
    BY ListedNumbers
  <2>2. rma_ops_list[o][t] # <<>>
    BY <1>2
  <2>3. op = rma_ops_list[o][t][1] /\ op \in Ops
    BY <1>0, <2>1, <2>2, FirstTaken
  <2> QED
    BY <1>2, <2>3, ListedNumbers
<1>4. m \in Packets /\ m.n = op.n /\ m.type \in Carriers
  <2>1. lockType[o][t] \in Types /\ epochs[o][t] \in Nat /\ op.n \in Nat
    BY <1>3 DEF Typed, Ops
  <2>2. type \in PacketTypes /\ type \in Carriers
    BY DEF PacketTypes, Carriers
  <2> HIDE DEF type
  <2>3. m \in Packets /\ m.n = op.n /\ m.type = type
    BY <1>1, <2>1, <2>2 DEF Packet, Packets, PacketTypes
  <2> QED
    BY <2>2, <2>3
<1> HIDE DEF type
<1>5. /\ CallAt(o, t) /\ call'[o] # None
      /\ call'[o] = [stage |-> "done", t |-> t, unlock |-> TRUE, isLocal |-> FALSE]
  BY <1>2, Waiting
<1>6. /\ OnlyAt(remote_ops_done, remote_ops_done', o, t) /\ remote_ops_done'[o][t] = 0
  BY <1>2 DEF Typed, OnlyAt
<1>7. /\ \A a, b \in Proc : a # o \/ b # t => KeepsPackets(chan[a][b], chan'[a][b])
      /\ chan'[o][t] = Append(chan[o][t], m)
  BY <1>2, <1>4, SendKeeps
<1>8. \A a, b \in Proc : a # o \/ b # t => KeepsOps(a, b)
  BY <1>2, <1>5, <1>6, <1>7, OriginOps DEF OnlyAt, KeepsApplied, IsApplied
<1>9. OpsInv(o, t)'
  <2>1. OpsInv(o, t) /\ KeepsApplied(o, t)
    BY <1>2 DEF AllOps, KeepsApplied, IsApplied
  <2>2. OnItsWay(o, t, op.n)'
    <3>1. chan[o][t] \in Seq(Packets)
      BY DEF Typed
    <3>2. Carries(Append(chan[o][t], m), m.n)
      BY <1>4, <3>1, PacketAppended
    <3> QED
      BY <1>4, <1>7, <3>2 DEF OnItsWay
  <2>3. Undone(o, t)' /\ Stage(o, t, "done")' /\ ~Stage(o, t, "unlock")'
    BY <1>5, <1>6, NoneAssumption DEF Undone, Stage, Waits
  <2>4. Listed(o, t)' = Listed(o, t)
    BY <1>2 DEF Listed
  <2>5. AllIssued(o, t)'
    BY <1>3, <2>2, <2>4 DEF AllIssued
  <2> QED
    BY <1>2, <2>1, <2>3, <2>5, CountsKept DEF OpsInv
<1> QED
  BY <1>8, <1>9, OpsWhole

(* All operations of the list are issued, and the last says when it is done. *)
LEMMA OpsIssue ==
  ASSUME Typed, AllOps, NEW o \in Proc, NEW t \in Proc, NEW unlock \in BOOLEAN, NEW isLocal \in BOOLEAN,
         Issue(o, t, unlock, isLocal), rma_ops_list[o][t] # <<>>, call[o] = None \/ call[o].t = t,
         isLocal => \A i \in 1 .. Len(rma_ops_list[o][t]) : rma_ops_list[o][t][i].kind = "get",
         UnchangedAtTargets, reading' = reading, UNCHANGED <<completed, queued, rma_ops_list>>
  PROVE  AllOps'
<1> DEFINE list == rma_ops_list[o][t]
<1>1. PICK ops : ops = Reordered(list)
  OBVIOUS
<1>2. PICK packets : packets = PacketsOf(ops, epochs[o][t], unlock)
  OBVIOUS
<1>3. /\ lock_queue' = lock_queue /\ applied' = applied
      /\ ChanSet(o, t, chan[o][t] \o packets)
      /\ remote_ops_done' =
           [remote_ops_done EXCEPT ![o][t] = IF ops[Len(ops)].kind = "get" THEN 1 ELSE 0]
      /\ Wait(o, t, "done", unlock, isLocal)
  BY <1>1, <1>2 DEF Issue, ChanSet, UnchangedAtTargets, target
<1>4. /\ list \in Seq(Ops) /\ ops \in Seq(Ops) /\ Len(ops) = Len(list)
      /\ \A i \in 1 .. Len(list) : \E j \in 1 .. Len(list) : ops[i] = list[j]
      /\ \A j \in 1 .. Len(list) : \E i \in 1 .. Len(list) : ops[i] = list[j]
      /\ epochs[o][t] \in Nat /\ chan[o][t] \in Seq(Packets)
  <2>1. list \in Seq(Ops)
    BY ListedNumbers
  <2>2. epochs[o][t] \in Nat /\ chan[o][t] \in Seq(Packets)
    BY DEF Typed
  <2> QED
    BY <1>1, <2>1, <2>2, ReorderedOps, AllReordered
<1>5. ops # <<>> /\ Len(ops) \in Nat \ {0}
  BY <1>4, EmptySeq
<1>6. /\ packets \in Seq(Packets) /\ Len(packets) = Len(ops)
      /\ \A i \in 1 .. Len(packets) :
           /\ packets[i].n = ops[i].n /\ packets[i].type \in Carriers
           /\ ops[i].kind = "get" => packets[i].type = "GET"
  <2>1. PICK k \in Nat : k = epochs[o][t]
    BY <1>4
  <2>2. ops \in Seq(Ops) /\ ops # <<>> /\ packets = PacketsOf(ops, k, unlock)
    BY <1>2, <1>4, <1>5, <2>1
  <2> QED
    BY <2>2, NumbersIssued
<1>7. /\ chan'[o][t] = chan[o][t] \o packets
      /\ \A a, b \in Proc : a # o \/ b # t => KeepsPackets(chan[a][b], chan'[a][b])
  <2>1. PICK r : r = chan[o][t] \o packets
    OBVIOUS
  <2>2. ChanSet(o, t, r)
    BY <1>3, <2>1
  <2>3. /\ chan'[o][t] = r
        /\ \A a, b \in Proc : a # o \/ b # t => chan'[a][b] = chan[a][b]
    BY <2>2, ChanChanged
  <2> QED
    BY <2>1, <2>3, SamePackets
<1>8. CallAt(o, t) /\ call'[o] = [stage |-> "done", t |-> t, unlock |-> unlock, isLocal |-> isLocal]
  BY <1>3, Waiting
<1>9. /\ OnlyAt(remote_ops_done, remote_ops_done', o, t)
      /\ remote_ops_done'[o][t] = IF ops[Len(ops)].kind = "get" THEN 1 ELSE 0
  BY <1>3 DEF Typed, OnlyAt
<1>10. \A a, b \in Proc : a # o \/ b # t => KeepsOps(a, b)
  BY <1>3, <1>7, <1>8, <1>9, OriginOps DEF OnlyAt, KeepsApplied, IsApplied
<1>11. /\ \A i \in 1 .. Len(packets) : Carries(chan'[o][t], packets[i].n)
       /\ packets[Len(packets)].type = "GET" => EndsWithGet(chan'[o][t])
  <2>1. Len(packets) # 0 /\ packets \in Seq(Packets) /\ chan[o][t] \in Seq(Packets)
    BY <1>4, <1>5, <1>6
  <2>2. /\ \A i \in 1 .. Len(packets) :
             packets[i].type \in Carriers => Carries(chan[o][t] \o packets, packets[i].n)
        /\ packets[Len(packets)].type = "GET" => EndsWithGet(chan[o][t] \o packets)
    BY <2>1, PacketsJoined
  <2> QED
    BY <1>6, <1>7, <2>2
<1>12. AllIssued(o, t)'
  <2>1. ASSUME NEW n \in Listed(o, t) PROVE Carries(chan'[o][t], n)
    <3>1. PICK j \in 1 .. Len(list) : list[j].n = n
      BY ListedNumbers
    <3>2. PICK i \in 1 .. Len(list) : ops[i] = list[j]
      BY <1>4
    <3>3. i \in 1 .. Len(packets) /\ packets[i].n = n
      BY <1>4, <1>6, <3>1, <3>2
    <3> QED
      BY <1>11, <3>3
  <2>2. Listed(o, t)' = Listed(o, t)
    BY DEF Listed
  <2> QED
    BY <2>1, <2>2 DEF AllIssued, OnItsWay
<1>13. EndsWithGet(chan[o][t])' \/ Undone(o, t)'
  <2>1. Len(ops) \in 1 .. Len(ops)
    BY <1>5
  <2>2. CASE ops[Len(ops)].kind = "get"
    BY <1>6, <1>11, <2>1, <2>2
  <2>3. CASE ops[Len(ops)].kind # "get"
    <3>1. ~isLocal
      <4>1. PICK j \in 1 .. Len(list) : ops[Len(ops)] = list[j]
        BY <1>4, <2>1
      <4> QED
        BY <2>3, <4>1
    <3> QED
      BY <1>8, <1>9, <2>3, <3>1 DEF Undone
  <2> QED
    BY <2>2, <2>3
<1>14. OpsInv(o, t)'
  <2>1. OpsInv(o, t) /\ KeepsApplied(o, t)
    BY <1>3 DEF AllOps, KeepsApplied, IsApplied
  <2>2. ~Stage(o, t, "unlock")'
    BY <1>8 DEF Stage
  <2> QED
    BY <1>12, <1>13, <2>1, <2>2, CountsKept DEF OpsInv
<1> QED
  BY <1>10, <1>14, OpsWhole

LEMMA OpsFlushLocked ==
  ASSUME Typed, Inv, AllOps, NEW o \in Proc, NEW t \in Proc, NEW unlock \in BOOLEAN,
         NEW isLocal \in BOOLEAN, isLocal => "flush_local" \in plan.flushes,
         FlushLocked(o, t, unlock, isLocal)
  PROVE  AllOps'
<1>1. Linked(o, t)
  BY DEF Inv
<1>2. isLocal => \A i \in 1 .. Len(rma_ops_list[o][t]) : rma_ops_list[o][t][i].kind = "get"
  BY <1>1 DEF Linked
<1> QED
  BY <1>2, OpsIssue DEF FlushLocked, Idle

LEMMA OpsGranted ==
  ASSUME Typed, Inv, AllOps, NEW o \in Proc, Granted(o)
  PROVE  AllOps'
<1>1. PICK t : t = call[o].t
  OBVIOUS
<1>2. t \in Proc /\ call[o].unlock \in BOOLEAN /\ call[o].isLocal \in BOOLEAN
  BY <1>1 DEF Typed, Granted, Calls
<1>3. Linked(o, t) /\ Stage(o, t, "grant") /\ Waits(o, t)
  BY <1>1, <1>2 DEF Inv, Granted, Stage, Waits
<1>4. /\ rma_ops_list[o][t] # <<>>
      /\ call[o].isLocal =>
           \A i \in 1 .. Len(rma_ops_list[o][t]) : rma_ops_list[o][t][i].kind = "get"
  BY <1>3 DEF Linked
<1> QED
  BY <1>1, <1>2, <1>4, OpsIssue DEF Granted

(***************************************************************************)
(* The end of a call: no get is left, and the answer to the last put has   *)
(* come, so that all of the list is done.                                  *)
(***************************************************************************)
LEMMA OpsReturn ==
  ASSUME Typed, Inv, AllOps, NEW o \in Proc, Return(o)
  PROVE  AllOps'
<1>0. PICK t \in Proc : t = call[o].t
  BY DEF Return, Typed, Calls
<1>1. /\ lock_queue' = lock_queue /\ reading' = reading /\ applied' = applied /\ chan' = chan
      /\ UNCHANGED <<queued, remote_ops_done>> /\ Waits(o, t)
      /\ call' = [call EXCEPT ![o] = None]
      /\ rma_ops_list' = [rma_ops_list EXCEPT ![o][t] = <<>>]
      /\ completed' = [completed EXCEPT ![o][t] = IF call[o].isLocal THEN @ ELSE queued[o][t]]
      /\ \/ Stage(o, t, "unlock")
         \/ Stage(o, t, "done") /\ IsDone(o, t)
  BY <1>0 DEF Return, Stage, Waits, UnchangedAtTargets, target
<1>2. AllApplied(o, t)
  <2>1. OpsInv(o, t) /\ Linked(o, t)
    BY DEF AllOps, Inv
  <2>2. CASE Stage(o, t, "unlock")
    BY <2>1, <2>2 DEF OpsInv, AllApplied, Listed, Elements
  <2>3. CASE Stage(o, t, "done") /\ IsDone(o, t)
    <3>1. chan[o][t] \in Seq(Packets) /\ chan[t][o] \in Seq(Packets)
      BY DEF Typed
    <3>2. NumberOf(chan[o][t], "GET") \in Nat /\ NumberOf(chan[t][o], "RMA_RESP") \in Nat
      BY <3>1, PlacesFinite
    <3>3. NumberOf(chan[o][t], "GET") = 0
      BY <2>1, <2>3, <3>2 DEF Linked, IsDone
    <3>4. ~EndsWithGet(chan[o][t])
      <4>1. SUFFICES ASSUME NEW i \in 1 .. Len(chan[o][t]), chan[o][t][i].type = "GET" PROVE FALSE
        BY DEF EndsWithGet
      <4> QED
        BY <3>1, <3>3, <4>1, Counted
    <3>5. ~Undone(o, t)
      BY <2>3 DEF IsDone, Undone
    <3> QED
      BY <2>1, <2>3, <3>4, <3>5 DEF OpsInv
  <2> QED
    BY <1>1, <2>2, <2>3
<1>3. /\ OnlyAt(rma_ops_list, rma_ops_list', o, t) /\ OnlyAt(completed, completed', o, t)
      /\ rma_ops_list'[o][t] = <<>>
      /\ completed'[o][t] = completed[o][t] \/ completed'[o][t] = queued[o][t]
  <2>1. /\ rma_ops_list \in [Proc -> [Proc -> Seq(Ops)]] /\ completed \in [Proc -> [Proc -> Nat]]
    BY DEF Typed, Ops
  <2> QED
    BY <1>1, <2>1 DEF OnlyAt
<1>4. CallAt(o, t) /\ call'[o] = None
  BY <1>0, <1>1 DEF CallAt, Typed
<1>5. \A a, b \in Proc : a # o \/ b # t => KeepsOps(a, b)
  BY <1>1, <1>3, <1>4, SamePackets, OriginOps DEF OnlyAt, KeepsApplied, IsApplied
<1>6. OpsInv(o, t)'
  <2>1. \A n \in 1 .. queued[o][t] : IsApplied(o, t, n)
    BY <1>2 DEF AllOps, OpsInv, AllApplied
  <2>2. \A n \in 1 .. completed'[o][t] : IsApplied(o, t, n)'
    BY <1>1, <1>3, <2>1 DEF AllOps, OpsInv, IsApplied
  <2>3. ~Waits(o, t)'
    BY <1>4 DEF Waits
  <2> QED
    BY <1>1, <2>1, <2>2, <2>3 DEF OpsInv, IsApplied, Stage
<1> QED
  BY <1>5, <1>6, OpsWhole

-----------------------------------------------------------------------------
(* What a target does: an operation stays on its way until it is applied. *)
LEMMA OpsServe ==
  ASSUME Typed, AllOps, UNCHANGED origin,
         \A a, b \in Proc : KeepsApplied(a, b) /\ KeepsWay(a, b),
         \A a, b \in Proc : EndsWithGet(chan[a][b]) => EndsWithGet(chan'[a][b])
  PROVE  AllOps'
<1>1. ASSUME NEW a \in Proc, NEW b \in Proc PROVE OpsInv(a, b)'
  BY TargetOps, OpsKept DEF AllOps
<1> QED
  BY <1>1 DEF AllOps

LEMMA ApplyAt ==
  ASSUME Typed, NEW o \in Proc, NEW t \in Proc, NEW n, Apply(t, o, n)
  PROVE  IsApplied(o, t, n)' /\ \A a, b \in Proc : KeepsApplied(a, b)
<1>1. applied \in [Proc -> SUBSET (Proc \X Nat)]
  BY DEF Typed
<1>2. /\ applied'[t] = applied[t] \cup {<<o, n>>}
      /\ \A p \in Proc : p # t => applied'[p] = applied[p]
  BY <1>1 DEF Apply
<1> QED
  BY <1>2 DEF IsApplied, KeepsApplied

(* The first packet, when it carries an operation. *)
LEMMA HeadCarries ==
  ASSUME Typed, Inv, NEW o \in Proc, NEW t \in Proc, chan[o][t] # <<>>,
         NEW m, m = Head(chan[o][t]), m.type \in Requests
  PROVE  NotQueued(o, t)
<1>1. PairInv(o, t)
  BY DEF Inv, PairInv
<1>2. CASE m.type \in Asks
  BY <1>1, <1>2, HeadAsks DEF Elsewhere
<1>3. CASE m.type \notin Asks /\ Final(m)
  BY <1>1, <1>3, HeadEnds DEF Elsewhere
<1>4. CASE ~Final(m)
  BY <1>1, <1>4, HeadPart DEF Part, AtRest
<1> QED
  BY <1>2, <1>3, <1>4

LEMMA NotInQueue ==
  ASSUME NEW o \in Proc, NEW t \in Proc, NotQueued(o, t), NEW n, OnItsWay(o, t, n)
  PROVE  Carries(chan[o][t], n) \/ (reading[t][o] # None /\ reading[t][o].n = n)
<1>1. \A e : ~Queued(o, t, e)
  BY DEF NotQueued, NoneOf, Queued, OnlyOf
<1> QED
  BY <1>1 DEF OnItsWay

(* The payload is read, into the window or for the queue. *)
LEMMA OpsReads ==
  ASSUME Typed, Inv, AllOps, NEW t \in Proc, NEW o \in Proc,
         HandlePut(t, o) \/ HandleLockPut(t, o) \/ HandleLockAccum(t, o)
  PROVE  AllOps'
<1>0. PICK m : m = Head(chan[o][t])
  OBVIOUS
<1>1. /\ UNCHANGED origin /\ applied' = applied
      /\ reading[t][o] = None /\ reading' = [reading EXCEPT ![t][o] = m]
      /\ chan[o][t] # <<>> /\ Receive(o, t)
      /\ m.type \in {"PUT", "LOCK_PUT_UNLOCK", "LOCK_ACCUM_UNLOCK"}
      /\ lock_queue' = lock_queue \/ Enqueue(t, o, m)
  BY <1>0 DEF HandlePut, HandleLockPut, HandleLockAccum, First, StartReading, target
<1>2. /\ m \in Packets /\ m # None /\ m.type \in Carriers \cap Requests /\ m.type # "GET"
  <2>1. chan[o][t] \in Seq(Packets)
    BY DEF Typed
  <2>2. m \in Packets
    BY <1>0, <1>1, <2>1, FirstTaken
  <2> QED
    BY <1>1, <2>2, NoneAssumption DEF Carriers, Requests
<1>3. NotQueued(o, t)
  BY <1>0, <1>1, <1>2, HeadCarries
<1>4. /\ reading'[t][o] = m
      /\ \A a, b \in Proc : a # o \/ b # t => reading'[b][a] = reading[b][a]
  BY <1>1 DEF Typed
<1>5. /\ \A a, b \in Proc : a # o \/ b # t => KeepsQueue(lock_queue[b], lock_queue'[b], a)
      /\ NotQueued(o, t)' \/ \E e \in Elements(lock_queue[t])' : Queued(o, t, e)' /\ e.op = m.n
  <2>1. CASE lock_queue' = lock_queue
    BY <1>3, <2>1, StillQueue DEF NotQueued
  <2>2. CASE Enqueue(t, o, m)
    BY <1>2, <1>3, <2>2, EnqueueParts
  <2> QED
    BY <1>1, <2>1, <2>2
<1>6. /\ chan'[o][t] = Tail(chan[o][t])
      /\ \A a, b \in Proc : a # o \/ b # t => KeepsPackets(chan[a][b], chan'[a][b])
  BY <1>1, ReceiveKeeps
<1>7. /\ \A n : Carries(chan[o][t], n) => Carries(chan'[o][t], n) \/ m.n = n
      /\ EndsWithGet(chan[o][t]) => EndsWithGet(chan'[o][t])
  <2>1. chan[o][t] \in Seq(Packets)
    BY DEF Typed
  <2> QED
    BY <1>0, <1>1, <1>2, <1>6, <2>1, PacketTaken
<1>8. KeepsWay(o, t)
  <2>1. OnItsWay(o, t, m.n)'
    BY <1>2, <1>4, <1>5 DEF OnItsWay
  <2>2. ASSUME NEW n, OnItsWay(o, t, n) PROVE OnItsWay(o, t, n)'
    <3>1. Carries(chan[o][t], n)
      BY <1>1, <1>3, <2>2, NotInQueue
    <3>2. CASE m.n = n
      BY <2>1, <3>2
    <3>3. CASE Carries(chan'[o][t], n)
      BY <3>3 DEF OnItsWay
    <3> QED
      BY <1>7, <3>1, <3>2, <3>3
  <2> QED
    BY <2>2 DEF KeepsWay
<1>9. \A a, b \in Proc : KeepsApplied(a, b) /\ KeepsWay(a, b)
  BY <1>1, <1>4, <1>5, <1>6, <1>8, WayKept DEF KeepsApplied, IsApplied
<1>10. \A a, b \in Proc : EndsWithGet(chan[a][b]) => EndsWithGet(chan'[a][b])
  BY <1>6, <1>7 DEF KeepsPackets
<1> QED
  BY <1>1, <1>9, <1>10, OpsServe

(* A lock is asked for, and granted now or later. *)
LEMMA OpsHandleLock ==
  ASSUME Typed, Inv, AllOps, NEW t \in Proc, NEW o \in Proc, o # t, HandleLock(t, o)
  PROVE  AllOps'
<1>0. PICK m : m = Head(chan[o][t])
  OBVIOUS
<1>1. /\ UNCHANGED origin /\ applied' = applied /\ reading' = reading /\ reading[t][o] = None
      /\ chan[o][t] # <<>> /\ m.type = "LOCK"
      /\ \/ lock_queue' = lock_queue /\ Answer(o, t, LockPacket("LOCK_GRANTED", m.lock, m.k))
         \/ Enqueue(t, o, m) /\ Receive(o, t)
  BY <1>0 DEF HandleLock, First
<1>2. m \in Packets /\ m.type \notin Carriers /\ m.type \in Requests
  <2>1. chan[o][t] \in Seq(Packets)
    BY DEF Typed
  <2>2. m \in Packets
    BY <1>0, <1>1, <2>1, FirstTaken
  <2> QED
    BY <1>1, <2>2 DEF Carriers, Requests
<1>3. NotQueued(o, t)
  BY <1>0, <1>1, <1>2, HeadCarries
<1>4. \A a, b \in Proc : KeepsPackets(chan[a][b], chan'[a][b])
  <2>1. CASE Receive(o, t)
    BY <1>0, <1>1, <1>2, <2>1, ReceiveKeeps
  <2>2. CASE Answer(o, t, LockPacket("LOCK_GRANTED", m.lock, m.k))
    <3>1. PICK a : a = LockPacket("LOCK_GRANTED", m.lock, m.k)
      OBVIOUS
    <3>2. m.lock \in Types /\ m.k \in Nat
      BY <1>2 DEF Packets
    <3>3. a \in Packets /\ a.type \notin Requests
      BY <3>1, <3>2, Made, Constants DEF LockPacket, Packet, Requests
    <3>4. Answer(o, t, a)
      BY <2>2, <3>1
    <3> QED
      BY <1>0, <1>1, <1>2, <3>3, <3>4, AnswerKeeps
  <2> QED
    BY <1>1, <2>1, <2>2
<1>5. \A a, b \in Proc : a # o \/ b # t => KeepsQueue(lock_queue[b], lock_queue'[b], a)
  <2>1. CASE lock_queue' = lock_queue
    BY <2>1, StillQueue
  <2>2. CASE Enqueue(t, o, m)
    BY <1>2, <1>3, <2>2, EnqueueParts
  <2> QED
    BY <1>1, <2>1, <2>2
<1>6. KeepsWay(o, t)
  BY <1>1, <1>3, <1>4, NotInQueue DEF KeepsWay, KeepsPackets, OnItsWay
<1>7. \A a, b \in Proc : KeepsApplied(a, b) /\ KeepsWay(a, b)
  BY <1>1, <1>4, <1>5, <1>6, WayKept DEF KeepsApplied, IsApplied
<1> QED
  BY <1>1, <1>4, <1>7, OpsServe DEF KeepsPackets

(***************************************************************************)
(* A get is done at once.  Behind the last get of a list is no request, so *)
(* that all of the list is done.                                           *)
(***************************************************************************)
LEMMA OpsHandleGet ==
  ASSUME Typed, Inv, AllOps, NEW t \in Proc, NEW o \in Proc, o # t, HandleGet(t, o)
  PROVE  AllOps'
<1>0. PICK m : m = Head(chan[o][t])
  OBVIOUS
<1>1. PICK a : a = Packet("RMA_RESP", "SHARED", m.n, m.k, FALSE, m.unlock)
  OBVIOUS
<1>2. /\ UNCHANGED origin /\ reading' = reading /\ lock_queue' = lock_queue
      /\ reading[t][o] = None /\ chan[o][t] # <<>> /\ m.type = "GET"
      /\ Apply(t, o, m.n) /\ Answer(o, t, a)
  BY <1>0, <1>1 DEF HandleGet, First, target
<1>3. m \in Packets /\ a \in Packets /\ a.type \notin Requests
  <2>1. chan[o][t] \in Seq(Packets)
    BY DEF Typed
  <2>2. m \in Packets
    BY <1>0, <1>2, <2>1, FirstTaken
  <2>3. m.n \in Nat /\ m.k \in Nat /\ m.unlock \in BOOLEAN
    BY <2>2 DEF Packets
  <2>4. a \in Packets
    BY <1>1, <2>3, Made, Constants
  <2> QED
    BY <1>1, <2>2, <2>4 DEF Packet, Requests
<1>4. IsApplied(o, t, m.n)' /\ \A x, y \in Proc : KeepsApplied(x, y)
  BY <1>2, ApplyAt
<1>5. /\ chan'[o][t] = Tail(chan[o][t])
      /\ \A x, y \in Proc : x # o \/ y # t => KeepsPackets(chan[x][y], chan'[x][y])
  BY <1>2, <1>3, AnswerKeeps
<1>6. /\ \A n : Carries(chan[o][t], n) => Carries(chan'[o][t], n) \/ m.n = n
      /\ EndsWithGet(chan[o][t]) => EndsWithGet(chan'[o][t]) \/ NoRequest(chan'[o][t])
  <2>1. chan[o][t] \in Seq(Packets)
    BY DEF Typed
  <2> QED
    BY <1>0, <1>2, <1>5, <2>1, PacketTaken
<1>7. NotQueued(o, t)
  BY <1>0, <1>2, HeadCarries DEF Requests
<1>8. \A n : OnItsWay(o, t, n) => Carries(chan'[o][t], n) \/ IsApplied(o, t, n)'
  BY <1>2, <1>4, <1>6, <1>7, NotInQueue
<1>9. \A x, y \in Proc : x # o \/ y # t => KeepsOps(x, y)
  BY <1>2, <1>4, <1>5, StillQueue, WayKept, TargetOps DEF KeepsPackets
<1>10. OpsInv(o, t)'
  <2>1. /\ OpsInv(o, t) /\ KeepsApplied(o, t)
        /\ completed'[o][t] = completed[o][t] /\ queued'[o][t] = queued[o][t]
        /\ rma_ops_list'[o][t] = rma_ops_list[o][t]
        /\ \A stage : Stage(o, t, stage)' <=> Stage(o, t, stage)
        /\ Undone(o, t)' <=> Undone(o, t)
    BY <1>2, <1>4 DEF AllOps, origin, Stage, Waits, Undone
  <2>2. /\ \A n \in 1 .. completed'[o][t] : IsApplied(o, t, n)'
        /\ \A n \in 1 .. queued'[o][t] : IsApplied(o, t, n)' \/ n \in Listed(o, t)'
        /\ Listed(o, t)' = Listed(o, t)
        /\ AllApplied(o, t) => AllApplied(o, t)'
    BY <2>1, CountsKept
  <2>3. AllIssued(o, t) => AllIssued(o, t)'
    BY <1>4, <1>8, <2>2 DEF AllIssued, OnItsWay, KeepsApplied
  <2>4. AllIssued(o, t) /\ NoRequest(chan'[o][t]) => AllApplied(o, t)'
    BY <1>4, <1>8, <2>2, NoneCarried DEF AllIssued, AllApplied, KeepsApplied
  <2>5. ASSUME Stage(o, t, "done")'
        PROVE  \/ AllApplied(o, t)'
               \/ AllIssued(o, t)' /\ (EndsWithGet(chan[o][t])' \/ Undone(o, t)')
    BY <1>6, <2>1, <2>2, <2>3, <2>4, <2>5 DEF OpsInv
  <2> QED
    BY <2>1, <2>2, <2>5 DEF OpsInv
<1> QED
  BY <1>9, <1>10, OpsWhole

(* The payload has come: the operation is done, unless it waits for its lock. *)
LEMMA OpsPutRespComplete ==
  ASSUME Typed, AllOps, NEW t \in Proc, NEW o \in Proc, PutRespComplete(t, o)
  PROVE  AllOps'
<1>0. PICK m : m = reading[t][o]
  OBVIOUS
<1>1. /\ UNCHANGED origin /\ lock_queue' = lock_queue /\ Read(t, o)
      /\ m # None /\ ~IsQueued(t, o) /\ Apply(t, o, m.n)
      /\ chan' = chan \/ Send(t, o, RmaDone(m.k, m.unlock))
  BY <1>0 DEF PutRespComplete, Applied, Read
<1>2. NotQueued(o, t)
  <2>1. lock_queue[t] \in Seq(Entries)
    BY DEF Typed, Entries
  <2> QED
    BY <1>1, <2>1, LenProperties DEF IsQueued, NotQueued, NoneOf
<1>3. \A a, b \in Proc : KeepsPackets(chan[a][b], chan'[a][b])
  <2>1. CASE chan' = chan
    BY <2>1, SamePackets
  <2>2. CASE Send(t, o, RmaDone(m.k, m.unlock))
    <3>1. m \in Packets
      BY <1>0, <1>1 DEF Typed
    <3>2. m.k \in Nat /\ m.unlock \in BOOLEAN
      BY <3>1 DEF Packets
    <3>3. PICK a \in Packets : a = RmaDone(m.k, m.unlock) /\ a.type \notin Requests
      BY <3>2, DoneMade
    <3> QED
      BY <2>2, <3>3, SendKeeps
  <2> QED
    BY <1>1, <2>1, <2>2
<1>4. /\ reading'[t][o] = None
      /\ \A a, b \in Proc : a # o \/ b # t => reading'[b][a] = reading[b][a]
  BY <1>1, ReadDone
<1>5. IsApplied(o, t, m.n)' /\ \A a, b \in Proc : KeepsApplied(a, b)
  BY <1>1, ApplyAt
<1>6. KeepsWay(o, t)
  <2>1. ASSUME NEW n, OnItsWay(o, t, n) PROVE OnItsWay(o, t, n)' \/ IsApplied(o, t, n)'
    BY <1>0, <1>2, <1>3, <1>5, <2>1, NotInQueue DEF KeepsPackets, OnItsWay
  <2> QED
    BY <2>1 DEF KeepsWay
<1>7. \A a, b \in Proc : KeepsWay(a, b)
  BY <1>1, <1>3, <1>4, <1>6, StillQueue, WayKept
<1> QED
  BY <1>1, <1>3, <1>5, <1>7, OpsServe DEF KeepsPackets

(* The entry of an origin is all that is on its way from there. *)
LEMMA OnlyEntry ==
  ASSUME Typed, Inv, NEW t \in Proc, NEW i \in 1 .. Len(lock_queue[t]),
         NEW e, e = lock_queue[t][i], NEW o, o = e.src, NEW n, OnItsWay(o, t, n)
  PROVE  e.op = n
<1>1. NoRequest(chan[o][t]) /\ Queued(o, t, e)
  BY EntryOf
<1>2. ~NotQueued(o, t) /\ ~Carries(chan[o][t], n)
  BY <1>1, NoneCarried DEF NotQueued, NoneOf
<1>3. PICK x : Queued(o, t, x) /\ x.op = n
  BY <1>2 DEF OnItsWay
<1>4. x = e
  BY <1>3 DEF Queued, OnlyOf
<1> QED
  BY <1>3, <1>4

(* An entry leaves the queue: its operation is done, or it asked for a lock. *)
LEMMA EntryLeaves ==
  ASSUME Typed, Inv, AllOps, NEW t \in Proc, NEW i \in 1 .. Len(lock_queue[t]),
         NEW e, e = lock_queue[t][i], Takes(t, i), UNCHANGED origin,
         NEW a \in Packets, a.type \notin Requests, Send(t, e.src, a),
         \A p, q \in Proc : p # e.src \/ q # t => reading'[q][p] = reading[q][p],
         \/ e.op = 0 /\ applied' = applied
         \/ Apply(t, e.src, e.op)
  PROVE  AllOps'
<1>1. PICK o \in Proc : o = e.src
  BY EntryOf
<1>2. \A x, y \in Proc : x # o \/ y # t => KeepsQueue(lock_queue[y], lock_queue'[y], x)
  BY <1>1, TakesParts
<1>3. \A x, y \in Proc : KeepsPackets(chan[x][y], chan'[x][y])
  BY <1>1, SendKeeps
<1>4. (\A x, y \in Proc : KeepsApplied(x, y)) /\ (e.op = 0 \/ IsApplied(o, t, e.op)')
  <2>1. CASE e.op = 0 /\ applied' = applied
    BY <2>1 DEF KeepsApplied, IsApplied
  <2>2. CASE Apply(t, o, e.op)
    BY <2>2, ApplyAt
  <2> QED
    BY <1>1, <2>1, <2>2
<1>5. KeepsWay(o, t)
  <2>1. \A n : OnItsWay(o, t, n) => e.op = n
    BY <1>1, OnlyEntry
  <2> QED
    BY <1>4, <2>1 DEF KeepsWay
<1>6. \A x, y \in Proc : KeepsWay(x, y)
  BY <1>1, <1>2, <1>3, <1>5, WayKept
<1> QED
  BY <1>3, <1>4, <1>6, OpsServe DEF KeepsPackets

LEMMA OpsSinglePutAccumComplete ==
  ASSUME Typed, Inv, AllOps, NEW t \in Proc, NEW o \in Proc, SinglePutAccumComplete(t, o)
  PROVE  AllOps'
<1>0. PICK i \in 1 .. Len(lock_queue[t]) : i = PlaceOf(t, o) /\ lock_queue[t][i].src = o
  BY PlaceInQueue DEF SinglePutAccumComplete
<1>1. PICK e : e = lock_queue[t][i]
  OBVIOUS
<1>2. UNCHANGED origin /\ Read(t, o) /\ e.src = o
  BY <1>0, <1>1 DEF SinglePutAccumComplete, Read
<1>3. \A a, b \in Proc : a # o \/ b # t => reading'[b][a] = reading[b][a]
  BY <1>2, ReadDone
<1>4. e \in Entries /\ Queued(o, t, e)
  BY <1>1, <1>2, EntryOf
<1>5. CASE Apply(t, o, e.op) /\ Send(t, o, RmaDone(e.k, TRUE)) /\ Takes(t, i)
  <2>1. e.k \in Nat
    BY <1>4 DEF Entries
  <2>2. PICK a \in Packets : a = RmaDone(e.k, TRUE) /\ a.type \notin Requests
    BY <2>1, Constants, DoneMade
  <2>3. /\ Apply(t, e.src, e.op) /\ Send(t, e.src, a) /\ Takes(t, i)
        /\ \A p, q \in Proc : p # e.src \/ q # t => reading'[q][p] = reading[q][p]
    BY <1>2, <1>3, <1>5, <2>2
  <2>4. UNCHANGED origin /\ a.type \notin Requests
    BY <1>2, <2>2
  <2>5. \/ e.op = 0 /\ applied' = applied
        \/ Apply(t, e.src, e.op)
    BY <2>3
  <2>6. Send(t, e.src, a) /\ Takes(t, i)
    BY <2>3
  <2>7. \A p, q \in Proc : p # e.src \/ q # t => reading'[q][p] = reading[q][p]
    BY <2>3
  <2>8. e = lock_queue[t][i]
    BY <1>1
  <2> QED
    BY ONLY Typed, Inv, AllOps, <2>4, <2>5, <2>6, <2>7, <2>8, EntryLeaves, SMTT(60)
<1>6. CASE /\ lock_queue' = [lock_queue EXCEPT ![t][i].data_recd = TRUE]
           /\ chan' = chan /\ applied' = applied
  <2>1. PICK f : f = [e EXCEPT !.data_recd = TRUE]
    OBVIOUS
  <2>2. /\ \A x, y \in Proc : x # o \/ y # t => KeepsQueue(lock_queue[y], lock_queue'[y], x)
        /\ Queued(o, t, f)'
    BY <1>1, <1>2, <1>4, <1>6, <2>1, EntryDone
  <2>3. f.op = e.op /\ f \in Elements(lock_queue'[t])
    BY <1>4, <2>1, <2>2, Members DEF Entries, Queued
  <2>4. KeepsWay(o, t)
    <3>1. \A n : OnItsWay(o, t, n) => e.op = n
      BY <1>1, <1>2, OnlyEntry
    <3>2. OnItsWay(o, t, e.op)'
      BY <2>2, <2>3 DEF OnItsWay
    <3> QED
      BY <3>1, <3>2 DEF KeepsWay
  <2>5. \A x, y \in Proc : KeepsApplied(x, y) /\ KeepsWay(x, y)
    BY <1>3, <1>6, <2>2, <2>4, SamePackets, WayKept DEF KeepsApplied, IsApplied
  <2> QED
    BY <1>2, <1>6, <2>5, OpsServe
<1> QED
  BY <1>0, <1>1, <1>5, <1>6 DEF SinglePutAccumComplete, Takes, Applied

LEMMA OpsEntry ==
  ASSUME Typed, Inv, AllOps, NEW t \in Proc, GrantEntry(t) \/ ServeEntry(t)
  PROVE  AllOps'
<1>0. PICK i \in 1 .. Len(lock_queue[t]) : i = release[t]
  BY AtItsEntry DEF GrantEntry, ServeEntry
<1>1. PICK e : e = lock_queue[t][i]
  OBVIOUS
<1>2. e \in Entries /\ e.type \in Types /\ e.k \in Nat
  <2>1. e \in Entries
    BY <1>1, EntryOf
  <2> QED
    BY <2>1 DEF Entries
<1>3. CASE GrantEntry(t)
  <2>1. PICK a : a = LockPacket("LOCK_GRANTED", e.type, e.k)
    OBVIOUS
  <2>2. a \in Packets /\ a.type \notin Requests
    BY <1>2, <2>1, Made, Constants DEF LockPacket, Packet, Requests
  <2>3. /\ Takes(t, i) /\ UNCHANGED origin /\ reading' = reading
        /\ Send(t, e.src, a) /\ e.op = 0 /\ applied' = applied
    BY <1>0, <1>1, <1>3, <2>1 DEF GrantEntry, Entry, Takes
  <2> QED
    BY <1>1, <2>2, <2>3, EntryLeaves
<1>4. CASE ServeEntry(t)
  <2>1. PICK a \in Packets : a = RmaDone(e.k, TRUE) /\ a.type \notin Requests
    BY <1>2, Constants, DoneMade
  <2>2. /\ Takes(t, i) /\ UNCHANGED origin /\ reading' = reading
        /\ Send(t, e.src, a) /\ Apply(t, e.src, e.op)
    BY <1>0, <1>1, <1>4, <2>1 DEF ServeEntry, Entry, Takes, Applied
  <2> QED
    BY <1>1, <2>1, <2>2, EntryLeaves
<1> QED
  BY <1>3, <1>4

(***************************************************************************)
(* PT_RMA_DONE comes when the last put or accumulate is done, and then     *)
(* nothing else is on its way: it was sent behind all of the list.         *)
(***************************************************************************)
LEMMA OpsHandlePtRmaDone ==
  ASSUME Typed, Inv, AllOps, NEW o \in Proc, NEW t \in Proc, HandlePtRmaDone(o, t)
  PROVE  AllOps'
<1>0. PICK m : m = Head(chan[t][o])
  OBVIOUS
<1>1. /\ lock_queue' = lock_queue /\ reading' = reading /\ applied' = applied
      /\ UNCHANGED <<completed, queued, rma_ops_list, call>>
      /\ chan[t][o] # <<>> /\ m.type = "PT_RMA_DONE" /\ Receive(t, o)
      /\ remote_ops_done' = [remote_ops_done EXCEPT ![o][t] = 1]
  BY <1>0 DEF HandlePtRmaDone, Learn, First, UnchangedAtTargets, target
<1>2. Answered(o, t)
  BY <1>0, <1>1, HeadAnswers DEF Inv, PairInv, FinalAnswer
<1>3. AllIssued(o, t) /\ (EndsWithGet(chan[o][t]) \/ Undone(o, t)) => AllApplied(o, t)
  <2>1. NotQueued(o, t) /\ NoRequest(chan[o][t]) /\ reading[t][o] = None
    BY <1>2 DEF Answered, Clean
  <2>2. \A n : ~OnItsWay(o, t, n)
    BY <2>1, NoneCarried, NotInQueue
  <2> QED
    BY <2>2 DEF AllIssued, AllApplied
<1>4. OnlyAt(remote_ops_done, remote_ops_done', o, t)
  BY <1>1 DEF Typed, OnlyAt
<1>5. \A a, b \in Proc : KeepsPackets(chan[a][b], chan'[a][b])
  BY <1>0, <1>1, ReceiveKeeps DEF Carriers
<1>6. \A a, b \in Proc : a # o \/ b # t => KeepsOps(a, b)
  BY <1>1, <1>4, <1>5, OriginOps DEF OnlyAt, KeepsApplied, IsApplied
<1>7. OpsInv(o, t)'
  <2>1. OpsInv(o, t) /\ KeepsApplied(o, t) /\ \A stage : Stage(o, t, stage)' <=> Stage(o, t, stage)
    BY <1>1 DEF AllOps, KeepsApplied, IsApplied, Stage, Waits
  <2>2. Stage(o, t, "done")' => AllApplied(o, t)
    BY <1>3, <2>1 DEF OpsInv
  <2> QED
    BY <1>1, <2>1, <2>2, CountsKept DEF OpsInv
<1> QED
  BY <1>6, <1>7, OpsWhole

LEMMA ServesKeepOps ==
  ASSUME Typed, Inv, AllOps, NEW p \in Proc, NEW q \in Proc, Serve(p, q)
  PROVE  AllOps'
<1>1. q # p
  BY NotSelf
<1>2. CASE HandleLock(p, q) \/ HandleUnlock(p, q) \/ HandleGet(p, q)
  BY <1>1, <1>2, OpsHandleLock, OpsHandleUnlock, OpsHandleGet
<1>3. CASE HandlePut(p, q) \/ HandleLockPut(p, q) \/ HandleLockAccum(p, q)
  BY <1>3, OpsReads
<1>4. CASE \E k \in 1 .. plan.epochs : GetSendRespComplete(p, q, k)
  <2>1. PICK k \in 1 .. plan.epochs : GetSendRespComplete(p, q, k)
    BY <1>4
  <2>2. plan.epochs \in Nat
    BY PlansAssumption DEF Typed
  <2>3. k \in Nat
    BY <2>2
  <2> QED
    BY <2>1, <2>3, OpsWalk
<1>5. CASE PutRespComplete(p, q) \/ SinglePutAccumComplete(p, q)
  BY <1>5, OpsPutRespComplete, OpsSinglePutAccumComplete
<1>6. CASE HandleLockGranted(p, q) \/ HandleUnlockDone(p, q) \/ HandleRmaResp(p, q)
  BY <1>6, OpsLearned
<1>7. CASE HandlePtRmaDone(p, q)
  BY <1>7, OpsHandlePtRmaDone
<1> QED
  BY <1>2, <1>3, <1>4, <1>5, <1>6, <1>7 DEF Serve

LEMMA CallsKeepOps ==
  ASSUME Typed, Inv, AllOps, NEW o \in Proc,
         StartEpoch(o) \/ Access(o) \/ \E t \in Proc : Unlock(o, t) \/ Flush(o, t)
  PROVE  AllOps'
<1>1. CASE StartEpoch(o)
  BY <1>1, OpsBegin DEF StartEpoch
<1>2. CASE Access(o)
  <2>1. plan.kinds \subseteq Kinds
    BY PlansAssumption DEF Typed
  <2> QED
    BY <1>2, <2>1, OpsSelf, OpsQueue DEF Access
<1>3. ASSUME NEW t \in Proc, NEW unlock \in BOOLEAN, NEW isLocal \in BOOLEAN,
             isLocal => "flush_local" \in plan.flushes,
             FlushLocked(o, t, unlock, isLocal) \/ FlushUnlocked(o, t, unlock, isLocal)
      PROVE  AllOps'
  BY <1>3, OpsFlushLocked, OpsFlushUnlocked
<1>4. ASSUME NEW t \in Proc, Unlock(o, t) PROVE AllOps'
  <2>1. CASE UnlockSelf(o) \/ UnlockUnused(o, t) \/ UnlockEmpty(o, t) \/ UnlockSingleOp(o, t)
    BY <2>1, OpsSelf, OpsBegin, OpsCallEmpty, OpsUnlockSingleOp
  <2>2. CASE FlushLocked(o, t, TRUE, FALSE) \/ FlushUnlocked(o, t, TRUE, FALSE)
    BY <1>3, <2>2, Constants
  <2> QED
    BY <1>4, <2>1, <2>2 DEF Unlock
<1>5. ASSUME NEW t \in Proc, Flush(o, t) PROVE AllOps'
  <2>1. CASE FlushEmpty(o, t)
    BY <2>1, OpsCallEmpty
  <2>2. CASE FlushLocked(o, t, FALSE, FALSE) \/ FlushUnlocked(o, t, FALSE, FALSE)
    BY <1>3, <2>2, Constants
  <2>3. CASE /\ "flush_local" \in plan.flushes
             /\ FlushLocked(o, t, FALSE, TRUE) \/ FlushUnlocked(o, t, FALSE, TRUE)
    BY <1>3, <2>3, Constants
  <2> QED
    BY <1>5, <2>1, <2>2, <2>3 DEF Flush
<1> QED
  BY <1>1, <1>2, <1>4, <1>5

LEMMA OpsStep ==
  ASSUME Typed, Inv, AllOps, [Next]_vars
  PROVE  AllOps'
<1>1. CASE UNCHANGED vars
  BY <1>1, SamePackets, OpsStill DEF vars, target, origin
<1>2. ASSUME NEW p \in Proc, Continue(p) PROVE AllOps'
  <2>1. CASE SelfLocked(p) \/ SkipEntry(p) \/ Released(p)
    BY <2>1, OpsBegin, OpsWalk
  <2>2. CASE Granted(p) \/ Return(p) \/ GrantEntry(p) \/ ServeEntry(p)
    BY <2>2, OpsGranted, OpsReturn, OpsEntry
  <2> QED
    BY <1>2, <2>1, <2>2 DEF Continue
<1>3. ASSUME NEW p \in Proc,
             \/ StartEpoch(p) \/ Access(p) \/ Continue(p)
             \/ \E t \in Proc : Serve(p, t) \/ Unlock(p, t) \/ Flush(p, t)
      PROVE  AllOps'
  BY <1>2, <1>3, ServesKeepOps, CallsKeepOps
<1> QED
  BY <1>1, <1>3 DEF Next

LEMMA OpsStart ==
  ASSUME Init
  PROVE  AllOps
<1>1. ASSUME NEW o \in Proc, NEW t \in Proc PROVE OpsInv(o, t)
  <2>1. completed[o][t] = 0 /\ queued[o][t] = 0 /\ ~Waits(o, t)
    BY DEF Init, Zero, Waits
  <2> QED
    BY <2>1 DEF OpsInv, Stage
<1> QED
  BY <1>1 DEF AllOps

(***************************************************************************)
(* No operation is lost on its way from its origin to the window, in any   *)
(* interleaving of calls, packets, payloads and the walks of Release_lock  *)
(* (win.cpp, packethandling.cpp).                                          *)
(***************************************************************************)
THEOREM NoneLost ==
  ASSUME LocalGets
  PROVE  Spec => []InvOps
<1>1. Init => AllOps
  BY OpsStart
<1>2. Typed /\ Inv /\ AllOps /\ [Next]_vars => AllOps'
  BY OpsStep
<1>3. Spec => []AllOps
  BY <1>1, <1>2, Invariant, PTL DEF Spec
<1>4. Inv /\ AllOps => InvOps
  BY DEF InvOps, AllOps
<1> QED
  BY <1>3, <1>4, Invariant, PTL

(* A flush or an unlock returns when its operations are done at the target. *)
THEOREM Completion ==
  ASSUME LocalGets
  PROVE  Spec => []CompletedApplied
<1>1. InvOps => CompletedApplied
  BY DEF InvOps, OpsInv, IsApplied, CompletedApplied
<1> QED
  BY <1>1, NoneLost, PTL
=============================================================================

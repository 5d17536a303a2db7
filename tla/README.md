# TLA+ models of MS-MPI

This directory models the protocols of MS-MPI (the MPI runtime under `src/src/mpi`) in TLA+,
checks them with TLC on small instances and proves the most important results with TLAPS.
Paths below are relative to `src/src/mpi/msmpi` unless they start with `src/`.

## 1. The system

An MPI job is a set of processes. `mpiexec` starts it through a tree of managers (`smpd`); each
process loads `msmpi.dll`, whose device (`mpid/`) implements MPI calls as packets that the
channels (`channels/`) carry between processes. A process makes progress only inside MPI calls:
there is no background thread, unless the application itself calls MPI from several threads.

| Component | State | Operations | Talks to | What is hard | What makes it correct |
|---|---|---|---|---|---|
| Point-to-point (`mpid/pt2pt.cpp`, `packethandling.cpp`) | posted and unexpected queues | send, receive, probe, cancel, a handler per packet type | requests, connections | packets, calls and payloads interleave; five protocols share one order | nothing is matched twice or overtaken; both ends agree on a cancel; every match completes |
| Requests (`include/request.inl`, `mpid/request.cpp`, `api/mpi_request.cpp`, `api/mpi_completion.cpp`) | `ref_count`, `cc`, pending counts, flags | create, AddRef, Release, signal, postpone, wait, free | everything | the references that packets imply are nowhere in one place | a request lives as long as something can touch it, and no longer; completion is final |
| Handle pools (`util/handlemem.cpp`) | free list | alloc, free | requests, windows, ... | reuse while an old handle travels | a handle names one live object |
| Virtual connections (`mpid/vc.cpp`, `mpidi_ch3_impl.h`, `channels/ch3_progress_connect.cpp`) | state, send queue | SendRequest, connect, close | channels | connecting while others queue; close packets that cross | packets are delivered once, in order, and a close loses none |
| Socket channel (`channels/ch3_progress_sock.cpp`) | connection objects, overlapped operations | connect, accept, read, write, their completions | Ex completion port | head-to-head connects; partial writes; deferred writes | one connection survives, nothing is written twice |
| Shared memory (`channels/ch3_progress_shm.cpp`, `ch3_shm*.cpp`) | ring of packets, notify indexes | read, write, notify | progress engine | sleeping while the other side writes | no lost wake-up, FIFO |
| Network Direct (`channels/ch3u_nd1*`, `ch3u_nd2*`) | credits, endpoint states | connect, send, credit update | progress engine | running out of credits on both sides | no deadlock, no overrun |
| Progress engine (`channels/ch3_progress.cpp`, `include/init.h`) | progress lock, counter, deferred requests | Progress, SignalProgress | all threads | handing the lock over while others go to sleep | no lost wake-up |
| One-sided (`mpid/win.cpp`, `packethandling.cpp`) | window lock, lock queue, counters | lock, unlock, fence, start/post/complete/wait, put/get/accumulate | connections | queued locks, operations that carry a lock | exclusion, every queued lock is granted |
| Buffered send (`mpid/pt2pt.cpp` 60-563) | avail and active lists in the user's buffer | attach, detach, find, take, free | requests | splits and merges by address | segments are disjoint, inside the buffer, and none is lost |
| Nonblocking collectives (`mpid/tasks.cpp`) | task states of a request | start, complete | point-to-point | tasks enabled by others' completions | all tasks end, each once |
| Collectives (`mpid/bcast.cpp`, `reduce.cpp`, ...) | none beyond the call | trees and exchanges | point-to-point | odd sizes, non-commutative operations | every rank gets what it should, once |
| Communicators (`mpid/comm.cpp`), dynamic processes (`dynamic.cpp`, `pg.cpp`) | context ids, process groups | create, accept, connect | collectives | lifetimes | messages of two communicators never mix |
| Process manager (`src/src/mpi/smpd`, `mpiexec`, `pmilib`) | barrier nodes, children lists, KVS | barrier, put/get, start, abort | RPC | an abort that meets a barrier | a barrier releases everyone or no one |
| Launch service (`src/src/launchSvc`), common library (`src/src/mpi/common`), datatypes, IO, API, Fortran, debugger | - | - | - | - | not protocols: see section 7 |

Every hazard found while reading, with its line and the property that covers it, is listed under
`hazards` in `PROJECT.json`.

## 2. Plan

Modules in the order they are worth writing. Each constant has a named assumption, each operation
an action of its own, invariants are conjunctions of named parts, and recursion is avoided in every
module to prove about.

Done:

1. **Pt2pt** and its abstract specification **Matching**.
2. **Connection**: connecting, head-to-head, partial and deferred writes and the close protocol of the
   socket channel, with an abstract **Channel** as its specification, which is what Pt2pt assumes of
   `sendq` and `wire`.
3. **WinLock**: passive target one-sided communication, the window lock with its queue, and the packets.
4. **TaskLists**, **RootedTasks**, **ReductionTasks**, **ExchangeTasks**, **BlockingTasks**, composed by
   **Collective**: the task lists of the nonblocking collectives, the engine that runs them, and the blocking
   collectives, over one level, two levels and two groups.
5. **Bsend**: the segment allocator of buffered sends as an address map, and when segments become free.

Left, in this order:

6. **Progress**: the progress lock and its counter, and the notify handshake of shared memory.
7. **SmpdBarrier**, then Network Direct credits, and the fence and post-start-complete-wait
   synchronization of windows, which share WinLock's packets.
8. The nonblocking collectives over nodes and between groups, whose tasks are requests of other collectives.

Theorems left: of Pt2pt, when requests are complete (`CancelAgreed`, `PartnerAlive`); for WinLock, that the counts of
`MPI_Win_free` agree (`CountsAgree`); for Bsend, that segments are disjoint.

## 3. What is modelled

### Matching
What the point-to-point layer promises, with no queue or packet: `sends[p]` and `recvs[q]` are the
calls in order, each pending, matched or cancelled. Its actions say who may match whom: a receive
takes the first message of a sender that it accepts, and a message goes to the first receive
that accepts it. Its invariants (`HoldsItsMessage`, `MatchedOnce`, `SendsNotOvertaken`,
`RecvsNotOvertaken`) and `FateIsFinal` are proved, so they hold of everything that implements it.

### Pt2pt
The detailed specification. State and code:

| Variable | Code |
|---|---|
| `req[p][h]` | the `MPID_Request` behind handle `h` of process `p`: `ref_count`, `cc`, message type, `dev.match`, `recv_pending_count` (which outlives the request, as nothing resets it), `sender_req_id`, `partner_request`, cancel flags |
| `user[p][h]` | whether the application holds `h`, as a request or as the message of a matched probe |
| `posted[p]`, `unexpected[p]` | `recvq_posted`, `recvq_unexpected` |
| `sendq[p][q]`, `wire[p][q]`, `reading[q][p]` | the send queue of the connection, what is in flight, and the request whose payload is being read |
| `call[p]` | a call between queueing its packet and taking the reference for the answer |
| `sent`, `rcvd` | history: what was sent and received and what became of it |

Actions, by group: `Isend` (the three `execute_` functions with `SendEager` and `SendRndv`) and
`FinishCall`; `IsendSelfFound` and `IsendSelfUnexpected` (`MPIDI_Isend_self`); `RecvPost`, `RecvFound`,
`Improbe`, `Imrecv` (with `HandleRecvMsgType`); `Wait`, `RequestFree`; `CancelRecv`, `CancelSend`,
`CancelSelfFound`, `CancelSelfMissed`; `Write`, `HandlePacket` (one disjunct for each packet type and
outcome of its search), `PayloadArrives`.

Abstractions:
- A message has a tag and one of three sizes: no payload, eager, above the eager limit.
- `SendRequest` tries to write at once when its queue is empty; here it always queues and `Write`
  follows, which is the same two steps with more interleavings.
- A payload arrives in one step after its header. The code may see it in pieces, or all at once with
  the header; the first cannot be told apart by any request field, the second is the two steps in a row.
- `MPIU_Handle_obj_alloc` returns the handle freed last. The model returns any free handle, which
  includes it, and each handle may be allocated `MaxGen` times.
- The queue locks and the lock of the pool make each search-or-append and each allocation atomic. The
  one window between them that matters, between the packet and the reference for its answer, is `call`.

### Channel
What a virtual connection promises two processes: packets are handled once and in the order they were
handed to `MPIDI_CH3_SendRequest`, and a side that has ended the connection leaves nothing unread on
either side. Nobody sends once a side has ended. `InOrder` and `NothingLeft` are proved of it, so
they hold of Connection, which is proved to implement it.

### Connection
Two processes, 0 and 1, which are their ranks. A connection of the network is named after the process that
asks for it, and has an end at either process.

| Variable | Code |
|---|---|
| `state[p]`, `chState[p]`, `conn[p]` | `vc->state`, `vc->ch.state`, `vc->ch.conn` |
| `sendq[p]`, `writes[c][p]` | the send queue, and how many overlapped writes of its head are posted |
| `outstanding[p]` | `MPIDI_Outstanding_close_ops` |
| `completing[p]` | `connection_complete_ex` between its store of `CONNECTED` and `send_head_of_queue_ex` |
| `deferConnect[p]`, `deferWrites[p]` | calls queued for the thread that makes progress |
| `stage[c][p]` | the state of a `MPIDI_CH3I_Connection_t`, with the callback that comes next |
| `wire[c][p]` | bytes written and not read, as packets; `FIN` is the shutdown of the write side |
| `mpi[p]`, `sent`, `received` | where the program is; history |

Actions: `SendMessage`, `Finalize` (`MPIDI_PG_Close_VCs`), `FinalizeReturn` (`MPIDI_CH3U_VC_WaitForClose`);
`Establish` (the network), `ConnectDeferred`, `ConnectSucceeded`, `SendOpenRequestSucceeded`,
`AcceptNewConnection`, `RecvOpenRequestData` and `RecvOpenRequestFailed`, `SendOpenResponseSucceeded`,
`RecvOpenResponse`, `SendHead`; `SendMessageSucceeded`, `WriteDeferred`; `HandleData`, `HandleClose`,
`RecvFailed`, `GracefulCloseDiscard`, `CloseConnectionComplete` (the callbacks of
`channels/ch3_progress_sock.cpp` and the close handler).

A write may take the packet whole or in part; the rest of a partial write follows, with the same queue
entry. A program sends a number of messages and calls `MPI_Finalize` once it has received those of the
other. "Threads" lets calls of `MPIDI_CH3_SendRequest` run while the progress engine is inside
`connection_complete_ex`, and defers writes and connects as the code does when the progress lock is taken.
`ConnectionInv` adds the inductive invariant `Inv`, which section 5 explains, and `OneSender`, the assumption of the
proofs about it.

### WinLock
Any number of processes, each with a window, and for each ordered pair an origin and a target.

| Variable | Code |
|---|---|
| `lock_state`, `shared_lock_ref_cnt`, `lock_queue` | `current_lock_type`, `shared_lock_ref_cnt`, `lock_queue` of the target's `MPID_Win` |
| `my_pt_rma_puts_accs`, `pt_rma_puts_accs` | the counters over which `MPI_Win_free` waits |
| `release`, `unlockDone` | how far the loop of `MPIDI_CH3I_Release_lock` is, and whom it answers at its end |
| `remote_lock_state`, `rma_ops_list`, `remote_ops_done` | the origin's view of each target |
| `gets` | requests of gets that are not complete |
| `call` | the call a process waits in: for the own lock, a grant, the operations, or an unlock |
| `chan`, `reading`, `sending` | packets between the processes, payloads being read, responses being sent |
| `held`, `lockType`, `applied`, `queued`, `completed`, `epochs` | history: who has the lock, what was done |

Actions of origins: `Lock`, `LockSelf`, `SelfLocked`, `Queue` and `AccessSelf` (put, accumulate, get), the
five ways to unlock, three to flush, `Granted`, `Return`. Of targets: `HandleLock`, `HandleUnlock`,
`HandlePut`, `HandleLockPut`, `HandleLockAccum`, `HandleGet`, the completions `PutRespComplete`,
`SinglePutAccumComplete` and `GetSendRespComplete`, and the loop of `Release_lock` entry by entry. Of origins
again: the four handlers of answers.

Abstractions: an operation is a number, and where it lands is not told apart; that the data of a put or
accumulate may take several reads is `reading`, during which other packets of other origins are handled;
that the target learns late that its response has left is `sending`. `Release_lock` runs to its end before
the process does anything else; it is one entry a step so that a loop which does not move is seen.

### Collectives
`TaskLists` has tasks, their links and the binomial-tree arithmetic of `common/util.h`. `RootedTasks`
(`bcast.cpp`, `gather.cpp`, `scatter.cpp`), `ReductionTasks` (`reduce.cpp`) and `ExchangeTasks` (`barrier.cpp`,
`gather.cpp`, `alltoall.cpp`) are operators that give the task list of a rank as the builders give it:
which task, of what kind, with which peer, from and to which part of which buffer, and which task its start
(`onInit`) and its completion (`onComplete`) start. `BlockingTasks` has the blocking calls: a blocking call
is the list of the sends and receives it makes, `MPIC_Sendrecv` being a receive and a send started together.
Where the blocking code is the nonblocking algorithm with other chaining, both use one operator and `how`
says which (`Meet`). `Builders` chooses among them, as the switches of the code do. `Collective` is the state machine that runs
the lists of all ranks of one call: `Call` starts a list as `execute_nbc_tasklist` does, `Test` advances it
as `test_nbc` does, stopping at the first task that is not complete, and `Transfer` moves one message.

| Variable | Code |
|---|---|
| `tasks[p]`, `state[p]`, `nCompletedTasks[p]` | `kind.nbc.tasks`, the state of each task, `nCompletedTasks` |
| `buf[p]` | the buffers: "send", "recv", "tmp" (what is received) and "acc" (what is accumulated) |
| `sent[p][q]`, `posted[p][q]` | the sends and receives of a pair, in order; the k-th matches the k-th |
| `call`, `called` | which call of the instance is made; who has made it |

An element is the sequence of the contributions (rank and index) in it, and an operation concatenates:
what a buffer holds then says who is in it, how often, and in which order. An eager message is read
when it is sent; a longer one when it is transferred, and only then is its send complete.

`c.groups` of a call are the nodes, each with its leader first, or the two groups of an intercommunicator. A
collective on a node, among the leaders or on a group is built for the ranks of the subcommunicator and then
given the peers' ranks in the whole (`After`); calls that follow each other are lists one after the other. All
calls of one collective share the matching order of a pair of ranks, as messages of one tag and one
communicator do; the code uses several communicators, whose messages cannot match each other. That the shared
order changes nothing is what `ListsFit` and `RightResult` then show as well.

What the switches of the code choose by size or number of ranks (`c.alg`, `c.long`, `c.chunk`) is chosen by
the call of the instance, also for numbers of ranks below the code's threshold: Bruck's alltoallv is used
from 8 ranks on, and runs here on fewer. `alltoallw` makes the moves of alltoallv with a type for each.

### Bsend
The buffer of buffered sends, byte by byte.

| Variable | Code |
|---|---|
| `orig`, `avail`, `active` | `origbuffer` with its size, `avail`, `active` of `BsendBuffer` |
| `seg[a]` | what the `BsendData_t` at address `a` says: `total_size`, `next`, `prev`, `request` |
| `byte[a]` | what was last written at address `a`: byte k of message i, or a header |
| `msgs` | history: each send with its segment, the length given to `MPID_Send`, and what was received |

Actions: `Attach`, `Detach` (also what `MPIR_Bsend_finalize` does), `Isend` (`MPIR_Bsend_isend` with its check of
the active sends, two passes, and failure exit) and `Complete`, the progress engine in any other call. Pointers are followed and
set as the code does, so a list may become a cycle. `MPIR_Bsend_check_active` runs the progress engine before
each look at a request; here some sends complete, then all segments of complete sends are freed. A send that
completes after it was passed is the same as one that completes in the next step. The data of a send is
read at some time up to its completion.

### Instances
`MCPt2pt`, `MCConnection`, `MCWinLock`, `MCBsend` and `MCCollective` give the constants values: who sends to whom and how
much; who locks whose window and how; which buffers are attached; which collective calls are made.

## 4. Runs

| Run | Instance | What it shows |
|---|---|---|
| `pt2pt_order` | 2 standard sends, 2 receives or probes, 2 tags of which one is internal, wildcard and named filters, eager and rendezvous, 2 handles used twice, frees of active requests | `TypeOK`; `NoMissedMatch`; `RefInv`: the invariant of the proofs, from which `NothingDangles` follows; `SyncSendMatched`, `RecvHasPayload`; `MatchingSpec`: the refinement of Matching |
| `pt2pt_cancel` | one send between processes and one to oneself, one receive, all modes and sizes, probes, cancels of both kinds, handles used once | `MatchingInv` and `RefInv`: the invariants of the proofs; `NothingDangles`, `NothingLeaks`, `CancelAgreed`, `PartnerAlive`, `SyncSendMatched`, `RecvHasPayload`, `CompletionIsFinal` |
| `pt2pt_fair` | 2 synchronous sends of either size, 1 receive, cancels, fairness | `MatchCompletes`, `MatchDelivers`, `CancelSettles` |
| `pt2pt_reuse` | 2 eager sends, 1 receive, cancel, a handle used twice | **violates** `CancelAgreed` |
| `pt2pt_threads` | 1 synchronous eager send in a multithreaded process | **violates** `NothingDangles` |
| `pt2pt_ready` | 2 ready sends with a payload, 2 receives, 2 handles used twice | **violates** `UnpacksArrived` |
| `pt2pt_self_free` | 1 eager send to oneself, freed while active | **violates** `PartnerAlive` |
| `connection` | up to 2 messages each way single-threaded, and up to 3 one way with threads | `Inv`: the invariant of the proofs, with `TypeOK`; `OneWriter`, `OneConnection`, `CloseInOrder`; `ChannelSpec`: the refinement of Channel; `FinalizeReturns` |
| `winlock` | 3 processes, 7 plans: own and remote windows, shared and exclusive, 2 operations, 1 or 2 epochs, flushes | `TypeOK`, `HoldersExclude`, `BelieverHolds`, `NoConflictingAccess`, `CompletedApplied`, `CountsAgree`, `NobodyStuck`; `InvOps`: the invariant of the proofs |
| `winlock_shared` | an exclusive lock of the own window, one shared and one exclusive remote lock | **violates** `CallsReturn` |
| `collectives` | 98 calls, one at a time, on 3 to 6 ranks, flat, over nodes, and between groups | `TypeOK`, `RightResult`, `SendsIntact`, `ListsFit`, `NeverStuck` |
| `bsend` | 2 buffers of up to 15 bytes at aligned addresses, 5 sends of 2 sizes | `Segments`, `SendsWhole` |

**Bounds.** Overtaking needs two messages of one sender and two receives of one receiver, which
`pt2pt_order` has, with filters that accept only some of the messages. The counters of a request
depend only on its own protocol, so one message of each mode and size, with one cancel, meets every
order of the write, the match, the payload, the answer and the cancel; `pt2pt_cancel` has that. The reuse of handles
is in `pt2pt_order`, with standard sends; synchronous sends and messages without payload meet it only in the proof of `RefInv`. `MaxWire = 1` keeps a packet in flight next to any number in the queues.
Every run stops when its messages, epochs or tasks are spent, so deadlock is not checked; that what should end
does end is what `pt2pt_fair` checks.

In `connection` two messages each way are enough for one in the queue behind one that is partly
written while the other side connects as well; the close protocol sends one or two packets more. In
`winlock` three processes let two origins wait in one queue, or one wait behind the owner; two epochs let
an answer of the first arrive in the second; two operations make the last one, which carries the
unlock, differ from the others. In `collectives` the numbers of ranks include those below, at and above a
power of two for each algorithm, roots other than 0, nodes of one and of several ranks with the root as leader, on a
leader's node and elsewhere, groups of different sizes, and counts that do not divide; the call is chosen in the
initial state, so calls do not multiply each other's states. In `bsend` three segments and a remainder too small for
a header fit into the larger buffer, so that a segment is freed between two free ones, before one, after one and
alone; the second buffer overlaps it, and is attached before or after it over what it left. Neither size is a
multiple of the word.

**Fairness.** Weak fairness of each connection's writes and reads and of the end of a call that has
begun. The code justifies it only for processes that keep calling MPI (`MPI_Wait` or `MPI_Test`, in
which the progress engine serves every connection): that is MPI's own progress rule. Nothing is
assumed about the application: it need not post the receive, wait, or complete a probe.
For Connection: weak fairness of the callbacks of each process, of the network, and of the program that sends
its messages and calls `MPI_Finalize`, which itself makes progress until the connection is closed. For WinLock's
`FairSpec`: weak fairness of handling each connection's packets and of each call, and strong fairness
of `Unlock`: a program that has locked a window unlocks it, in whichever of the ways applies.

**Why the violations are violations.**
- `pt2pt_reuse`: the comment in `MPIDI_CH3_SendEager` (`packethandling.cpp:4471`) says no reference is
  needed since the handle is looked at only by a cancel, which holds one. But a cancel looks for the handle
  in the receiver's queue, where an older message may carry it: an eager send completes, and its handle is
  reused, before its message is received. The wrong message is taken back.
- `pt2pt_threads`: `execute_ssend` (`request.inl:689`) takes the reference for the acknowledgement after the send;
  with two threads the acknowledgement can be handled first.
- `pt2pt_ready`: the comment in `MPIDI_CH3_HandleRecvMsgType` (`mpid/pt2pt.cpp:1063`) says that all of the data has arrived
  when `recv_pending_count` is zero. An unexpected ready send does not set the count (`packethandling.cpp:4793`), and
  nothing resets it when a request is destroyed or created, so it is what the handle's last use left: 1 after a
  posted receive. The call that takes the message then unpacks the scratch buffer and frees it while it is read into.
- `pt2pt_self_free`: `MPI_Request_free` documents that an active request may be freed
  (`api/mpi_request.cpp:26`); the unexpected request of a message to oneself points at it without a reference.
- `winlock_shared`: the comment of `Release_lock` (`packethandling.cpp:4144`) promises to grant the first
  shared lock and all others. The loop has no case for a request that is ready but cannot have the lock,
  and stays there.

What the passing runs leave out, because the property fails there:
- Connection with `ThreadedPlans` of `MCConnection`, where both sides send in multithreaded processes: `OneWriter`.
  `connection_complete_ex` (`channels/ch3_progress_sock.cpp:325`) publishes `CONNECTED` without the queue's lock;
  a send in between finds an empty queue, queues its packet and defers a write; `send_head_of_queue_ex` and the
  deferred call then both write it, and the second completion finds the assertion at line 552 false.
- WinLock with `LocalPlans` of `MCWinLock`: after `MPI_Win_flush_local` of puts the target's answer may come late,
  and end the wait of a later flush too early (`CompletedApplied`). The passing plans flush locally after gets only.
- An in-place nonblocking reduce-scatter with unequal counts: it overwrites blocks that are still to be sent
  (`SendsIntact`). The passing calls have equal counts there.
- Bsend with `Packed = {TRUE}`: data of type `MPI_PACKED` is copied into the segment, but its length stays 0
  (`mpid/pt2pt.cpp:516`), and that many bytes are sent (`SendsWhole`).
- Bsend with `UnalignedBuffers` of `MCBsend`: `MPIR_Bsend_attach` aligns the buffer and reduces `buffer_size`
  (`mpid/pt2pt.cpp:189`), but gives its first segment the unreduced size (line 196), so the last segment ends
  beyond what the user attached (`Segments`). `SendsWhole` still holds there.
- Ready sends with handles used twice: a receive that was refused with an error may have unpacked the scratch
  buffer all the same (`RecvHasPayload`), as in `pt2pt_ready`.
- Bsend with `MayFail = TRUE`: the exit for a failed `MPID_Send` (`mpid/pt2pt.cpp:563`) frees the segment, which was
  not taken yet: it is linked to itself, and the next search that passes it never ends (`Segments`).

`pt2pt_cancel` and `pt2pt_order` assume what the four violating `pt2pt_` runs drop: each handle is allocated
once where sends are cancelled or ready, one thread, and no active frees of sends to oneself.

## 5. Proofs

`Pt2ptProofs` proves, for all processes, tags, handles, modes, routes and bounds that satisfy the
named assumptions of Pt2pt:
- `TypeCorrect`: `TypeOK` is inductive; one lemma for each action.
- `NothingMissed`: `NoMissedMatch`. It is inductive together with `TypeOK`: an entry is appended to one queue
  only in a state where the search of the other found nothing (`NonePosted`, `NoneUnexpected`), and all other
  actions only remove entries. The removal lemmas say that what `RemoveAt` leaves was there before.

  The rest of the module shows that each action keeps `MessageInv` of `Pt2ptInv`: a send that is neither matched nor
  cancelled is one packet of its connection or one entry of its receiver's unexpected queue, in the order of the
  calls and with the queue before the connection; a receive that is neither is one entry of the posted queue, in order.
  `SameMessages`, `SameSends` and `SameRecvs` collect the many steps that move no message; the steps that do
  are shown to add, settle or carry over exactly one.

`Pt2ptMatching` proves, with the same constants:
- `MessagesKeptInOrder`: `MessageInv`, and that a send to oneself names the process itself (`SelfInv`). It needs no
  further assumption: handles may be reused, threads may interleave, sends may be cancelled.
- `CancelsKnowTheirSend`: `MatchingInv`, which adds `CancelInv`: the handle in a packet, a queue entry or a request to
  cancel names one send (`HandleInv`), whose request and record agree on whether a cancel was asked for
  (`LedgerInv`), and all messages with the handle of a request to cancel are ones that the sender wants back
  (`AskedInv`). It assumes `Cancelling => MaxGen <= 1`: with cancels, no handle is allocated twice. The
  assumption is needed, because the code does not keep the invariant without it; the run `pt2pt_reuse` is the
  counterexample. It is not needed where sends are not cancelled.
- `ImplementsMatching`: `MatchingSpec`, under the same assumption. `NoMissedMatch` and `MessageInv` give what an action
  of Matching asks for: the first entry of the unexpected queue that a receive accepts is the first pending
  message of its sender that it accepts (`NoEarlierMessage`), the first posted entry that accepts a message is the
  first pending receive that does (`NoEarlierOpen`), and who finds nothing may wait. Each of the 35
  actions then has a lemma that names its abstract step (`...Mapped`).
- `NeverOvertaken`: so `HoldsItsMessage`, `MatchedOnce`, `SendsNotOvertaken`, `RecvsNotOvertaken` and `FateIsFinal` of
  Matching, proved in `MatchingProofs`, hold of the sends and receives of Pt2pt.

`Pt2ptRefs` proves, for all constants, assuming `~MultiThreaded` and again `Cancelling => MaxGen <= 1`:
- `RequestsAreCounted`: `RefInv` of `Pt2ptInv`. `NothingDangles` is not inductive: that a request is alive when its
  answer arrives does not follow from its being alive before, but from its having a reference that only the
  answer gives up. `RefInv` says whose each reference is. A send is held by the application and by its tokens
  (`SendTokens`): a queued packet that carries the request, a question on its way (an RTS, a synchronous message, a request to
  cancel), a receiver that owes an answer (`Debtors`), and an answer coming back. A positive answer to a cancel
  counts twice if the send awaits an answer, which then never comes. A receive is held by the
  application, its two queues, and what one connection has under way for it: a clear-to-send, the data, a payload
  being read (`RecvWith`). The parts `SaysWho` and `NamesInv` say that the entry which owes an answer names
  the send that awaits it; with cancels they rest on `MatchingInv`.
  Each action moves a token from one place to the next or gives it up with the reference. The lemmas on `NumIn` and
  `Debtors` say what an append, a removal and a new receive do to each count, and the lemmas on frames that an action
  leaves all other requests' counts alone.
- `NoneReleasedEarly` (`NothingDangles`) and `NoneLeaked` (`NothingLeaks`) follow.

  Both hypotheses are needed: `pt2pt_threads` refutes `NothingDangles` where threads interleave in a synchronous send, and
  with a handle used twice under cancels (`pt2pt_reuse`) the cancel of one send settles the message of another.

`MatchingProofs` proves of the abstract specification:
- `MatchingCorrect`: its type invariant and the four invariants above, for any sets of processes and tags.
  Each step is shown to have an effect of one kind (`StepEffect`: sends only grow and keep their envelope and
  their final fate, receives likewise, and at most one pair becomes matched, whose pair is the first on
  both sides), and the inductive invariant `Kept` is preserved by any step with that effect.
- `FatesAreFinal`: `FateIsFinal`, from the same effect.

`ChannelProofs` proves of Channel, for any set of packets:
- `DeliveredInOrder`: `InOrder` and `NothingLeft`. The invariant needs no strengthening beyond the types: a
  delivery adds the packet that the prefix lacks, a send only extends what was sent, and after an end
  nobody sends and nothing is left to deliver.

`ConnectionProofs` proves of Connection, for any numbers of messages, assuming `OneSender`: if threads send while
another makes progress, then only one of the two processes sends. The assumption is needed: with `ThreadedPlans`
(section 4) `OneWriter` fails, in the code as in the model.
- `Invariance`: `Inv` of `ConnectionInv`. None of the properties below is inductive. That a write is of the head of the
  queue depends on which connection the process uses; which one that is, on how far the handshakes of both are;
  and that a close packet meets a state which has an answer for it, on what the peer had received when it sent it.
  `Inv` has a part for each: `Main` is the connection that wins (that of process 1, if it ever asks), `Handshake` says
  which stages of its two ends fit each other, `Conns` which connection each process uses, and `Other` that the one
  that loses carries only its handshake, also when it is accepted after all of the main one is over (`Late`).
  `Flow` says of each direction that what was sent is what was received, followed by what is on the wire, followed
  by what is in the queue, less the head if its write is under way; the handshake stands before the packets on
  the wire and the shutdown behind them. `Queue` and `Deferrals` say when the head of the queue may be
  written and by whom, and that a process which waits for its connection has something queued. `Protocol` gives the
  meaning of each state of the close protocol: which close packets the process has sent and received by then.
- `OneWriterAtATime` (`OneWriter`), `OneConnectionWins` (`OneConnection`) and `ClosesInOrder` (`CloseInOrder`), the
  assertions of the code, follow from `Inv`.
- `ImplementsChannel`: `ChannelSpec`. A call that sends, MPI_Finalize's close packet too, is a `Send` of Channel; the
  handler of a packet is a `Deliver`, with the answer to a close packet sent in the same step; the end of the main
  connection is an `End`, in which nothing is left because the shutdown follows both sides' close packets
  (`NothingMore`); every other callback is a stutter. With `DeliveredInOrder` this gives the order and
  completeness of what is delivered, for any numbers of messages.

  The module has general facts about sequences first, then one lemma for each action, and per action the parts of
  `Inv` that it disturbs; `FlowWrite` and `FlowRead` carry the argument about wires, `SendRequestStep` is shared by
  the calls, `SendKept` and `OthersKept` collect what a step on one side leaves alone on the other.

`WinLockProofs` proves of WinLock, for any processes, plans, numbers of operations and epochs, assuming `LocalGets`
(plans that flush locally have gets only; `LocalPlans` above shows why):
- `Invariant`: `Inv` of `WinLockInv`. Exclusion alone is not inductive, since a target trusts the packets it is
  sent: nothing in its state says that an unlock, or the last put of an epoch, comes from a holder. `Inv` says
  for each pair of an origin and a target where the one request is for which the origin's call waits (`InChan`,
  `InQueue`, `BeingRead`, `Ending`, `Answered`, or `AtRest` when there is none), that no other place has a
  second one, and in which of these places the origin has the lock (`Has`), has it not (`HasNot`, `NeverHad`);
  `OldLocks` that a lock of an earlier epoch is held only while a response is still being sent, which
  releases exactly that one; `LockInv` what state and count of a window say of its holders; `Linked` what
  counts packets and calls.
- `TypesHold` (`TypeOK`, no count below zero), `Exclusion` (`HoldersExclude`), `Belief` (`BelieverHolds`) and
  `Accesses` (the action property `NoConflictingAccess`) follow from `Inv`.
- `NoneLost`: `InvOps`, which adds `OpsInv` to `Inv`. What a call may conclude from an answer is not in one
  place either: the packet that ends a flush says nothing of the operations sent before it. `OpsInv` says that an
  operation is done or in its origin's list; that while a call waits for the list, those not done are
  on their way (`OnItsWay`: in a packet, as the payload being read, or with the entry of the lock queue, of
  which there is one at most by `Inv`); and that then a get is behind them all or `remote_ops_done` is still
  0, so that the last answer comes after the last of them. `Carries` and `EndsWithGet` rest on the order of
  a connection's packets.
- `Completion`: `CompletedApplied` follows, since a call marks its operations complete only when the list is done.
  `WinLockLemmas` says what appending and removing a packet or a queue entry does to the places,
  that each action keeps the types, and that a step which concerns one pair keeps the
  invariant of all others; `WinLockProofs` has one lemma for each action about the pair that it concerns.

`pt2pt_order` checks `MatchingSpec` without cancels; for cancels the refinement rests on the proof.

Only model-checked: of Pt2pt, `CancelAgreed`, `PartnerAlive`, `SyncSendMatched`,
`RecvHasPayload` and `CompletionIsFinal`; of Connection, that
`MPI_Finalize` returns (`FinalizeReturns`, which is liveness); of WinLock, `NobodyStuck` (which is `ENABLED`) and `CountsAgree` (sums by a
fold over the processes, which needs induction over data); everything of Bsend; everything of
Collective, whose lists are recursive; and all liveness. TLAPS as used here (SMT, Zenon, LS4) proves nothing
about fairness or `ENABLED`, and cannot instantiate induction theorems over data, so liveness and what a
recursive definition computes for every input stay with TLC in any case.

## 6. Mutants

Definitions named `...Unkept`, `...Swapped` and the like stand before the definition they change and are used by no
specification. Each is a plausible bug of that code; put in its place, it violates the property that
`PROJECT.json` pairs it with.

## 7. Not modelled, and why

Datatypes, segments and compression (address arithmetic with no state between calls); the API, Fortran and
debugger layers (argument checks and bindings); MPI-IO (file access, its one lock is the file system's); the
launch service and the start of processes (calls of the operating system); topology discovery.

Of the modelled parts:
- Point-to-point: truncation, more than one communicator (the context id is one more equality in `Matches`),
  persistent sends, errors from the connection.
- Connection: failures of sockets (the code ends the job), a third process, the exchange and parsing of
  business cards, the shared-memory and Network Direct channels.
- WinLock: `lock_all` and `flush_all`, fence and post-start-complete-wait, `get_accumulate` and
  `compare_and_swap`, a flush before the first operation, error exits, and threads (the lock functions are not
  atomic and say so in comments). `LOCK_GET_UNLOCK` is handled but never sent.
- Collectives: alltoallw, the blocking scatter, alltoall and scan (the same trees with blocking calls), the nonblocking
  variants over nodes and between groups (whose tasks are collectives themselves), the choice of the algorithm, a task
  that fails.
- Bsend: the references of requests, several threads in one attached buffer (which the documentation of
  `MPI_Buffer_attach` forbids), and what the program keeps in the bytes beyond the buffer it attached.

Not modelled yet, in the order of section 2: the progress engine's lock and wake-ups, shared
memory, the barrier of the process managers, Network Direct. Communicators, dynamic processes, groups,
attributes and the PMI library are sequential bookkeeping.

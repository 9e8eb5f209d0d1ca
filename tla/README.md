# Virtio CAN and console in AGL's egvirt layer: specifications and proofs

The repository is a collection of Yocto layers. Most of it is build metadata;
the programs it carries itself are in `meta-egvirt`:

| part | source | state it keeps |
|---|---|---|
| **virtio_can**, the CAN driver of the guest kernel | `recipes-kernel/kernel-module-virtio-can/files/virtio_can.c`, `.h` | `virtio_can_priv`: TX index free list, `tx_inflight`, `tx_list`, `can.state`, `busoff_pending`, `ctrl_done`; the echo slots of the CAN core; four virtqueues; two NAPI contexts |
| **vhost-device-can**, the device as a vhost-user daemon | `recipes-extended/vhost-device-can/.../src/{main,backend,can,vhu_can}.rs` | `CanController` (`rx_fifo`, `rx_event_fd`, sockets) shared by a reader thread and the worker; `VhostUserCanBackend` (`mem`, `event_idx`, `acked_features`) |
| **vhost-device-console**, a console device of the same kind | `recipes-extended/vhost-device-console/.../src/{main,backend,console,vhu_console}.rs` | `VhostUserConsoleBackend` (`ready`, `ready_to_write`, `output_buffer`, `rx_fifo` of control messages, `rx_event`, `rx_ctrl_event`) shared by a console thread and the worker |

Driver and CAN daemon are built into one image (`conf/include/agl-egvirt.inc`,
feature virtio-loopback) and talk to each other over virtqueues: TX, RX, control
(the daemon has no indication queue). Everything else in the repository
(Jailhouse cell tables, DRM lease, Flutter, container, UHMI, voice agent,
wireless monitor, production-readiness and test layers) configures or patches
programs that are not here; `PROJECT.json` lists each with the reason why there
is nothing to model.

## What is hard in this code

* **The transmit path of the driver** runs on several CPUs. `start_xmit` reads
  `tx_inflight` twice outside `tx_lock`, takes the lock twice, touches the echo
  slots in between and stops the queue outside it; the NAPI poll reaps, frees
  indices and wakes the queue; close, restart after bus-off, suspend and remove
  flush echoes or free messages while the device still owns buffers. Kicks,
  interrupts and polls are all suppressible, so a message can be stranded.
* **Its other three queues** meet in two unlocked variables, `can.state` and
  `busoff_pending`, which the receive poll, the indication interrupt, open and
  close and the restart work of the CAN core all write; and in one control
  message whose sender waits for an interrupt with locks held.
* **The daemon** mixes level- and edge-like signals: an eventfd counter that is
  read in one go, EVENT_IDX notification suppression, kicks, and a fifo filled
  by a second thread. An error from a handler ends the worker thread, a panic
  also poisons the controller's lock.
* **The console** writes the character and raises its event under two separate
  locks, drains one fifo of control messages from three places, two of them
  nested in the handler of another queue, and on one path returns messages
  without a signal.
* **Around both**, `start_backend` runs one thread per guest on one socket path;
  sessions end, panic and begin again beside each other.
* **Between them**, an error of one side is a silence the other side waits for.

The complete list, at the lines where it bites, is `hazards` in `PROJECT.json`.

## Modules

| module | models | proofs |
|---|---|---|
| `VirtioCanTx` | transmit path of `virtio_can.c` and every interface operation that touches it | `VirtioCanTxProofs` |
| `VirtioCanRx` | receive, indication and control queue of `virtio_can.c` | `VirtioCanRxProofs` |
| `VhostCan` | reader thread, worker and virtqueues of vhost-device-can with a guest as environment | `VhostCanProofs` |
| `VhostConsole` | console thread, worker and virtqueues of vhost-device-console with a guest as environment | `VhostConsoleProofs` |
| `VhostDaemon` | `start_backend` of both daemons: threads, sessions, restarts, the shared socket path | `VhostDaemonProofs` |
| `Channel` | abstract: what goes in comes out in order, none lost or repeated; implemented by the receive path of `VhostCan` and, twice, by `VhostConsole` | |
| `ItemSequences` | lemmas on sequences of items (regrouping, moving a head, first parts, sequences without repetition), instantiated by the proofs of the two daemons | its own |
| `MCVirtioCanTx`, `MCVirtioCanRx`, `MCVhostCan`, `MCVhostConsole`, `MCVhostDaemon` | instances and symmetry sets for TLC | |

### VirtioCanTx

State is named after the source: `tx_putidx_free` (as a set: which free index is
handed out plays no role), `tx_inflight`, `tx_list` (a set of messages
`[putidx, skb]`), `can_state`, `echo` (the CAN core's `echo_skb[]`), `stopped`
(`netif_queue_stopped`). `stack` is the set of buffers the network stack owns.

Atomicity is that of the code. `start_xmit` is `XmitDrop`/`XmitNoMem`/`XmitBegin`
(checks, allocation, first read of the counter), `XmitStopFull` or
`XmitCheckSlots`, `XmitAlloc` (first locked section), `XmitPutEcho`, `XmitAdd` or
`XmitAddFails` (second locked section; `XmitAddLost`, see below), `XmitStopNoSpace`, `XmitKick`. The poll is
`PollBegin`, `PollRead` (one locked section per message), `PollWake` (after the
unlock), `PollExhausted`/`PollEmpty`, `PollEnableCb`, `PollComplete`,
`PollRecheck` (the three calls of `virtqueue_napi_complete`). A message that has
been answered is found only if the device's `DevNotify` saw callbacks enabled or
the recheck looks.

Each interface operation that waits for a control message is a pair of steps
(`OpenStart`/`OpenDone` and so on). The restart work of the CAN core
(`RestartFlush`, `SetModeStart`; queued by `BusOff` with `AutoRestart`) runs beside
open and close; close is three steps (`CloseStop`, `CloseAnswer`, and `CloseDone`,
where `close_candev` waits for the work or cancels it). `Remove` and `Probe` model a
driver that is unbound and bound again.

Nothing in `virtio_can_freeze` waits for a call of `start_xmit` that is under way, nor
for the look at the queue after `napi_complete_done`. `FreezeDone` may therefore free
the virtqueue and `tx_list` under both. `torn` remembers it: from then on ("now") the
call works on freed memory, and its `virtqueue_add_sgs` may do whatever the build
makes of it: the message enters the new queue if there is one (`XmitAdd`), nobody's
queue (`XmitAddLost`), or the call fails (`XmitAddFails`); after the call `torn` is
"was". An oops, which ends everything, is not modelled, and the free list, the
counter and the echo slots, which are not freed, stay sound. Properties about memory
that such a call uses after it was freed are stated up to this point
(`torn = "no"`): `RingBacked`, `EchoLoopedBack`, `SkbOwnedOnce`. The restart work is
assumed not to run during suspend and removal.

Environment, modelled from the calls the driver makes: the device returns
messages in any order; the stack calls `start_xmit` for one buffer at a time,
while the queue is not stopped, in bursts of up to `BurstMax` frames
(`netdev_xmit_more`); `napi_schedule` during a poll marks it missed; the CAN core
flushes echoes on restart and close. A BUG_ON sets `bug` for good, so reaching one
is a violation of `NoBugOn`.

`MemPressure` lets GFP_ATOMIC allocations fail: the message itself, and the
indirect descriptor table, for which the ring core then uses two descriptors of
the ring. `PmSleep` is `CONFIG_PM_SLEEP`.

### VirtioCanRx

Four contexts. The *receive poll* starts with `virtio_can_handle_busoff`
(`PollBegin` and `PollState` read, `BusoffEnter` sets the state and has the CAN
core schedule its restart, `BusoffReport` sends the error frame), then reads one
frame per `PollRead` and ends like the TX poll. A refused frame (`BadFrames`:
wrong size, type, flags or a feature that was not negotiated; or any frame while
the state is not error-active) is dropped and its buffer reposted. The
*indication interrupt* is one step per access (`EvindIntr`, `EvindState`,
`EvindSet`, `EvindSchedule`, `EvindPutback`, `EvindAgain`). *Open, close, suspend
and resume* (thread `rtnl`) and the *restart work* (thread `work`) begin with a
control message: `CtrlSend` (lock and post), `CtrlGetBuf`, `CtrlWait`; then
`ResetPending` and `SetState` write the shared variables and a `...Done` step ends
the operation: `CloseDone` waits for the restart work as `close_candev` does.

`op` and `tpc` are the program counters of the two threads. The device obeys
control messages, fills receive buffers while it is started, may go bus-off, and
indicates that once; START ends a bus-off. Left out: the carrier, a broken
virtqueue, malformed indications (they are put back unread) and the result of a
control message (it is only logged). Suspend is assumed to find no restart work
running, and the work's timer not to expire before resume is over. It does not wait
for the look after `napi_complete_done`: `FreezeDone` makes that look stale.

Any frame may find no socket buffer (`PollRead` drops it and reposts the buffer);
`ReportFails` lets the error frame of a bus-off fail as well. `Parked` is the state
resume may leave NAPI in: the callback is disabled and a schedule is remembered that
`napi_enable` does not look at (a frame received between START and `napi_enable` in
`virtio_can_restore`), or NAPI is off. `RxDrained` and `BusOffReported` name it as
their one exception.

### VhostCan

`handle_event` is one thread, but the reader and the guest run beside it, so its
accesses to shared state are steps: `WakeKick`/`WakeBackend`, `Collect` (all
available chains leave the ring), one `ProcessTx`/`ProcessCtrl` per chain or
`ProcessRx` once, `Signal`, `Enable` (the EVENT_IDX loop). Its error returns end
the worker (`CollectFails`, `ProcessTxFails`, `ProcessRxFails`, `ProcessRxEmpty`), its
`unwrap`s panic (`CollectPanics`; `ProcessTxFails` with the controller locked, after
which `ReaderPanics`). What a failing handler has taken and not handed on is gone:
`lost` is the frame that was popped and then refused (its kind was not negotiated, or
the buffer cannot be written; constant `Refusals`), `forgotten` the TX chains from the
bad one on. `mem` has three stages, since an event may come before the memory table
(`CollectPanics`) and between it and the vrings (`CollectFails`).

Frame contents are reduced to what decides the control flow: whether can_in's
frame is FD (others are only printed; an error frame would be dropped after the pop,
but never gets into the fifo), and whether a TX message is `Bad`: of the wrong type or
size, of a kind that was not negotiated, an extended RTR frame (for a standard one the
masking with `CAN_SFF_MASK` clears the flag before it is tested), or one whose id does
not fit `StandardId`. The guest makes chains available and looks only then whether to
kick; with EVENT_IDX it kicks when it has just passed `avail_event`, which `lag`
counts from (0, 1, or more). It reaps on interrupts; a TX message is never a chain of
one of the other queues (`VhostCanAssumption`). Left out: a TX or control response
buffer that cannot be written, and a failing `add_used`, which is only logged.

### VhostConsole

The console thread is `PollReady`, `ReadChar` (blocks on the terminal without a
lock), `PassChar` twice (one write lock each), `ConsolePanics`. The worker holds
the write lock while `handle_event` runs, so these steps wait for it. One turn of
the loop is `Collect`, the handler, `Enable`. The handlers are `ProcessTx` per
chain or `ProcessTxFails`; `ProcessRx` (first chain only); `HandleControlMsg`,
then per answer `QueueReply` and the nested `ProcessCtrlRx` steps, then
`ReturnControlMsg`; `ProcessCtrlRx` until the chains are used up
(`ProcessCtrlRxDone`, with a signal) or the fifo is dry (`ProcessCtrlRxDry`,
without one). The guest is Linux's virtio_console as far as it uses these queues:
it posts control buffers, announces itself, answers PORT_ADD with PORT_READY,
opens its port when it is told that it is a console (`init_port_console`, in the
middle of the handshake) or later, sends one control message at a time and waits for
its return. The chains a failing `process_tx_requests` holds are forgotten with the
worker. The memory table is set before the first kick, so `mem` is left out.

### VhostDaemon

Per thread of `start_backend`: `Setup`, `SetupFailed` (before there is a worker) or
`SetupPanics` (`set_vring_worker`, with the worker running), `Unlink` and
`Bind`/`BindFails` (the two halves of `Listener::new(path, true)`, between which
another thread may bind), `Accept` or `StartFails`, `DropListener` (which removes the
path, whoever has bound it since), `WaitReturns` (the guest is gone) or `WaitFails`
("Error running daemon": a request was refused or met a poisoned lock, and the guest
is disconnected), `ShutDown`/`ShutDownPanics`, `DropDaemon` (waits for the worker). `MainExits` is the join of the first handle:
no thread ever returns `Ok`, so the others are joined never. `vhost-user-backend`
and `vhost` are external and modelled from how the two `backend.rs` use them.
The two files differ only in what they set up; the map cites one or the other.

## Runs

| run | instance | checks |
|---|---|---|
| `tx_core` | 2 buffers, 2 echo slots, ring of 3 without indirect descriptors (limit 1), budget 1, bursts of 2 | counters, echoes and ownership of buffers agree, the ring never overflows; echoes return, a stopped queue with frames in flight is woken |
| `tx_stress` | 2 buffers, ring of 3 with indirect descriptors (limit 2), failing allocations, suspend at any point of a call, budget 1 | no BUG_ON, exact slot accounting, exclusive indices; no freed message in the ring until a suspend cuts a call |
| `can_core` | EVENT_IDX, 2 FD frames and an error frame, possibly early or refused, 3 TX messages of which one breaks the worker, failing writes, a control message, 1 receive buffer | the receive path is a `Channel`; can_out has the messages answered OK in the order sent, frames and TX chains are lost only with the worker; requests are answered while the worker lives |
| `con_core` | EVENT_IDX, 2 control buffers, 1 receive buffer, 2 texts and possibly one between them that breaks the worker, 2 characters | output and control messages are `Channel`s, input never goes back; the handshake ends, output is printed |
| `daemon` | 2 threads, 3 guests, failing set-up, start and requests, breaking workers | sessions are not mixed, nobody queues at a listener that is gone; threads listen again, somebody is served |
| `rx_core` | 2 receive buffers, 2 frames of which one is refused, dropped frames, budget 1, a bus-off with automatic restart, 2 operations of open, close and suspend | buffers and frames accounted for, in order; exclusive use of the control message; buffers reposted, bus-off reported, operations end |
| `tx_wake`, `tx_sleep`, `tx_remove`, `can_forward`, `rx_busoff`, `daemon_panic` | smallest instance that shows the behaviour | what a comment or a document says and the code does not do (see below) |

*Bounds.* One buffer more than the limit is needed for a full queue with a
frame waiting, which `tx_core` (2 buffers, limit 1) has; `tx_stress` fills two
slots at once. A third message adds no new pair of conflicting accesses, since at
most one call and one poll run at a time. An odd ring exercises the rounding in
`tx_limit`. Two frames, two chains and two good texts are enough for a daemon to
coalesce, reorder or forget one of them; `can_core` and `con_core` have a third message
that breaks the batch between the two; two control buffers allow one to be dropped and
the handshake to go on with the other. Texts are only numbered, so the guest leaves
out bad ones only. `MaxReads` and `MaxOpens` stop
the guest after one read and one open: a character can already be handed over
twice, and later opens get no answer. Two threads and three guests give every
race for the socket path and a guest that has to wait. In `VirtioCanRx` one
bus-off and two operations give every overlap of restart, close or suspend,
interrupt and poll; a budget of one makes the bus-off report use it up while a
frame waits, and the second frame can be returned while the poll of the first
enables the callback. `ctrl_done` counts to `DoneMax`: one surplus completion already makes
a waiter look once more. `lag` is capped at 2, as only 1 leads to a kick. Buffers
(`Skbs`) are only compared for equality, so the pure safety run `tx_stress` uses
symmetry; runs with temporal properties do not. The largest runs are `tx_stress` (8.1
million states), `rx_core` (1.6), `can_core` (1.4) and `con_core` (0.55). All
runs but those of `VirtioCanTx` switch deadlock checking off, because their
workload is finite, a worker may end and an interface may be left alone
(`OpsReturn` shows that no operation hangs).

*Fairness.* Fairness is weak and mostly of a disjunction: it asks only that a
group of contexts which has something to do does something, not that each of them
gets its turn, and the properties hold all the same. `VirtioCanTx`: the stack
finishes a call of `start_xmit`, a burst it announced with `xmit_more` and frames
it got back as busy; the softirq side (interrupt, poll, recheck) goes on; the
device returns what it was notified of and answers control messages.
`VirtioCanRx`: one condition for everything that has begun (poll, interrupts,
control messages, a queued restart work, device). Daemons: the worker goes on
while an event is pending, epoll may pick any; the guest finishes its kicks,
interrupts and control work and reposts receive buffers. `VhostDaemon`: every
thread and worker is scheduled, and a frontend that wants a connection tries
again; what may go wrong in a thread (`Mishap`) never has to. Nobody has to send,
type, open, close, suspend, remove, come or leave.

### What the violation runs show

* `tx_wake` – the queue can stay stopped with nothing in flight: `start_xmit`
  decides to stop, the poll reaps the last message and wakes, `start_xmit` stops.
  `WokenByReap` (passing) is the part of the promise that holds.
* `tx_sleep` – suspend with frames in flight loses their slots for good.
* `tx_remove` – `virtio_can_remove` takes the queue down under a running poll.
* `can_forward` – frames that share an event, and receive buffers that were
  collected but not used, are lost to the guest until more traffic comes.
* `rx_busoff` – when the error frame cannot be allocated or the stack drops it,
  `busoff_pending` stays set as intended, but no poll is scheduled to try again.
* `daemon_panic` – `backend.rs:106-108` says a panic on a thread "won't cause trouble
  to other threads/guests or the main() function". The first thread loses the race
  for the socket path, its `unwrap` panics, main joins it and exits, and the guest of
  the second thread loses its session.

Some differences were seen while modelling and have no run of their own.
Driver and CAN daemon:

* A failing `virtqueue_add_sgs` (line 411) leaves the echo slot occupied and the
  buffer with two owners; `EchoLoopedBack` and `SkbOwnedOnce` are therefore
  stated without failing allocations. A message that cannot be allocated (line
  345) leaks its buffer.
* Driver and device disagree on the layout of a frame: `virtio_can.h:29-35` has
  type, reserved, flags, id where `vhu_can.rs:122-129` has type, length, reserved,
  flags, id.
* The "normal queue stop" of `start_xmit` (line 387) repeats the check before it
  and never stops the queue.
* An RTR frame is not rejected by the daemon, as the driver expects (line 342),
  but ends its worker; so does, with EVENT_IDX, a receive buffer posted while
  `handle_event` runs, because the second turn of the loop finds no frame.
* A bus-off indicated before `virtio_can_start` has set the state is put back
  unread (line 797), and a restart that runs while close waits for it starts the
  controller again after the STOP.
* A frame received between START and `napi_enable` in `virtio_can_restore`
  disables the receive callback without a poll to enable it again (`Parked`).
* A suspend in the middle of `start_xmit` frees the queue and the message under the
  call (lines 1061 to 1069).
* A frame for a guest that has not negotiated classic frames ends the worker and is
  lost: the flags tested at `vhu_can.rs:452` are those of the id and never say FD.

Console and daemons:

* A character that is typed before the last was handed over replaces it, one that
  finds no receive buffer waits for the next event, and with EVENT_IDX a buffer
  posted while `handle_event` runs gets the same character again;
  `InputNeverOlder` is what holds.
* Chains that are collected and not used (all but the first of the receive queue,
  those left when the control fifo is dry) never return to the guest. One control
  buffer stays in circulation, which is enough for `HandshakeCompletes`.
* A guest that keeps sending PORT_OPEN can keep the worker in the EVENT_IDX loop
  of the control queue.
* The help text of `--socket-path` says it is suffixed by the number of the socket; all threads
  use the path as it is, so a bind may fail, after which unwinding waits for a
  worker that nobody told to exit.
* Threads that read can_in or the terminal outlive their session (FIXME at
  `can.rs:140`); the console's then takes characters from its successor.
* Two tests cannot pass: `vhu_console.rs:780` expects 10 bytes of a message of 8,
  and `test_start_backend_success` (console `backend.rs:209`) an `Ok` from
  threads that never return one.

## Proofs

Each component's theorems are in a module of their own. They hold for every value
of the constants that satisfies the assumption named in the component's module;
TLC evaluates these assumptions in every run. Each inductive invariant was first
checked by TLC on the instances above.

### VirtioCanTxProofs

For every number of buffers, echo slots and ring entries, every budget and burst
length, and with or without failing allocations and suspend unless stated
(`TxAssumption`: at least one echo slot, a ring of two or more entries, a positive
budget):

| theorem | states |
|---|---|
| `SlotInvariant` | the inductive invariant `SlotInv` |
| `TypeCorrect` | `TypeOK`, in particular `tx_inflight <= tx_limit` |
| `BugOnUnreachable` | no BUG_ON fires |
| `SlotsAccounted` | in flight + free = number of slots |
| `IndicesExclusive` | messages on `tx_list` and in the ring have distinct indices, none of them free |
| `RingIsBacked` | until a suspend cuts a call, what the ring holds is on `tx_list` |
| `RingHasRoom` | without failing allocations `virtqueue_add_sgs` finds room, unless its queue was freed |
| `EchoesLoopedBack` | without failing allocations and cut calls an occupied echo slot has no free index and agrees with the message under it |
| `BuffersOwnedOnce` | without failing allocations and cut calls every buffer has one owner (`SkbOwnedOnce`) |
| `InflightCounted` | without suspend `tx_inflight` is the length of `tx_list` (`InflightCounts`) |

*Argument.* None of the properties is inductive alone. `NoBugOn` needs that the
counter is below the limit when the slot is taken, although it was read outside
the lock: `CallBelowLimit` says that between the check and the allocation only the
poll changes the counter, downwards. `RingBacked` needs that the message of a
call is on the list before the ring knows it (`CallListed`), unless a suspend has
freed it. `IndexExclusive` holds even then, because the call still owns its index
(`CallIndexed`): a message that a cut call puts into the new ring meets no other there.
`CallWhileRunning` says that a call runs on an interface that is up, or was when a
suspend began. `IndexExclusive` and
`SlotAccounting` support each other: a reaped index was not free. `SlotInv` is the
conjunction; one lemma per group of actions shows that it is preserved.
`RingHasRoom` adds `RoomInv`: the descriptors in use are those of the messages in
the ring, at most the cost of one message each, so a call below the limit finds
room. Lemmas on cardinalities come from `FiniteSetTheorems`.

`EchoLoopedBack` (an occupied slot is not free to be handed out, and the message
under its index carries the same buffer) is inductive on top of `SlotInv` and
`NoEnospc`: an index freed without emptying its slot would need the failing
`virtqueue_add_sgs` that `NoEnospc` excludes as long as no call is cut.

`SkbOwnedOnce` counts owners, which no prover does step by step. `OwnInv` says the
same without counting (stack, call and slots are disjoint and together hold every
buffer) and adds that an interface which is not up has no call in progress and
empty echo slots; without that, `virtio_can_probe` could wipe a slot that holds a
buffer. `BuffersOwnedOnce` needs `NoEnospc` for the same reason as above.
`InflightCounts` needs that `tx_list` is finite and, from `SlotInv`, that the index
a message is listed under was free. Its hypothesis `~PmSleep` cannot be dropped:
the run `tx_sleep` refutes it with suspend.

### VirtioCanRxProofs

For every set of buffers, number of frames, bus-offs and operations, every budget,
with and without automatic restart, failing allocations and suspend
(`RxAssumption`):

| theorem | states |
|---|---|
| `TypeCorrect` | `TypeOK`: the poll stays within its budget, bus-off report included |
| `CtrlIsExclusive` | `CtrlExclusive`: open, close, suspend, resume and the restart work never share the control message |
| `RxIsAccounted` | `RxAccounted`: buffers and frames are neither lost nor used twice, and reach the stack in order |

*Argument.* `CtrlExclusive` follows from `CtrlInv`: a thread holds `ctrl_lock`
exactly between posting its message and getting it back, at most one does, and the
message of the holder is either with the device or returned. The last part is what
makes a surplus completion harmless: a wait that ends early finds nothing in
`virtqueue_get_buf` and waits again. `RxInv` adds to `RxAccounted` that the used
ring names no buffer twice and that what was delivered is older than what is
unread; the first keeps a reposted buffer out of the ring, the second the
order.

### VhostCanProofs

For every set of frames, messages and buffers, with and without EVENT_IDX and
early or refused frames (`VhostCanAssumption`):

| theorem | states |
|---|---|
| `TypeCorrect` | `TypeOK`: only FD frames get into `rx_fifo` and to the guest |
| `RxOrdered` | `RxInOrder` |
| `RxImplementsChannel` | `RxForwarded`: the daemon refines `Channel` from can_in to the guest |
| `TxIsConserved` | `TxConserved`: no TX chain is answered twice or out of turn, and chains are forgotten only from a bad one on, with the worker |
| `TxOrdered` | `TxInOrder`: can_out has the messages answered OK, in the order sent |

*Argument.* `TypeOK` needs `RingsOK`: every queue, and the handler while it serves
it, holds chains of its own kind. `RxInOrder` is then inductive: `ReadFrame`
appends to both sides, `ProcessRx` moves the head of `rx_fifo` to the end of the
used ring (`MoveHead`), `ProcessRxFails` to `lost`, after which no worker takes
another, and `Reap` moves the used frames to the guest. From it follows
the refinement: a `Reap` that changes anything makes `received` a longer first
part of `arrived` (`FirstPart`), which is `Deliver`.

For the transmit path, `TxInv` cuts what the guest has sent into three parts: the
messages it knows the answer of, those in the used ring, and the rest (forgotten, in
the handler, then in the ring). Each message is sent once (`TxOnce`), so the part it
is in decides its status. `Collect` regroups the pending part, `ProcessTx` moves
its head to the used ring, `Reap` moves the used ring to the known part, and an
error or a panic turns what the handler holds into what is forgotten. `TxConserved` reads off the cut;
`TxInOrder` holds because the message that is written next comes after every
message that already has a status.

### VhostConsoleProofs

For every amount of output and input, every number of buffers, with and without
EVENT_IDX (`VhostConsoleAssumption`):

| theorem | states |
|---|---|
| `TypeCorrect` | `TypeOK`: no character that was never stored reaches the guest |
| `TextImplementsChannel` | `TextInOrder`: the output path refines `Channel` |
| `ControlImplementsChannel` | `ControlInOrder`: the control answers refine `Channel` |
| `InputOrdered` | `InputNeverOlder` |

*Argument.* `HandlerOK` ties the control point of `handle_event` to the event it
serves and to the queue whose chains it holds, which the nested calls of
`process_ctrl_rx_queue` would otherwise blur; `CharOK` says that a character has
been stored before the event for it is raised. `TextPath` and `ControlPath` are
the shape of the two channels: what went in is what came out, then what the handler
or the used ring holds, then what waits; `TextPath` ends with the worker, which
forgets what it holds. All three places that drain `rx_fifo` move
its head to the end of the used ring, so `ControlPath` does not depend on which one
does. `InputInv` says that what was handed to the guest is ordered and never newer
than `output_buffer`; a character handed over twice is allowed by it, one that goes
back is not.

### VhostDaemonProofs

For any number of threads and guests (`VhostDaemonAssumption`: at least one
thread):

| theorem | states |
|---|---|
| `SessionsExclusive` | `TypeOK`: no two guests share a backend, none is served by a worker an earlier session told to exit |
| `QueueServed` | `QueuedAtListener`: the path names an open listener or none, and guests queue only at open ones |

*Argument.* `SessionInv` adds that a guest is served only by a thread that has
accepted it and not yet seen it go (`ServedByThread`): a thread that accepts has
then no guest, although any thread may have taken its path over. The exit event is
unset from set-up to the end of the session (`ExitFresh`). `ListenInv` needs no more
than that a thread which leaves its listener clears the path, whoever had bound it,
and resets its queue: a path that names a thread names one that listens.

### ItemSequences

The lemmas on concatenation, heads, tails and first parts that the proofs of the
channels share, and those on sequences without repetition (`Once`), for any set of
items. `VhostCanProofs` and `VhostConsoleProofs` instantiate it for frames,
messages, texts, control messages and characters.

## Only model-checked

Liveness under fairness is outside the prover's reach: `EchoReturned`,
`WokenByReap`, `RequestsAnswered`, `RxDrained`, `BusOffReported`, `OpsReturn`,
`HandshakeCompletes`, `TextPrinted`, `ListensAgain` and `SomebodyServed` are checked
on the instances above. Everything else the passing runs check is proved. The
properties of the violation runs are refuted, not proved; `InflightCounts` is both,
under different constants.

## Not modelled

Frame contents beyond the classes above (with two layouts of one frame there is
no conversion whose result could be stated), descriptor chains of the wrong
shape, the configuration space, statistics and logging; the abandoned reader threads; a
connection that its guest closes before it is accepted; the virtio core's device
status; weak memory (`tx_inflight` is an atomic and every other shared access is
locked or ordered by the ring's barriers).

## Plan

Every program of the repository has its modules, and every invariant, action
property and refinement that a passing run checks has its theorem. Candidates for
more, in this order:

1. the part of `QueueWoken` and `FramesForwarded` that holds, as safety: when a
   queue is stopped with nothing in flight, or a frame waits beside an unused
   buffer, which step got it there;
2. the hazard at `virtio_can.c:308` (a restart that starts the controller of an
   interface being closed) as a property of `VirtioCanRx`;
3. invariants under the liveness properties, such as that a returned buffer always
   has a poll, an interrupt or a recheck ahead of it; they say why a signal is not
   lost without needing fairness.

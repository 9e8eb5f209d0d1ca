---------------------------- MODULE VirtioCanTx ----------------------------
(***************************************************************************)
(* The transmit path of the virtio CAN driver (virtio_can.c): the          *)
(* start_xmit call that takes a socket buffer from the CAN stack, the      *)
(* echo slots and TX indices it allocates, the TX virtqueue, and the NAPI  *)
(* poll that reaps what the device has returned, together with the         *)
(* operations of the interface (open, close, restart after bus-off,        *)
(* freeze, restore, remove, probe) as far as they touch that state.        *)
(*                                                                         *)
(* start_xmit and the poll run on different CPUs.  Only the sections       *)
(* guarded by tx_lock are atomic, so every other access to shared state    *)
(* is a step of its own.  The device, the qdisc and the NAPI core are      *)
(* environment, modelled from the calls the driver makes.                  *)
(***************************************************************************)
EXTENDS Naturals, Sequences, FiniteSets

CONSTANTS
    Skbs,         \* socket buffers that circulate between stack and driver
    NoSkb,        \* an empty echo slot
    EchoSkbMax,   \* VIRTIO_CAN_ECHO_SKB_MAX: echo slots and TX indices
    VqSize,       \* vq->num_free of the TX queue when it is empty
    Indirect,     \* VIRTIO_RING_F_INDIRECT_DESC was negotiated
    Quota,        \* NAPI budget of one poll
    BurstMax,     \* frames the stack hands over in one burst
    AutoRestart,  \* restart-ms is set: the CAN core restarts after bus-off
    MemPressure,  \* GFP_ATOMIC allocations may fail
    PmSleep       \* CONFIG_PM_SLEEP: freeze and restore are compiled in

ASSUME TxAssumption ==
    /\ NoSkb \notin Skbs
    /\ EchoSkbMax \in Nat \ {0}
    /\ VqSize \in Nat /\ VqSize >= 2
    /\ Quota \in Nat \ {0}
    /\ BurstMax \in Nat \ {0}
    /\ Indirect \in BOOLEAN /\ AutoRestart \in BOOLEAN
    /\ MemPressure \in BOOLEAN /\ PmSleep \in BOOLEAN

\* The indices of tx_putidx_list and of the echo slots of the CAN core.
Idx == 0 .. (EchoSkbMax - 1)

\* A struct virtio_can_tx: its index, and the frame it carries in tx_out.
TxMsg == [putidx : Idx, skb : Skbs]

\* Definitions named X_Y are X with a slip of the kind Y that a property has
\* to notice; no specification uses them.

\* tx_limit[0] as virtio_can_probe computes it: one message needs one
\* descriptor with indirect descriptors and two without them.
TxSlots_NotHalved == VqSize
TxSlots == IF Indirect THEN VqSize ELSE VqSize \div 2
TxLimit_NoEchoBound == TxSlots
TxLimit == IF EchoSkbMax > TxSlots THEN TxSlots ELSE EchoSkbMax

\* Descriptors virtqueue_add_sgs takes for one out and one in buffer: the
\* indirect table is itself an atomic allocation, and without it the two
\* buffers are chained in the ring.
DescCosts == IF ~Indirect THEN {2} ELSE IF MemPressure THEN {1, 2} ELSE {1}

VARIABLES
    \* virtio_can_priv
    tx_putidx_free,  \* set of indices on the free list
    tx_inflight,     \* tx_inflight[0]
    tx_list,         \* set of messages on tx_list
    can_state,       \* priv->can.state
    bug,             \* a BUG_ON fired
    \* net_device and CAN core
    ifs,             \* what the interface is doing (see IfStates)
    restart,         \* the restart work of the CAN core
    was_up,          \* netif_running() across freeze and restore
    stopped,         \* netif_queue_stopped()
    echo,            \* echo_skb[] of the CAN core
    stack,           \* buffers owned by the stack (or free for it to use)
    \* the call of start_xmit in progress
    xpc,             \* its control point
    xskb, xidx,      \* its buffer and its TX index
    xbusy,           \* it returns NETDEV_TX_BUSY
    xmore,           \* frames of the burst that are still announced
    requeued,        \* the stack holds a frame it has to offer again
    torn,            \* virtio_can_del_vq freed the queue under a call: "no",
                     \* "now" (the call in progress) or "was" (an earlier one)
    \* the TX virtqueue and the device
    num_free,        \* free descriptors
    descs,           \* descriptors held by the message with that index
    avail,           \* messages the device may take
    seen,            \* those of them the device was notified of
    used,            \* messages the device returned, oldest first
    notify,          \* the device still has to look at the interrupt flag
    cb,              \* callbacks of the queue are enabled
    irq,             \* an interrupt of the queue is pending
    \* napi_tx
    napi,            \* "off", "idle" or "sched"
    missed,          \* NAPI_STATE_MISSED
    ppc,             \* control point of virtio_can_tx_poll
    work,            \* work_done
    recheck          \* virtqueue_poll after the end of a poll: "none", "due",
                     \* or "stale" when its queue has been deleted since

privVars == <<tx_putidx_free, tx_inflight, tx_list, bug>>
ifVars   == <<can_state, ifs, was_up, restart>>
xmitVars == <<xpc, xskb, xidx, xbusy, xmore, requeued, torn>>
vqVars   == <<num_free, descs, avail, seen, used>>
irqVars  == <<notify, cb, irq>>
pollVars == <<napi, missed, ppc, work, recheck>>
vars     == <<privVars, ifVars, stopped, echo, stack, xmitVars, vqVars,
              irqVars, pollVars>>

IfStates == {"down", "opening", "up", "closing", "flushing",
             "freezing", "frozen", "restoring", "removed"}

-----------------------------------------------------------------------------
(* virtio_can_probe: the state it leaves behind. *)

Init ==
    /\ tx_putidx_free = Idx
    /\ tx_inflight = 0
    /\ tx_list = {}
    /\ can_state = "STOPPED"
    /\ bug = FALSE
    /\ ifs = "down"
    /\ was_up = FALSE
    /\ restart = "none"
    /\ stopped = FALSE
    /\ echo = [i \in Idx |-> NoSkb]
    /\ stack = Skbs
    /\ xpc = "idle" /\ xskb = NoSkb /\ xidx = 0
    /\ xbusy = FALSE /\ xmore = 0 /\ requeued = FALSE
    /\ torn = "no"
    /\ num_free = VqSize
    /\ descs = [i \in Idx |-> 0]
    /\ avail = {} /\ seen = {} /\ used = <<>>
    /\ notify = FALSE /\ cb = TRUE /\ irq = FALSE
    /\ napi = "idle" /\ missed = FALSE
    /\ ppc = "none" /\ work = 0 /\ recheck = "none"

-----------------------------------------------------------------------------
(* virtio_can_start_xmit.  The stack calls it for one buffer at a time,    *)
(* while the queue is not stopped, and announces the other frames of a     *)
(* burst: netdev_xmit_more() is more > 0.                                  *)

\* virtio_can_restore starts the queue before it has finished.
Running == ifs = "up" \/ (ifs = "restoring" /\ was_up)

CanXmit(s, more) ==
    /\ xpc = "idle" /\ Running /\ ~stopped
    /\ s \in stack
    /\ Cardinality(stack) > more
    /\ xmore > 0 => more = xmore - 1

\* An invalid buffer or an error frame is freed and the call still
\* returns NETDEV_TX_OK.
XmitDrop(s, more) ==
    /\ CanXmit(s, more)
    /\ xpc' = "kick" /\ xmore' = more /\ requeued' = FALSE
    /\ UNCHANGED <<privVars, ifVars, stopped, echo, stack, xskb, xidx, xbusy,
                   torn, vqVars, irqVars, pollVars>>

\* kzalloc of the message failed: the call returns NETDEV_TX_OK and nobody
\* frees the buffer.
XmitNoMem(s, more) ==
    /\ MemPressure
    /\ CanXmit(s, more)
    /\ stack' = stack \ {s}
    /\ xpc' = "kick" /\ xmore' = more /\ requeued' = FALSE
    /\ UNCHANGED <<privVars, ifVars, stopped, echo, xskb, xidx, xbusy,
                   torn, vqVars, irqVars, pollVars>>

\* "No transmission slots are left": the counter is read without a lock.
NoSlotLeft_OffByOne == tx_inflight > TxLimit
NoSlotLeft == tx_inflight >= TxLimit

\* The message is built and tx_inflight is read for the first time.
XmitBegin(s, more) ==
    /\ CanXmit(s, more)
    /\ stack' = stack \ {s}
    /\ xskb' = s /\ xmore' = more /\ requeued' = FALSE
    /\ xpc' = IF NoSlotLeft THEN "full" ELSE "check"
    /\ UNCHANGED <<privVars, ifVars, stopped, echo, xidx, xbusy,
                   torn, vqVars, irqVars, pollVars>>

\* xmit_ret = NETDEV_TX_BUSY: the stack keeps the buffer.
ReturnBusy_Forgotten == UNCHANGED <<stack, xbusy>>
ReturnBusy == stack' = stack \cup {xskb} /\ xbusy' = TRUE

\* "All prios full": stop the queue.
XmitStopFull ==
    /\ xpc = "full"
    /\ stopped' = TRUE
    /\ ReturnBusy
    /\ xpc' = "kick"
    /\ UNCHANGED <<privVars, ifVars, echo, xskb, xidx, xmore,
                   requeued, torn, vqVars, irqVars, pollVars>>

\* The "normal queue stop": tx_inflight is read a second time.
XmitCheckSlots ==
    /\ xpc = "check"
    /\ stopped' = (stopped \/ NoSlotLeft)
    /\ xpc' = "alloc"
    /\ UNCHANGED <<privVars, ifVars, echo, stack, xskb, xidx, xbusy,
                   xmore, requeued, torn, vqVars, irqVars, pollVars>>

\* virtio_can_alloc_tx_idx and list_add_tail under tx_lock.  The free list
\* hands out any index; its order plays no role.
XmitAlloc ==
    /\ xpc = "alloc"
    /\ IF tx_inflight >= EchoSkbMax \/ tx_putidx_free = {}
       THEN /\ bug' = TRUE
            /\ UNCHANGED <<tx_putidx_free, tx_inflight, tx_list, xpc, xidx>>
       ELSE \E i \in tx_putidx_free :
            /\ tx_putidx_free' = tx_putidx_free \ {i}
            /\ tx_inflight' = tx_inflight + 1
            /\ tx_list' = tx_list \cup {[putidx |-> i, skb |-> xskb]}
            /\ xidx' = i
            /\ xpc' = "echo"
            /\ bug' = bug
    /\ UNCHANGED <<ifVars, stopped, echo, stack, xskb, xbusy,
                   xmore, requeued, torn, vqVars, irqVars, pollVars>>

\* can_put_echo_skb: an occupied slot keeps its buffer and the new one is
\* freed; the driver does not look at the result.
XmitPutEcho ==
    /\ xpc = "echo"
    /\ IF echo[xidx] = NoSkb
       THEN echo' = [echo EXCEPT ![xidx] = xskb] /\ stack' = stack
       ELSE echo' = echo /\ stack' = stack \cup {xskb}
    /\ xpc' = "add"
    /\ UNCHANGED <<privVars, ifVars, stopped, xskb, xidx, xbusy,
                   xmore, requeued, torn, vqVars, irqVars, pollVars>>

\* list_del of a message that is no longer in flight.
ListDel_Forgotten(m) == UNCHANGED tx_list
ListDel(m) == tx_list' = tx_list \ {m}

FreeTxIdx_NotCounted(i) ==
    /\ tx_putidx_free' = tx_putidx_free \cup {i}
    /\ UNCHANGED <<bug, tx_inflight>>

\* virtio_can_free_tx_idx; the callers hold tx_lock.
FreeTxIdx(i) ==
    /\ bug' = (bug \/ tx_inflight = 0)
    /\ tx_putidx_free' = tx_putidx_free \cup {i}
    /\ tx_inflight' = IF tx_inflight = 0 THEN 0 ELSE tx_inflight - 1

\* virtqueue_add_sgs succeeds.  A call whose queue was freed by a suspend
\* hands its message to whatever uses that memory now: the new queue, if
\* there is one,
XmitAdd ==
    /\ xpc = "add"
    /\ torn = "now" => ifs # "frozen"
    /\ \E c \in DescCosts :
        /\ num_free >= c
        /\ num_free' = num_free - c
        /\ descs' = [descs EXCEPT ![xidx] = c]
    /\ avail' = avail \cup {[putidx |-> xidx, skb |-> xskb]}
    /\ xpc' = "kick"
    /\ UNCHANGED <<privVars, ifVars, stopped, echo, stack, xskb, xidx, xbusy,
                   xmore, requeued, torn, seen, used, irqVars, pollVars>>

\* or nobody, and the message never enters a ring.
XmitAddLost ==
    /\ xpc = "add" /\ torn = "now"
    /\ xpc' = "kick"
    /\ UNCHANGED <<privVars, ifVars, stopped, echo, stack, xskb, xidx, xbusy,
                   xmore, requeued, torn, vqVars, irqVars, pollVars>>

\* virtqueue_add_sgs fails with -ENOSPC, or with anything when the queue was
\* freed: the message and its index are given back under tx_lock.
XmitAddFails ==
    /\ xpc = "add"
    /\ torn = "now" \/ \E c \in DescCosts : num_free < c
    /\ ListDel([putidx |-> xidx, skb |-> xskb])
    /\ FreeTxIdx(xidx)
    /\ xpc' = "nospace"
    /\ UNCHANGED <<ifVars, stopped, echo, stack, xskb, xidx, xbusy,
                   xmore, requeued, torn, vqVars, irqVars, pollVars>>

\* After the lock is released the queue is stopped and NETDEV_TX_BUSY returned.
XmitStopNoSpace ==
    /\ xpc = "nospace"
    /\ stopped' = TRUE
    /\ ReturnBusy
    /\ xpc' = "kick"
    /\ UNCHANGED <<privVars, ifVars, echo, xskb, xidx, xmore,
                   requeued, torn, vqVars, irqVars, pollVars>>

\* The kick label and the return.  A burst of the stack ends when the call
\* returned NETDEV_TX_BUSY or left the queue stopped; what is left of it is
\* offered again later.  A queue that was freed is perhaps not notified.
XmitKick ==
    /\ xpc = "kick"
    /\ \/ seen' = IF stopped \/ xmore = 0 THEN avail ELSE seen
       \/ torn = "now" /\ seen' = seen
    /\ torn' = IF torn = "no" THEN "no" ELSE "was"
    /\ xmore' = IF xbusy \/ stopped THEN 0 ELSE xmore
    /\ requeued' = (xbusy \/ (stopped /\ xmore > 0))
    /\ xpc' = "idle" /\ xskb' = NoSkb /\ xidx' = 0 /\ xbusy' = FALSE
    /\ UNCHANGED <<privVars, ifVars, stopped, echo, stack, num_free, descs,
                   avail, used, irqVars, pollVars>>

-----------------------------------------------------------------------------
(* The device and the interrupt of the queue. *)

\* The device returns a message, in any order.
DevUse(m) ==
    /\ m \in avail
    /\ avail' = avail \ {m}
    /\ seen' = seen \ {m}
    /\ used' = Append(used, m)
    /\ notify' = TRUE
    /\ UNCHANGED <<privVars, ifVars, stopped, echo, stack, xmitVars, num_free,
                   descs, cb, irq, pollVars>>

\* Only then it looks whether the driver wants an interrupt.
DevNotify ==
    /\ notify
    /\ notify' = FALSE
    /\ irq' = (irq \/ cb)
    /\ UNCHANGED <<privVars, ifVars, stopped, echo, stack, xmitVars, vqVars,
                   cb, pollVars>>

\* napi_schedule: a poll that is already scheduled, or disabled, is only
\* marked as missed.
NapiSchedule ==
    /\ napi' = IF napi = "idle" THEN "sched" ELSE napi
    /\ missed' = (missed \/ napi # "idle")

\* virtio_can_tx_intr; the ring core swallows an interrupt without used
\* buffers.
TxIntr ==
    /\ irq
    /\ irq' = FALSE
    /\ IF used = <<>>
       THEN UNCHANGED <<cb, napi, missed>>
       ELSE cb' = FALSE /\ NapiSchedule
    /\ UNCHANGED <<privVars, ifVars, stopped, echo, stack, xmitVars, vqVars,
                   notify, ppc, work, recheck>>

-----------------------------------------------------------------------------
(* virtio_can_tx_poll and virtio_can_read_tx_queue. *)

PollBegin ==
    /\ napi = "sched" /\ ppc = "none"
    /\ ppc' = "poll" /\ work' = 0
    /\ UNCHANGED <<privVars, ifVars, stopped, echo, stack, xmitVars, vqVars,
                   irqVars, napi, missed, recheck>>

\* can_get_echo_skb loops the buffer back; when the controller is not active,
\* can_free_echo_skb drops it.  Either way the slot is empty afterwards.
TakeEcho_OnlyActive(i) ==
    IF can_state = "ERROR_ACTIVE"
    THEN /\ stack' = stack \cup ({echo[i]} \ {NoSkb})
         /\ echo' = [echo EXCEPT ![i] = NoSkb]
    ELSE UNCHANGED <<stack, echo>>
TakeEcho(i) ==
    /\ stack' = stack \cup ({echo[i]} \ {NoSkb})
    /\ echo' = [echo EXCEPT ![i] = NoSkb]

\* One message is reaped under tx_lock: the echo is taken, then message and
\* index are given back.
PollRead ==
    /\ ppc = "poll" /\ work < Quota /\ used # <<>>
    /\ LET m == Head(used) IN
        /\ used' = Tail(used)
        /\ num_free' = num_free + descs[m.putidx]
        /\ descs' = [descs EXCEPT ![m.putidx] = 0]
        /\ TakeEcho(m.putidx)
        /\ ListDel(m)
        /\ FreeTxIdx(m.putidx)
    /\ ppc' = "wake" /\ work' = work + 1
    /\ UNCHANGED <<ifVars, stopped, xmitVars, avail, seen, irqVars,
                   napi, missed, recheck>>

\* Flow control, after tx_lock was released.
WakeQueue_Never == UNCHANGED stopped
WakeQueue == stopped' = FALSE

PollWake ==
    /\ ppc = "wake"
    /\ WakeQueue
    /\ ppc' = "poll"
    /\ UNCHANGED <<privVars, ifVars, echo, stack, xmitVars, vqVars, irqVars,
                   napi, missed, work, recheck>>

\* The budget is used up: the poll stays scheduled.
PollExhausted ==
    /\ ppc = "poll" /\ work = Quota
    /\ ppc' = "none"
    /\ UNCHANGED <<privVars, ifVars, stopped, echo, stack, xmitVars, vqVars,
                   irqVars, napi, missed, work, recheck>>

\* virtqueue_get_buf found nothing.
PollEmpty ==
    /\ ppc = "poll" /\ work < Quota /\ used = <<>>
    /\ ppc' = "enable"
    /\ UNCHANGED <<privVars, ifVars, stopped, echo, stack, xmitVars, vqVars,
                   irqVars, napi, missed, work, recheck>>

\* virtqueue_napi_complete: virtqueue_enable_cb_prepare,
PollEnableCb ==
    /\ ppc = "enable"
    /\ cb' = TRUE
    /\ ppc' = "complete"
    /\ UNCHANGED <<privVars, ifVars, stopped, echo, stack, xmitVars, vqVars,
                   notify, irq, napi, missed, work, recheck>>

\* then napi_complete_done, which refuses when a schedule was missed,
PollComplete ==
    /\ ppc = "complete"
    /\ ppc' = "none"
    /\ missed' = FALSE
    /\ napi' = IF missed THEN "sched" ELSE "idle"
    /\ recheck' = IF missed THEN recheck ELSE "due"
    /\ cb' = IF missed THEN FALSE ELSE cb
    /\ UNCHANGED <<privVars, ifVars, stopped, echo, stack, xmitVars, vqVars,
                   notify, irq, work>>

\* then virtqueue_poll and, if the device was faster, virtqueue_napi_schedule.
\* With the queue deleted meanwhile the answer means nothing.
VirtqueuePoll_Skipped == FALSE
VirtqueuePoll == used # <<>>

PollRecheck ==
    /\ recheck # "none"
    /\ recheck' = "none"
    /\ \E found \in IF recheck = "stale" THEN BOOLEAN ELSE {VirtqueuePoll} :
       IF found
       THEN /\ cb' = IF napi = "idle" THEN FALSE ELSE cb
            /\ NapiSchedule
       ELSE UNCHANGED <<cb, napi, missed>>
    /\ UNCHANGED <<privVars, ifVars, stopped, echo, stack, xmitVars, vqVars,
                   notify, irq, ppc, work>>

-----------------------------------------------------------------------------
(* Operations of the interface.  Each waits for the answer to a control    *)
(* message half way, so each is a pair of steps.                           *)

QuietXmit == xpc = "idle" /\ xmore = 0

\* virtio_can_open until virtio_can_start has its answer,
OpenStart ==
    /\ ifs = "down"
    /\ ifs' = "opening"
    /\ UNCHANGED <<privVars, can_state, was_up, restart, stopped, echo, stack,
                   xmitVars, vqVars, irqVars, pollVars>>

\* and after it: netif_start_queue.
OpenDone ==
    /\ ifs = "opening"
    /\ ifs' = "up"
    /\ can_state' = "ERROR_ACTIVE"
    /\ stopped' = FALSE
    /\ UNCHANGED <<privVars, was_up, restart, echo, stack, xmitVars, vqVars,
                   irqVars, pollVars>>

\* virtio_can_close: the stack no longer transmits when it is called.
CloseStop ==
    /\ ifs = "up" /\ QuietXmit
    /\ ifs' = "closing"
    /\ stopped' = TRUE
    /\ requeued' = FALSE
    /\ UNCHANGED <<privVars, can_state, was_up, restart, echo, stack, xpc, xskb,
                   xidx, xbusy, xmore, torn, vqVars, irqVars, pollVars>>

\* virtio_can_stop has its answer.
CloseAnswer ==
    /\ ifs = "closing"
    /\ ifs' = "flushing"
    /\ can_state' = "STOPPED"
    /\ UNCHANGED <<privVars, was_up, restart, stopped, echo, stack, xmitVars,
                   vqVars, irqVars, pollVars>>

\* can_flush_echo_skb of the CAN core.
FlushEcho ==
    /\ echo' = [i \in Idx |-> NoSkb]
    /\ stack' = stack \cup ({echo[i] : i \in Idx} \ {NoSkb})

\* close_candev waits for a restart that is running or cancels it, and
\* flushes the echo slots.
CloseDone ==
    /\ ifs = "flushing" /\ restart # "running"
    /\ ifs' = "down"
    /\ restart' = "none"
    /\ FlushEcho
    /\ UNCHANGED <<privVars, can_state, was_up, stopped, xmitVars, vqVars,
                   irqVars, pollVars>>

\* Not in the middle of suspend, resume or removal: no work of the CAN core
\* is assumed to run then.
Awake == ifs \in {"down", "opening", "up", "closing", "flushing"}

\* virtio_can_handle_busoff, from the receive poll; can_bus_off queues the
\* restart work.
BusOff ==
    /\ can_state = "ERROR_ACTIVE" /\ Awake
    /\ can_state' = "BUS_OFF"
    /\ restart' = IF AutoRestart /\ restart = "none" THEN "queued" ELSE restart
    /\ UNCHANGED <<privVars, ifs, was_up, stopped, echo, stack, xmitVars,
                   vqVars, irqVars, pollVars>>

\* can_restart of the CAN core flushes the echo slots, also while the
\* interface is being closed,
RestartFlush ==
    /\ restart = "queued" /\ Awake
    /\ restart' = "running"
    /\ FlushEcho
    /\ UNCHANGED <<privVars, can_state, ifs, was_up, stopped, xmitVars, vqVars,
                   irqVars, pollVars>>

\* then calls virtio_can_set_mode(CAN_MODE_START).
SetModeStart ==
    /\ restart = "running" /\ Awake
    /\ restart' = "none"
    /\ can_state' = "ERROR_ACTIVE"
    /\ stopped' = FALSE
    /\ UNCHANGED <<privVars, ifs, was_up, echo, stack, xmitVars, vqVars,
                   irqVars, pollVars>>

\* virtio_can_freeze: napi_disable waits for the poll, then the interface is
\* detached and the controller told to stop.  Nothing waits for a call of
\* start_xmit.
FreezeStart ==
    /\ PmSleep
    /\ ifs \in {"up", "down"} /\ restart # "running"
    /\ napi = "idle" /\ ppc = "none"
    /\ napi' = "off"
    /\ was_up' = (ifs = "up")
    /\ stopped' = (stopped \/ ifs = "up")
    /\ ifs' = "freezing"
    /\ UNCHANGED <<privVars, can_state, restart, echo, stack, xmitVars, vqVars,
                   irqVars, missed, ppc, work, recheck>>

\* virtio_can_find_vqs: an empty queue with callbacks enabled.
FindVq ==
    /\ num_free' = VqSize
    /\ descs' = [i \in Idx |-> 0]
    /\ avail' = {} /\ seen' = {} /\ used' = <<>>
    /\ notify' = FALSE /\ cb' = TRUE /\ irq' = FALSE

\* virtio_can_del_vq: the device is reset, the queue emptied, the messages on
\* tx_list are freed.
DelVq_KeepsBuffers ==
    /\ tx_list' = {}
    /\ UNCHANGED <<vqVars, irqVars, recheck>>
DelVq ==
    /\ FindVq
    /\ tx_list' = {}
    /\ recheck' = IF recheck = "none" THEN "none" ELSE "stale"

\* The stop message is answered, or was not needed.  A call of start_xmit may
\* still be under way: its queue is freed under it, and its message too if it
\* is on tx_list.  The stack keeps what is left of a burst.
FreezeDone ==
    /\ ifs = "freezing"
    /\ ifs' = "frozen"
    /\ can_state' = "SLEEPING"
    /\ DelVq
    /\ IF xpc = "idle"
       THEN /\ xmore' = 0 /\ requeued' = (requeued \/ xmore > 0)
            /\ torn' = torn
       ELSE /\ torn' = "now"
            /\ UNCHANGED <<xmore, requeued>>
    /\ UNCHANGED <<tx_putidx_free, tx_inflight, bug, was_up, restart, stopped,
                   echo, stack, xpc, xskb, xidx, xbusy, napi, missed, ppc, work>>

\* virtio_can_restore until the queue is started again,
RestoreStart ==
    /\ ifs = "frozen"
    /\ can_state' = "ERROR_ACTIVE"
    /\ stopped' = (stopped /\ ~was_up)
    /\ ifs' = "restoring"
    /\ UNCHANGED <<privVars, was_up, restart, echo, stack, xmitVars, vqVars,
                   irqVars, pollVars>>

\* and napi_enable.
RestoreDone ==
    /\ ifs = "restoring"
    /\ napi' = "idle"
    /\ ifs' = IF was_up THEN "up" ELSE "down"
    /\ was_up' = FALSE
    /\ UNCHANGED <<privVars, can_state, restart, stopped, echo, stack, xmitVars,
                   vqVars, irqVars, missed, ppc, work, recheck>>

\* virtio_can_remove: unregister_candev has closed the interface; the private
\* data is freed.  Nothing waits for a poll.
Remove ==
    /\ ifs = "down"
    /\ ifs' = "removed"
    /\ DelVq
    /\ UNCHANGED <<tx_putidx_free, tx_inflight, bug, can_state, was_up, restart,
                   stopped, echo, stack, xmitVars, napi, missed, ppc, work>>

\* virtio_can_probe on a device that was removed before.
Probe ==
    /\ ifs = "removed"
    /\ tx_putidx_free' = Idx
    /\ tx_inflight' = 0
    /\ tx_list' = {}
    /\ FindVq
    /\ can_state' = "STOPPED"
    /\ ifs' = "down"
    /\ restart' = "none"
    /\ stopped' = FALSE
    /\ echo' = [i \in Idx |-> NoSkb]
    /\ napi' = "idle" /\ missed' = FALSE
    /\ ppc' = "none" /\ work' = 0 /\ recheck' = "none"
    /\ UNCHANGED <<bug, was_up, stack, xmitVars>>

-----------------------------------------------------------------------------
Xmit == XmitStopFull \/ XmitCheckSlots \/ XmitAlloc \/ XmitPutEcho \/ XmitAdd
        \/ XmitAddLost \/ XmitAddFails \/ XmitStopNoSpace \/ XmitKick

Poll == PollBegin \/ PollRead \/ PollWake \/ PollExhausted \/ PollEmpty
        \/ PollEnableCb \/ PollComplete

XmitCall == \E s \in Skbs, more \in 0 .. BurstMax - 1 :
                XmitDrop(s, more) \/ XmitNoMem(s, more) \/ XmitBegin(s, more)

Interface == OpenStart \/ OpenDone \/ CloseStop \/ CloseAnswer \/ CloseDone
             \/ BusOff \/ RestartFlush \/ SetModeStart \/ FreezeStart \/ FreezeDone
             \/ RestoreStart \/ RestoreDone \/ Remove \/ Probe

Next ==
    \/ XmitCall
    \/ Xmit
    \/ \E m \in avail : DevUse(m)
    \/ DevNotify
    \/ TxIntr
    \/ Poll
    \/ PollRecheck
    \/ Interface

Spec == Init /\ [][Next]_vars

-----------------------------------------------------------------------------
(* Fairness.  Softirqs, interrupts and a call that has been started go on;  *)
(* the stack delivers the frames it announced or got back; the device       *)
(* answers control messages and returns every message it was notified of.   *)
(* Nobody is obliged to open, close, suspend or remove the interface, or to *)
(* send anything.                                                           *)

StackContinues == (xmore > 0 \/ requeued) /\ XmitCall
DevServes(i)   == \E m \in seen : m.putidx = i /\ DevUse(m)
Answered       == OpenDone \/ CloseAnswer \/ CloseDone \/ SetModeStart
                  \/ FreezeDone \/ RestoreDone

Fairness ==
    /\ WF_vars(Xmit \/ StackContinues)
    /\ \A i \in Idx : WF_vars(DevServes(i))
    /\ WF_vars(DevNotify \/ TxIntr \/ Poll \/ PollRecheck)
    /\ WF_vars(Answered)

FairSpec == Spec /\ Fairness

-----------------------------------------------------------------------------
(* Properties. *)

MaybeSkb == Skbs \cup {NoSkb}

FlagsOK ==
    /\ bug \in BOOLEAN
    /\ was_up \in BOOLEAN
    /\ stopped \in BOOLEAN
    /\ xbusy \in BOOLEAN
    /\ requeued \in BOOLEAN
    /\ notify \in BOOLEAN
    /\ cb \in BOOLEAN
    /\ irq \in BOOLEAN
    /\ missed \in BOOLEAN

DataOK ==
    /\ tx_putidx_free \subseteq Idx
    /\ tx_inflight \in 0 .. TxLimit
    /\ tx_list \subseteq TxMsg
    /\ can_state \in {"ERROR_ACTIVE", "BUS_OFF", "STOPPED", "SLEEPING"}
    /\ ifs \in IfStates
    /\ restart \in {"none", "queued", "running"}
    /\ echo \in [Idx -> MaybeSkb]
    /\ stack \subseteq Skbs
    /\ xpc \in {"idle", "full", "check", "alloc", "echo", "add", "nospace",
                "kick"}
    /\ xskb \in MaybeSkb
    /\ xidx \in Idx
    /\ xmore \in 0 .. BurstMax - 1
    /\ torn \in {"no", "now", "was"}
    /\ num_free \in Nat
    /\ descs \in [Idx -> 0 .. 2]
    /\ avail \subseteq TxMsg
    /\ seen \subseteq TxMsg
    /\ used \in Seq(TxMsg)
    /\ napi \in {"off", "idle", "sched"}
    /\ ppc \in {"none", "poll", "wake", "enable", "complete"}
    /\ work \in 0 .. Quota
    /\ recheck \in {"none", "due", "stale"}

\* Every variable has its type; in particular tx_inflight never exceeds
\* tx_limit, although start_xmit checks it outside tx_lock and increments
\* it inside.
TypeOK == FlagsOK /\ DataOK

\* No BUG_ON of alloc_tx_idx, free_tx_idx or start_xmit fires, whatever the
\* interleaving of the transmit call, the poll and the interface operations.
NoBugOn == ~bug

\* Every index is either on the free list or counted in tx_inflight.
SlotAccounting == tx_inflight + Cardinality(tx_putidx_free) = EchoSkbMax

\* What the TX virtqueue holds: messages of the device and returned ones.
Ring == avail \cup {used[k] : k \in DOMAIN used}

\* No two messages on tx_list or in the ring use the same index, none of them
\* uses an index alloc_tx_idx could hand out again, and the device has or
\* returns each once: the poll names the echo slot by the index, so sharing
\* would mix up two echoes.  This holds even for a message that a suspend
\* freed under its call and that reaches the ring nevertheless.
IndexExclusive ==
    /\ \A m \in tx_list \cup Ring :
        /\ m.putidx \notin tx_putidx_free
        /\ \A n \in tx_list \cup Ring : n.putidx = m.putidx => n = m
    /\ \A k \in DOMAIN used :
        /\ used[k] \notin avail
        /\ \A l \in DOMAIN used : used[k] = used[l] => k = l

\* Until virtio_can_freeze deletes the queue under a running start_xmit, which
\* nothing in it waits for, what the ring holds is on tx_list: no message the
\* device may still write to has been freed.
RingBacked == torn = "no" => Ring \subseteq tx_list

\* The limit computed by virtio_can_probe is strict enough: as long as the
\* indirect tables can be allocated, virtqueue_add_sgs always finds room,
\* unless its queue was freed under the call.
NoEnospc == ~MemPressure => (xpc = "nospace" => torn = "now")

\* "In flight TX messages per prio": tx_inflight counts the messages on
\* tx_list.
InflightCounts == ifs # "removed" => tx_inflight = Cardinality(tx_list)

\* "Push loopback echo. Will be looped back on TX interrupt/TX NAPI": the
\* index of an occupied echo slot is not handed out again, and the message
\* that is reaped under it is the one the buffer was pushed for, even after
\* flushes, restarts and suspends left messages without echo and echoes
\* without message.  (When virtqueue_add_sgs fails, for want of memory or
\* because a suspend freed its queue, start_xmit gives the index back and
\* leaves the echo in its slot.)
EchoLoopedBack ==
    ~MemPressure /\ torn = "no" =>
        \A i \in Idx : echo[i] # NoSkb =>
            /\ i \notin tx_putidx_free
            /\ \A m \in tx_list : m.putidx = i => m.skb = echo[i]

InCall == IF xpc \in {"full", "check", "alloc", "echo"} THEN {xskb} ELSE {}

Owners(s) ==
    {o \in {"stack"} : s \in stack} \cup {o \in {"call"} : s \in InCall}
    \cup {i \in Idx : echo[i] = s}

\* Every buffer has one owner: the stack, the call in progress, or one echo
\* slot.  None leaks and none is freed twice, unless an allocation fails or a
\* suspend cuts a call (start_xmit then keeps the buffer, or returns it and
\* keeps its echo).
SkbOwnedOnce ==
    ~MemPressure /\ torn = "no" =>
        \A s \in Skbs : Cardinality(Owners(s)) = 1

\* "From here we have dead silence from the device side so no locks are
\* needed": once virtio_can_del_vq has run, no poll works on the queue.
DeadSilence == ifs \in {"frozen", "removed"} => ppc = "none"

\* The echo of every accepted frame leaves its slot: it is looped back, or
\* flushed with the interface.  No lost kick, interrupt, poll or recheck
\* leaves a frame in the ring for ever.
EchoReturned == \A i \in Idx : echo[i] # NoSkb ~> echo[i] = NoSkb

\* While a frame is in flight, a stopped queue is started again by the poll
\* that reaps it, or the interface goes down.
WokenByReap ==
    (stopped /\ ifs = "up" /\ tx_inflight > 0) ~> (~stopped \/ ifs # "up")

\* "TX ACK: Wake up stopped queue": a queue that was stopped because it was
\* full is started again, or the interface goes down.
QueueWoken == (stopped /\ ifs = "up") ~> (~stopped \/ ifs # "up")
=============================================================================

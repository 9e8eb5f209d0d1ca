---------------------------- MODULE VirtioCanRx ----------------------------
(***************************************************************************)
(* The other three queues of the virtio CAN driver (virtio_can.c): the     *)
(* receive queue with its NAPI poll, the indication queue by which the     *)
(* device reports bus-off, and the control queue by which the driver       *)
(* starts and stops the controller.                                        *)
(*                                                                         *)
(* Four contexts run side by side: the receive poll, the indication        *)
(* interrupt, the holder of the rtnl lock (open, close, suspend, resume)   *)
(* and the restart work of the CAN core.  can.state and busoff_pending are *)
(* shared by all of them without a lock, so the accesses are steps of      *)
(* their own.  The carrier, which only the stack looks at, is left out,    *)
(* and the device sends no indication but bus-off: others are put back     *)
(* unread.                                                                 *)
(***************************************************************************)
EXTENDS Naturals, Sequences

CONSTANTS
    RxBufs,       \* rpkt: receive buffers that fit into the ring
    MaxFrames,    \* bound: frames the device receives
    MaxBusOffs,   \* bound: times the controller goes bus-off
    MaxOps,       \* bound: times the interface is opened, closed or suspended
    BadFrames,    \* those the driver does not accept (type, flags, features)
    Quota,        \* NAPI budget of one poll
    DoneMax,      \* bound: value at which the counter of ctrl_done stays
    AutoRestart,  \* restart-ms is set: the CAN core restarts after bus-off
    ReportFails,  \* the error frame of a bus-off may find no socket buffer, or
                  \* the stack may drop it
    PmSleep       \* CONFIG_PM_SLEEP

ASSUME RxAssumption ==
    /\ MaxFrames \in Nat /\ BadFrames \subseteq 1 .. MaxFrames
    /\ MaxBusOffs \in Nat /\ MaxOps \in Nat
    /\ Quota \in Nat \ {0} /\ DoneMax \in Nat \ {0}
    /\ AutoRestart \in BOOLEAN /\ ReportFails \in BOOLEAN /\ PmSleep \in BOOLEAN

Frames == 1 .. MaxFrames

\* Who may send control messages: the holder of rtnl and the restart work.
Threads == {"rtnl", "work"}

\* enum can_state, in its order.
CanStates == {"ERROR_ACTIVE", "BUS_OFF", "STOPPED", "SLEEPING"}

VARIABLES
    can_state,       \* priv->can.state
    busoff_pending,  \* priv->busoff_pending
    ifs,             \* the interface: "down", "up" or "frozen"
    was_up,          \* netif_running() across freeze and restore
    restart,         \* the restart work of the CAN core is queued
    \* control queue
    op,              \* per thread, the operation it executes
    tpc,             \* per thread, its control point
    ctrl_lock,       \* set of the holder
    ctrl_done,       \* count of the completion
    ctrl_out,        \* control messages the device may read, with their sender
    ctrl_used,       \* senders whose message was returned
    ctrl_irq,        \* interrupt pending
    \* receive queue
    avail, used,     \* buffers of the device; [buf, frame] it returned
    notify, cb, irq, \* interrupt suppression, as in VirtioCanTx
    received,        \* number of frames the device has received
    delivered,       \* frames handed to the stack
    dropped,         \* frames given up
    \* NAPI
    napi, missed,
    recheck,         \* virtqueue_poll after the end of a poll: "none", "due",
                     \* or "stale" when the queue is deleted meanwhile
    rpc,             \* control point of virtio_can_rx_poll
    work,            \* work_done
    \* indication queue
    ind,             \* ipkt[0]: "device", "used" or "driver"
    ind_irq,         \* interrupt pending
    ipc,             \* control point of virtio_can_evind_intr
    \* the device
    dev,             \* "stopped", "started" or "busoff"
    dev_tell,        \* a bus-off still to be indicated
    busoffs, ops     \* counters for the bounds

ctrlVars == <<ctrl_lock, ctrl_done, ctrl_out, ctrl_used, ctrl_irq>>
opVars   == <<ops, ifs, was_up, op, tpc>>
rxVars   == <<avail, used, notify, irq, received, delivered, dropped>>
napiVars == <<napi, missed, recheck, rpc, work, cb>>
indVars  == <<ind, ind_irq, ipc>>
devVars  == <<busoffs, dev, dev_tell>>
vars     == <<can_state, busoff_pending, restart, ctrlVars, opVars, rxVars,
              napiVars, indVars, devVars>>

-----------------------------------------------------------------------------
(* virtio_can_probe: populated queues, NAPI enabled. *)

Init ==
    /\ can_state = "STOPPED" /\ busoff_pending = FALSE
    /\ ifs = "down" /\ was_up = FALSE /\ restart = FALSE
    /\ op = [t \in Threads |-> "none"] /\ tpc = [t \in Threads |-> "idle"]
    /\ ctrl_lock = {} /\ ctrl_done = 0
    /\ ctrl_out = <<>> /\ ctrl_used = {} /\ ctrl_irq = FALSE
    /\ avail = RxBufs /\ used = <<>>
    /\ notify = FALSE /\ cb = TRUE /\ irq = FALSE
    /\ received = 0 /\ delivered = <<>> /\ dropped = {}
    /\ napi = "idle" /\ missed = FALSE /\ recheck = "none"
    /\ rpc = "none" /\ work = 0
    /\ ind = "device" /\ ind_irq = FALSE /\ ipc = "none"
    /\ dev = "stopped" /\ dev_tell = FALSE
    /\ busoffs = 0 /\ ops = 0

-----------------------------------------------------------------------------
(* virtio_can_send_ctrl_msg: START is sent by open, restart and restore,   *)
(* STOP by close and freeze.  The result is only logged.  Definitions      *)
(* named X_Y are X with a slip of the kind Y that a property has to        *)
(* notice; no specification uses them.                                     *)

MsgOf(t) == IF op[t] \in {"close", "freeze"} THEN "STOP" ELSE "START"

LockCtrl_NotHeld(t) == UNCHANGED ctrl_lock
LockCtrl(t) == ctrl_lock = {} /\ ctrl_lock' = {t}

CtrlSend(t) ==
    /\ tpc[t] = "send"
    /\ LockCtrl(t)
    /\ ctrl_out' = Append(ctrl_out, [from |-> t, msg |-> MsgOf(t)])
    /\ tpc' = [tpc EXCEPT ![t] = "poll"]
    /\ UNCHANGED <<ops, can_state, busoff_pending, restart, ctrl_done,
                   ctrl_used, ctrl_irq, ifs, was_up, op, rxVars, napiVars,
                   indVars, devVars>>

\* virtqueue_get_buf: the answer, and mutex_unlock; or nothing yet.
CtrlGetBuf(t) ==
    /\ tpc[t] = "poll"
    /\ IF ctrl_used = {}
       THEN /\ tpc' = [tpc EXCEPT ![t] = "wait"]
            /\ UNCHANGED <<ctrl_used, ctrl_lock>>
       ELSE /\ \E u \in ctrl_used : ctrl_used' = ctrl_used \ {u}
            /\ ctrl_lock' = ctrl_lock \ {t}
            /\ tpc' = [tpc EXCEPT ![t] = "answered"]
    /\ UNCHANGED <<ops, can_state, busoff_pending, restart, ctrl_done,
                   ctrl_out, ctrl_irq, ifs, was_up, op, rxVars, napiVars,
                   indVars, devVars>>

\* wait_for_completion
CtrlWait(t) ==
    /\ tpc[t] = "wait" /\ ctrl_done > 0
    /\ ctrl_done' = ctrl_done - 1
    /\ tpc' = [tpc EXCEPT ![t] = "poll"]
    /\ UNCHANGED <<ops, can_state, busoff_pending, restart, ctrl_lock,
                   ctrl_out, ctrl_used, ctrl_irq, ifs, was_up, op, rxVars,
                   napiVars, indVars, devVars>>

Complete_Forgotten == UNCHANGED ctrl_done
Complete ==
    ctrl_done' = IF ctrl_done < DoneMax THEN ctrl_done + 1 ELSE ctrl_done

\* virtio_can_control_intr; the ring core swallows an interrupt without used
\* buffers.
ControlIntr ==
    /\ ctrl_irq
    /\ ctrl_irq' = FALSE
    /\ IF ctrl_used = {} THEN UNCHANGED ctrl_done ELSE Complete
    /\ UNCHANGED <<can_state, busoff_pending, restart, ctrl_lock, ctrl_out,
                   ctrl_used, opVars, rxVars, napiVars, indVars, devVars>>

\* The device obeys; START ends a bus-off.
DevCtrl ==
    /\ ctrl_out # <<>>
    /\ ctrl_out' = Tail(ctrl_out)
    /\ ctrl_used' = ctrl_used \cup {Head(ctrl_out).from}
    /\ ctrl_irq' = TRUE
    /\ dev' = IF Head(ctrl_out).msg = "START" THEN "started" ELSE "stopped"
    /\ dev_tell' = FALSE
    /\ UNCHANGED <<busoffs, can_state, busoff_pending, restart, ctrl_lock,
                   ctrl_done, opVars, rxVars, napiVars, indVars>>

-----------------------------------------------------------------------------
(* virtio_can_open, virtio_can_close, virtio_can_set_mode, virtio_can_start, *)
(* virtio_can_stop, virtio_can_freeze and virtio_can_restore.                *)

\* A thread starts an operation and sends a control message first.
Begin(t, o) ==
    /\ op[t] = "none"
    /\ op' = [op EXCEPT ![t] = o]
    /\ tpc' = [tpc EXCEPT ![t] = "send"]

Counted == ops < MaxOps /\ ops' = ops + 1

Open ==
    /\ ifs = "down" /\ Begin("rtnl", "open") /\ Counted
    /\ UNCHANGED <<can_state, busoff_pending, restart, ctrlVars, ifs, was_up,
                   rxVars, napiVars, indVars, devVars>>

Close ==
    /\ ifs = "up" /\ Begin("rtnl", "close") /\ Counted
    /\ UNCHANGED <<can_state, busoff_pending, restart, ctrlVars, ifs, was_up,
                   rxVars, napiVars, indVars, devVars>>

\* can_restart of the CAN core calls virtio_can_set_mode(CAN_MODE_START).
\* Its timer is assumed not to expire while the system sleeps.
RestartWork ==
    /\ restart /\ ifs # "frozen" /\ op["rtnl"] # "freeze"
    /\ Begin("work", "restart")
    /\ restart' = FALSE
    /\ UNCHANGED <<ops, can_state, busoff_pending, ctrlVars, ifs, was_up,
                   rxVars, napiVars, indVars, devVars>>

\* After the answer virtio_can_start and virtio_can_stop reset
\* busoff_pending,
ResetPending(t) ==
    /\ tpc[t] = "answered"
    /\ busoff_pending' = FALSE
    /\ tpc' = [tpc EXCEPT ![t] = "state"]
    /\ UNCHANGED <<ops, can_state, restart, ctrlVars, ifs, was_up, op, rxVars,
                   napiVars, indVars, devVars>>

\* and then set can.state.
SetState(t) ==
    /\ tpc[t] = "state"
    /\ can_state' = IF MsgOf(t) = "START" THEN "ERROR_ACTIVE" ELSE "STOPPED"
    /\ tpc' = [tpc EXCEPT ![t] = "finish"]
    /\ UNCHANGED <<ops, busoff_pending, restart, ctrlVars, ifs, was_up, op,
                   rxVars, napiVars, indVars, devVars>>

End(t) ==
    /\ op' = [op EXCEPT ![t] = "none"]
    /\ tpc' = [tpc EXCEPT ![t] = "idle"]

OpenDone ==
    /\ tpc["rtnl"] = "finish" /\ op["rtnl"] = "open" /\ End("rtnl")
    /\ ifs' = "up"
    /\ UNCHANGED <<ops, can_state, busoff_pending, restart, ctrlVars, was_up,
                   rxVars, napiVars, indVars, devVars>>

\* close_candev cancels the restart work, or waits for it.
CloseDone ==
    /\ tpc["rtnl"] = "finish" /\ op["rtnl"] = "close" /\ op["work"] = "none"
    /\ End("rtnl")
    /\ ifs' = "down" /\ restart' = FALSE
    /\ UNCHANGED <<ops, can_state, busoff_pending, ctrlVars, was_up, rxVars,
                   napiVars, indVars, devVars>>

RestartDone ==
    /\ tpc["work"] = "finish" /\ End("work")
    /\ UNCHANGED <<ops, can_state, busoff_pending, restart, ctrlVars, ifs,
                   was_up, rxVars, napiVars, indVars, devVars>>

\* virtio_can_freeze: napi_disable waits for the poll, and not for the look at
\* the queue that follows its end.
Freeze ==
    /\ PmSleep /\ Counted
    /\ ifs \in {"up", "down"} /\ op["rtnl"] = "none" /\ op["work"] = "none"
    /\ napi = "idle" /\ rpc = "none"
    /\ napi' = "off"
    /\ was_up' = (ifs = "up")
    /\ op' = [op EXCEPT !["rtnl"] = "freeze"]
    /\ tpc' = [tpc EXCEPT !["rtnl"] = IF ifs = "up" THEN "send" ELSE "finish"]
    /\ UNCHANGED <<can_state, busoff_pending, restart, ctrlVars, ifs, rxVars,
                   missed, recheck, rpc, work, cb, indVars, devVars>>

\* CAN_STATE_SLEEPING and virtio_can_del_vq, which resets the device: no
\* interrupt is pending and no handler is running after the reset.
FreezeDone ==
    /\ tpc["rtnl"] = "finish" /\ op["rtnl"] = "freeze" /\ ipc = "none"
    /\ End("rtnl")
    /\ ifs' = "frozen" /\ can_state' = "SLEEPING"
    /\ notify' = FALSE /\ irq' = FALSE /\ ind_irq' = FALSE /\ ctrl_irq' = FALSE
    /\ dev' = "stopped" /\ dev_tell' = FALSE
    /\ recheck' = IF recheck = "none" THEN "none" ELSE "stale"
    /\ UNCHANGED <<busoffs, ops, busoff_pending, restart, ctrl_lock, ctrl_done,
                   ctrl_out, ctrl_used, was_up, avail, used, received,
                   delivered, dropped, napi, missed, rpc, work, cb, ind, ipc>>

\* virtio_can_find_vqs and virtio_can_populate_vqs: every buffer is posted
\* again, and what the old queues held unread is lost.
PopulateVqs ==
    /\ avail' = RxBufs /\ used' = <<>> /\ cb' = TRUE
    /\ dropped' = dropped \cup {used[k].frame : k \in DOMAIN used}
    /\ ind' = "device"

\* virtio_can_restore: can.state is set before the controller is started,
Restore ==
    /\ ifs = "frozen" /\ op["rtnl"] = "none"
    /\ PopulateVqs
    /\ can_state' = "ERROR_ACTIVE"
    /\ op' = [op EXCEPT !["rtnl"] = "restore"]
    /\ tpc' = [tpc EXCEPT !["rtnl"] = IF was_up THEN "send" ELSE "finish"]
    /\ UNCHANGED <<ops, busoff_pending, restart, ctrlVars, ifs, was_up, notify,
                   irq, received, delivered, napi, missed, recheck, rpc, work,
                   ind_irq, ipc, devVars>>

\* and NAPI is enabled after it; napi_enable schedules nothing.
RestoreDone ==
    /\ tpc["rtnl"] = "finish" /\ op["rtnl"] = "restore" /\ End("rtnl")
    /\ ifs' = IF was_up THEN "up" ELSE "down"
    /\ was_up' = FALSE
    /\ napi' = "idle"
    /\ UNCHANGED <<ops, can_state, busoff_pending, restart, ctrlVars, rxVars,
                   missed, recheck, rpc, work, cb, indVars, devVars>>

-----------------------------------------------------------------------------
(* The device, and the receive interrupt. *)

\* A frame from the bus goes into any buffer the device has.
DevRx ==
    /\ dev = "started" /\ received < MaxFrames
    /\ received' = received + 1
    /\ \E b \in avail :
        /\ avail' = avail \ {b}
        /\ used' = Append(used, [buf |-> b, frame |-> received + 1])
    /\ notify' = TRUE
    /\ UNCHANGED <<can_state, busoff_pending, restart, ctrlVars, opVars, irq,
                   delivered, dropped, napiVars, indVars, devVars>>

\* It looks at the suppression flag after it has returned a buffer.
DevNotify ==
    /\ notify
    /\ notify' = FALSE
    /\ irq' = (irq \/ cb)
    /\ UNCHANGED <<can_state, busoff_pending, restart, ctrlVars, opVars, avail,
                   used, received, delivered, dropped, napiVars, indVars,
                   devVars>>

\* A controller that goes bus-off tells so as soon as it has a buffer for it.
DevBusOff ==
    /\ dev = "started" /\ busoffs < MaxBusOffs
    /\ busoffs' = busoffs + 1
    /\ dev' = "busoff" /\ dev_tell' = TRUE
    /\ UNCHANGED <<can_state, busoff_pending, restart, ctrlVars, opVars,
                   rxVars, napiVars, indVars>>

DevIndicate ==
    /\ dev_tell /\ ind = "device"
    /\ dev_tell' = FALSE
    /\ ind' = "used" /\ ind_irq' = TRUE
    /\ UNCHANGED <<busoffs, can_state, busoff_pending, restart, ctrlVars,
                   opVars, rxVars, napiVars, ipc, dev>>

\* napi_schedule: a poll that is already scheduled, or disabled, is only
\* marked as missed.
NapiSchedule ==
    /\ napi' = IF napi = "idle" THEN "sched" ELSE napi
    /\ missed' = (missed \/ napi # "idle")

\* virtio_can_rx_intr
RxIntr ==
    /\ irq
    /\ irq' = FALSE
    /\ IF used = <<>>
       THEN UNCHANGED <<cb, napi, missed>>
       ELSE cb' = FALSE /\ NapiSchedule
    /\ UNCHANGED <<can_state, busoff_pending, restart, ctrlVars, opVars, avail,
                   used, notify, received, delivered, dropped, recheck, rpc,
                   work, indVars, devVars>>

-----------------------------------------------------------------------------
(* virtio_can_evind_intr.  It is not interrupted by itself. *)

\* virtqueue_get_buf and the look at busoff_pending.
GetInd ==
    IF ind = "used"
    THEN ind' = "driver" /\ ipc' = IF busoff_pending THEN "putback" ELSE "state"
    ELSE ipc' = "none" /\ UNCHANGED ind

EvindIntr ==
    /\ ind_irq /\ ipc = "none"
    /\ ind_irq' = FALSE
    /\ GetInd
    /\ UNCHANGED <<can_state, busoff_pending, restart, ctrlVars, opVars,
                   rxVars, napiVars, devVars>>

EvindAgain ==
    /\ ipc = "get"
    /\ GetInd
    /\ UNCHANGED <<can_state, busoff_pending, restart, ctrlVars, opVars,
                   rxVars, napiVars, ind_irq, devVars>>

EvindState ==
    /\ ipc = "state"
    /\ ipc' = IF can_state = "ERROR_ACTIVE" THEN "set" ELSE "putback"
    /\ UNCHANGED <<can_state, busoff_pending, restart, ctrlVars, opVars,
                   rxVars, napiVars, ind, ind_irq, devVars>>

EvindSet ==
    /\ ipc = "set"
    /\ busoff_pending' = TRUE
    /\ ipc' = "schedule"
    /\ UNCHANGED <<can_state, restart, ctrlVars, opVars, rxVars, napiVars, ind,
                   ind_irq, devVars>>

EvindSchedules_Not == UNCHANGED <<napi, missed>>
EvindSchedules == NapiSchedule

EvindSchedule ==
    /\ ipc = "schedule"
    /\ EvindSchedules
    /\ ipc' = "putback"
    /\ UNCHANGED <<can_state, busoff_pending, restart, ctrlVars, opVars,
                   rxVars, recheck, rpc, work, cb, ind, ind_irq, devVars>>

EvindPutback ==
    /\ ipc = "putback"
    /\ ind' = "device" /\ ipc' = "get"
    /\ UNCHANGED <<can_state, busoff_pending, restart, ctrlVars, opVars,
                   rxVars, napiVars, ind_irq, devVars>>

-----------------------------------------------------------------------------
(* virtio_can_rx_poll.  First virtio_can_handle_busoff. *)

PollBegin ==
    /\ napi = "sched" /\ rpc = "none"
    /\ work' = 0
    /\ rpc' = IF busoff_pending THEN "state" ELSE "read"
    /\ UNCHANGED <<can_state, busoff_pending, restart, ctrlVars, opVars,
                   rxVars, napi, missed, recheck, cb, indVars, devVars>>

PollState ==
    /\ rpc = "state"
    /\ rpc' = IF can_state = "ERROR_ACTIVE" THEN "enter" ELSE "report"
    /\ UNCHANGED <<can_state, busoff_pending, restart, ctrlVars, opVars,
                   rxVars, napi, missed, recheck, work, cb, indVars, devVars>>

\* The state, and can_bus_off, which schedules the restart work.
BusoffEnter ==
    /\ rpc = "enter"
    /\ can_state' = "BUS_OFF"
    /\ restart' = (restart \/ AutoRestart)
    /\ rpc' = "report"
    /\ UNCHANGED <<busoff_pending, ctrlVars, opVars, rxVars, napi, missed,
                   recheck, work, cb, indVars, devVars>>

MayFail == IF ReportFails THEN BOOLEAN ELSE {FALSE}

\* The error frame: without a socket buffer nothing is done, and
\* busoff_pending stays when the stack drops the frame.
BusoffReport ==
    /\ rpc = "report"
    /\ rpc' = "read"
    /\ \E noskb \in MayFail, drop \in MayFail :
        /\ work' = IF noskb THEN 0 ELSE 1
        /\ busoff_pending' = IF noskb \/ drop THEN busoff_pending ELSE FALSE
    /\ UNCHANGED <<can_state, restart, ctrlVars, opVars, rxVars, napi, missed,
                   recheck, cb, indVars, devVars>>

\* virtio_can_read_rx_queue: the frame is checked and goes to the stack, when
\* there is a socket buffer for it; whatever becomes of it, its buffer goes
\* back to the device.
Accepts(f) == f \notin BadFrames /\ can_state = "ERROR_ACTIVE"

Putback_Accepted(u) == IF Accepts(u.frame) THEN avail \cup {u.buf} ELSE avail
Putback(u) == avail \cup {u.buf}

WorkLeft_OffByOne == work <= Quota
WorkLeft == work < Quota

PollRead ==
    /\ rpc = "read" /\ WorkLeft /\ used # <<>>
    /\ used' = Tail(used)
    /\ avail' = Putback(Head(used))
    /\ \E noskb \in BOOLEAN :
        IF Accepts(Head(used).frame) /\ ~noskb
        THEN /\ delivered' = Append(delivered, Head(used).frame)
             /\ UNCHANGED dropped
        ELSE /\ dropped' = dropped \cup {Head(used).frame}
             /\ UNCHANGED delivered
    /\ work' = work + 1
    /\ UNCHANGED <<can_state, busoff_pending, restart, ctrlVars, opVars,
                   notify, irq, received, napi, missed, recheck, rpc, cb,
                   indVars, devVars>>

\* The budget is used up: virtqueue_napi_complete is not called, so NAPI
\* polls again without an interrupt.
PollExhausted ==
    /\ rpc = "read" /\ ~WorkLeft
    /\ rpc' = "none"
    /\ UNCHANGED <<can_state, busoff_pending, restart, ctrlVars, opVars,
                   rxVars, napi, missed, recheck, work, cb, indVars, devVars>>

PollEmpty ==
    /\ rpc = "read" /\ WorkLeft /\ used = <<>>
    /\ rpc' = "enable"
    /\ UNCHANGED <<can_state, busoff_pending, restart, ctrlVars, opVars,
                   rxVars, napi, missed, recheck, work, cb, indVars, devVars>>

\* virtqueue_napi_complete, as in VirtioCanTx.
PollEnableCb ==
    /\ rpc = "enable"
    /\ cb' = TRUE /\ rpc' = "complete"
    /\ UNCHANGED <<can_state, busoff_pending, restart, ctrlVars, opVars,
                   rxVars, napi, missed, recheck, work, indVars, devVars>>

PollComplete ==
    /\ rpc = "complete"
    /\ rpc' = "none" /\ missed' = FALSE
    /\ napi' = IF missed THEN "sched" ELSE "idle"
    /\ recheck' = IF missed THEN recheck ELSE "due"
    /\ cb' = IF missed THEN FALSE ELSE cb
    /\ UNCHANGED <<can_state, busoff_pending, restart, ctrlVars, opVars,
                   rxVars, work, indVars, devVars>>

VirtqueuePoll_Skipped == FALSE
VirtqueuePoll == used # <<>>

PollRecheck ==
    /\ recheck # "none"
    /\ recheck' = "none"
    /\ \E found \in IF recheck = "stale" THEN BOOLEAN ELSE {VirtqueuePoll} :
       IF found
       THEN NapiSchedule /\ cb' = IF napi = "idle" THEN FALSE ELSE cb
       ELSE UNCHANGED <<cb, napi, missed>>
    /\ UNCHANGED <<can_state, busoff_pending, restart, ctrlVars, opVars,
                   rxVars, rpc, work, indVars, devVars>>

-----------------------------------------------------------------------------
CtrlStep(t) == CtrlSend(t) \/ CtrlGetBuf(t) \/ CtrlWait(t)
ModeStep(t) == ResetPending(t) \/ SetState(t)
OpDone      == OpenDone \/ CloseDone \/ RestartDone \/ FreezeDone \/ RestoreDone
Device      == DevCtrl \/ DevNotify \/ DevIndicate
Evind       == EvindIntr \/ EvindAgain \/ EvindState \/ EvindSet
               \/ EvindSchedule \/ EvindPutback
Poll        == PollBegin \/ PollState \/ BusoffEnter \/ BusoffReport
               \/ PollRead \/ PollExhausted \/ PollEmpty
               \/ PollEnableCb \/ PollComplete

Next ==
    \/ \E t \in Threads : CtrlStep(t) \/ ModeStep(t)
    \/ Open \/ Close \/ RestartWork \/ Freeze \/ Restore \/ OpDone
    \/ Device \/ DevRx \/ DevBusOff
    \/ ControlIntr \/ RxIntr \/ Evind
    \/ Poll \/ PollRecheck

Spec == Init /\ [][Next]_vars

\* What goes on of itself: interrupts are taken, tasks, work items and polls
\* run on, and the device works on what it was given.  Nobody has to open or
\* close the interface, and the bus has to carry no frame.
Continues ==
    \/ \E t \in Threads : CtrlStep(t) \/ ModeStep(t)
    \/ OpDone \/ RestartWork
    \/ Device
    \/ ControlIntr \/ RxIntr \/ Evind
    \/ Poll \/ PollRecheck

Fairness == WF_vars(Continues)

FairSpec == Spec /\ Fairness

-----------------------------------------------------------------------------
\* The poll never does more work than its budget and the control lock has one
\* holder at most; every variable keeps its type.
TypeOK ==
    /\ can_state \in CanStates /\ busoff_pending \in BOOLEAN
    /\ ifs \in {"down", "up", "frozen"} /\ was_up \in BOOLEAN
    /\ restart \in BOOLEAN
    /\ op \in [Threads -> {"none", "open", "close", "restart", "freeze",
                            "restore"}]
    /\ tpc \in [Threads -> {"idle", "send", "poll", "wait", "answered", "state",
                            "finish"}]
    /\ ctrl_lock \subseteq Threads /\ ctrl_used \subseteq Threads
    /\ ctrl_done \in 0 .. DoneMax /\ ctrl_irq \in BOOLEAN
    /\ ctrl_out \in Seq([from : Threads, msg : {"START", "STOP"}])
    /\ avail \subseteq RxBufs /\ used \in Seq([buf : RxBufs, frame : Frames])
    /\ notify \in BOOLEAN /\ cb \in BOOLEAN /\ irq \in BOOLEAN
    /\ received \in 0 .. MaxFrames /\ delivered \in Seq(Frames)
    /\ dropped \subseteq Frames
    /\ napi \in {"off", "idle", "sched"}
    /\ missed \in BOOLEAN /\ recheck \in {"none", "due", "stale"}
    /\ rpc \in {"none", "state", "enter", "report", "read",
                "enable", "complete"}
    /\ work \in 0 .. Quota
    /\ ind \in {"device", "used", "driver"} /\ ind_irq \in BOOLEAN
    /\ ipc \in {"none", "get", "state", "set", "schedule", "putback"}
    /\ dev \in {"stopped", "started", "busoff"} /\ dev_tell \in BOOLEAN
    /\ busoffs \in 0 .. MaxBusOffs /\ ops \in 0 .. MaxOps

\* Every receive buffer is either with the device or returned and unread, so
\* none is lost to the ring however a frame is refused, and every frame the
\* device received is in one place: unread, given up, or handed to the stack
\* in the order of the bus (virtio_can_read_rx_queue).
RxAccounted ==
    LET unread == {used[k].frame : k \in DOMAIN used}
        given  == {delivered[k] : k \in DOMAIN delivered}
    IN  /\ RxBufs \ avail = {used[k].buf : k \in DOMAIN used}
        /\ \A j, k \in DOMAIN used : j < k => used[j].frame < used[k].frame
        /\ \A j, k \in DOMAIN delivered : j < k => delivered[j] < delivered[k]
        /\ unread \cup given \cup dropped = 1 .. received
        /\ unread \cap given = {} /\ dropped \cap (unread \cup given) = {}

\* Open or close and the restart work never share cpkt_out, cpkt_in and the
\* control queue: a message, or its answer, that is under way belongs to the
\* one thread that holds ctrl_lock and has not got its answer yet
\* (virtio_can_send_ctrl_msg).
CtrlExclusive ==
    /\ Len(ctrl_out) <= 1
    /\ ctrl_out # <<>> => ctrl_lock = {Head(ctrl_out).from} /\ ctrl_used = {}
    /\ \A t \in ctrl_used : ctrl_lock = {t} /\ tpc[t] \in {"poll", "wait"}

\* NAPI is off, or was switched on after an interrupt had tried to schedule it
\* in vain: virtio_can_restore starts the controller before napi_enable, which
\* schedules nothing.
Parked == napi = "off" \/ (napi = "idle" /\ missed)

\* There is always a moment to come at which the device has all the receive
\* buffers again: no interrupt is lost between the last virtqueue_get_buf and
\* virtqueue_enable_cb, with the interface up or down, and a refused frame
\* stops neither the poll nor its buffer.  The exception is a frame that comes
\* while a resume has NAPI switched off (virtio_can_rx_poll,
\* virtio_can_rx_intr).
RxDrained == []<>(avail = RxBufs \/ Parked)

\* A bus-off the indication interrupt has noted is reported to the stack, or
\* a start or stop of the controller makes it void: the poll that reports it
\* is scheduled although no receive buffer is returned ("Ensure that the
\* BusOff indication does not get lost", virtio_can_handle_busoff).  The
\* exception is again an indication that comes while NAPI is off.
BusOffReported == []<>(~busoff_pending \/ Parked)

\* open, close, restart, suspend and resume end, so that there is always a
\* moment to come without any: the wait for ctrl_done misses no interrupt, and
\* close, which waits for the restart work, never holds ctrl_lock while it
\* does.
OpsReturn == []<>(\A t \in Threads : op[t] = "none")
=============================================================================

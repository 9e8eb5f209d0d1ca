------------------------- MODULE VirtioCanRxProofs -------------------------
(***************************************************************************)
(* Proofs about VirtioCanRx that hold for every number of buffers, frames, *)
(* bus-offs and operations, every NAPI budget and every configuration of   *)
(* the kernel.                                                             *)
(***************************************************************************)
EXTENDS VirtioCanRx, SequenceTheorems, TLAPS

\* Abbreviations that carry no argument of their own.
USE DEF ctrlVars, opVars, rxVars, napiVars, indVars, devVars

-----------------------------------------------------------------------------
(* Types. *)

FlagsOK ==
    /\ busoff_pending \in BOOLEAN /\ was_up \in BOOLEAN /\ restart \in BOOLEAN
    /\ ctrl_irq \in BOOLEAN
    /\ notify \in BOOLEAN /\ cb \in BOOLEAN /\ irq \in BOOLEAN
    /\ missed \in BOOLEAN
    /\ ind_irq \in BOOLEAN /\ dev_tell \in BOOLEAN

CtrlMsg == [from : Threads, msg : {"START", "STOP"}]
RxUsed == [buf : RxBufs, frame : Frames]

DataOK ==
    /\ can_state \in CanStates
    /\ ifs \in {"down", "up", "frozen"}
    /\ op \in [Threads -> {"none", "open", "close", "restart", "freeze",
                            "restore"}]
    /\ tpc \in [Threads -> {"idle", "send", "poll", "wait", "answered", "state",
                            "finish"}]
    /\ ctrl_lock \subseteq Threads /\ ctrl_used \subseteq Threads
    /\ ctrl_done \in 0 .. DoneMax
    /\ ctrl_out \in Seq(CtrlMsg)
    /\ avail \subseteq RxBufs /\ used \in Seq(RxUsed)
    /\ received \in 0 .. MaxFrames /\ delivered \in Seq(Frames)
    /\ dropped \subseteq Frames
    /\ napi \in {"off", "idle", "sched"}
    /\ recheck \in {"none", "due", "stale"}
    /\ rpc \in {"none", "state", "enter", "report", "read",
                "enable", "complete"}
    /\ work \in 0 .. Quota
    /\ ind \in {"device", "used", "driver"}
    /\ ipc \in {"none", "get", "state", "set", "schedule", "putback"}
    /\ dev \in {"stopped", "started", "busoff"}
    /\ busoffs \in 0 .. MaxBusOffs /\ ops \in 0 .. MaxOps

\* The flags, one action at a time.
\* The control queue and the rest of start and stop.
LEMMA FlagsCtrl ==
    ASSUME FlagsOK, (\E t \in Threads : CtrlStep(t) \/ ModeStep(t)) \/ ControlIntr \/ DevCtrl
    PROVE  FlagsOK'
  <1>1. CASE \E t \in Threads : CtrlSend(t)
    BY <1>1, Zenon DEF FlagsOK, CtrlSend
  <1>2. CASE \E t \in Threads : CtrlGetBuf(t)
    BY <1>2, Zenon DEF FlagsOK, CtrlGetBuf
  <1>3. CASE \E t \in Threads : CtrlWait(t)
    BY <1>3, Zenon DEF FlagsOK, CtrlWait
  <1>4. CASE \E t \in Threads : ResetPending(t)
    BY <1>4, Zenon DEF FlagsOK, ResetPending
  <1>5. CASE \E t \in Threads : SetState(t)
    BY <1>5, Zenon DEF FlagsOK, SetState
  <1>6. CASE ControlIntr
    BY <1>6, Zenon DEF FlagsOK, ControlIntr
  <1>7. CASE DevCtrl
    BY <1>7, Zenon DEF FlagsOK, DevCtrl
  <1> QED
    BY <1>1, <1>2, <1>3, <1>4, <1>5, <1>6, <1>7, Zenon DEF CtrlStep, ModeStep

\* Open, close, restart, suspend and resume.
LEMMA FlagsOps ==
    ASSUME FlagsOK, Open \/ Close \/ RestartWork \/ Freeze \/ Restore \/ OpDone
    PROVE  FlagsOK'
  <1>1. CASE Open
    BY <1>1, Zenon DEF FlagsOK, Open
  <1>2. CASE Close
    BY <1>2, Zenon DEF FlagsOK, Close
  <1>3. CASE RestartWork
    BY <1>3, Zenon DEF FlagsOK, RestartWork
  <1>4. CASE Freeze
    BY <1>4, Zenon DEF FlagsOK, Freeze
  <1>5. CASE Restore
    BY <1>5, Zenon DEF FlagsOK, Restore, PopulateVqs
  <1>6. CASE OpenDone
    BY <1>6, Zenon DEF FlagsOK, OpenDone
  <1>7. CASE CloseDone
    BY <1>7, Zenon DEF FlagsOK, CloseDone
  <1>8. CASE RestartDone
    BY <1>8, Zenon DEF FlagsOK, RestartDone
  <1>9. CASE FreezeDone
    BY <1>9, Zenon DEF FlagsOK, FreezeDone
  <1>10. CASE RestoreDone
    BY <1>10, Zenon DEF FlagsOK, RestoreDone
  <1> QED
    BY <1>1, <1>2, <1>3, <1>4, <1>5, <1>6, <1>7, <1>8, <1>9, <1>10, Zenon DEF OpDone

\* The device, and the interrupts.
LEMMA FlagsIntr ==
    ASSUME FlagsOK, DevNotify \/ DevIndicate \/ DevRx \/ DevBusOff \/ RxIntr \/ Evind
    PROVE  FlagsOK'
  <1>1. CASE DevNotify
    BY <1>1, Zenon DEF FlagsOK, DevNotify
  <1>2. CASE DevIndicate
    BY <1>2, Zenon DEF FlagsOK, DevIndicate
  <1>3. CASE DevRx
    BY <1>3, Zenon DEF FlagsOK, DevRx
  <1>4. CASE DevBusOff
    BY <1>4, Zenon DEF FlagsOK, DevBusOff
  <1>5. CASE RxIntr
    BY <1>5, Zenon DEF FlagsOK, RxIntr, NapiSchedule
  <1>6. CASE EvindIntr
    BY <1>6, Zenon DEF FlagsOK, EvindIntr
  <1>7. CASE EvindAgain
    BY <1>7, Zenon DEF FlagsOK, EvindAgain
  <1>8. CASE EvindState
    BY <1>8, Zenon DEF FlagsOK, EvindState
  <1>9. CASE EvindSet
    BY <1>9, Zenon DEF FlagsOK, EvindSet
  <1>10. CASE EvindSchedule
    BY <1>10, Zenon DEF FlagsOK, EvindSchedule, EvindSchedules, NapiSchedule
  <1>11. CASE EvindPutback
    BY <1>11, Zenon DEF FlagsOK, EvindPutback
  <1> QED
    BY <1>1, <1>2, <1>3, <1>4, <1>5, <1>6, <1>7, <1>8, <1>9, <1>10, <1>11, Zenon DEF Evind

\* The poll.
LEMMA FlagsPoll ==
    ASSUME FlagsOK, Poll \/ PollRecheck
    PROVE  FlagsOK'
  <1>1. CASE PollBegin
    BY <1>1, Zenon DEF FlagsOK, PollBegin
  <1>2. CASE PollState
    BY <1>2, Zenon DEF FlagsOK, PollState
  <1>3. CASE BusoffEnter
    BY <1>3, Zenon, RxAssumption DEF FlagsOK, BusoffEnter
  <1>4. CASE BusoffReport
    BY <1>4, Zenon DEF FlagsOK, BusoffReport
  <1>5. CASE PollRead
    BY <1>5, Zenon DEF FlagsOK, PollRead
  <1>6. CASE PollExhausted
    BY <1>6, Zenon DEF FlagsOK, PollExhausted
  <1>7. CASE PollEmpty
    BY <1>7, Zenon DEF FlagsOK, PollEmpty
  <1>8. CASE PollEnableCb
    BY <1>8, Zenon DEF FlagsOK, PollEnableCb
  <1>9. CASE PollComplete
    BY <1>9, Zenon DEF FlagsOK, PollComplete
  <1>10. CASE PollRecheck
    BY <1>10, Zenon DEF FlagsOK, PollRecheck, NapiSchedule
  <1> QED
    BY <1>1, <1>2, <1>3, <1>4, <1>5, <1>6, <1>7, <1>8, <1>9, <1>10, Zenon DEF Poll

(* Every step keeps program counters and flags typed. *)
LEMMA FlagsStep ==
    ASSUME FlagsOK, Next
    PROVE  FlagsOK'
  BY FlagsCtrl, FlagsOps, FlagsIntr, FlagsPoll, Zenon DEF Next, Device

(* What RxAssumption says of the bounds, in the form the proofs use. *)
LEMMA Bounds ==
    /\ MaxFrames \in Nat /\ MaxBusOffs \in Nat /\ MaxOps \in Nat
    /\ Quota \in Nat /\ Quota >= 1 /\ DoneMax \in Nat
  BY RxAssumption

\* All the rest, one action at a time.
\* The control queue and the rest of start and stop.
LEMMA DataCtrl ==
    ASSUME DataOK, (\E t \in Threads : CtrlStep(t) \/ ModeStep(t)) \/ ControlIntr \/ DevCtrl
    PROVE  DataOK'
  <1> USE Bounds DEF DataOK, CanStates
  <1>1. CASE \E t \in Threads : CtrlSend(t)
    <2>1. PICK t \in Threads : CtrlSend(t)
      BY <1>1
    <2>2. [from |-> t, msg |-> MsgOf(t)] \in CtrlMsg
      BY DEF CtrlMsg, MsgOf
    <2>3. ctrl_out' \in Seq(CtrlMsg)
      BY <2>1, <2>2, AppendProperties DEF CtrlSend
    <2>4. ctrl_lock' \subseteq Threads /\ tpc' = [tpc EXCEPT ![t] = "poll"]
      BY <2>1 DEF CtrlSend, LockCtrl
    <2>5. UNCHANGED <<ops, can_state, ctrl_done, ctrl_used, ifs, op, rxVars,
                      napiVars, indVars, devVars>>
      BY <2>1 DEF CtrlSend
    <2> QED
      BY <2>3, <2>4, <2>5
  <1>2. CASE \E t \in Threads : CtrlGetBuf(t)
    <2>1. PICK t \in Threads : CtrlGetBuf(t)
      BY <1>2
    <2>2. /\ ctrl_used' \subseteq Threads /\ ctrl_lock' \subseteq Threads
          /\ \/ tpc' = [tpc EXCEPT ![t] = "wait"]
             \/ tpc' = [tpc EXCEPT ![t] = "answered"]
      BY <2>1 DEF CtrlGetBuf
    <2>3. UNCHANGED <<ops, can_state, ctrl_done, ctrl_out, ifs, op, rxVars,
                      napiVars, indVars, devVars>>
      BY <2>1 DEF CtrlGetBuf
    <2> QED
      BY <2>2, <2>3
  <1>3. CASE \E t \in Threads : CtrlWait(t)
    BY <1>3 DEF CtrlWait
  <1>4. CASE \E t \in Threads : ResetPending(t)
    BY <1>4 DEF ResetPending
  <1>5. CASE \E t \in Threads : SetState(t)
    BY <1>5 DEF SetState
  <1>6. CASE ControlIntr
    BY <1>6 DEF ControlIntr, Complete
  <1>7. CASE DevCtrl
    <2>1. Head(ctrl_out) \in CtrlMsg /\ ctrl_out' \in Seq(CtrlMsg)
      BY <1>7, HeadTailProperties DEF DevCtrl
    <2>2. Head(ctrl_out).from \in Threads
      BY <2>1 DEF CtrlMsg
    <2> QED
      BY <1>7, <2>1, <2>2 DEF DevCtrl
  <1> QED
    BY <1>1, <1>2, <1>3, <1>4, <1>5, <1>6, <1>7 DEF CtrlStep, ModeStep

\* Open, close, restart, suspend and resume.
LEMMA DataOps ==
    ASSUME DataOK, Open \/ Close \/ RestartWork \/ Freeze \/ Restore \/ OpDone
    PROVE  DataOK'
  <1> USE Bounds DEF DataOK, CanStates, Threads
  <1>1. CASE Open
    BY <1>1 DEF Open, Begin, Counted
  <1>2. CASE Close
    BY <1>2 DEF Close, Begin, Counted
  <1>3. CASE RestartWork
    BY <1>3 DEF RestartWork, Begin
  <1>4. CASE Freeze
    BY <1>4 DEF Freeze, Counted
  <1>5. CASE Restore
    <2>1. dropped' \subseteq Frames
      <3>1. \A k \in DOMAIN used : used[k] \in RxUsed
        BY LenProperties
      <3>2. \A u \in RxUsed : u.frame \in Frames
        BY DEF RxUsed
      <3>3. dropped' = dropped \cup {used[k].frame : k \in DOMAIN used}
        BY <1>5 DEF Restore, PopulateVqs
      <3> QED
        BY <3>1, <3>2, <3>3
    <2> QED
      BY <1>5, <2>1 DEF Restore, PopulateVqs
  <1>6. CASE OpenDone
    BY <1>6 DEF OpenDone, End
  <1>7. CASE CloseDone
    BY <1>7 DEF CloseDone, End
  <1>8. CASE RestartDone
    BY <1>8 DEF RestartDone, End
  <1>9. CASE FreezeDone
    BY <1>9 DEF FreezeDone, End
  <1>10. CASE RestoreDone
    BY <1>10 DEF RestoreDone, End
  <1> QED
    BY <1>1, <1>2, <1>3, <1>4, <1>5, <1>6, <1>7, <1>8, <1>9, <1>10 DEF OpDone

\* The device, and the interrupts.
LEMMA DataIntr ==
    ASSUME DataOK, DevNotify \/ DevIndicate \/ DevRx \/ DevBusOff \/ RxIntr \/ Evind
    PROVE  DataOK'
  <1> USE Bounds DEF DataOK, CanStates
  <1>1. CASE DevNotify
    BY <1>1 DEF DevNotify
  <1>2. CASE DevIndicate
    BY <1>2 DEF DevIndicate
  <1>3. CASE DevRx
    <2>1. received + 1 \in Frames /\ received' = received + 1
      BY <1>3 DEF DevRx, Frames
    <2>2. PICK b \in avail : /\ avail' = avail \ {b}
                             /\ used' = Append(used, [buf |-> b, frame |-> received + 1])
      BY <1>3 DEF DevRx
    <2>3. [buf |-> b, frame |-> received + 1] \in RxUsed
      BY <2>1 DEF RxUsed
    <2>4. used' \in Seq(RxUsed)
      BY <2>2, <2>3, AppendProperties
    <2> QED
      BY <1>3, <2>1, <2>2, <2>4 DEF DevRx, Frames
  <1>4. CASE DevBusOff
    BY <1>4 DEF DevBusOff
  <1>5. CASE RxIntr
    BY <1>5 DEF RxIntr, NapiSchedule
  <1>6. CASE EvindIntr
    BY <1>6 DEF EvindIntr, GetInd
  <1>7. CASE EvindAgain
    BY <1>7 DEF EvindAgain, GetInd
  <1>8. CASE EvindState
    BY <1>8 DEF EvindState
  <1>9. CASE EvindSet
    BY <1>9 DEF EvindSet
  <1>10. CASE EvindSchedule
    BY <1>10 DEF EvindSchedule, EvindSchedules, NapiSchedule
  <1>11. CASE EvindPutback
    BY <1>11 DEF EvindPutback
  <1> QED
    BY <1>1, <1>2, <1>3, <1>4, <1>5, <1>6, <1>7, <1>8, <1>9, <1>10, <1>11 DEF Evind

\* The poll.
LEMMA DataPoll ==
    ASSUME DataOK, Poll \/ PollRecheck
    PROVE  DataOK'
  <1> USE Bounds DEF DataOK, CanStates
  <1>1. CASE PollBegin
    BY <1>1 DEF PollBegin
  <1>2. CASE PollState
    BY <1>2 DEF PollState
  <1>3. CASE BusoffEnter
    BY <1>3 DEF BusoffEnter
  <1>4. CASE BusoffReport
    BY <1>4 DEF BusoffReport
  <1>5. CASE PollRead
    <2>1. /\ Head(used) \in RxUsed /\ used' \in Seq(RxUsed)
          /\ Head(used).buf \in RxBufs /\ Head(used).frame \in Frames
      <3>1. Head(used) \in RxUsed /\ used' \in Seq(RxUsed)
        BY <1>5, HeadTailProperties DEF PollRead
      <3> QED
        BY <3>1 DEF RxUsed
    <2>2. delivered' \in Seq(Frames) /\ dropped' \subseteq Frames
      <3>1. Append(delivered, Head(used).frame) \in Seq(Frames)
        BY <2>1, AppendProperties
      <3>2. \/ delivered' = Append(delivered, Head(used).frame) /\ dropped' = dropped
            \/ delivered' = delivered /\ dropped' = dropped \cup {Head(used).frame}
        BY <1>5 DEF PollRead
      <3> QED
        BY <2>1, <3>1, <3>2
    <2>3. work' \in 0 .. Quota /\ avail' \subseteq RxBufs
      BY <1>5, <2>1 DEF PollRead, WorkLeft, Putback
    <2> QED
      BY <1>5, <2>1, <2>2, <2>3 DEF PollRead
  <1>6. CASE PollExhausted
    BY <1>6 DEF PollExhausted
  <1>7. CASE PollEmpty
    BY <1>7 DEF PollEmpty
  <1>8. CASE PollEnableCb
    BY <1>8 DEF PollEnableCb
  <1>9. CASE PollComplete
    BY <1>9 DEF PollComplete
  <1>10. CASE PollRecheck
    <2>1. napi' \in {"off", "idle", "sched"} /\ recheck' = "none"
      BY <1>10 DEF PollRecheck, NapiSchedule
    <2>2. UNCHANGED <<can_state, opVars, ctrl_lock, ctrl_done, ctrl_out,
                      ctrl_used, avail, used, received, delivered, dropped, rpc,
                      work, ind, ipc, dev, busoffs>>
      BY <1>10 DEF PollRecheck
    <2> QED
      BY <2>1, <2>2
  <1> QED
    BY <1>1, <1>2, <1>3, <1>4, <1>5, <1>6, <1>7, <1>8, <1>9, <1>10 DEF Poll

(* Every step keeps rings, buffers and messages typed. *)
LEMMA DataStep ==
    ASSUME DataOK, Next
    PROVE  DataOK'
  BY DataCtrl, DataOps, DataIntr, DataPoll DEF Next, Device

-----------------------------------------------------------------------------
(* The control queue. *)

\* A thread without an operation is idle; the lock is held from the message
\* until its answer is fetched, by one thread at most; and the holder's message
\* is either with the device or returned.
CtrlInv ==
    /\ \A t \in Threads : op[t] = "none" => tpc[t] = "idle"
    /\ \A t \in Threads : t \in ctrl_lock <=> tpc[t] \in {"poll", "wait"}
    /\ \A t, u \in ctrl_lock : t = u
    /\ ctrl_lock = {} => ctrl_out = <<>> /\ ctrl_used = {}
    /\ \A t \in ctrl_lock :
        \/ ctrl_out = <<>> /\ ctrl_used = {t}
        \/ ctrl_out = <<[from |-> t, msg |-> MsgOf(t)]>> /\ ctrl_used = {}

ctrlState == <<op, tpc, ctrl_lock, ctrl_out, ctrl_used>>

(* Steps that leave the control queue and its senders alone keep CtrlInv. *)
LEMMA CtrlFrame == CtrlInv /\ UNCHANGED ctrlState => CtrlInv'
  BY DEF CtrlInv, ctrlState, MsgOf

\* A step of a thread outside virtio_can_send_ctrl_msg.
LEMMA CtrlOutside ==
    ASSUME DataOK, CtrlInv, NEW t \in Threads, tpc[t] \notin {"poll", "wait"},
           NEW l \in {"idle", "send", "state", "finish"}, NEW o,
           tpc' = [tpc EXCEPT ![t] = l], op' = [op EXCEPT ![t] = o],
           o = "none" => l = "idle",
           UNCHANGED <<ctrl_lock, ctrl_out, ctrl_used>>
    PROVE  CtrlInv'
  <1>1. t \notin ctrl_lock
    BY DEF CtrlInv
  <1>2. \A u \in Threads : tpc'[u] = (IF u = t THEN l ELSE tpc[u])
                           /\ op'[u] = (IF u = t THEN o ELSE op[u])
    BY DEF DataOK
  <1>3. \A u \in ctrl_lock : MsgOf(u)' = MsgOf(u)
    BY <1>1, <1>2 DEF MsgOf, DataOK
  <1> QED
    BY <1>1, <1>2, <1>3 DEF CtrlInv, DataOK

(* The steps of virtio_can_send_ctrl_msg keep CtrlInv. *)
LEMMA CtrlThread ==
    ASSUME DataOK, CtrlInv, NEW t \in Threads, CtrlStep(t) \/ ModeStep(t)
    PROVE  CtrlInv'
  <1>1. CASE CtrlSend(t)
    <2>1. /\ tpc[t] = "send" /\ tpc' = [tpc EXCEPT ![t] = "poll"]
          /\ ctrl_lock = {} /\ ctrl_lock' = {t}
          /\ ctrl_out' = Append(ctrl_out, [from |-> t, msg |-> MsgOf(t)])
          /\ UNCHANGED <<op, ctrl_used>>
      BY <1>1 DEF CtrlSend, LockCtrl
    <2>2. ctrl_out = <<>> /\ ctrl_used = {}
      BY <2>1 DEF CtrlInv
    <2>3. ctrl_out' = <<[from |-> t, msg |-> MsgOf(t)]>> /\ MsgOf(t)' = MsgOf(t)
      BY <2>1, <2>2 DEF MsgOf
    <2>4. \A u \in Threads : u \in ctrl_lock' <=> tpc'[u] \in {"poll", "wait"}
      BY <2>1 DEF CtrlInv, DataOK
    <2>5. \A u \in Threads : op'[u] = "none" => tpc'[u] = "idle"
      BY <2>1 DEF CtrlInv, DataOK
    <2> QED
      BY <2>1, <2>2, <2>3, <2>4, <2>5 DEF CtrlInv
  <1>2. CASE CtrlGetBuf(t)
    <2>1. tpc[t] = "poll" /\ UNCHANGED <<op, ctrl_out>> /\ t \in ctrl_lock
      BY <1>2 DEF CtrlGetBuf, CtrlInv
    <2>2. ctrl_lock = {t} /\ op[t] # "none"
      BY <2>1 DEF CtrlInv
    <2>3. CASE ctrl_used = {}
      <3>1. tpc' = [tpc EXCEPT ![t] = "wait"] /\ UNCHANGED <<ctrl_used, ctrl_lock>>
        BY <1>2, <2>3 DEF CtrlGetBuf
      <3> QED
        BY <2>1, <2>2, <3>1 DEF CtrlInv, DataOK, MsgOf
    <2>4. CASE ctrl_used # {}
      <3>1. ctrl_out = <<>> /\ ctrl_used = {t}
        BY <2>2, <2>4 DEF CtrlInv
      <3>2. /\ ctrl_used' = {} /\ ctrl_lock' = {}
            /\ tpc' = [tpc EXCEPT ![t] = "answered"]
        BY <1>2, <2>2, <3>1 DEF CtrlGetBuf
      <3> QED
        BY <2>1, <2>2, <3>1, <3>2 DEF CtrlInv, DataOK
    <2> QED
      BY <2>3, <2>4
  <1>3. CASE CtrlWait(t)
    <2>1. /\ tpc[t] = "wait" /\ tpc' = [tpc EXCEPT ![t] = "poll"]
          /\ UNCHANGED <<op, ctrl_lock, ctrl_out, ctrl_used>>
      BY <1>3 DEF CtrlWait
    <2> QED
      BY <2>1 DEF CtrlInv, DataOK, MsgOf
  <1>4. CASE ModeStep(t)
    <2>1. /\ tpc[t] \in {"answered", "state"}
          /\ tpc' = [tpc EXCEPT ![t] = "state"] \/ tpc' = [tpc EXCEPT ![t] = "finish"]
          /\ UNCHANGED <<op, ctrl_lock, ctrl_out, ctrl_used>>
      BY <1>4 DEF ModeStep, ResetPending, SetState
    <2>2. op[t] # "none" /\ op' = [op EXCEPT ![t] = op[t]]
      BY <2>1 DEF CtrlInv, DataOK
    <2> QED
      BY <2>1, <2>2, CtrlOutside
  <1> QED
    BY <1>1, <1>2, <1>3, <1>4 DEF CtrlStep

(* The device and the control interrupt keep CtrlInv. *)
LEMMA CtrlDevice ==
    ASSUME DataOK, CtrlInv, DevCtrl
    PROVE  CtrlInv'
  <1>1. /\ ctrl_out # <<>>
        /\ ctrl_out' = Tail(ctrl_out)
        /\ ctrl_used' = ctrl_used \cup {Head(ctrl_out).from}
        /\ UNCHANGED <<op, tpc, ctrl_lock>>
    BY DEF DevCtrl
  <1>2. PICK t \in ctrl_lock : TRUE
    BY <1>1 DEF CtrlInv
  <1>3. ctrl_out = <<[from |-> t, msg |-> MsgOf(t)]>> /\ ctrl_used = {}
    BY <1>1, <1>2 DEF CtrlInv
  <1>4. ctrl_out' = <<>> /\ ctrl_used' = {t}
    BY <1>1, <1>3
  <1> QED
    BY <1>1, <1>2, <1>4 DEF CtrlInv

(* Beginning and ending an interface operation keeps CtrlInv. *)
LEMMA CtrlOps ==
    ASSUME DataOK, CtrlInv,
           Open \/ Close \/ RestartWork \/ Freeze \/ Restore \/ OpDone
    PROVE  CtrlInv'
  <1>1. PICK t \in Threads, l \in {"idle", "send", "finish"},
             o \in {"none", "open", "close", "restart", "freeze", "restore"} :
            /\ op[t] = "none" \/ tpc[t] = "finish"
            /\ tpc' = [tpc EXCEPT ![t] = l] /\ op' = [op EXCEPT ![t] = o]
            /\ o = "none" => l = "idle"
    BY DEF Open, Close, RestartWork, Freeze, Restore, OpDone, OpenDone, CloseDone,
       RestartDone, FreezeDone, RestoreDone, Begin, End, Threads
  <1>2. UNCHANGED <<ctrl_lock, ctrl_out, ctrl_used>>
    BY DEF Open, Close, RestartWork, Freeze, Restore, OpDone, OpenDone, CloseDone,
       RestartDone, FreezeDone, RestoreDone
  <1>3. tpc[t] \notin {"poll", "wait"}
    BY <1>1 DEF CtrlInv
  <1> QED
    BY <1>1, <1>2, <1>3, CtrlOutside

\* Interrupts, the other queues and the poll leave the control queue alone.
LEMMA CtrlElse ==
    ASSUME ControlIntr \/ DevNotify \/ DevIndicate \/ DevRx \/ DevBusOff \/ RxIntr
           \/ Evind \/ Poll \/ PollRecheck
    PROVE  UNCHANGED ctrlState
  <1> USE DEF ctrlState
  <1>1. CASE ControlIntr \/ DevNotify \/ DevIndicate \/ DevRx \/ DevBusOff \/ RxIntr
    BY <1>1 DEF ControlIntr, DevNotify, DevIndicate, DevRx, DevBusOff, RxIntr
  <1>2. CASE Evind
    BY <1>2 DEF Evind, EvindIntr, EvindAgain, EvindState, EvindSet, EvindSchedule,
       EvindPutback
  <1>3. CASE Poll \/ PollRecheck
    BY <1>3 DEF Poll, PollBegin, PollState, BusoffEnter, BusoffReport, PollRead,
       PollExhausted, PollEmpty, PollEnableCb, PollComplete, PollRecheck
  <1> QED
    BY <1>1, <1>2, <1>3

(* Every step keeps CtrlInv. *)
LEMMA CtrlInvStep ==
    ASSUME DataOK, CtrlInv, [Next]_vars
    PROVE  CtrlInv'
  <1>1. CASE UNCHANGED vars
    BY <1>1, CtrlFrame DEF vars, ctrlState
  <1>2. CASE \E t \in Threads : CtrlStep(t) \/ ModeStep(t)
    BY <1>2, CtrlThread
  <1>3. CASE Open \/ Close \/ RestartWork \/ Freeze \/ Restore \/ OpDone
    BY <1>3, CtrlOps
  <1>4. CASE DevCtrl
    BY <1>4, CtrlDevice
  <1>5. CASE ControlIntr \/ DevNotify \/ DevIndicate \/ DevRx \/ DevBusOff
             \/ RxIntr \/ Evind \/ Poll \/ PollRecheck
    BY <1>5, CtrlElse, CtrlFrame
  <1> QED
    BY <1>1, <1>2, <1>3, <1>4, <1>5 DEF Next, Device

\* What the property says.
LEMMA CtrlImplies == DataOK /\ CtrlInv => CtrlExclusive
  <1> SUFFICES ASSUME DataOK, CtrlInv PROVE CtrlExclusive
    OBVIOUS
  <1>1. CASE ctrl_lock = {}
    BY <1>1 DEF CtrlInv, CtrlExclusive
  <1>2. CASE ctrl_lock # {}
    <2>1. PICK t \in ctrl_lock : TRUE
      BY <1>2
    <2>2. ctrl_lock = {t} /\ tpc[t] \in {"poll", "wait"}
      BY <2>1 DEF CtrlInv, DataOK
    <2>3. CASE ctrl_out = <<>> /\ ctrl_used = {t}
      BY <2>2, <2>3 DEF CtrlExclusive
    <2>4. CASE ctrl_out = <<[from |-> t, msg |-> MsgOf(t)]>> /\ ctrl_used = {}
      <3>1. Len(ctrl_out) = 1 /\ Head(ctrl_out) = [from |-> t, msg |-> MsgOf(t)]
        BY <2>4
      <3>2. Head(ctrl_out).from = t
        BY <3>1
      <3> QED
        BY <2>2, <2>4, <3>1, <3>2 DEF CtrlExclusive
    <2> QED
      BY <2>1, <2>3, <2>4 DEF CtrlInv
  <1> QED
    BY <1>1, <1>2

-----------------------------------------------------------------------------
(* Buffers and frames of the receive queue. *)

UsedBufs == {used[k].buf : k \in DOMAIN used}
Unread == {used[k].frame : k \in DOMAIN used}
Given == {delivered[k] : k \in DOMAIN delivered}

\* The ring returns no buffer twice, and what was handed to the stack came
\* before everything unread.
RxInv ==
    /\ RxAccounted
    /\ \A j, k \in DOMAIN used : used[j].buf = used[k].buf => j = k
    /\ \A f \in Given, g \in Unread : f < g


rxState == <<avail, used, received, delivered, dropped>>

\* RxInv in terms of the sets.
LEMMA RxInvSets ==
    RxInv <=>
        /\ RxBufs \ avail = UsedBufs
        /\ \A j, k \in DOMAIN used : used[j].buf = used[k].buf => j = k
        /\ \A j, k \in DOMAIN used : j < k => used[j].frame < used[k].frame
        /\ \A j, k \in DOMAIN delivered : j < k => delivered[j] < delivered[k]
        /\ \A f \in Given, g \in Unread : f < g
        /\ Unread \cup Given \cup dropped = 1 .. received
        /\ Unread \cap Given = {} /\ dropped \cap (Unread \cup Given) = {}
  BY DEF RxInv, RxAccounted, UsedBufs, Unread, Given

(* Steps that leave the receive queue alone keep RxInv. *)
LEMMA RxFrame == RxInv /\ UNCHANGED rxState => RxInv'
  BY DEF RxInv, RxAccounted, Unread, Given, rxState

\* A frame arrives: it is newer than all others and takes a buffer that is not
\* in the used ring.
LEMMA RxArrives ==
    ASSUME DataOK, RxInv, DevRx
    PROVE  RxInv'
  <1> DEFINE n == Len(used)
  <1>1. PICK b \in avail : /\ avail' = avail \ {b}
                           /\ used' = Append(used, [buf |-> b, frame |-> received + 1])
    BY DEF DevRx
  <1>2. received' = received + 1 /\ UNCHANGED <<delivered, dropped>> /\ received \in Nat
    BY DEF DevRx, DataOK
  <1>3. used \in Seq(RxUsed) /\ delivered \in Seq(Frames) /\ avail \subseteq RxBufs
    BY DEF DataOK
  <1>4. n \in Nat /\ DOMAIN used = 1 .. n
    BY <1>3, LenProperties
  <1>5. /\ DOMAIN used' = 1 .. n + 1
        /\ \A k \in 1 .. n : used'[k] = used[k]
        /\ used'[n + 1].buf = b /\ used'[n + 1].frame = received + 1
    BY <1>1, <1>3, AppendProperties
  <1> HIDE DEF n
  <1>6. UsedBufs' = UsedBufs \cup {b} /\ Unread' = Unread \cup {received + 1}
    BY <1>4, <1>5 DEF UsedBufs, Unread
  <1>7. Given' = Given
    BY <1>2 DEF Given
  <1>8. \A f \in Unread \cup Given \cup dropped : f \in Nat /\ f <= received
    BY <1>2, RxInvSets
  <1>9. b \notin UsedBufs
    BY RxInvSets
  <1>10. RxBufs \ avail' = UsedBufs'
    BY <1>1, <1>3, <1>6, RxInvSets
  <1>11. \A j, k \in DOMAIN used' : used'[j].buf = used'[k].buf => j = k
    BY <1>4, <1>5, <1>9, RxInvSets DEF UsedBufs
  <1>12. \A j, k \in DOMAIN used' : j < k => used'[j].frame < used'[k].frame
    <2>1. \A j \in 1 .. n : used[j].frame \in Unread
      BY <1>4, Zenon DEF Unread
    <2>2. \A f \in Unread : f \in Nat /\ f < received + 1
      BY <1>2, <1>8
    <2> QED
      BY <1>4, <1>5, <2>1, <2>2, RxInvSets
  <1>13. \A f \in Given', g \in Unread' : f < g
    BY <1>2, <1>6, <1>7, <1>8, RxInvSets
  <1>14. Unread' \cup Given' \cup dropped' = 1 .. received'
    BY <1>2, <1>6, <1>7, RxInvSets
  <1>15. Unread' \cap Given' = {} /\ dropped' \cap (Unread' \cup Given') = {}
    <2>1. ~(received + 1 <= received)
      BY <1>2
    <2> QED
      BY <1>2, <1>6, <1>7, <1>8, <2>1, RxInvSets
  <1> QED
    BY <1>2, <1>10, <1>11, <1>12, <1>13, <1>14, <1>15, RxInvSets
       DEF RxInv, RxAccounted, UsedBufs, Unread, Given

\* The poll takes the oldest frame: its buffer goes back, and it is handed on
\* or given up.
LEMMA RxPolled ==
    ASSUME DataOK, RxInv, PollRead
    PROVE  RxInv'
  <1> DEFINE h == Head(used)
  <1>1. /\ used # <<>> /\ used' = Tail(used)
        /\ avail' = avail \cup {h.buf}
        /\ UNCHANGED received
        /\ \/ delivered' = Append(delivered, h.frame) /\ UNCHANGED dropped
           \/ dropped' = dropped \cup {h.frame} /\ UNCHANGED delivered
    BY DEF PollRead, Putback
  <1>2. used \in Seq(RxUsed) /\ delivered \in Seq(Frames) /\ avail \subseteq RxBufs
    BY DEF DataOK
  <1>3. /\ Len(used) \in Nat /\ DOMAIN used = 1 .. Len(used) /\ Len(used) >= 1
        /\ DOMAIN used' = 1 .. Len(used) - 1
        /\ \A k \in DOMAIN used' : used'[k] = used[k + 1]
        /\ h = used[1] /\ h \in RxUsed
    BY <1>1, <1>2, HeadTailProperties, LenProperties, EmptySeq
  <1>4. h.buf \in RxBufs /\ h.frame \in Frames
    BY <1>3 DEF RxUsed
  <1> HIDE DEF h
  <1>5. UsedBufs' = UsedBufs \ {h.buf} /\ Unread' = Unread \ {h.frame}
    <2>1. \A k \in DOMAIN used' : used[k + 1].buf # h.buf
      BY <1>3, RxInvSets
    <2>2. \A k \in DOMAIN used' : used[k + 1].frame # h.frame
      <3>1. \A k \in DOMAIN used' : used[1].frame < used[k + 1].frame
        BY <1>3, RxInvSets
      <3>2. \A k \in DOMAIN used : used[k].frame \in Nat
        <4>1. \A k \in DOMAIN used : used[k] \in RxUsed
          BY <1>2, <1>3, ElementOfSeq
        <4> QED
          BY <4>1, Bounds DEF RxUsed, Frames
      <3> QED
        BY <1>3, <3>1, <3>2
    <2>3. \A k \in DOMAIN used : k = 1 \/ (k - 1 \in DOMAIN used' /\ used'[k - 1] = used[k])
      BY <1>3
    <2>4. \A k \in DOMAIN used' : k + 1 \in DOMAIN used
      BY <1>3
    <2> QED
      BY <1>3, <2>1, <2>2, <2>3, <2>4 DEF UsedBufs, Unread
  <1>6. h.buf \in UsedBufs /\ h.frame \in Unread
    BY <1>3 DEF UsedBufs, Unread
  <1>7. RxBufs \ avail' = UsedBufs'
    BY <1>1, <1>2, <1>4, <1>5, RxInvSets
  <1>8. ASSUME NEW j \in DOMAIN used', NEW k \in DOMAIN used'
        PROVE  /\ used'[j].buf = used'[k].buf => j = k
               /\ j < k => used'[j].frame < used'[k].frame
    <2>1. /\ j + 1 \in DOMAIN used /\ k + 1 \in DOMAIN used
          /\ used'[j] = used[j + 1] /\ used'[k] = used[k + 1]
          /\ j + 1 = k + 1 => j = k
          /\ j < k => j + 1 < k + 1
      BY <1>3
    <2> QED
      BY <2>1, RxInvSets
  <1>9. /\ \A j, k \in DOMAIN used' : used'[j].buf = used'[k].buf => j = k
        /\ \A j, k \in DOMAIN used' : j < k => used'[j].frame < used'[k].frame
    BY <1>8, Zenon
  <1>10. \A g \in Unread' : h.frame < g
    <2>1. \A k \in DOMAIN used' : used[1].frame < used'[k].frame
      BY <1>3, RxInvSets
    <2> QED
      BY <1>3, <2>1 DEF Unread
  <1>11. CASE delivered' = Append(delivered, h.frame) /\ UNCHANGED dropped
    <2>1. /\ Len(delivered) \in Nat /\ DOMAIN delivered = 1 .. Len(delivered)
          /\ DOMAIN delivered' = 1 .. Len(delivered) + 1
          /\ \A k \in 1 .. Len(delivered) : delivered'[k] = delivered[k]
          /\ delivered'[Len(delivered) + 1] = h.frame
      BY <1>2, <1>4, <1>11, AppendProperties, LenProperties
    <2>2. Given' = Given \cup {h.frame}
      BY <2>1 DEF Given
    <2>3. \A j, k \in DOMAIN delivered' : j < k => delivered'[j] < delivered'[k]
      <3>1. \A j \in DOMAIN delivered : delivered[j] < h.frame
        BY <1>6, RxInvSets DEF Given
      <3> QED
        BY <2>1, <3>1, RxInvSets
    <2>4. \A f \in Given', g \in Unread' : f < g
      BY <1>5, <1>10, <2>2, RxInvSets
    <2>5. /\ Unread' \cup Given' \cup dropped' = 1 .. received'
          /\ Unread' \cap Given' = {} /\ dropped' \cap (Unread' \cup Given') = {}
      BY <1>1, <1>5, <1>6, <1>11, <2>2, RxInvSets
    <2> QED
      BY <1>7, <1>8, <1>9, <2>3, <2>4, <2>5
         DEF RxInv, RxAccounted, UsedBufs, Unread, Given
  <1>12. CASE dropped' = dropped \cup {h.frame} /\ UNCHANGED delivered
    <2>1. Given' = Given
      BY <1>12 DEF Given
    <2>2. \A f \in Given', g \in Unread' : f < g
      BY <1>5, <2>1, RxInvSets
    <2>3. /\ Unread' \cup Given' \cup dropped' = 1 .. received'
          /\ Unread' \cap Given' = {} /\ dropped' \cap (Unread' \cup Given') = {}
      BY <1>1, <1>5, <1>6, <1>12, <2>1, RxInvSets
    <2>4. \A j, k \in DOMAIN delivered' : j < k => delivered'[j] < delivered'[k]
      BY <1>12, RxInvSets
    <2> QED
      BY <1>7, <1>8, <1>9, <2>2, <2>3, <2>4
         DEF RxInv, RxAccounted, UsedBufs, Unread, Given
  <1> QED
    BY <1>1, <1>11, <1>12

\* virtio_can_populate_vqs gives up what the old queue held.
LEMMA RxRestored ==
    ASSUME DataOK, RxInv, Restore
    PROVE  RxInv'
  <1>1. /\ avail' = RxBufs /\ used' = <<>> /\ dropped' = dropped \cup Unread
        /\ UNCHANGED <<received, delivered>>
    BY DEF Restore, PopulateVqs, Unread
  <1>2. UsedBufs' = {} /\ Unread' = {} /\ Given' = Given /\ DOMAIN used' = {}
    BY <1>1 DEF UsedBufs, Unread, Given
  <1>3. /\ Unread' \cup Given' \cup dropped' = 1 .. received'
        /\ Unread' \cap Given' = {} /\ dropped' \cap (Unread' \cup Given') = {}
    BY <1>1, <1>2, RxInvSets
  <1>4. \A j, k \in DOMAIN delivered' : j < k => delivered'[j] < delivered'[k]
    BY <1>1, RxInvSets
  <1> QED
    BY <1>1, <1>2, <1>3, <1>4 DEF RxInv, RxAccounted, UsedBufs, Unread, Given

\* Nothing else touches buffers and frames.
LEMMA RxElse ==
    ASSUME Next, ~DevRx, ~PollRead, ~Restore
    PROVE  UNCHANGED rxState
  <1> USE DEF rxState
  <1>1. CASE \E t \in Threads : CtrlStep(t) \/ ModeStep(t)
    BY <1>1 DEF CtrlStep, ModeStep, CtrlSend, CtrlGetBuf, CtrlWait, ResetPending,
       SetState
  <1>2. CASE Open \/ Close \/ RestartWork \/ Freeze \/ OpDone
    BY <1>2 DEF Open, Close, RestartWork, Freeze, OpDone, OpenDone, CloseDone,
       RestartDone, FreezeDone, RestoreDone
  <1>3. CASE Device \/ DevBusOff \/ ControlIntr \/ RxIntr
    BY <1>3 DEF Device, DevCtrl, DevNotify, DevIndicate, DevBusOff, ControlIntr,
       RxIntr
  <1>4. CASE Evind
    BY <1>4 DEF Evind, EvindIntr, EvindAgain, EvindState, EvindSet, EvindSchedule,
       EvindPutback
  <1>5. CASE Poll \/ PollRecheck
    BY <1>5 DEF Poll, PollBegin, PollState, BusoffEnter, BusoffReport,
       PollExhausted, PollEmpty, PollEnableCb, PollComplete, PollRecheck
  <1> QED
    BY <1>1, <1>2, <1>3, <1>4, <1>5 DEF Next

(* Every step keeps RxInv. *)
LEMMA RxInvStep ==
    ASSUME DataOK, RxInv, [Next]_vars
    PROVE  RxInv'
  <1>1. CASE UNCHANGED vars
    BY <1>1, RxFrame DEF vars, rxState
  <1>2. CASE Next
    BY <1>2, RxArrives, RxPolled, RxRestored, RxElse, RxFrame
  <1> QED
    BY <1>1, <1>2

-----------------------------------------------------------------------------
(* Theorems. *)

(* All parts hold after virtio_can_probe. *)
LEMMA RxInit == Init => FlagsOK /\ DataOK /\ CtrlInv /\ RxInv
  <1> SUFFICES ASSUME Init PROVE FlagsOK /\ DataOK /\ CtrlInv /\ RxInv
    OBVIOUS
  <1>1. FlagsOK
    BY Zenon DEF Init, FlagsOK
  <1>2. DataOK
    BY Bounds DEF Init, DataOK, CanStates
  <1>3. CtrlInv
    BY DEF Init, CtrlInv
  <1>4. RxInv
    BY DEF Init, RxInv, RxAccounted, Unread, Given
  <1> QED
    BY <1>1, <1>2, <1>3, <1>4

(* No step leaves the types. *)
LEMMA TypesStep == FlagsOK /\ DataOK /\ [Next]_vars => FlagsOK' /\ DataOK'
  <1> SUFFICES ASSUME FlagsOK, DataOK, [Next]_vars PROVE FlagsOK' /\ DataOK'
    OBVIOUS
  <1>1. CASE UNCHANGED vars
    <2>1. FlagsOK'
      BY <1>1, Zenon DEF vars, FlagsOK
    <2>2. DataOK'
      BY <1>1 DEF vars, DataOK
    <2> QED
      BY <2>1, <2>2
  <1> QED
    BY <1>1, FlagsStep, DataStep

\* Every variable keeps its type (TypeOK): the poll never exceeds its budget,
\* bus-off report included, and the completion never its bound.
THEOREM TypeCorrect == Spec => []TypeOK
  <1>1. FlagsOK /\ DataOK => TypeOK
    BY DEF FlagsOK, DataOK, TypeOK, CtrlMsg, RxUsed
  <1> QED
    BY <1>1, RxInit, TypesStep, PTL DEF Spec

\* open, close, suspend, resume and the restart work never share the control
\* message (CtrlExclusive), although wait_for_completion may return early.
THEOREM CtrlIsExclusive == Spec => []CtrlExclusive
  BY RxInit, TypesStep, CtrlInvStep, CtrlImplies, PTL DEF Spec

\* No receive buffer and no frame is lost or used twice, and the stack gets
\* the frames in the order of the bus (RxAccounted), for every ring, through
\* bus-off, restart, suspend and failing allocations.
THEOREM RxIsAccounted == Spec => []RxAccounted
  <1>1. RxInv => RxAccounted
    BY DEF RxInv
  <1> QED
    BY <1>1, RxInit, TypesStep, RxInvStep, PTL DEF Spec
=============================================================================

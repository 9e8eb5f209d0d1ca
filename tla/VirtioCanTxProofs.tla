------------------------- MODULE VirtioCanTxProofs -------------------------
(***************************************************************************)
(* Proofs about VirtioCanTx that hold for every number of buffers, echo    *)
(* slots, ring entries, every NAPI budget and every configuration of the   *)
(* kernel.                                                                 *)
(***************************************************************************)
EXTENDS VirtioCanTx, FiniteSetTheorems, SequenceTheorems, TLAPS

\* Abbreviations that carry no argument of their own.
USE DEF NoSlotLeft, ReturnBusy, WakeQueue, VirtqueuePoll

-----------------------------------------------------------------------------
(* Constants. *)

\* The index set has as many members as the CAN core has echo slots.
LEMMA IdxFinite == IsFiniteSet(Idx) /\ Cardinality(Idx) = EchoSkbMax
  BY TxAssumption, FS_Interval DEF Idx

\* The limit is a natural number that neither the echo slots nor the ring
\* exceed.
LEMMA TxLimitBounds ==
    /\ TxLimit \in Nat
    /\ TxLimit <= EchoSkbMax
    /\ Indirect => TxLimit <= VqSize
    /\ ~Indirect => 2 * TxLimit <= VqSize
  BY TxAssumption DEF TxLimit, TxSlots

\* Giving an index back makes the free list longer by one, and it was not
\* complete before.
LEMMA FreeOne ==
    ASSUME NEW F \in SUBSET Idx, NEW i \in Idx, i \notin F
    PROVE  /\ Cardinality(F) \in Nat
           /\ Cardinality(F) < EchoSkbMax
           /\ Cardinality(F \cup {i}) = Cardinality(F) + 1
  <1>1. IsFiniteSet(F) /\ Cardinality(F) <= EchoSkbMax
        /\ (Cardinality(F) = EchoSkbMax => F = Idx)
    BY IdxFinite, FS_Subset
  <1>2. Cardinality(F) \in Nat
    BY <1>1, FS_CardinalityType
  <1>3. Cardinality(F \cup {i}) = Cardinality(F) + 1
    BY <1>1, FS_AddElement
  <1> QED
    BY <1>1, <1>2, <1>3, TxAssumption

\* Taking an index makes the free list shorter by one.
LEMMA TakeOne ==
    ASSUME NEW F \in SUBSET Idx, NEW i \in F
    PROVE  /\ Cardinality(F) \in Nat
           /\ Cardinality(F \ {i}) = Cardinality(F) - 1
  <1>1. IsFiniteSet(F)
    BY IdxFinite, FS_Subset
  <1> QED
    BY <1>1, FS_CardinalityType, FS_RemoveElement

-----------------------------------------------------------------------------
(* The inductive invariant. *)

CallMsg == [putidx |-> xidx, skb |-> xskb]

\* Between the first check of start_xmit and the allocation only the poll
\* changes tx_inflight, and it can only lower it.
CallBelowLimit == xpc \in {"check", "alloc"} => tx_inflight < TxLimit

\* A call in progress works for a buffer of the stack.
CallHasSkb ==
    xpc \in {"full", "check", "alloc", "echo", "add", "nospace"} => xskb \in Skbs

\* The call has its index to itself until its message enters the ring,
CallIndexed ==
    xpc \in {"echo", "add"} =>
        /\ xidx \notin tx_putidx_free
        /\ \A m \in tx_list : m.putidx = xidx => m = CallMsg
        /\ \A m \in Ring : m.putidx # xidx

\* and the message is on tx_list, unless a suspend freed it.
CallListed ==
    xpc \in {"echo", "add"} /\ torn = "no" => CallMsg \in tx_list

\* A call is in progress on an interface that is up, or was when a suspend
\* began.
CallWhileRunning ==
    xpc # "idle" => Running \/ (ifs \in {"freezing", "frozen"} /\ was_up)

SlotInv ==
    /\ TypeOK
    /\ NoBugOn
    /\ SlotAccounting
    /\ IndexExclusive
    /\ RingBacked
    /\ CallBelowLimit
    /\ CallHasSkb
    /\ CallIndexed
    /\ CallListed
    /\ CallWhileRunning

-----------------------------------------------------------------------------
(* Every step keeps the types. *)

\* The flags: what FlagsOK is about.
flagVars == <<bug, was_up, stopped, xbusy, requeued, notify, cb, irq, missed>>

\* A step that touches no flag.
LEMMA FlagsFrame == FlagsOK /\ UNCHANGED flagVars => FlagsOK'
  BY Zenon DEF FlagsOK, flagVars

\* The begin of a call of start_xmit clears requeued.
LEMMA FlagsXmitCall ==
    ASSUME FlagsOK, XmitCall
    PROVE  FlagsOK'
  <1>1. /\ requeued' = FALSE
        /\ UNCHANGED <<bug, was_up, stopped, xbusy, notify, cb, irq, missed>>
    BY SMT DEF XmitCall, XmitDrop, XmitNoMem, XmitBegin, privVars, ifVars,
               irqVars, pollVars
  <1> QED
    BY <1>1, Zenon DEF FlagsOK

\* The steps of start_xmit.
LEMMA FlagsXmit ==
    ASSUME FlagsOK, Xmit
    PROVE  FlagsOK'
  <1> USE DEF privVars, ifVars, xmitVars, irqVars, pollVars
  <1>1. CASE XmitStopFull \/ XmitStopNoSpace
    <2>1. /\ stopped' = TRUE /\ xbusy' = TRUE
          /\ UNCHANGED <<bug, was_up, requeued, notify, cb, irq, missed>>
      BY <1>1, SMT DEF XmitStopFull, XmitStopNoSpace, ReturnBusy
    <2> QED
      BY <2>1, Zenon DEF FlagsOK
  <1>2. CASE XmitCheckSlots
    <2>1. /\ stopped' = (stopped \/ NoSlotLeft)
          /\ UNCHANGED <<bug, was_up, xbusy, requeued, notify, cb, irq, missed>>
      BY <1>2, SMT DEF XmitCheckSlots
    <2> QED
      BY <2>1, Zenon DEF FlagsOK
  <1>3. CASE XmitAlloc
    <2>1. /\ bug' = TRUE \/ bug' = bug
          /\ UNCHANGED <<was_up, stopped, xbusy, requeued, notify, cb, irq,
                         missed>>
      BY <1>3, SMT DEF XmitAlloc
    <2> QED
      BY <2>1, Zenon DEF FlagsOK
  <1>4. CASE XmitPutEcho \/ XmitAdd \/ XmitAddLost
    <2>1. UNCHANGED flagVars
      BY <1>4, SMT DEF XmitPutEcho, XmitAdd, XmitAddLost, flagVars
    <2> QED
      BY <2>1, FlagsFrame
  <1>5. CASE XmitAddFails
    <2>1. /\ bug' = (bug \/ tx_inflight = 0)
          /\ UNCHANGED <<was_up, stopped, xbusy, requeued, notify, cb, irq,
                         missed>>
      BY <1>5, SMT DEF XmitAddFails, FreeTxIdx
    <2> QED
      BY <2>1, Zenon DEF FlagsOK
  <1>6. CASE XmitKick
    <2>1. /\ requeued' = (xbusy \/ (stopped /\ xmore > 0))
          /\ xbusy' = FALSE
          /\ UNCHANGED <<bug, was_up, stopped, notify, cb, irq, missed>>
      BY <1>6, SMT DEF XmitKick
    <2> QED
      BY <2>1, Zenon DEF FlagsOK
  <1> QED
    BY <1>1, <1>2, <1>3, <1>4, <1>5, <1>6, Zenon DEF Xmit

\* The device and the interrupt handler.
LEMMA FlagsDevice ==
    ASSUME FlagsOK, (\E m \in avail : DevUse(m)) \/ DevNotify \/ TxIntr
    PROVE  FlagsOK'
  <1> USE DEF privVars, ifVars, xmitVars, pollVars
  <1>1. CASE \E m \in avail : DevUse(m)
    <2>1. /\ notify' = TRUE
          /\ UNCHANGED <<bug, was_up, stopped, xbusy, requeued, cb, irq, missed>>
      BY <1>1, SMT DEF DevUse
    <2> QED
      BY <2>1, Zenon DEF FlagsOK
  <1>2. CASE DevNotify
    <2>1. /\ notify' = FALSE /\ irq' = (irq \/ cb)
          /\ UNCHANGED <<bug, was_up, stopped, xbusy, requeued, cb, missed>>
      BY <1>2, SMT DEF DevNotify
    <2> QED
      BY <2>1, Zenon DEF FlagsOK
  <1>3. CASE TxIntr
    <2>1. /\ irq' = FALSE
          /\ cb' = FALSE \/ cb' = cb
          /\ missed' = (missed \/ napi # "idle") \/ missed' = missed
          /\ UNCHANGED <<bug, was_up, stopped, xbusy, requeued, notify>>
      BY <1>3, SMT DEF TxIntr, NapiSchedule
    <2> QED
      BY <2>1, Zenon DEF FlagsOK
  <1> QED
    BY <1>1, <1>2, <1>3, Zenon

\* The NAPI poll.
LEMMA FlagsPoll ==
    ASSUME FlagsOK, Poll \/ PollRecheck
    PROVE  FlagsOK'
  <1> USE DEF privVars, ifVars, xmitVars, irqVars
  <1>1. CASE PollBegin \/ PollExhausted \/ PollEmpty
    <2>1. UNCHANGED flagVars
      BY <1>1, SMT DEF PollBegin, PollExhausted, PollEmpty, flagVars
    <2> QED
      BY <2>1, FlagsFrame
  <1>2. CASE PollRead
    <2>1. /\ bug' = (bug \/ tx_inflight = 0)
          /\ UNCHANGED <<was_up, stopped, xbusy, requeued, notify, cb, irq,
                         missed>>
      BY <1>2, SMT DEF PollRead, FreeTxIdx
    <2> QED
      BY <2>1, Zenon DEF FlagsOK
  <1>3. CASE PollWake
    <2>1. /\ stopped' = FALSE
          /\ UNCHANGED <<bug, was_up, xbusy, requeued, notify, cb, irq, missed>>
      BY <1>3, SMT DEF PollWake, WakeQueue
    <2> QED
      BY <2>1, Zenon DEF FlagsOK
  <1>4. CASE PollEnableCb
    <2>1. /\ cb' = TRUE
          /\ UNCHANGED <<bug, was_up, stopped, xbusy, requeued, notify, irq,
                         missed>>
      BY <1>4, SMT DEF PollEnableCb
    <2> QED
      BY <2>1, Zenon DEF FlagsOK
  <1>5. CASE PollComplete
    <2>1. /\ missed' = FALSE
          /\ cb' = FALSE \/ cb' = cb
          /\ UNCHANGED <<bug, was_up, stopped, xbusy, requeued, notify, irq>>
      BY <1>5, SMT DEF PollComplete
    <2> QED
      BY <2>1, Zenon DEF FlagsOK
  <1>6. CASE PollRecheck
    <2>1. UNCHANGED <<bug, was_up, stopped, xbusy, requeued, notify, irq>>
      BY <1>6, SMT DEF PollRecheck
    <2>2. PICK found : IF found
                       THEN /\ cb' = IF napi = "idle" THEN FALSE ELSE cb
                            /\ NapiSchedule
                       ELSE UNCHANGED <<cb, napi, missed>>
      BY <1>6, Zenon DEF PollRecheck
    <2>3. CASE found
      <3>1. /\ cb' = IF napi = "idle" THEN FALSE ELSE cb
            /\ missed' = (missed \/ napi # "idle")
        BY <2>2, <2>3, Zenon DEF NapiSchedule
      <3> QED
        BY <2>1, <3>1, Zenon DEF FlagsOK
    <2>4. CASE ~found
      <3>1. cb' = cb /\ missed' = missed
        BY <2>2, <2>4, Zenon
      <3> QED
        BY <2>1, <3>1, Zenon DEF FlagsOK
    <2> QED
      BY <2>3, <2>4, Zenon
  <1> QED
    BY <1>1, <1>2, <1>3, <1>4, <1>5, <1>6, Zenon DEF Poll

\* Open, close, restart, suspend, remove and probe.
LEMMA FlagsInterface ==
    ASSUME FlagsOK, Interface
    PROVE  FlagsOK'
  <1> USE DEF privVars, ifVars, xmitVars, irqVars, pollVars
  <1>1. CASE OpenStart \/ CloseAnswer \/ CloseDone \/ BusOff \/ RestartFlush
    <2>1. UNCHANGED flagVars
      BY <1>1, SMT DEF OpenStart, CloseAnswer, CloseDone, BusOff, RestartFlush, flagVars
    <2> QED
      BY <2>1, FlagsFrame
  <1>2. CASE OpenDone \/ SetModeStart
    <2>1. /\ stopped' = FALSE
          /\ UNCHANGED <<bug, was_up, xbusy, requeued, notify, cb, irq, missed>>
      BY <1>2, SMT DEF OpenDone, SetModeStart
    <2> QED
      BY <2>1, Zenon DEF FlagsOK
  <1>3. CASE CloseStop
    <2>1. /\ stopped' = TRUE /\ requeued' = FALSE
          /\ UNCHANGED <<bug, was_up, xbusy, notify, cb, irq, missed>>
      BY <1>3, SMT DEF CloseStop
    <2> QED
      BY <2>1, Zenon DEF FlagsOK
  <1>4. CASE FreezeStart
    <2>1. /\ was_up' = (ifs = "up")
          /\ stopped' = (stopped \/ ifs = "up")
          /\ UNCHANGED <<bug, xbusy, requeued, notify, cb, irq, missed>>
      BY <1>4, SMT DEF FreezeStart
    <2> QED
      BY <2>1, Zenon DEF FlagsOK
  <1>5. CASE FreezeDone
    <2>1. /\ notify' = FALSE
          /\ cb' = TRUE
          /\ irq' = FALSE
          /\ requeued' = (requeued \/ xmore > 0) \/ requeued' = requeued
          /\ UNCHANGED <<bug, was_up, stopped, xbusy, missed>>
      BY <1>5, SMT DEF FreezeDone, DelVq, FindVq
    <2> QED
      BY <2>1, Zenon DEF FlagsOK
  <1>6. CASE RestoreStart
    <2>1. /\ stopped' = (stopped /\ ~was_up)
          /\ UNCHANGED <<bug, was_up, xbusy, requeued, notify, cb, irq,
                         missed>>
      BY <1>6, SMT DEF RestoreStart
    <2> QED
      BY <2>1, Zenon DEF FlagsOK
  <1>7. CASE RestoreDone
    <2>1. /\ was_up' = FALSE
          /\ UNCHANGED <<bug, stopped, xbusy, requeued, notify, cb, irq,
                         missed>>
      BY <1>7, SMT DEF RestoreDone
    <2> QED
      BY <2>1, Zenon DEF FlagsOK
  <1>8. CASE Remove
    <2>1. /\ notify' = FALSE
          /\ cb' = TRUE
          /\ irq' = FALSE
          /\ UNCHANGED <<bug, was_up, stopped, xbusy, requeued, missed>>
      BY <1>8, SMT DEF Remove, DelVq, FindVq
    <2> QED
      BY <2>1, Zenon DEF FlagsOK
  <1>9. CASE Probe
    <2>1. /\ notify' = FALSE
          /\ cb' = TRUE
          /\ irq' = FALSE
          /\ stopped' = FALSE
          /\ missed' = FALSE
          /\ UNCHANGED <<bug, was_up, xbusy, requeued>>
      BY <1>9, SMT DEF Probe, FindVq
    <2> QED
      BY <2>1, Zenon DEF FlagsOK
  <1> QED
    BY <1>1, <1>2, <1>3, <1>4, <1>5, <1>6, <1>7, <1>8, <1>9, Zenon DEF Interface

\* Every step keeps the flags Boolean.
LEMMA FlagsStep ==
    ASSUME FlagsOK, Next
    PROVE  FlagsOK'
  BY FlagsXmitCall, FlagsXmit, FlagsDevice, FlagsPoll, FlagsInterface, Zenon DEF Next

(* Every step keeps lists, rings and slots typed. *)
LEMMA DataStep ==
    ASSUME FlagsOK, DataOK, CallBelowLimit, CallHasSkb, Next
    PROVE  DataOK'
  <1> USE TxAssumption, TxLimitBounds DEF DataOK, MaybeSkb, privVars, ifVars,
          xmitVars, vqVars, irqVars, pollVars
  <1>1. CASE XmitCall
    BY <1>1 DEF XmitCall, XmitDrop, XmitNoMem, XmitBegin, CanXmit
  <1>2. CASE Xmit
    <2>1. CASE XmitStopFull
      BY <2>1 DEF XmitStopFull, CallHasSkb
    <2>2. CASE XmitCheckSlots
      BY <2>2 DEF XmitCheckSlots
    <2>3. CASE XmitAlloc
      BY <2>3 DEF XmitAlloc, TxMsg, CallHasSkb, CallBelowLimit
    <2>4. CASE XmitPutEcho
      BY <2>4 DEF XmitPutEcho, CallHasSkb
    <2>5. CASE XmitAdd
      BY <2>5 DEF XmitAdd, DescCosts, TxMsg, CallHasSkb
    <2>9. CASE XmitAddLost
      BY <2>9 DEF XmitAddLost
    <2>6. CASE XmitAddFails
      BY <2>6 DEF XmitAddFails, ListDel, FreeTxIdx
    <2>7. CASE XmitStopNoSpace
      BY <2>7 DEF XmitStopNoSpace, CallHasSkb
    <2>8. CASE XmitKick
      BY <2>8 DEF XmitKick, Idx
    <2> QED
      BY <1>2, <2>1, <2>2, <2>3, <2>4, <2>5, <2>6, <2>7, <2>8, <2>9 DEF Xmit
  <1>3. CASE \E m \in avail : DevUse(m)
    BY <1>3, AppendProperties DEF DevUse
  <1>4. CASE DevNotify
    BY <1>4 DEF DevNotify
  <1>5. CASE TxIntr
    BY <1>5 DEF TxIntr, NapiSchedule
  <1>6. CASE Poll
    <2>1. CASE PollBegin
      BY <2>1 DEF PollBegin
    <2>2. CASE PollRead
      <3>1. Head(used) \in TxMsg /\ Tail(used) \in Seq(TxMsg)
        BY <2>2, HeadTailProperties DEF PollRead
      <3>2. Head(used).putidx \in Idx
        BY <3>1 DEF TxMsg
      <3>3. echo' \in [Idx -> MaybeSkb] /\ stack' \subseteq Skbs
        BY <2>2, <3>2 DEF PollRead, TakeEcho
      <3>4. /\ tx_putidx_free' \subseteq Idx
            /\ tx_inflight' \in 0 .. TxLimit
            /\ tx_list' \subseteq TxMsg
        BY <2>2, <3>2 DEF PollRead, ListDel, FreeTxIdx
      <3>5. num_free' \in Nat /\ descs' \in [Idx -> 0 .. 2]
        BY <2>2, <3>2 DEF PollRead
      <3>6. used' \in Seq(TxMsg) /\ work' \in 0 .. Quota /\ ppc' = "wake"
        BY <2>2, <3>1 DEF PollRead
      <3>7. UNCHANGED <<can_state, ifs, restart, xpc, xskb, xidx, xmore, torn,
                        avail, seen, napi, recheck>>
        BY <2>2 DEF PollRead
      <3> QED
        BY <3>3, <3>4, <3>5, <3>6, <3>7
    <2>3. CASE PollWake
      BY <2>3 DEF PollWake
    <2>4. CASE PollExhausted
      BY <2>4 DEF PollExhausted
    <2>5. CASE PollEmpty
      BY <2>5 DEF PollEmpty
    <2>6. CASE PollEnableCb
      BY <2>6 DEF PollEnableCb
    <2>7. CASE PollComplete
      BY <2>7 DEF PollComplete
    <2> QED
      BY <1>6, <2>1, <2>2, <2>3, <2>4, <2>5, <2>6, <2>7 DEF Poll
  <1>7. CASE PollRecheck
    <2>1. napi' \in {"off", "idle", "sched"} /\ recheck' = "none"
      BY <1>7 DEF PollRecheck, NapiSchedule
    <2>2. UNCHANGED <<tx_putidx_free, tx_inflight, tx_list, can_state, ifs,
                      restart, echo, stack, xpc, xskb, xidx, xmore, torn,
                      num_free, descs, avail, seen, used, ppc, work>>
      BY <1>7 DEF PollRecheck
    <2> QED
      BY <2>1, <2>2
  <1>8. CASE Interface
    <2>1. CASE OpenStart \/ OpenDone \/ CloseStop \/ CloseAnswer \/ BusOff
               \/ SetModeStart
      BY <2>1 DEF OpenStart, OpenDone, CloseStop, CloseAnswer, BusOff,
         SetModeStart, IfStates
    <2>2. CASE CloseDone \/ RestartFlush
      BY <2>2 DEF CloseDone, RestartFlush, FlushEcho, IfStates
    <2>3. CASE FreezeStart \/ RestoreStart \/ RestoreDone
      BY <2>3 DEF FreezeStart, RestoreStart, RestoreDone, IfStates
    <2>4. CASE FreezeDone
      BY <2>4 DEF FreezeDone, DelVq, FindVq, IfStates
    <2>5. CASE Remove
      BY <2>5 DEF Remove, DelVq, FindVq, IfStates
    <2>6. CASE Probe
      BY <2>6 DEF Probe, FindVq, IfStates
    <2> QED
      BY <1>8, <2>1, <2>2, <2>3, <2>4, <2>5, <2>6 DEF Interface
  <1> QED
    BY <1>1, <1>2, <1>3, <1>4, <1>5, <1>6, <1>7, <1>8 DEF Next

-----------------------------------------------------------------------------
(* Every step keeps the slot invariant. *)

\* The steps that matter to it change one of these variables.
slotVars == <<tx_putidx_free, tx_inflight, tx_list, bug, xpc, xskb, xidx,
              torn, avail, used, ifs, was_up>>

\* The part of SlotInv that is not about types.
SlotFacts ==
    /\ NoBugOn
    /\ SlotAccounting
    /\ IndexExclusive
    /\ RingBacked
    /\ CallBelowLimit
    /\ CallHasSkb
    /\ CallIndexed
    /\ CallListed
    /\ CallWhileRunning

(* Steps that leave indices, messages and ring alone keep the invariant. *)
LEMMA SlotFrame ==
    ASSUME SlotFacts, UNCHANGED slotVars
    PROVE  SlotFacts'
  BY DEF SlotFacts, slotVars, NoBugOn, SlotAccounting, IndexExclusive,
         RingBacked, Ring, CallBelowLimit, CallHasSkb, CallIndexed, CallListed,
         CallMsg, CallWhileRunning, Running

\* The allocation: the only step that takes an index.
LEMMA AllocStep ==
    ASSUME SlotInv, XmitAlloc
    PROVE  SlotFacts'
  <1> USE DEF SlotInv, TypeOK, DataOK
  <1>1. Cardinality(tx_putidx_free) \in Nat
    BY IdxFinite, FS_Subset, FS_CardinalityType
  <1>2. tx_inflight < EchoSkbMax /\ tx_putidx_free # {}
    <2>1. tx_inflight < EchoSkbMax
      BY TxLimitBounds, TxAssumption DEF XmitAlloc, CallBelowLimit
    <2>2. Cardinality(tx_putidx_free) # 0
      BY <1>1, <2>1, TxLimitBounds, TxAssumption DEF SlotAccounting
    <2> QED
      BY <2>1, <2>2, FS_EmptySet
  <1>3. PICK i \in tx_putidx_free :
            /\ tx_putidx_free' = tx_putidx_free \ {i}
            /\ tx_inflight' = tx_inflight + 1
            /\ tx_list' = tx_list \cup {[putidx |-> i, skb |-> xskb]}
            /\ xidx' = i
            /\ xpc' = "echo"
            /\ bug' = bug
    BY <1>2, TxAssumption, TxLimitBounds DEF XmitAlloc
  <1>4. UNCHANGED <<xskb, torn, avail, used, ifs, was_up>> /\ Ring' = Ring
    BY DEF XmitAlloc, ifVars, vqVars, Ring
  <1>5. CallMsg' = [putidx |-> i, skb |-> xskb]
    BY <1>3, <1>4 DEF CallMsg
  <1>6. \A m \in tx_list \cup Ring : m.putidx # i
    BY <1>3 DEF IndexExclusive
  <1>7. NoBugOn' /\ CallBelowLimit' /\ CallWhileRunning' /\ CallHasSkb'
    BY <1>3, <1>4 DEF NoBugOn, CallBelowLimit, CallWhileRunning, Running,
                      CallHasSkb, XmitAlloc
  <1>8. SlotAccounting'
    BY <1>1, <1>3, TakeOne, TxLimitBounds, TxAssumption DEF SlotAccounting
  <1>9. IndexExclusive'
    <2>1. \A m \in tx_list' \cup Ring' :
              m = CallMsg' \/ (m \in tx_list \cup Ring /\ m.putidx # i)
      BY <1>3, <1>4, <1>5, <1>6
    <2>2. CallMsg'.putidx = i
      BY <1>5
    <2>3. \A m \in tx_list' \cup Ring' :
              /\ m.putidx \notin tx_putidx_free'
              /\ \A n \in tx_list' \cup Ring' : n.putidx = m.putidx => n = m
      BY <1>3, <2>1, <2>2 DEF IndexExclusive
    <2> QED
      BY <1>4, <2>3 DEF IndexExclusive
  <1>10. RingBacked'
    BY <1>3, <1>4 DEF RingBacked
  <1>11. CallIndexed' /\ CallListed'
    BY <1>3, <1>4, <1>5, <1>6 DEF CallIndexed, CallListed
  <1> QED
    BY <1>7, <1>8, <1>9, <1>10, <1>11 DEF SlotFacts

\* Giving an index back never meets the BUG_ON of virtio_can_free_tx_idx, as
\* long as the index is in use.
LEMMA FreeTxIdxStep ==
    ASSUME TypeOK, NoBugOn, SlotAccounting,
           NEW i \in Idx, i \notin tx_putidx_free, FreeTxIdx(i)
    PROVE  /\ ~bug'
           /\ tx_putidx_free' = tx_putidx_free \cup {i}
           /\ tx_inflight' = tx_inflight - 1
           /\ tx_inflight > 0
           /\ SlotAccounting'
  <1>1. /\ Cardinality(tx_putidx_free) \in Nat
        /\ Cardinality(tx_putidx_free) < EchoSkbMax
        /\ Cardinality(tx_putidx_free \cup {i})
             = Cardinality(tx_putidx_free) + 1
    BY FreeOne DEF TypeOK, DataOK
  <1>2. tx_inflight \in Nat /\ tx_inflight > 0
    BY <1>1, TxAssumption, TxLimitBounds DEF SlotAccounting, TypeOK, DataOK
  <1>3. ~bug'
    <2>1. tx_inflight # 0 /\ bug' = (bug \/ tx_inflight = 0)
      BY <1>2 DEF FreeTxIdx
    <2> QED
      BY <2>1, Zenon DEF NoBugOn
  <1>4. tx_putidx_free' = tx_putidx_free \cup {i} /\ tx_inflight' = tx_inflight - 1
    BY <1>2 DEF FreeTxIdx
  <1> QED
    BY <1>1, <1>2, <1>3, <1>4, TxAssumption DEF SlotAccounting

\* Messages that leave tx_list or the ring, and indices that are taken off
\* the free list or belonged to them, keep the indices exclusive.
LEMMA ExclusiveShrinks ==
    ASSUME IndexExclusive,
           tx_list' \subseteq tx_list, Ring' \subseteq Ring,
           \A m \in tx_list' \cup Ring' : m.putidx \notin tx_putidx_free',
           \A k \in DOMAIN used' :
               /\ used'[k] \notin avail'
               /\ \A l \in DOMAIN used' : used'[k] = used'[l] => k = l
    PROVE  IndexExclusive'
  BY DEF IndexExclusive

\* The poll reaps a message.
LEMMA ReadStep ==
    ASSUME SlotInv, PollRead
    PROVE  SlotFacts'
  <1> USE DEF SlotInv
  <1> DEFINE m == Head(used)
  <1>1. /\ used \in Seq(TxMsg) /\ used # <<>>
        /\ used' = Tail(used)
        /\ tx_list' = tx_list \ {m}
        /\ FreeTxIdx(m.putidx)
        /\ UNCHANGED <<xpc, xskb, xidx, torn, avail, ifs, was_up>>
    BY DEF PollRead, ListDel, TypeOK, DataOK, xmitVars, ifVars
  <1>2. /\ 1 \in DOMAIN used /\ m = used[1] /\ m \in TxMsg
        /\ Len(used) \in Nat /\ DOMAIN used = 1 .. Len(used)
        /\ DOMAIN Tail(used) = 1 .. Len(used) - 1
        /\ \A k \in DOMAIN Tail(used) : Tail(used)[k] = used[k + 1]
    BY <1>1, HeadTailProperties, LenProperties
  <1>3. m \in Ring /\ m.putidx \in Idx /\ m.putidx \notin tx_putidx_free
    BY <1>2 DEF Ring, IndexExclusive, TxMsg
  <1>4. /\ ~bug'
        /\ tx_putidx_free' = tx_putidx_free \cup {m.putidx}
        /\ tx_inflight' = tx_inflight - 1
        /\ tx_inflight > 0
        /\ SlotAccounting'
    BY <1>1, <1>3, FreeTxIdxStep
  <1>5. NoBugOn' /\ CallHasSkb' /\ CallWhileRunning'
    BY <1>1, <1>4 DEF NoBugOn, CallHasSkb, CallWhileRunning, Running
  <1>6. CallBelowLimit'
    BY <1>1, <1>4, TxLimitBounds DEF CallBelowLimit, TypeOK, DataOK
  <1>7. \A k \in DOMAIN used' :
            /\ k + 1 \in DOMAIN used /\ k + 1 # 1
            /\ used'[k] = used[k + 1]
    BY <1>1, <1>2
  <1>8. /\ \A k \in DOMAIN used' : used'[k] \in Ring /\ used'[k] # m
        /\ \A k \in DOMAIN used' : used'[k] \notin avail'
    BY <1>1, <1>2, <1>7 DEF Ring, IndexExclusive
  <1>9. Ring' \subseteq Ring \ {m}
    BY <1>1, <1>2, <1>8 DEF Ring, IndexExclusive
  <1>10. \A n \in tx_list' \cup Ring' : n.putidx # m.putidx
    BY <1>1, <1>3, <1>9 DEF IndexExclusive
  <1>11. ASSUME NEW k \in DOMAIN used', NEW l \in DOMAIN used',
                used'[k] = used'[l]
         PROVE  k = l
    <2>1. k + 1 = l + 1
      BY <1>7, <1>11 DEF IndexExclusive
    <2> QED
      BY <2>1, <1>1, <1>2
  <1>12. \A n \in tx_list' \cup Ring' : n.putidx \notin tx_putidx_free'
    BY <1>1, <1>4, <1>9, <1>10 DEF IndexExclusive
  <1>13. IndexExclusive'
    BY <1>1, <1>8, <1>9, <1>11, <1>12, ExclusiveShrinks
  <1>14. RingBacked'
    BY <1>1, <1>9 DEF RingBacked
  <1>15. CallIndexed' /\ CallListed'
    <2> SUFFICES ASSUME xpc \in {"echo", "add"} PROVE CallIndexed' /\ CallListed'
      BY <1>1 DEF CallIndexed, CallListed
    <2>1. CallMsg' = CallMsg /\ CallMsg.putidx = xidx
      BY <1>1 DEF CallMsg
    <2>2. m.putidx # xidx
      BY <1>3 DEF CallIndexed
    <2> QED
      BY <1>1, <1>4, <1>9, <2>1, <2>2 DEF CallIndexed, CallListed
  <1> QED
    BY <1>4, <1>5, <1>6, <1>13, <1>14, <1>15 DEF SlotFacts

\* virtqueue_add_sgs fails and the call takes its message back.
LEMMA AddFailsStep ==
    ASSUME SlotInv, XmitAddFails
    PROVE  SlotFacts'
  <1> USE DEF SlotInv
  <1>1. /\ xpc = "add" /\ xpc' = "nospace"
        /\ tx_list' = tx_list \ {CallMsg}
        /\ FreeTxIdx(xidx)
        /\ UNCHANGED <<xskb, xidx, torn, avail, used, ifs, was_up>>
    BY DEF XmitAddFails, ListDel, CallMsg, vqVars, ifVars
  <1>2. xidx \in Idx /\ xidx \notin tx_putidx_free
    BY <1>1 DEF CallIndexed, TypeOK, DataOK
  <1>3. /\ ~bug'
        /\ tx_putidx_free' = tx_putidx_free \cup {xidx}
        /\ SlotAccounting'
    BY <1>1, <1>2, FreeTxIdxStep
  <1>4. NoBugOn' /\ CallBelowLimit' /\ CallHasSkb' /\ CallIndexed'
        /\ CallListed' /\ CallWhileRunning'
    BY <1>1, <1>3 DEF NoBugOn, CallBelowLimit, CallHasSkb, CallIndexed,
                      CallListed, CallWhileRunning, Running
  <1>5. Ring' = Ring /\ \A m \in tx_list' \cup Ring : m.putidx # xidx
    BY <1>1 DEF Ring, CallIndexed
  <1>6. \A m \in tx_list' \cup Ring' : m.putidx \notin tx_putidx_free'
    BY <1>1, <1>3, <1>5 DEF IndexExclusive
  <1>7. \A k \in DOMAIN used' :
            /\ used'[k] \notin avail'
            /\ \A l \in DOMAIN used' : used'[k] = used'[l] => k = l
    BY <1>1 DEF IndexExclusive
  <1>8. IndexExclusive'
    BY <1>1, <1>5, <1>6, <1>7, ExclusiveShrinks
  <1>9. RingBacked'
    BY <1>1, <1>5 DEF RingBacked, CallMsg
  <1> QED
    BY <1>3, <1>4, <1>8, <1>9 DEF SlotFacts

\* The message of the call enters the ring.
LEMMA AddStep ==
    ASSUME SlotInv, XmitAdd
    PROVE  SlotFacts'
  <1> USE DEF SlotInv
  <1>1. /\ xpc = "add" /\ xpc' = "kick"
        /\ avail' = avail \cup {CallMsg}
        /\ UNCHANGED <<tx_putidx_free, tx_inflight, tx_list, bug, xskb, xidx,
                       torn, used, ifs, was_up>>
    BY DEF XmitAdd, CallMsg, privVars, ifVars
  <1>2. Ring' = Ring \cup {CallMsg} /\ CallMsg.putidx = xidx
    BY <1>1 DEF Ring, CallMsg
  <1>3. RingBacked'
    BY <1>1, <1>2 DEF RingBacked, CallListed
  <1>4. CallWhileRunning'
    BY <1>1 DEF CallWhileRunning, Running
  <1>5. /\ xidx \notin tx_putidx_free
        /\ \A m \in tx_list : m.putidx = xidx => m = CallMsg
        /\ \A m \in Ring : m.putidx # xidx
    BY <1>1 DEF CallIndexed
  <1>6. \A m \in tx_list' \cup Ring' :
            /\ m.putidx \notin tx_putidx_free'
            /\ \A n \in tx_list' \cup Ring' : n.putidx = m.putidx => n = m
    <2>1. \A m \in tx_list' \cup Ring' : m = CallMsg \/ m \in tx_list \cup Ring
      BY <1>1, <1>2
    <2> QED
      BY <1>1, <1>2, <1>5, <2>1 DEF IndexExclusive
  <1>7. \A k \in DOMAIN used' : used'[k] \in Ring /\ used'[k] \notin avail'
    BY <1>1, <1>2, <1>5 DEF Ring, IndexExclusive
  <1>8. IndexExclusive'
    BY <1>1, <1>6, <1>7 DEF IndexExclusive
  <1> QED
    BY <1>1, <1>3, <1>4, <1>8 DEF SlotFacts, NoBugOn, SlotAccounting,
       CallBelowLimit, CallHasSkb, CallIndexed, CallListed

\* The device returns a message.
LEMMA UseStep ==
    ASSUME SlotInv, NEW m \in avail, DevUse(m)
    PROVE  SlotFacts'
  <1> USE DEF SlotInv
  <1>1. /\ used \in Seq(TxMsg) /\ m \in TxMsg
        /\ avail' = avail \ {m}
        /\ used' = Append(used, m)
        /\ UNCHANGED <<tx_putidx_free, tx_inflight, tx_list, bug, xpc, xskb,
                       xidx, torn, ifs, was_up>>
    BY DEF DevUse, privVars, ifVars, xmitVars, TypeOK, DataOK
  <1>2. /\ Len(used) \in Nat /\ DOMAIN used = 1 .. Len(used)
        /\ DOMAIN used' = 1 .. Len(used) + 1
        /\ used'[Len(used) + 1] = m
        /\ \A k \in DOMAIN used : used'[k] = used[k]
    BY <1>1, AppendProperties, LenProperties
  <1>3. \A k \in DOMAIN used' :
            \/ k \in DOMAIN used /\ used'[k] = used[k] /\ used'[k] # m
            \/ k = Len(used) + 1 /\ used'[k] = m
    BY <1>2 DEF IndexExclusive
  <1>4. Ring' \subseteq Ring
    BY <1>1, <1>3 DEF Ring
  <1>5. \A k \in DOMAIN used' :
            /\ used'[k] \notin avail'
            /\ \A l \in DOMAIN used' : used'[k] = used'[l] => k = l
    BY <1>1, <1>3 DEF IndexExclusive
  <1>6. IndexExclusive'
    <2>1. \A n \in tx_list' \cup Ring' : n.putidx \notin tx_putidx_free'
      BY <1>1, <1>4 DEF IndexExclusive
    <2> QED
      BY <1>1, <1>4, <1>5, <2>1, ExclusiveShrinks
  <1>7. RingBacked' /\ CallIndexed' /\ CallListed'
    BY <1>1, <1>4 DEF RingBacked, CallIndexed, CallListed, CallMsg
  <1> QED
    BY <1>1, <1>6, <1>7 DEF SlotFacts, NoBugOn, SlotAccounting,
       CallBelowLimit, CallHasSkb, CallWhileRunning, Running

\* The other steps of start_xmit.
LEMMA CallStep ==
    ASSUME SlotInv,
           XmitCall \/ XmitStopFull \/ XmitCheckSlots \/ XmitPutEcho
           \/ XmitAddLost \/ XmitStopNoSpace \/ XmitKick
    PROVE  SlotFacts'
  <1> USE DEF SlotInv, XmitCall, XmitDrop, XmitNoMem, XmitBegin, XmitStopFull,
              XmitCheckSlots, XmitPutEcho, XmitAddLost, XmitStopNoSpace, XmitKick
  <1>1. /\ UNCHANGED <<tx_putidx_free, tx_inflight, tx_list, bug, avail, used,
                       ifs, was_up>>
        /\ xpc' # "idle" =>
               Running \/ (ifs \in {"freezing", "frozen"} /\ was_up)
    BY DEF CanXmit, privVars, ifVars, vqVars, CallWhileRunning
  <1>2. Ring' = Ring
    BY <1>1 DEF Ring
  <1>3. CallBelowLimit'
    BY <1>1, TxLimitBounds DEF CallBelowLimit, TypeOK, DataOK
  <1>4. CallHasSkb'
    BY DEF CallHasSkb
  <1>5. /\ xpc' \in {"echo", "add"} => xpc = "echo" /\ UNCHANGED <<xskb, xidx>>
        /\ torn' = "no" => torn = "no"
    <2>1. CASE XmitCall
      BY <2>1 DEF xmitVars
    <2>2. CASE XmitStopFull \/ XmitCheckSlots \/ XmitPutEcho \/ XmitAddLost
               \/ XmitStopNoSpace \/ XmitKick
      BY <2>2 DEF xmitVars
    <2> QED
      BY <2>1, <2>2
  <1>6. CallIndexed' /\ CallListed' /\ RingBacked'
    BY <1>1, <1>2, <1>5 DEF CallIndexed, CallListed, CallMsg, RingBacked
  <1> QED
    BY <1>1, <1>2, <1>3, <1>4, <1>6 DEF SlotFacts, NoBugOn, SlotAccounting,
       IndexExclusive, CallWhileRunning, Running

\* The operations of the interface.
LEMMA InterfaceStep ==
    ASSUME SlotInv, Interface
    PROVE  SlotFacts'
  <1> USE DEF SlotInv
  <1>1. CASE OpenStart \/ OpenDone \/ CloseStop \/ CloseAnswer \/ CloseDone
             \/ BusOff \/ RestartFlush \/ SetModeStart \/ FreezeStart
             \/ RestoreStart \/ RestoreDone
    <2>1. UNCHANGED <<tx_putidx_free, tx_inflight, tx_list, bug, xpc, xskb,
                      xidx, torn, avail, used>>
      BY <1>1 DEF OpenStart, OpenDone, CloseStop, CloseAnswer, CloseDone,
         BusOff, RestartFlush, SetModeStart, FreezeStart, RestoreStart,
         RestoreDone, privVars, xmitVars, vqVars
    <2>2. CallWhileRunning'
      BY <1>1, <2>1 DEF OpenStart, OpenDone, CloseStop, CloseAnswer, CloseDone,
         BusOff, RestartFlush, SetModeStart, FreezeStart, RestoreStart,
         RestoreDone, CallWhileRunning, Running, QuietXmit
    <2> QED
      BY <2>1, <2>2 DEF SlotFacts, NoBugOn, SlotAccounting, IndexExclusive,
         RingBacked, Ring, CallBelowLimit, CallHasSkb, CallIndexed, CallListed,
         CallMsg
  <1>2. CASE FreezeDone \/ Remove \/ Probe
    <2>1. /\ tx_list' = {} /\ avail' = {} /\ used' = <<>>
          /\ bug' = bug /\ UNCHANGED <<xpc, xskb, xidx>>
          /\ xpc # "idle" => /\ torn' # "no" /\ ifs' = "frozen"
                             /\ was_up' = was_up
                             /\ UNCHANGED <<tx_putidx_free, tx_inflight>>
      BY <1>2 DEF FreezeDone, Remove, Probe, DelVq, FindVq, xmitVars,
         CallWhileRunning, Running
    <2>2. SlotAccounting'
      <3>1. CASE UNCHANGED <<tx_putidx_free, tx_inflight>>
        BY <3>1 DEF SlotAccounting
      <3>2. CASE tx_putidx_free' = Idx /\ tx_inflight' = 0
        BY <3>2, IdxFinite, TxAssumption DEF SlotAccounting
      <3> QED
        BY <1>2, <3>1, <3>2 DEF FreezeDone, Remove, Probe
    <2>3. Ring' = {}
      BY <2>1 DEF Ring
    <2>4. CallWhileRunning'
      <3>1. xpc # "idle" => was_up
        BY <1>2 DEF FreezeDone, Remove, Probe, CallWhileRunning, Running
      <3> QED
        BY <2>1, <3>1 DEF CallWhileRunning
    <2> QED
      BY <2>1, <2>2, <2>3, <2>4 DEF SlotFacts, NoBugOn, IndexExclusive,
         RingBacked, CallBelowLimit, CallHasSkb, CallIndexed, CallListed
  <1> QED
    BY <1>1, <1>2 DEF Interface

(* Every step keeps SlotInv. *)
LEMMA SlotStep ==
    ASSUME SlotInv, [Next]_vars
    PROVE  SlotInv'
  <1>1. CASE Next
    <2>1. TypeOK'
      BY <1>1, FlagsStep, DataStep DEF SlotInv, TypeOK
    <2> SUFFICES SlotFacts'
      BY <2>1 DEF SlotInv, SlotFacts
    <2>2. SlotFacts
      BY DEF SlotInv, SlotFacts
    <2>3. CASE XmitCall
      BY <2>3, CallStep
    <2>4. CASE Xmit
      BY <2>4, CallStep, AllocStep, AddStep, AddFailsStep DEF Xmit
    <2>5. CASE \E m \in avail : DevUse(m)
      BY <2>5, UseStep
    <2>6. CASE DevNotify \/ TxIntr \/ PollRecheck
      <3>1. UNCHANGED slotVars
        BY <2>6 DEF DevNotify, TxIntr, PollRecheck, slotVars, privVars, ifVars,
           xmitVars, vqVars
      <3> QED
        BY <2>2, <3>1, SlotFrame
    <2>7. CASE Poll
      <3>1. CASE PollRead
        BY <3>1, ReadStep
      <3>2. CASE PollBegin \/ PollWake \/ PollExhausted \/ PollEmpty
                 \/ PollEnableCb \/ PollComplete
        <4>1. UNCHANGED slotVars
          BY <3>2 DEF PollBegin, PollWake, PollExhausted, PollEmpty,
             PollEnableCb, PollComplete, slotVars, privVars, ifVars, xmitVars,
             vqVars
        <4> QED
          BY <2>2, <4>1, SlotFrame
      <3> QED
        BY <2>7, <3>1, <3>2 DEF Poll
    <2>8. CASE Interface
      BY <2>8, InterfaceStep
    <2> QED
      BY <1>1, <2>3, <2>4, <2>5, <2>6, <2>7, <2>8 DEF Next
  <1>2. CASE UNCHANGED vars
    <2>1. TypeOK'
      BY <1>2 DEF SlotInv, TypeOK, FlagsOK, DataOK, vars, privVars, ifVars,
         xmitVars, vqVars, irqVars, pollVars
    <2>2. SlotFacts'
      BY <1>2, SlotFrame DEF SlotInv, SlotFacts, slotVars, vars, privVars,
         ifVars, xmitVars, vqVars
    <2> QED
      BY <2>1, <2>2 DEF SlotInv, SlotFacts
  <1> QED
    BY <1>1, <1>2

(* SlotInv holds after virtio_can_probe. *)
LEMMA SlotInit ==
    ASSUME Init
    PROVE  SlotInv
  <1>1. FlagsOK
    BY DEF Init, FlagsOK
  <1>2. DataOK
    BY TxAssumption, TxLimitBounds DEF Init, DataOK, MaybeSkb, IfStates, Idx
  <1>3. SlotAccounting
    BY IdxFinite, TxAssumption DEF Init, SlotAccounting
  <1> QED
    BY <1>1, <1>2, <1>3 DEF Init, SlotInv, TypeOK, NoBugOn, IndexExclusive,
       RingBacked, Ring, CallBelowLimit, CallHasSkb, CallIndexed, CallListed,
       CallWhileRunning

-----------------------------------------------------------------------------
(* Theorems. *)

\* The slot invariant holds in every reachable state of the transmit path, also
\* after a suspend has deleted the queue under a call.
THEOREM SlotInvariant == Spec => []SlotInv
  BY SlotInit, SlotStep, PTL DEF Spec

\* Types, and with them: tx_inflight never exceeds tx_limit.
THEOREM TypeCorrect == Spec => []TypeOK
  <1>1. SlotInv => TypeOK
    BY DEF SlotInv
  <1> QED
    BY <1>1, SlotInvariant, PTL

\* No BUG_ON of the transmit path is ever reached.
THEOREM BugOnUnreachable == Spec => []NoBugOn
  <1>1. SlotInv => NoBugOn
    BY DEF SlotInv
  <1> QED
    BY <1>1, SlotInvariant, PTL

\* Free list and counter agree in every state, through suspend and removal.
THEOREM SlotsAccounted == Spec => []SlotAccounting
  <1>1. SlotInv => SlotAccounting
    BY DEF SlotInv
  <1> QED
    BY <1>1, SlotInvariant, PTL

\* No two messages on tx_list or in the ring share an index, and none of them
\* has an index that is free.
THEOREM IndicesExclusive == Spec => []IndexExclusive
  <1>1. SlotInv => IndexExclusive
    BY DEF SlotInv
  <1> QED
    BY <1>1, SlotInvariant, PTL

\* Until a suspend cuts a call of start_xmit, the ring holds only messages the
\* driver still owns.
THEOREM RingIsBacked == Spec => []RingBacked
  <1>1. SlotInv => RingBacked
    BY DEF SlotInv
  <1> QED
    BY <1>1, SlotInvariant, PTL

-----------------------------------------------------------------------------
(* The ring always has room: a second invariant, on top of the first. *)

\* Descriptors that n messages take when no indirect table fails.
Cost(n) == IF Indirect THEN n ELSE 2 * n

\* What is not free belongs to messages counted in tx_inflight; the message
\* of a call that is not in the ring yet is counted but holds nothing.
RoomInv ==
    /\ xpc = "nospace" => torn = "now"
    /\ \A m \in Ring : descs[m.putidx] = Cost(1)
    /\ num_free + Cost(tx_inflight)
         >= VqSize + (IF xpc \in {"echo", "add"} THEN Cost(1) ELSE 0)

\* Messages cost descriptors, and some cost at least as much as one.
LEMMA CostNat ==
    ASSUME NEW n \in Nat
    PROVE  Cost(n) \in Nat /\ (n > 0 => Cost(n) >= Cost(1))
  <1>1. CASE Indirect
    BY <1>1 DEF Cost
  <1>2. CASE ~Indirect
    BY <1>2 DEF Cost
  <1> QED
    BY <1>1, <1>2

(* Without failing allocations every step keeps RoomInv. *)
LEMMA RoomStep ==
    ASSUME ~MemPressure, SlotInv, SlotInv', RoomInv, Next
    PROVE  RoomInv'
  <1> USE TxAssumption, TxLimitBounds
  <1>1. DescCosts = {Cost(1)}
    BY DEF DescCosts, Cost
  <1>2. /\ num_free \in Nat /\ tx_inflight \in Nat /\ tx_inflight <= TxLimit
        /\ descs \in [Idx -> 0 .. 2]
        /\ xidx \in Idx
        /\ used \in Seq(TxMsg)
        /\ \A m \in Ring : m.putidx \in Idx
    <2>1. DOMAIN used = 1 .. Len(used) /\ \A k \in 1 .. Len(used) : used[k] \in TxMsg
      BY LenProperties DEF SlotInv, TypeOK, DataOK
    <2> QED
      BY <2>1 DEF SlotInv, TypeOK, DataOK, TxMsg, Ring
  <1>3. CASE XmitAlloc
    <2>1. UNCHANGED <<num_free, descs, avail, used, torn>> /\ xpc = "alloc"
      BY <1>3 DEF XmitAlloc, vqVars
    <2>2. xpc' = "echo" /\ tx_inflight' = tx_inflight + 1
      <3>1. ~bug'
        BY DEF SlotInv, NoBugOn
      <3> QED
        BY <1>3, <3>1 DEF XmitAlloc
    <2> QED
      BY <1>2, <2>1, <2>2 DEF RoomInv, Cost, Ring
  <1>4. CASE XmitAdd
    <2>1. /\ xpc = "add" /\ xpc' = "kick"
          /\ num_free >= Cost(1)
          /\ num_free' = num_free - Cost(1)
          /\ descs' = [descs EXCEPT ![xidx] = Cost(1)]
          /\ avail' = avail \cup {CallMsg}
          /\ UNCHANGED <<tx_inflight, used>>
      BY <1>1, <1>4 DEF XmitAdd, CallMsg, privVars
    <2>2. \A m \in Ring' : descs'[m.putidx] = Cost(1)
      BY <1>2, <2>1 DEF RoomInv, Ring, CallMsg
    <2> QED
      BY <1>2, <2>1, <2>2 DEF RoomInv, Cost
  <1>5. CASE XmitAddFails
    <2>1. /\ xpc = "add" /\ xpc' = "nospace"
          /\ torn = "now" \/ num_free < Cost(1)
          /\ tx_inflight' = IF tx_inflight = 0 THEN 0 ELSE tx_inflight - 1
          /\ UNCHANGED <<num_free, descs, avail, used, torn>>
      BY <1>1, <1>5 DEF XmitAddFails, FreeTxIdx, vqVars
    <2>2. ~(num_free < Cost(1))
      BY <1>2, <2>1 DEF RoomInv, Cost
    <2>3. num_free' + Cost(tx_inflight') >= VqSize
      BY <1>2, <2>1 DEF RoomInv, Cost
    <2>4. \A m \in Ring' : descs'[m.putidx] = Cost(1)
      BY <2>1 DEF RoomInv, Ring
    <2> QED
      BY <2>1, <2>2, <2>3, <2>4 DEF RoomInv
  <1>6. CASE PollRead
    <2> DEFINE h == Head(used)
    <2>1. /\ used # <<>>
          /\ used' = Tail(used)
          /\ num_free' = num_free + descs[h.putidx]
          /\ descs' = [descs EXCEPT ![h.putidx] = 0]
          /\ tx_inflight' = IF tx_inflight = 0 THEN 0 ELSE tx_inflight - 1
          /\ UNCHANGED <<xpc, torn, avail>>
      BY <1>6 DEF PollRead, ListDel, FreeTxIdx, xmitVars
    <2>2. h \in Ring
      BY <1>2, <2>1, HeadTailProperties, LenProperties DEF Ring
    <2>3. Ring' \subseteq Ring
      BY <1>2, <2>1, HeadTailProperties, LenProperties DEF Ring
    <2>4. \A m \in Ring' : m.putidx # h.putidx
      <3>1. h.putidx \in tx_putidx_free'
        BY <1>6 DEF PollRead, FreeTxIdx
      <3> QED
        BY <3>1 DEF SlotInv, IndexExclusive
    <2>5. \A m \in Ring' : descs'[m.putidx] = Cost(1)
      BY <1>2, <2>1, <2>3, <2>4 DEF RoomInv
    <2>6. descs[h.putidx] = Cost(1)
      BY <2>2 DEF RoomInv
    <2>7. /\ num_free' = num_free + Cost(1)
          /\ Cost(tx_inflight') + Cost(1) >= Cost(tx_inflight)
      BY <1>2, <2>1, <2>6 DEF Cost
    <2>8. Cost(1) \in Nat /\ Cost(tx_inflight) \in Nat /\ Cost(tx_inflight') \in Nat
      BY <1>2, <2>1 DEF Cost
    <2> DEFINE Pending == IF xpc \in {"echo", "add"} THEN Cost(1) ELSE 0
    <2>9. /\ xpc' = "nospace" => torn' = "now"
          /\ num_free + Cost(tx_inflight) >= VqSize + Pending
          /\ Pending' = Pending
      BY <1>2, <2>1 DEF RoomInv
    <2>10. Pending \in Nat /\ num_free \in Nat /\ VqSize \in Nat
      BY <1>2, <2>8, TxAssumption
    <2>11. num_free' + Cost(tx_inflight') >= VqSize + Pending
      <3> HIDE DEF Pending
      <3> QED
        BY <2>7, <2>8, <2>9, <2>10
    <2> QED
      BY <2>5, <2>9, <2>11 DEF RoomInv
  <1>7. CASE \E m \in avail : DevUse(m)
    <2>1. PICK m \in avail :
              /\ avail' = avail \ {m}
              /\ used' = Append(used, m)
              /\ UNCHANGED <<num_free, descs, tx_inflight, xpc, torn>>
      BY <1>7 DEF DevUse, privVars, xmitVars
    <2>2. Ring' \subseteq Ring
      BY <1>2, <2>1, AppendProperties, LenProperties DEF Ring
    <2> QED
      BY <2>1, <2>2 DEF RoomInv, Cost
  <1>8. CASE FreezeDone \/ Remove \/ Probe
    <2>1. /\ num_free' = VqSize /\ avail' = {} /\ used' = <<>>
          /\ xpc' # "idle" => torn' = "now"
      BY <1>8 DEF FreezeDone, Remove, Probe, DelVq, FindVq, xmitVars, SlotInv,
         CallWhileRunning, Running
    <2>2. tx_inflight' \in Nat /\ (xpc' \in {"echo", "add"} => tx_inflight' > 0)
      <3>1. tx_inflight' \in Nat
        BY DEF SlotInv, TypeOK, DataOK
      <3>2. ASSUME xpc' \in {"echo", "add"} PROVE tx_inflight' > 0
        <4>1. xidx' \in Idx /\ xidx' \notin tx_putidx_free'
              /\ tx_putidx_free' \in SUBSET Idx
          BY <3>2 DEF SlotInv, CallIndexed, TypeOK, DataOK
        <4>2. Cardinality(tx_putidx_free') \in Nat
              /\ Cardinality(tx_putidx_free') < EchoSkbMax
          BY <4>1, FreeOne
        <4> QED
          BY <3>1, <4>2 DEF SlotInv, SlotAccounting
      <3> QED
        BY <3>1, <3>2
    <2>3. \A m \in Ring' : descs'[m.putidx] = Cost(1)
      BY <2>1 DEF Ring
    <2>4. num_free' + Cost(tx_inflight')
            >= VqSize + (IF xpc' \in {"echo", "add"} THEN Cost(1) ELSE 0)
      <3>1. Cost(tx_inflight') \in Nat /\ Cost(1) \in Nat
        BY <2>2, CostNat
      <3>2. tx_inflight' > 0 => Cost(tx_inflight') >= Cost(1)
        BY <2>2, CostNat
      <3>3. CASE xpc' \in {"echo", "add"}
        BY <2>1, <2>2, <3>1, <3>2, <3>3, TxAssumption
      <3>4. CASE ~(xpc' \in {"echo", "add"})
        BY <2>1, <3>1, <3>4, TxAssumption
      <3> QED
        BY <3>3, <3>4
    <2> QED
      BY <2>1, <2>3, <2>4 DEF RoomInv
  <1>9. CASE XmitCall \/ XmitStopFull \/ XmitCheckSlots \/ XmitPutEcho
             \/ XmitAddLost \/ XmitStopNoSpace \/ XmitKick
    <2>1. /\ UNCHANGED <<num_free, descs, tx_inflight, avail, used>>
          /\ xpc' # "nospace"
          /\ xpc' \in {"echo", "add"} => xpc \in {"echo", "add"}
      BY <1>9 DEF XmitCall, XmitDrop, XmitNoMem, XmitBegin, XmitStopFull,
         XmitCheckSlots, XmitPutEcho, XmitAddLost, XmitStopNoSpace, XmitKick,
         privVars, vqVars
    <2> QED
      BY <1>2, <2>1 DEF RoomInv, Cost, Ring
  <1>10. CASE DevNotify \/ TxIntr \/ PollRecheck \/ PollBegin \/ PollWake
              \/ PollExhausted \/ PollEmpty \/ PollEnableCb \/ PollComplete
    <2>1. UNCHANGED <<xpc, torn, num_free, descs, tx_inflight, avail, used>>
      BY <1>10 DEF DevNotify, TxIntr, PollRecheck, PollBegin, PollWake,
         PollExhausted, PollEmpty, PollEnableCb, PollComplete, privVars,
         xmitVars, vqVars
    <2> QED
      BY <2>1 DEF RoomInv, Cost, Ring
  <1>11. CASE OpenStart \/ OpenDone \/ CloseStop \/ CloseAnswer \/ CloseDone
              \/ BusOff \/ RestartFlush \/ SetModeStart \/ FreezeStart
              \/ RestoreStart \/ RestoreDone
    <2>1. UNCHANGED <<xpc, torn, num_free, descs, tx_inflight, avail, used>>
      BY <1>11 DEF OpenStart, OpenDone, CloseStop, CloseAnswer, CloseDone, BusOff,
         RestartFlush, SetModeStart, FreezeStart, RestoreStart, RestoreDone,
         privVars, xmitVars, vqVars
    <2> QED
      BY <2>1 DEF RoomInv, Cost, Ring
  <1> QED
    BY <1>3, <1>4, <1>5, <1>6, <1>7, <1>8, <1>9, <1>10, <1>11
       DEF Next, Xmit, Poll, Interface

\* Unless an indirect table could not be allocated or the queue was freed under
\* the call, virtqueue_add_sgs never finds the ring full: the limit of
\* virtio_can_probe is strict enough for every ring size and every number of
\* echo slots.
THEOREM RingHasRoom == Spec => []NoEnospc
  <1>1. CASE MemPressure
    <2>1. NoEnospc
      BY <1>1 DEF NoEnospc
    <2> QED
      BY <2>1, PTL
  <1>2. CASE ~MemPressure
    <2>1. Init => RoomInv
      BY TxAssumption DEF Init, RoomInv, Cost, Ring
    <2>2. SlotInv /\ SlotInv' /\ RoomInv /\ [Next]_vars => RoomInv'
      <3>1. ASSUME RoomInv, UNCHANGED vars PROVE RoomInv'
        BY <3>1 DEF RoomInv, Cost, Ring, vars, privVars, xmitVars, vqVars
      <3> QED
        BY <1>2, <3>1, RoomStep
    <2>3. RoomInv => NoEnospc
      BY DEF RoomInv, NoEnospc
    <2> QED
      BY <2>1, <2>2, <2>3, SlotInvariant, PTL DEF Spec
  <1> QED
    BY <1>1, <1>2

-----------------------------------------------------------------------------
(* Echo slots and messages agree: on top of both invariants. *)

\* A step that changes no echo slot and neither adds a message nor frees an
\* index keeps them in agreement.
LEMMA EchoFrame ==
    ASSUME EchoLoopedBack, echo' = echo, tx_putidx_free' = tx_putidx_free,
           tx_list' \subseteq tx_list, torn' = "no" => torn = "no"
    PROVE  EchoLoopedBack'
  BY DEF EchoLoopedBack

\* A flush empties every slot.
LEMMA EchoFlushed ==
    ASSUME echo' = [i \in Idx |-> NoSkb]
    PROVE  EchoLoopedBack'
  BY DEF EchoLoopedBack

(* A suspend that has cut a call stays on record. *)
LEMMA TornStays ==
    ASSUME Next, torn' = "no"
    PROVE  torn = "no"
  <1> USE DEF xmitVars
  <1>1. CASE XmitCall
    BY <1>1 DEF XmitCall, XmitDrop, XmitNoMem, XmitBegin
  <1>2. CASE Xmit
    BY <1>2 DEF Xmit, XmitStopFull, XmitCheckSlots, XmitAlloc, XmitPutEcho,
       XmitAdd, XmitAddLost, XmitAddFails, XmitStopNoSpace, XmitKick
  <1>3. CASE (\E m \in avail : DevUse(m)) \/ DevNotify \/ TxIntr \/ Poll
             \/ PollRecheck
    BY <1>3 DEF DevUse, DevNotify, TxIntr, Poll, PollBegin, PollRead, PollWake,
       PollExhausted, PollEmpty, PollEnableCb, PollComplete, PollRecheck
  <1>4. CASE Interface
    BY <1>4 DEF Interface, OpenStart, OpenDone, CloseStop, CloseAnswer,
       CloseDone, BusOff, RestartFlush, SetModeStart, FreezeStart, FreezeDone,
       RestoreStart, RestoreDone, Remove, Probe
  <1> QED
    BY <1>1, <1>2, <1>3, <1>4 DEF Next

(* While the ring has room, every step keeps EchoLoopedBack. *)
LEMMA EchoStep ==
    ASSUME SlotInv, SlotInv', NoEnospc', EchoLoopedBack, Next
    PROVE  EchoLoopedBack'
  <1>0. torn' = "no" => torn = "no"
    BY TornStays
  <1> SUFFICES ASSUME ~MemPressure, torn = "no", torn' = "no"
               PROVE  EchoLoopedBack'
    BY <1>0 DEF EchoLoopedBack
  <1>1. /\ echo \in [Idx -> MaybeSkb]
        /\ xidx \in Idx
        /\ \A m \in tx_list : m \in TxMsg /\ m.putidx \in Idx
        /\ used \in Seq(TxMsg)
    BY DEF SlotInv, TypeOK, DataOK, TxMsg
  <1>2. CASE XmitAlloc
    <2>1. PICK i \in tx_putidx_free :
              /\ tx_putidx_free' = tx_putidx_free \ {i}
              /\ tx_list' = tx_list \cup {[putidx |-> i, skb |-> xskb]}
              /\ echo' = echo
      <3>1. ~bug'
        BY DEF SlotInv, NoBugOn
      <3> QED
        BY <1>2, <3>1 DEF XmitAlloc
    <2>2. i \in Idx /\ echo[i] = NoSkb
      BY DEF EchoLoopedBack, SlotInv, TypeOK, DataOK
    <2> QED
      BY <2>1, <2>2 DEF EchoLoopedBack
  <1>3. CASE XmitPutEcho
    <2>1. /\ xpc = "echo"
          /\ UNCHANGED <<tx_putidx_free, tx_list>>
          /\ echo' = echo \/ echo' = [echo EXCEPT ![xidx] = xskb]
      BY <1>3 DEF XmitPutEcho, privVars
    <2>2. CallMsg \in tx_list
      BY <2>1 DEF SlotInv, CallListed
    <2>3. /\ xidx \notin tx_putidx_free
          /\ \A m \in tx_list : m.putidx = xidx => m.skb = xskb
      BY <2>2 DEF SlotInv, IndexExclusive, CallMsg
    <2> QED
      BY <1>1, <2>1, <2>3 DEF EchoLoopedBack
  <1>4. CASE XmitAddFails
    <2>1. xpc' = "nospace" /\ torn' = torn
      BY <1>4 DEF XmitAddFails
    <2> QED
      BY <2>1 DEF NoEnospc
  <1>5. CASE PollRead
    <2> DEFINE h == Head(used)
    <2>1. /\ used # <<>>
          /\ echo' = [echo EXCEPT ![h.putidx] = NoSkb]
          /\ tx_list' = tx_list \ {h}
          /\ tx_putidx_free' = tx_putidx_free \cup {h.putidx}
      BY <1>5 DEF PollRead, TakeEcho, ListDel, FreeTxIdx
    <2>2. h.putidx \in Idx
      <3>1. h \in TxMsg
        BY <1>1, <2>1, HeadTailProperties
      <3> HIDE DEF h
      <3> QED
        BY <3>1 DEF TxMsg
    <2> QED
      <3> HIDE DEF h
      <3> QED
        BY <1>1, <2>1, <2>2 DEF EchoLoopedBack
  <1>6. CASE CloseDone \/ RestartFlush \/ Probe
    <2>1. echo' = [i \in Idx |-> NoSkb]
      BY <1>6 DEF CloseDone, RestartFlush, FlushEcho, Probe
    <2> QED
      BY <2>1, EchoFlushed
  <1>7. CASE FreezeDone \/ Remove
    <2>1. echo' = echo /\ tx_putidx_free' = tx_putidx_free /\ tx_list' = {}
      BY <1>7 DEF FreezeDone, Remove, DelVq
    <2> QED
      BY <2>1, EchoFrame
  <1>8. CASE XmitCall \/ XmitStopFull \/ XmitCheckSlots \/ XmitAdd
             \/ XmitAddLost \/ XmitStopNoSpace \/ XmitKick
    <2>1. UNCHANGED <<echo, tx_putidx_free, tx_list>>
      BY <1>8 DEF XmitCall, XmitDrop, XmitNoMem, XmitBegin, XmitStopFull,
         XmitCheckSlots, XmitAdd, XmitAddLost, XmitStopNoSpace, XmitKick, privVars
    <2> QED
      BY <2>1, EchoFrame
  <1>9. CASE (\E m \in avail : DevUse(m)) \/ DevNotify \/ TxIntr \/ PollRecheck
             \/ PollBegin \/ PollWake \/ PollExhausted \/ PollEmpty
             \/ PollEnableCb \/ PollComplete
    <2>1. UNCHANGED <<echo, tx_putidx_free, tx_list>>
      BY <1>9 DEF DevUse, DevNotify, TxIntr, PollRecheck, PollBegin, PollWake,
         PollExhausted, PollEmpty, PollEnableCb, PollComplete, privVars
    <2> QED
      BY <2>1, EchoFrame
  <1>10. CASE OpenStart \/ OpenDone \/ CloseStop \/ CloseAnswer \/ BusOff
              \/ SetModeStart \/ FreezeStart \/ RestoreStart \/ RestoreDone
    <2>1. UNCHANGED <<echo, tx_putidx_free, tx_list>>
      BY <1>10 DEF OpenStart, OpenDone, CloseStop, CloseAnswer, BusOff, SetModeStart,
         FreezeStart, RestoreStart, RestoreDone, privVars
    <2> QED
      BY <2>1, EchoFrame
  <1> QED
    BY <1>2, <1>3, <1>4, <1>5, <1>6, <1>7, <1>8, <1>9, <1>10
       DEF Next, Xmit, Poll, Interface

\* An occupied echo slot is never handed out again and belongs to the message
\* that is reaped under its index, for every ring and through every suspend,
\* unless an indirect table could not be allocated or a suspend cut a call.
THEOREM EchoesLoopedBack == Spec => []EchoLoopedBack
  <1>1. Init => EchoLoopedBack
    BY DEF Init, EchoLoopedBack
  <1>2. SlotInv /\ SlotInv' /\ NoEnospc' /\ EchoLoopedBack /\ [Next]_vars
        => EchoLoopedBack'
    <2>1. ASSUME EchoLoopedBack, UNCHANGED vars PROVE EchoLoopedBack'
      BY <2>1, EchoFrame DEF vars, privVars, xmitVars
    <2> QED
      BY <2>1, EchoStep
  <1> QED
    BY <1>1, <1>2, SlotInvariant, RingHasRoom, PTL DEF Spec

-----------------------------------------------------------------------------
(* Every buffer has one owner: on top of the invariants so far. *)

\* Nobody transmits: the interface is down, or was when it was suspended.
NotUp ==
    \/ ifs \in {"down", "opening", "removed"}
    \/ ifs \in {"freezing", "frozen", "restoring"} /\ ~was_up

Held(s) == \E i \in Idx : echo[i] = s

\* What SkbOwnedOnce says, without counting.
OwnedOnce ==
    /\ \A s \in Skbs : s \in stack \/ s \in InCall \/ Held(s)
    /\ \A s \in Skbs : ~(s \in stack /\ s \in InCall)
    /\ \A s \in Skbs : Held(s) => s \notin stack /\ s \notin InCall
    /\ \A i, j \in Idx : echo[i] # NoSkb /\ echo[i] = echo[j] => i = j

\* An interface that is not up has no call in progress and no buffer in an
\* echo slot, so probing again loses none.
OwnInv ==
    torn = "no" =>
        /\ OwnedOnce
        /\ NotUp => xpc = "idle" /\ echo = [i \in Idx |-> NoSkb]

\* A step that moves no buffer.
LEMMA OwnFrame ==
    ASSUME OwnInv, UNCHANGED <<stack, echo, xpc, xskb>>, NotUp' => NotUp,
           torn' = "no" => torn = "no"
    PROVE  OwnInv'
  BY DEF OwnInv, OwnedOnce, Held, InCall

\* A flush returns what is in the echo slots to the stack.
LEMMA OwnFlushed ==
    ASSUME OwnInv, FlushEcho, UNCHANGED <<xpc, xskb, torn>>,
           NotUp' => xpc = "idle",
           echo \in [Idx -> MaybeSkb], stack \subseteq Skbs,
           InCall \subseteq Skbs
    PROVE  OwnInv'
  <1> SUFFICES ASSUME torn = "no"
               PROVE  OwnedOnce' /\ (NotUp' => xpc' = "idle"
                                      /\ echo' = [i \in Idx |-> NoSkb])
    BY DEF OwnInv
  <1>1. InCall' = InCall
    BY DEF InCall
  <1>2. \A s \in Skbs : ~Held(s)' /\ (s \in stack' <=> s \in stack \/ Held(s))
    BY TxAssumption DEF FlushEcho, Held
  <1>3. \A i \in Idx : echo'[i] = NoSkb
    BY DEF FlushEcho
  <1>4. OwnedOnce'
    BY <1>1, <1>2, <1>3 DEF OwnInv, OwnedOnce
  <1> QED
    BY <1>4 DEF FlushEcho

\* The steps of start_xmit pass the buffer on.
LEMMA OwnXmit ==
    ASSUME ~MemPressure, SlotInv, NoEnospc, OwnInv, XmitCall \/ Xmit
    PROVE  OwnInv'
  <1>0. torn' = "no" => torn = "no"
    BY TornStays DEF Next
  <1> SUFFICES ASSUME torn = "no" PROVE OwnInv'
    BY <1>0 DEF OwnInv
  <1>1. /\ echo \in [Idx -> MaybeSkb] /\ stack \subseteq Skbs
        /\ xidx \in Idx
        /\ xpc \in {"full", "check", "alloc", "echo"} => xskb \in Skbs
        /\ NoSkb \notin Skbs
    BY TxAssumption DEF SlotInv, TypeOK, DataOK, CallHasSkb
  <1>2. UNCHANGED <<ifs, was_up>>
    BY DEF XmitCall, XmitDrop, XmitNoMem, XmitBegin, Xmit, XmitStopFull,
       XmitCheckSlots, XmitAlloc, XmitPutEcho, XmitAdd, XmitAddLost,
       XmitAddFails, XmitStopNoSpace, XmitKick, ifVars
  <1>3. NotUp' = NotUp
    BY <1>2 DEF NotUp
  <1>4. ~NotUp
    <2>1. xpc # "idle" \/ Running
      BY DEF XmitCall, XmitDrop, XmitNoMem, XmitBegin, CanXmit, Xmit,
         XmitStopFull, XmitCheckSlots, XmitAlloc, XmitPutEcho, XmitAdd,
         XmitAddLost, XmitAddFails, XmitStopNoSpace, XmitKick
    <2>2. Running => ~NotUp
      BY DEF Running, NotUp
    <2> QED
      BY <2>1, <2>2 DEF OwnInv
  <1> SUFFICES OwnedOnce'
    BY <1>3, <1>4 DEF OwnInv
  <1>5. OwnedOnce
    BY DEF OwnInv
  <1>6. CASE \E s \in Skbs, more \in 0 .. BurstMax - 1 : XmitBegin(s, more)
    <2>1. PICK s \in Skbs : /\ s \in stack /\ stack' = stack \ {s}
                            /\ xskb' = s /\ echo' = echo
                            /\ xpc = "idle" /\ xpc' \in {"full", "check"}
      BY <1>6 DEF XmitBegin, CanXmit
    <2>2. InCall = {} /\ InCall' = {s}
      BY <2>1 DEF InCall
    <2> QED
      BY <1>5, <2>1, <2>2 DEF OwnedOnce, Held
  <1>7. CASE XmitStopFull
    <2>1. stack' = stack \cup {xskb} /\ echo' = echo /\ InCall = {xskb} /\ InCall' = {}
      BY <1>7 DEF XmitStopFull, InCall
    <2> QED
      BY <1>5, <2>1 DEF OwnedOnce, Held
  <1>8. CASE XmitPutEcho
    <2>1. InCall = {xskb} /\ InCall' = {} /\ xskb \in Skbs
      BY <1>1, <1>8 DEF XmitPutEcho, InCall
    <2>2. CASE echo[xidx] = NoSkb
      <3>1. echo' = [echo EXCEPT ![xidx] = xskb] /\ stack' = stack
        BY <1>8, <2>2 DEF XmitPutEcho
      <3>2. \A s \in Skbs : Held(s)' <=> Held(s) \/ s = xskb
        BY <1>1, <2>1, <2>2, <3>1 DEF Held
      <3>3. ~Held(xskb)
        BY <1>5, <2>1 DEF OwnedOnce
      <3>4. \A i, j \in Idx : echo'[i] # NoSkb /\ echo'[i] = echo'[j] => i = j
        BY <1>1, <1>5, <3>1, <3>3 DEF OwnedOnce, Held
      <3> QED
        BY <1>5, <2>1, <3>1, <3>2, <3>3, <3>4 DEF OwnedOnce
    <2>3. CASE echo[xidx] # NoSkb
      <3>1. echo' = echo /\ stack' = stack \cup {xskb}
        BY <1>8, <2>3 DEF XmitPutEcho
      <3> QED
        BY <1>5, <2>1, <3>1 DEF OwnedOnce, Held
    <2> QED
      BY <2>2, <2>3
  <1>9. CASE XmitStopNoSpace
    BY <1>9 DEF XmitStopNoSpace, NoEnospc
  <1>10. CASE (\E s \in Skbs, more \in 0 .. BurstMax - 1 : XmitDrop(s, more))
              \/ XmitCheckSlots \/ XmitAlloc \/ XmitAdd \/ XmitAddLost
              \/ XmitAddFails \/ XmitKick
    <2>1. UNCHANGED <<stack, echo>> /\ InCall' = InCall
      BY <1>10 DEF XmitDrop, CanXmit, XmitCheckSlots, XmitAlloc, XmitAdd,
         XmitAddLost, XmitAddFails, XmitKick, InCall
    <2> QED
      BY <1>5, <2>1 DEF OwnedOnce, Held
  <1> QED
    BY <1>6, <1>7, <1>8, <1>9, <1>10 DEF XmitCall, XmitNoMem, Xmit

\* The poll returns the buffer in the slot of the message to the stack.
LEMMA OwnPollRead ==
    ASSUME SlotInv, OwnInv, PollRead
    PROVE  OwnInv'
  <1> SUFFICES ASSUME torn = "no" PROVE OwnInv'
    BY DEF OwnInv, PollRead, xmitVars
  <1> DEFINE h == Head(used).putidx
  <1>1. /\ echo \in [Idx -> MaybeSkb] /\ NoSkb \notin Skbs
        /\ used \in Seq(TxMsg)
    BY TxAssumption DEF SlotInv, TypeOK, DataOK
  <1>2. /\ used # <<>>
        /\ stack' = stack \cup ({echo[h]} \ {NoSkb})
        /\ echo' = [echo EXCEPT ![h] = NoSkb]
        /\ UNCHANGED <<xpc, xskb, ifs, was_up>>
    BY DEF PollRead, TakeEcho, xmitVars, ifVars
  <1>3. h \in Idx
    <2>1. Head(used) \in TxMsg
      BY <1>1, <1>2, HeadTailProperties
    <2> QED
      BY <2>1 DEF TxMsg
  <1> HIDE DEF h
  <1>4. InCall' = InCall /\ NotUp' = NotUp
    BY <1>2 DEF InCall, NotUp
  <1>5. \A s \in Skbs : Held(s)' <=> Held(s) /\ s # echo[h]
    BY <1>1, <1>2, <1>3 DEF Held, OwnInv, OwnedOnce
  <1>6. echo[h] # NoSkb => echo[h] \in Skbs /\ Held(echo[h])
    BY <1>1, <1>3 DEF Held, MaybeSkb
  <1>7. \A i, j \in Idx : echo'[i] # NoSkb /\ echo'[i] = echo'[j] => i = j
    BY <1>1, <1>2, <1>3 DEF OwnInv, OwnedOnce
  <1>8. OwnedOnce'
    BY <1>1, <1>2, <1>4, <1>5, <1>6, <1>7 DEF OwnInv, OwnedOnce
  <1>9. echo = [i \in Idx |-> NoSkb] => echo' = echo
    BY <1>2, <1>3
  <1> QED
    BY <1>2, <1>4, <1>8, <1>9 DEF OwnInv

\* The operations of the interface.
LEMMA OwnInterface ==
    ASSUME SlotInv, OwnInv, Interface
    PROVE  OwnInv'
  <1>1. /\ echo \in [Idx -> MaybeSkb] /\ stack \subseteq Skbs
        /\ InCall \subseteq Skbs
        /\ xpc # "idle" => Running \/ (ifs \in {"freezing", "frozen"} /\ was_up)
    BY DEF SlotInv, TypeOK, DataOK, CallHasSkb, InCall, CallWhileRunning
  <1>2. CASE OpenStart \/ OpenDone \/ CloseStop \/ CloseAnswer \/ BusOff
             \/ SetModeStart \/ FreezeStart \/ RestoreStart \/ RestoreDone
             \/ Remove
    <2>1. UNCHANGED <<stack, echo, xpc, xskb, torn>>
      BY <1>2 DEF OpenStart, OpenDone, CloseStop, CloseAnswer, BusOff, SetModeStart,
         FreezeStart, RestoreStart, RestoreDone, Remove, xmitVars
    <2>2. NotUp' => NotUp
      <3>1. CASE OpenStart \/ OpenDone \/ CloseStop \/ CloseAnswer
        BY <3>1, Zenon DEF OpenStart, OpenDone, CloseStop, CloseAnswer, NotUp
      <3>2. CASE BusOff \/ SetModeStart
        BY <3>2, Zenon DEF BusOff, SetModeStart, NotUp
      <3>3. CASE FreezeStart
        BY <3>3, Zenon DEF FreezeStart, NotUp
      <3>4. CASE RestoreStart
        BY <3>4, Zenon DEF RestoreStart, NotUp
      <3>5. CASE RestoreDone
        BY <3>5, Zenon DEF RestoreDone, NotUp
      <3>6. CASE Remove
        BY <3>6, Zenon DEF Remove, NotUp
      <3> QED
        BY <1>2, <3>1, <3>2, <3>3, <3>4, <3>5, <3>6
    <2> QED
      BY <2>1, <2>2, OwnFrame
  <1>3. CASE FreezeDone
    <2>1. /\ UNCHANGED <<stack, echo, xpc, xskb>> /\ (NotUp' => NotUp)
          /\ torn' = "no" => torn = "no"
      BY <1>3 DEF FreezeDone, NotUp
    <2> QED
      BY <2>1, OwnFrame
  <1>4. CASE CloseDone \/ RestartFlush
    <2>1. FlushEcho /\ UNCHANGED <<xpc, xskb, torn>> /\ (NotUp' => xpc = "idle")
      BY <1>1, <1>4 DEF CloseDone, RestartFlush, Awake, NotUp, Running, xmitVars
    <2> QED
      BY <1>1, <2>1, OwnFlushed
  <1>5. CASE Probe
    <2> SUFFICES ASSUME torn = "no" PROVE OwnInv'
      BY <1>5 DEF Probe, xmitVars, OwnInv
    <2>1. NotUp /\ echo = [i \in Idx |-> NoSkb] /\ xpc = "idle"
      BY <1>5 DEF Probe, NotUp, OwnInv
    <2>2. UNCHANGED <<stack, echo, xpc, xskb, torn>>
      BY <1>5, <2>1 DEF Probe, xmitVars
    <2> QED
      BY <2>1, <2>2, OwnFrame
  <1> QED
    BY <1>2, <1>3, <1>4, <1>5 DEF Interface

(* Without failing allocations every step keeps OwnInv. *)
LEMMA OwnStep ==
    ASSUME ~MemPressure, SlotInv, NoEnospc, OwnInv, [Next]_vars
    PROVE  OwnInv'
  <1>1. CASE (\E m \in avail : DevUse(m)) \/ DevNotify \/ TxIntr \/ PollRecheck
             \/ PollBegin \/ PollWake \/ PollExhausted \/ PollEmpty
             \/ PollEnableCb \/ PollComplete \/ UNCHANGED vars
    <2>1. UNCHANGED <<stack, echo, xpc, xskb, torn, ifs, was_up>>
      BY <1>1 DEF DevUse, DevNotify, TxIntr, PollRecheck, PollBegin, PollWake,
         PollExhausted, PollEmpty, PollEnableCb, PollComplete, xmitVars, ifVars,
         vars
    <2>2. NotUp' = NotUp
      BY <2>1 DEF NotUp
    <2> QED
      BY <2>1, <2>2, OwnFrame
  <1> QED
    BY <1>1, OwnXmit, OwnPollRead, OwnInterface DEF Next, Poll

(* OwnInv holds after virtio_can_probe. *)
LEMMA OwnInit ==
    ASSUME Init
    PROVE  OwnInv
  <1>1. stack = Skbs /\ InCall = {} /\ \A i \in Idx : echo[i] = NoSkb
    BY DEF Init, InCall
  <1> QED
    BY <1>1, TxAssumption DEF Init, OwnInv, OwnedOnce, Held

\* Every buffer with one owner is counted once.
LEMMA OwnedIsCounted ==
    ASSUME OwnInv
    PROVE  SkbOwnedOnce
  <1> SUFFICES ASSUME torn = "no", NEW s \in Skbs
               PROVE  Cardinality(Owners(s)) = 1
    BY DEF SkbOwnedOnce
  <1>1. CASE s \in stack
    <2>1. Owners(s) = {"stack"}
      BY <1>1 DEF Owners, OwnInv, OwnedOnce, Held
    <2> QED
      BY <2>1, FS_Singleton
  <1>2. CASE s \in InCall
    <2>1. Owners(s) = {"call"}
      BY <1>2 DEF Owners, OwnInv, OwnedOnce, Held
    <2> QED
      BY <2>1, FS_Singleton
  <1>3. CASE Held(s)
    <2>1. PICK i \in Idx : echo[i] = s
      BY <1>3 DEF Held
    <2>2. Owners(s) = {i}
      BY <1>3, <2>1, TxAssumption DEF Owners, OwnInv, OwnedOnce
    <2> QED
      BY <2>2, FS_Singleton
  <1> QED
    BY <1>1, <1>2, <1>3 DEF OwnInv, OwnedOnce

\* As long as no allocation fails and no suspend cuts a call, no buffer of the
\* stack leaks and none is freed twice, through bus-off, restart, close,
\* suspend, removal and probing.
THEOREM BuffersOwnedOnce == Spec => []SkbOwnedOnce
  <1>1. CASE MemPressure
    <2>1. SkbOwnedOnce
      BY <1>1 DEF SkbOwnedOnce
    <2> QED
      BY <2>1, PTL
  <1>2. CASE ~MemPressure
    <2>1. SlotInv /\ NoEnospc /\ OwnInv /\ [Next]_vars => OwnInv'
      BY <1>2, OwnStep
    <2> QED
      BY <2>1, OwnInit, OwnedIsCounted, SlotInvariant, RingHasRoom, PTL DEF Spec
  <1> QED
    BY <1>1, <1>2

-----------------------------------------------------------------------------
(* tx_inflight counts the messages on tx_list: on top of SlotInv. *)

\* The list is finite, and without suspend it is emptied by removal only.
CountInv ==
    /\ IsFiniteSet(tx_list)
    /\ ifs \notin {"freezing", "frozen", "restoring"}
    /\ torn = "no"
    /\ InflightCounts

\* One message leaves the list and the counter.
LEMMA CountTaken ==
    ASSUME SlotInv, CountInv, NEW m \in tx_list, ListDel(m),
           FreeTxIdx(m.putidx), ifs' = ifs, torn' = torn
    PROVE  CountInv'
  <1>1. m.putidx \in Idx /\ m.putidx \notin tx_putidx_free
    BY DEF SlotInv, TypeOK, DataOK, TxMsg, IndexExclusive
  <1>2. tx_inflight' = tx_inflight - 1
    BY <1>1, FreeTxIdxStep DEF SlotInv
  <1>3. tx_list' = tx_list \ {m}
    BY DEF ListDel
  <1>4. IsFiniteSet(tx_list') /\ Cardinality(tx_list') = Cardinality(tx_list) - 1
    BY <1>3, FS_RemoveElement DEF CountInv
  <1> QED
    BY <1>2, <1>4 DEF CountInv, InflightCounts

(* Without suspend every step keeps CountInv. *)
LEMMA CountStep ==
    ASSUME ~PmSleep, SlotInv, SlotInv', CountInv, [Next]_vars
    PROVE  CountInv'
  <1>1. CASE XmitAlloc
    <2>1. PICK i \in tx_putidx_free :
              /\ tx_inflight' = tx_inflight + 1
              /\ tx_list' = tx_list \cup {[putidx |-> i, skb |-> xskb]}
              /\ ifs' = ifs /\ torn' = torn
      <3>1. ~bug'
        BY DEF SlotInv, NoBugOn
      <3> QED
        BY <1>1, <3>1 DEF XmitAlloc, ifVars
    <2>2. [putidx |-> i, skb |-> xskb] \notin tx_list
      BY DEF SlotInv, IndexExclusive
    <2>3. /\ IsFiniteSet(tx_list')
          /\ Cardinality(tx_list') = Cardinality(tx_list) + 1
      BY <2>1, <2>2, FS_AddElement DEF CountInv
    <2> QED
      BY <2>1, <2>3 DEF CountInv, InflightCounts
  <1>2. CASE XmitAddFails
    <2>1. /\ CallMsg \in tx_list /\ ListDel(CallMsg)
          /\ FreeTxIdx(CallMsg.putidx) /\ ifs' = ifs /\ torn' = torn
      BY <1>2 DEF XmitAddFails, SlotInv, CountInv, CallListed, CallMsg, ifVars
    <2> QED
      BY <2>1, CountTaken
  <1>3. CASE PollRead
    <2>1. /\ used # <<>> /\ ListDel(Head(used)) /\ FreeTxIdx(Head(used).putidx)
          /\ ifs' = ifs /\ torn' = torn
      BY <1>3 DEF PollRead, ifVars, xmitVars
    <2>2. Head(used) \in tx_list
      BY <2>1, HeadTailProperties, LenProperties DEF SlotInv, TypeOK, DataOK,
         RingBacked, Ring, CountInv
    <2> QED
      BY <2>1, <2>2, CountTaken
  <1>4. CASE Remove \/ Probe
    <2>1. /\ tx_list' = {} /\ torn' = torn
          /\ ifs' = "removed" \/ (ifs' = "down" /\ tx_inflight' = 0)
      BY <1>4 DEF Remove, Probe, DelVq, xmitVars
    <2> QED
      BY <2>1, FS_EmptySet DEF CountInv, InflightCounts
  <1>5. CASE FreezeStart \/ FreezeDone \/ RestoreStart \/ RestoreDone
    BY <1>5 DEF FreezeStart, FreezeDone, RestoreStart, RestoreDone, CountInv
  <1>6. CASE OpenStart \/ OpenDone \/ CloseStop \/ CloseAnswer \/ CloseDone
             \/ BusOff \/ RestartFlush \/ SetModeStart
    <2>1. /\ UNCHANGED <<tx_inflight, tx_list, torn>>
          /\ ifs' \in {"down", "opening", "up", "closing", "flushing"}
          /\ ifs # "removed"
      BY <1>6 DEF OpenStart, OpenDone, CloseStop, CloseAnswer, CloseDone,
         BusOff, RestartFlush, SetModeStart, Awake, privVars, xmitVars
    <2> QED
      BY <2>1 DEF CountInv, InflightCounts
  <1>7. CASE XmitCall \/ XmitStopFull \/ XmitCheckSlots \/ XmitPutEcho
             \/ XmitAdd \/ XmitAddLost \/ XmitStopNoSpace \/ XmitKick
    <2>1. UNCHANGED <<tx_inflight, tx_list, ifs>> /\ torn' = "no"
      BY <1>7 DEF XmitCall, XmitDrop, XmitNoMem, XmitBegin, XmitStopFull,
         XmitCheckSlots, XmitPutEcho, XmitAdd, XmitAddLost, XmitStopNoSpace,
         XmitKick, CountInv, privVars, ifVars, xmitVars
    <2> QED
      BY <2>1 DEF CountInv, InflightCounts
  <1>8. CASE (\E m \in avail : DevUse(m)) \/ DevNotify \/ TxIntr \/ PollRecheck
             \/ PollBegin \/ PollWake \/ PollExhausted \/ PollEmpty
             \/ PollEnableCb \/ PollComplete \/ UNCHANGED vars
    <2>1. UNCHANGED <<tx_inflight, tx_list, ifs, torn>>
      BY <1>8 DEF DevUse, DevNotify, TxIntr, PollRecheck, PollBegin, PollWake,
         PollExhausted, PollEmpty, PollEnableCb, PollComplete, privVars, ifVars,
         xmitVars, vars
    <2> QED
      BY <2>1 DEF CountInv, InflightCounts
  <1> QED
    BY <1>1, <1>2, <1>3, <1>4, <1>5, <1>6, <1>7, <1>8
       DEF Next, Xmit, Poll, Interface

\* In a kernel without suspend, tx_inflight is the number of messages on
\* tx_list in every state with a device.  (With suspend it is not: run
\* tx_sleep.)
THEOREM InflightCounted == ~PmSleep /\ Spec => []InflightCounts
  <1>1. CASE PmSleep
    BY <1>1, PTL
  <1>2. CASE ~PmSleep
    <2>1. Init => CountInv
      BY FS_EmptySet DEF Init, CountInv, InflightCounts
    <2>2. SlotInv /\ SlotInv' /\ CountInv /\ [Next]_vars => CountInv'
      BY <1>2, CountStep
    <2>3. CountInv => InflightCounts
      BY DEF CountInv
    <2> QED
      BY <2>1, <2>2, <2>3, SlotInvariant, PTL DEF Spec
  <1> QED
    BY <1>1, <1>2
=============================================================================

--------------------------- MODULE VhostCanProofs ---------------------------
(***************************************************************************)
(* Proofs about VhostCan that hold for every set of frames, messages and   *)
(* buffers, with and without EVENT_IDX: its types, the order of received   *)
(* frames, that the receive path implements Channel, and that no message   *)
(* of the transmit path is skipped, answered twice or written out of       *)
(* order, and none forgotten but by a failure that ends the worker.        *)
(***************************************************************************)
EXTENDS VhostCan, SequenceTheorems, TLAPS

-----------------------------------------------------------------------------
(* Sequences. *)

FrameSeq == INSTANCE ItemSequences WITH Item <- Fd

\* An item of a sequence has its type.
LEMMA InRange ==
    ASSUME NEW S, NEW s \in Seq(S), NEW k \in DOMAIN s
    PROVE  s[k] \in S
  BY LenProperties

\* The frames of the used ring.
Frames(u) == [k \in DOMAIN u |-> u[k].frame]
RxUsed == [buf : RxBufs, frame : Fd]

\* They are frames, one for each used buffer.
LEMMA FramesType ==
    ASSUME NEW u \in Seq(RxUsed)
    PROVE  Frames(u) \in Seq(Fd) /\ Len(Frames(u)) = Len(u)
  <1>1. u \in [1 .. Len(u) -> RxUsed] /\ Len(u) \in Nat /\ DOMAIN u = 1 .. Len(u)
    BY LenProperties
  <1>2. Frames(u) \in [1 .. Len(u) -> Fd]
    BY <1>1 DEF Frames, RxUsed
  <1>3. Frames(u) \in Seq(Fd)
    BY <1>1, <1>2, SeqDef
  <1> QED
    BY <1>1, <1>2, <1>3, LenProperties

\* A used buffer more is a frame more.
LEMMA FramesAppend ==
    ASSUME NEW u \in Seq(RxUsed), NEW x \in RxUsed
    PROVE  Frames(Append(u, x)) = Append(Frames(u), x.frame)
  <1> DEFINE a == Append(u, x)
  <1>1. /\ a \in Seq(RxUsed)
        /\ Len(a) = Len(u) + 1
        /\ \A k \in 1 .. Len(u) : a[k] = u[k]
        /\ a[Len(u) + 1] = x
    BY AppendProperties
  <1> SUFFICES Frames(a) = Append(Frames(u), x.frame)
    OBVIOUS
  <1> HIDE DEF a
  <1>2. /\ Frames(u) \in Seq(Fd) /\ Len(Frames(u)) = Len(u)
        /\ Frames(a) \in Seq(Fd) /\ Len(Frames(a)) = Len(u) + 1
    BY <1>1, FramesType
  <1>3. DOMAIN u = 1 .. Len(u) /\ DOMAIN a = 1 .. Len(u) + 1 /\ Len(u) \in Nat
    BY <1>1, LenProperties
  <1>4. \A k \in 1 .. Len(u) : Frames(a)[k] = Frames(u)[k]
    BY <1>1, <1>3 DEF Frames
  <1>5. Frames(a)[Len(u) + 1] = x.frame
    BY <1>1, <1>3 DEF Frames
  <1>6. x.frame \in Fd
    BY DEF RxUsed
  <1> QED
    BY <1>2, <1>4, <1>5, <1>6, FrameSeq!IsAppend

-----------------------------------------------------------------------------
(* Types. *)

\* What the chains of a queue are.
ChainOf(q) == CASE q = "tx" -> TxMsgs [] q = "rx" -> RxBufs [] OTHER -> CtrlMsgs

\* Each queue holds chains of its own kind, and so does the handler.
RingsOK ==
    /\ used = [q \in Queues |-> used[q]]
    /\ \A q \in Queues : avail[q] \in Seq(ChainOf(q))
    /\ wpc # "wait" => ev \in Queues
    /\ \A q \in Queues : ev = q => requests \in Seq(ChainOf(q))
    /\ wpc \in {"wait", "collect", "enable"} => requests = <<>>

Types == DataOK /\ RingsOK

\* Abbreviations that carry no argument of their own.
USE DEF Kicked, Queues, Statuses, Requests, Chains, Idle, At, None, NoAnswer,
        ctlVars, workerVars, ringVars, guestVars, outVars

\* The flags.
LEMMA FlagsStep == FlagsOK /\ Next => FlagsOK'
  <1> SUFFICES ASSUME FlagsOK, Next PROVE FlagsOK'
    OBVIOUS
  <1>1. CASE \E f \in BusFrames : ReadFrame(f)
    BY <1>1, Zenon DEF FlagsOK, ReadFrame
  <1>2. CASE ReaderPanics \/ Connect \/ SetVrings
    BY <1>2, Zenon DEF FlagsOK, ReaderPanics, Connect, SetVrings
  <1>3. CASE Worker
    BY <1>3, Zenon DEF FlagsOK, Worker, WakeKick, WakeBackend, CollectPanics, CollectFails,
       Collect, ProcessCtrl, ProcessTx, ProcessTxFails, ProcessRx, ProcessRxFails,
       ProcessRxEmpty, ProcessDone, Signal, Enable
  <1>4. CASE Guest \/ \E c \in Requests : Submit(c)
    BY <1>4, Zenon DEF FlagsOK, Guest, Kick, Reap, Submit
  <1> QED
    BY <1>1, <1>2, <1>3, <1>4, Zenon DEF Next

\* A step that touches neither rings nor handler.
LEMMA RingsFrame ==
    RingsOK /\ UNCHANGED <<avail, used, wpc, ev, requests>> => RingsOK'
  BY DEF RingsOK

\* The reader.
LEMMA ReaderTypes ==
    ASSUME Types, \/ \E f \in BusFrames : ReadFrame(f)
                  \/ ReaderPanics \/ Connect \/ SetVrings
    PROVE  Types'
  <1>1. CASE \E f \in BusFrames : ReadFrame(f)
    <2>1. PICK f \in BusFrames : ReadFrame(f)
      BY <1>1
    <2>2. /\ coming' \subseteq BusFrames
          /\ arrived' \in Seq(Fd) /\ rx_fifo' \in Seq(Fd)
      <3>1. /\ coming \subseteq BusFrames
            /\ arrived \in Seq(Fd) /\ rx_fifo \in Seq(Fd)
        BY DEF Types, DataOK
      <3>2. /\ coming' \subseteq coming
            /\ \/ /\ f \in Fd
                  /\ arrived' = Append(arrived, f)
                  /\ rx_fifo' = Append(rx_fifo, f)
               \/ UNCHANGED <<arrived, rx_fifo>>
        BY <2>1 DEF ReadFrame, Pushed
      <3>3. f \in Fd => /\ Append(arrived, f) \in Seq(Fd)
                        /\ Append(rx_fifo, f) \in Seq(Fd)
        BY <3>1, AppendProperties
      <3> QED
        BY <3>1, <3>2, <3>3
    <2>3. DataOK'
      BY <2>1, <2>2 DEF ReadFrame, Types, DataOK
    <2>4. RingsOK'
      BY <2>1, RingsFrame DEF ReadFrame, Types
    <2> QED
      BY <2>3, <2>4 DEF Types
  <1>2. CASE ReaderPanics \/ Connect \/ SetVrings
    BY <1>2 DEF ReaderPanics, Connect, SetVrings, Types, DataOK, RingsOK
  <1> QED
    BY <1>1, <1>2

\* A request of TX or CTRL is returned with a status.
LEMMA AnswerTypes ==
    ASSUME Types, NEW q \in Kicked, NEW st \in Statuses,
           wpc = "process", ev = q, requests # <<>>,
           used' = [used EXCEPT ![q] = Append(@, [msg |-> Head(requests),
                                                  status |-> st])],
           requests' = Tail(requests),
           can_out' \in Seq(TxMsgs),
           UNCHANGED <<coming, arrived, rx_fifo, reader, mem, worker, wpc, ev,
                       avail, kick, call, lag, guestVars, lost, forgotten>>
    PROVE  Types'
  <1> DEFINE Answer == [msg : Requests, status : Statuses]
  <1>1. requests \in Seq(ChainOf(q)) /\ ChainOf(q) \subseteq Requests
    BY DEF Types, RingsOK, ChainOf
  <1>2. Head(requests) \in Requests /\ requests' \in Seq(ChainOf(q))
    BY <1>1, HeadTailProperties
  <1>3. requests' \in Seq(Chains)
    BY <1>1, <1>2, SeqMonotonic
  <1>4. Append(used[q], [msg |-> Head(requests), status |-> st]) \in Seq(Answer)
    <2>1. used[q] \in Seq(Answer)
      BY DEF Types, DataOK
    <2>2. [msg |-> Head(requests), status |-> st] \in Answer
      BY <1>2
    <2> QED
      BY <2>1, <2>2, AppendProperties
  <1>5. /\ \A p \in Kicked : used'[p] \in Seq(Answer)
        /\ used'["rx"] = used["rx"]
        /\ used' = [p \in Queues |-> used'[p]]
    <2>1. \A p \in Kicked : used[p] \in Seq(Answer)
      BY DEF Types, DataOK
    <2> HIDE DEF Answer
    <2> QED
      BY <1>4, <2>1 DEF Types, RingsOK
  <1>6. DataOK'
    BY <1>3, <1>5 DEF Types, DataOK
  <1>7. RingsOK'
    BY <1>2, <1>5 DEF Types, RingsOK
  <1> QED
    BY <1>6, <1>7 DEF Types

\* What is popped is an FD frame, hence no error frame.
LEMMA PoppedFrame ==
    ASSUME Types, rx_fifo # <<>>
    PROVE  /\ Head(rx_fifo) \in Fd /\ Head(rx_fifo) \notin ErrFrames
           /\ Tail(rx_fifo) \in Seq(Fd)
  <1>1. rx_fifo \in Seq(Fd)
    BY DEF Types, DataOK
  <1>2. Head(rx_fifo) \in Fd /\ Tail(rx_fifo) \in Seq(Fd)
    BY <1>1, HeadTailProperties
  <1> QED
    BY <1>2, VhostCanAssumption

\* The worker, step by step.
LEMMA WorkerTypes ==
    ASSUME Types, Worker
    PROVE  Types'
  <1>1. CASE \E q \in Kicked : WakeKick(q)
    BY <1>1 DEF WakeKick, Types, DataOK, RingsOK
  <1>2. CASE WakeBackend
    BY <1>2 DEF WakeBackend, Types, DataOK, RingsOK
  <1>3. CASE CollectPanics \/ CollectFails
    <2>1. /\ worker' \in {"ended", "panicked"}
          /\ UNCHANGED <<coming, arrived, rx_fifo, reader, mem, wpc, ev, requests,
                         ringVars, guestVars, outVars>>
      BY <1>3 DEF CollectPanics, CollectFails
    <2> QED
      BY <2>1, RingsFrame DEF Types, DataOK
  <1>10. CASE ProcessRxEmpty \/ ProcessRxFails \/ \E p \in BOOLEAN : ProcessTxFails(p)
    <2>1. /\ worker' \in {"ended", "panicked"} /\ requests' = <<>>
          /\ UNCHANGED <<coming, arrived, reader, mem, wpc, ev, ringVars,
                         guestVars, can_out>>
      BY <1>10 DEF ProcessRxEmpty, ProcessRxFails, ProcessTxFails
    <2>2. /\ rx_fifo \in Seq(Fd) /\ lost \in Seq(Fd) /\ forgotten \in Seq(TxMsgs)
          /\ (ev = "tx" => requests \in Seq(TxMsgs))
      BY DEF Types, DataOK, RingsOK, ChainOf
    <2>3. rx_fifo' \in Seq(Fd) /\ lost' \in Seq(Fd)
      <3>1. \/ /\ rx_fifo # <<>> /\ rx_fifo' = Tail(rx_fifo)
               /\ lost' = Append(lost, Head(rx_fifo))
            \/ UNCHANGED <<rx_fifo, lost>>
        BY <1>10 DEF ProcessRxEmpty, ProcessRxFails, ProcessTxFails, Pop
      <3>2. rx_fifo # <<>> => Append(lost, Head(rx_fifo)) \in Seq(Fd)
        BY <2>2, PoppedFrame, AppendProperties
      <3> QED
        BY <2>2, <3>1, <3>2, PoppedFrame
    <2>4. forgotten' \in Seq(TxMsgs)
      BY <1>10, <2>2 DEF ProcessRxEmpty, ProcessRxFails, ProcessTxFails
    <2>5. requests' \in Seq(Chains) /\ \A q \in Queues : requests' \in Seq(ChainOf(q))
      BY <2>1, EmptySeq
    <2>6. DataOK'
      BY <2>1, <2>3, <2>4, <2>5 DEF Types, DataOK
    <2>7. RingsOK'
      BY <2>1, <2>5 DEF Types, RingsOK
    <2> QED
      BY <2>6, <2>7 DEF Types
  <1>4. CASE Collect
    <2>1. /\ ev \in Queues
          /\ requests' = avail[ev]
          /\ avail' = [avail EXCEPT ![ev] = <<>>]
          /\ wpc' = "process"
          /\ UNCHANGED <<ctlVars, mem, worker, ev, used, kick, call, lag, guestVars,
                         outVars>>
      BY <1>4 DEF Collect, Taken, Types, RingsOK
    <2>2. /\ requests' \in Seq(Chains) /\ requests' \in Seq(ChainOf(ev))
          /\ avail' \in [Queues -> Seq(Chains)]
          /\ \A q \in Queues : avail'[q] \in Seq(ChainOf(q))
      <3>1. /\ avail \in [Queues -> Seq(Chains)]
            /\ \A q \in Queues : avail[q] \in Seq(ChainOf(q))
        BY DEF Types, DataOK, RingsOK
      <3>2. <<>> \in Seq(Chains) /\ \A q \in Queues : <<>> \in Seq(ChainOf(q))
        BY EmptySeq
      <3> QED
        BY <2>1, <3>1, <3>2
    <2>3. DataOK'
      BY <2>1, <2>2 DEF Types, DataOK
    <2>4. RingsOK'
      BY <2>1, <2>2 DEF Types, RingsOK
    <2> QED
      BY <2>3, <2>4 DEF Types
  <1>5. CASE ProcessDone \/ Signal
    <2>1. /\ wpc' \in {"signal", "enable"} /\ wpc # "wait"
          /\ requests' = <<>>
          /\ call' \subseteq Queues
          /\ UNCHANGED <<ctlVars, mem, worker, ev, avail, used, kick, lag, guestVars,
                         outVars>>
      BY <1>5 DEF ProcessDone, Signal, Types, DataOK, RingsOK
    <2>2. DataOK'
      BY <2>1 DEF Types, DataOK
    <2>3. RingsOK'
      BY <2>1 DEF Types, RingsOK
    <2> QED
      BY <2>2, <2>3 DEF Types
  <1>6. CASE Enable
    <2>1. /\ wpc = "enable" /\ wpc' \in {"collect", "wait"}
          /\ ev' \in Queues \cup {None} /\ (wpc' = "collect" => ev' = ev)
          /\ UNCHANGED <<ctlVars, mem, worker, requests, avail, used, kick, call,
                         guestVars, outVars>>
      BY <1>6 DEF Enable, Types, DataOK
    <2>2. lag' \in [Kicked -> 0 .. 2]
      <3>1. /\ lag \in [Kicked -> 0 .. 2]
            /\ \A q \in Kicked : Len(avail[q]) \in Nat
        BY LenProperties DEF Types, DataOK
      <3>2. lag' = [q \in Kicked |->
                      IF EventIdx /\ q = ev THEN Cap2(Len(avail[q])) ELSE lag[q]]
        BY <1>6 DEF Enable
      <3>3. \A n \in Nat : Cap2(n) \in 0 .. 2
        BY DEF Cap2
      <3> QED
        BY <3>1, <3>2, <3>3
    <2>3. DataOK'
      BY <2>1, <2>2 DEF Types, DataOK
    <2>4. requests = <<>> /\ ev \in Queues
      BY <2>1 DEF Types, RingsOK
    <2>5. RingsOK'
      BY <2>1, <2>4 DEF Types, RingsOK
    <2> QED
      BY <2>3, <2>5 DEF Types
  <1>7. CASE ProcessCtrl
    <2>1. /\ ev = "ctrl" /\ requests # <<>> /\ wpc = "process"
          /\ used' = [used EXCEPT !["ctrl"] = Append(@, [msg |-> Head(requests),
                                                         status |-> "OK"])]
          /\ requests' = Tail(requests)
          /\ UNCHANGED <<ctlVars, mem, worker, wpc, ev, avail, kick, call, lag,
                         guestVars, outVars>>
      BY <1>7 DEF ProcessCtrl
    <2>2. "ctrl" \in Kicked /\ "OK" \in Statuses
      OBVIOUS
    <2>3. can_out' \in Seq(TxMsgs)
      BY <2>1 DEF Types, DataOK
    <2>4. UNCHANGED <<coming, arrived, rx_fifo, reader, mem, worker, wpc, ev,
                      avail, kick, call, lag, guestVars, lost, forgotten>>
      BY <2>1
    <2> QED
      BY <2>1, <2>2, <2>3, <2>4, AnswerTypes, Zenon
  <1>8. CASE \E sent \in BOOLEAN : ProcessTx(sent)
    <2>1. PICK sent \in BOOLEAN : ProcessTx(sent)
      BY <1>8
    <2>2. /\ ev = "tx" /\ requests # <<>> /\ wpc = "process"
          /\ used' = [used EXCEPT !["tx"] = Append(@, [msg |-> Head(requests),
                                                       status |-> Response(sent)])]
          /\ requests' = Tail(requests)
          /\ UNCHANGED <<ctlVars, mem, worker, wpc, ev, avail, kick, call, lag,
                         guestVars, lost, forgotten>>
          /\ can_out' = can_out \/ can_out' = Append(can_out, Head(requests))
      BY <2>1 DEF ProcessTx
    <2>3. requests \in Seq(TxMsgs) /\ Response(sent) \in Statuses
      BY <2>2 DEF Types, RingsOK, ChainOf, Response
    <2>4. can_out' \in Seq(TxMsgs)
      <3>1. can_out \in Seq(TxMsgs)
        BY DEF Types, DataOK
      <3>2. Head(requests) \in TxMsgs
        BY <2>2, <2>3, HeadTailProperties
      <3>3. Append(can_out, Head(requests)) \in Seq(TxMsgs)
        BY <3>1, <3>2, AppendProperties
      <3> QED
        BY <2>2, <3>1, <3>3
    <2>5. "tx" \in Kicked
      OBVIOUS
    <2>6. UNCHANGED <<coming, arrived, rx_fifo, reader, mem, worker, wpc, ev,
                      avail, kick, call, lag, guestVars, lost, forgotten>>
      BY <2>2
    <2> QED
      BY <2>2, <2>3, <2>4, <2>5, <2>6, AnswerTypes, Zenon
  <1>9. CASE ProcessRx
    <2>1. /\ ev = "rx" /\ requests # <<>> /\ rx_fifo # <<>>
          /\ used' = [used EXCEPT !["rx"] = Append(@, [buf |-> Head(requests),
                                                       frame |-> Head(rx_fifo)])]
          /\ rx_fifo' = Tail(rx_fifo)
          /\ wpc = "process" /\ wpc' = "signal"
          /\ UNCHANGED <<coming, arrived, reader, mem, worker, ev, requests, avail,
                         kick, call, lag, guestVars, outVars>>
      BY <1>9, PoppedFrame DEF ProcessRx, Pop
    <2>2. requests \in Seq(RxBufs) /\ rx_fifo \in Seq(Fd) /\ used["rx"] \in Seq(RxUsed)
      BY <2>1 DEF Types, DataOK, RingsOK, ChainOf, RxUsed
    <2>3. Head(requests) \in RxBufs /\ Head(rx_fifo) \in Fd /\ rx_fifo' \in Seq(Fd)
      BY <2>1, <2>2, HeadTailProperties
    <2>4. [buf |-> Head(requests), frame |-> Head(rx_fifo)] \in RxUsed
      BY <2>3 DEF RxUsed
    <2>5. used'["rx"] \in Seq(RxUsed) /\ used' = [q \in Queues |-> used'[q]]
          /\ \A q \in Kicked : used'[q] = used[q]
      <3>1. Append(used["rx"], [buf |-> Head(requests), frame |-> Head(rx_fifo)])
              \in Seq(RxUsed)
        BY <2>2, <2>4, AppendProperties
      <3> QED
        BY <2>1, <3>1 DEF Types, RingsOK
    <2>6. DataOK'
      BY <2>1, <2>3, <2>5 DEF Types, DataOK, RxUsed
    <2>7. RingsOK'
      BY <2>1, <2>5 DEF Types, RingsOK
    <2> QED
      BY <2>6, <2>7 DEF Types
  <1> QED
    BY <1>1, <1>2, <1>3, <1>4, <1>5, <1>6, <1>7, <1>8, <1>9, <1>10 DEF Worker

\* The guest reaps.
LEMMA ReapTypes ==
    ASSUME Types, NEW q \in Queues, Reap(q)
    PROVE  Types'
  <1> DEFINE Answer == [msg : Requests, status : Statuses]
  <1>1. /\ \A p \in Kicked : used[p] \in Seq(Answer)
        /\ used["rx"] \in Seq(RxUsed)
        /\ received \in Seq(Fd) /\ hands \subseteq Chains
        /\ answer \in [Requests -> Statuses \cup {NoAnswer}]
        /\ call \subseteq Queues
    BY DEF Types, DataOK, RxUsed
  <1>2. /\ \A p \in Kicked : used'[p] \in Seq(Answer)
        /\ used'["rx"] \in Seq(RxUsed)
        /\ used' = [p \in Queues |-> used'[p]]
    <2>1. used' = [used EXCEPT ![q] = <<>>]
      BY DEF Reap
    <2> HIDE DEF Answer
    <2>2. <<>> \in Seq(Answer) /\ <<>> \in Seq(RxUsed)
      BY EmptySeq
    <2> QED
      BY <1>1, <2>1, <2>2 DEF Types, RingsOK
  <1>3. answer' \in [Requests -> Statuses \cup {NoAnswer}]
    <2>1. CASE q = "rx"
      <3>1. answer' = [m \in Requests |-> answer[m]]
        BY <2>1 DEF Reap
      <3> QED
        BY <1>1, <3>1
    <2>2. CASE q # "rx"
      <3>1. q \in Kicked
        BY <2>2
      <3>2. \A k \in DOMAIN used[q] : used[q][k].status \in Statuses
        <4>1. used[q] \in Seq(Answer)
          BY <1>1, <3>1, Zenon
        <4> HIDE DEF Answer
        <4>2. \A k \in DOMAIN used[q] : used[q][k] \in Answer
          BY <4>1, InRange
        <4> USE DEF Answer
        <4>3. \A x \in Answer : x.status \in Statuses
          OBVIOUS
        <4> QED
          BY <4>2, <4>3, Zenon
      <3> DEFINE Of(m) == CHOOSE k \in DOMAIN used[q] : used[q][k].msg = m
      <3>3. answer' = [m \in Requests |->
                         IF \E k \in DOMAIN used[q] : used[q][k].msg = m
                         THEN used[q][Of(m)].status ELSE answer[m]]
        BY <2>2, Zenon DEF Reap, Reply
      <3>4. \A m \in Requests :
                (\E k \in DOMAIN used[q] : used[q][k].msg = m)
                    => Of(m) \in DOMAIN used[q]
        BY Zenon
      <3> HIDE DEF Of
      <3> QED
        BY <1>1, <3>2, <3>3, <3>4
    <2> QED
      BY <2>1, <2>2
  <1>4. received' \in Seq(Fd) /\ hands' \subseteq Chains
    <2>1. CASE q = "rx"
      <3>1. /\ received' = received \o Frames(used["rx"])
            /\ hands' = hands \cup {used["rx"][k].buf : k \in DOMAIN used["rx"]}
        BY <2>1, Zenon DEF Reap, Frames
      <3>2. \A k \in DOMAIN used["rx"] : used["rx"][k].buf \in RxBufs
        <4>1. \A k \in DOMAIN used["rx"] : used["rx"][k] \in RxUsed
          BY <1>1, InRange
        <4>2. \A x \in RxUsed : x.buf \in RxBufs
          BY DEF RxUsed
        <4> QED
          BY <4>1, <4>2, Zenon
      <3>3. received \o Frames(used["rx"]) \in Seq(Fd)
        BY <1>1, FramesType, ConcatProperties
      <3> QED
        BY <1>1, <3>1, <3>2, <3>3
    <2>2. CASE q # "rx"
      BY <1>1, <2>2 DEF Reap
    <2> QED
      BY <2>1, <2>2
  <1>5. /\ call' \subseteq Queues
        /\ UNCHANGED <<ctlVars, workerVars, avail, kick, lag, unkicked,
                       submitted, outVars>>
    BY <1>1 DEF Reap
  <1>6. DataOK'
    BY <1>2, <1>3, <1>4, <1>5 DEF Types, DataOK, RxUsed
  <1>7. RingsOK'
    BY <1>2, <1>5 DEF Types, RingsOK
  <1> QED
    BY <1>6, <1>7 DEF Types

\* The guest makes a chain available, and kicks.
LEMMA SubmitTypes ==
    ASSUME Types, \/ \E c \in Chains : Submit(c)
                  \/ \E q \in Kicked : Kick(q)
    PROVE  Types'
  <1>1. CASE \E c \in Chains : Submit(c)
    <2>1. PICK c \in Chains : Submit(c)
      BY <1>1
    <2> DEFINE q == QueueOf(c)
    <2>2. q \in Queues /\ c \in ChainOf(q) /\ ChainOf(q) \subseteq Chains
      BY DEF QueueOf, ChainOf
    <2>3. /\ avail' = [avail EXCEPT ![q] = Append(@, c)]
          /\ lag' = [p \in Kicked |-> IF p = q THEN Cap2(lag[p] + 1) ELSE lag[p]]
          /\ unkicked' = unkicked \cup ({q} \cap Kicked)
          /\ hands' = hands \ {c}
          /\ submitted' = [p \in Kicked |-> IF p = q THEN Append(submitted[p], c)
                                             ELSE submitted[p]]
          /\ UNCHANGED <<ctlVars, workerVars, used, kick, call, answer,
                         received, outVars>>
      BY <2>1 DEF Submit
    <2> HIDE DEF q
    <2>4. /\ avail' \in [Queues -> Seq(Chains)]
          /\ \A p \in Queues : avail'[p] \in Seq(ChainOf(p))
      <3>1. avail[q] \in Seq(ChainOf(q)) /\ avail[q] \in Seq(Chains)
        BY <2>2 DEF Types, DataOK, RingsOK
      <3>2. /\ Append(avail[q], c) \in Seq(ChainOf(q))
            /\ Append(avail[q], c) \in Seq(Chains)
        BY <2>2, <3>1, AppendProperties
      <3> QED
        BY <2>2, <2>3, <3>2 DEF Types, DataOK, RingsOK
    <2>5. lag' \in [Kicked -> 0 .. 2]
      <3>1. lag \in [Kicked -> 0 .. 2]
        BY DEF Types, DataOK
      <3>2. \A n \in 0 .. 2 : Cap2(n + 1) \in 0 .. 2
        BY DEF Cap2
      <3> QED
        BY <2>3, <3>1, <3>2
    <2>6. submitted' \in [Kicked -> Seq(Requests)]
      <3>1. submitted \in [Kicked -> Seq(Requests)]
        BY DEF Types, DataOK
      <3>2. ASSUME q \in Kicked PROVE Append(submitted[q], c) \in Seq(Requests)
        <4>1. c \in Requests /\ submitted[q] \in Seq(Requests)
          BY <2>2, <3>1, <3>2 DEF ChainOf
        <4> QED
          BY <4>1, AppendProperties
      <3> QED
        BY <2>3, <3>1, <3>2
    <2>7. hands' \subseteq Chains /\ unkicked' \subseteq Kicked
      BY <2>3 DEF Types, DataOK
    <2>8. DataOK'
      BY <2>3, <2>4, <2>5, <2>6, <2>7 DEF Types, DataOK
    <2>9. RingsOK'
      BY <2>3, <2>4 DEF Types, RingsOK
    <2> QED
      BY <2>8, <2>9 DEF Types
  <1>2. CASE \E q \in Kicked : Kick(q)
    BY <1>2 DEF Kick, Types, DataOK, RingsOK
  <1> QED
    BY <1>1, <1>2

(* The types hold when CanController::new has returned. *)
LEMMA InitTypes == Init => Types
  <1> SUFFICES ASSUME Init PROVE Types
    OBVIOUS
  <1>1. DataOK
    BY DEF Init, DataOK
  <1>2. RingsOK
    BY DEF Init, RingsOK
  <1> QED
    BY <1>1, <1>2 DEF Types

(* No step of reader, worker, bus or guest leaves the types. *)
LEMMA TypesStep == Types /\ [Next]_vars => Types'
  <1> SUFFICES ASSUME Types, [Next]_vars PROVE Types'
    OBVIOUS
  <1>1. CASE (\E f \in BusFrames : ReadFrame(f)) \/ ReaderPanics \/ Connect \/ SetVrings
    BY <1>1, ReaderTypes, Zenon
  <1>2. CASE Worker
    BY <1>2, WorkerTypes, Zenon
  <1>3. CASE Guest \/ \E c \in Requests : Submit(c)
    BY <1>3, ReapTypes, SubmitTypes DEF Guest
  <1>4. CASE UNCHANGED vars
    BY <1>4 DEF vars, Types, DataOK, RingsOK
  <1> QED
    BY <1>1, <1>2, <1>3, <1>4 DEF Next

\* Every variable of the daemon keeps its type (TypeOK); in particular only FD
\* frames get into rx_fifo and to the guest, for every interleaving of
\* read_can_socket, handle_event and guest.
THEOREM TypeCorrect == Spec => []TypeOK
  <1>1. Init => Types /\ FlagsOK
    BY InitTypes, Zenon DEF Init, FlagsOK
  <1>2. Types /\ FlagsOK /\ [Next]_vars => Types' /\ FlagsOK'
    <2>1. FlagsOK /\ UNCHANGED vars => FlagsOK'
      BY Zenon DEF FlagsOK, vars
    <2> QED
      BY TypesStep, FlagsStep, <2>1
  <1>3. Types /\ FlagsOK => TypeOK
    BY DEF Types, TypeOK
  <1> QED
    BY <1>1, <1>2, <1>3, PTL DEF Spec

-----------------------------------------------------------------------------
(* The order of received frames. *)

\* RxInOrder is inductive on top of the types: a frame moves from the head of
\* rx_fifo to the end of the used ring, and from there to the guest.
LEMMA OrderStep == Types /\ RxInOrder /\ [Next]_vars => RxInOrder'
  <1> SUFFICES ASSUME Types, RxInOrder, [Next]_vars PROVE RxInOrder'
    OBVIOUS
  <1> DEFINE u == used["rx"]
  <1>1. /\ arrived = received \o Frames(u) \o (lost \o rx_fifo)
        /\ lost # <<>> => worker = "ended" /\ Len(lost) = 1
        /\ /\ arrived' = received' \o Frames(u)' \o (lost' \o rx_fifo')
           /\ lost' # <<>> => worker' = "ended" /\ Len(lost') = 1
           => RxInOrder'
    BY Zenon DEF RxInOrder, Frames
  <1>2. /\ arrived \in Seq(Fd) /\ rx_fifo \in Seq(Fd) /\ received \in Seq(Fd)
        /\ lost \in Seq(Fd)
        /\ u \in Seq(RxUsed) /\ Frames(u) \in Seq(Fd)
        /\ used = [q \in Queues |-> used[q]]
    BY FramesType DEF Types, DataOK, RingsOK, RxUsed
  <1>3. received \o Frames(u) \in Seq(Fd)
    BY <1>2, ConcatProperties
  <1>4. ASSUME UNCHANGED <<arrived, received, rx_fifo, used["rx"], lost>>,
               worker' = worker \/ worker = "runs"
        PROVE  RxInOrder'
    BY <1>1, <1>4 DEF Frames
  <1>5. CASE \E f \in BusFrames : ReadFrame(f)
    <2>1. PICK f \in BusFrames : ReadFrame(f)
      BY <1>5
    <2>2. CASE f \in Fd
      <3>1. /\ arrived' = Append(arrived, f) /\ rx_fifo' = Append(rx_fifo, f)
            /\ received' = received /\ Frames(u)' = Frames(u)
            /\ UNCHANGED <<lost, worker>>
        BY <2>1, <2>2 DEF ReadFrame, Pushed, Frames
      <3>2. Append(received \o Frames(u) \o (lost \o rx_fifo), f)
              = received \o Frames(u) \o (lost \o Append(rx_fifo, f))
        <4> DEFINE r == received \o Frames(u)
        <4>1. r \in Seq(Fd)
          BY <1>3
        <4> SUFFICES Append(r \o (lost \o rx_fifo), f)
                       = r \o (lost \o Append(rx_fifo, f))
          OBVIOUS
        <4> HIDE DEF r
        <4>2. lost \o rx_fifo \in Seq(Fd)
          BY <1>2, ConcatProperties
        <4>3. Append(lost \o rx_fifo, f) = lost \o Append(rx_fifo, f)
          BY <1>2, <2>2, FrameSeq!AppendSecond
        <4> QED
          BY <2>2, <4>1, <4>2, <4>3, FrameSeq!AppendSecond
      <3> QED
        BY <1>1, <3>1, <3>2
    <2>3. CASE f \notin Fd
      BY <1>4, <2>1, <2>3 DEF ReadFrame, Pushed
    <2> QED
      BY <2>2, <2>3
  <1>6. CASE ProcessRx
    <2> DEFINE x == [buf |-> Head(requests), frame |-> Head(rx_fifo)]
    <2>1. /\ rx_fifo # <<>> /\ requests # <<>> /\ ev = "rx"
          /\ used'["rx"] = Append(u, x)
          /\ rx_fifo' = Tail(rx_fifo)
          /\ worker = "runs"
          /\ UNCHANGED <<arrived, received, lost, worker>>
      BY <1>2, <1>6, PoppedFrame DEF ProcessRx, Pop
    <2>2. Head(requests) \in RxBufs /\ Head(rx_fifo) \in Fd
      <3>1. requests \in Seq(RxBufs)
        BY <2>1 DEF Types, RingsOK, ChainOf
      <3> QED
        BY <1>2, <2>1, <3>1, HeadTailProperties
    <2>3. x \in RxUsed /\ x.frame = Head(rx_fifo)
      BY <2>2 DEF RxUsed
    <2>4. Frames(u)' = Append(Frames(u), Head(rx_fifo))
      <3>1. Frames(Append(u, x)) = Append(Frames(u), x.frame)
        BY <1>2, <2>3, FramesAppend
      <3>2. Frames(u)' = Frames(Append(u, x))
        BY <2>1 DEF Frames
      <3> QED
        BY <2>3, <3>1, <3>2
    <2>5. Append(received \o Frames(u), Head(rx_fifo)) \o Tail(rx_fifo)
            = received \o Frames(u) \o rx_fifo
      BY <1>2, <1>3, <2>1, FrameSeq!MoveHead
    <2>6. received \o Append(Frames(u), Head(rx_fifo))
            = Append(received \o Frames(u), Head(rx_fifo))
      BY <1>2, <2>2, FrameSeq!AppendSecond
    <2>7. lost = <<>> /\ <<>> \o rx_fifo = rx_fifo
          /\ <<>> \o Tail(rx_fifo) = Tail(rx_fifo)
      BY <1>1, <1>2, <2>1, PoppedFrame, ConcatEmptySeq
    <2> QED
      BY <1>1, <2>1, <2>4, <2>5, <2>6, <2>7
  <1>12. CASE ProcessRxFails
    <2> DEFINE x == Head(rx_fifo)
    <2>1. /\ rx_fifo # <<>> /\ rx_fifo' = Tail(rx_fifo)
          /\ lost' = Append(lost, x)
          /\ worker = "runs" /\ worker' = "ended"
          /\ UNCHANGED <<arrived, received, used>>
      BY <1>12 DEF ProcessRxFails, Pop
    <2>2. lost = <<>> /\ Len(Append(<<>>, x)) = 1
      BY <1>1, <2>1
    <2>3. Append(lost, x) \o Tail(rx_fifo) = lost \o rx_fifo
      BY <1>2, <2>1, FrameSeq!MoveHead
    <2>4. Frames(u)' = Frames(u)
      BY <2>1 DEF Frames
    <2> QED
      BY <1>1, <2>1, <2>2, <2>3, <2>4
  <1>7. CASE Reap("rx")
    <2>1. /\ received' = received \o Frames(u)
          /\ used'["rx"] = <<>>
          /\ UNCHANGED <<arrived, rx_fifo, lost, worker>>
      <3>1. received' = received \o Frames(u)
        BY <1>7, Zenon DEF Reap, Frames
      <3>2. /\ used' = [used EXCEPT !["rx"] = <<>>]
            /\ UNCHANGED <<arrived, rx_fifo, lost, worker>>
        BY <1>7 DEF Reap
      <3> QED
        BY <1>2, <3>1, <3>2
    <2>2. Frames(u)' = <<>>
      <3>1. Frames(<<>>) \in Seq(Fd) /\ Len(Frames(<<>>)) = 0
        BY FramesType, EmptySeq
      <3>2. Frames(u)' = Frames(<<>>)
        BY <2>1 DEF Frames
      <3> QED
        BY <3>1, <3>2, EmptySeq
    <2>3. (received \o Frames(u)) \o <<>> = received \o Frames(u)
      BY <1>3, ConcatEmptySeq
    <2> QED
      BY <1>1, <2>1, <2>2, <2>3
  <1>8. CASE \E q \in Kicked : Reap(q)
    <2>1. UNCHANGED <<arrived, received, rx_fifo, used["rx"], lost, worker>>
      BY <1>2, <1>8 DEF Reap
    <2> QED
      BY <1>4, <2>1
  <1>9. CASE ProcessCtrl \/ \E sent \in BOOLEAN : ProcessTx(sent)
    <2>1. UNCHANGED <<arrived, received, rx_fifo, used["rx"], lost, worker>>
      BY <1>2, <1>9 DEF ProcessCtrl, ProcessTx
    <2> QED
      BY <1>4, <2>1
  <1>10. CASE \/ ReaderPanics \/ Connect \/ SetVrings \/ UNCHANGED vars
              \/ \E q \in Kicked : Kick(q)
              \/ \E c \in Chains : Submit(c)
    <2>1. UNCHANGED <<arrived, received, rx_fifo, used, lost, worker>>
      BY <1>10 DEF ReaderPanics, Connect, SetVrings, vars, Kick, Submit
    <2> QED
      BY <1>4, <2>1
  <1>11. CASE \/ (\E q \in Kicked : WakeKick(q)) \/ WakeBackend
              \/ CollectPanics \/ CollectFails \/ Collect
              \/ (\E panics \in BOOLEAN : ProcessTxFails(panics))
              \/ ProcessRxEmpty \/ ProcessDone \/ Signal \/ Enable
    <2>1. /\ worker = "runs"
          /\ UNCHANGED <<arrived, received, rx_fifo, used, lost>>
      BY <1>11 DEF WakeKick, WakeBackend, CollectPanics, CollectFails, Collect, ProcessTxFails,
         ProcessRxEmpty, ProcessDone, Signal, Enable
    <2> QED
      BY <1>4, <2>1
  <1> QED
    BY <1>5, <1>6, <1>7, <1>8, <1>9, <1>10, <1>11, <1>12
    DEF Next, Worker, Guest

(* Nothing has arrived at first, so nothing is out of order. *)
LEMMA OrderInit == Init => RxInOrder
  <1> SUFFICES ASSUME Init PROVE RxInOrder
    OBVIOUS
  <1>1. /\ used["rx"] = <<>> /\ arrived = <<>> /\ received = <<>> /\ rx_fifo = <<>>
        /\ lost = <<>>
    BY DEF Init
  <1>2. Frames(<<>>) = <<>>
    BY FramesType, EmptySeq
  <1>3. <<>> \o <<>> \o (<<>> \o <<>>) = <<>>
    OBVIOUS
  <1> QED
    BY <1>1, <1>2, <1>3 DEF RxInOrder, Frames

\* The guest receives the FD frames of can_in in order, none twice and none
\* skipped (RxInOrder), however the events of rx_event_fd coalesce; at most one
\* frame is lost, when the guest may not have it or its buffer cannot be
\* written, and then the worker is gone and forwards nothing behind it.
THEOREM RxOrdered == Spec => []RxInOrder
  <1> QED
    BY InitTypes, TypesStep, OrderInit, OrderStep, PTL DEF Spec

-----------------------------------------------------------------------------
(* The receive path implements Channel. *)

(* Every step is one of the channel, or leaves both its ends alone. *)
LEMMA ChannelStep ==
    Types /\ RxInOrder /\ [Next]_vars => [RxChannel!Next]_<<arrived, received>>
  <1> SUFFICES ASSUME Types, RxInOrder, [Next]_vars, ~UNCHANGED <<arrived, received>>
               PROVE  RxChannel!Next
    OBVIOUS
  <1>1. CASE \E f \in BusFrames : ReadFrame(f)
    <2>1. PICK f \in BusFrames : ReadFrame(f)
      BY <1>1
    <2>2. f \in Fd /\ arrived' = Append(arrived, f) /\ UNCHANGED received
      BY <2>1 DEF ReadFrame, Pushed
    <2> QED
      BY <2>2 DEF RxChannel!Next, RxChannel!Accept
  <1>2. CASE Reap("rx")
    <2> DEFINE s == Frames(used["rx"])
               new == received \o s
    <2>1. received' = new /\ UNCHANGED arrived
      BY <1>2, Zenon DEF Reap, Frames, ctlVars
    <2>2. /\ received \in Seq(Fd) /\ s \in Seq(Fd) /\ rx_fifo \in Seq(Fd)
          /\ arrived = new \o (lost \o rx_fifo) /\ lost \o rx_fifo \in Seq(Fd)
      <3>1. /\ used["rx"] \in Seq(RxUsed) /\ received \in Seq(Fd)
            /\ rx_fifo \in Seq(Fd) /\ lost \in Seq(Fd)
        BY DEF Types, DataOK, RxUsed
      <3>2. s \in Seq(Fd) /\ lost \o rx_fifo \in Seq(Fd)
        BY <3>1, FramesType, ConcatProperties
      <3> QED
        BY <3>1, <3>2, Zenon DEF RxInOrder, Frames
    <2>3. s # <<>>
      BY <2>1, <2>2, ConcatEmptySeq
    <2>4. new \in Seq(Fd) /\ Len(new) = Len(received) + Len(s)
      BY <2>2, ConcatProperties
    <2>5. Len(s) \in Nat /\ Len(s) # 0 /\ Len(received) \in Nat
      BY <2>2, <2>3, EmptySeq, LenProperties
    <2>6. /\ Len(new) <= Len(arrived) /\ Len(arrived) \in Nat
          /\ new = SubSeq(arrived, 1, Len(new))
      <3>1. arrived \in Seq(Fd)
        BY DEF Types, DataOK
      <3> HIDE DEF new
      <3> QED
        BY <2>2, <2>4, <3>1, FrameSeq!FirstPart, LenProperties
    <2>7. Len(new) \in Len(received) + 1 .. Len(arrived)
      BY <2>4, <2>5, <2>6
    <2>8. received' = SubSeq(arrived, 1, Len(new)) /\ UNCHANGED arrived
      BY <2>1, <2>6, Zenon
    <2> HIDE DEF new
    <2>9. \E n \in Len(received) + 1 .. Len(arrived) :
              received' = SubSeq(arrived, 1, n) /\ UNCHANGED arrived
      BY <2>7, <2>8, Zenon
    <2> QED
      BY <2>9, Zenon DEF RxChannel!Next, RxChannel!Deliver
  <1>3. CASE \E q \in Kicked : Reap(q)
    BY <1>3 DEF Reap
  <1>4. CASE \/ ReaderPanics \/ Connect \/ SetVrings \/ UNCHANGED vars
             \/ \E q \in Kicked : Kick(q)
             \/ \E c \in Chains : Submit(c)
    BY <1>4 DEF ReaderPanics, Connect, SetVrings, vars, Kick, Submit
  <1>5. CASE Worker
    BY <1>5 DEF Worker, WakeKick, WakeBackend, CollectPanics, CollectFails, Collect,
       ProcessCtrl, ProcessTx, ProcessTxFails, ProcessRx, ProcessRxFails, ProcessRxEmpty,
       ProcessDone, Signal, Enable
  <1> QED
    BY <1>1, <1>2, <1>3, <1>4, <1>5 DEF Next, Guest

\* The daemon is a channel from can_in to the guest (RxForwarded): every step
\* of reader, worker and guest is a step of Channel or leaves both ends alone.
THEOREM RxImplementsChannel == Spec => RxForwarded
  <1>1. Init => RxChannel!Init
    BY DEF Init, RxChannel!Init
  <1> QED
    BY <1>1, InitTypes, TypesStep, OrderInit, OrderStep, ChannelStep, PTL
    DEF Spec, RxForwarded, RxChannel!Spec

-----------------------------------------------------------------------------
(* The transmit path. *)

TxSeq == INSTANCE ItemSequences WITH Item <- TxMsgs

TxUsed == [msg : TxMsgs, status : Statuses]

\* The messages of the used ring.
Back(u) == [k \in DOMAIN u |-> u[k].msg]

\* They are messages, one for each used chain.
LEMMA BackType ==
    ASSUME NEW u \in Seq(TxUsed)
    PROVE  Back(u) \in Seq(TxMsgs) /\ Len(Back(u)) = Len(u)
  <1>1. u \in [1 .. Len(u) -> TxUsed] /\ Len(u) \in Nat /\ DOMAIN u = 1 .. Len(u)
    BY LenProperties
  <1>2. Back(u) \in [1 .. Len(u) -> TxMsgs]
    BY <1>1 DEF Back, TxUsed
  <1>3. Back(u) \in Seq(TxMsgs)
    BY <1>1, <1>2, SeqDef
  <1> QED
    BY <1>1, <1>2, <1>3, LenProperties

\* A used chain more is a message more.
LEMMA BackAppend ==
    ASSUME NEW u \in Seq(TxUsed), NEW x \in TxUsed
    PROVE  Back(Append(u, x)) = Append(Back(u), x.msg)
  <1> DEFINE a == Append(u, x)
  <1>1. /\ a \in Seq(TxUsed)
        /\ Len(a) = Len(u) + 1
        /\ \A k \in 1 .. Len(u) : a[k] = u[k]
        /\ a[Len(u) + 1] = x
    BY AppendProperties
  <1> SUFFICES Back(a) = Append(Back(u), x.msg)
    OBVIOUS
  <1> HIDE DEF a
  <1>2. /\ Back(u) \in Seq(TxMsgs) /\ Len(Back(u)) = Len(u)
        /\ Back(a) \in Seq(TxMsgs) /\ Len(Back(a)) = Len(u) + 1
    BY <1>1, BackType
  <1>3. DOMAIN u = 1 .. Len(u) /\ DOMAIN a = 1 .. Len(u) + 1 /\ Len(u) \in Nat
    BY <1>1, LenProperties
  <1>4. \A k \in 1 .. Len(u) : Back(a)[k] = Back(u)[k]
    BY <1>1, <1>3 DEF Back
  <1>5. Back(a)[Len(u) + 1] = x.msg
    BY <1>1, <1>3 DEF Back
  <1>6. x.msg \in TxMsgs
    BY DEF TxUsed
  <1> QED
    BY <1>2, <1>4, <1>5, <1>6, TxSeq!IsAppend

\* A used chain tells the status of its message, if no other has the message.
LEMMA ReplyAt ==
    ASSUME NEW u, TxSeq!Once(Back(u)), NEW k \in DOMAIN u
    PROVE  Reply(u, u[k].msg) = u[k].status
  <1> DEFINE c == CHOOSE i \in DOMAIN u : u[i].msg = u[k].msg
  <1>1. c \in DOMAIN u /\ u[c].msg = u[k].msg
    BY Zenon
  <1>2. Reply(u, u[k].msg) = u[c].status
    BY Zenon DEF Reply
  <1> HIDE DEF c
  <1>3. /\ DOMAIN Back(u) = DOMAIN u
        /\ \A i \in DOMAIN u : Back(u)[i] = u[i].msg
    BY DEF Back
  <1>4. c = k
    BY <1>1, <1>3, Zenon DEF TxSeq!Once
  <1> QED
    BY <1>2, <1>4

\* Without a used chain it is what the guest knows.
LEMMA ReplyNone ==
    ASSUME NEW u, NEW m, m \notin Range(Back(u))
    PROVE  Reply(u, m) = answer[m]
  <1>1. /\ DOMAIN Back(u) = DOMAIN u
        /\ \A i \in DOMAIN u : Back(u)[i] = u[i].msg
    BY DEF Back
  <1>2. ~ \E k \in DOMAIN u : u[k].msg = m
    BY <1>1, Zenon DEF Range
  <1> QED
    BY <1>2, Zenon DEF Reply

Sent == submitted["tx"]

\* TX messages come back on TX only, the handler has none left when it signals,
\* and none is forgotten while there is a worker.
TxTypes ==
    /\ Sent \in Seq(TxMsgs) /\ used["tx"] \in Seq(TxUsed)
    /\ \A k \in DOMAIN used["ctrl"] : used["ctrl"][k].msg \in CtrlMsgs
    /\ wpc = "signal" /\ ev = "tx" => requests = <<>>
    /\ forgotten # <<>> => worker # "runs" /\ Head(forgotten) \in Bad

\* A TX message is sent once.
TxOnce == TxSeq!Once(Sent) /\ Range(Sent) \cap hands = {}

\* What has no answer: what was forgotten, and what is pending.
Rest == forgotten \o Pending

\* What was sent is known to be answered, or in the used ring, or not answered.
TxPath(known) ==
    /\ Sent = known \o (Back(used["tx"]) \o Rest)
    /\ \A m \in TxMsgs : answer[m] # NoAnswer <=> m \in Range(known)

TxInv == TxTypes /\ TxOnce /\ \E known \in Seq(TxMsgs) : TxPath(known)

\* What is pending are TX messages.
LEMMA PendingType ==
    ASSUME Types
    PROVE  Pending \in Seq(TxMsgs)
  <1>1. avail["tx"] \in Seq(TxMsgs) /\ (ev = "tx" => requests \in Seq(TxMsgs))
    BY DEF Types, RingsOK, ChainOf
  <1>2. <<>> \in Seq(TxMsgs)
    BY EmptySeq
  <1> QED
    BY <1>1, <1>2, ConcatProperties DEF Pending

\* So is what has no answer; with a worker it is what is pending.
LEMMA RestType ==
    ASSUME Types
    PROVE  /\ Rest \in Seq(TxMsgs)
           /\ forgotten = <<>> => Rest = Pending
  <1>1. forgotten \in Seq(TxMsgs) /\ Pending \in Seq(TxMsgs)
    BY PendingType DEF Types, DataOK
  <1>2. <<>> \o Pending = Pending
    BY <1>1, ConcatEmptySeq
  <1> QED
    BY <1>1, <1>2, ConcatProperties DEF Rest

\* The answered messages are a first part of those sent.
LEMMA Answered ==
    ASSUME Types, TxInv, NEW known \in Seq(TxMsgs), TxPath(known)
    PROVE  LET a == known \o Back(used["tx"])
           IN  /\ a \in Seq(TxMsgs) /\ Sent = a \o Rest
               /\ TxSeq!Once(Back(used["tx"]))
               /\ \A m \in TxMsgs : StatusOf(m) # NoAnswer <=> m \in Range(a)
  <1> DEFINE u == used["tx"]
             b == Back(u)
             a == known \o b
  <1>1. u \in Seq(TxUsed) /\ b \in Seq(TxMsgs) /\ Rest \in Seq(TxMsgs)
    BY BackType, RestType DEF TxInv, TxTypes
  <1>2. Sent = known \o (b \o Rest) /\ TxSeq!Once(Sent)
    BY DEF TxPath, TxInv, TxOnce
  <1>3. /\ \A m \in TxMsgs : answer[m] # NoAnswer <=> m \in Range(known)
        /\ \A m : StatusOf(m) = Reply(u, m)
    BY Zenon DEF TxPath, StatusOf
  <1>4. /\ DOMAIN b = DOMAIN u
        /\ \A k \in DOMAIN u : b[k] = u[k].msg
    BY DEF Back
  <1> SUFFICES /\ a \in Seq(TxMsgs) /\ Sent = a \o Rest
               /\ TxSeq!Once(b)
               /\ \A m \in TxMsgs : StatusOf(m) # NoAnswer <=> m \in Range(a)
    OBVIOUS
  <1>5. b \o Rest \in Seq(TxMsgs) /\ a \in Seq(TxMsgs)
    <2> HIDE DEF b
    <2> QED
      BY <1>1, ConcatProperties
  <1>6. TxSeq!Once(b \o Rest)
    <2> HIDE DEF b
    <2> QED
      BY <1>2, <1>5, TxSeq!OnceParts, Zenon
  <1>7. TxSeq!Once(b)
    <2> HIDE DEF b
    <2> QED
      BY <1>1, <1>6, TxSeq!OnceParts, Zenon
  <1>8. Sent = a \o Rest
    <2> HIDE DEF b
    <2> QED
      BY <1>1, <1>2, ConcatAssociative
  <1>9. Range(a) = Range(known) \cup Range(b)
    <2> HIDE DEF b
    <2> QED
      BY <1>1, RangeConcatenation
  <1>10. ASSUME NEW m \in TxMsgs
         PROVE  StatusOf(m) # NoAnswer <=> m \in Range(a)
    <2>1. CASE m \in Range(b)
      <3>1. PICK k \in DOMAIN u : u[k].msg = m
        BY <1>4, <2>1, Zenon DEF Range
      <3>2. Reply(u, m) = u[k].status
        BY <1>7, <3>1, ReplyAt
      <3>3. u[k].status \in Statuses
        <4>1. u[k] \in TxUsed
          BY <1>1, InRange
        <4> QED
          BY <4>1 DEF TxUsed
      <3>4. StatusOf(m) # NoAnswer
        BY <1>3, <3>2, <3>3
      <3> QED
        BY <1>9, <2>1, <3>4
    <2>2. CASE m \notin Range(b)
      <3>1. Reply(u, m) = answer[m]
        BY <2>2, ReplyNone
      <3> QED
        BY <1>3, <1>9, <2>2, <3>1, Zenon
    <2> QED
      BY <2>1, <2>2
  <1> QED
    BY <1>5, <1>7, <1>8, <1>10

\* The invariant says where every message is.
LEMMA ConservedByPath == Types /\ TxInv => TxConserved
  <1> SUFFICES ASSUME Types, TxInv PROVE TxConserved
    OBVIOUS
  <1>1. PICK known \in Seq(TxMsgs) : TxPath(known)
    BY DEF TxInv
  <1> DEFINE a == known \o Back(used["tx"])
             n == Len(a)
  <1>2. /\ a \in Seq(TxMsgs) /\ Sent = a \o Rest
        /\ \A m \in TxMsgs : StatusOf(m) # NoAnswer <=> m \in Range(a)
    BY <1>1, Answered
  <1>3. TxSeq!Once(Sent) /\ Rest \in Seq(TxMsgs) /\ Sent \in Seq(TxMsgs)
    BY RestType DEF TxInv, TxOnce, TxTypes
  <1> HIDE DEF a
  <1>4. \A k \in DOMAIN Sent : Sent[k] \in Range(a) <=> k <= n
    <2>1. TxSeq!Once(a \o Rest)
      BY <1>2, <1>3
    <2>2. \A k \in DOMAIN (a \o Rest) :
              (a \o Rest)[k] \in Range(a) <=> k <= Len(a)
      BY <1>2, <1>3, <2>1, TxSeq!InFirstPart, Zenon DEF Range, TxSeq!Range
    <2> QED
      BY <1>2, <2>2
  <1>5. SubSeq(Sent, n + 1, Len(Sent)) = Rest
    BY <1>2, <1>3, TxSeq!LastPart, Zenon
  <1>6. n \in 0 .. Len(Sent)
    <2>1. n \in Nat /\ n <= Len(a \o Rest)
      BY <1>2, <1>3, TxSeq!FirstPart
    <2>2. Len(Sent) \in Nat
      BY <1>3, LenProperties
    <2> QED
      BY <1>2, <2>1, <2>2
  <1>7. \A k \in DOMAIN Sent : StatusOf(Sent[k]) # NoAnswer <=> k <= n
    <2>1. \A k \in DOMAIN Sent : Sent[k] \in TxMsgs
      BY <1>3, InRange
    <2> QED
      BY <1>2, <1>4, <2>1, Zenon
  <1>8. forgotten # <<>> => worker # "runs" /\ Head(forgotten) \in Bad
    BY DEF TxInv, TxTypes
  <1> QED
    BY <1>5, <1>6, <1>7, <1>8, Zenon DEF TxConserved, Sent, Rest

\* A step that moves no TX message.
LEMMA TxFrame ==
    ASSUME TxInv, UNCHANGED <<Sent, used["tx"], used["ctrl"], answer, Rest>>,
           hands' \cap TxMsgs \subseteq hands,
           wpc' = "signal" /\ ev' = "tx" => requests' = <<>>,
           forgotten' # <<>> => worker' # "runs" /\ Head(forgotten') \in Bad
    PROVE  TxInv'
  <1>1. TxTypes'
    BY DEF TxInv, TxTypes, Sent
  <1>2. TxOnce'
    <2>1. Range(Sent) \subseteq TxMsgs
      BY RangeOfSeq DEF TxInv, TxTypes
    <2>2. Range(Sent) \cap hands' = {}
      BY <2>1 DEF TxInv, TxOnce
    <2>3. Sent' = Sent /\ TxSeq!Once(Sent)
      BY DEF Sent, TxInv, TxOnce
    <2> QED
      BY <2>2, <2>3 DEF TxOnce, TxSeq!Once, Range
  <1>3. PICK known \in Seq(TxMsgs) : TxPath(known)
    BY DEF TxInv
  <1>4. TxPath(known)'
    BY <1>3 DEF TxPath, Sent, Back, Rest
  <1> QED
    BY <1>1, <1>2, <1>4 DEF TxInv

\* What the worker does besides answering.
LEMMA TxWorker ==
    ASSUME Types, TxInv, Worker, ~ \E sent \in BOOLEAN : ProcessTx(sent),
           ~ProcessCtrl
    PROVE  TxInv'
  <1>1. /\ UNCHANGED <<submitted, answer, hands>>
        /\ UNCHANGED <<used["tx"], used["ctrl"]>>
    <2>1. used = [q \in Queues |-> used[q]]
      BY DEF Types, RingsOK
    <2> QED
      BY <2>1 DEF Worker, WakeKick, WakeBackend, CollectPanics, CollectFails, Collect,
         ProcessTxFails, ProcessRx, ProcessRxFails, ProcessRxEmpty, ProcessDone, Signal, Enable
  <1>2. wpc' = "signal" /\ ev' = "tx" => requests' = <<>>
    BY DEF Worker, WakeKick, WakeBackend, CollectPanics, CollectFails, Collect,
       ProcessTxFails, ProcessRx, ProcessRxFails, ProcessRxEmpty, ProcessDone, Signal, Enable,
       TxInv, TxTypes
  <1>3. ASSUME ~ \E p \in BOOLEAN : ProcessTxFails(p)
        PROVE  Pending' = Pending
    <2>1. CASE Collect /\ ev = "tx"
      <3>1. avail["tx"] \in Seq(TxMsgs) /\ avail \in [Queues -> Seq(Chains)]
        BY DEF Types, RingsOK, DataOK, ChainOf
      <3>2. /\ requests = <<>> /\ requests' = avail["tx"] /\ avail'["tx"] = <<>>
            /\ ev' = "tx"
        BY <2>1, <3>1 DEF Collect, Taken, Types, RingsOK
      <3>3. avail["tx"] \o <<>> = avail["tx"] /\ <<>> \o avail["tx"] = avail["tx"]
        BY <3>1, ConcatEmptySeq
      <3> QED
        BY <2>1, <3>2, <3>3 DEF Pending
    <2>2. CASE Collect /\ ev # "tx"
      <3>1. avail \in [Queues -> Seq(Chains)]
        BY DEF Types, DataOK
      <3>2. ev' # "tx" /\ avail'["tx"] = avail["tx"]
        BY <2>2, <3>1 DEF Collect
      <3> QED
        BY <2>2, <3>2 DEF Pending
    <2>3. CASE (\E q \in Kicked : WakeKick(q)) \/ WakeBackend \/ Enable
      <3>1. /\ wpc \in {"wait", "enable"}
            /\ UNCHANGED <<requests, avail>>
        BY <2>3 DEF WakeKick, WakeBackend, Enable
      <3>2. requests = <<>>
        BY <3>1 DEF Types, RingsOK
      <3> QED
        BY <3>1, <3>2 DEF Pending
    <2>4. CASE Signal
      BY <2>4 DEF Signal, Pending, TxInv, TxTypes
    <2>5. CASE CollectPanics \/ CollectFails \/ ProcessRx \/ ProcessDone
      <3>1. UNCHANGED <<ev, requests, avail>>
        BY <2>5 DEF CollectPanics, CollectFails, ProcessRx, ProcessDone
      <3> QED
        BY <3>1 DEF Pending
    <2>6. CASE ProcessRxEmpty \/ ProcessRxFails
      <3>1. ev = "rx" /\ ev' = "rx" /\ avail' = avail
        BY <2>6 DEF ProcessRxEmpty, ProcessRxFails
      <3> QED
        BY <3>1 DEF Pending
    <2> QED
      BY <1>3, <2>1, <2>2, <2>3, <2>4, <2>5, <2>6 DEF Worker
  <1>4. Sent' = Sent /\ hands' \cap TxMsgs \subseteq hands
    BY <1>1 DEF Sent
  <1>5. CASE \E p \in BOOLEAN : ProcessTxFails(p)
    <2>1. /\ ev = "tx" /\ worker = "runs" /\ worker' # "runs"
          /\ Head(requests) \in Bad
          /\ forgotten' = requests /\ requests' = <<>>
          /\ UNCHANGED <<ev, avail>>
      BY <1>5 DEF ProcessTxFails
    <2>2. /\ forgotten = <<>> /\ requests \in Seq(TxMsgs)
          /\ avail["tx"] \in Seq(TxMsgs)
      BY <2>1 DEF Types, RingsOK, ChainOf, TxInv, TxTypes
    <2>3. Rest' = Rest
      <3>1. Rest = requests \o avail["tx"]
        BY <2>1, <2>2, RestType DEF Pending
      <3>2. <<>> \o avail["tx"] = avail["tx"]
        BY <2>2, ConcatEmptySeq
      <3> QED
        BY <2>1, <3>1, <3>2 DEF Rest, Pending
    <2> QED
      BY <1>1, <1>2, <1>4, <2>1, <2>3, TxFrame
  <1>6. CASE ~ \E p \in BOOLEAN : ProcessTxFails(p)
    <2>1. forgotten' = forgotten /\ worker = "runs"
      BY <1>6 DEF Worker, WakeKick, WakeBackend, CollectPanics, CollectFails,
         Collect, ProcessRx, ProcessRxFails, ProcessRxEmpty, ProcessDone, Signal,
         Enable
    <2>2. forgotten = <<>>
      BY <2>1 DEF TxInv, TxTypes
    <2>3. Rest' = Rest
      BY <1>3, <1>6, <2>1 DEF Rest
    <2> QED
      BY <1>1, <1>2, <1>4, <2>1, <2>2, <2>3, TxFrame
  <1> QED
    BY <1>5, <1>6

\* The reader and a guest that sends or reaps no message.
LEMMA TxOthers ==
    ASSUME Types, TxInv,
           \/ \E f \in BusFrames : ReadFrame(f)
           \/ ReaderPanics \/ Connect \/ SetVrings \/ UNCHANGED vars
           \/ \E q \in Kicked : Kick(q)
           \/ Reap("rx")
           \/ \E c \in Chains : Submit(c) /\ c \notin TxMsgs
    PROVE  TxInv'
  <1>1. /\ used = [q \in Queues |-> used[q]] /\ avail \in [Queues -> Seq(Chains)]
        /\ submitted \in [Kicked -> Seq(Requests)]
        /\ answer \in [Requests -> Statuses \cup {NoAnswer}]
    BY DEF Types, RingsOK, DataOK
  <1>2. ASSUME UNCHANGED <<Sent, used["tx"], used["ctrl"], answer, avail["tx"],
                           wpc, ev, requests, forgotten, worker>>,
               hands' \cap TxMsgs \subseteq hands
        PROVE  TxInv'
    <2>1. Rest' = Rest
      BY <1>2 DEF Rest, Pending
    <2>2. /\ wpc = "signal" /\ ev = "tx" => requests = <<>>
          /\ forgotten # <<>> => worker # "runs" /\ Head(forgotten) \in Bad
      BY DEF TxInv, TxTypes
    <2> QED
      BY <1>2, <2>1, <2>2, TxFrame
  <1>3. CASE \/ \E f \in BusFrames : ReadFrame(f)
             \/ ReaderPanics \/ Connect \/ SetVrings \/ UNCHANGED vars
             \/ \E q \in Kicked : Kick(q)
    <2>1. UNCHANGED <<submitted, used, answer, avail, hands, wpc, ev, requests,
                      forgotten, worker>>
      BY <1>3 DEF ReadFrame, ReaderPanics, Connect, SetVrings, vars, Kick
    <2> QED
      BY <1>2, <2>1 DEF Sent
  <1>4. CASE Reap("rx")
    <2>1. /\ used'["tx"] = used["tx"] /\ used'["ctrl"] = used["ctrl"]
          /\ UNCHANGED <<submitted, avail, wpc, ev, requests, forgotten, worker>>
      BY <1>1, <1>4 DEF Reap
    <2>2. answer' = answer
      <3>1. answer' = [m \in Requests |-> answer[m]]
        BY <1>4 DEF Reap
      <3> QED
        BY <1>1, <3>1
    <2>3. hands' \cap TxMsgs \subseteq hands
      <3>1. hands' = hands \cup {used["rx"][k].buf : k \in DOMAIN used["rx"]}
        BY <1>4, Zenon DEF Reap
      <3>2. \A k \in DOMAIN used["rx"] : used["rx"][k].buf \in RxBufs
        <4>1. used["rx"] \in Seq(RxUsed)
          BY DEF Types, DataOK, RxUsed
        <4>2. \A k \in DOMAIN used["rx"] : used["rx"][k] \in RxUsed
          BY <4>1, InRange
        <4>3. \A x \in RxUsed : x.buf \in RxBufs
          BY DEF RxUsed
        <4> QED
          BY <4>2, <4>3, Zenon
      <3> QED
        BY <3>1, <3>2, VhostCanAssumption
    <2> QED
      BY <1>2, <2>1, <2>2, <2>3 DEF Sent
  <1>5. CASE \E c \in Chains : Submit(c) /\ c \notin TxMsgs
    <2>1. PICK c \in Chains : Submit(c) /\ c \notin TxMsgs
      BY <1>5
    <2>2. QueueOf(c) # "tx" /\ QueueOf(c) \in Queues
      BY <2>1 DEF QueueOf
    <2>3. /\ submitted'["tx"] = submitted["tx"] /\ avail'["tx"] = avail["tx"]
          /\ hands' \subseteq hands
          /\ UNCHANGED <<used, answer, workerVars, forgotten>>
      BY <1>1, <2>1, <2>2 DEF Submit
    <2> QED
      BY <1>2, <2>3 DEF Sent
  <1> QED
    BY <1>3, <1>4, <1>5

\* The guest sends a TX message.
LEMMA TxSubmit ==
    ASSUME Types, TxInv, NEW c \in TxMsgs, Submit(c)
    PROVE  TxInv'
  <1>1. /\ avail \in [Queues -> Seq(Chains)] /\ submitted \in [Kicked -> Seq(Requests)]
        /\ avail["tx"] \in Seq(TxMsgs) /\ (ev = "tx" => requests \in Seq(TxMsgs))
    BY DEF Types, DataOK, RingsOK, ChainOf
  <1>2. /\ Sent \in Seq(TxMsgs) /\ used["tx"] \in Seq(TxUsed)
        /\ TxSeq!Once(Sent) /\ Range(Sent) \cap hands = {}
    BY DEF TxInv, TxTypes, TxOnce
  <1>3. PICK known \in Seq(TxMsgs) : TxPath(known)
    BY DEF TxInv
  <1> DEFINE h == IF ev = "tx" THEN requests ELSE <<>>
             b == Back(used["tx"])
  <1>4. QueueOf(c) = "tx"
    BY VhostCanAssumption DEF QueueOf
  <1>5. /\ Sent' = Append(Sent, c) /\ avail'["tx"] = Append(avail["tx"], c)
        /\ c \in hands /\ hands' = hands \ {c}
        /\ UNCHANGED <<used, answer, worker, wpc, ev, requests, forgotten>>
    BY <1>1, <1>4 DEF Submit, Sent
  <1>6. /\ h \in Seq(TxMsgs) /\ b \in Seq(TxMsgs) /\ Pending \in Seq(TxMsgs)
        /\ forgotten \in Seq(TxMsgs) /\ Rest \in Seq(TxMsgs)
    BY <1>1, <1>2, EmptySeq, BackType, PendingType, RestType DEF Types, DataOK
  <1>7. Rest' = Append(Rest, c)
    <2>1. Append(h \o avail["tx"], c) = h \o Append(avail["tx"], c)
      <3> HIDE DEF h
      <3> QED
        BY <1>1, <1>6, TxSeq!AppendSecond
    <2>2. Pending' = Append(Pending, c)
      BY <1>5, <2>1 DEF Pending
    <2>3. Append(forgotten \o Pending, c) = forgotten \o Append(Pending, c)
      BY <1>6, TxSeq!AppendSecond
    <2> QED
      BY <1>5, <2>2, <2>3 DEF Rest
  <1>8. TxTypes'
    <2>1. Sent' \in Seq(TxMsgs)
      BY <1>2, <1>5, AppendProperties
    <2> QED
      BY <1>5, <2>1 DEF TxInv, TxTypes
  <1>9. TxOnce'
    <2>1. c \notin Range(Sent)
      BY <1>2, <1>5
    <2>2. c \notin TxSeq!Range(Sent)
      BY <2>1 DEF Range, TxSeq!Range
    <2>3. TxSeq!Once(Append(Sent, c))
      BY <1>2, <2>2, TxSeq!OnceAppend
    <2>4. TxSeq!Range(Append(Sent, c)) = TxSeq!Range(Sent) \cup {c}
      BY <1>2, TxSeq!RangeAppend
    <2>5. Range(Append(Sent, c)) = Range(Sent) \cup {c}
      BY <2>4 DEF Range, TxSeq!Range
    <2>6. Range(Append(Sent, c)) \cap hands' = {}
      BY <1>2, <1>5, <2>5
    <2> QED
      BY <1>5, <2>3, <2>6 DEF TxOnce, TxSeq!Once, Range
  <1>10. TxPath(known)'
    <2>1. Sent = known \o (b \o Rest)
      BY <1>3 DEF TxPath
    <2>2. Append(b \o Rest, c) = b \o Append(Rest, c)
      <3> HIDE DEF b
      <3> QED
        BY <1>6, TxSeq!AppendSecond
    <2>3. b \o Rest \in Seq(TxMsgs)
      <3> HIDE DEF b
      <3> QED
        BY <1>6, ConcatProperties
    <2>4. Append(known \o (b \o Rest), c) = known \o Append(b \o Rest, c)
      <3> HIDE DEF b
      <3> QED
        BY <2>3, TxSeq!AppendSecond
    <2>5. b' = b
      BY <1>5 DEF Back
    <2> HIDE DEF b
    <2>6. Sent' = known \o (b' \o Rest')
      BY <1>5, <1>7, <2>1, <2>2, <2>4, <2>5
    <2>7. \A m \in TxMsgs : answer'[m] # NoAnswer <=> m \in Range(known)
      BY <1>3, <1>5 DEF TxPath
    <2> QED
      BY <2>6, <2>7 DEF TxPath, b
  <1> QED
    BY <1>8, <1>9, <1>10 DEF TxInv

\* The worker answers the first message that is pending.
LEMMA TxProcess ==
    ASSUME Types, TxInv, NEW sent \in BOOLEAN, ProcessTx(sent)
    PROVE  /\ TxInv'
           /\ used'["tx"] = Append(used["tx"], [msg |-> Head(requests),
                                                status |-> Response(sent)])
           /\ [msg |-> Head(requests), status |-> Response(sent)] \in TxUsed
           /\ Rest # <<>> /\ Head(Rest) = Head(requests)
  <1> DEFINE u == used["tx"]
             b == Back(u)
             x == [msg |-> Head(requests), status |-> Response(sent)]
  <1>1. /\ used = [q \in Queues |-> used[q]]
        /\ avail["tx"] \in Seq(TxMsgs) /\ (ev = "tx" => requests \in Seq(TxMsgs))
    BY DEF Types, RingsOK, ChainOf
  <1>2. /\ wpc = "process" /\ ev = "tx" /\ requests # <<>>
        /\ requests' = Tail(requests)
        /\ used'["tx"] = Append(u, x) /\ used'["ctrl"] = used["ctrl"]
        /\ UNCHANGED <<worker, wpc, ev, avail, hands, submitted, answer, forgotten>>
        /\ forgotten = <<>>
    BY <1>1 DEF ProcessTx, TxInv, TxTypes
  <1>3. /\ requests \in Seq(TxMsgs) /\ Head(requests) \in TxMsgs
        /\ requests' \in Seq(TxMsgs)
    BY <1>1, <1>2, HeadTailProperties
  <1>4. x \in TxUsed /\ x.msg = Head(requests)
    BY <1>3 DEF TxUsed, Response
  <1>5. u \in Seq(TxUsed) /\ Sent' = Sent
    BY <1>2 DEF TxInv, TxTypes, Sent
  <1> HIDE DEF x
  <1>6. TxTypes'
    <2>1. Append(u, x) \in Seq(TxUsed)
      BY <1>4, <1>5, AppendProperties
    <2> QED
      BY <1>2, <1>5, <2>1 DEF TxInv, TxTypes
  <1>7. TxOnce'
    BY <1>2, <1>5 DEF TxInv, TxOnce, TxSeq!Once, Range
  <1>8. Rest = requests \o avail["tx"] /\ Rest' = Tail(requests) \o avail["tx"]
    <2>1. Tail(requests) \o avail["tx"] \in Seq(TxMsgs)
      BY <1>1, <1>2, <1>3, ConcatProperties
    <2>2. <<>> \o (Tail(requests) \o avail["tx"]) = Tail(requests) \o avail["tx"]
      BY <2>1, ConcatEmptySeq
    <2> QED
      BY <1>2, <2>2, RestType DEF Rest, Pending
  <1>9. b' = Append(b, Head(requests)) /\ b \in Seq(TxMsgs)
    <2>1. Back(Append(u, x)) = Append(Back(u), x.msg)
      BY <1>4, <1>5, BackAppend
    <2>2. b' = Back(Append(u, x))
      BY <1>2 DEF Back
    <2> QED
      BY <1>4, <1>5, <2>1, <2>2, BackType
  <1>10. PICK known \in Seq(TxMsgs) : TxPath(known)
    BY DEF TxInv
  <1>11. TxPath(known)'
    <2>1. /\ Sent = known \o (b \o Rest)
          /\ \A m \in TxMsgs : answer[m] # NoAnswer <=> m \in Range(known)
      BY <1>10 DEF TxPath
    <2> HIDE DEF b
    <2>2. Append(b, Head(requests)) \o (Tail(requests) \o avail["tx"])
            = b \o (requests \o avail["tx"])
      BY <1>1, <1>2, <1>3, <1>9, TxSeq!MoveHeadBefore
    <2>3. Sent' = known \o (b' \o Rest')
      BY <1>5, <1>8, <1>9, <2>1, <2>2
    <2> QED
      BY <1>2, <2>1, <2>3 DEF TxPath, b
  <1>12. Rest # <<>> /\ Head(Rest) = Head(requests)
    <2>1. Len(requests) \in Nat /\ Len(requests) # 0 /\ Len(avail["tx"]) \in Nat
      BY <1>1, <1>2, <1>3, EmptySeq, LenProperties
    <2>2. /\ Len(Rest) = Len(requests) + Len(avail["tx"])
          /\ Rest[1] = requests[1] /\ Rest \in Seq(TxMsgs)
      BY <1>1, <1>3, <1>8, <2>1, ConcatProperties
    <2>3. Len(Rest) # 0
      BY <2>1, <2>2
    <2>4. Rest # <<>>
      BY <2>2, <2>3, EmptySeq
    <2>5. Head(requests) = requests[1]
      BY <1>2, <1>3, HeadTailProperties
    <2>6. Head(Rest) = Rest[1]
      BY <2>2, <2>4, HeadTailProperties
    <2> QED
      BY <2>2, <2>4, <2>5, <2>6
  <1> QED
    BY <1>2, <1>4, <1>6, <1>7, <1>10, <1>11, <1>12 DEF TxInv, x

\* The worker answers a control message.
LEMMA TxControl ==
    ASSUME Types, TxInv, ProcessCtrl
    PROVE  TxInv'
  <1> DEFINE u == used["ctrl"]
             x == [msg |-> Head(requests), status |-> "OK"]
  <1>1. /\ used = [q \in Queues |-> used[q]]
        /\ (ev = "ctrl" => requests \in Seq(CtrlMsgs))
        /\ u \in Seq([msg : Requests, status : Statuses])
    BY DEF Types, RingsOK, DataOK, ChainOf
  <1>2. /\ wpc = "process" /\ ev = "ctrl" /\ requests # <<>>
        /\ used'["ctrl"] = Append(u, x) /\ used'["tx"] = used["tx"]
        /\ UNCHANGED <<worker, wpc, ev, avail, hands, submitted, answer, forgotten>>
    BY <1>1 DEF ProcessCtrl
  <1>3. x.msg \in CtrlMsgs
    BY <1>1, <1>2, HeadTailProperties
  <1> HIDE DEF x
  <1>4. \A k \in DOMAIN Append(u, x) : Append(u, x)[k].msg \in CtrlMsgs
    <2>1. \A k \in DOMAIN u : u[k].msg \in CtrlMsgs
      BY DEF TxInv, TxTypes
    <2>2. Len(u) \in Nat /\ DOMAIN u = 1 .. Len(u)
      BY <1>1, LenProperties
    <2> HIDE DEF u
    <2>3. DOMAIN Append(u, x) = 1 .. Len(u) + 1
      BY <1>1, <2>2
    <2>4. ASSUME NEW k \in 1 .. Len(u) + 1
          PROVE  Append(u, x)[k].msg \in CtrlMsgs
      <3>1. CASE k = Len(u) + 1
        <4>1. Append(u, x)[k] = x
          BY <2>2, <3>1
        <4> QED
          BY <1>3, <4>1
      <3>2. CASE k # Len(u) + 1
        <4>1. k \in DOMAIN u /\ Append(u, x)[k] = u[k]
          BY <2>2, <3>2
        <4> QED
          BY <2>1, <4>1
      <3> QED
        BY <3>1, <3>2
    <2> QED
      BY <2>3, <2>4
  <1>5. TxTypes'
    BY <1>2, <1>4 DEF TxInv, TxTypes, Sent
  <1>6. TxOnce'
    BY <1>2 DEF TxInv, TxOnce, TxSeq!Once, Range, Sent
  <1>7. Rest' = Rest
    BY <1>2 DEF Rest, Pending
  <1>8. PICK known \in Seq(TxMsgs) : TxPath(known)
    BY DEF TxInv
  <1>9. TxPath(known)'
    BY <1>2, <1>7, <1>8 DEF TxPath, Back, Sent
  <1> QED
    BY <1>5, <1>6, <1>9 DEF TxInv

\* The guest reaps: what it comes to know of a TX message is its status.
LEMMA TxReap ==
    ASSUME Types, TxInv, NEW q \in Kicked, Reap(q)
    PROVE  TxInv' /\ \A m \in TxMsgs : StatusOf(m)' = StatusOf(m)
  <1> DEFINE u == used["tx"]
             b == Back(u)
  <1>1. used = [p \in Queues |-> used[p]]
    BY DEF Types, RingsOK
  <1>2. /\ used' = [used EXCEPT ![q] = <<>>]
        /\ answer' = [m \in Requests |-> Reply(used[q], m)]
        /\ hands' = hands
        /\ UNCHANGED <<worker, wpc, ev, requests, avail, submitted, forgotten>>
    BY Zenon DEF Reap
  <1>3. Rest' = Rest /\ Sent' = Sent
    BY <1>2 DEF Rest, Pending, Sent
  <1>4. TxOnce'
    BY <1>2, <1>3 DEF TxInv, TxOnce, TxSeq!Once, Range
  <1>5. PICK known \in Seq(TxMsgs) : TxPath(known)
    BY DEF TxInv
  <1>6. CASE q = "tx"
    <2>1. used'["tx"] = <<>> /\ used'["ctrl"] = used["ctrl"]
      BY <1>1, <1>2, <1>6
    <2>2. TxTypes'
      <3>1. <<>> \in Seq(TxUsed)
        BY EmptySeq
      <3> QED
        BY <1>2, <1>3, <2>1, <3>1 DEF TxInv, TxTypes
    <2>3. \A m \in TxMsgs : answer'[m] = StatusOf(m)
      BY <1>2, <1>6 DEF StatusOf
    <2>4. \A m \in TxMsgs : StatusOf(m)' = answer'[m]
      <3>1. DOMAIN used'["tx"] = {}
        BY <2>1
      <3> QED
        BY <3>1, Zenon DEF StatusOf, Reply
    <2>5. /\ known \o b \in Seq(TxMsgs) /\ Sent = (known \o b) \o Rest
          /\ \A m \in TxMsgs : StatusOf(m) # NoAnswer <=> m \in Range(known \o b)
      BY <1>5, Answered
    <2>6. PICK w \in Seq(TxMsgs) : w = known \o b
      BY <2>5
    <2>7. TxPath(w)'
      <3>1. Back(used["tx"])' = <<>>
        <4>1. Back(<<>>) = <<>>
          BY EmptySeq, BackType
        <4> QED
          BY <2>1, <4>1 DEF Back
      <3>2. <<>> \o Rest = Rest
        BY RestType, ConcatEmptySeq
      <3>3. /\ Sent = w \o Rest
            /\ \A m \in TxMsgs : answer'[m] # NoAnswer <=> m \in Range(w)
        BY <2>3, <2>5, <2>6
      <3>4. Sent' = w \o (Back(used["tx"])' \o Rest')
        BY <1>3, <3>1, <3>2, <3>3
      <3> QED
        BY <3>3, <3>4 DEF TxPath
    <2> QED
      BY <1>4, <2>2, <2>3, <2>4, <2>7 DEF TxInv
  <1>7. CASE q = "ctrl"
    <2>1. used'["tx"] = used["tx"] /\ used'["ctrl"] = <<>>
      BY <1>1, <1>2, <1>7
    <2>2. TxTypes'
      <3>1. DOMAIN used'["ctrl"] = {}
        BY <2>1
      <3> QED
        BY <1>2, <1>3, <2>1, <3>1 DEF TxInv, TxTypes
    <2>3. \A m \in TxMsgs : answer'[m] = answer[m]
      <3>1. \A k \in DOMAIN used["ctrl"] : used["ctrl"][k].msg \notin TxMsgs
        BY VhostCanAssumption DEF TxInv, TxTypes
      <3>2. \A m \in TxMsgs : Reply(used["ctrl"], m) = answer[m]
        BY <3>1, Zenon DEF Reply
      <3> QED
        BY <1>2, <1>7, <3>2
    <2>4. \A m \in TxMsgs : StatusOf(m)' = StatusOf(m)
      BY <2>1, <2>3, Zenon DEF StatusOf, Reply
    <2>5. TxPath(known)'
      BY <1>3, <1>5, <2>1, <2>3 DEF TxPath, Back
    <2> QED
      BY <1>4, <1>5, <2>2, <2>4, <2>5 DEF TxInv
  <1> QED
    BY <1>6, <1>7

\* Every step keeps the invariant.
LEMMA TxStep == Types /\ TxInv /\ [Next]_vars => TxInv'
  <1> SUFFICES ASSUME Types, TxInv, [Next]_vars PROVE TxInv'
    OBVIOUS
  <1>1. CASE Worker
    BY <1>1, TxWorker, TxProcess, TxControl, Zenon
  <1>2. ASSUME NEW c \in Chains, Submit(c) PROVE TxInv'
    BY <1>2, TxSubmit, TxOthers
  <1>3. ASSUME NEW q \in Queues, Reap(q) PROVE TxInv'
    <2>1. q \in Kicked \/ q = "rx"
      OBVIOUS
    <2> QED
      BY <1>3, <2>1, TxReap, TxOthers, Zenon
  <1> QED
    BY <1>1, <1>2, <1>3, TxOthers DEF Next, Guest

\* The transmit path starts empty.
LEMMA TxInit == Init => TxInv
  <1> SUFFICES ASSUME Init PROVE TxInv
    OBVIOUS
  <1>1. /\ Sent = <<>> /\ used["tx"] = <<>> /\ used["ctrl"] = <<>>
        /\ avail["tx"] = <<>> /\ ev = None /\ wpc = "wait" /\ forgotten = <<>>
        /\ answer = [m \in Requests |-> NoAnswer]
    BY DEF Init, Sent
  <1>2. /\ <<>> \in Seq(TxMsgs) /\ <<>> \in Seq(TxUsed)
        /\ <<>> \o <<>> = <<>> /\ DOMAIN <<>> = {}
    BY EmptySeq, ConcatEmptySeq
  <1>3. TxTypes
    BY <1>1, <1>2 DEF TxTypes
  <1>4. TxOnce
    BY <1>1, <1>2 DEF TxOnce, TxSeq!Once, Range
  <1>5. Back(<<>>) = <<>>
    BY <1>2, BackType, EmptySeq
  <1>6. Rest = <<>>
    BY <1>1, <1>2 DEF Rest, Pending
  <1>7. TxPath(<<>>)
    BY <1>1, <1>2, <1>5, <1>6 DEF TxPath, Range
  <1> QED
    BY <1>2, <1>3, <1>4, <1>7 DEF TxInv

\* No TX message is skipped, answered twice or answered before its turn
\* (TxConserved), although the guest may add chains while the EVENT_IDX loop
\* runs.  A message is forgotten only when a bad one is met: then all that was
\* collected from it on is off the ring, and no worker is left.
THEOREM TxIsConserved == Spec => []TxConserved
  BY InitTypes, TypesStep, TxInit, TxStep, ConservedByPath, PTL DEF Spec

\* A message is answered with the result of its write; the other statuses
\* stay as they are.
LEMMA StatusProcess ==
    ASSUME Types, TxInv, NEW sent \in BOOLEAN, ProcessTx(sent)
    PROVE  \E x \in TxMsgs :
               /\ x = Head(requests) /\ StatusOf(x) = NoAnswer
               /\ StatusOf(x)' = Response(sent)
               /\ \A m \in TxMsgs : m # x => StatusOf(m)' = StatusOf(m)
               /\ \E l \in DOMAIN Sent :
                      /\ Sent[l] = x
                      /\ \A k \in DOMAIN Sent :
                             StatusOf(Sent[k]) # NoAnswer => k < l
  <1> DEFINE u == used["tx"]
             b == Back(u)
             v == used'["tx"]
  <1>0. PICK x \in TxMsgs : x = Head(requests)
    BY TxProcess DEF TxUsed
  <1> DEFINE z == [msg |-> x, status |-> Response(sent)]
  <1>1. /\ v = Append(u, z) /\ z \in TxUsed
        /\ Rest # <<>> /\ Head(Rest) = x
    BY <1>0, TxProcess
  <1>2. answer' = answer
    BY DEF ProcessTx
  <1>3. x \in TxMsgs /\ z.msg = x /\ z.status = Response(sent)
    BY <1>1 DEF TxUsed
  <1>4. PICK known \in Seq(TxMsgs) : TxPath(known)
    BY DEF TxInv
  <1> DEFINE a == known \o b
  <1>5. /\ a \in Seq(TxMsgs) /\ Sent = a \o Rest
        /\ TxSeq!Once(b)
        /\ \A m \in TxMsgs : StatusOf(m) # NoAnswer <=> m \in Range(a)
    BY <1>4, Answered
  <1>6. /\ TxSeq!Once(Sent) /\ u \in Seq(TxUsed) /\ b \in Seq(TxMsgs)
        /\ Rest \in Seq(TxMsgs) /\ Sent \in Seq(TxMsgs)
    BY BackType, RestType DEF TxInv, TxOnce, TxTypes
  <1>7. Range(a) = Range(known) \cup Range(b)
    <2> HIDE DEF b
    <2> QED
      BY <1>6, RangeConcatenation
  <1> HIDE DEF a, z
  <1>8. \A k \in DOMAIN Sent : Sent[k] \in Range(a) <=> k <= Len(a)
    <2>1. TxSeq!Once(a \o Rest)
      BY <1>5, <1>6
    <2>2. \A k \in DOMAIN (a \o Rest) :
              (a \o Rest)[k] \in Range(a) <=> k <= Len(a)
      BY <1>5, <1>6, <2>1, TxSeq!InFirstPart, Zenon DEF Range, TxSeq!Range
    <2> QED
      BY <1>5, <2>2
  <1> DEFINE l == Len(a) + 1
  <1>9. Len(a) \in Nat /\ l \in DOMAIN Sent /\ Sent[l] = x
    <2>1. /\ Len(a) \in Nat /\ Len(Rest) \in Nat /\ Len(Rest) # 0
          /\ DOMAIN Sent = 1 .. Len(Sent)
      BY <1>1, <1>5, <1>6, LenProperties, EmptySeq
    <2>2. /\ Len(Sent) = Len(a) + Len(Rest)
          /\ \A i \in 1 .. Len(Rest) : Sent[Len(a) + i] = Rest[i]
      BY <1>5, <1>6, ConcatProperties
    <2>3. Rest[1] = x
      BY <1>1, <1>6, HeadTailProperties
    <2> QED
      BY <2>1, <2>2, <2>3
  <1>10. x \notin Range(a)
    BY <1>8, <1>9
  <1>11. StatusOf(x) = NoAnswer
    BY <1>3, <1>5, <1>10
  <1>12. \A k \in DOMAIN Sent : StatusOf(Sent[k]) # NoAnswer => k < l
    <2>1. \A k \in DOMAIN Sent : Sent[k] \in TxMsgs
      BY <1>6, InRange
    <2>2. \A k \in DOMAIN Sent : StatusOf(Sent[k]) # NoAnswer => k <= Len(a)
      BY <1>5, <1>8, <2>1, Zenon
    <2>3. DOMAIN Sent = 1 .. Len(Sent) /\ Len(Sent) \in Nat
      BY <1>6, LenProperties
    <2> QED
      BY <1>9, <2>2, <2>3
  <1>13. Back(v) = Append(b, x) /\ TxSeq!Once(Back(v))
    <2>1. Back(v) = Append(b, x)
      BY <1>1, <1>3, <1>6, BackAppend
    <2>2. x \notin TxSeq!Range(b)
      BY <1>7, <1>10 DEF Range, TxSeq!Range
    <2> HIDE DEF b
    <2>3. TxSeq!Once(Append(b, x))
      BY <1>3, <1>5, <1>6, <2>2, TxSeq!OnceAppend
    <2> QED
      BY <2>1, <2>3
  <1>14. /\ DOMAIN u = 1 .. Len(u) /\ DOMAIN v = 1 .. Len(u) + 1 /\ Len(u) \in Nat
         /\ \A k \in 1 .. Len(u) : v[k] = u[k]
         /\ v[Len(u) + 1] = z
    BY <1>1, <1>6, AppendProperties, LenProperties
  <1>15. \A m : StatusOf(m)' = Reply(v, m)
    BY <1>2, Zenon DEF StatusOf, Reply
  <1>16. StatusOf(x)' = Response(sent)
    <2>1. Len(u) + 1 \in DOMAIN v /\ v[Len(u) + 1].msg = x
      BY <1>3, <1>14
    <2>2. Reply(v, v[Len(u) + 1].msg) = v[Len(u) + 1].status
      BY <1>13, <2>1, ReplyAt
    <2>3. Reply(v, x) = Response(sent)
      BY <1>3, <1>14, <2>1, <2>2
    <2> QED
      BY <1>15, <2>3, Zenon
  <1>17. ASSUME NEW m \in TxMsgs, m # x PROVE StatusOf(m)' = StatusOf(m)
    <2>1. CASE m \in Range(b)
      <3>1. PICK k \in DOMAIN u : u[k].msg = m
        BY <2>1, Zenon DEF Range, Back
      <3>2. Reply(u, m) = u[k].status
        BY <1>5, <3>1, ReplyAt
      <3>3. k \in DOMAIN v /\ v[k] = u[k]
        BY <1>14
      <3>4. Reply(v, v[k].msg) = v[k].status
        BY <1>13, <3>3, ReplyAt
      <3>5. Reply(v, m) = Reply(u, m)
        BY <3>1, <3>2, <3>3, <3>4
      <3> QED
        BY <1>15, <3>5, Zenon DEF StatusOf
    <2>2. CASE m \notin Range(b)
      <3>1. m \notin Range(Back(v))
        <4>1. TxSeq!Range(Append(b, x)) = TxSeq!Range(b) \cup {x}
          <5> HIDE DEF b
          <5> QED
            BY <1>3, <1>6, TxSeq!RangeAppend
        <4>2. Range(Append(b, x)) = Range(b) \cup {x}
          BY <4>1, Zenon DEF Range, TxSeq!Range
        <4> QED
          BY <1>13, <1>17, <2>2, <4>2
      <3>2. Reply(v, m) = answer[m] /\ Reply(u, m) = answer[m]
        BY <2>2, <3>1, ReplyNone
      <3> QED
        BY <1>15, <3>2, Zenon DEF StatusOf
    <2> QED
      BY <2>1, <2>2
  <1> QED
    BY <1>0, <1>9, <1>11, <1>12, <1>16, <1>17, Zenon

\* A step that neither answers, sends nor writes a message.
LEMMA OutFrame ==
    ASSUME TxInv, TxInOrder, UNCHANGED <<Sent, can_out>>,
           \A m \in TxMsgs : StatusOf(m)' = StatusOf(m)
    PROVE  TxInOrder'
  <1>1. Range(Sent) \subseteq TxMsgs
    BY RangeOfSeq DEF TxInv, TxTypes
  <1>2. {m \in Range(Sent) : StatusOf(m)' = "OK"}
            = {m \in Range(Sent) : StatusOf(m) = "OK"}
    BY <1>1
  <1>3. /\ Range(can_out) = {m \in Range(Sent) : StatusOf(m) = "OK"}
        /\ \A i, j \in DOMAIN can_out : i < j =>
               \E k, l \in DOMAIN Sent :
                   k < l /\ Sent[k] = can_out[i] /\ Sent[l] = can_out[j]
    BY Zenon DEF TxInOrder, Sent
  <1>4. /\ Range(can_out)' = {m \in Range(Sent)' : StatusOf(m)' = "OK"}
        /\ \A i, j \in DOMAIN can_out' : i < j =>
               \E k, l \in DOMAIN Sent' :
                   k < l /\ Sent'[k] = can_out'[i] /\ Sent'[l] = can_out'[j]
    BY <1>2, <1>3 DEF Range
  <1> QED
    BY <1>4, Zenon DEF TxInOrder, Sent

\* A message that is sent is not answered yet.
LEMMA OutSubmit ==
    ASSUME Types, TxInv, TxInOrder, NEW c \in TxMsgs, Submit(c)
    PROVE  TxInOrder'
  <1>1. /\ UNCHANGED <<can_out, used, answer>>
        /\ Sent' = Append(Sent, c) /\ c \in hands
    <2>1. submitted \in [Kicked -> Seq(Requests)] /\ QueueOf(c) = "tx"
      BY VhostCanAssumption DEF Types, DataOK, QueueOf
    <2> QED
      BY <2>1 DEF Submit, Sent
  <1>2. Sent \in Seq(TxMsgs) /\ c \notin Range(Sent)
    BY <1>1 DEF TxInv, TxTypes, TxOnce
  <1>3. \A m : StatusOf(m)' = StatusOf(m)
    BY <1>1, Zenon DEF StatusOf, Reply
  <1>4. StatusOf(c) = NoAnswer
    <2>1. PICK known \in Seq(TxMsgs) : TxPath(known)
      BY DEF TxInv
    <2> DEFINE a == known \o Back(used["tx"])
    <2>2. /\ a \in Seq(TxMsgs) /\ Sent = a \o Rest
          /\ \A m \in TxMsgs : StatusOf(m) # NoAnswer <=> m \in Range(a)
      BY <2>1, Answered
    <2> HIDE DEF a
    <2>3. Range(Sent) = Range(a) \cup Range(Rest)
      BY <2>2, RestType, RangeConcatenation
    <2> QED
      BY <1>2, <2>2, <2>3
  <1>5. Range(Sent') = Range(Sent) \cup {c}
    BY <1>1, <1>2, TxSeq!RangeAppend DEF Range, TxSeq!Range
  <1>6. {m \in Range(Sent') : StatusOf(m)' = "OK"}
            = {m \in Range(Sent) : StatusOf(m) = "OK"}
    BY <1>3, <1>4, <1>5
  <1>7. /\ Range(can_out) = {m \in Range(Sent) : StatusOf(m) = "OK"}
        /\ \A i, j \in DOMAIN can_out : i < j =>
               \E k, l \in DOMAIN Sent :
                   k < l /\ Sent[k] = can_out[i] /\ Sent[l] = can_out[j]
    BY Zenon DEF TxInOrder, Sent
  <1>8. \A k \in DOMAIN Sent : k \in DOMAIN Sent' /\ Sent'[k] = Sent[k]
    <2>1. /\ DOMAIN Sent = 1 .. Len(Sent) /\ Len(Sent) \in Nat
          /\ Sent' \in Seq(TxMsgs) /\ Len(Sent') = Len(Sent) + 1
          /\ \A k \in 1 .. Len(Sent) : Sent'[k] = Sent[k]
      BY <1>1, <1>2, AppendProperties, LenProperties
    <2>2. DOMAIN Sent' = 1 .. Len(Sent) + 1
      BY <2>1, LenProperties
    <2> QED
      BY <2>1, <2>2
  <1>9. \A i, j \in DOMAIN can_out : i < j =>
            \E k, l \in DOMAIN Sent' :
                k < l /\ Sent'[k] = can_out[i] /\ Sent'[l] = can_out[j]
    <2> SUFFICES ASSUME NEW i \in DOMAIN can_out, NEW j \in DOMAIN can_out, i < j
                 PROVE  \E k, l \in DOMAIN Sent' :
                            /\ k < l /\ Sent'[k] = can_out[i]
                            /\ Sent'[l] = can_out[j]
      BY Zenon
    <2>1. PICK k \in DOMAIN Sent, l \in DOMAIN Sent :
              k < l /\ Sent[k] = can_out[i] /\ Sent[l] = can_out[j]
      BY <1>7
    <2> QED
      BY <1>8, <2>1
  <1>10. Range(can_out) = {m \in Range(Sent') : StatusOf(m)' = "OK"}
    BY <1>6, <1>7
  <1> QED
    BY <1>1, <1>9, <1>10 DEF TxInOrder, Sent, Range

\* A message is written after those that were sent before it.
LEMMA OutProcess ==
    ASSUME Types, TxInv, TxInOrder, NEW sent \in BOOLEAN, ProcessTx(sent)
    PROVE  TxInOrder'
  <1>1. PICK x \in TxMsgs :
            /\ x = Head(requests) /\ StatusOf(x) = NoAnswer
            /\ StatusOf(x)' = Response(sent)
            /\ \A m \in TxMsgs : m # x => StatusOf(m)' = StatusOf(m)
            /\ \E l \in DOMAIN Sent :
                   /\ Sent[l] = x
                   /\ \A k \in DOMAIN Sent :
                          StatusOf(Sent[k]) # NoAnswer => k < l
    BY StatusProcess, Zenon
  <1>2. PICK l \in DOMAIN Sent :
            /\ Sent[l] = x
            /\ \A k \in DOMAIN Sent : StatusOf(Sent[k]) # NoAnswer => k < l
    BY <1>1
  <1>3. /\ Sent' = Sent
        /\ can_out' = IF sent THEN Append(can_out, x) ELSE can_out
    BY <1>1 DEF ProcessTx, Sent
  <1>4. /\ Sent \in Seq(TxMsgs) /\ Range(Sent) \subseteq TxMsgs
        /\ can_out \in Seq(TxMsgs)
    BY RangeOfSeq DEF TxInv, TxTypes, Types, DataOK
  <1>5. /\ Range(can_out) = {m \in Range(Sent) : StatusOf(m) = "OK"}
        /\ \A i, j \in DOMAIN can_out : i < j =>
               \E k, p \in DOMAIN Sent :
                   k < p /\ Sent[k] = can_out[i] /\ Sent[p] = can_out[j]
    BY Zenon DEF TxInOrder, Sent
  <1>6. x \in Range(Sent)
    BY <1>2, Zenon DEF Range
  <1>7. CASE ~sent
    <2>1. can_out' = can_out /\ StatusOf(x)' = "ERR"
      BY <1>1, <1>3, <1>7 DEF Response
    <2>2. {m \in Range(Sent) : StatusOf(m)' = "OK"}
              = {m \in Range(Sent) : StatusOf(m) = "OK"}
      BY <1>1, <1>4, <2>1
    <2>3. Range(can_out) = {m \in Range(Sent) : StatusOf(m)' = "OK"}
      BY <1>5, <2>2
    <2> QED
      BY <1>3, <1>5, <2>1, <2>3 DEF TxInOrder, Sent, Range
  <1>8. CASE sent
    <2> DEFINE n == Len(can_out)
    <2>1. can_out' = Append(can_out, x) /\ StatusOf(x)' = "OK"
      BY <1>1, <1>3, <1>8 DEF Response
    <2>2. {m \in Range(Sent) : StatusOf(m)' = "OK"}
              = {m \in Range(Sent) : StatusOf(m) = "OK"} \cup {x}
      BY <1>1, <1>4, <1>6, <2>1
    <2>3. Range(can_out') = Range(can_out) \cup {x}
      BY <1>4, <2>1, TxSeq!RangeAppend DEF Range, TxSeq!Range
    <2>4. Range(can_out') = {m \in Range(Sent) : StatusOf(m)' = "OK"}
      BY <1>5, <2>2, <2>3
    <2>5. /\ n \in Nat /\ DOMAIN can_out = 1 .. n /\ DOMAIN can_out' = 1 .. n + 1
          /\ \A k \in 1 .. n : can_out'[k] = can_out[k]
          /\ can_out'[n + 1] = x
      BY <1>4, <2>1, AppendProperties, LenProperties
    <2> HIDE DEF n
    <2>6. ASSUME NEW i \in 1 .. n + 1, NEW j \in 1 .. n + 1, i < j
          PROVE  \E k, p \in DOMAIN Sent :
                     k < p /\ Sent[k] = can_out'[i] /\ Sent[p] = can_out'[j]
      <3>1. i \in DOMAIN can_out /\ can_out'[i] = can_out[i]
        BY <2>5, <2>6
      <3>2. CASE j = n + 1
        <4>1. can_out[i] \in Range(Sent) /\ StatusOf(can_out[i]) = "OK"
          <5>1. can_out[i] \in Range(can_out)
            BY <3>1, Zenon DEF Range
          <5> QED
            BY <1>5, <5>1
        <4>2. PICK k \in DOMAIN Sent : Sent[k] = can_out[i]
          BY <4>1, Zenon DEF Range
        <4>3. k < l
          BY <1>2, <4>1, <4>2
        <4> QED
          BY <1>2, <2>5, <3>1, <3>2, <4>2, <4>3
      <3>3. CASE j # n + 1
        <4>1. j \in DOMAIN can_out /\ can_out'[j] = can_out[j]
          BY <2>5, <3>3
        <4> QED
          BY <1>5, <2>6, <3>1, <4>1
      <3> QED
        BY <3>2, <3>3
    <2>7. \A i, j \in DOMAIN can_out' : i < j =>
              \E k, p \in DOMAIN Sent' :
                  k < p /\ Sent'[k] = can_out'[i] /\ Sent'[p] = can_out'[j]
      BY <1>3, <2>5, <2>6
    <2>8. Range(can_out') = {m \in Range(Sent') : StatusOf(m)' = "OK"}
      BY <1>3, <2>4
    <2> QED
      BY <2>7, <2>8 DEF TxInOrder, Sent, Range
  <1> QED
    BY <1>7, <1>8

\* Every step keeps the order of can_out.
LEMMA OutStep == Types /\ TxInv /\ TxInOrder /\ [Next]_vars => TxInOrder'
  <1> SUFFICES ASSUME Types, TxInv, TxInOrder, [Next]_vars PROVE TxInOrder'
    OBVIOUS
  <1>1. ASSUME UNCHANGED <<Sent, can_out, answer, used["tx"]>>
        PROVE  TxInOrder'
    <2>1. \A m \in TxMsgs : StatusOf(m)' = StatusOf(m)
      BY <1>1, Zenon DEF StatusOf, Reply
    <2> QED
      BY <1>1, <2>1, OutFrame
  <1>2. /\ used = [q \in Queues |-> used[q]]
        /\ submitted \in [Kicked -> Seq(Requests)]
        /\ answer \in [Requests -> Statuses \cup {NoAnswer}]
    BY DEF Types, RingsOK, DataOK
  <1>3. CASE \E sent \in BOOLEAN : ProcessTx(sent)
    BY <1>3, OutProcess
  <1>4. CASE Worker /\ ~ \E sent \in BOOLEAN : ProcessTx(sent)
    <2>1. UNCHANGED <<submitted, can_out, answer, used["tx"]>>
      BY <1>2, <1>4 DEF Worker, WakeKick, WakeBackend, CollectPanics, CollectFails, Collect,
         ProcessCtrl, ProcessTxFails, ProcessRx, ProcessRxFails, ProcessRxEmpty, ProcessDone,
         Signal, Enable
    <2> QED
      BY <1>1, <2>1 DEF Sent
  <1>5. CASE \/ \E f \in BusFrames : ReadFrame(f)
             \/ ReaderPanics \/ Connect \/ SetVrings \/ UNCHANGED vars
             \/ \E q \in Kicked : Kick(q)
    <2>1. UNCHANGED <<submitted, can_out, answer, used>>
      BY <1>5 DEF ReadFrame, ReaderPanics, Connect, SetVrings, vars, Kick
    <2> QED
      BY <1>1, <2>1 DEF Sent
  <1>6. ASSUME NEW q \in Queues, Reap(q) PROVE TxInOrder'
    <2>1. UNCHANGED <<Sent, can_out>>
      BY <1>6 DEF Reap, Sent
    <2>2. CASE q \in Kicked
      BY <1>6, <2>1, <2>2, TxReap, OutFrame
    <2>3. CASE q = "rx"
      <3>1. answer' = [m \in Requests |-> answer[m]] /\ used'["tx"] = used["tx"]
        BY <1>2, <1>6, <2>3 DEF Reap
      <3>2. answer' = answer
        BY <1>2, <3>1
      <3> QED
        BY <1>1, <2>1, <3>1, <3>2
    <2> QED
      BY <2>2, <2>3
  <1>7. ASSUME NEW c \in Chains, Submit(c) PROVE TxInOrder'
    <2>1. CASE c \in TxMsgs
      BY <1>7, <2>1, OutSubmit
    <2>2. CASE c \notin TxMsgs
      <3>1. QueueOf(c) # "tx"
        BY <2>2 DEF QueueOf
      <3>2. UNCHANGED <<submitted["tx"], can_out, answer, used>>
        BY <1>2, <1>7, <3>1 DEF Submit
      <3> QED
        BY <1>1, <3>2 DEF Sent
    <2> QED
      BY <2>1, <2>2
  <1> QED
    BY <1>3, <1>4, <1>5, <1>6, <1>7 DEF Next, Guest

\* can_out carries exactly the messages that were answered with OK, in the
\* order the guest sent them (TxInOrder), whichever writes of a batch fail.
THEOREM TxOrdered == Spec => []TxInOrder
  <1>1. Init => TxInOrder
    <2> SUFFICES ASSUME Init PROVE TxInOrder
      OBVIOUS
    <2>1. can_out = <<>> /\ submitted["tx"] = <<>>
      BY DEF Init
    <2>2. DOMAIN can_out = {} /\ Range(can_out) = {} /\ Range(submitted["tx"]) = {}
      BY <2>1 DEF Range
    <2> QED
      BY <2>2, Zenon DEF TxInOrder
  <1> QED
    BY <1>1, InitTypes, TypesStep, TxInit, TxStep, OutStep, PTL DEF Spec
=============================================================================

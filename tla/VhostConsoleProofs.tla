------------------------- MODULE VhostConsoleProofs -------------------------
(***************************************************************************)
(* Proofs about VhostConsole that hold for every amount of output and      *)
(* input, every number of buffers and every interleaving of console        *)
(* thread, worker and guest: its types, the order of the characters the    *)
(* guest reads, and that the output and the control messages implement     *)
(* Channel.                                                                *)
(***************************************************************************)
EXTENDS VhostConsole, SequenceTheorems, TLAPS

-----------------------------------------------------------------------------
(* Types. *)

RxUsed == [buf : RxBufs, char : Keys]
CtrlUsed == [buf : CtrlBufs, msg : ToGuest]

FlagsOK ==
    /\ ready \in BOOLEAN /\ ready_to_write \in BOOLEAN /\ rx_event \in BOOLEAN
    /\ rx_ctrl_event \in BOOLEAN /\ poisoned \in BOOLEAN

\* The console thread has stored a character before it raises rx_event.
CharOK ==
    /\ cpc \in {"poll", "read", "store", "event", "ended"}
    /\ typed \in Seq(Keys)
    /\ output_buffer \in Keys \cup {NoChar} /\ character \in Keys \cup {NoChar}
    /\ cpc \in {"store", "event"} => character \in Keys
    /\ cpc = "event" \/ rx_event \/ ev = "BACKEND_EFD" => output_buffer \in Keys

\* The queue whose chains the handler holds in requests, or none.
Busy == wpc \in {"text", "input", "messages", "reply"}
        \/ (wpc = "control" /\ ev = "ctrl_tx")

\* The control point of handle_event, the event it serves and the chains it
\* holds agree.
HandlerOK ==
    /\ worker \in {"runs", "ended", "panicked"}
    /\ wpc \in {"wait", "collect", "text", "input", "messages", "reply",
                "control", "signal", "enable"}
    /\ ev \in Events \cup {None}
    /\ wpc # "wait" => ev # None
    /\ wpc = "text" => ev = "tx"
    /\ wpc \in {"input", "signal"} => ev = "BACKEND_EFD"
    /\ wpc \in {"messages", "reply"} => ev = "ctrl_tx"
    /\ wpc = "control" => ev \notin {"tx", "BACKEND_EFD"}
    /\ ~Busy => requests = <<>>
    /\ wpc \in {"reply", "control"} /\ ev = "ctrl_tx" => requests # <<>>
    /\ ev = "tx" => requests \in Seq(Texts)
    /\ ev = "BACKEND_EFD" => requests \in Seq(RxBufs)
    /\ ev \notin {"tx", "BACKEND_EFD"} => requests \in Seq(ToDevice)

RingsOK ==
    /\ avail = [q \in Queues |-> avail[q]] /\ used = [q \in Queues |-> used[q]]
    /\ avail["rx"] \in Seq(RxBufs) /\ avail["tx"] \in Seq(Texts)
    /\ avail["ctrl_rx"] \in Seq(CtrlBufs) /\ avail["ctrl_tx"] \in Seq(ToDevice)
    /\ used["rx"] \in Seq(RxUsed) /\ used["tx"] \in Seq(Texts)
    /\ used["ctrl_rx"] \in Seq(CtrlUsed) /\ used["ctrl_tx"] \in Seq(ToDevice)
    /\ chains \in Seq(CtrlBufs) /\ replies \in Seq(ToGuest)
    /\ rx_fifo \in Seq(ToGuest)

\* The buffer of a message is in the guest's hand while it handles it.
GuestOK ==
    /\ kick \subseteq Kicked /\ call \subseteq Queues /\ unkicked \subseteq Kicked
    /\ lag \in [Kicked -> 0 .. 2]
    /\ hands \subseteq CtrlBufs \cup RxBufs
    /\ gsend \in ToDevice \cup {None}
    /\ work \in {"boot", "idle", "loop", "send", "sending", "repost"}
    /\ inhand \in CtrlBufs \cup {None}
    /\ work \in {"send", "sending", "repost"} => inhand \in CtrlBufs
    /\ opens \in 0 .. MaxOpens

\* Histories.
HistoryOK ==
    /\ submitted \in Seq(Texts) /\ printed \in Seq(Texts)
    /\ queued \in Seq(ToGuest) /\ got \in Seq(ToGuest)
    /\ received \in Seq(Keys)

Types == CharOK /\ HandlerOK /\ RingsOK /\ GuestOK /\ HistoryOK

\* Abbreviations that carry no argument of their own.
USE DEF backVars, threadVars, workerVars, ringVars, guestVars, historyVars,
        Queues, Kicked, Events, ToDevice, ToGuest, None, NoChar, At, Busy

\* The empty sequence is a sequence of anything.
LEMMA EmptyChains ==
    /\ <<>> \in Seq(Texts) /\ <<>> \in Seq(RxBufs) /\ <<>> \in Seq(CtrlBufs)
    /\ <<>> \in Seq(ToDevice) /\ <<>> \in Seq(ToGuest) /\ <<>> \in Seq(RxUsed)
    /\ <<>> \in Seq(CtrlUsed) /\ <<>> \in Seq(Keys)
  BY EmptySeq

-----------------------------------------------------------------------------
(* The flags, one action at a time. *)

(* The worker keeps its own program counter and flags typed. *)
LEMMA FlagsWorker ==
    ASSUME FlagsOK, Worker
    PROVE  FlagsOK'
  <1>1. CASE \E q \in Kicked : WakeKick(q)
    BY <1>1, Zenon DEF FlagsOK, WakeKick
  <1>2. CASE \E e \in Events : WakeBackend(e)
    BY <1>2, Zenon DEF FlagsOK, WakeBackend
  <1>3. CASE Collect
    BY <1>3, Zenon DEF FlagsOK, Collect
  <1>4. CASE ProcessTx
    BY <1>4, Zenon DEF FlagsOK, ProcessTx
  <1>5. CASE \E panics \in BOOLEAN : ProcessTxFails(panics)
    BY <1>5, Zenon DEF FlagsOK, ProcessTxFails
  <1>6. CASE ProcessRx
    BY <1>6, Zenon DEF FlagsOK, ProcessRx
  <1>7. CASE HandleControlMsg
    BY <1>7, Zenon DEF FlagsOK, HandleControlMsg
  <1>8. CASE QueueReply
    BY <1>8, Zenon DEF FlagsOK, QueueReply
  <1>9. CASE ReturnControlMsg
    BY <1>9, Zenon DEF FlagsOK, ReturnControlMsg, RaiseCtrl
  <1>10. CASE ProcessCtrlRx
    BY <1>10, Zenon DEF FlagsOK, ProcessCtrlRx
  <1>11. CASE ProcessCtrlRxDry
    BY <1>11, Zenon DEF FlagsOK, ProcessCtrlRxDry
  <1>12. CASE ProcessCtrlRxDone
    BY <1>12, Zenon DEF FlagsOK, ProcessCtrlRxDone
  <1>13. CASE Signal
    BY <1>13, Zenon DEF FlagsOK, Signal
  <1>14. CASE Enable
    BY <1>14, Zenon DEF FlagsOK, Enable
  <1> QED
    BY <1>1, <1>2, <1>3, <1>4, <1>5, <1>6, <1>7, <1>8, <1>9, <1>10, <1>11,
       <1>12, <1>13, <1>14, Zenon DEF Worker

(* So does the console thread. *)
LEMMA FlagsConsole ==
    ASSUME FlagsOK, Console
    PROVE  FlagsOK'
  <1>1. CASE PollReady
    BY <1>1, Zenon DEF FlagsOK, PollReady
  <1>2. CASE ReadChar
    BY <1>2, Zenon DEF FlagsOK, ReadChar
  <1>3. CASE PassChar
    BY <1>3, Zenon DEF FlagsOK, PassChar, Write
  <1>4. CASE ConsolePanics
    BY <1>4, Zenon DEF FlagsOK, ConsolePanics
  <1> QED
    BY <1>1, <1>2, <1>3, <1>4, Zenon DEF Console

\* The guest reaches no field of the backend.
LEMMA GuestBackend ==
    ASSUME \/ GuestControl \/ SendDeviceReady \/ SendPortOpen
           \/ (\E b \in CtrlBufs : PostCtrlBuf(b))
           \/ (\E m \in Texts : WriteText(m)) \/ ReadInput
    PROVE  UNCHANGED <<backVars, threadVars, workerVars, typed>>
  BY DEF GuestControl, Kick, PostRxBuf, SendPortReady, ControlReturned, CtrlIntr,
     CtrlTake, CtrlIdle, Repost, SendDeviceReady, SendPortOpen, SendControl,
     PostCtrlBuf, WriteText, ReadInput, Add

\* Every step keeps the flags Boolean.
LEMMA FlagsStep ==
    ASSUME FlagsOK, [Next]_vars
    PROVE  FlagsOK'
  <1>1. CASE UNCHANGED backVars
    BY <1>1, Zenon DEF FlagsOK
  <1>2. UNCHANGED vars => UNCHANGED backVars
    BY Zenon DEF vars
  <1> QED
    BY <1>1, <1>2, FlagsConsole, FlagsWorker, GuestBackend, Zenon DEF Next

-----------------------------------------------------------------------------
(* The console thread. *)

\* Only the console thread writes the character; only it raises rx_event.
LEMMA CharStep ==
    ASSUME CharOK, HandlerOK, [Next]_vars
    PROVE  CharOK'
  <1> USE VhostConsoleAssumption DEF CharOK
  <1>1. CASE PollReady
    BY <1>1 DEF PollReady
  <1>2. CASE ReadChar
    <2>1. Len(typed) \in Nat /\ Len(typed) + 1 \in Keys
      BY <1>2, LenProperties DEF ReadChar, Keys
    <2>2. typed' \in Seq(Keys)
      BY <1>2, <2>1, AppendProperties DEF ReadChar
    <2> QED
      BY <1>2, <2>1, <2>2 DEF ReadChar
  <1>3. CASE PassChar
    BY <1>3 DEF PassChar, Write
  <1>4. CASE ConsolePanics
    BY <1>4 DEF ConsolePanics
  <1>5. ASSUME UNCHANGED <<cpc, character, typed, output_buffer>>,
               rx_event' \/ ev' = "BACKEND_EFD" => rx_event \/ ev = "BACKEND_EFD"
        PROVE  CharOK'
    BY <1>5
  <1>6. CASE Worker
    <2>1. UNCHANGED <<cpc, character, typed, output_buffer>>
      BY <1>6 DEF Worker, WakeKick, WakeBackend, Collect, ProcessTx,
         ProcessTxFails, ProcessRx, HandleControlMsg, QueueReply,
         ReturnControlMsg, ProcessCtrlRx, ProcessCtrlRxDry, ProcessCtrlRxDone,
         Signal, Enable
    <2>2. CASE \E q \in Kicked : WakeKick(q)
      BY <1>5, <2>1, <2>2 DEF WakeKick
    <2>3. CASE \E e \in Events : WakeBackend(e)
      BY <1>5, <2>1, <2>3 DEF WakeBackend
    <2>4. CASE Collect
      <3>1. rx_event' => rx_event
        BY <2>4, Zenon DEF Collect
      <3>2. ev' = ev
        BY <2>4 DEF Collect
      <3> QED
        BY <1>5, <2>1, <3>1, <3>2
    <2>5. CASE Enable
      BY <1>5, <2>1, <2>5 DEF Enable
    <2>6. CASE \/ ProcessTx \/ (\E panics \in BOOLEAN : ProcessTxFails(panics))
               \/ ProcessRx \/ HandleControlMsg \/ QueueReply
               \/ ReturnControlMsg \/ ProcessCtrlRx \/ ProcessCtrlRxDry
               \/ ProcessCtrlRxDone \/ Signal
      <3>1. UNCHANGED <<rx_event, ev>>
        BY <2>6 DEF ProcessTx, ProcessTxFails, ProcessRx, HandleControlMsg,
           QueueReply, ReturnControlMsg, ProcessCtrlRx, ProcessCtrlRxDry,
           ProcessCtrlRxDone, Signal
      <3> QED
        BY <1>5, <2>1, <3>1
    <2> QED
      BY <1>6, <2>2, <2>3, <2>4, <2>5, <2>6 DEF Worker
  <1>7. CASE UNCHANGED <<backVars, threadVars, workerVars, typed>>
    BY <1>5, <1>7
  <1>8. UNCHANGED vars => UNCHANGED <<backVars, threadVars, workerVars, typed>>
    BY Zenon DEF vars
  <1> QED
    BY <1>1, <1>2, <1>3, <1>4, <1>6, <1>7, <1>8, GuestBackend DEF Next, Console

-----------------------------------------------------------------------------
(* The handler. *)

\* An event is taken, or the worker goes back to wait for one.
LEMMA HandlerStep ==
    ASSUME RingsOK, HandlerOK, [Next]_vars
    PROVE  HandlerOK'
  <1> USE EmptyChains DEF HandlerOK
  <1>1. CASE \E q \in Kicked : WakeKick(q)
    BY <1>1 DEF WakeKick
  <1>2. CASE \E e \in Events : WakeBackend(e)
    BY <1>2 DEF WakeBackend
  <1>3. CASE Collect
    <2>1. /\ wpc = "collect" /\ wpc' = HandlerOf(ev)
          /\ UNCHANGED <<worker, ev>>
          /\ requests' = IF VringOf(ev) = "ctrl_rx" THEN requests
                         ELSE avail[VringOf(ev)]
      BY <1>3 DEF Collect, Taken
    <2>2. CASE ev = "tx"
      BY <2>1, <2>2 DEF RingsOK, VringOf, HandlerOf
    <2>3. CASE ev = "BACKEND_EFD"
      BY <2>1, <2>3 DEF RingsOK, VringOf, HandlerOf
    <2>4. CASE ev = "ctrl_tx"
      BY <2>1, <2>4 DEF RingsOK, VringOf, HandlerOf
    <2>5. CASE ev = "ctrl_rx" \/ ev = "BACKEND_RX_EFD"
      BY <2>1, <2>5 DEF VringOf, HandlerOf
    <2> QED
      BY <2>1, <2>2, <2>3, <2>4, <2>5
  <1>4. CASE ProcessTx
    <2>1. /\ ev = "tx" /\ requests # <<>> /\ requests' = Tail(requests)
          /\ UNCHANGED <<worker, wpc, ev>> /\ wpc = "text"
      BY <1>4 DEF ProcessTx
    <2>2. requests' \in Seq(Texts)
      BY <2>1, HeadTailProperties
    <2> QED
      BY <2>1, <2>2
  <1>5. CASE \E panics \in BOOLEAN : ProcessTxFails(panics)
    BY <1>5 DEF ProcessTxFails
  <1>6. CASE ProcessRx
    BY <1>6 DEF ProcessRx
  <1>7. CASE HandleControlMsg \/ QueueReply
    BY <1>7 DEF HandleControlMsg, QueueReply
  <1>8. CASE ReturnControlMsg
    <2>1. /\ ev = "ctrl_tx" /\ requests # <<>> /\ requests' = Tail(requests)
          /\ UNCHANGED <<worker, ev>> /\ wpc' = "messages"
      BY <1>8 DEF ReturnControlMsg
    <2>2. requests' \in Seq(ToDevice)
      BY <2>1, HeadTailProperties
    <2> QED
      BY <2>1, <2>2
  <1>9. CASE ProcessCtrlRx
    BY <1>9 DEF ProcessCtrlRx
  <1>10. CASE ProcessCtrlRxDry \/ ProcessCtrlRxDone
    BY <1>10 DEF ProcessCtrlRxDry, ProcessCtrlRxDone, EndOfControl
  <1>11. CASE Signal
    BY <1>11 DEF Signal
  <1>12. CASE Enable
    BY <1>12 DEF Enable
  <1>13. CASE UNCHANGED workerVars
    BY <1>13
  <1>14. Console \/ UNCHANGED vars => UNCHANGED workerVars
    BY DEF Console, PollReady, ReadChar, PassChar, ConsolePanics, vars
  <1> QED
    BY <1>1, <1>2, <1>3, <1>4, <1>5, <1>6, <1>7, <1>8, <1>9, <1>10, <1>11,
       <1>12, <1>13, <1>14, GuestBackend DEF Next, Worker

-----------------------------------------------------------------------------
(* The rings. *)

\* A step that leaves the rings and the fifos alone.
LEMMA RingsFrame ==
    RingsOK /\ UNCHANGED <<avail, used, chains, replies, rx_fifo>> => RingsOK'
  BY DEF RingsOK

\* A chain is added to a queue of the guest.
LEMMA AddTypes ==
    ASSUME RingsOK, UNCHANGED <<used, chains, replies, rx_fifo>>,
           NEW q \in Queues, NEW x, avail' = [avail EXCEPT ![q] = Append(@, x)],
           \/ q = "rx" /\ x \in RxBufs
           \/ q = "tx" /\ x \in Texts
           \/ q = "ctrl_rx" /\ x \in CtrlBufs
           \/ q = "ctrl_tx" /\ x \in ToDevice
    PROVE  RingsOK'
  <1>1. CASE q = "rx" /\ x \in RxBufs
    <2>1. Append(avail["rx"], x) \in Seq(RxBufs)
      BY <1>1, AppendProperties DEF RingsOK
    <2> QED
      BY <1>1, <2>1 DEF RingsOK
  <1>2. CASE q = "tx" /\ x \in Texts
    <2>1. Append(avail["tx"], x) \in Seq(Texts)
      BY <1>2, AppendProperties DEF RingsOK
    <2> QED
      BY <1>2, <2>1 DEF RingsOK
  <1>3. CASE q = "ctrl_rx" /\ x \in CtrlBufs
    <2>1. Append(avail["ctrl_rx"], x) \in Seq(CtrlBufs)
      BY <1>3, AppendProperties DEF RingsOK
    <2> QED
      BY <1>3, <2>1 DEF RingsOK
  <1>4. CASE q = "ctrl_tx" /\ x \in ToDevice
    <2>1. Append(avail["ctrl_tx"], x) \in Seq(ToDevice)
      BY <1>4, AppendProperties DEF RingsOK
    <2> QED
      BY <1>4, <2>1 DEF RingsOK
  <1> QED
    BY <1>1, <1>2, <1>3, <1>4

\* The worker takes chains and returns them.
LEMMA RingsWorker ==
    ASSUME RingsOK, HandlerOK, CharOK, Worker
    PROVE  RingsOK'
  <1> USE EmptyChains
  <1>1. CASE Collect
    <2>1. /\ UNCHANGED <<used, replies, rx_fifo>>
          /\ avail' = [avail EXCEPT ![VringOf(ev)] = <<>>]
          /\ chains' = avail["ctrl_rx"] \/ chains' = chains
          /\ VringOf(ev) \in Queues
      BY <1>1 DEF Collect, Taken, Left, HandlerOK, VringOf
    <2> QED
      BY <2>1 DEF RingsOK
  <1>2. CASE ProcessTx
    <2>1. requests \in Seq(Texts) /\ requests # <<>>
      BY <1>2 DEF ProcessTx, HandlerOK
    <2>2. Append(used["tx"], Head(requests)) \in Seq(Texts)
      BY <2>1, HeadTailProperties, AppendProperties DEF RingsOK
    <2>3. /\ used' = [used EXCEPT !["tx"] = Append(@, Head(requests))]
          /\ UNCHANGED <<avail, chains, replies, rx_fifo>>
      BY <1>2 DEF ProcessTx
    <2> QED
      BY <2>2, <2>3 DEF RingsOK
  <1>3. CASE ProcessRx
    <2>1. UNCHANGED <<avail, chains, replies, rx_fifo>> /\ ev = "BACKEND_EFD"
      BY <1>3 DEF ProcessRx, HandlerOK
    <2>2. CASE requests = <<>>
      BY <1>3, <2>1, <2>2, RingsFrame DEF ProcessRx
    <2>3. CASE requests # <<>>
      <3> DEFINE x == [buf |-> Head(requests), char |-> output_buffer]
      <3>1. x \in RxUsed
        BY <2>1, <2>3, HeadTailProperties DEF HandlerOK, CharOK, RxUsed
      <3>2. used' = [used EXCEPT !["rx"] = Append(@, x)]
        BY <1>3, <2>3 DEF ProcessRx
      <3> HIDE DEF x
      <3>3. Append(used["rx"], x) \in Seq(RxUsed)
        BY <3>1, AppendProperties DEF RingsOK
      <3> QED
        BY <2>1, <3>2, <3>3 DEF RingsOK
    <2> QED
      BY <2>2, <2>3
  <1>4. CASE HandleControlMsg
    <2>1. /\ <<"PORT_ADD">> \in Seq(ToGuest)
          /\ <<"CONSOLE_PORT", "PORT_NAME", "PORT_OPEN">> \in Seq(ToGuest)
      OBVIOUS
    <2>2. replies' \in {<<"PORT_ADD">>, <<"CONSOLE_PORT", "PORT_NAME", "PORT_OPEN">>, <<>>}
      BY <1>4 DEF HandleControlMsg, Replies
    <2>3. replies' \in Seq(ToGuest)
      BY <2>1, <2>2
    <2> QED
      BY <1>4, <2>3 DEF HandleControlMsg, RingsOK
  <1>5. CASE QueueReply
    <2>1. /\ replies # <<>> /\ replies' = Tail(replies)
          /\ rx_fifo' = Append(rx_fifo, Head(replies))
          /\ chains' = avail["ctrl_rx"]
          /\ avail' = [avail EXCEPT !["ctrl_rx"] = <<>>]
          /\ UNCHANGED used
      BY <1>5 DEF QueueReply, Taken, Left
    <2>2. replies' \in Seq(ToGuest) /\ Head(replies) \in ToGuest
      BY <2>1, HeadTailProperties DEF RingsOK
    <2>3. rx_fifo' \in Seq(ToGuest)
      BY <2>1, <2>2, AppendProperties DEF RingsOK
    <2> QED
      BY <2>1, <2>2, <2>3 DEF RingsOK
  <1>6. CASE ReturnControlMsg
    <2>1. requests \in Seq(ToDevice) /\ requests # <<>>
      BY <1>6 DEF ReturnControlMsg, HandlerOK
    <2>2. Append(used["ctrl_tx"], Head(requests)) \in Seq(ToDevice)
      BY <2>1, HeadTailProperties, AppendProperties DEF RingsOK
    <2>3. /\ used' = [used EXCEPT !["ctrl_tx"] = Append(@, Head(requests))]
          /\ UNCHANGED <<avail, chains, replies, rx_fifo>>
      BY <1>6 DEF ReturnControlMsg
    <2> QED
      BY <2>2, <2>3 DEF RingsOK
  <1>7. CASE ProcessCtrlRx
    <2> DEFINE x == [buf |-> Head(chains), msg |-> Head(rx_fifo)]
    <2>1. /\ chains # <<>> /\ rx_fifo # <<>>
          /\ used' = [used EXCEPT !["ctrl_rx"] = Append(@, x)]
          /\ rx_fifo' = Tail(rx_fifo) /\ chains' = Tail(chains)
          /\ UNCHANGED <<avail, replies>>
      BY <1>7 DEF ProcessCtrlRx, Remove
    <2>2. /\ rx_fifo' \in Seq(ToGuest) /\ chains' \in Seq(CtrlBufs)
          /\ x \in CtrlUsed
      BY <2>1, HeadTailProperties DEF RingsOK, CtrlUsed
    <2> HIDE DEF x
    <2>3. Append(used["ctrl_rx"], x) \in Seq(CtrlUsed)
      BY <2>2, AppendProperties DEF RingsOK
    <2> QED
      BY <2>1, <2>2, <2>3 DEF RingsOK
  <1>8. CASE ProcessCtrlRxDry
    BY <1>8 DEF ProcessCtrlRxDry, RingsOK
  <1>9. CASE \/ (\E q \in Kicked : WakeKick(q)) \/ (\E e \in Events : WakeBackend(e))
             \/ (\E panics \in BOOLEAN : ProcessTxFails(panics))
             \/ ProcessCtrlRxDone \/ Signal \/ Enable
    <2>1. UNCHANGED <<avail, used, chains, replies, rx_fifo>>
      BY <1>9 DEF WakeKick, WakeBackend, ProcessTxFails, ProcessCtrlRxDone,
         Signal, Enable
    <2> QED
      BY <2>1, RingsFrame
  <1> QED
    BY <1>1, <1>2, <1>3, <1>4, <1>5, <1>6, <1>7, <1>8, <1>9 DEF Worker

\* The guest adds chains and takes what was returned.
LEMMA RingsGuest ==
    ASSUME RingsOK, GuestOK,
           \/ GuestControl \/ SendDeviceReady \/ SendPortOpen
           \/ (\E b \in CtrlBufs : PostCtrlBuf(b))
           \/ (\E m \in Texts : WriteText(m)) \/ ReadInput
    PROVE  RingsOK'
  <1> USE EmptyChains
  <1>1. UNCHANGED <<chains, replies, rx_fifo>>
    BY GuestBackend
  <1>2. CASE \E b \in CtrlBufs : PostCtrlBuf(b)
    <2>1. \E b \in CtrlBufs : /\ avail' = [avail EXCEPT !["ctrl_rx"] = Append(@, b)]
                              /\ UNCHANGED used
      BY <1>2 DEF PostCtrlBuf, Add
    <2> QED
      BY <1>1, <2>1, AddTypes
  <1>3. CASE \E b \in RxBufs : PostRxBuf(b)
    <2>1. \E b \in RxBufs : /\ avail' = [avail EXCEPT !["rx"] = Append(@, b)]
                            /\ UNCHANGED used
      BY <1>3 DEF PostRxBuf
    <2> QED
      BY <1>1, <2>1, AddTypes
  <1>4. CASE SendDeviceReady \/ SendPortReady \/ SendPortOpen
    <2>1. \E m \in ToDevice : /\ avail' = [avail EXCEPT !["ctrl_tx"] = Append(@, m)]
                              /\ UNCHANGED used
      BY <1>4 DEF SendDeviceReady, SendPortReady, SendPortOpen, SendControl, Add
    <2> QED
      BY <1>1, <2>1, AddTypes
  <1>5. CASE Repost
    <2>1. /\ avail' = [avail EXCEPT !["ctrl_rx"] = Append(@, inhand)]
          /\ UNCHANGED used /\ inhand \in CtrlBufs
      BY <1>5 DEF Repost, Add, GuestOK
    <2> QED
      BY <1>1, <2>1, AddTypes
  <1>6. CASE \E m \in Texts : WriteText(m)
    <2>1. \E m \in Texts : /\ avail' = [avail EXCEPT !["tx"] = Append(@, m)]
                           /\ UNCHANGED used
      BY <1>6 DEF WriteText, Add
    <2> QED
      BY <1>1, <2>1, AddTypes
  <1>7. CASE ControlReturned
    <2>1. /\ used' = [used EXCEPT !["ctrl_tx"] = Tail(@)] /\ UNCHANGED avail
          /\ used["ctrl_tx"] # <<>>
      BY <1>7 DEF ControlReturned
    <2>2. Tail(used["ctrl_tx"]) \in Seq(ToDevice)
      BY <2>1, HeadTailProperties DEF RingsOK
    <2> QED
      BY <1>1, <2>1, <2>2 DEF RingsOK
  <1>8. CASE CtrlTake
    <2>1. /\ used' = [used EXCEPT !["ctrl_rx"] = Tail(@)] /\ UNCHANGED avail
          /\ used["ctrl_rx"] # <<>>
      BY <1>8 DEF CtrlTake
    <2>2. Tail(used["ctrl_rx"]) \in Seq(CtrlUsed)
      BY <2>1, HeadTailProperties DEF RingsOK
    <2> QED
      BY <1>1, <2>1, <2>2 DEF RingsOK
  <1>9. CASE ReadInput
    <2>1. used' = [used EXCEPT !["rx"] = <<>>] /\ UNCHANGED avail
      BY <1>9 DEF ReadInput
    <2> QED
      BY <1>1, <2>1 DEF RingsOK
  <1>10. CASE (\E q \in Kicked : Kick(q)) \/ CtrlIntr \/ CtrlIdle
    <2>1. UNCHANGED <<avail, used>>
      BY <1>10 DEF Kick, CtrlIntr, CtrlIdle
    <2> QED
      BY <1>1, <2>1, RingsFrame
  <1> QED
    BY <1>2, <1>3, <1>4, <1>5, <1>6, <1>7, <1>8, <1>9, <1>10 DEF GuestControl

(* Every step keeps chains of the right kind on each queue. *)
LEMMA RingsStep ==
    ASSUME Types, [Next]_vars
    PROVE  RingsOK'
  <1>1. Console \/ UNCHANGED vars
        => UNCHANGED <<avail, used, chains, replies, rx_fifo>>
    BY DEF Console, PollReady, ReadChar, PassChar, ConsolePanics, vars
  <1> QED
    BY <1>1, RingsFrame, RingsWorker, RingsGuest DEF Next, Types

-----------------------------------------------------------------------------
(* The guest and the histories. *)

\* A counter of chains since avail_event never leaves its cap.
LEMMA Capped == \A n \in Nat : Cap2(n) \in 0 .. 2
  BY DEF Cap2

\* A chain is made available.
LEMMA GuestAdd ==
    ASSUME GuestOK, NEW q \in Kicked, NEW x, Add(q, x)
    PROVE  /\ unkicked' \subseteq Kicked
           /\ lag' \in [Kicked -> 0 .. 2]
           /\ UNCHANGED <<kick, call>>
  <1>1. lag[q] + 1 \in Nat
    BY DEF GuestOK
  <1>2. Cap2(lag[q] + 1) \in 0 .. 2
    BY <1>1, Capped
  <1>3. lag' = [lag EXCEPT ![q] = Cap2(lag[q] + 1)]
    BY DEF Add
  <1>4. unkicked' = unkicked \cup {q} /\ UNCHANGED <<kick, call>>
    BY DEF Add
  <1> QED
    BY <1>2, <1>3, <1>4 DEF GuestOK

(* Every step keeps what the guest knows of its chains typed. *)
LEMMA GuestStep ==
    ASSUME Types, [Next]_vars
    PROVE  GuestOK'
  <1> USE VhostConsoleAssumption DEF GuestOK
  <1>1. GuestOK /\ HandlerOK /\ RingsOK
    BY DEF Types
  <1>2. CASE \E b \in CtrlBufs : PostCtrlBuf(b)
    BY <1>1, <1>2, GuestAdd DEF PostCtrlBuf
  <1>3. CASE \E b \in RxBufs : PostRxBuf(b)
    BY <1>1, <1>3 DEF PostRxBuf
  <1>4. CASE SendDeviceReady
    <2>1. Add("ctrl_tx", "DEVICE_READY")
      BY <1>4 DEF SendDeviceReady, SendControl
    <2>2. /\ unkicked' \subseteq Kicked
          /\ lag' \in [Kicked -> 0 .. 2]
          /\ UNCHANGED <<kick, call>>
      BY <1>1, <2>1, GuestAdd
    <2>3. /\ gsend' = "DEVICE_READY" /\ work' = "idle"
          /\ UNCHANGED <<opens, hands, inhand>>
      BY <1>4 DEF SendDeviceReady, SendControl
    <2> QED
      BY <1>1, <2>2, <2>3
  <1>5. CASE SendPortReady
    <2>1. Add("ctrl_tx", "PORT_READY")
      BY <1>5 DEF SendPortReady, SendControl
    <2>2. /\ unkicked' \subseteq Kicked
          /\ lag' \in [Kicked -> 0 .. 2]
          /\ UNCHANGED <<kick, call>>
      BY <1>1, <2>1, GuestAdd
    <2>3. /\ gsend' = "PORT_READY" /\ work = "send" /\ work' = "sending"
          /\ UNCHANGED <<opens, hands, inhand>>
      BY <1>5 DEF SendPortReady, SendControl
    <2> QED
      BY <1>1, <2>2, <2>3
  <1>6. CASE SendPortOpen
    <2>1. Add("ctrl_tx", "PORT_OPEN")
      BY <1>6 DEF SendPortOpen, SendControl
    <2>2. /\ unkicked' \subseteq Kicked
          /\ lag' \in [Kicked -> 0 .. 2]
          /\ UNCHANGED <<kick, call>>
      BY <1>1, <2>1, GuestAdd
    <2>3. /\ gsend' = "PORT_OPEN" /\ opens < MaxOpens /\ opens' = opens + 1
          /\ UNCHANGED <<work, hands, inhand>>
      BY <1>6 DEF SendPortOpen, SendControl
    <2> QED
      BY <1>1, <2>2, <2>3
  <1>7. CASE Repost
    BY <1>1, <1>7, GuestAdd DEF Repost
  <1>8. CASE \E m \in Texts : WriteText(m)
    BY <1>1, <1>8, GuestAdd DEF WriteText
  <1>9. CASE \E q \in Kicked : Kick(q)
    BY <1>1, <1>9 DEF Kick
  <1>10. CASE ControlReturned
    BY <1>1, <1>10 DEF ControlReturned
  <1>11. CASE CtrlIntr \/ CtrlIdle
    BY <1>1, <1>11 DEF CtrlIntr, CtrlIdle
  <1>12. CASE CtrlTake
    <2>1. Head(used["ctrl_rx"]) \in CtrlUsed
      BY <1>1, <1>12, HeadTailProperties DEF CtrlTake, RingsOK
    <2>2. inhand' \in CtrlBufs /\ work' \in {"send", "repost"}
      BY <1>12, <2>1 DEF CtrlTake, CtrlUsed
    <2>3. UNCHANGED <<kick, call, lag, hands, unkicked, gsend, opens>>
      BY <1>12 DEF CtrlTake
    <2> QED
      BY <1>1, <2>2, <2>3
  <1>13. CASE ReadInput
    <2> DEFINE u == used["rx"]
    <2>1. \A k \in DOMAIN u : u[k].buf \in RxBufs
      <3>1. u \in Seq(RxUsed)
        BY <1>1 DEF RingsOK
      <3>2. \A k \in DOMAIN u : u[k] \in RxUsed
        BY <3>1, LenProperties, ElementOfSeq
      <3> QED
        BY <3>2 DEF RxUsed
    <2>2. /\ hands' = hands \cup {u[k].buf : k \in DOMAIN u}
          /\ call' = call \ {"rx"}
          /\ UNCHANGED <<kick, lag, unkicked, gsend, work, inhand, opens>>
      BY <1>13 DEF ReadInput
    <2> HIDE DEF u
    <2> QED
      BY <1>1, <2>1, <2>2
  <1>14. CASE \E q \in Kicked : WakeKick(q)
    BY <1>1, <1>14 DEF WakeKick
  <1>15. CASE ProcessCtrlRxDone
    BY <1>1, <1>15 DEF ProcessCtrlRxDone
  <1>16. CASE Signal
    <2>1. VringOf(ev) \in Queues
      BY <1>1, <1>16 DEF Signal, HandlerOK, VringOf
    <2>2. call' = call \cup {VringOf(ev)} /\ UNCHANGED <<kick, lag, guestVars>>
      BY <1>16 DEF Signal
    <2> QED
      BY <1>1, <2>1, <2>2
  <1>17. CASE Enable
    <2>1. \A q \in Kicked : Len(avail[q]) \in Nat
      BY <1>1, LenProperties DEF RingsOK
    <2>2. \A q \in Kicked : Cap2(Len(avail[q])) \in 0 .. 2
      BY <2>1, Capped
    <2>3. /\ lag' = [q \in Kicked |-> IF EventIdx /\ q = VringOf(ev)
                                      THEN Cap2(Len(avail[q])) ELSE lag[q]]
          /\ UNCHANGED <<kick, call, guestVars>>
      BY <1>17 DEF Enable
    <2> QED
      BY <1>1, <2>2, <2>3
  <1>18. CASE UNCHANGED <<kick, call, lag, guestVars>>
    BY <1>1, <1>18
  <1>19. \/ Console \/ (\E e \in Events : WakeBackend(e)) \/ Collect \/ ProcessTx
         \/ (\E panics \in BOOLEAN : ProcessTxFails(panics)) \/ ProcessRx
         \/ HandleControlMsg \/ QueueReply \/ ReturnControlMsg \/ ProcessCtrlRx
         \/ ProcessCtrlRxDry \/ UNCHANGED vars
         => UNCHANGED <<kick, call, lag, guestVars>>
    BY DEF Console, PollReady, ReadChar, PassChar, ConsolePanics, WakeBackend,
       Collect, ProcessTx, ProcessTxFails, ProcessRx, HandleControlMsg,
       QueueReply, ReturnControlMsg, ProcessCtrlRx, ProcessCtrlRxDry, vars
  <1> QED
    BY <1>2, <1>3, <1>4, <1>5, <1>6, <1>7, <1>8, <1>9, <1>10, <1>11, <1>12,
       <1>13, <1>14, <1>15, <1>16, <1>17, <1>18, <1>19
       DEF Next, Worker, GuestControl

\* The characters and the messages in a used ring.
Chars(u) == [k \in DOMAIN u |-> u[k].char]
Msgs(u) == [k \in DOMAIN u |-> u[k].msg]

\* They are characters, one for each used buffer.
LEMMA CharsType ==
    ASSUME NEW u \in Seq(RxUsed)
    PROVE  Chars(u) \in Seq(Keys) /\ Len(Chars(u)) = Len(u)
  <1>1. u \in [1 .. Len(u) -> RxUsed] /\ Len(u) \in Nat /\ DOMAIN u = 1 .. Len(u)
    BY LenProperties
  <1>2. Chars(u) \in [1 .. Len(u) -> Keys]
    BY <1>1 DEF Chars, RxUsed
  <1>3. Chars(u) \in Seq(Keys)
    BY <1>1, <1>2, SeqDef
  <1> QED
    BY <1>1, <1>2, <1>3, LenProperties

(* Every step keeps the records of what was typed, printed and received typed. *)
LEMMA HistoryStep ==
    ASSUME Types, [Next]_vars
    PROVE  HistoryOK'
  <1> USE DEF HistoryOK
  <1>1. HistoryOK /\ HandlerOK /\ RingsOK
    BY DEF Types
  <1>2. CASE \E m \in Texts : WriteText(m)
    <2>1. /\ UNCHANGED <<received, printed, queued, got>>
          /\ \E m \in Texts : submitted' = Append(submitted, m)
      BY <1>2 DEF WriteText
    <2> QED
      BY <1>1, <2>1, AppendProperties
  <1>3. CASE ProcessTx
    <2>1. /\ UNCHANGED <<received, submitted, queued, got>>
          /\ printed' = Append(printed, Head(requests))
          /\ requests \in Seq(Texts) /\ requests # <<>>
      BY <1>1, <1>3 DEF ProcessTx, HandlerOK
    <2> QED
      BY <1>1, <2>1, HeadTailProperties, AppendProperties
  <1>4. CASE QueueReply
    <2>1. /\ UNCHANGED <<received, submitted, printed, got>>
          /\ queued' = Append(queued, Head(replies))
          /\ replies \in Seq(ToGuest) /\ replies # <<>>
      BY <1>1, <1>4 DEF QueueReply, RingsOK
    <2> QED
      BY <1>1, <2>1, HeadTailProperties, AppendProperties
  <1>5. CASE CtrlTake
    <2>1. /\ UNCHANGED <<received, submitted, printed, queued>>
          /\ got' = Append(got, Head(used["ctrl_rx"]).msg)
          /\ used["ctrl_rx"] \in Seq(CtrlUsed) /\ used["ctrl_rx"] # <<>>
      BY <1>1, <1>5 DEF CtrlTake, RingsOK
    <2>2. Head(used["ctrl_rx"]) \in CtrlUsed
      BY <2>1, HeadTailProperties
    <2>3. Head(used["ctrl_rx"]).msg \in ToGuest
      BY <2>2 DEF CtrlUsed
    <2> QED
      BY <1>1, <2>1, <2>3, AppendProperties
  <1>6. CASE ReadInput
    <2>1. /\ UNCHANGED <<submitted, printed, queued, got>>
          /\ received' = received \o Chars(used["rx"])
      BY <1>6, Zenon DEF ReadInput, Chars
    <2>2. Chars(used["rx"]) \in Seq(Keys)
      BY <1>1, CharsType DEF RingsOK
    <2> QED
      BY <1>1, <2>1, <2>2, ConcatProperties
  <1>7. CASE UNCHANGED <<received, submitted, printed, queued, got>>
    BY <1>1, <1>7
  <1>8. \/ Console \/ UNCHANGED vars
        \/ (GuestControl /\ ~CtrlTake) \/ SendDeviceReady \/ SendPortOpen
        \/ (\E b \in CtrlBufs : PostCtrlBuf(b))
        => UNCHANGED <<received, submitted, printed, queued, got>>
    BY DEF Console, PollReady, ReadChar, PassChar, ConsolePanics, vars,
       GuestControl, Kick, PostRxBuf, SendPortReady, SendControl,
       ControlReturned, CtrlIntr, CtrlIdle, Repost, SendDeviceReady,
       SendPortOpen, PostCtrlBuf
  <1>9. Worker /\ ~ProcessTx /\ ~QueueReply
        => UNCHANGED <<received, submitted, printed, queued, got>>
    BY DEF Worker, WakeKick, WakeBackend, Collect, ProcessTxFails, ProcessRx,
       HandleControlMsg, ReturnControlMsg, ProcessCtrlRx, ProcessCtrlRxDry,
       ProcessCtrlRxDone, Signal, Enable
  <1> QED
    BY <1>2, <1>3, <1>4, <1>5, <1>6, <1>7, <1>8, <1>9 DEF Next

(* No step of console thread, worker or guest leaves the types. *)
LEMMA TypesStep ==
    ASSUME Types, [Next]_vars
    PROVE  Types'
  <1>1. CharOK' /\ HandlerOK'
    BY CharStep, HandlerStep DEF Types
  <1> QED
    BY <1>1, RingsStep, GuestStep, HistoryStep DEF Types

(* The types hold when the backend has been created. *)
LEMMA TypesInit ==
    ASSUME Init
    PROVE  Types
  <1> USE VhostConsoleAssumption, EmptyChains DEF Init
  <1>1. CharOK
    BY DEF CharOK
  <1>2. HandlerOK
    BY DEF HandlerOK
  <1>3. RingsOK
    BY DEF RingsOK
  <1>4. GuestOK
    BY DEF GuestOK
  <1>5. HistoryOK
    BY DEF HistoryOK
  <1> QED
    BY <1>1, <1>2, <1>3, <1>4, <1>5 DEF Types

\* Every variable of the daemon and its guest keeps its type (TypeOK); in
\* particular no character that was never stored reaches the guest, and the
\* handler holds chains of the queue it serves only.
THEOREM TypeCorrect == Spec => []TypeOK
  <1>1. Init => FlagsOK
    BY Zenon DEF Init, FlagsOK
  <1>2. Types /\ FlagsOK => TypeOK
    <2> SUFFICES ASSUME Types, FlagsOK PROVE TypeOK
      OBVIOUS
    <2>1. {ready, ready_to_write, rx_event, rx_ctrl_event, poisoned} \subseteq BOOLEAN
      BY Zenon DEF FlagsOK
    <2>2. requests \in CASE ev = "tx" -> Seq(Texts)
                         [] ev = "BACKEND_EFD" -> Seq(RxBufs)
                         [] OTHER -> Seq(ToDevice)
      BY DEF Types, HandlerOK
    <2> QED
      BY <2>1, <2>2 DEF Types, CharOK, HandlerOK, RingsOK, GuestOK, TypeOK,
         RxUsed, CtrlUsed
  <1> QED
    BY <1>1, <1>2, TypesInit, TypesStep, FlagsStep, PTL DEF Spec

-----------------------------------------------------------------------------
(* The output implements Channel. *)

TextSeq == INSTANCE ItemSequences WITH Item <- Texts

\* The output the handler holds and has not printed.
HeldText == IF ev = "tx" THEN requests ELSE <<>>

\* What the guest has written is printed, held by the handler or available; a
\* worker that ends forgets what it holds.
TextPath ==
    worker = "runs" => submitted = printed \o (HeldText \o avail["tx"])

\* The output moves on inside the handler and the ring, or not at all.
LEMMA TextFrame ==
    ASSUME TextPath, UNCHANGED <<submitted, printed>>,
           worker' = "runs" => worker = "runs",
           (HeldText \o avail["tx"])' = HeldText \o avail["tx"]
    PROVE  TextPath'
  BY DEF TextPath

\* A step that touches neither output nor handler.
LEMMA TextStutter ==
    ASSUME UNCHANGED <<submitted, printed, avail["tx"], ev, requests>>
    PROVE  UNCHANGED <<submitted, printed>>
           /\ (HeldText \o avail["tx"])' = HeldText \o avail["tx"]
  BY DEF HeldText

\* A worker that has ended does not run again.
LEMMA WorkerStep == [Next]_vars => (worker' = "runs" => worker = "runs")
  <1> USE DEF At
  <1>1. Worker => (worker' = "runs" => worker = "runs")
    BY DEF Worker, WakeKick, WakeBackend, Collect, ProcessTx, ProcessTxFails,
       ProcessRx, HandleControlMsg, QueueReply, ReturnControlMsg, ProcessCtrlRx,
       ProcessCtrlRxDry, ProcessCtrlRxDone, Signal, Enable
  <1>2. Next /\ ~Worker => worker' = worker
    BY DEF Next, Console, PollReady, ReadChar, PassChar, ConsolePanics,
       GuestControl, Kick, PostRxBuf, SendPortReady, ControlReturned, CtrlIntr,
       CtrlTake, CtrlIdle, Repost, SendDeviceReady, SendPortOpen, SendControl,
       PostCtrlBuf, WriteText, ReadInput, Add, workerVars
  <1> QED
    BY <1>1, <1>2 DEF vars, workerVars

\* Every step is a step of the channel, and keeps TextPath.
LEMMA TextStep ==
    ASSUME Types, TextPath, [Next]_vars
    PROVE  TextPath' /\ [Text!Next]_<<submitted, printed>>
  <1> DEFINE a == avail["tx"]
             rest == HeldText \o a
  <1>1. /\ submitted \in Seq(Texts) /\ printed \in Seq(Texts)
        /\ a \in Seq(Texts) /\ HeldText \in Seq(Texts)
        /\ avail = [q \in Queues |-> avail[q]]
    BY EmptyChains DEF Types, HistoryOK, RingsOK, HandlerOK, HeldText
  <1>2. rest \in Seq(Texts)
    BY <1>1, ConcatProperties
  <1>0. worker' = "runs" => worker = "runs"
    BY WorkerStep
  <1>3. ASSUME UNCHANGED <<submitted, printed>>, rest' = rest
        PROVE  TextPath' /\ [Text!Next]_<<submitted, printed>>
    BY <1>0, <1>3, TextFrame
  <1>4. CASE \E m \in Texts : WriteText(m)
    <2>1. PICK m \in Texts : WriteText(m)
      BY <1>4
    <2>2. /\ submitted' = Append(submitted, m) /\ UNCHANGED <<printed, ev, requests>>
          /\ a' = Append(a, m)
      BY <1>1, <2>1 DEF WriteText, Add
    <2>3. HeldText' = HeldText
      BY <2>2 DEF HeldText
    <2>4. rest' = Append(rest, m)
      <3>1. Append(HeldText \o a, m) = HeldText \o Append(a, m)
        BY <1>1, TextSeq!AppendSecond
      <3> QED
        BY <2>2, <2>3, <3>1
    <2>5. Append(printed \o rest, m) = printed \o Append(rest, m)
      <3> HIDE DEF rest
      <3> QED
        BY <1>1, <1>2, TextSeq!AppendSecond
    <2>6. TextPath'
      BY <1>0, <2>2, <2>4, <2>5 DEF TextPath
    <2>7. Text!Next
      BY <2>2 DEF Text!Next, Text!Accept
    <2> QED
      BY <2>6, <2>7
  <1>5. CASE ProcessTx
    <2>1. /\ worker = "runs" /\ ev = "tx" /\ requests # <<>>
          /\ printed' = Append(printed, Head(requests))
          /\ requests' = Tail(requests)
          /\ UNCHANGED <<submitted, ev, avail>>
      BY <1>5 DEF ProcessTx, At, Types, HandlerOK
    <2>2. HeldText = requests /\ HeldText' = Tail(requests) /\ requests \in Seq(Texts)
      BY <1>1, <2>1 DEF HeldText
    <2>3. Append(printed, Head(requests)) \o (Tail(requests) \o a)
            = printed \o (requests \o a)
      BY <1>1, <2>1, <2>2, TextSeq!MoveHeadBefore
    <2>4. TextPath'
      BY <2>1, <2>2, <2>3 DEF TextPath
    <2>5. \E n \in Len(printed) + 1 .. Len(submitted) :
              printed' = SubSeq(submitted, 1, n) /\ UNCHANGED submitted
      <3>1. rest # <<>> /\ Head(rest) = Head(requests)
        <4>1. Len(requests) \in Nat /\ Len(requests) # 0 /\ Len(a) \in Nat
          BY <1>1, <2>1, <2>2, EmptySeq, LenProperties
        <4>2. Len(rest) = Len(requests) + Len(a) /\ rest[1] = requests[1]
          BY <1>1, <2>2, <4>1, ConcatProperties
        <4>3. Len(rest) # 0
          BY <4>1, <4>2
        <4>4. rest # <<>>
          BY <1>2, <4>3, EmptySeq
        <4>5. Head(requests) = requests[1]
          BY <2>1, <2>2, HeadTailProperties
        <4> HIDE DEF rest
        <4>6. Head(rest) = rest[1]
          BY <1>2, <4>4, HeadTailProperties
        <4> QED
          BY <4>2, <4>4, <4>5, <4>6
      <3>2. submitted = printed \o rest
        BY <2>1 DEF TextPath
      <3> HIDE DEF rest
      <3>3. \E n \in Len(printed) + 1 .. Len(printed \o rest) :
                Append(printed, Head(rest)) = SubSeq(printed \o rest, 1, n)
        BY <1>1, <1>2, <3>1, TextSeq!NextPart, Zenon
      <3>4. printed' = Append(printed, Head(rest)) /\ submitted' = submitted
        BY <2>1, <3>1, Zenon
      <3> QED
        BY <3>2, <3>3, <3>4, Zenon
    <2>6. Text!Next
      BY <2>5, Zenon DEF Text!Next, Text!Deliver
    <2> QED
      BY <2>4, <2>6
  <1>6. CASE Collect
    <2>1. /\ wpc = "collect" /\ requests = <<>>
          /\ UNCHANGED <<ev, submitted, printed>>
          /\ VringOf(ev) # "ctrl_rx" => requests' = avail[VringOf(ev)]
          /\ avail' = [avail EXCEPT ![VringOf(ev)] = <<>>]
      BY <1>6 DEF Collect, Taken, Left, Types, HandlerOK
    <2>2. CASE ev = "tx"
      <3>1. /\ HeldText = <<>> /\ HeldText' = a
            /\ a' = <<>>
        BY <1>1, <2>1, <2>2 DEF HeldText, VringOf
      <3>2. <<>> \o a = a /\ a \o <<>> = a
        BY <1>1, ConcatEmptySeq
      <3> QED
        BY <1>3, <2>1, <3>1, <3>2
    <2>3. CASE ev # "tx"
      <3>1. VringOf(ev) # "tx"
        BY <2>3 DEF VringOf
      <3>2. a' = a /\ HeldText' = HeldText
        BY <1>1, <2>1, <2>3, <3>1 DEF HeldText
      <3> QED
        BY <1>3, <2>1, <3>2
    <2> QED
      BY <2>2, <2>3
  <1>7. CASE \/ (\E q \in Kicked : WakeKick(q)) \/ (\E e \in Events : WakeBackend(e))
             \/ Enable
    <2>1. /\ UNCHANGED <<submitted, printed, avail, requests>>
          /\ requests = <<>>
      BY <1>7 DEF WakeKick, WakeBackend, Enable, Types, HandlerOK
    <2>2. HeldText' = HeldText
      BY <2>1 DEF HeldText
    <2> QED
      BY <1>3, <2>1, <2>2
  <1>8. CASE \/ ProcessRx \/ ReturnControlMsg
    <2>1. /\ UNCHANGED <<submitted, printed, avail, ev>> /\ ev # "tx"
      BY <1>8 DEF ProcessRx, ReturnControlMsg, Types, HandlerOK
    <2>2. HeldText' = HeldText
      BY <2>1 DEF HeldText
    <2> QED
      BY <1>3, <2>1, <2>2
  <1>9. ASSUME UNCHANGED <<submitted, printed, avail["tx"], ev, requests>>
        PROVE  TextPath' /\ [Text!Next]_<<submitted, printed>>
    BY <1>3, <1>9, TextStutter
  <1>13. CASE \E panics \in BOOLEAN : ProcessTxFails(panics)
    <2>1. UNCHANGED <<submitted, printed>> /\ worker' # "runs"
      BY <1>13 DEF ProcessTxFails
    <2> QED
      BY <2>1 DEF TextPath
  <1>10. CASE \/ HandleControlMsg \/ QueueReply \/ ProcessCtrlRx
              \/ ProcessCtrlRxDry \/ ProcessCtrlRxDone \/ Signal
    <2>1. UNCHANGED <<submitted, printed, avail["tx"], ev, requests>>
      BY <1>1, <1>10 DEF HandleControlMsg, QueueReply, ProcessCtrlRx,
         ProcessCtrlRxDry, ProcessCtrlRxDone, Signal
    <2> QED
      BY <1>9, <2>1
  <1>11. CASE \/ Console \/ UNCHANGED vars
    <2>1. UNCHANGED <<submitted, printed, avail["tx"], ev, requests>>
      BY <1>11 DEF Console, PollReady, ReadChar, PassChar, ConsolePanics, vars
    <2> QED
      BY <1>9, <2>1
  <1>12. CASE \/ GuestControl \/ SendDeviceReady \/ SendPortOpen
              \/ (\E b \in CtrlBufs : PostCtrlBuf(b)) \/ ReadInput
    <2>1. UNCHANGED <<submitted, printed, ev, requests>>
      BY <1>12 DEF GuestControl, Kick, PostRxBuf, SendPortReady,
         ControlReturned, CtrlIntr, CtrlTake, CtrlIdle, Repost, SendDeviceReady,
         SendPortOpen, SendControl, PostCtrlBuf, ReadInput, Add
    <2>2. UNCHANGED avail["tx"]
      BY <1>1, <1>12 DEF GuestControl, Kick, PostRxBuf, SendPortReady,
         ControlReturned, CtrlIntr, CtrlTake, CtrlIdle, Repost, SendDeviceReady,
         SendPortOpen, SendControl, PostCtrlBuf, ReadInput, Add
    <2> QED
      BY <1>9, <2>1, <2>2
  <1> QED
    BY <1>4, <1>5, <1>6, <1>7, <1>8, <1>13, <1>10, <1>11, <1>12 DEF Next, Worker

\* The terminal shows what the guest writes, in order and once (TextInOrder),
\* however many buffers a turn of handle_event collects and wherever
\* process_tx_requests fails.
THEOREM TextImplementsChannel == Spec => TextInOrder
  <1>1. Init => TextPath
    <2> SUFFICES ASSUME Init PROVE TextPath
      OBVIOUS
    <2>1. submitted = <<>> /\ printed = <<>> /\ HeldText = <<>> /\ avail["tx"] = <<>>
      BY DEF Init, HeldText
    <2> QED
      BY <2>1 DEF TextPath
  <1>2. Init => Text!Init
    BY DEF Init, Text!Init
  <1> QED
    BY <1>1, <1>2, TypesInit, TypesStep, TextStep, PTL
    DEF Spec, TextInOrder, Text!Spec

-----------------------------------------------------------------------------
(* The control messages implement Channel. *)

CtrlSeq == INSTANCE ItemSequences WITH Item <- ToGuest

\* The messages in the used ring are messages, one for each used buffer.
LEMMA MsgsType ==
    ASSUME NEW u \in Seq(CtrlUsed)
    PROVE  Msgs(u) \in Seq(ToGuest) /\ Len(Msgs(u)) = Len(u)
  <1>1. u \in [1 .. Len(u) -> CtrlUsed] /\ Len(u) \in Nat /\ DOMAIN u = 1 .. Len(u)
    BY LenProperties
  <1>2. Msgs(u) \in [1 .. Len(u) -> ToGuest]
    BY <1>1 DEF Msgs, CtrlUsed
  <1>3. Msgs(u) \in Seq(ToGuest)
    BY <1>1, <1>2, SeqDef
  <1> QED
    BY <1>1, <1>2, <1>3, LenProperties

\* A used buffer more is a message more.
LEMMA MsgsAppend ==
    ASSUME NEW u \in Seq(CtrlUsed), NEW x \in CtrlUsed
    PROVE  Msgs(Append(u, x)) = Append(Msgs(u), x.msg)
  <1> DEFINE a == Append(u, x)
  <1>1. /\ a \in Seq(CtrlUsed)
        /\ Len(a) = Len(u) + 1
        /\ \A k \in 1 .. Len(u) : a[k] = u[k]
        /\ a[Len(u) + 1] = x
    BY AppendProperties
  <1> SUFFICES Msgs(a) = Append(Msgs(u), x.msg)
    OBVIOUS
  <1> HIDE DEF a
  <1>2. /\ Msgs(u) \in Seq(ToGuest) /\ Len(Msgs(u)) = Len(u)
        /\ Msgs(a) \in Seq(ToGuest) /\ Len(Msgs(a)) = Len(u) + 1
    BY <1>1, MsgsType
  <1>3. DOMAIN u = 1 .. Len(u) /\ DOMAIN a = 1 .. Len(u) + 1 /\ Len(u) \in Nat
    BY <1>1, LenProperties
  <1>4. \A k \in 1 .. Len(u) : Msgs(a)[k] = Msgs(u)[k]
    BY <1>1, <1>3 DEF Msgs
  <1>5. Msgs(a)[Len(u) + 1] = x.msg
    BY <1>1, <1>3 DEF Msgs
  <1>6. x.msg \in ToGuest
    BY DEF CtrlUsed
  <1> QED
    BY <1>2, <1>4, <1>5, <1>6, CtrlSeq!IsAppend

\* The first used buffer holds the first message.
LEMMA MsgsTail ==
    ASSUME NEW u \in Seq(CtrlUsed), u # <<>>
    PROVE  /\ Msgs(u) # <<>> /\ Head(Msgs(u)) = Head(u).msg
           /\ Msgs(Tail(u)) = Tail(Msgs(u))
  <1> DEFINE b == Tail(u)
             m == Msgs(u)
             n == Msgs(b)
  <1>1. /\ b \in Seq(CtrlUsed) /\ Len(b) = Len(u) - 1
        /\ \A k \in 1 .. Len(b) : b[k] = u[k + 1]
        /\ Head(u) = u[1]
    BY HeadTailProperties
  <1>2. /\ m \in Seq(ToGuest) /\ Len(m) = Len(u)
        /\ n \in Seq(ToGuest) /\ Len(n) = Len(b)
    <2> HIDE DEF b
    <2> QED
      BY <1>1, MsgsType
  <1>3. /\ Len(u) \in Nat /\ Len(u) # 0
        /\ DOMAIN u = 1 .. Len(u) /\ DOMAIN b = 1 .. Len(u) - 1
    <2> HIDE DEF b
    <2> QED
      BY <1>1, LenProperties, EmptySeq
  <1> HIDE DEF b
  <1>4. m[1] = Head(u).msg
    BY <1>1, <1>3 DEF Msgs
  <1>5. \A k \in 1 .. Len(b) : n[k] = m[k + 1]
    BY <1>1, <1>3 DEF Msgs
  <1> HIDE DEF m, n
  <1>6. m # <<>>
    BY <1>2, <1>3, EmptySeq
  <1>7. Head(m) = m[1]
    BY <1>2, <1>6, HeadTailProperties
  <1>8. n = Tail(m)
    BY <1>1, <1>2, <1>5, <1>6, CtrlSeq!IsTail
  <1> QED
    BY <1>4, <1>6, <1>7, <1>8 DEF b, m, n

\* What was queued has been handled, is in the used ring or in rx_fifo.
ControlPath == queued = got \o (Msgs(used["ctrl_rx"]) \o rx_fifo)

\* Every step is a step of the channel, and keeps ControlPath.
LEMMA ControlStep ==
    ASSUME Types, ControlPath, [Next]_vars
    PROVE  ControlPath' /\ [Control!Next]_<<queued, got>>
  <1> DEFINE u == used["ctrl_rx"]
             ms == Msgs(u)
             rest == ms \o rx_fifo
  <1>1. /\ queued \in Seq(ToGuest) /\ got \in Seq(ToGuest)
        /\ rx_fifo \in Seq(ToGuest) /\ u \in Seq(CtrlUsed)
        /\ used = [q \in Queues |-> used[q]]
    BY DEF Types, HistoryOK, RingsOK
  <1>2. ms \in Seq(ToGuest)
    BY <1>1, MsgsType
  <1>3. rest \in Seq(ToGuest)
    BY <1>1, <1>2, ConcatProperties
  <1>4. ASSUME UNCHANGED <<queued, got>>, rest' = rest
        PROVE  ControlPath' /\ [Control!Next]_<<queued, got>>
    BY <1>4 DEF ControlPath
  <1>5. ASSUME UNCHANGED <<queued, got, rx_fifo, used["ctrl_rx"]>>
        PROVE  ControlPath' /\ [Control!Next]_<<queued, got>>
    <2>1. ms' = ms
      BY <1>5 DEF Msgs
    <2> QED
      BY <1>4, <1>5, <2>1
  <1>6. CASE QueueReply
    <2> DEFINE x == Head(replies)
    <2>1. /\ queued' = Append(queued, x) /\ rx_fifo' = Append(rx_fifo, x)
          /\ UNCHANGED <<got, used>> /\ replies # <<>>
      BY <1>6 DEF QueueReply
    <2>2. x \in ToGuest
      BY <2>1, HeadTailProperties DEF Types, RingsOK
    <2>3. ms' = ms
      BY <2>1 DEF Msgs
    <2> HIDE DEF x, ms
    <2>4. rest' = Append(rest, x)
      <3>1. Append(ms \o rx_fifo, x) = ms \o Append(rx_fifo, x)
        BY <1>1, <1>2, <2>2, CtrlSeq!AppendSecond
      <3> QED
        BY <2>1, <2>3, <3>1
    <2>5. queued = got \o rest
      BY DEF ControlPath, ms
    <2> HIDE DEF rest
    <2>6. Append(got \o rest, x) = got \o Append(rest, x)
      BY <1>1, <1>3, <2>2, CtrlSeq!AppendSecond
    <2>7. queued' = got' \o rest'
      BY <2>1, <2>4, <2>5, <2>6
    <2>8. ControlPath'
      BY <2>7 DEF ControlPath, rest, ms
    <2>9. Control!Next
      BY <2>1, <2>2 DEF Control!Next, Control!Accept
    <2> QED
      BY <2>8, <2>9
  <1>7. CASE ProcessCtrlRx
    <2> DEFINE x == [buf |-> Head(chains), msg |-> Head(rx_fifo)]
    <2>1. /\ chains # <<>> /\ rx_fifo # <<>>
          /\ used'["ctrl_rx"] = Append(u, x)
          /\ rx_fifo' = Tail(rx_fifo)
          /\ UNCHANGED <<queued, got>>
      BY <1>1, <1>7 DEF ProcessCtrlRx, Remove
    <2>2. x \in CtrlUsed /\ x.msg = Head(rx_fifo)
      BY <2>1, HeadTailProperties DEF Types, RingsOK, CtrlUsed
    <2> HIDE DEF x
    <2>3. ms' = Append(ms, Head(rx_fifo))
      <3>1. Msgs(Append(u, x)) = Append(Msgs(u), x.msg)
        BY <1>1, <2>2, MsgsAppend
      <3> QED
        BY <2>1, <2>2, <3>1 DEF Msgs
    <2> HIDE DEF ms
    <2>4. Append(ms, Head(rx_fifo)) \o Tail(rx_fifo) = ms \o rx_fifo
      BY <1>1, <1>2, <2>1, CtrlSeq!MoveHead
    <2> QED
      BY <1>4, <2>1, <2>3, <2>4
  <1>8. CASE CtrlTake
    <2>1. /\ u # <<>> /\ got' = Append(got, Head(u).msg)
          /\ used'["ctrl_rx"] = Tail(u)
          /\ UNCHANGED <<queued, rx_fifo>>
      BY <1>1, <1>8 DEF CtrlTake
    <2>2. ms # <<>> /\ Head(ms) = Head(u).msg /\ Msgs(Tail(u)) = Tail(ms)
      BY <1>1, <2>1, MsgsTail
    <2>3. ms' = Tail(ms)
      <3>1. ms' = Msgs(Tail(u))
        BY <2>1 DEF Msgs
      <3> QED
        BY <2>2, <3>1
    <2>4. got' = Append(got, Head(ms))
      BY <2>1, <2>2
    <2>5. queued = got \o (ms \o rx_fifo)
      BY DEF ControlPath
    <2>6. (queued' = got' \o (ms' \o rx_fifo')) => ControlPath'
      BY DEF ControlPath
    <2> HIDE DEF ms, u
    <2>7. Append(got, Head(ms)) \o (Tail(ms) \o rx_fifo) = got \o (ms \o rx_fifo)
      BY <1>1, <1>2, <2>2, CtrlSeq!MoveHeadBefore
    <2>8. ControlPath'
      BY <2>1, <2>3, <2>4, <2>5, <2>6, <2>7
    <2>9. rest # <<>> /\ Head(rest) = Head(ms)
      <3>1. Len(ms) \in Nat /\ Len(ms) # 0 /\ Len(rx_fifo) \in Nat
        BY <1>1, <1>2, <2>2, EmptySeq, LenProperties
      <3>2. Len(rest) = Len(ms) + Len(rx_fifo) /\ rest[1] = ms[1]
        BY <1>1, <1>2, <3>1, ConcatProperties
      <3>3. Len(rest) # 0
        BY <3>1, <3>2
      <3>4. rest # <<>>
        BY <1>3, <3>3, EmptySeq
      <3>5. Head(ms) = ms[1]
        BY <1>2, <2>2, HeadTailProperties
      <3> HIDE DEF rest
      <3>6. Head(rest) = rest[1]
        BY <1>3, <3>4, HeadTailProperties
      <3> QED
        BY <3>2, <3>4, <3>5, <3>6
    <2>10. \E n \in Len(got) + 1 .. Len(queued) :
               got' = SubSeq(queued, 1, n) /\ UNCHANGED queued
      <3>1. queued = got \o rest
        BY <2>5
      <3> HIDE DEF rest
      <3>2. \E n \in Len(got) + 1 .. Len(got \o rest) :
                Append(got, Head(rest)) = SubSeq(got \o rest, 1, n)
        BY <1>1, <1>3, <2>9, CtrlSeq!NextPart, Zenon
      <3>3. got' = Append(got, Head(rest)) /\ queued' = queued
        BY <2>1, <2>4, <2>9, Zenon
      <3> QED
        BY <3>1, <3>2, <3>3, Zenon
    <2>11. Control!Next
      BY <2>10, Zenon DEF Control!Next, Control!Deliver
    <2> QED
      BY <2>8, <2>11
  <1>9. CASE Worker /\ ~QueueReply /\ ~ProcessCtrlRx
    <2>1. UNCHANGED <<queued, got, rx_fifo>>
      BY <1>9 DEF Worker, WakeKick, WakeBackend, Collect, ProcessTx,
         ProcessTxFails, ProcessRx, HandleControlMsg, ReturnControlMsg,
         ProcessCtrlRxDry, ProcessCtrlRxDone, Signal, Enable
    <2>2. UNCHANGED used["ctrl_rx"]
      BY <1>1, <1>9 DEF Worker, WakeKick, WakeBackend, Collect, ProcessTx,
         ProcessTxFails, ProcessRx, HandleControlMsg, ReturnControlMsg,
         ProcessCtrlRxDry, ProcessCtrlRxDone, Signal, Enable
    <2> QED
      BY <1>5, <2>1, <2>2
  <1>10. CASE Console \/ UNCHANGED vars
    <2>1. UNCHANGED <<queued, got, rx_fifo, used["ctrl_rx"]>>
      BY <1>10 DEF Console, PollReady, ReadChar, PassChar, ConsolePanics, vars
    <2> QED
      BY <1>5, <2>1
  <1>11. CASE \/ (GuestControl /\ ~CtrlTake) \/ SendDeviceReady \/ SendPortOpen
              \/ (\E b \in CtrlBufs : PostCtrlBuf(b))
              \/ (\E m \in Texts : WriteText(m)) \/ ReadInput
    <2>1. UNCHANGED <<queued, got, rx_fifo>>
      BY <1>11 DEF GuestControl, Kick, PostRxBuf, SendPortReady,
         ControlReturned, CtrlIntr, CtrlIdle, Repost, SendDeviceReady,
         SendPortOpen, SendControl, PostCtrlBuf, WriteText, ReadInput, Add
    <2>2. UNCHANGED used["ctrl_rx"]
      BY <1>1, <1>11 DEF GuestControl, Kick, PostRxBuf, SendPortReady,
         ControlReturned, CtrlIntr, CtrlIdle, Repost, SendDeviceReady,
         SendPortOpen, SendControl, PostCtrlBuf, WriteText, ReadInput, Add
    <2> QED
      BY <1>5, <2>1, <2>2
  <1> QED
    BY <1>6, <1>7, <1>8, <1>9, <1>10, <1>11 DEF Next

\* The guest handles the answers of handle_control_msg in the order they were
\* queued, each once (ControlInOrder), although kicks, rx_ctrl_event and the
\* nested calls of process_ctrl_rx_queue all drain rx_fifo.
THEOREM ControlImplementsChannel == Spec => ControlInOrder
  <1>1. Init => ControlPath
    <2> SUFFICES ASSUME Init PROVE ControlPath
      OBVIOUS
    <2>1. queued = <<>> /\ got = <<>> /\ rx_fifo = <<>> /\ used["ctrl_rx"] = <<>>
      BY DEF Init
    <2>2. Msgs(<<>>) = <<>>
      BY MsgsType, EmptyChains, EmptySeq
    <2> QED
      BY <2>1, <2>2 DEF ControlPath
  <1>2. Init => Control!Init
    BY DEF Init, Control!Init
  <1> QED
    BY <1>1, <1>2, TypesInit, TypesStep, ControlStep, PTL
    DEF Spec, ControlInOrder, Control!Spec
-----------------------------------------------------------------------------
(* The input. *)

KeySeq == INSTANCE ItemSequences WITH Item <- Keys

\* A used buffer more is a character more.
LEMMA CharsAppend ==
    ASSUME NEW u \in Seq(RxUsed), NEW x \in RxUsed
    PROVE  Chars(Append(u, x)) = Append(Chars(u), x.char)
  <1> DEFINE a == Append(u, x)
  <1>1. /\ a \in Seq(RxUsed)
        /\ Len(a) = Len(u) + 1
        /\ \A k \in 1 .. Len(u) : a[k] = u[k]
        /\ a[Len(u) + 1] = x
    BY AppendProperties
  <1> SUFFICES Chars(a) = Append(Chars(u), x.char)
    OBVIOUS
  <1> HIDE DEF a
  <1>2. /\ Chars(u) \in Seq(Keys) /\ Len(Chars(u)) = Len(u)
        /\ Chars(a) \in Seq(Keys) /\ Len(Chars(a)) = Len(u) + 1
    BY <1>1, CharsType
  <1>3. DOMAIN u = 1 .. Len(u) /\ DOMAIN a = 1 .. Len(u) + 1 /\ Len(u) \in Nat
    BY <1>1, LenProperties
  <1>4. \A k \in 1 .. Len(u) : Chars(a)[k] = Chars(u)[k]
    BY <1>1, <1>3 DEF Chars
  <1>5. Chars(a)[Len(u) + 1] = x.char
    BY <1>1, <1>3 DEF Chars
  <1>6. x.char \in Keys
    BY DEF RxUsed
  <1> QED
    BY <1>2, <1>4, <1>5, <1>6, KeySeq!IsAppend

\* What was handed to the guest: read, or in the used ring.
Handed == received \o Chars(used["rx"])

\* Characters are typed in the order of their numbers; the one in the hand of
\* the console thread is the last.
TypedInOrder ==
    /\ \A k \in DOMAIN typed : typed[k] = k
    /\ cpc = "store" => character = Len(typed)
    /\ output_buffer <= Len(typed)

\* What was handed is ordered and never newer than output_buffer, which is
\* what the next buffer gets.
Ordered(h, last) ==
    /\ \A i \in DOMAIN h : h[i] <= last
    /\ \A i, j \in DOMAIN h : i <= j => h[i] <= h[j]

InputInv == TypedInOrder /\ Ordered(Handed, output_buffer)

\* The guest's next character is the last one, or a newer one.
LEMMA OrderedAppend ==
    ASSUME NEW h \in Seq(Keys), NEW x \in Keys, Ordered(h, x)
    PROVE  Ordered(Append(h, x), x)
  <1> DEFINE a == Append(h, x)
  <1>1. /\ a \in Seq(Keys) /\ Len(a) = Len(h) + 1 /\ Len(h) \in Nat
        /\ DOMAIN h = 1 .. Len(h) /\ DOMAIN a = 1 .. Len(h) + 1
        /\ \A k \in 1 .. Len(h) : a[k] = h[k]
        /\ a[Len(h) + 1] = x
    BY AppendProperties, LenProperties
  <1> HIDE DEF a
  <1>2. x <= x
    BY DEF Keys
  <1>3. \A i \in DOMAIN a : a[i] <= x
    <2> SUFFICES ASSUME NEW i \in 1 .. Len(h) + 1 PROVE a[i] <= x
      BY <1>1
    <2>1. i \in 1 .. Len(h) \/ i = Len(h) + 1
      BY <1>1
    <2> QED
      BY <1>1, <1>2, <2>1 DEF Ordered
  <1>4. \A i, j \in DOMAIN a : i <= j => a[i] <= a[j]
    <2> SUFFICES ASSUME NEW i \in 1 .. Len(h) + 1, NEW j \in 1 .. Len(h) + 1,
                        i <= j
                 PROVE  a[i] <= a[j]
      BY <1>1
    <2>1. CASE j = Len(h) + 1
      BY <1>1, <1>3, <2>1
    <2>2. CASE j # Len(h) + 1
      <3>1. i \in 1 .. Len(h) /\ j \in 1 .. Len(h)
        BY <1>1, <2>2
      <3>2. h[i] <= h[j]
        BY <1>1, <3>1 DEF Ordered
      <3> QED
        BY <1>1, <3>1, <3>2
    <2> QED
      BY <2>1, <2>2
  <1> QED
    BY <1>3, <1>4 DEF Ordered, a

\* The character that the console thread stores is newer than those handed.
LEMMA OrderedLater ==
    ASSUME NEW h \in Seq(Keys), NEW x \in Nat, NEW y \in Nat, Ordered(h, x), x <= y
    PROVE  Ordered(h, y)
  <1>1. ASSUME NEW i \in DOMAIN h PROVE h[i] <= y
    <2>1. h[i] \in Nat
      <3>1. h[i] \in Keys
        BY LenProperties, ElementOfSeq
      <3> QED
        BY <3>1 DEF Keys
    <2>2. h[i] <= x
      BY DEF Ordered
    <2> QED
      BY <2>1, <2>2
  <1> QED
    BY <1>1 DEF Ordered

\* The console thread types, stores and raises in this order.
LEMMA TypedStep ==
    ASSUME Types, TypedInOrder, [Next]_vars
    PROVE  TypedInOrder' /\ output_buffer <= output_buffer'
  <1>1. /\ typed \in Seq(Keys) /\ Len(typed) \in Nat /\ output_buffer \in Nat
        /\ DOMAIN typed = 1 .. Len(typed)
    BY LenProperties DEF Types, CharOK, Keys
  <1>2. CASE ReadChar
    <2> DEFINE n == Len(typed) + 1
    <2>1. /\ character' = n /\ typed' = Append(typed, n) /\ n <= NKeys
          /\ cpc' = "store" /\ output_buffer' = output_buffer
      BY <1>1, <1>2, VhostConsoleAssumption DEF ReadChar
    <2>2. n \in Keys
      BY <1>1, <2>1, VhostConsoleAssumption DEF Keys
    <2>3. /\ typed' \in Seq(Keys) /\ Len(typed') = n
          /\ \A k \in 1 .. Len(typed) : typed'[k] = typed[k]
          /\ typed'[n] = n
      BY <1>1, <2>1, <2>2, AppendProperties
    <2>4. DOMAIN typed' = 1 .. n
      BY <2>3, LenProperties
    <2>5. ASSUME NEW k \in 1 .. n PROVE typed'[k] = k
      <3>1. k \in 1 .. Len(typed) \/ k = n
        BY <1>1
      <3> HIDE DEF n
      <3> QED
        BY <1>1, <2>3, <3>1 DEF TypedInOrder
    <2> QED
      BY <1>1, <2>1, <2>3, <2>4, <2>5 DEF TypedInOrder
  <1>3. CASE PassChar
    BY <1>1, <1>3 DEF PassChar, Write, TypedInOrder
  <1>4. CASE UNCHANGED <<typed, character, output_buffer>> /\ (cpc' # "store" \/ cpc' = cpc)
    BY <1>1, <1>4 DEF TypedInOrder
  <1>5. CASE PollReady \/ ConsolePanics \/ UNCHANGED vars
    BY <1>4, <1>5 DEF PollReady, ConsolePanics, vars
  <1>6. CASE Worker
    BY <1>4, <1>6 DEF Worker, WakeKick, WakeBackend, Collect, ProcessTx,
       ProcessTxFails, ProcessRx, HandleControlMsg, QueueReply,
       ReturnControlMsg, ProcessCtrlRx, ProcessCtrlRxDry, ProcessCtrlRxDone,
       Signal, Enable
  <1>7. CASE UNCHANGED <<backVars, threadVars, workerVars, typed>>
    BY <1>4, <1>7
  <1> QED
    BY <1>2, <1>3, <1>5, <1>6, <1>7, GuestBackend DEF Next, Console

\* A step hands out output_buffer, or nothing new.
LEMMA HandedStep ==
    ASSUME Types, [Next]_vars
    PROVE  \/ Handed' = Handed
           \/ /\ Handed' = Append(Handed, output_buffer)
              /\ output_buffer \in Keys /\ output_buffer' = output_buffer
  <1> DEFINE u == used["rx"]
  <1>1. /\ received \in Seq(Keys) /\ u \in Seq(RxUsed)
        /\ used = [q \in Queues |-> used[q]]
    BY DEF Types, HistoryOK, RingsOK
  <1>2. Chars(u) \in Seq(Keys)
    BY <1>1, CharsType
  <1>3. CASE UNCHANGED <<received, used["rx"]>>
    BY <1>3 DEF Handed, Chars
  <1>4. CASE ProcessRx /\ requests # <<>>
    <2> DEFINE x == [buf |-> Head(requests), char |-> output_buffer]
    <2>1. /\ ev = "BACKEND_EFD" /\ requests \in Seq(RxBufs)
          /\ output_buffer \in Keys
      BY <1>4 DEF ProcessRx, Types, HandlerOK, CharOK
    <2>2. /\ used'["rx"] = Append(u, x)
          /\ UNCHANGED <<received, output_buffer>>
      BY <1>1, <1>4 DEF ProcessRx
    <2>3. x \in RxUsed /\ x.char = output_buffer
      BY <1>4, <2>1, HeadTailProperties DEF RxUsed
    <2> HIDE DEF x
    <2>4. Chars(Append(u, x)) = Append(Chars(u), output_buffer)
      BY <1>1, <2>3, CharsAppend
    <2>5. Handed' = received \o Append(Chars(u), output_buffer)
      BY <2>2, <2>4 DEF Handed, Chars
    <2>6. received \o Append(Chars(u), output_buffer)
              = Append(received \o Chars(u), output_buffer)
      BY <1>1, <1>2, <2>1, KeySeq!AppendSecond
    <2> QED
      BY <2>1, <2>2, <2>5, <2>6 DEF Handed
  <1>5. CASE ReadInput
    <2>1. received' = received \o Chars(u)
      BY <1>5, Zenon DEF ReadInput, Chars
    <2>2. used'["rx"] = <<>>
      BY <1>1, <1>5 DEF ReadInput
    <2>3. Chars(<<>>) = <<>>
      BY CharsType, EmptyChains, EmptySeq
    <2>4. Handed' = (received \o Chars(u)) \o <<>>
      <3>1. Chars(used["rx"])' = Chars(<<>>)
        BY <2>2 DEF Chars
      <3> QED
        BY <2>1, <2>3, <3>1 DEF Handed
    <2>5. received \o Chars(u) \in Seq(Keys)
      BY <1>1, <1>2, ConcatProperties
    <2>6. (received \o Chars(u)) \o <<>> = received \o Chars(u)
      BY <2>5, ConcatEmptySeq
    <2> QED
      BY <2>4, <2>6 DEF Handed
  <1>6. CASE Worker /\ ~(ProcessRx /\ requests # <<>>)
    <2>1. UNCHANGED <<received, used["rx"]>>
      BY <1>1, <1>6 DEF Worker, WakeKick, WakeBackend, Collect, ProcessTx,
         ProcessTxFails, ProcessRx, HandleControlMsg, QueueReply,
         ReturnControlMsg, ProcessCtrlRx, ProcessCtrlRxDry, ProcessCtrlRxDone,
         Signal, Enable
    <2> QED
      BY <1>3, <2>1
  <1>7. CASE \/ Console \/ UNCHANGED vars \/ GuestControl \/ SendDeviceReady
             \/ SendPortOpen \/ (\E b \in CtrlBufs : PostCtrlBuf(b))
             \/ (\E m \in Texts : WriteText(m))
    <2>1. UNCHANGED <<received, used["rx"]>>
      BY <1>1, <1>7 DEF Console, PollReady, ReadChar, PassChar, ConsolePanics,
         vars, GuestControl, Kick, PostRxBuf, SendPortReady, ControlReturned,
         CtrlIntr, CtrlTake, CtrlIdle, Repost, SendDeviceReady, SendPortOpen,
         SendControl, PostCtrlBuf, WriteText, Add
    <2> QED
      BY <1>3, <2>1
  <1> QED
    BY <1>4, <1>5, <1>6, <1>7 DEF Next

\* Every step keeps the order of the characters.
LEMMA InputStep ==
    ASSUME Types, InputInv, [Next]_vars
    PROVE  InputInv'
  <1>1. TypedInOrder' /\ output_buffer <= output_buffer'
    BY TypedStep DEF InputInv
  <1>2. Handed \in Seq(Keys)
    BY CharsType, ConcatProperties DEF Handed, Types, HistoryOK, RingsOK
  <1>3. output_buffer \in Nat /\ output_buffer' \in Nat
    BY TypesStep DEF Types, CharOK, Keys
  <1>4. Ordered(Handed, output_buffer)
    BY DEF InputInv
  <1>5. CASE Handed' = Handed
    <2>1. Ordered(Handed, output_buffer')
      BY <1>1, <1>2, <1>3, <1>4, OrderedLater
    <2> QED
      BY <1>1, <1>5, <2>1 DEF InputInv, Ordered
  <1>6. CASE /\ Handed' = Append(Handed, output_buffer)
             /\ output_buffer \in Keys /\ output_buffer' = output_buffer
    <2>1. Ordered(Append(Handed, output_buffer), output_buffer)
      BY <1>2, <1>4, <1>6, OrderedAppend
    <2> QED
      BY <1>1, <1>6, <2>1 DEF InputInv, Ordered
  <1> QED
    BY <1>5, <1>6, HandedStep

\* What is handed to the guest was typed and is never older than what it was
\* handed before (InputNeverOlder), although the worker may read output_buffer
\* between the console thread's two writes or after the next one.
THEOREM InputOrdered == Spec => []InputNeverOlder
  <1>1. Init => InputInv
    <2> SUFFICES ASSUME Init PROVE InputInv
      OBVIOUS
    <2>1. /\ typed = <<>> /\ received = <<>> /\ used["rx"] = <<>>
          /\ output_buffer = 0 /\ cpc = "poll"
      BY DEF Init
    <2>2. Chars(<<>>) = <<>>
      BY CharsType, EmptyChains, EmptySeq
    <2>3. Handed = <<>>
      BY <2>1, <2>2 DEF Handed
    <2>4. Ordered(<<>>, output_buffer)
      BY DEF Ordered
    <2>5. TypedInOrder
      BY <2>1 DEF TypedInOrder
    <2> QED
      BY <2>3, <2>4, <2>5 DEF InputInv
  <1>2. Types /\ InputInv => InputNeverOlder
    <2> SUFFICES ASSUME Types, InputInv PROVE InputNeverOlder
      OBVIOUS
    <2>1. /\ Handed \in Seq(Keys) /\ output_buffer \in Nat
          /\ typed \in Seq(Keys)
      <3>1. Chars(used["rx"]) \in Seq(Keys) /\ received \in Seq(Keys)
        BY CharsType DEF Types, HistoryOK, RingsOK
      <3>2. Handed \in Seq(Keys)
        BY <3>1, ConcatProperties DEF Handed
      <3> QED
        BY <3>2 DEF Types, CharOK, Keys
    <2>2. ASSUME NEW j \in DOMAIN Handed PROVE Handed[j] \in Range(typed)
      <3>1. Handed[j] \in Nat \ {0}
        <4>1. Handed[j] \in Keys
          BY <2>1, LenProperties, ElementOfSeq
        <4> QED
          BY <4>1 DEF Keys
      <3>2. Handed[j] <= output_buffer /\ output_buffer <= Len(typed)
        BY DEF InputInv, TypedInOrder, Ordered
      <3>3. Len(typed) \in Nat /\ DOMAIN typed = 1 .. Len(typed)
        BY <2>1, LenProperties
      <3>4. Handed[j] \in DOMAIN typed
        BY <2>1, <3>1, <3>2, <3>3
      <3>5. typed[Handed[j]] = Handed[j]
        BY <3>4 DEF InputInv, TypedInOrder
      <3> QED
        BY <3>4, <3>5, Zenon DEF Range
    <2>3. \A i, j \in DOMAIN Handed : i <= j => Handed[i] <= Handed[j]
      BY DEF InputInv, Ordered
    <2>4. \A i, j \in DOMAIN Handed : i <= j =>
              Handed[i] <= Handed[j] /\ Handed[j] \in Range(typed)
      BY <2>2, <2>3, Zenon
    <2> QED
      BY <2>4, Zenon DEF InputNeverOlder, Handed, Chars
  <1> QED
    BY <1>1, <1>2, TypesInit, TypesStep, InputStep, PTL DEF Spec
=============================================================================

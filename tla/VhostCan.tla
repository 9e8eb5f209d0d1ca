------------------------------ MODULE VhostCan ------------------------------
(***************************************************************************)
(* vhost-device-can for one guest: the thread that reads the host's CAN    *)
(* interface (can.rs), the worker thread that serves the virtqueues        *)
(* (vhu_can.rs) and, as environment, the guest that fills them.            *)
(*                                                                         *)
(* The worker runs handle_event to its end before it waits again, but the  *)
(* reader and the guest run beside it, so every access of the handler to   *)
(* the rings, the fifo or an eventfd is a step.  An error returned from    *)
(* handle_event ends the worker; a panic also poisons the locks it holds.  *)
(***************************************************************************)
EXTENDS Naturals, Sequences, Functions

CONSTANTS
    BusFrames,   \* frames that arrive on can_in, numbers in their order
    Fd,          \* those the socket reports as CanAnyFrame::Fd
    ErrFrames,   \* those it reports as CanAnyFrame::Error
    TxMsgs,      \* TX messages of the guest, each sent once
    Bad,         \* those that are malformed, of a kind that was not negotiated
                 \* (RTR never is) or whose can_id is no StandardId
    CtrlMsgs,    \* control messages of the guest
    RxBufs,      \* receive buffers of the guest
    EventIdx,    \* VIRTIO_RING_F_EVENT_IDX was negotiated
    EarlyFrames, \* frames may arrive before a guest is connected
    Refusals     \* a frame may be refused after it was popped: the guest has
                 \* not negotiated its kind, or its buffer cannot be written

ASSUME VhostCanAssumption ==
    /\ BusFrames \subseteq Nat /\ Fd \subseteq BusFrames
    /\ ErrFrames \subseteq BusFrames \ Fd
    /\ Bad \subseteq TxMsgs /\ TxMsgs \cap (CtrlMsgs \cup RxBufs) = {}
    /\ EventIdx \in BOOLEAN /\ EarlyFrames \in BOOLEAN /\ Refusals \in BOOLEAN

Queues == {"tx", "rx", "ctrl"}
Kicked == {"tx", "ctrl"}
Requests == TxMsgs \cup CtrlMsgs
Chains == Requests \cup RxBufs
Statuses == {"OK", "ERR"}

VARIABLES
    \* CanController
    coming,     \* frames that have not arrived yet
    arrived,    \* the FD frames that have, in order
    rx_fifo,    \* rx_fifo
    rx_event,   \* rx_event_fd is readable
    poisoned,   \* the lock of the controller is poisoned
    reader,     \* the thread of read_can_socket: "runs" or "ended"
    \* the worker thread and the handler it runs
    mem,        \* the memory of the guest: "none", "known" (update_memory was
                \* called) or "ready" (and the vrings are set up)
    worker,     \* "runs", "ended" (by an error) or "panicked"
    wpc,        \* control point of handle_event
    ev,         \* the queue it serves
    requests,   \* the chains it collected and still holds
    \* the rings
    avail,      \* per queue, chains made available
    used,       \* per queue, chains returned and not reaped
    kick,       \* queues whose kick eventfd is readable
    lag,        \* per queue, chains made available since avail_event, up to 2
    call,       \* queues whose call eventfd is readable
    \* the guest
    hands,      \* chains the guest may make available
    unkicked,   \* queues it filled and has not looked at avail_event for
    submitted,  \* per queue, TX and control messages it has sent, in order
    answer,     \* their status, once the guest knows it
    received,   \* frames it has received, in order
    \* what became of messages and frames
    can_out,    \* frames written to can_out, in order
    lost,       \* frames that were popped and not given to the guest
    forgotten   \* TX messages that were collected and dropped by a failure

ctlVars    == <<coming, arrived, rx_fifo, rx_event, poisoned, reader>>
workerVars == <<mem, worker, wpc, ev, requests>>
ringVars   == <<avail, used, kick, call, lag>>
guestVars  == <<hands, unkicked, submitted, answer, received>>
outVars    == <<can_out, lost, forgotten>>
vars       == <<ctlVars, workerVars, ringVars, guestVars, outVars>>

NoAnswer == "none"
None == "none"

Init ==
    /\ coming = BusFrames
    /\ arrived = <<>> /\ rx_fifo = <<>>
    /\ rx_event = FALSE /\ poisoned = FALSE
    /\ reader \in {"runs", "ended"}   \* can_in could be opened, or not
    /\ mem = "none"
    /\ worker = "runs" /\ wpc = "wait" /\ ev = None /\ requests = <<>>
    /\ avail = [q \in Queues |-> <<>>]
    /\ used = [q \in Queues |-> <<>>]
    /\ kick = {} /\ call = {} /\ lag = [q \in Kicked |-> 0]
    /\ hands = Chains
    /\ unkicked = {}
    /\ submitted = [q \in Kicked |-> <<>>]
    /\ answer = [m \in Requests |-> NoAnswer]
    /\ received = <<>>
    /\ can_out = <<>> /\ lost = <<>> /\ forgotten = <<>>

-----------------------------------------------------------------------------
(* read_can_socket.  push and the write of rx_event_fd happen under one    *)
(* lock of the controller; a frame that is not FD is printed, and still    *)
(* raises the event.  Definitions named X_Y are X with a slip of the kind  *)
(* Y that a property has to notice; no specification uses them.            *)

\* Only CanAnyFrame::Fd is put into the fifo.
Pushed_Any(f) == TRUE
Pushed(f) == f \in Fd

ReadFrame(f) ==
    /\ reader = "runs" /\ ~poisoned
    /\ mem = "ready" \/ EarlyFrames
    /\ f \in coming /\ \A g \in coming : f <= g
    /\ coming' = coming \ {f}
    /\ IF Pushed(f)
       THEN arrived' = Append(arrived, f) /\ rx_fifo' = Append(rx_fifo, f)
       ELSE UNCHANGED <<arrived, rx_fifo>>
    /\ rx_event' = TRUE
    /\ UNCHANGED <<poisoned, reader, workerVars, ringVars, guestVars, outVars>>

\* The lock is poisoned: unwrap panics.
ReaderPanics ==
    /\ reader = "runs" /\ poisoned /\ coming # {}
    /\ reader' = "ended"
    /\ UNCHANGED <<coming, arrived, rx_fifo, rx_event, poisoned, workerVars,
                   ringVars, guestVars, outVars>>

-----------------------------------------------------------------------------
(* handle_event. *)

Idle == worker = "runs" /\ wpc = "wait"
At(l) == worker = "runs" /\ wpc = l

\* A kick of TX_QUEUE or CTRL_QUEUE; those of RX_QUEUE return at once and are
\* left out.
WakeKick(q) ==
    /\ Idle /\ q \in kick
    /\ kick' = kick \ {q}
    /\ wpc' = "collect" /\ ev' = q
    /\ UNCHANGED <<ctlVars, mem, worker, requests, avail, used, call, lag,
                   guestVars, outVars>>

\* BACKEND_EFD: the eventfd is read, whatever its count, and RX is served.
WakeBackend ==
    /\ Idle /\ rx_event
    /\ rx_event' = FALSE
    /\ wpc' = "collect" /\ ev' = "rx"
    /\ UNCHANGED <<coming, arrived, rx_fifo, poisoned, reader, mem, worker,
                   requests, ringVars, guestVars, outVars>>

\* The memory of the guest is not known yet: unwrap panics.
CollectPanics ==
    /\ At("collect") /\ mem = "none"
    /\ worker' = "panicked"
    /\ UNCHANGED <<ctlVars, mem, wpc, ev, requests, ringVars, guestVars, outVars>>

\* It is known, but the vring is not set up: iter() fails.
CollectFails ==
    /\ At("collect") /\ mem = "known"
    /\ worker' = "ended"
    /\ UNCHANGED <<ctlVars, mem, wpc, ev, requests, ringVars, guestVars, outVars>>

\* process_*_queue takes every available chain.
Taken_First(q) == IF avail[q] = <<>> THEN <<>> ELSE <<Head(avail[q])>>
Taken(q) == avail[q]

Collect ==
    /\ At("collect") /\ mem = "ready"
    /\ requests' = Taken(ev)
    /\ avail' = [avail EXCEPT ![ev] = <<>>]
    /\ wpc' = "process"
    /\ UNCHANGED <<ctlVars, mem, worker, ev, used, kick, call, lag, guestVars,
                   outVars>>

\* process_ctrl_requests: START and STOP are answered with OK.
ProcessCtrl ==
    /\ At("process") /\ ev = "ctrl" /\ requests # <<>>
    /\ used' = [used EXCEPT !["ctrl"] = Append(@, [msg |-> Head(requests),
                                                   status |-> "OK"])]
    /\ requests' = Tail(requests)
    /\ UNCHANGED <<ctlVars, mem, worker, wpc, ev, avail, kick, call, lag,
                   guestVars, outVars>>

\* The status byte of a TX response.
Response_AlwaysOk(sent) == "OK"
Response(sent) == IF sent THEN "OK" ELSE "ERR"

\* process_tx_requests: the frame is written to can_out, or that fails; then
\* the chain is returned with the result.
ProcessTx(sent) ==
    /\ At("process") /\ ev = "tx" /\ requests # <<>>
    /\ Head(requests) \notin Bad
    /\ can_out' = IF sent THEN Append(can_out, Head(requests)) ELSE can_out
    /\ used' = [used EXCEPT !["tx"] = Append(@, [msg |-> Head(requests),
                                                 status |-> Response(sent)])]
    /\ requests' = Tail(requests)
    /\ UNCHANGED <<ctlVars, mem, worker, wpc, ev, avail, kick, call, lag,
                   guestVars, lost, forgotten>>

\* A malformed message, or one that was not negotiated, ends the worker with an
\* error; an id that is too big makes CanController::operation panic, with the
\* controller locked.  Either way the Vec of chains is dropped: this message
\* and those behind it are off the ring and forgotten.
ProcessTxFails(panics) ==
    /\ At("process") /\ ev = "tx" /\ requests # <<>>
    /\ Head(requests) \in Bad
    /\ worker' = IF panics THEN "panicked" ELSE "ended"
    /\ poisoned' = panics
    /\ forgotten' = requests /\ requests' = <<>>
    /\ UNCHANGED <<coming, arrived, rx_fifo, rx_event, reader, mem, wpc, ev,
                   ringVars, guestVars, can_out, lost>>

\* CanController::pop.
Pop_Peeks == UNCHANGED rx_fifo
Pop == rx_fifo' = Tail(rx_fifo)

\* process_rx_requests: the first chain takes the oldest frame; the others
\* that were collected are dropped.  An error frame would take nothing, but
\* none is ever pushed.
ProcessRx ==
    /\ At("process") /\ ev = "rx" /\ requests # <<>> /\ rx_fifo # <<>>
    /\ Pop
    /\ used' = IF Head(rx_fifo) \in ErrFrames THEN used
               ELSE [used EXCEPT !["rx"] = Append(@, [buf |-> Head(requests),
                                                      frame |-> Head(rx_fifo)])]
    /\ wpc' = "signal"
    /\ UNCHANGED <<coming, arrived, rx_event, poisoned, reader, mem, worker, ev,
                   requests, avail, kick, call, lag, guestVars, outVars>>

\* The frame is popped and then refused, or cannot be written: the error ends
\* the worker, and nobody has the frame.  Its flags are those of the id and
\* never carry CAN_FRMF_TYPE_FD, so every frame counts as classic.
ProcessRxFails ==
    /\ At("process") /\ ev = "rx" /\ requests # <<>> /\ rx_fifo # <<>>
    /\ Refusals
    /\ Pop
    /\ lost' = Append(lost, Head(rx_fifo))
    /\ worker' = "ended" /\ requests' = <<>>
    /\ UNCHANGED <<coming, arrived, rx_event, poisoned, reader, mem, wpc, ev,
                   ringVars, guestVars, can_out, forgotten>>

\* pop fails on an empty fifo.
ProcessRxEmpty ==
    /\ At("process") /\ ev = "rx" /\ requests # <<>> /\ rx_fifo = <<>>
    /\ worker' = "ended" /\ requests' = <<>>
    /\ UNCHANGED <<ctlVars, mem, wpc, ev, ringVars, guestVars, outVars>>

\* No requests, or none left: the handlers return Ok(true).
ProcessDone ==
    /\ At("process") /\ requests = <<>>
    /\ wpc' = "signal"
    /\ UNCHANGED <<ctlVars, mem, worker, ev, requests, ringVars, guestVars, outVars>>

\* signal_used_queue.
Signal ==
    /\ At("signal")
    /\ call' = call \cup {ev}
    /\ requests' = <<>>
    /\ wpc' = "enable"
    /\ UNCHANGED <<ctlVars, mem, worker, ev, avail, used, kick, lag, guestVars,
                   outVars>>

\* What enable_notification returns.
NewChains_Unchecked(q) == FALSE
NewChains(q) == avail[q] # <<>>

Cap2(n) == IF n > 2 THEN 2 ELSE n

\* With EVENT_IDX the loop goes on while enable_notification, which moves
\* avail_event to where the handler is, finds chains.
Enable ==
    /\ At("enable")
    /\ lag' = [q \in Kicked |->
                 IF EventIdx /\ q = ev THEN Cap2(Len(avail[q])) ELSE lag[q]]
    /\ IF EventIdx /\ NewChains(ev) THEN wpc' = "collect" /\ UNCHANGED ev
       ELSE wpc' = "wait" /\ ev' = None
    /\ UNCHANGED <<ctlVars, mem, worker, requests, avail, used, kick, call,
                   guestVars, outVars>>

-----------------------------------------------------------------------------
(* The guest. *)

\* The frontend passes the memory table.
Connect ==
    /\ mem = "none" /\ worker # "panicked"
    /\ mem' = "known"
    /\ UNCHANGED <<ctlVars, worker, wpc, ev, requests, ringVars, guestVars, outVars>>

\* It sets up the vrings.
SetVrings ==
    /\ mem = "known"
    /\ mem' = "ready"
    /\ UNCHANGED <<ctlVars, worker, wpc, ev, requests, ringVars, guestVars, outVars>>

QueueOf(c) == CASE c \in TxMsgs -> "tx" [] c \in RxBufs -> "rx" [] OTHER -> "ctrl"

\* A chain is made available; only then the guest looks whether to kick.
Submit(c) ==
    /\ mem = "ready" /\ c \in hands /\ QueueOf(c) \notin unkicked
    /\ hands' = hands \ {c}
    /\ avail' = [avail EXCEPT ![QueueOf(c)] = Append(@, c)]
    /\ lag' = [q \in Kicked |-> IF q = QueueOf(c) THEN Cap2(lag[q] + 1) ELSE lag[q]]
    /\ unkicked' = unkicked \cup ({QueueOf(c)} \cap Kicked)
    /\ submitted' = [q \in Kicked |-> IF q = QueueOf(c) THEN Append(submitted[q], c)
                                      ELSE submitted[q]]
    /\ UNCHANGED <<ctlVars, workerVars, used, kick, call, answer,
                   received, outVars>>

Kick(q) ==
    /\ q \in unkicked
    /\ unkicked' = unkicked \ {q}
    /\ kick' = IF EventIdx /\ lag[q] # 1 THEN kick ELSE kick \cup {q}
    /\ UNCHANGED <<ctlVars, workerVars, avail, used, call, lag, hands,
                   submitted, answer, received, outVars>>

\* The status of a message, once the used chains u are reaped.
Reply(u, m) ==
    IF \E k \in DOMAIN u : u[k].msg = m
    THEN u[CHOOSE k \in DOMAIN u : u[k].msg = m].status
    ELSE answer[m]

\* An interrupt: the used chains of the queue are reaped; a receive buffer
\* can be used again.
Reap(q) ==
    /\ q \in call
    /\ call' = call \ {q}
    /\ used' = [used EXCEPT ![q] = <<>>]
    /\ LET u == used[q] IN
        /\ answer' = [m \in Requests |-> IF q = "rx" THEN answer[m] ELSE Reply(u, m)]
        /\ received' = IF q = "rx" THEN received \o [k \in DOMAIN u |-> u[k].frame]
                       ELSE received
        /\ hands' = IF q = "rx" THEN hands \cup {u[k].buf : k \in DOMAIN u}
                    ELSE hands
    /\ UNCHANGED <<ctlVars, workerVars, avail, kick, lag, unkicked, submitted,
                   outVars>>

-----------------------------------------------------------------------------
Worker ==
    \/ \E q \in Kicked : WakeKick(q)
    \/ WakeBackend
    \/ CollectPanics \/ CollectFails \/ Collect
    \/ ProcessCtrl
    \/ \E sent \in BOOLEAN : ProcessTx(sent)
    \/ \E panics \in BOOLEAN : ProcessTxFails(panics)
    \/ ProcessRx \/ ProcessRxFails \/ ProcessRxEmpty \/ ProcessDone
    \/ Signal \/ Enable

\* What the guest does of itself: kick, reap, repost receive buffers.
Guest ==
    \/ \E q \in Kicked : Kick(q)
    \/ \E q \in Queues : Reap(q)
    \/ \E c \in RxBufs : Submit(c)

Next ==
    \/ \E f \in BusFrames : ReadFrame(f)
    \/ ReaderPanics
    \/ Worker
    \/ Guest
    \/ Connect \/ SetVrings
    \/ \E c \in Requests : Submit(c)

Spec == Init /\ [][Next]_vars

\* The worker goes on while an event is pending and the guest while it has
\* something to do.  Nobody has to send.
Fairness == WF_vars(Worker) /\ WF_vars(Guest)

FairSpec == Spec /\ Fairness

-----------------------------------------------------------------------------
(* Properties. *)

FlagsOK == rx_event \in BOOLEAN /\ poisoned \in BOOLEAN

DataOK ==
    /\ coming \subseteq BusFrames
    /\ arrived \in Seq(Fd) /\ rx_fifo \in Seq(Fd)
    /\ reader \in {"runs", "ended"}
    /\ mem \in {"none", "known", "ready"}
    /\ worker \in {"runs", "ended", "panicked"}
    /\ wpc \in {"wait", "collect", "process", "signal", "enable"}
    /\ ev \in Queues \cup {None}
    /\ requests \in Seq(Chains)
    /\ avail \in [Queues -> Seq(Chains)]
    /\ \A q \in Kicked : used[q] \in Seq([msg : Requests, status : Statuses])
    /\ used["rx"] \in Seq([buf : RxBufs, frame : Fd])
    /\ kick \subseteq Kicked /\ call \subseteq Queues
    /\ lag \in [Kicked -> 0 .. 2]
    /\ hands \subseteq Chains
    /\ unkicked \subseteq Kicked
    /\ submitted \in [Kicked -> Seq(Requests)]
    /\ answer \in [Requests -> Statuses \cup {NoAnswer}]
    /\ received \in Seq(Fd)
    /\ can_out \in Seq(TxMsgs)
    /\ lost \in Seq(Fd) /\ forgotten \in Seq(TxMsgs)

\* Every variable has its type; in particular only FD frames enter rx_fifo and
\* the receive queue of the guest: classic frames raise the event and no more.
TypeOK == FlagsOK /\ DataOK

\* The guest gets the FD frames of can_in in the order they arrived, none
\* twice and none skipped, however events coalesce and whether or not it has
\* receive buffers: what it has not got yet waits in rx_fifo.  A frame that
\* is refused after the pop is lost, but it is the last the worker touches:
\* nothing behind it overtakes.
RxInOrder ==
    /\ arrived = received \o [k \in DOMAIN used["rx"] |-> used["rx"][k].frame]
                 \o (lost \o rx_fifo)
    /\ lost # <<>> => worker = "ended" /\ Len(lost) = 1

\* From can_in to the guest the device is a channel: what the guest reads is
\* at any time an initial part of the FD frames that arrived.
RxChannel == INSTANCE Channel WITH Item <- Fd, input <- arrived, output <- received
RxForwarded == RxChannel!Spec

\* The status the device has given a TX message, reaped or not.
StatusOf(m) == Reply(used["tx"], m)

\* The TX messages the handler holds, and those in the ring behind them.
Pending == (IF ev = "tx" THEN requests ELSE <<>>) \o avail["tx"]

\* Of the TX messages the guest has sent a first part is answered; the rest is
\* held by the handler or in the ring, in this order: no collected chain is
\* skipped, answered twice or answered before its turn.  Only a bad message
\* breaks this: it and what was collected behind it are forgotten, and then
\* there is no worker that could answer anything out of turn.
TxConserved ==
    LET sent == submitted["tx"]
    IN  /\ forgotten # <<>> => worker # "runs" /\ Head(forgotten) \in Bad
        /\ \E n \in 0 .. Len(sent) :
            /\ \A k \in DOMAIN sent : StatusOf(sent[k]) # NoAnswer <=> k <= n
            /\ SubSeq(sent, n + 1, Len(sent)) = forgotten \o Pending

\* can_out carries exactly the messages that are answered with OK, in the
\* order the guest sent them.
TxInOrder ==
    LET sent == submitted["tx"]
    IN  /\ Range(can_out) = {m \in Range(sent) : StatusOf(m) = "OK"}
        /\ \A i, j \in DOMAIN can_out : i < j =>
               \E k, l \in DOMAIN sent :
                   k < l /\ sent[k] = can_out[i] /\ sent[l] = can_out[j]

\* Unless the worker is gone, there is always a moment to come at which every TX
\* and control message sent so far is answered: no kick is lost between the
\* check of the guest and the EVENT_IDX loop of handle_event.
RequestsAnswered ==
    []<>(\/ worker # "runs"
         \/ \A q \in Kicked : \A m \in Range(submitted[q]) : answer[m] # NoAnswer)

\* "vhost-device-can reads CAN/FD frames and sends them to the frontend":
\* every FD frame of can_in reaches a guest that keeps posting buffers.
FramesForwarded ==
    \A f \in Fd : f \in Range(arrived) ~> f \in Range(received)
=============================================================================

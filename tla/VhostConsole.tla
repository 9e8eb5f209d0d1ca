---------------------------- MODULE VhostConsole ----------------------------
(***************************************************************************)
(* vhost-device-console for one guest: the thread that reads the terminal  *)
(* and the worker that serves the four virtqueues (vhu_console.rs), with a *)
(* virtio_console guest as environment.                                    *)
(*                                                                         *)
(* The worker holds the write lock of the backend while handle_event runs, *)
(* so the console thread waits for it; the guest works on the rings beside *)
(* it.  Definitions named X_Y are X with a slip of the kind Y that a       *)
(* property has to notice; no specification uses them.                     *)
(***************************************************************************)
EXTENDS Naturals, Sequences, Functions

CONSTANTS
    NTexts,     \* buffers the guest may write, in this order
    Bad,        \* those that are no UTF-8, longer than 4096 bytes or less than
                \* 4096 bytes from the end of the memory
    NKeys,      \* bound: characters typed, numbered in this order
    CtrlBufs,   \* receive buffers of the control queue
    RxBufs,     \* receive buffers of the port
    EventIdx,   \* VIRTIO_RING_F_EVENT_IDX was negotiated
    MaxReads,   \* bound: characters the guest reads
    MaxOpens    \* bound: times the guest opens or closes its port

ASSUME VhostConsoleAssumption ==
    /\ NTexts \in Nat /\ NKeys \in Nat
    /\ Bad \subseteq 1 .. NTexts
    /\ EventIdx \in BOOLEAN /\ MaxReads \in Nat /\ MaxOpens \in Nat
    /\ CtrlBufs # {}

Queues == {"rx", "tx", "ctrl_rx", "ctrl_tx"}
Kicked == Queues \ {"rx"}
Events == {"tx", "ctrl_rx", "ctrl_tx", "BACKEND_EFD", "BACKEND_RX_EFD"}
ToDevice == {"DEVICE_READY", "PORT_READY", "PORT_OPEN"}
ToGuest == {"PORT_ADD", "CONSOLE_PORT", "PORT_NAME", "PORT_OPEN"}
Texts == 1 .. NTexts
Keys == 1 .. NKeys
None == "none"
NoChar == 0

VARIABLES
    \* VhostUserConsoleBackend
    ready, ready_to_write, output_buffer, rx_fifo, rx_event, rx_ctrl_event,
    poisoned,   \* the lock of the backend is poisoned
    \* the console thread
    cpc,        \* "poll", "read", "store", "event" or "ended"
    character,  \* what it has read
    \* the worker thread and the handler it runs
    worker,     \* "runs", "ended" (by an error) or "panicked"
    wpc,        \* control point of handle_event
    ev,         \* device_event
    requests,   \* chains it holds of TX, RX or CTRL_TX
    chains,     \* chains it holds of CTRL_RX
    replies,    \* answers to a control message it has still to queue
    \* the rings
    avail, used, kick, call,
    lag,        \* chains made available since avail_event, up to 2
    \* the guest
    hands,      \* receive buffers it may make available
    unkicked,   \* queues it filled and has not looked at avail_event for
    gsend,      \* control message it waits for the device to return
    work,       \* its control work: "boot", "idle", "loop", "send" or "repost"
    inhand,     \* buffer of the control message it handles
    opens,      \* times it has opened or closed its port
    \* histories
    typed, received,      \* characters, as typed and as read by the guest
    submitted, printed,   \* output, as written by the guest and as printed
    queued, got           \* control messages, as queued and as handled

backVars    == <<ready, ready_to_write, output_buffer, rx_fifo, rx_event,
                 rx_ctrl_event, poisoned>>
threadVars  == <<cpc, character>>
workerVars  == <<worker, wpc, ev, requests, chains, replies>>
ringVars    == <<avail, used, kick, call, lag>>
guestVars   == <<hands, unkicked, gsend, work, inhand, opens>>
historyVars == <<typed, received, submitted, printed, queued, got>>
vars == <<backVars, threadVars, workerVars, ringVars, guestVars, historyVars>>

\* VhostUserConsoleBackend::new, and a guest that boots.
Init ==
    /\ ready = FALSE /\ ready_to_write = FALSE /\ output_buffer = NoChar
    /\ rx_fifo = <<>> /\ rx_event = FALSE /\ rx_ctrl_event = FALSE
    /\ poisoned = FALSE
    /\ cpc = "poll" /\ character = NoChar
    /\ worker = "runs" /\ wpc = "wait" /\ ev = None
    /\ requests = <<>> /\ chains = <<>> /\ replies = <<>>
    /\ avail = [q \in Queues |-> <<>>] /\ used = [q \in Queues |-> <<>>]
    /\ kick = {} /\ call = {} /\ lag = [q \in Kicked |-> 0]
    /\ hands = CtrlBufs \cup RxBufs /\ unkicked = {}
    /\ gsend = None /\ work = "boot" /\ inhand = None /\ opens = 0
    /\ typed = <<>> /\ received = <<>>
    /\ submitted = <<>> /\ printed = <<>>
    /\ queued = <<>> /\ got = <<>>

-----------------------------------------------------------------------------
(* start_console_thread. *)

\* The lock is free; a panic of the worker poisons it.
Unlocked == wpc = "wait" \/ worker # "runs"

PollReady ==
    /\ cpc = "poll" /\ Unlocked /\ ~poisoned
    /\ ready_to_write
    /\ cpc' = "read"
    /\ UNCHANGED <<backVars, character, workerVars, ringVars, guestVars,
                   historyVars>>

\* read_char blocks, without a lock, until somebody types.
ReadChar ==
    /\ cpc = "read" /\ Len(typed) < NKeys
    /\ character' = Len(typed) + 1
    /\ typed' = Append(typed, character')
    /\ cpc' = "store"
    /\ UNCHANGED <<backVars, workerVars, ringVars, guestVars, received,
                   submitted, printed, queued, got>>

\* The two writes of the loop, each under a lock of its own.
Write_EventFirst(at) ==
    IF at = "event" THEN output_buffer' = character /\ UNCHANGED rx_event
    ELSE rx_event' = TRUE /\ UNCHANGED output_buffer
Write(at) ==
    IF at = "store" THEN output_buffer' = character /\ UNCHANGED rx_event
    ELSE rx_event' = TRUE /\ UNCHANGED output_buffer

PassChar ==
    /\ cpc \in {"store", "event"} /\ Unlocked /\ ~poisoned
    /\ Write(cpc)
    /\ IF cpc = "store" THEN cpc' = "event" /\ UNCHANGED character
       ELSE cpc' = "poll" /\ character' = NoChar
    /\ UNCHANGED <<ready, ready_to_write, rx_fifo, rx_ctrl_event, poisoned,
                   workerVars, ringVars, guestVars, historyVars>>

\* The lock is poisoned: unwrap panics.
ConsolePanics ==
    /\ cpc \in {"poll", "store", "event"} /\ poisoned
    /\ cpc' = "ended"
    /\ UNCHANGED <<backVars, character, workerVars, ringVars, guestVars,
                   historyVars>>

-----------------------------------------------------------------------------
(* handle_event. *)

At(l) == worker = "runs" /\ wpc = l

\* The vring of an event, and what it is served by.
VringOf(e) == CASE e = "BACKEND_EFD" -> "rx"
                [] e = "BACKEND_RX_EFD" -> "ctrl_rx"
                [] OTHER -> e
HandlerOf(e) == CASE e = "tx" -> "text"
                  [] e = "BACKEND_EFD" -> "input"
                  [] e = "ctrl_tx" -> "messages"
                  [] OTHER -> "control"

\* Kicks of CTRL_RX are ignored until the guest is ready; those of RX always
\* are, and are left out.
WakeKick(q) ==
    /\ At("wait") /\ q \in kick
    /\ kick' = kick \ {q}
    /\ IF q = "ctrl_rx" /\ ~ready THEN UNCHANGED <<wpc, ev>>
       ELSE wpc' = "collect" /\ ev' = q
    /\ UNCHANGED <<backVars, threadVars, worker, requests, chains, replies,
                   avail, used, call, lag, guestVars, historyVars>>

WakeBackend(e) ==
    /\ At("wait")
    /\ \/ e = "BACKEND_EFD" /\ rx_event
       \/ e = "BACKEND_RX_EFD" /\ rx_ctrl_event
    /\ wpc' = "collect" /\ ev' = e
    /\ UNCHANGED <<backVars, threadVars, worker, requests, chains, replies,
                   ringVars, guestVars, historyVars>>

\* process_*_queue takes every available chain.
Taken(q) == avail[q]
Left_TxPeeked(q) == IF q = "tx" THEN avail[q] ELSE <<>>
Left(q) == <<>>

\* One turn of the loop: an eventfd is read and the chains are collected.
Collect ==
    /\ At("collect")
    /\ ready_to_write' = (ready_to_write \/ ev = "tx")
    /\ rx_event' = (rx_event /\ ev # "BACKEND_EFD")
    /\ rx_ctrl_event' = (rx_ctrl_event /\ ev # "BACKEND_RX_EFD")
    /\ LET v == VringOf(ev) IN
        /\ IF v = "ctrl_rx" THEN chains' = Taken(v) /\ UNCHANGED requests
           ELSE requests' = Taken(v) /\ UNCHANGED chains
        /\ avail' = [avail EXCEPT ![v] = Left(v)]
    /\ wpc' = HandlerOf(ev)
    /\ UNCHANGED <<ready, output_buffer, rx_fifo, poisoned, threadVars, worker,
                   ev, replies, used, kick, call, lag, guestVars, historyVars>>

\* process_tx_requests: a chain is printed and returned.
ProcessTx ==
    /\ At("text") /\ requests # <<>>
    /\ Head(requests) \notin Bad
    /\ printed' = Append(printed, Head(requests))
    /\ used' = [used EXCEPT !["tx"] = Append(@, Head(requests))]
    /\ requests' = Tail(requests)
    /\ UNCHANGED <<backVars, threadVars, worker, wpc, ev, chains, replies,
                   avail, kick, call, lag, guestVars, typed, received,
                   submitted, queued, got>>

\* It reads 4096 bytes whatever the length: an error at the end of the memory
\* ends the worker, slicing the 4096 bytes or from_utf8 panics.  The chains it
\* has collected are forgotten with it.
ProcessTxFails(panics) ==
    /\ At("text") /\ requests # <<>>
    /\ Head(requests) \in Bad
    /\ worker' = IF panics THEN "panicked" ELSE "ended"
    /\ poisoned' = panics
    /\ requests' = <<>>
    /\ UNCHANGED <<ready, ready_to_write, output_buffer, rx_fifo, rx_event,
                   rx_ctrl_event, threadVars, wpc, ev, chains, replies,
                   ringVars, guestVars, historyVars>>

\* process_rx_requests: the first chain gets the character, the others that
\* were collected are dropped; without a chain the character stays behind.
ProcessRx ==
    /\ At("input")
    /\ used' = IF requests = <<>> THEN used
               ELSE [used EXCEPT !["rx"] = Append(@, [buf |-> Head(requests),
                                                      char |-> output_buffer])]
    /\ requests' = <<>>
    /\ wpc' = "signal"
    /\ UNCHANGED <<backVars, threadVars, worker, ev, chains, replies, avail,
                   kick, call, lag, guestVars, historyVars>>

\* handle_control_msg: the answers, in order; none to an unknown message.
Replies(m) ==
    CASE m = "DEVICE_READY" -> <<"PORT_ADD">>
      [] m = "PORT_READY" -> <<"CONSOLE_PORT", "PORT_NAME", "PORT_OPEN">>
      [] OTHER -> <<>>

\* process_ctrl_tx_requests: a message is read,
HandleControlMsg ==
    /\ At("messages") /\ requests # <<>>
    /\ ready' = (ready \/ Head(requests) = "DEVICE_READY")
    /\ replies' = Replies(Head(requests))
    /\ wpc' = "reply"
    /\ UNCHANGED <<ready_to_write, output_buffer, rx_fifo, rx_event,
                   rx_ctrl_event, poisoned, threadVars, worker, ev, requests,
                   chains, ringVars, guestVars, historyVars>>

\* each answer is queued and process_ctrl_rx_queue called for it,
QueueReply ==
    /\ At("reply") /\ replies # <<>>
    /\ rx_fifo' = Append(rx_fifo, Head(replies))
    /\ queued' = Append(queued, Head(replies))
    /\ replies' = Tail(replies)
    /\ chains' = Taken("ctrl_rx")
    /\ avail' = [avail EXCEPT !["ctrl_rx"] = Left("ctrl_rx")]
    /\ wpc' = "control"
    /\ UNCHANGED <<ready, ready_to_write, output_buffer, rx_event,
                   rx_ctrl_event, poisoned, threadVars, worker, ev, requests,
                   used, kick, call, lag, guestVars, typed, received, submitted,
                   printed, got>>

\* then rx_ctrl_event is raised,
RaiseCtrl_Forgotten == UNCHANGED rx_ctrl_event
RaiseCtrl == rx_ctrl_event' = TRUE

\* and the chain of the message returned.
ReturnControlMsg ==
    /\ At("reply") /\ replies = <<>>
    /\ RaiseCtrl
    /\ used' = [used EXCEPT !["ctrl_tx"] = Append(@, Head(requests))]
    /\ requests' = Tail(requests)
    /\ wpc' = "messages"
    /\ UNCHANGED <<ready, ready_to_write, output_buffer, rx_fifo, rx_event,
                   poisoned, threadVars, worker, ev, chains, replies, avail,
                   kick, call, lag, guestVars, historyVars>>

\* Where process_ctrl_rx_queue returns to.
EndOfControl == IF ev = "ctrl_tx" THEN "reply" ELSE "enable"

\* rx_fifo.remove().
Remove_Peeks == UNCHANGED rx_fifo
Remove == rx_fifo' = Tail(rx_fifo)

\* process_ctrl_rx_requests: every chain takes a message,
ProcessCtrlRx ==
    /\ At("control") /\ chains # <<>> /\ rx_fifo # <<>>
    /\ used' = [used EXCEPT !["ctrl_rx"] = Append(@, [buf |-> Head(chains),
                                                      msg |-> Head(rx_fifo)])]
    /\ Remove
    /\ chains' = Tail(chains)
    /\ UNCHANGED <<ready, ready_to_write, output_buffer, rx_event,
                   rx_ctrl_event, poisoned, threadVars, worker, wpc, ev,
                   requests, replies, avail, kick, call, lag, guestVars,
                   historyVars>>

\* until there is none left: it returns without a signal and the chains that
\* it still holds are dropped.
ProcessCtrlRxDry ==
    /\ At("control") /\ chains # <<>> /\ rx_fifo = <<>>
    /\ chains' = <<>>
    /\ wpc' = EndOfControl
    /\ UNCHANGED <<backVars, threadVars, worker, ev, requests, replies,
                   ringVars, guestVars, historyVars>>

\* All chains are used: signal_used_queue.
ProcessCtrlRxDone ==
    /\ At("control") /\ chains = <<>>
    /\ call' = call \cup {"ctrl_rx"}
    /\ wpc' = EndOfControl
    /\ UNCHANGED <<backVars, threadVars, worker, ev, requests, chains, replies,
                   avail, used, kick, lag, guestVars, historyVars>>

\* The requests of the other queues are served: signal_used_queue.
Signal ==
    /\ At("signal") \/ ((At("text") \/ At("messages")) /\ requests = <<>>)
    /\ call' = call \cup {VringOf(ev)}
    /\ wpc' = "enable"
    /\ UNCHANGED <<backVars, threadVars, worker, ev, requests, chains, replies,
                   avail, used, kick, lag, guestVars, historyVars>>

\* What enable_notification returns.
NewChains_Unchecked(q) == FALSE
NewChains(q) == avail[q] # <<>>

Cap2(n) == IF n > 2 THEN 2 ELSE n

\* With EVENT_IDX the loop goes on while enable_notification finds chains.
Enable ==
    /\ At("enable")
    /\ LET v == VringOf(ev) IN
        /\ lag' = [q \in Kicked |->
                     IF EventIdx /\ q = v THEN Cap2(Len(avail[q])) ELSE lag[q]]
        /\ IF EventIdx /\ NewChains(v) THEN wpc' = "collect" /\ UNCHANGED ev
           ELSE wpc' = "wait" /\ ev' = None
    /\ UNCHANGED <<backVars, threadVars, worker, requests, chains, replies,
                   avail, used, kick, call, guestVars, historyVars>>

-----------------------------------------------------------------------------
(* The guest: the control work, which posts its receive buffers before it  *)
(* announces itself and handles one message at a time; output and input.   *)

\* A chain is made available; only then the guest looks whether to kick.
Add(q, x) ==
    /\ q \notin unkicked
    /\ avail' = [avail EXCEPT ![q] = Append(@, x)]
    /\ lag' = [lag EXCEPT ![q] = Cap2(@ + 1)]
    /\ unkicked' = unkicked \cup {q}
    /\ UNCHANGED <<backVars, threadVars, workerVars, kick, call>>

Kick(q) ==
    /\ q \in unkicked
    /\ unkicked' = unkicked \ {q}
    /\ kick' = IF EventIdx /\ lag[q] # 1 THEN kick ELSE kick \cup {q}
    /\ UNCHANGED <<backVars, threadVars, workerVars, avail, used, call, lag,
                   hands, gsend, work, inhand, opens, historyVars>>

\* The buffers are alike: their order is fixed.
PostCtrlBuf(b) ==
    /\ work = "boot" /\ b \in hands \cap CtrlBufs
    /\ b = CHOOSE c \in hands \cap CtrlBufs : TRUE
    /\ Add("ctrl_rx", b)
    /\ hands' = hands \ {b}
    /\ UNCHANGED <<used, gsend, work, inhand, opens, historyVars>>

PostRxBuf(b) ==
    /\ "PORT_ADD" \in Range(got) /\ b \in hands \cap RxBufs
    /\ avail' = [avail EXCEPT !["rx"] = Append(@, b)]
    /\ hands' = hands \ {b}
    /\ UNCHANGED <<backVars, threadVars, workerVars, used, kick, call, lag,
                   unkicked, gsend, work, inhand, opens, historyVars>>

\* send_control_msg: one message at a time, and it spins for its return.
SendControl(m, from, to) ==
    /\ gsend = None /\ work \in from
    /\ Add("ctrl_tx", m)
    /\ gsend' = m /\ work' = IF to = None THEN work ELSE to
    /\ opens' = IF m = "PORT_OPEN" THEN opens + 1 ELSE opens
    /\ UNCHANGED <<used, hands, inhand, historyVars>>

SendDeviceReady ==
    /\ hands \cap CtrlBufs = {} /\ unkicked = {}
    /\ SendControl("DEVICE_READY", {"boot"}, "idle")
SendPortReady ==
    /\ hands \cap RxBufs = {} /\ unkicked = {}
    /\ SendControl("PORT_READY", {"send"}, "sending")

\* init_port_console opens the port in the middle of the handshake, a process
\* later.
SendPortOpen ==
    /\ "CONSOLE_PORT" \in Range(got) /\ opens < MaxOpens
    /\ SendControl("PORT_OPEN", {"idle", "loop", "repost"}, None)

ControlReturned ==
    /\ gsend # None /\ used["ctrl_tx"] # <<>>
    /\ used' = [used EXCEPT !["ctrl_tx"] = Tail(@)]
    /\ gsend' = None
    /\ work' = IF work = "sending" THEN "repost" ELSE work
    /\ UNCHANGED <<backVars, threadVars, workerVars, avail, kick, call, lag,
                   hands, unkicked, inhand, opens, historyVars>>

CtrlIntr ==
    /\ work = "idle" /\ "ctrl_rx" \in call
    /\ call' = call \ {"ctrl_rx"}
    /\ work' = "loop"
    /\ UNCHANGED <<backVars, threadVars, workerVars, avail, used, kick, lag,
                   hands, unkicked, gsend, inhand, opens, historyVars>>

CtrlTake ==
    /\ work = "loop" /\ used["ctrl_rx"] # <<>>
    /\ LET u == Head(used["ctrl_rx"]) IN
        /\ inhand' = u.buf
        /\ got' = Append(got, u.msg)
        /\ work' = IF u.msg = "PORT_ADD" THEN "send" ELSE "repost"
    /\ used' = [used EXCEPT !["ctrl_rx"] = Tail(@)]
    /\ UNCHANGED <<backVars, threadVars, workerVars, avail, kick, call, lag,
                   hands, unkicked, gsend, opens, typed, received, submitted,
                   printed, queued>>

CtrlIdle ==
    /\ work = "loop" /\ used["ctrl_rx"] = <<>>
    /\ work' = "idle"
    /\ UNCHANGED <<backVars, threadVars, workerVars, ringVars, hands, unkicked,
                   gsend, inhand, opens, historyVars>>

Repost ==
    /\ work = "repost"
    /\ Add("ctrl_rx", inhand)
    /\ inhand' = None /\ work' = "loop"
    /\ UNCHANGED <<used, hands, gsend, opens, historyVars>>

\* A process that has opened the port writes to it; that blocks until the
\* host has opened it too.  The texts come in order, the bad ones may not come.
WriteText(m) ==
    /\ opens > 0 /\ gsend = None /\ "PORT_OPEN" \in Range(got)
    /\ \A k \in Range(submitted) : k < m
    /\ \A k \in 1 .. m - 1 : k \in Bad \/ k \in Range(submitted)
    /\ Add("tx", m)
    /\ submitted' = Append(submitted, m)
    /\ UNCHANGED <<used, hands, gsend, work, inhand, opens, typed, received,
                   printed, queued, got>>

ReadInput ==
    /\ "rx" \in call
    /\ Len(received) + Len(used["rx"]) <= MaxReads
    /\ call' = call \ {"rx"}
    /\ LET u == used["rx"] IN
        /\ received' = received \o [k \in DOMAIN u |-> u[k].char]
        /\ hands' = hands \cup {u[k].buf : k \in DOMAIN u}
    /\ used' = [used EXCEPT !["rx"] = <<>>]
    /\ UNCHANGED <<backVars, threadVars, workerVars, avail, kick, lag, unkicked,
                   gsend, work, inhand, opens, typed, submitted, printed, queued,
                   got>>

-----------------------------------------------------------------------------
Console == PollReady \/ ReadChar \/ PassChar \/ ConsolePanics

Worker ==
    \/ \E q \in Kicked : WakeKick(q)
    \/ \E e \in Events : WakeBackend(e)
    \/ Collect
    \/ ProcessTx \/ \E panics \in BOOLEAN : ProcessTxFails(panics)
    \/ ProcessRx
    \/ HandleControlMsg \/ QueueReply \/ ReturnControlMsg
    \/ ProcessCtrlRx \/ ProcessCtrlRxDry \/ ProcessCtrlRxDone
    \/ Signal \/ Enable

GuestControl ==
    \/ \E q \in Kicked : Kick(q)
    \/ \E b \in RxBufs : PostRxBuf(b)
    \/ SendPortReady \/ ControlReturned
    \/ CtrlIntr \/ CtrlTake \/ CtrlIdle \/ Repost

Next ==
    \/ Console
    \/ Worker
    \/ GuestControl
    \/ SendDeviceReady \/ SendPortOpen
    \/ \E b \in CtrlBufs : PostCtrlBuf(b)
    \/ \E m \in Texts : WriteText(m)
    \/ ReadInput

Spec == Init /\ [][Next]_vars

\* The worker goes on while an event is pending, the guest finishes its kicks
\* and its control work.  Nobody has to boot, write, read or type.
Fairness == WF_vars(Worker) /\ WF_vars(GuestControl)

FairSpec == Spec /\ Fairness

-----------------------------------------------------------------------------
(* Properties. *)

\* Every variable has its type.
TypeOK ==
    /\ {ready, ready_to_write, rx_event, rx_ctrl_event, poisoned} \subseteq BOOLEAN
    /\ output_buffer \in Keys \cup {NoChar} /\ character \in Keys \cup {NoChar}
    /\ rx_fifo \in Seq(ToGuest)
    /\ cpc \in {"poll", "read", "store", "event", "ended"}
    /\ worker \in {"runs", "ended", "panicked"}
    /\ wpc \in {"wait", "collect", "text", "input", "messages", "reply",
                "control", "signal", "enable"}
    /\ ev \in Events \cup {None}
    /\ requests \in CASE ev = "tx" -> Seq(Texts)
                     [] ev = "BACKEND_EFD" -> Seq(RxBufs)
                     [] OTHER -> Seq(ToDevice)
    /\ chains \in Seq(CtrlBufs) /\ replies \in Seq(ToGuest)
    /\ avail["rx"] \in Seq(RxBufs) /\ avail["tx"] \in Seq(Texts)
    /\ avail["ctrl_rx"] \in Seq(CtrlBufs) /\ avail["ctrl_tx"] \in Seq(ToDevice)
    /\ used["rx"] \in Seq([buf : RxBufs, char : Keys]) /\ used["tx"] \in Seq(Texts)
    /\ used["ctrl_rx"] \in Seq([buf : CtrlBufs, msg : ToGuest])
    /\ used["ctrl_tx"] \in Seq(ToDevice)
    /\ kick \subseteq Kicked /\ call \subseteq Queues /\ unkicked \subseteq Kicked
    /\ lag \in [Kicked -> 0 .. 2]
    /\ hands \subseteq CtrlBufs \cup RxBufs
    /\ gsend \in ToDevice \cup {None}
    /\ work \in {"boot", "idle", "loop", "send", "sending", "repost"}
    /\ inhand \in CtrlBufs \cup {None} /\ opens \in 0 .. MaxOpens

Text == INSTANCE Channel WITH Item <- Texts, input <- submitted, output <- printed
Control == INSTANCE Channel WITH Item <- ToGuest, input <- queued, output <- got

\* The terminal shows the buffers of the guest in the order they were written,
\* each once, however many a turn of the EVENT_IDX loop collects.
TextInOrder == Text!Spec

\* The guest handles the answers of handle_control_msg in the order they were
\* queued, each once, although nested calls of process_ctrl_rx_queue, kicks
\* and rx_ctrl_event all drain the same fifo.
ControlInOrder == Control!Spec

\* What is handed to the guest was typed, and is never older than what it was
\* handed before, although output_buffer and rx_event are written under two
\* locks; a character may come twice, or never.
InputNeverOlder ==
    LET handed == received \o [k \in DOMAIN used["rx"] |-> used["rx"][k].char]
    IN  \A i, j \in DOMAIN handed : i <= j =>
            handed[i] <= handed[j] /\ handed[j] \in Range(typed)

\* A guest that announces itself gets its port opened, unless the worker is
\* gone: the signal that process_ctrl_rx_queue leaves out is made up for by
\* rx_ctrl_event, and one buffer stays in circulation for the handshake.
HandshakeCompletes ==
    gsend = "DEVICE_READY" ~> ("PORT_OPEN" \in Range(got) \/ worker # "runs")

\* What the guest writes is printed, unless the worker is gone.
TextPrinted ==
    \A m \in Texts :
        m \in Range(submitted) ~> (m \in Range(printed) \/ worker # "runs")
=============================================================================

---------------------------- MODULE VhostDaemon ----------------------------
(***************************************************************************)
(* The processes vhost-device-can and vhost-device-console around their    *)
(* devices: start_backend spawns a thread for each of socket_count guests, *)
(* and each thread serves one guest after the other.  The two backend.rs   *)
(* differ only in the device they set up.                                  *)
(*                                                                         *)
(* External, as the code uses them: Listener::new(path, true) removes      *)
(* whatever the path names and binds it; start accepts one connection,     *)
(* after which the listener is dropped and removes the path again; wait    *)
(* returns when the connection is gone or a request of the guest fails;    *)
(* dropping the VhostUserDaemon waits for its worker.  Definitions named   *)
(* X_Y are X with a slip of the kind Y that a property has to notice; no   *)
(* specification uses them.                                                *)
(***************************************************************************)
EXTENDS Naturals

CONSTANTS
    SocketCount,    \* --socket-count
    Guests,         \* frontends that connect to the one socket path
    SetupFails,     \* can_out, or a descriptor, may be missing
    RequestFails,   \* a request of a connected guest may be refused
    WorkerBreaks    \* handle_event may return an error or panic

\* CanConfiguration::try_from and ConsoleConfiguration::try_from refuse 0.
ASSUME VhostDaemonAssumption ==
    /\ SocketCount \in Nat \ {0}
    /\ {SetupFails, RequestFails, WorkerBreaks} \subseteq BOOLEAN

Threads == 1 .. SocketCount
Nobody == 0

VARIABLES
    tpc,        \* control point of each thread of start_backend
    worker,     \* its vring worker: "none", "runs", "ended" or "panicked"
    exit_event, \* the eventfd that ends the worker
    path,       \* the thread whose listener the socket path names
    exited,     \* the process has ended
    guest,      \* each guest: "away", "wants", "queued" or "served"
    conn        \* the thread whose listener it reached

threadVars == <<tpc, worker, exit_event>>
guestVars == <<guest, conn>>
vars == <<threadVars, path, exited, guestVars>>

\* start_backend has spawned its threads and joins the first of them.
Init ==
    /\ tpc = [t \in Threads |-> "new"]
    /\ worker = [t \in Threads |-> "none"]
    /\ exit_event = [t \in Threads |-> FALSE]
    /\ path = Nobody /\ exited = FALSE
    /\ guest = [g \in Guests |-> "away"]
    /\ conn = [g \in Guests |-> Nobody]

-----------------------------------------------------------------------------
(* The loop of a thread. *)

At(t, l) == ~exited /\ tpc[t] = l
Goto(t, l) == tpc' = [tpc EXCEPT ![t] = l]

NewExitEvent_Reused(t) == UNCHANGED exit_event
NewExitEvent(t) == exit_event' = [exit_event EXCEPT ![t] = FALSE]

\* Controller, reader thread, backend with a new exit event, and daemon with
\* its worker.  The reader of an earlier session is not told to end; it goes
\* on with the controller of that session, and is left out.
Setup(t) ==
    /\ At(t, "new")
    /\ worker' = [worker EXCEPT ![t] = "runs"]
    /\ NewExitEvent(t)
    /\ Goto(t, "unlink")
    /\ UNCHANGED <<path, exited, guestVars>>

\* open_can_sockets panics without can_out; an eventfd or the daemon that
\* cannot be created is an error that the thread returns.
SetupFailed(t) ==
    /\ At(t, "new") /\ SetupFails
    /\ Goto(t, "ended")
    /\ UNCHANGED <<worker, exit_event, path, exited, guestVars>>

\* set_vring_worker cannot register an eventfd: unwrap panics with the worker
\* already running.
SetupPanics(t) ==
    /\ At(t, "new") /\ SetupFails
    /\ worker' = [worker EXCEPT ![t] = "runs"]
    /\ NewExitEvent(t)
    /\ Goto(t, "unwind")
    /\ UNCHANGED <<path, exited, guestVars>>

Unlink(t) ==
    /\ At(t, "unlink")
    /\ path' = Nobody
    /\ Goto(t, "bind")
    /\ UNCHANGED <<worker, exit_event, exited, guestVars>>

Bind(t) ==
    /\ At(t, "bind") /\ path = Nobody
    /\ path' = t
    /\ Goto(t, "accept")
    /\ UNCHANGED <<worker, exit_event, exited, guestVars>>

\* Another thread has bound the path since: unwrap panics, and unwinding drops
\* the daemon, whose worker nobody has told to exit.
BindFails(t) ==
    /\ At(t, "bind") /\ path # Nobody
    /\ Goto(t, "unwind")
    /\ UNCHANGED <<worker, exit_event, path, exited, guestVars>>

Accept(t, g) ==
    /\ At(t, "accept") /\ guest[g] = "queued" /\ conn[g] = t
    /\ guest' = [guest EXCEPT ![g] = "served"]
    /\ Goto(t, "drop")
    /\ UNCHANGED <<worker, exit_event, path, exited, conn>>

\* The guests that lose their connection when t's listener is closed.
Reset_Kept(t) == {}
Reset(t) == {g \in Guests : guest[g] = "queued" /\ conn[g] = t}

\* These guests are without a connection and try again.
Disconnect(G) ==
    /\ guest' = [g \in Guests |-> IF g \in G THEN "wants" ELSE guest[g]]
    /\ conn' = [g \in Guests |-> IF g \in G THEN Nobody ELSE conn[g]]

\* The listener is dropped: it removes the path, whoever has bound it since.
DropListener(t) ==
    /\ At(t, "drop")
    /\ path' = Nobody
    /\ Disconnect(Reset(t))
    /\ Goto(t, "wait")
    /\ UNCHANGED <<worker, exit_event, exited>>

\* start has no descriptor for the connection: unwrap panics, and the listener
\* that start has taken over is dropped too.
StartFails(t) ==
    /\ At(t, "accept") /\ SetupFails
    /\ path' = Nobody
    /\ Disconnect(Reset(t))
    /\ Goto(t, "unwind")
    /\ UNCHANGED <<worker, exit_event, exited>>

Served(t) == {g \in Guests : guest[g] = "served" /\ conn[g] = t}

\* Ok, or the Disconnected or PartialMessage of a guest that is gone.
Closed_Unnoticed(t) == FALSE
Closed(t) == Served(t) = {}

WaitReturns(t) ==
    /\ At(t, "wait") /\ Closed(t)
    /\ Goto(t, "exit")
    /\ UNCHANGED <<worker, exit_event, path, exited, guestVars>>

\* "Error running daemon": a request of the guest is refused, or runs into the
\* lock that the worker has poisoned; the guest loses its connection.
WaitFails(t) ==
    /\ At(t, "wait") /\ Served(t) # {}
    /\ RequestFails \/ worker[t] = "panicked"
    /\ Disconnect(Served(t))
    /\ Goto(t, "exit")
    /\ UNCHANGED <<worker, exit_event, path, exited>>

WriteExit_Forgotten(t) == UNCHANGED exit_event
WriteExit(t) == exit_event' = [exit_event EXCEPT ![t] = TRUE]

\* "No matter the result, we need to shut down the worker thread."
ShutDown(t) ==
    /\ At(t, "exit") /\ worker[t] # "panicked"
    /\ WriteExit(t)
    /\ Goto(t, "join")
    /\ UNCHANGED <<worker, path, exited, guestVars>>

\* The lock of the backend is poisoned.
ShutDownPanics(t) ==
    /\ At(t, "exit") /\ worker[t] = "panicked"
    /\ Goto(t, "unwind")
    /\ UNCHANGED <<worker, exit_event, path, exited, guestVars>>

\* The daemon is dropped at the end of the loop, or while unwinding.
DropDaemon(t) ==
    /\ At(t, "join") \/ At(t, "unwind")
    /\ worker[t] # "runs"
    /\ Goto(t, IF tpc[t] = "join" THEN "new" ELSE "ended")
    /\ worker' = [worker EXCEPT ![t] = "none"]
    /\ UNCHANGED <<exit_event, path, exited, guestVars>>

-----------------------------------------------------------------------------
(* The workers and the main thread. *)

WorkerExits(t) ==
    /\ ~exited /\ worker[t] = "runs" /\ exit_event[t]
    /\ worker' = [worker EXCEPT ![t] = "ended"]
    /\ UNCHANGED <<tpc, exit_event, path, exited, guestVars>>

\* An error ends the worker; a panic also poisons the lock of the backend.
\* Frames and characters raise events before a guest is there.
WorkerFails(t) ==
    /\ ~exited /\ worker[t] = "runs" /\ WorkerBreaks
    /\ \E w \in {"ended", "panicked"} : worker' = [worker EXCEPT ![t] = w]
    /\ UNCHANGED <<tpc, exit_event, path, exited, guestVars>>

\* The handle that main joins: the first, as no thread ever returns Ok.
Joined(t) == t = 1

\* handle.join()?? makes start_backend return an error: exit(1).
MainExits ==
    /\ \E t \in Threads : Joined(t) /\ At(t, "ended")
    /\ exited' = TRUE
    /\ Disconnect({g \in Guests : conn[g] # Nobody})
    /\ UNCHANGED <<threadVars, path>>

-----------------------------------------------------------------------------
(* The frontends; they try again until they are connected. *)

Arrive(g) ==
    /\ guest[g] = "away"
    /\ guest' = [guest EXCEPT ![g] = "wants"]
    /\ UNCHANGED <<threadVars, path, exited, conn>>

Connect(g) ==
    /\ guest[g] = "wants" /\ ~exited /\ path # Nobody
    /\ guest' = [guest EXCEPT ![g] = "queued"]
    /\ conn' = [conn EXCEPT ![g] = path]
    /\ UNCHANGED <<threadVars, path, exited>>

\* A connection that is closed in the queue is accepted all the same.
Leave(g) ==
    /\ guest[g] = "served"
    /\ guest' = [guest EXCEPT ![g] = "away"]
    /\ conn' = [conn EXCEPT ![g] = Nobody]
    /\ UNCHANGED <<threadVars, path, exited>>

-----------------------------------------------------------------------------
Thread(t) ==
    \/ Setup(t) \/ Unlink(t) \/ Bind(t) \/ BindFails(t)
    \/ \E g \in Guests : Accept(t, g)
    \/ DropListener(t) \/ WaitReturns(t)
    \/ ShutDown(t) \/ ShutDownPanics(t) \/ DropDaemon(t)

\* What may go wrong in a thread, and never has to.
Mishap(t) == SetupFailed(t) \/ SetupPanics(t) \/ StartFails(t) \/ WaitFails(t)

Next ==
    \/ \E t \in Threads :
        Thread(t) \/ Mishap(t) \/ WorkerExits(t) \/ WorkerFails(t)
    \/ MainExits
    \/ \E g \in Guests : Arrive(g) \/ Connect(g) \/ Leave(g)

Spec == Init /\ [][Next]_vars

\* Threads and workers run, and who wants a connection tries again.  No guest
\* has to come or to leave, and nothing has to go wrong.
Fairness ==
    /\ \A t \in Threads : WF_vars(Thread(t)) /\ WF_vars(WorkerExits(t))
    /\ WF_vars(MainExits)
    /\ \A g \in Guests : WF_vars(Connect(g))

FairSpec == Spec /\ Fairness

-----------------------------------------------------------------------------
(* Properties. *)

\* Every variable has its type.  In particular a guest is never served by a
\* worker that the end of an earlier session told to exit, and no two guests
\* share a backend although all connect to one path.
TypeOK ==
    /\ tpc \in [Threads -> {"new", "unlink", "bind", "accept", "drop", "wait",
                            "exit", "join", "unwind", "ended"}]
    /\ worker \in [Threads -> {"none", "runs", "ended", "panicked"}]
    /\ exit_event \in [Threads -> BOOLEAN]
    /\ \A t \in Threads : tpc[t] \in {"accept", "drop", "wait"} => ~exit_event[t]
    /\ path \in Threads \cup {Nobody} /\ exited \in BOOLEAN
    /\ guest \in [Guests -> {"away", "wants", "queued", "served"}]
    /\ conn \in [Guests -> Threads \cup {Nobody}]
    /\ \A g, h \in Guests :
        guest[g] = "served" /\ guest[h] = "served" /\ conn[g] = conn[h] => g = h

Failed(t) == tpc[t] \in {"unwind", "ended"}

\* However the threads remove and bind the one path under each other, a guest
\* waits only where it can still be accepted or is told that it was not: the
\* path never names a listener that is gone, and nobody is left in its queue.
QueuedAtListener ==
    LET Listening(t) == tpc[t] \in {"accept", "drop"}
    IN  /\ path # Nobody => Listening(path)
        /\ \A g \in Guests : guest[g] = "queued" => Listening(conn[g])

\* "The panic on a thread won't cause trouble to other threads/guests or the
\* main() function and should be safe for the daemon" (the comment in
\* start_backend): with a thread failed, a guest that another thread serves,
\* whose own worker has not panicked and whose requests are in order, keeps its
\* session.
PanicContained ==
    [][\A g \in Guests :
        /\ guest[g] = "served" /\ worker[conn[g]] # "panicked"
        /\ \E t \in Threads : Failed(t)
        /\ ~RequestFails
        => guest'[g] # "wants"]_vars

\* "These are run in an infinite loop to not require the daemon to be restarted
\* once a guest exits": a thread whose guest has left stops its worker and
\* listens again, unless it fails to or the process ends.
ListensAgain ==
    \A t \in Threads :
        tpc[t] = "exit" ~> (tpc[t] = "accept" \/ Failed(t) \/ exited)

\* Although the threads take the path from one another and one of them may be
\* left with a listener nobody can reach: while no thread has failed, not all
\* who want to connect wait for ever with nobody served.
SomebodyServed ==
    (\E g \in Guests : guest[g] = "wants") ~>
        ((\E g \in Guests : guest[g] = "served")
         \/ (\A g \in Guests : guest[g] = "away")
         \/ (\E t \in Threads : Failed(t)))
=============================================================================

------------------------- MODULE VhostDaemonProofs -------------------------
(***************************************************************************)
(* Proofs about VhostDaemon that hold for every number of threads and      *)
(* guests, whether or not set-ups and requests fail and workers break.     *)
(***************************************************************************)
EXTENDS VhostDaemon, TLAPS

\* Abbreviations that carry no argument of their own.
USE DEF At, Goto, threadVars, guestVars, NewExitEvent, WriteExit, Joined,
        Disconnect

-----------------------------------------------------------------------------
(* The inductive invariant. *)

Labels == {"new", "unlink", "bind", "accept", "drop", "wait", "exit", "join",
           "unwind", "ended"}

TypesOK ==
    /\ tpc \in [Threads -> Labels]
    /\ worker \in [Threads -> {"none", "runs", "ended", "panicked"}]
    /\ exit_event \in [Threads -> BOOLEAN]
    /\ path \in Threads \cup {Nobody}
    /\ guest \in [Guests -> {"away", "wants", "queued", "served"}]
    /\ conn \in [Guests -> Threads \cup {Nobody}]

\* From the set-up of a session until its end nobody tells the worker to exit.
ExitFresh ==
    \A t \in Threads :
        tpc[t] \in {"unlink", "bind", "accept", "drop", "wait", "exit"}
            => exit_event[t] = FALSE

\* A guest is served by a thread that has accepted it and not yet seen it go.
ServedByThread ==
    \A g \in Guests :
        guest[g] = "served" =>
            conn[g] \in Threads /\ tpc[conn[g]] \in {"drop", "wait"}

\* No two guests share a thread.
OneGuest ==
    \A g, h \in Guests :
        guest[g] = "served" /\ guest[h] = "served" /\ conn[g] = conn[h] => g = h

SessionInv == TypesOK /\ ExitFresh /\ ServedByThread /\ OneGuest

Listening(t) == tpc[t] \in {"accept", "drop"}

\* The path names a listener that is open, and guests queue only at such.
PathOpen == path # Nobody => path \in Threads /\ Listening(path)
QueueOpen ==
    \A g \in Guests :
        guest[g] = "queued" => conn[g] \in Threads /\ Listening(conn[g])

ListenInv == PathOpen /\ QueueOpen

(* The value for no thread is not one of the threads. *)
LEMMA NobodyIsNoThread == Nobody \notin Threads
  BY VhostDaemonAssumption DEF Nobody, Threads

-----------------------------------------------------------------------------
(* Every step keeps it. *)

\* Steps of a thread that touch no guest.
LEMMA ThreadStep ==
    ASSUME SessionInv, NEW t \in Threads,
           \/ Setup(t) \/ SetupFailed(t) \/ SetupPanics(t)
           \/ Unlink(t) \/ Bind(t) \/ BindFails(t)
           \/ ShutDown(t) \/ ShutDownPanics(t) \/ DropDaemon(t)
    PROVE  SessionInv'
  <1> USE DEF SessionInv
  <1>1. TypesOK'
    BY DEF TypesOK, Labels, Setup, SetupFailed, SetupPanics, Unlink, Bind, BindFails,
       ShutDown, ShutDownPanics, DropDaemon
  <1>2. ExitFresh'
    BY DEF TypesOK, ExitFresh, Setup, SetupFailed, SetupPanics, Unlink, Bind, BindFails,
       ShutDown, ShutDownPanics, DropDaemon
  <1>3. /\ UNCHANGED <<guest, conn>>
        /\ tpc[t] \notin {"drop", "wait"}
        /\ \A u \in Threads \ {t} : tpc'[u] = tpc[u]
    BY DEF TypesOK, Setup, SetupFailed, SetupPanics, Unlink, Bind, BindFails, ShutDown,
       ShutDownPanics, DropDaemon
  <1>4. ServedByThread' /\ OneGuest'
    BY <1>3 DEF ServedByThread, OneGuest
  <1> QED
    BY <1>1, <1>2, <1>4

\* Steps of a thread that accept a guest or let it go.
LEMMA AcceptStep ==
    ASSUME SessionInv, NEW t \in Threads, NEW g \in Guests, Accept(t, g)
    PROVE  SessionInv'
  <1> USE DEF SessionInv
  <1>1. /\ tpc[t] = "accept" /\ tpc' = [tpc EXCEPT ![t] = "drop"]
        /\ conn[g] = t /\ guest' = [guest EXCEPT ![g] = "served"]
        /\ UNCHANGED <<worker, exit_event, path, conn>>
    BY DEF Accept
  <1>2. TypesOK' /\ ExitFresh'
    BY <1>1 DEF TypesOK, Labels, ExitFresh
  <1>3. \A h \in Guests : guest[h] = "served" => conn[h] # t
    BY <1>1 DEF ServedByThread
  <1>4. ServedByThread' /\ OneGuest'
    BY <1>1, <1>3 DEF TypesOK, ServedByThread, OneGuest
  <1> QED
    BY <1>2, <1>4

(* Dropping the listener and the end of a session keep the invariant. *)
LEMMA ReleaseStep ==
    ASSUME SessionInv, NEW t \in Threads,
           DropListener(t) \/ StartFails(t) \/ WaitReturns(t) \/ WaitFails(t)
    PROVE  SessionInv'
  <1> USE DEF SessionInv
  <1>1. \/ tpc[t] = "drop" /\ tpc' = [tpc EXCEPT ![t] = "wait"]
        \/ tpc[t] = "accept" /\ tpc' = [tpc EXCEPT ![t] = "unwind"]
        \/ /\ tpc[t] = "wait" /\ tpc' = [tpc EXCEPT ![t] = "exit"]
           /\ \A g \in Guests : guest'[g] = "served" => conn[g] # t
    BY DEF DropListener, StartFails, WaitReturns, WaitFails, Closed, Served
  <1>2. \A g \in Guests : guest'[g] = "served" =>
            guest[g] = "served" /\ conn'[g] = conn[g]
    BY DEF DropListener, StartFails, WaitReturns, WaitFails, Reset, Served
  <1>3. TypesOK'
    <2>1. path' \in Threads \cup {Nobody} /\ UNCHANGED <<worker, exit_event>>
      BY DEF DropListener, StartFails, WaitReturns, WaitFails, TypesOK
    <2>2. /\ guest' \in [Guests -> {"away", "wants", "queued", "served"}]
          /\ conn' \in [Guests -> Threads \cup {Nobody}]
      BY DEF DropListener, StartFails, WaitReturns, WaitFails, TypesOK
    <2> QED
      BY <1>1, <2>1, <2>2 DEF TypesOK, Labels
  <1>4. ExitFresh'
    <2>1. UNCHANGED exit_event
      BY DEF DropListener, StartFails, WaitReturns, WaitFails
    <2> QED
      BY <1>1, <2>1 DEF TypesOK, ExitFresh
  <1>5. ServedByThread' /\ OneGuest'
    BY <1>1, <1>2 DEF TypesOK, ServedByThread, OneGuest
  <1> QED
    BY <1>3, <1>4, <1>5

\* The workers and the main thread.
LEMMA ProcessStep ==
    ASSUME SessionInv,
           (\E t \in Threads : WorkerExits(t) \/ WorkerFails(t)) \/ MainExits
    PROVE  SessionInv'
  <1> USE DEF SessionInv
  <1>1. CASE \E t \in Threads : WorkerExits(t) \/ WorkerFails(t)
    <2>1. /\ UNCHANGED <<tpc, exit_event, path, guest, conn>>
          /\ worker' \in [Threads -> {"none", "runs", "ended", "panicked"}]
      BY <1>1 DEF WorkerExits, WorkerFails, TypesOK
    <2> QED
      BY <2>1 DEF TypesOK, ExitFresh, ServedByThread, OneGuest
  <1>2. CASE MainExits
    <2>1. UNCHANGED <<tpc, worker, exit_event, path>>
      BY <1>2 DEF MainExits
    <2>2. /\ guest' \in [Guests -> {"away", "wants", "queued", "served"}]
          /\ conn' \in [Guests -> Threads \cup {Nobody}]
      BY <1>2 DEF MainExits, TypesOK
    <2>3. \A g \in Guests : guest'[g] # "served"
      BY <1>2, NobodyIsNoThread DEF MainExits, ServedByThread
    <2> QED
      BY <2>1, <2>2, <2>3 DEF TypesOK, ExitFresh, ServedByThread, OneGuest
  <1> QED
    BY <1>1, <1>2

\* The guests.
LEMMA GuestStep ==
    ASSUME SessionInv, NEW g \in Guests, Arrive(g) \/ Connect(g) \/ Leave(g)
    PROVE  SessionInv'
  <1> USE DEF SessionInv
  <1>1. /\ UNCHANGED <<tpc, worker, exit_event, path>>
        /\ guest' \in [Guests -> {"away", "wants", "queued", "served"}]
        /\ conn' \in [Guests -> Threads \cup {Nobody}]
    BY DEF Arrive, Connect, Leave, TypesOK
  <1>2. \A h \in Guests : guest'[h] = "served" =>
            guest[h] = "served" /\ conn'[h] = conn[h]
    BY DEF Arrive, Connect, Leave, TypesOK
  <1> QED
    BY <1>1, <1>2 DEF TypesOK, ExitFresh, ServedByThread, OneGuest

(* No thread has a session when start_backend spawns them. *)
LEMMA SessionInit == Init => SessionInv
  BY DEF Init, SessionInv, TypesOK, Labels, ExitFresh, ServedByThread, OneGuest

(* Every step of threads, workers and guests keeps the invariant. *)
LEMMA SessionStep == SessionInv /\ [Next]_vars => SessionInv'
  <1> SUFFICES ASSUME SessionInv, [Next]_vars PROVE SessionInv'
    OBVIOUS
  <1>1. CASE UNCHANGED vars
    BY <1>1 DEF vars, SessionInv, TypesOK, ExitFresh, ServedByThread, OneGuest
  <1>2. ASSUME NEW t \in Threads, Thread(t) \/ Mishap(t) PROVE SessionInv'
    BY <1>2, ThreadStep, AcceptStep, ReleaseStep DEF Thread, Mishap
  <1>3. ASSUME NEW g \in Guests, Arrive(g) \/ Connect(g) \/ Leave(g)
        PROVE  SessionInv'
    BY <1>3, GuestStep
  <1> QED
    BY <1>1, <1>2, <1>3, ProcessStep DEF Next

\* The flag that MainExits sets.
ExitedOK == exited \in BOOLEAN

(* The process runs or has exited, whatever the step. *)
LEMMA ExitedStep == ExitedOK /\ [Next]_vars => ExitedOK'
  BY Zenon DEF ExitedOK, Next, vars, Thread, Mishap, Setup, SetupFailed,
     SetupPanics, Unlink, Bind, BindFails, Accept, DropListener, StartFails,
     WaitReturns, WaitFails, ShutDown, ShutDownPanics, DropDaemon, WorkerExits, WorkerFails, MainExits, Arrive, Connect, Leave

-----------------------------------------------------------------------------
(* Listeners. *)

\* A step of a thread that is not at its listener.
LEMMA ElsewhereStep ==
    ASSUME SessionInv, ListenInv, NEW t \in Threads,
           \/ Setup(t) \/ SetupFailed(t) \/ SetupPanics(t)
           \/ Unlink(t) \/ Bind(t) \/ BindFails(t)
           \/ WaitReturns(t) \/ WaitFails(t)
           \/ ShutDown(t) \/ ShutDownPanics(t) \/ DropDaemon(t)
    PROVE  ListenInv'
  <1> USE DEF SessionInv, ListenInv
  <1>1. /\ ~Listening(t)
        /\ \A u \in Threads \ {t} : tpc'[u] = tpc[u]
        /\ path' \in {path, Nobody} \/ (path' = t /\ tpc'[t] = "accept")
    BY DEF TypesOK, Listening, Setup, SetupFailed, SetupPanics, Unlink, Bind,
       BindFails, WaitReturns, WaitFails, ShutDown, ShutDownPanics, DropDaemon
  <1>2. \A g \in Guests :
            guest'[g] = "queued" => guest[g] = "queued" /\ conn'[g] = conn[g]
    BY DEF Setup, SetupFailed, SetupPanics, Unlink, Bind, BindFails,
       WaitReturns, WaitFails, Served, ShutDown, ShutDownPanics, DropDaemon
  <1>3. PathOpen'
    BY <1>1 DEF PathOpen, Listening
  <1>4. QueueOpen'
    BY <1>1, <1>2 DEF QueueOpen, Listening
  <1> QED
    BY <1>3, <1>4

\* A thread accepts a guest, or drops its listener with the path and the queue.
LEMMA ListenerStep ==
    ASSUME SessionInv, ListenInv, NEW t \in Threads,
           (\E g \in Guests : Accept(t, g)) \/ DropListener(t) \/ StartFails(t)
    PROVE  ListenInv'
  <1> USE DEF SessionInv, ListenInv
  <1>1. CASE \E g \in Guests : Accept(t, g)
    <2>1. \A u \in Threads : Listening(u) => Listening(u)'
      BY <1>1 DEF Accept, TypesOK, Listening
    <2>2. UNCHANGED <<path, conn>>
      BY <1>1 DEF Accept
    <2>3. \A g \in Guests : guest'[g] = "queued" => guest[g] = "queued"
      BY <1>1 DEF Accept, TypesOK
    <2> QED
      BY <2>1, <2>2, <2>3 DEF PathOpen, QueueOpen
  <1>2. CASE DropListener(t) \/ StartFails(t)
    <2>1. path' = Nobody /\ \A u \in Threads \ {t} : tpc'[u] = tpc[u]
      BY <1>2 DEF DropListener, StartFails, TypesOK
    <2>2. \A g \in Guests : guest'[g] = "queued" =>
              guest[g] = "queued" /\ conn'[g] = conn[g] /\ conn[g] # t
      BY <1>2 DEF DropListener, StartFails, Reset
    <2> QED
      BY <2>1, <2>2 DEF PathOpen, QueueOpen, Listening
  <1> QED
    BY <1>1, <1>2

\* Every step keeps path and queues at open listeners.
LEMMA ListenStep == SessionInv /\ ListenInv /\ [Next]_vars => ListenInv'
  <1> SUFFICES ASSUME SessionInv, ListenInv, [Next]_vars PROVE ListenInv'
    OBVIOUS
  <1>1. ASSUME NEW t \in Threads, Thread(t) \/ Mishap(t) PROVE ListenInv'
    BY <1>1, ElsewhereStep, ListenerStep DEF Thread, Mishap
  <1>2. CASE \/ \E t \in Threads : WorkerExits(t) \/ WorkerFails(t)
             \/ UNCHANGED vars
    BY <1>2 DEF WorkerExits, WorkerFails, vars, ListenInv, PathOpen, QueueOpen,
       Listening
  <1>3. CASE MainExits
    <2>1. UNCHANGED <<tpc, path>>
      BY <1>3 DEF MainExits
    <2>2. \A g \in Guests : guest'[g] # "queued"
      BY <1>3, NobodyIsNoThread DEF MainExits, ListenInv, QueueOpen
    <2> QED
      BY <2>1, <2>2 DEF ListenInv, PathOpen, QueueOpen, Listening
  <1>4. ASSUME NEW g \in Guests, Arrive(g) \/ Connect(g) \/ Leave(g)
        PROVE  ListenInv'
    <2>1. UNCHANGED <<tpc, path>>
      BY <1>4 DEF Arrive, Connect, Leave
    <2>2. \A h \in Guests : guest'[h] = "queued" =>
              \/ guest[h] = "queued" /\ conn'[h] = conn[h]
              \/ conn'[h] = path /\ path # Nobody
      BY <1>4 DEF Arrive, Connect, Leave, SessionInv, TypesOK
    <2> QED
      BY <2>1, <2>2 DEF ListenInv, PathOpen, QueueOpen, Listening
  <1> QED
    BY <1>1, <1>2, <1>3, <1>4 DEF Next

-----------------------------------------------------------------------------
(* Theorems. *)

\* Sessions do not run into one another (TypeOK): however the threads of
\* start_backend race for the one socket path, no two guests are served by one
\* backend, and none by a worker whose exit event an earlier session has set.
THEOREM SessionsExclusive == Spec => []TypeOK
  <1>1. Init => ExitedOK
    BY Zenon DEF Init, ExitedOK
  <1>2. SessionInv /\ ExitedOK => TypeOK
    BY DEF SessionInv, ExitedOK, TypesOK, Labels, ExitFresh, OneGuest, TypeOK
  <1> QED
    BY <1>1, <1>2, SessionInit, SessionStep, ExitedStep, PTL DEF Spec

\* Whatever order the threads remove and bind the path in, it names an open
\* listener or none, and who is queued is queued at an open one
\* (QueuedAtListener): a listener that is dropped, after its guest or because
\* start fails, takes the path with it and resets its queue.
THEOREM QueueServed == Spec => []QueuedAtListener
  <1>1. Init => ListenInv
    BY DEF Init, ListenInv, PathOpen, QueueOpen
  <1>2. SessionInv /\ ListenInv /\ [Next]_vars => ListenInv'
    BY ListenStep
  <1>3. ListenInv => QueuedAtListener
    BY DEF ListenInv, PathOpen, QueueOpen, Listening, QueuedAtListener
  <1> QED
    BY <1>1, <1>2, <1>3, SessionInit, SessionStep, PTL DEF Spec
=============================================================================

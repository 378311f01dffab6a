------------------------------- MODULE Server -------------------------------
(***************************************************************************)
(* Listeners, the pool of goroutines they accept in, and the shutdown of   *)
(* the server: server/volantmq.go, transport/tcp.go and base.go,           *)
(* types/pool.go, and clients.Manager.OnConnection as far as it keeps the  *)
(* listener waiting: the handshake and the lock of the client id.          *)
(*                                                                         *)
(* A listener has one task in the pool at a time, which accepts a          *)
(* connection and sets up its session; Serve waits for the answer before   *)
(* it schedules the next.  A session can use the topics manager until it   *)
(* ends.  What else becomes of it, and of a close that races a CONNECT of  *)
(* its id, is Sessions' business.                                          *)
(***************************************************************************)
EXTENDS Integers, Sequences, FiniteSets

CONSTANTS
  Listener,      \* one per port
  Client,
  ClientId,      \* what a CONNECT may give for its id
  MaxIncoming,   \* goroutines in the pool, at most
  PreSpawn,      \* and to begin with
  None           \* no client

ASSUME ServerAssumption ==
  /\ IsFiniteSet(Listener) /\ None \notin Client \cup ClientId
  /\ MaxIncoming \in Nat \ {0} /\ PreSpawn \in 0 .. MaxIncoming

VARIABLES
  listener,   \* "off", "open"; then "quit", "closed" and "nil" by Close
  serve,      \* where Serve is: "off", "schedule", "answer" or "returned"
  task,       \* the task of the listener, or what it has answered
  conn,       \* the client whose connection it has in hand
  dials,      \* clients waiting in the kernel for Accept
  where,      \* "away", "dials", "taken", "session"; "leaked": neither served nor closed;
              \* or how sessionsMgr.Stop ends its count: "kept", not at all, or "twice"
  id,         \* params.ID of a connection whose CONNECT has been read
  locked,     \* the ids whose container is locked
  work,       \* the channel of the pool, of capacity one
  workers,    \* goroutines of the pool
  updater,    \* systreeUpdater: "waits", "publishes" or "done"
  shutdown    \* the step of Shutdown that comes next

clientVars == <<conn, dials, where, id, locked>>
poolVars   == <<work, workers>>
stopVars   == <<updater, shutdown>>
vars == <<listener, serve, task, clientVars, poolVars, stopVars>>

\* The task has a goroutine of the pool.
Busy  == {l \in Listener : task[l] \in {"taken", "accepting", "accepted", "handling", "waits", "takes",
                                  "stuck", "crashed"}}
Quit  == shutdown # "running"
Steps == <<"running", "close", "join", "sessions", "updater", "topics", "pool", "done">>

Init ==
  /\ listener = [l \in Listener |-> "off"]
  /\ serve = [l \in Listener |-> "off"]
  /\ task = [l \in Listener |-> "none"]
  /\ conn = [l \in Listener |-> None]
  /\ dials = [l \in Listener |-> <<>>]
  /\ where = [c \in Client |-> "away"]
  /\ id = [c \in Client |-> None] /\ locked = {}
  /\ work = <<>> /\ workers = PreSpawn
  /\ updater = "waits" /\ shutdown = "running"

-----------------------------------------------------------------------------
(* Clients and sockets *)

Dial(c, l) ==
  /\ where[c] = "away"
  /\ listener[l] \in {"open", "quit"}
  /\ dials' = [dials EXCEPT ![l] = Append(@, c)]
  /\ where' = [where EXCEPT ![c] = "dials"]
  /\ UNCHANGED <<listener, serve, task, conn, id, locked, poolVars, stopVars>>

\* The connection of a session ends, when its client likes or when it falls silent
\* after having been asked to end. sessionsMgr.Stop gives the count of a session
\* back that has ended; of one that ends because of it and is kept, nobody does;
\* and of one that ends as it is looked up, Stop does so again, and that panics
\* (Sessions!VisitRunning and VisitIdle).
SessionEnds(c) ==
  /\ where[c] = "session"
  /\ \E place \in {"away", "kept", "twice"} :
       /\ place = "away" \/ shutdown = "sessions"
       /\ where' = [where EXCEPT ![c] = place]
  /\ id' = [id EXCEPT ![c] = None]
  /\ UNCHANGED <<listener, serve, task, conn, dials, locked, poolVars, stopVars>>

-----------------------------------------------------------------------------
(* Serve *)

\* Also after the shutdown, which the lock keeps out while it is under way.
ListenAndServe(l) ==
  /\ listener[l] = "off"
  /\ shutdown \in {"running", "done"}
  /\ listener' = [listener EXCEPT ![l] = "open"]
  /\ serve' = [serve EXCEPT ![l] = "schedule"]
  /\ UNCHANGED <<task, clientVars, poolVars, stopVars>>

\* ScheduleTimeout puts the task into the channel or starts a goroutine for it,
\* whichever select chooses. A timeout changes nothing.
Schedule(l) ==
  /\ serve[l] = "schedule"
  /\ shutdown # "done"
  /\ serve' = [serve EXCEPT ![l] = "answer"]
  /\ \/ /\ work = <<>>
        /\ work' = <<l>>
        /\ task' = [task EXCEPT ![l] = "queued"]
        /\ UNCHANGED workers
     \/ /\ workers < MaxIncoming
        /\ workers' = workers + 1
        /\ task' = [task EXCEPT ![l] = "taken"]
        /\ UNCHANGED work
  /\ UNCHANGED <<listener, clientVars, stopVars>>

\* ErrClosed.
PoolIsClosed(l) ==
  /\ serve[l] = "schedule"
  /\ shutdown = "done"
  /\ serve' = [serve EXCEPT ![l] = "returned"]
  /\ UNCHANGED <<listener, task, clientVars, poolVars, stopVars>>

GivesUp(answer) == IF answer = "ok" THEN "schedule" ELSE "returned"
GoesOn(answer)  == IF answer = "failed" THEN "returned" ELSE "schedule"

\* The answer of the task arrives in accept. Serve does not look at quit.
Answered(l) ==
  /\ serve[l] = "answer"
  /\ task[l] \in {"ok", "temporary", "failed"}
  /\ serve' = [serve EXCEPT ![l] = GoesOn(task[l])]
  /\ task' = [task EXCEPT ![l] = "none"]
  /\ UNCHANGED <<listener, clientVars, poolVars, stopVars>>

-----------------------------------------------------------------------------
(* The task, in a goroutine of the pool *)

Take ==
  /\ work # <<>>
  /\ Cardinality(Busy) < workers
  /\ task' = [task EXCEPT ![Head(work)] = "taken"]
  /\ work' = <<>>
  /\ UNCHANGED <<listener, serve, clientVars, workers, stopVars>>

\* l.listener is read: Accept of nil panics and nobody recovers, the process ends.
\* (What the model does after that means nothing.) The read races with Close, and
\* may still see what was there.
ReadListener(l) ==
  /\ task[l] = "taken"
  /\ \/ task' = [task EXCEPT ![l] = "accepting"]
     \/ task' = [task EXCEPT ![l] = "crashed"] /\ listener[l] = "nil"
  /\ UNCHANGED <<listener, serve, clientVars, poolVars, stopVars>>

Accept(l) ==
  /\ task[l] = "accepting"
  /\ listener[l] \in {"open", "quit"} /\ dials[l] # <<>>
  /\ conn' = [conn EXCEPT ![l] = Head(dials[l])]
  /\ where' = [where EXCEPT ![Head(dials[l])] = "taken"]
  /\ dials' = [dials EXCEPT ![l] = Tail(@)]
  /\ task' = [task EXCEPT ![l] = "accepted"]
  /\ UNCHANGED <<listener, serve, id, locked, poolVars, stopVars>>

Interrupted(l) == listener[l] \in {"closed", "nil"}

\* An open socket fails with a temporary error, as when there are too many open
\* files; a closed one with another.
AcceptFails(l) ==
  /\ task[l] = "accepting"
  /\ \/ task' = [task EXCEPT ![l] = "temporary"] /\ ~Interrupted(l)
     \/ task' = [task EXCEPT ![l] = "failed"] /\ Interrupted(l)
  /\ UNCHANGED <<listener, serve, clientVars, poolVars, stopVars>>

Ends(l, answer, place) ==
  /\ task' = [task EXCEPT ![l] = answer]
  /\ conn' = [conn EXCEPT ![l] = None]
  /\ where' = [where EXCEPT ![conn[l]] = place]
  /\ id' = IF place = "session" THEN id ELSE [id EXCEPT ![conn[l]] = None]

\* A connection accepted after close(l.quit), or that newConn fails for, is not
\* closed.
CheckQuit(l) ==
  /\ task[l] = "accepted"
  /\ IF listener[l] \in {"quit", "closed", "nil"}
     THEN Ends(l, "failed", "leaked")
     ELSE \/ Ends(l, "ok", "leaked")
          \/ task' = [task EXCEPT ![l] = "handling"] /\ UNCHANGED <<conn, where, id>>
  /\ UNCHANGED <<listener, serve, dials, locked, poolVars, stopVars>>

\* No session: CONNECT is refused, or the deadline of ConnectTimeout or the end of
\* the connection comes first, and connectionRoutine sends the error to connect.
Refuse(l) ==
  /\ task[l] = "handling"
  /\ Ends(l, "ok", "away")
  /\ UNCHANGED <<listener, serve, dials, locked, poolVars, stopVars>>

\* A valid CONNECT.
Connect(l, i) ==
  /\ task[l] = "handling"
  /\ id' = [id EXCEPT ![conn[l]] = i]
  /\ task' = [task EXCEPT ![l] = "waits"]
  /\ UNCHANGED <<listener, serve, conn, dials, where, locked, poolVars, stopVars>>

\* The lock of the id (allocContainer, or acquire of the container that is there).
Acquire(l) ==
  /\ task[l] = "waits"
  /\ id[conn[l]] \notin locked
  /\ locked' = locked \cup {id[conn[l]]}
  /\ task' = [task EXCEPT ![l] = "takes"]
  /\ UNCHANGED <<listener, serve, conn, dials, where, id, poolVars, stopVars>>

\* c is asked to end by the takeover of its id (current.stop), or by Stop.
Asked(c) ==
  /\ where[c] = "session"
  /\ \/ \E l \in Listener : task[l] = "takes" /\ id[conn[l]] = id[c]
     \/ shutdown = "sessions"

\* The session that had the id has ended; the new one starts and unlocks the id,
\* unless CONNACK cannot be written: then nobody does.
TakeOver(l) ==
  /\ task[l] = "takes"
  /\ \A c \in Client : where[c] = "session" => id[c] # id[conn[l]]
  /\ \/ Ends(l, "ok", "session") /\ locked' = locked \ {id[conn[l]]}
     \/ Ends(l, "ok", "away") /\ UNCHANGED locked
  /\ UNCHANGED <<listener, serve, dials, poolVars, stopVars>>

\* Another packet first: connectionRoutine sends nothing to connect and ends, and
\* OnConnection waits.
Stray(l) ==
  /\ task[l] = "handling"
  /\ task' = [task EXCEPT ![l] = "stuck"]
  /\ UNCHANGED <<listener, serve, clientVars, poolVars, stopVars>>

-----------------------------------------------------------------------------
(* Shutdown and the updater of the system topics *)

GoTo(step) == shutdown = step /\ \E i \in DOMAIN Steps : Steps[i] = step /\ shutdown' = Steps[i + 1]

\* close(quit), and the lock.
Shutdown ==
  /\ GoTo("running")
  /\ UNCHANGED <<listener, serve, task, clientVars, poolVars, updater>>

\* One listener after the other, in the order of a map: close(l.quit), Close of
\* the socket, which ends those waiting in it and makes Accept return, and nil.
Close(l) ==
  /\ shutdown = "close"
  /\ \A k \in Listener \ {l} : listener[k] \notin {"quit", "closed"}
  /\ \/ /\ listener[l] = "open"
        /\ listener' = [listener EXCEPT ![l] = "quit"]
        /\ UNCHANGED <<dials, where>>
     \/ /\ listener[l] = "quit"
        /\ listener' = [listener EXCEPT ![l] = "closed"]
        /\ dials' = [dials EXCEPT ![l] = <<>>]
        /\ where' = [c \in Client |-> IF \E i \in DOMAIN dials[l] : dials[l][i] = c
                                      THEN "away" ELSE where[c]]
     \/ /\ listener[l] = "closed"
        /\ listener' = [listener EXCEPT ![l] = "nil"]
        /\ UNCHANGED <<dials, where>>
  /\ UNCHANGED <<serve, task, conn, id, locked, poolVars, stopVars>>

AllClosed == GoTo("close") /\ \A l \in Listener : listener[l] \in {"off", "nil"}

NoWait == GoTo("join")
Join   == GoTo("join") /\ \A l \in Listener : serve[l] \in {"off", "returned"}

\* sessionsMgr.Stop has asked all to end, and waits until their count is back.
Counted(c)   == where[c] \in {"session", "kept", "twice"}
StopSessions == GoTo("sessions") /\ \A c \in Client : ~Counted(c)
StopUpdater  == GoTo("updater") /\ updater = "done"

ShutdownStep ==
  /\ \/ AllClosed \/ Join \/ StopSessions \/ StopUpdater
     \/ GoTo("topics") \/ GoTo("pool")
  /\ UNCHANGED <<listener, serve, task, clientVars, poolVars, updater>>

\* The timer: the values are published once, there is no loop.
Tick ==
  /\ updater = "waits"
  /\ updater' = "publishes"
  /\ UNCHANGED <<listener, serve, task, clientVars, poolVars, shutdown>>

Deaf  == FALSE
Heeds == Quit

UpdaterEnds ==
  /\ updater = "publishes" \/ (updater = "waits" /\ Heeds)
  /\ updater' = "done"
  /\ UNCHANGED <<listener, serve, task, clientVars, poolVars, shutdown>>

-----------------------------------------------------------------------------

Environment ==
  \/ Tick \/ Shutdown
  \/ \E l \in Listener : ListenAndServe(l) \/ \E c \in Client : Dial(c, l)
  \/ \E c \in Client : SessionEnds(c)

Listening(l) ==
  \/ Schedule(l) \/ PoolIsClosed(l) \/ Answered(l) \/ ReadListener(l)
  \/ Accept(l) \/ AcceptFails(l) \/ CheckQuit(l)
  \/ Refuse(l) \/ (\E i \in ClientId : Connect(l, i)) \/ Stray(l) \/ Acquire(l) \/ TakeOver(l)

Code ==
  \/ Take \/ ShutdownStep \/ UpdaterEnds
  \/ \E l \in Listener : Listening(l) \/ Close(l)

Next == Environment \/ Code

Spec == Init /\ [][Next]_vars

\* Goroutines go on when they can; a client sends CONNECT or meets the deadline;
\* an error called temporary does not come for ever; the channel of the pool and
\* the lock of an id serve those that wait for them in turn. No session need end.
FairSpec ==
  /\ Spec
  /\ \A l \in Listener :
       /\ SF_vars(Schedule(l)) /\ SF_vars(Accept(l)) /\ SF_vars(Acquire(l))
       /\ WF_vars(\/ PoolIsClosed(l) \/ Answered(l) \/ ReadListener(l) \/ CheckQuit(l)
                  \/ Refuse(l) \/ (\E i \in ClientId : Connect(l, i)) \/ Stray(l) \/ TakeOver(l)
                  \/ (AcceptFails(l) /\ Interrupted(l)))
  /\ WF_vars(Take) /\ WF_vars(UpdaterEnds)
  /\ WF_vars(ShutdownStep \/ \E l \in Listener : Close(l))

-----------------------------------------------------------------------------

\* Shutdown closes what the others use after all of them: when the topics manager
\* is shut down, whose channels then are closed, no session, no handshake that
\* could become one and no updater is left; and when the pool is closed, nobody is
\* about to send to its channel.
ClosedInOrder ==
  /\ shutdown \in {"sessions", "updater", "topics", "pool", "done"} =>
       \A l \in Listener : task[l] = "none"
  /\ shutdown \in {"pool", "done"} =>
       updater = "done" /\ \A c \in Client : where[c] # "session"

\* What holds a listener up for good: a stray packet, or the lock of an id that
\* nobody will give back. What ends the process.
LeftLocked(i) == i \in locked /\ \A l \in Listener : task[l] = "takes" => id[conn[l]] # i
Stuck(l) == task[l] = "stuck" \/ (task[l] = "waits" /\ LeftLocked(id[conn[l]]))
Crashed  == (\E l \in Listener : task[l] = "crashed") \/ \E c \in Client : where[c] = "twice"

\* The close of a connection is done only when its client falls silent (Sessions).
AllFallSilent == \A c \in Client : []<>~Asked(c)

\* A listener at which clients wait goes on accepting, those first that came first,
\* whatever they do short of what holds it up for good, if those asked to end fall
\* silent and the pool begins with a goroutine for every listener.
Waiting(l) ==
  /\ listener[l] = "open" /\ dials[l] # <<>>
  /\ ~Stuck(l) /\ ~Crashed /\ shutdown # "done"

Accepting ==
  PreSpawn >= Cardinality(Listener) /\ AllFallSilent =>
    \A l \in Listener : []<>~Waiting(l) \/ []<><<Accept(l)>>_vars

\* Shutdown comes to its end, if those asked to end fall silent, unless a listener
\* is held up for good, sessionsMgr.Stop waits for the count of a session that is
\* kept, or a panic ends the process: that of Stop, or of a task that begins when
\* its listener is nil.
ShutdownEnds ==
  AllFallSilent =>
    (Quit ~> \/ shutdown = "done" \/ Crashed \/ (\E l \in Listener : Stuck(l))
             \/ \E c \in Client : where[c] = "kept")
=============================================================================

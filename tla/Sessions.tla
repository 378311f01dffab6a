------------------------------ MODULE Sessions ------------------------------
(***************************************************************************)
(* The clients manager (clients/sessions.go, container.go, session.go) for *)
(* the protocol versions common.VERSION enables (up to v3.1.1: no expiry,  *)
(* no will delay, a session is durable unless its CONNECT is clean) and    *)
(* with common.SessionDups, which nothing sets to FALSE: a connection      *)
(* takes its id over.                                                      *)
(*                                                                         *)
(* Every accepted connection runs OnConnection in a goroutine of its own   *)
(* (one listener serves one at a time, several listeners do not) and owns  *)
(* at most one session, one container and one subscriber: a connection     *)
(* names the session, the container and the subscriber it allocated.       *)
(*                                                                         *)
(* Actors: the accepting goroutine of each connection (pc), the closing of *)
(* each connection, by whichever goroutine got to it first (phase), the    *)
(* client, and the server's shutdown (mgr).                                *)
(***************************************************************************)
EXTENDS Integers, FiniteSets

CONSTANTS
  Conn,         \* the connections that may come in
  ClientId,     \* client identifiers
  Nil,          \* no container, session or subscriber
  Cleans,       \* the CleanStart flags clients use
  Stops         \* the server may be shut down

ASSUME SessionsAssumption ==
  /\ Nil \notin Conn \cup ClientId
  /\ Cleans \subseteq BOOLEAN
  /\ Stops \in BOOLEAN

\* Only what counts connections and ids needs this one.
ASSUME FiniteAssumption == IsFiniteSet(Conn) /\ IsFiniteSet(ClientId)

VARIABLES
  \* of the accepting goroutine
  pc,        \* its next step
  id,        \* params.ID
  clean,     \* params.CleanStart; the session is durable when it is not set
  box,       \* the container at hand: the one found, then newContainer
  current,   \* the session to replace
  idLock,    \* the container whose lock ses.idLock points to
  resumed,   \* params.ID had subscriptions when the session was set up
  present,   \* the session present flag of CONNACK
  \* of the connection and its session
  phase,     \* "new" until CONNACK is written, "open", then the close
  stopReq,   \* session.stopReq
  mySub,     \* session.subscriber
  keep,      \* keepContainer
  \* of the container
  locked,    \* lock is held
  ses,       \* its session
  sub,       \* its subscriber
  removable, \* sessionOffline may remove it
  removed,   \* it has been removed
  \* of the subscriber
  topics,    \* it has subscriptions in the topics manager
  \* of the manager
  sessions,      \* the map from client ids to containers
  sessionsCount, \* the WaitGroup
  persisted,     \* ids with an entry in the persistence provider
  mgr,           \* progress of Stop and Shutdown
  todo,          \* the ids Stop has still to visit
  visited,       \* the container Range has handed to Stop
  stopping,      \* the session Stop waits for
  fatal,         \* the process has crashed
  \* history
  returned,      \* the ids whose count Stop has given back
  swept          \* a container was removed between being found and being pinned

acceptVars == <<pc, id, clean, box, current, idLock, resumed, present>>
connVars   == <<phase, stopReq, mySub, keep>>
contVars   == <<locked, ses, sub, removable, removed>>
tableVars  == <<sessions, sessionsCount, persisted, swept>>
mgrVars    == <<mgr, todo, visited, stopping, returned>>
vars == <<acceptVars, connVars, contVars, topics, tableVars, mgrVars, fatal>>

\* Steps between finding a container and unlocking the id.
Loading == {"pin", "current", "stop", "wait", "check", "swap", "unpin",
            "restore", "count", "subscriber", "persist", "ack", "start"}
Steps == {"idle", "load", "acquire", "refuse", "done", "refused", "failed"}
         \cup Loading
Phases == {"new", "open", "talking", "closing", "offline", "ending", "closed"}

Init ==
  /\ pc = [c \in Conn |-> "idle"]
  /\ id = [c \in Conn |-> Nil]
  /\ clean = [c \in Conn |-> FALSE]
  /\ box = [c \in Conn |-> Nil]
  /\ current = [c \in Conn |-> Nil]
  /\ idLock = [c \in Conn |-> Nil]
  /\ resumed = [c \in Conn |-> FALSE]
  /\ present = [c \in Conn |-> FALSE]
  /\ phase = [c \in Conn |-> "new"]
  /\ stopReq = [c \in Conn |-> FALSE]
  /\ mySub = [c \in Conn |-> Nil]
  /\ keep = [c \in Conn |-> FALSE]
  /\ locked = [c \in Conn |-> FALSE]
  /\ ses = [c \in Conn |-> Nil]
  /\ sub = [c \in Conn |-> Nil]
  /\ removable = [c \in Conn |-> TRUE]
  /\ removed = [c \in Conn |-> FALSE]
  /\ topics = [c \in Conn |-> FALSE]
  /\ sessions = [i \in ClientId |-> Nil]
  /\ sessionsCount = 0
  /\ persisted = {}
  /\ mgr = "running" /\ todo = {} /\ visited = Nil /\ stopping = Nil
  /\ fatal = FALSE
  /\ returned = {} /\ swept = FALSE

\* Control of the goroutines; nothing moves in a process that has crashed.
At(c, step) == pc[c] = step /\ ~fatal
Goto(c, step) == pc' = [pc EXCEPT ![c] = step]
In(c, phases) == phase[c] \in phases /\ ~fatal
Managing(step) == mgr = step /\ ~fatal
-----------------------------------------------------------------------------
(* OnConnection: processConnect, newSession, loadContainer.                *)

\* container.release
Released(k) == [locked EXCEPT ![k] = FALSE]

\* A valid CONNECT arrives, whatever the id's other connections are doing;
\* allocContainer allocates the session and a locked container.
Connect(c, i, cl) ==
  /\ At(c, "idle") /\ mgr = "running"
  /\ Goto(c, "load")
  /\ id' = [id EXCEPT ![c] = i]
  /\ clean' = [clean EXCEPT ![c] = cl]
  /\ idLock' = [idLock EXCEPT ![c] = c]
  /\ locked' = [locked EXCEPT ![c] = TRUE]
  /\ ses' = [ses EXCEPT ![c] = c]
  /\ UNCHANGED <<box, current, resumed, present, connVars, sub, removable,
                 removed, topics, tableVars, mgrVars, fatal>>

\* sessions.LoadOrStore(params.ID, newContainer) finds no container.
StoreNew(c) ==
  /\ At(c, "load")
  /\ sessions[id[c]] = Nil
  /\ sessions' = [sessions EXCEPT ![id[c]] = c]
  /\ box' = [box EXCEPT ![c] = c]
  /\ Goto(c, "count")
  /\ UNCHANGED <<id, clean, current, idLock, resumed, present, connVars,
                 contVars, topics, sessionsCount, persisted, swept, mgrVars, fatal>>

\* It finds one: the new container's lock is given up for that one's.
LoadExisting(c) ==
  /\ At(c, "load")
  /\ sessions[id[c]] # Nil
  /\ box' = [box EXCEPT ![c] = sessions[id[c]]]
  /\ locked' = Released(c)
  /\ Goto(c, "acquire")
  /\ UNCHANGED <<id, clean, current, idLock, resumed, present, connVars, ses,
                 sub, removable, removed, topics, tableVars, mgrVars, fatal>>

CountNew(c) ==
  /\ At(c, "count")
  /\ sessionsCount' = sessionsCount + 1
  /\ Goto(c, "subscriber")
  /\ UNCHANGED <<id, clean, box, current, idLock, resumed, present, connVars,
                 contVars, topics, sessions, persisted, swept, mgrVars, fatal>>

\* The container's lock is free. The variant NoWait, for testing IdLock, does not
\* look.
NoWait(k) == TRUE
Free(k) == ~locked[k]

Acquire(c) ==
  /\ At(c, "acquire")
  /\ Free(box[c])
  /\ locked' = [locked EXCEPT ![box[c]] = TRUE]
  /\ Goto(c, "pin")
  /\ UNCHANGED <<id, clean, box, current, idLock, resumed, present, connVars,
                 ses, sub, removable, removed, topics, tableVars, mgrVars, fatal>>

\* currContainer.setRemovable(false)
Pin(c) ==
  /\ At(c, "pin")
  /\ removable' = [removable EXCEPT ![box[c]] = FALSE]
  /\ Goto(c, "current")
  /\ UNCHANGED <<id, clean, box, current, idLock, resumed, present, connVars,
                 locked, ses, sub, removed, topics, tableVars, mgrVars, fatal>>

\* currContainer.session(): is there an active connection?
Current(c) ==
  /\ At(c, "current")
  /\ current' = [current EXCEPT ![c] = ses[box[c]]]
  /\ Goto(c, IF ses[box[c]] = Nil THEN "check" ELSE "stop")
  /\ UNCHANGED <<id, clean, box, idLock, resumed, present, connVars, contVars,
                 topics, tableVars, mgrVars, fatal>>

\* session.stop: the first call closes the connection, after CONNACK through
\* onConnectionCloseStage2, before it at once (stopNonAck). Later calls return.
\* An open connection is "talking" until its reader leaves.
Stopped(v) ==
  /\ stopReq' = [stopReq EXCEPT ![v] = TRUE]
  /\ phase' = [phase EXCEPT ![v] =
       IF stopReq[v] THEN @
       ELSE IF @ = "open" THEN "talking" ELSE IF @ = "new" THEN "closed" ELSE @]

\* A connection that was acknowledged and whose close has not ended.
Live(c) == phase[c] \in {"open", "talking", "closing", "offline", "ending"}

\* Whether the caller of session.stop waits for the close to end; the variant
\* NeverWaits, for testing OwnershipSpec, goes on at once.
NeverWaits(v) == FALSE
WaitsFor(v) == ~stopReq[v] /\ Live(v)

\* A connection that was closed without session.stop: its writer is nil.
Dead(v) == ~stopReq[v] /\ phase[v] = "closed"

\* current.stop(CodeSessionTakenOver); the panic on a dead connection ends in
\* OnConnection's recover, the id still locked.
StopCurrent(c) ==
  /\ At(c, "stop")
  /\ Stopped(current[c])
  /\ Goto(c, IF Dead(current[c]) THEN "failed"
             ELSE IF WaitsFor(current[c]) THEN "wait" ELSE "check")
  /\ UNCHANGED <<id, clean, box, current, idLock, resumed, present, mySub,
                 keep, contVars, topics, tableVars, mgrVars, fatal>>

CurrentClosed(c) ==
  /\ At(c, "wait")
  /\ phase[current[c]] = "closed"
  /\ Goto(c, "check")
  /\ UNCHANGED <<id, clean, box, current, idLock, resumed, present, connVars,
                 contVars, topics, tableVars, mgrVars, fatal>>

CheckRemoved(c) ==
  /\ At(c, "check")
  /\ Goto(c, IF removed[box[c]] THEN "restore" ELSE "swap")
  /\ UNCHANGED <<id, clean, box, current, idLock, resumed, present, connVars,
                 contVars, topics, tableVars, mgrVars, fatal>>

\* The lock s.idLock points to after swap. The variant OldLock, for testing
\* Answered, leaves it pointing to the container the session came with.
OldLock(c) == idLock[c]
LockOf(c) == box[c]

\* currContainer.swap(newContainer)
Swap(c) ==
  /\ At(c, "swap")
  /\ ses' = [ses EXCEPT ![box[c]] = c]
  /\ idLock' = [idLock EXCEPT ![c] = LockOf(c)]
  /\ Goto(c, "unpin")
  /\ UNCHANGED <<id, clean, box, current, resumed, present, connVars, locked,
                 sub, removable, removed, topics, tableVars, mgrVars, fatal>>

\* newContainer.removed = false, setRemovable(true)
Unpin(c) ==
  /\ At(c, "unpin")
  /\ removed' = [removed EXCEPT ![box[c]] = FALSE]
  /\ removable' = [removable EXCEPT ![box[c]] = TRUE]
  /\ Goto(c, "subscriber")
  /\ UNCHANGED <<id, clean, box, current, idLock, resumed, present, connVars,
                 locked, ses, sub, topics, tableVars, mgrVars, fatal>>

\* The container was removed meanwhile: LoadOrStore again. Neither outcome
\* unlocks the removed container, and the new one's lock is not held any more.
StoreAgain(c) ==
  /\ At(c, "restore")
  /\ IF sessions[id[c]] = Nil
     THEN /\ sessions' = [sessions EXCEPT ![id[c]] = c]
          /\ box' = [box EXCEPT ![c] = c]
          /\ Goto(c, "count")
     ELSE /\ Goto(c, "refuse")
          /\ UNCHANGED <<sessions, box>>
  /\ UNCHANGED <<id, clean, current, idLock, resumed, present, connVars,
                 contVars, topics, sessionsCount, persisted, swept, mgrVars, fatal>>

\* subscriber.Offline: a shutdown unsubscribes from every topic. The variant
\* StaysSubscribed, for testing NoOrphan, does not.
StaysSubscribed(s, shutdown) == topics
AfterOffline(s, shutdown) == [c \in Conn |-> topics[c] /\ ~(shutdown /\ c = s)]

\* container.subscriber: a clean start shuts the subscriber it finds down. The
\* variant Reuses, for testing PresentOK, keeps it.
Reuses(c) == sub[box[c]] # Nil
Resumes(c) == sub[box[c]] # Nil /\ ~clean[c]

Subscriber(c) ==
  /\ At(c, "subscriber")
  /\ LET k == box[c]
     IN /\ mySub' = [mySub EXCEPT ![c] = IF Resumes(c) THEN sub[k] ELSE c]
        /\ sub' = [sub EXCEPT ![k] = mySub'[c]]
        /\ topics' = AfterOffline(sub[k], ~Resumes(c))
        /\ resumed' = [resumed EXCEPT ![c] = topics'[mySub'[c]]]
  /\ Goto(c, "persist")
  /\ UNCHANGED <<id, clean, box, current, idLock, present, phase, stopReq, keep,
                 locked, ses, removable, removed, tableVars, mgrVars, fatal>>

\* The ids with a persisted entry once a clean start has wiped its own.
Kept(c) == IF clean[c] THEN persisted \ {id[c]} ELSE persisted

\* persistence.Delete, Exists and Create, ack.SetSessionPresent
Persist(c) ==
  /\ At(c, "persist")
  /\ present' = [present EXCEPT ![c] = id[c] \in Kept(c)]
  /\ persisted' = Kept(c) \cup {id[c]}
  /\ Goto(c, "ack")
  /\ UNCHANGED <<id, clean, box, current, idLock, resumed, connVars, contVars,
                 topics, sessions, sessionsCount, swept, mgrVars, fatal>>

\* Acknowledge writes CONNACK and starts the session's reader and writer.
Acknowledge(c) ==
  /\ At(c, "ack")
  /\ In(c, {"new"})
  /\ phase' = [phase EXCEPT ![c] = "open"]
  /\ Goto(c, "start")
  /\ UNCHANGED <<id, clean, box, current, idLock, resumed, present, stopReq,
                 mySub, keep, contVars, topics, tableVars, mgrVars, fatal>>

\* The write fails and the connection is closed, or it has been closed by
\* another's StopCurrent: ses.start is never called, the id stays locked.
AcknowledgeFails(c) ==
  /\ At(c, "ack")
  /\ phase' = [phase EXCEPT ![c] = "closed"]
  /\ Goto(c, "failed")
  /\ UNCHANGED <<id, clean, box, current, idLock, resumed, present, stopReq,
                 mySub, keep, contVars, topics, tableVars, mgrVars, fatal>>

\* A refusing CONNACK, after which the connection is closed.
Refuse(c) ==
  /\ At(c, "refuse")
  /\ phase' = [phase EXCEPT ![c] = "closed"]
  /\ Goto(c, "refused")
  /\ UNCHANGED <<id, clean, box, current, idLock, resumed, present, stopReq,
                 mySub, keep, contVars, topics, tableVars, mgrVars, fatal>>

\* ses.start: unlocks the id. Unlocking a free mutex ends the process.
Start(c) ==
  /\ At(c, "start")
  /\ locked' = [locked EXCEPT ![idLock[c]] = FALSE]
  /\ fatal' = ~locked[idLock[c]]
  /\ Goto(c, "done")
  /\ UNCHANGED <<id, clean, box, current, idLock, resumed, present, connVars,
                 ses, sub, removable, removed, topics, tableVars, mgrVars>>
-----------------------------------------------------------------------------
(* The client, and the close of a connection: onConnectionCloseStage2 with *)
(* SignalOffline and SignalConnectionClose.                                *)

\* SUBSCRIBE, processed until the reader leaves.
Subscribe(c) ==
  /\ In(c, {"open", "talking"})
  /\ ~topics[mySub[c]]
  /\ topics' = [topics EXCEPT ![mySub[c]] = TRUE]
  /\ UNCHANGED <<acceptVars, connVars, contVars, tableVars, mgrVars, fatal>>

UnSubscribe(c) ==
  /\ In(c, {"open", "talking"})
  /\ topics[mySub[c]]
  /\ topics' = [topics EXCEPT ![mySub[c]] = FALSE]
  /\ UNCHANGED <<acceptVars, connVars, contVars, tableVars, mgrVars, fatal>>

\* The client disconnects or reading fails, and the reader leaves and closes; or
\* writing fails, and the close of the writer waits for the reader.
Drop(c) ==
  /\ In(c, {"open"})
  /\ \E p \in {"closing", "talking"} : phase' = [phase EXCEPT ![c] = p]
  /\ UNCHANGED <<acceptVars, stopReq, mySub, keep, contVars, topics, tableVars,
                 mgrVars, fatal>>

\* rx.shutdown returns: the reader has met its deadline or the end of the
\* connection. Each packet that comes in time puts that off (reader.go:72).
FallsSilent(c) ==
  /\ In(c, {"talking"})
  /\ phase' = [phase EXCEPT ![c] = "closing"]
  /\ UNCHANGED <<acceptVars, stopReq, mySub, keep, contVars, topics, tableVars,
                 mgrVars, fatal>>

\* SignalOffline: the subscriber of a session that is not durable unsubscribes.
Offline(c) ==
  /\ In(c, {"closing"})
  /\ topics' = AfterOffline(mySub[c], clean[c])
  /\ phase' = [phase EXCEPT ![c] = "offline"]
  /\ UNCHANGED <<acceptVars, stopReq, mySub, keep, contVars, tableVars, mgrVars,
                 fatal>>

\* What SignalConnectionClose keeps the container for. The variant KeepsNone,
\* for testing DurableSurvives, keeps it for nothing.
KeepsNone(c) == FALSE
Keeps(c) == ~clean[c] /\ topics[mySub[c]]

\* SignalConnectionClose up to subscriberShutdown
ConnectionClose(c) ==
  /\ In(c, {"offline"})
  /\ keep' = [keep EXCEPT ![c] = Keeps(c)]
  /\ topics' = AfterOffline(mySub[c], ~Keeps(c))
  /\ sub' = [k \in Conn |-> IF k = sessions[id[c]] /\ ~Keeps(c) THEN Nil ELSE sub[k]]
  /\ phase' = [phase EXCEPT ![c] = "ending"]
  /\ UNCHANGED <<acceptVars, stopReq, mySub, locked, ses, removable, removed,
                 tableVars, mgrVars, fatal>>

\* Whether sessionOffline removes container k. The variant AlwaysRemoves, for
\* testing NeverFatal, disregards that an accepting connection pinned it.
AlwaysRemoves(c, k) == ~keep[c]
Removes(c, k) == ~keep[c] /\ removable[k]

\* sessionsCount after it. The variant Uncounted, for testing CountOK, never calls
\* Done.
Uncounted(gone) == sessionsCount
Remaining(gone) == IF gone THEN sessionsCount - 1 ELSE sessionsCount

\* The connections that have found container k and not pinned it yet.
Found(k) == {d \in Conn : box[d] = k /\ pc[d] \in {"acquire", "pin"}}

\* sessionOffline, from Load on under rmLock, and the end of the close. Whoever has
\* found the container and not called setRemovable(false) yet gets a removed one.
\* Nobody reads clean and keep of this session any more: they are forgotten.
SessionOffline(c) ==
  /\ In(c, {"ending"})
  /\ LET k    == sessions[id[c]]
         gone == k # Nil /\ Removes(c, k)
     IN /\ ses' = [j \in Conn |-> IF j = k THEN Nil ELSE ses[j]]
        /\ removed' = [j \in Conn |-> removed[j] \/ (gone /\ j = k)]
        /\ sessions' = [sessions EXCEPT ![id[c]] = IF gone THEN Nil ELSE @]
        /\ sessionsCount' = Remaining(gone)
        /\ fatal' = (gone /\ sessionsCount = 0)
        /\ swept' = (swept \/ (gone /\ Found(k) # {}))
  /\ phase' = [phase EXCEPT ![c] = "closed"]
  /\ stopReq' = [stopReq EXCEPT ![c] = TRUE]
  /\ keep' = [keep EXCEPT ![c] = FALSE]
  /\ clean' = [clean EXCEPT ![c] = FALSE]
  /\ UNCHANGED <<pc, id, box, current, idLock, resumed, present, mySub, locked,
                 sub, removable, topics, persisted, mgrVars>>
-----------------------------------------------------------------------------
(* Server.Shutdown: Manager.Stop once the listeners have finished, then    *)
(* Manager.Shutdown.                                                       *)

Stop ==
  /\ Stops /\ Managing("running")
  /\ \A c \in Conn : pc[c] \in {"idle", "done", "refused", "failed"}
  /\ mgr' = "ranging"
  /\ todo' = {i \in ClientId : sessions[i] # Nil}
  /\ UNCHANGED <<acceptVars, connVars, contVars, topics, tableVars, visited,
                 stopping, returned, fatal>>

\* Range loads the container of one id after the other, unless it is gone.
Visit(i) ==
  /\ Managing("ranging") /\ i \in todo
  /\ todo' = todo \ {i}
  /\ visited' = sessions[i]
  /\ mgr' = IF sessions[i] = Nil THEN "ranging" ELSE "visiting"
  /\ UNCHANGED <<acceptVars, connVars, contVars, topics, tableVars, stopping,
                 returned, fatal>>

\* The container has no session, or has none any more: its count is given back,
\* whether or not sessionOffline has done so.
VisitIdle ==
  /\ Managing("visiting") /\ ses[visited] = Nil
  /\ sessionsCount' = Remaining(TRUE)
  /\ fatal' = (sessionsCount = 0)
  /\ returned' = returned \cup {id[visited]}
  /\ mgr' = "ranging" /\ visited' = Nil
  /\ UNCHANGED <<acceptVars, connVars, contVars, topics, sessions, persisted,
                 swept, todo, stopping>>

\* A running session is stopped.
VisitRunning ==
  /\ Managing("visiting") /\ ses[visited] # Nil
  /\ LET v == ses[visited]
     IN /\ Stopped(v)
        /\ stopping' = IF WaitsFor(v) THEN v ELSE Nil
        /\ mgr' = IF WaitsFor(v) THEN "waiting" ELSE "ranging"
        /\ fatal' = Dead(v)
  /\ visited' = Nil
  /\ UNCHANGED <<acceptVars, mySub, keep, contVars, topics, tableVars, todo,
                 returned>>

StoppingClosed ==
  /\ Managing("waiting") /\ phase[stopping] = "closed"
  /\ mgr' = "ranging"
  /\ stopping' = Nil
  /\ UNCHANGED <<acceptVars, connVars, contVars, topics, tableVars, todo, visited,
                 returned, fatal>>

\* sessionsCount.Wait() returns.
CountZero ==
  /\ Managing("ranging") /\ todo = {}
  /\ sessionsCount = 0
  /\ mgr' = "stopped"
  /\ UNCHANGED <<acceptVars, connVars, contVars, topics, tableVars, todo, visited,
                 stopping, returned, fatal>>

\* Manager.Shutdown: the subscribers are persisted, the map is emptied.
Shutdown ==
  /\ Managing("stopped")
  /\ mgr' = "down"
  /\ sessions' = [i \in ClientId |-> Nil]
  /\ UNCHANGED <<acceptVars, connVars, contVars, topics, sessionsCount,
                 persisted, swept, todo, visited, stopping, returned, fatal>>
-----------------------------------------------------------------------------
Accept(c) ==
  \/ StoreNew(c) \/ LoadExisting(c) \/ CountNew(c) \/ Acquire(c) \/ Pin(c)
  \/ Current(c) \/ StopCurrent(c) \/ CurrentClosed(c)
  \/ CheckRemoved(c) \/ Swap(c) \/ Unpin(c) \/ StoreAgain(c) \/ Subscriber(c)
  \/ Persist(c) \/ Acknowledge(c) \/ AcknowledgeFails(c) \/ Refuse(c) \/ Start(c)

Client(c) ==
  \/ \E i \in ClientId, cl \in Cleans : Connect(c, i, cl)
  \/ Subscribe(c) \/ UnSubscribe(c) \/ Drop(c) \/ FallsSilent(c)

Close(c) == Offline(c) \/ ConnectionClose(c) \/ SessionOffline(c)

Manager ==
  \/ \E i \in ClientId : Visit(i)
  \/ VisitIdle \/ VisitRunning \/ StoppingClosed \/ CountZero \/ Shutdown

Next == \/ \E c \in Conn : Accept(c) \/ Client(c) \/ Close(c)
        \/ Stop \/ Manager

Spec == Init /\ [][Next]_vars

\* Every goroutine that can go on does. Nobody makes a client fall silent.
Fairness ==
  /\ \A c \in Conn : WF_vars(Accept(c)) /\ WF_vars(Close(c))
  /\ WF_vars(Manager)

FairSpec == Spec /\ Fairness
-----------------------------------------------------------------------------
TypeOK ==
  /\ pc \in [Conn -> Steps]
  /\ id \in [Conn -> ClientId \cup {Nil}]
  /\ clean \in [Conn -> BOOLEAN]
  /\ box \in [Conn -> Conn \cup {Nil}]
  /\ current \in [Conn -> Conn \cup {Nil}]
  /\ idLock \in [Conn -> Conn \cup {Nil}]
  /\ resumed \in [Conn -> BOOLEAN]
  /\ present \in [Conn -> BOOLEAN]
  /\ phase \in [Conn -> Phases]
  /\ stopReq \in [Conn -> BOOLEAN]
  /\ mySub \in [Conn -> Conn \cup {Nil}]
  /\ keep \in [Conn -> BOOLEAN]
  /\ locked \in [Conn -> BOOLEAN]
  /\ ses \in [Conn -> Conn \cup {Nil}]
  /\ sub \in [Conn -> Conn \cup {Nil}]
  /\ removable \in [Conn -> BOOLEAN]
  /\ removed \in [Conn -> BOOLEAN]
  /\ topics \in [Conn -> BOOLEAN]
  /\ sessions \in [ClientId -> Conn \cup {Nil}]
  /\ sessionsCount \in Int /\ (fatal \/ sessionsCount >= 0)
  /\ persisted \subseteq ClientId
  /\ mgr \in {"running", "ranging", "visiting", "waiting", "stopped", "down"}
  /\ todo \subseteq ClientId
  /\ visited \in Conn \cup {Nil}
  /\ stopping \in Conn \cup {Nil}
  /\ fatal \in BOOLEAN
  /\ returned \subseteq ClientId
  /\ swept \in BOOLEAN

\* Between finding its container and ses.start, unless its client has come and
\* gone by then.
Accepting(c) == pc[c] \in Loading /\ phase[c] # "closed"

\* "lock id to prevent other incoming connections with same ID making any
\* changes until we done" (sessions.go:539): no two connections are being
\* accepted under one client id.
IdExclusive ==
  \A c, d \in Conn : c # d /\ Accepting(c) /\ Accepting(d) => id[c] # id[d]

\* What that lock is to prevent, with no exception: two connections of one client
\* id that both set up their subscriber and their persisted entry, or are about
\* to be acknowledged (sessions.go:539, 595-646). The code does not keep it.
ChangesAlone ==
  \A c, d \in Conn :
    c # d /\ {pc[c], pc[d]} \subseteq {"subscriber", "persist", "ack"} => id[c] # id[d]

\* The id is locked "until we done": whoever holds a container's lock is still
\* on its way to ses.start, so that the next connection gets its turn
\* (sessions.go:539, session.go:69), or could not be sent its CONNACK, and then
\* the id stays locked (sessions.go:397).
LockedByLoader ==
  \A k \in Conn : locked[k] =>
    \E c \in Conn : /\ pc[c] \in Loading \cup {"load", "failed"}
                    /\ k \in {box[c], idLock[c]}

\* The lock of an id keeps everybody else out, and does not outlive the
\* connection that took it, wherever swap and the takeover leave it: until a
\* container is removed after a CONNECT has found it, and before it has pinned
\* it, for then the CONNECT goes on without a lock (sessions.go:577-586).
IdLock == ~swept => IdExclusive /\ LockedByLoader

\* A connection taken over has been closed altogether, its session put offline,
\* before its successor is acknowledged: a client id has one connection
\* (sessions.go:562-565, types.go OnceWait).
OneConnection ==
  \A c, d \in Conn : c # d /\ Live(c) /\ Live(d) => id[c] # id[d]

\* So the clients manager implements Ownership: an id passes from one connection
\* to the next only when the close of the first has come to its end; until a
\* container is removed under a CONNECT that has found it.
Owners(i) == {c \in Conn : Live(c) /\ id[c] = i}

O == INSTANCE Ownership WITH owners <- [i \in ClientId |-> Owners(i)],
                             lost <- swept

OwnershipSpec == O!Spec

\* The session of every live connection is the one its client id leads to, so
\* that a takeover or the server's shutdown finds it: sessionOffline of an old
\* session never takes the container of a new one (sessions.go:733-769).
CurrentSession ==
  mgr # "down" =>
    \A c \in Conn : Live(c) =>
      sessions[id[c]] # Nil /\ ses[sessions[id[c]]] = c

SessionCurrent == ~swept => CurrentSession

\* The wait group counts the containers of the map, whatever closes, accepts and
\* stops interleave, but for those that Stop has given back (sessions.go:181,
\* 197, 591, 757).
CountOK ==
  mgr # "down" =>
    sessionsCount + Cardinality({c \in Conn : pc[c] = "count"}) + Cardinality(returned)
      = Cardinality({i \in ClientId : sessions[i] # Nil})

\* Stop has given back a count that sessionOffline had given back as well
\* (sessions.go:181 and 757), or has come to a connection whose CONNACK could
\* not be written (its writer is nil).
StopCrashes ==
  /\ mgr # "running"
  /\ \/ \E i \in returned : sessions[i] = Nil
     \/ \E c \in Conn : /\ pc[c] = "failed"
                       /\ sessions[id[c]] # Nil /\ ses[sessions[id[c]]] = c

\* No interleaving unlocks an unlocked id lock or drives sessionsCount below
\* zero: both end the whole server, not one connection (session.go:70). The
\* exceptions are the CONNECT that has lost its lock, and two in Stop.
NeverFatal == fatal => swept \/ StopCrashes

\* A subscriber that still has subscriptions in the topics manager is that of a
\* container in the map: nobody is left to unsubscribe any other one
\* (container.go:52, sessions.go:723). And a container is worth its place in the
\* map: it has a session, a subscriber with subscriptions, or a connection that
\* is about to give it one (container.go:12).
NoneOrphaned ==
  /\ mgr # "down" =>
       \A s \in Conn : topics[s] =>
         \E i \in ClientId : sessions[i] # Nil /\ sub[sessions[i]] = s
  /\ mgr # "down" =>
       \A i \in ClientId : sessions[i] # Nil =>
         \/ ses[sessions[i]] # Nil
         \/ sub[sessions[i]] # Nil /\ topics[sub[sessions[i]]]
         \/ \E c \in Conn : pc[c] \in Loading /\ box[c] = sessions[i]

NoOrphan == ~swept => NoneOrphaned

\* The answer to CONNECT: a clean start never resumes the subscriptions nor
\* reports a session, and one that resumes subscriptions reports it
\* (sessions.go:602-646).
PresentOK ==
  \A c \in Conn : pc[c] \in {"ack", "start"} =>
    /\ clean[c] => ~resumed[c] /\ ~present[c]
    /\ resumed[c] => present[c]

Subscribed(i) ==
  sessions[i] # Nil /\ sub[sessions[i]] # Nil /\ topics[sub[sessions[i]]]

\* What ends the subscriptions of an id: the CONNECT of a clean session, its
\* close, or an UNSUBSCRIBE.
Unsubscribes(c) ==
  \/ clean[c] /\ (Subscriber(c) \/ Offline(c) \/ ConnectionClose(c))
  \/ UnSubscribe(c)

\* The subscriptions of a durable session survive every close and every
\* takeover, also between clean sessions of the same id (session.go:297,
\* container.go:53).
DurableSurvives ==
  [][\A i \in ClientId : Subscribed(i) /\ ~Subscribed(i)' =>
       \/ mgr' = "down"
       \/ \E c \in Conn : id[c] = i /\ Unsubscribes(c)
       \/ swept']_vars

\* Nobody's reader goes on for ever: each client falls silent after a takeover
\* or Stop has asked its connection to close.
AllFallSilent == \A c \in Conn : []<>(phase[c] # "talking")

\* The id is locked for good: its CONNACK could not be written.
LeftLocked(i) == \E c \in Conn : id[c] = i /\ pc[c] = "failed"

\* Every CONNECT is answered: waiting for the id lock, for the close of the
\* connection taken over and for the locks ends, if the one taken over falls
\* silent, no CONNACK has left the id locked and no lock has been lost.
Answered ==
  AllFallSilent =>
    \A c \in Conn : pc[c] = "load" ~>
      pc[c] \in {"done", "refused"} \/ LeftLocked(id[c]) \/ swept

\* The close of a durable session has kept a container that Stop has visited
\* before: nobody gives its count back (sessions.go:197).
Held ==
  \E i \in ClientId : /\ sessions[i] \notin {Nil, visited} /\ i \notin todo \cup returned
                      /\ ses[sessions[i]] = Nil

\* "Shutdown terminates the server by shutting down all the client connections"
\* (server/volantmq.go:66): Manager.Stop comes to its end if the clients fall
\* silent, unless it crashes, or waits for the count of a session that was
\* connected and has subscriptions to keep.
StopTerminates ==
  AllFallSilent =>
    (mgr = "ranging" ~> mgr = "down" \/ (mgr # "running" /\ Held) \/ fatal \/ swept)
=============================================================================

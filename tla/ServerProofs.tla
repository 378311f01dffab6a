---------------------------- MODULE ServerProofs ----------------------------
(***************************************************************************)
(* Shutdown closes what others use after all of them, for any number of    *)
(* listeners and clients and any pool.                                     *)
(***************************************************************************)
EXTENDS Server, TLAPS

TypeOK ==
  /\ listener \in [Listener -> {"off", "open", "quit", "closed", "nil"}]
  /\ serve \in [Listener -> {"off", "schedule", "answer", "returned"}]
  /\ task \in [Listener -> {"none", "queued", "ok", "temporary", "failed"}
                             \cup {"taken", "accepting", "accepted", "handling", "waits", "takes"}
                             \cup {"stuck", "crashed"}]
  /\ where \in [Client -> {"away", "dials", "taken", "session", "leaked", "kept", "twice"}]
  /\ updater \in {"waits", "publishes", "done"}
  /\ shutdown \in {"running", "close", "join", "sessions", "updater", "topics", "pool", "done"}

\* A listener has a task only while Serve waits for its answer.
TaskOK ==
  \A l \in Listener :
    /\ task[l] # "none" => serve[l] = "answer"
    /\ listener[l] = "off" => serve[l] = "off"

\* What the channel of the pool holds is the task of a listener, and still queued.
WorkOK == work = <<>> \/ \E l \in Listener : work = <<l>> /\ task[l] = "queued"

\* What has come to its end by each step of Shutdown. A listener added after all
\* of them finds the pool closed.
StepOK ==
  /\ shutdown \in {"sessions", "updater", "topics", "pool"} =>
       \A l \in Listener : serve[l] \in {"off", "returned"}
  /\ shutdown = "done" => \A l \in Listener : serve[l] # "answer"
  /\ shutdown \in {"updater", "topics", "pool", "done"} =>
       \A c \in Client : where[c] # "session"
  /\ shutdown \in {"topics", "pool", "done"} => updater = "done"

IInv == TypeOK /\ TaskOK /\ WorkOK /\ StepOK

USE DEF clientVars, poolVars, stopVars

-----------------------------------------------------------------------------

LEMMA InitIInv == Init => IInv
  BY DEF Init, IInv, TypeOK, TaskOK, WorkOK, StepOK

\* The steps of Shutdown, one after the other.
LEMMA NextStep ==
  /\ GoTo("running")  => shutdown = "running"  /\ shutdown' = "close"
  /\ GoTo("close")    => shutdown = "close"    /\ shutdown' = "join"
  /\ GoTo("join")     => shutdown = "join"     /\ shutdown' = "sessions"
  /\ GoTo("sessions") => shutdown = "sessions" /\ shutdown' = "updater"
  /\ GoTo("updater")  => shutdown = "updater"  /\ shutdown' = "topics"
  /\ GoTo("topics")   => shutdown = "topics"   /\ shutdown' = "pool"
  /\ GoTo("pool")     => shutdown = "pool"     /\ shutdown' = "done"
  BY DEF GoTo, Steps

\* Serve and the task of a listener.
LEMMA ListeningStep ==
  ASSUME IInv, NEW l \in Listener, Listening(l)
  PROVE  IInv'
  <1> USE DEF IInv, TypeOK, TaskOK, WorkOK, StepOK
  <1>1. CASE Schedule(l)
    BY <1>1 DEF Schedule
  <1>2. CASE PoolIsClosed(l)
    BY <1>2 DEF PoolIsClosed
  <1>3. CASE Answered(l)
    BY <1>3 DEF Answered, GoesOn
  <1>4. CASE ReadListener(l)
    BY <1>4 DEF ReadListener
  <1>5. CASE Accept(l)
    BY <1>5 DEF Accept
  <1>6. CASE AcceptFails(l)
    BY <1>6 DEF AcceptFails
  <1>7. CASE CheckQuit(l)
    BY <1>7 DEF CheckQuit, Ends
  <1>8. CASE Refuse(l)
    BY <1>8 DEF Refuse, Ends
  <1>9. ASSUME NEW i \in ClientId, Connect(l, i) PROVE IInv'
    BY <1>9 DEF Connect
  <1>10. CASE Stray(l)
    BY <1>10 DEF Stray
  <1>11. CASE Acquire(l)
    BY <1>11 DEF Acquire
  <1>12. CASE TakeOver(l)
    BY <1>12 DEF TakeOver, Ends
  <1>13. QED BY <1>1, <1>2, <1>3, <1>4, <1>5, <1>6, <1>7, <1>8, <1>9, <1>10, <1>11, <1>12
             DEF Listening

LEMMA ShutdownSteps ==
  ASSUME IInv, Shutdown \/ ShutdownStep
  PROVE  IInv'
  <1> USE NextStep DEF IInv, TypeOK, TaskOK, WorkOK, StepOK
  <1>1. CASE Shutdown
    BY <1>1 DEF Shutdown
  <1>2. CASE ShutdownStep /\ AllClosed
    BY <1>2 DEF ShutdownStep, AllClosed
  <1>3. CASE ShutdownStep /\ Join
    BY <1>3 DEF ShutdownStep, Join
  <1>4. CASE ShutdownStep /\ StopSessions
    BY <1>4 DEF ShutdownStep, StopSessions, Counted
  <1>5. CASE ShutdownStep /\ StopUpdater
    BY <1>5 DEF ShutdownStep, StopUpdater
  <1>6. CASE ShutdownStep /\ (GoTo("topics") \/ GoTo("pool"))
    BY <1>6 DEF ShutdownStep
  <1>7. QED BY <1>1, <1>2, <1>3, <1>4, <1>5, <1>6 DEF ShutdownStep

LEMMA OtherSteps ==
  ASSUME IInv,
         Take \/ UpdaterEnds \/ Tick \/ UNCHANGED vars
           \/ (\E l \in Listener : Close(l) \/ ListenAndServe(l) \/ \E c \in Client : Dial(c, l))
           \/ \E c \in Client : SessionEnds(c)
  PROVE  IInv'
  <1> USE DEF IInv, TypeOK, TaskOK, WorkOK, StepOK
  <1>1. CASE Take
    BY <1>1 DEF Take
  <1>2. CASE UpdaterEnds \/ Tick \/ UNCHANGED vars
    BY <1>2 DEF UpdaterEnds, Tick, vars
  <1>3. ASSUME NEW l \in Listener, Close(l) PROVE IInv'
    BY <1>3 DEF Close
  <1>4. ASSUME NEW l \in Listener, ListenAndServe(l) PROVE IInv'
    BY <1>4 DEF ListenAndServe
  <1>5. ASSUME NEW l \in Listener, NEW c \in Client, Dial(c, l) PROVE IInv'
    BY <1>5 DEF Dial
  <1>6. ASSUME NEW c \in Client, SessionEnds(c) PROVE IInv'
    BY <1>6 DEF SessionEnds
  <1>7. QED BY <1>1, <1>2, <1>3, <1>4, <1>5, <1>6

LEMMA NextIInv == IInv /\ [Next]_vars => IInv'
  BY ListeningStep, ShutdownSteps, OtherSteps DEF Next, Environment, Code

LEMMA Invariant == Spec => []IInv
  <1>1. Init => IInv
    BY InitIInv
  <1>2. IInv /\ [Next]_vars => IInv'
    BY NextIInv
  <1>3. QED BY <1>1, <1>2, PTL DEF Spec

\* When Shutdown closes the channels of the topics manager and of the pool, no
\* listener, no handshake, no session and no updater is left to send to them
\* (volantmq.go:258-289), however listeners, clients and the pool interleave.
THEOREM ClosedInOrderCorrect == Spec => []ClosedInOrder
  <1>1. IInv => ClosedInOrder
    BY DEF IInv, TypeOK, TaskOK, StepOK, ClosedInOrder
  <1>2. QED BY <1>1, Invariant, PTL
=============================================================================

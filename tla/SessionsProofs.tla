--------------------------- MODULE SessionsProofs ---------------------------
(***************************************************************************)
(* What the clients manager keeps true for any number of connections and   *)
(* client ids, without any assumption on the clients or on the order of    *)
(* steps. TInv and PInv, and that the wait group counts the containers,    *)
(* hold in every reachable state. The others, IInv and SInv, hold until a  *)
(* container is removed between being found and being pinned (swept):      *)
(* from then on a connection is accepted without its id's lock, and what   *)
(* is proved with them is broken by the code (section 6 of the README).    *)
(***************************************************************************)
EXTENDS Sessions, FiniteSetTheorems, TLAPS

\* Steps of a goroutine that has found a container, of one that holds the
\* container's lock, and of one whose session the container holds.
Busy    == Loading \cup {"acquire"}
Lockers == Loading \cup {"failed"}
Holding == {"unpin", "count", "subscriber", "persist", "ack", "start", "failed"}
Pinning == {"current", "stop", "wait", "check", "swap", "unpin"}
Before  == (Busy \cup {"idle", "load", "refuse"}) \ {"start"}
Ended   == {"idle", "done", "refused", "failed"}
Served  == {"persist", "ack", "start", "done"}
Serving == {"open", "talking", "closing", "offline"}

-----------------------------------------------------------------------------
(* What holds whatever happens, a lost lock included: the types, and which  *)
(* ids, containers and subscribers belong together.                         *)

PlacesOK ==
  \A c \in Conn :
    /\ pc[c] # "idle" => id[c] \in ClientId
    /\ pc[c] \notin {"idle", "load"} =>
         box[c] \in Conn /\ id[box[c]] = id[c] /\ pc[box[c]] \notin {"idle", "load"}
    /\ pc[c] \in {"stop", "wait"} => current[c] \in Conn
    /\ Live(c) => pc[c] \in {"start", "done"}

MapOK ==
  \A i \in ClientId : sessions[i] # Nil =>
    id[sessions[i]] = i /\ pc[sessions[i]] \notin {"idle", "load"}

StopOK ==
  /\ mgr # "running" => \A c \in Conn : pc[c] \in Ended
  /\ mgr = "running" => todo = {} /\ returned = {}
  /\ mgr = "down" => \A i \in ClientId : sessions[i] = Nil
  /\ mgr = "visiting" =>
       visited \in Conn /\ id[visited] \in ClientId \ (todo \cup returned)
  /\ todo \cap returned = {}

TInv == TypeOK /\ PlacesOK /\ MapOK /\ StopOK

SubscribersOK ==
  /\ \A k \in Conn : sub[k] # Nil =>
       /\ pc[k] \notin {"idle", "load"} /\ id[sub[k]] = id[k]
       /\ pc[sub[k]] \in Served \cup {"failed"}
  /\ \A c \in Conn : pc[c] \in Served =>
       /\ mySub[c] \in Conn
       /\ id[mySub[c]] = id[c] /\ pc[mySub[c]] \in Served \cup {"failed"}
  /\ \A s \in Conn : topics[s] =>
       id[s] \in persisted /\ pc[s] \in Served \cup {"failed"}
  /\ \A c \in Conn :
       /\ pc[c] \in {"ack", "start", "done"} => id[c] \in persisted
       /\ pc[c] = "persist" =>
            (clean[c] => ~resumed[c]) /\ (resumed[c] => id[c] \in persisted)

PInv == SubscribersOK /\ PresentOK

\* The control of the goroutines and the sets of their steps, expanded in every
\* step below.
USE SessionsAssumption
    DEF At, In, Managing, Goto, Accepting, Live, Steps, Phases, Loading, Busy,
        Lockers, Holding, Pinning, Before, Ended, Served, Serving, vars, acceptVars,
        connVars, contVars, tableVars, mgrVars

LEMMA NextTypes ==
  ASSUME TInv, [Next]_vars
  PROVE  TInv'
  <1> USE DEF TInv
  <1>1. ASSUME NEW c \in Conn, StoreNew(c)
        PROVE  TInv'
    BY <1>1 DEF StoreNew, TypeOK, PlacesOK, MapOK, StopOK
  <1>2. ASSUME NEW c \in Conn, LoadExisting(c)
        PROVE  TInv'
    BY <1>2 DEF LoadExisting, Released, TypeOK, PlacesOK, MapOK, StopOK
  <1>3. ASSUME NEW c \in Conn, CountNew(c)
        PROVE  TInv'
    BY <1>3 DEF CountNew, TypeOK, PlacesOK, MapOK, StopOK
  <1>4. ASSUME NEW c \in Conn, Acquire(c)
        PROVE  TInv'
    BY <1>4 DEF Acquire, Free, TypeOK, PlacesOK, MapOK, StopOK
  <1>5. ASSUME NEW c \in Conn, Pin(c)
        PROVE  TInv'
    BY <1>5 DEF Pin, TypeOK, PlacesOK, MapOK, StopOK
  <1>6. ASSUME NEW c \in Conn, Current(c)
        PROVE  TInv'
    BY <1>6 DEF Current, TypeOK, PlacesOK, MapOK, StopOK
  <1>7. ASSUME NEW c \in Conn, StopCurrent(c)
        PROVE  TInv'
    BY <1>7 DEF StopCurrent, Stopped, Dead, WaitsFor, TypeOK, PlacesOK, MapOK, StopOK
  <1>8. ASSUME NEW c \in Conn, CurrentClosed(c)
        PROVE  TInv'
    BY <1>8 DEF CurrentClosed, TypeOK, PlacesOK, MapOK, StopOK
  <1>9. ASSUME NEW c \in Conn, CheckRemoved(c)
        PROVE  TInv'
    BY <1>9 DEF CheckRemoved, TypeOK, PlacesOK, MapOK, StopOK
  <1>10. ASSUME NEW c \in Conn, Swap(c)
        PROVE  TInv'
    BY <1>10 DEF Swap, LockOf, TypeOK, PlacesOK, MapOK, StopOK
  <1>11. ASSUME NEW c \in Conn, Unpin(c)
        PROVE  TInv'
    BY <1>11 DEF Unpin, TypeOK, PlacesOK, MapOK, StopOK
  <1>12. ASSUME NEW c \in Conn, StoreAgain(c)
        PROVE  TInv'
    <2>1. TypeOK'
      BY <1>12 DEF StoreAgain, TypeOK, PlacesOK, StopOK
    <2>2. PlacesOK' /\ MapOK' /\ StopOK'
      BY <1>12 DEF StoreAgain, TypeOK, PlacesOK, MapOK, StopOK
    <2>3. QED BY <2>1, <2>2
  <1>13. ASSUME NEW c \in Conn, Subscriber(c)
        PROVE  TInv'
    BY <1>13 DEF Subscriber, Resumes, AfterOffline, TypeOK, PlacesOK, MapOK, StopOK
  <1>14. ASSUME NEW c \in Conn, Persist(c)
        PROVE  TInv'
    BY <1>14 DEF Persist, Kept, TypeOK, PlacesOK, MapOK, StopOK
  <1>15. ASSUME NEW c \in Conn, Acknowledge(c)
        PROVE  TInv'
    BY <1>15 DEF Acknowledge, TypeOK, PlacesOK, MapOK, StopOK
  <1>16. ASSUME NEW c \in Conn, AcknowledgeFails(c)
        PROVE  TInv'
    BY <1>16 DEF AcknowledgeFails, TypeOK, PlacesOK, MapOK, StopOK
  <1>17. ASSUME NEW c \in Conn, Refuse(c)
        PROVE  TInv'
    BY <1>17 DEF Refuse, TypeOK, PlacesOK, MapOK, StopOK
  <1>18. ASSUME NEW c \in Conn, Start(c)
        PROVE  TInv'
    <2>1. TypeOK'
      BY <1>18 DEF Start, TypeOK, PlacesOK, StopOK
    <2>2. PlacesOK' /\ MapOK' /\ StopOK'
      BY <1>18 DEF Start, TypeOK, PlacesOK, MapOK, StopOK
    <2>3. QED BY <2>1, <2>2
  <1>19. ASSUME NEW c \in Conn, NEW i \in ClientId, NEW cl \in Cleans, Connect(c, i, cl)
        PROVE  TInv'
    BY <1>19 DEF Connect, TypeOK, PlacesOK, MapOK, StopOK
  <1>20. ASSUME NEW c \in Conn, Subscribe(c)
        PROVE  TInv'
    BY <1>20 DEF Subscribe, TypeOK, PlacesOK, MapOK, StopOK
  <1>21. ASSUME NEW c \in Conn, UnSubscribe(c)
        PROVE  TInv'
    BY <1>21 DEF UnSubscribe, TypeOK, PlacesOK, MapOK, StopOK
  <1>22. ASSUME NEW c \in Conn, Drop(c)
        PROVE  TInv'
    BY <1>22 DEF Drop, TypeOK, PlacesOK, MapOK, StopOK
  <1>23. ASSUME NEW c \in Conn, FallsSilent(c)
        PROVE  TInv'
    BY <1>23 DEF FallsSilent, TypeOK, PlacesOK, MapOK, StopOK
  <1>24. ASSUME NEW c \in Conn, Offline(c)
        PROVE  TInv'
    BY <1>24 DEF Offline, AfterOffline, TypeOK, PlacesOK, MapOK, StopOK
  <1>25. ASSUME NEW c \in Conn, ConnectionClose(c)
        PROVE  TInv'
    BY <1>25 DEF ConnectionClose, AfterOffline, Keeps, TypeOK, PlacesOK, MapOK, StopOK
  <1>26. ASSUME NEW c \in Conn, SessionOffline(c)
        PROVE  TInv'
    BY <1>26 DEF SessionOffline, Removes, Remaining, TypeOK, PlacesOK, MapOK, StopOK
  <1>27. CASE Stop
    BY <1>27 DEF Stop, TypeOK, PlacesOK, MapOK, StopOK
  <1>28. ASSUME NEW i \in ClientId, Visit(i)
        PROVE  TInv'
    BY <1>28 DEF Visit, TypeOK, PlacesOK, MapOK, StopOK
  <1>29. CASE VisitIdle
    <2>1. TypeOK'
      <3>1. fatal' = (sessionsCount = 0) /\ sessionsCount' = sessionsCount - 1
        BY <1>29 DEF VisitIdle, Remaining
      <3>2. ~fatal /\ sessionsCount \in Int /\ sessionsCount >= 0
        BY <1>29 DEF VisitIdle, Managing, TypeOK
      <3>3. fatal' \in BOOLEAN /\ (fatal' <=> sessionsCount = 0)
        BY <3>1
      <3>4. sessionsCount' \in Int /\ (sessionsCount # 0 => sessionsCount' >= 0)
        BY <3>1, <3>2
      <3>5. returned' \subseteq ClientId
        BY <1>29 DEF VisitIdle, Managing, TypeOK, PlacesOK, StopOK
      <3>6. /\ mgr' = "ranging" /\ visited' = Nil
            /\ UNCHANGED <<acceptVars, connVars, contVars, topics, sessions, persisted,
                           swept, todo, stopping>>
        BY <1>29 DEF VisitIdle
      <3>7. QED BY <3>3, <3>4, <3>5, <3>6 DEF TypeOK, acceptVars, connVars, contVars
    <2>2. PlacesOK' /\ MapOK' /\ StopOK'
      BY <1>29 DEF VisitIdle, Remaining, TypeOK, PlacesOK, MapOK, StopOK
    <2>3. QED BY <2>1, <2>2
  <1>30. CASE VisitRunning
    BY <1>30 DEF VisitRunning, Stopped, Dead, WaitsFor, TypeOK, PlacesOK, MapOK, StopOK
  <1>31. CASE StoppingClosed
    BY <1>31 DEF StoppingClosed, TypeOK, PlacesOK, MapOK, StopOK
  <1>32. CASE CountZero
    BY <1>32 DEF CountZero, TypeOK, PlacesOK, MapOK, StopOK
  <1>33. CASE Shutdown
    BY <1>33 DEF Shutdown, TypeOK, PlacesOK, MapOK, StopOK
  <1>34. CASE UNCHANGED vars
    BY <1>34 DEF TypeOK, PlacesOK, MapOK, StopOK
  <1>35. QED BY <1>1, <1>2, <1>3, <1>4, <1>5, <1>6, <1>7, <1>8, <1>9, <1>10, <1>11,
            <1>12, <1>13, <1>14, <1>15, <1>16, <1>17, <1>18, <1>19, <1>20, <1>21,
            <1>22, <1>23, <1>24, <1>25, <1>26, <1>27, <1>28, <1>29, <1>30, <1>31,
            <1>32, <1>33, <1>34 DEF Next, Accept, Client, Close, Manager

LEMMA NextPresent ==
  ASSUME TInv, PInv, [Next]_vars
  PROVE  PInv'
  <1> USE DEF TInv, PInv
  <1>1. ASSUME NEW c \in Conn, StoreNew(c)
        PROVE  PInv'
    BY <1>1 DEF StoreNew, TypeOK, PlacesOK, MapOK, SubscribersOK, PresentOK
  <1>2. ASSUME NEW c \in Conn, LoadExisting(c)
        PROVE  PInv'
    BY <1>2 DEF LoadExisting, Released, TypeOK, PlacesOK, SubscribersOK, PresentOK
  <1>3. ASSUME NEW c \in Conn, CountNew(c)
        PROVE  PInv'
    BY <1>3 DEF CountNew, TypeOK, PlacesOK, SubscribersOK, PresentOK
  <1>4. ASSUME NEW c \in Conn, Acquire(c)
        PROVE  PInv'
    BY <1>4 DEF Acquire, Free, TypeOK, PlacesOK, SubscribersOK, PresentOK
  <1>5. ASSUME NEW c \in Conn, Pin(c)
        PROVE  PInv'
    BY <1>5 DEF Pin, TypeOK, PlacesOK, SubscribersOK, PresentOK
  <1>6. ASSUME NEW c \in Conn, Current(c)
        PROVE  PInv'
    BY <1>6 DEF Current, TypeOK, PlacesOK, SubscribersOK, PresentOK
  <1>7. ASSUME NEW c \in Conn, StopCurrent(c)
        PROVE  PInv'
    BY <1>7 DEF StopCurrent, Stopped, Dead, WaitsFor, TypeOK, PlacesOK, SubscribersOK,
         PresentOK
  <1>8. ASSUME NEW c \in Conn, CurrentClosed(c)
        PROVE  PInv'
    BY <1>8 DEF CurrentClosed, TypeOK, PlacesOK, SubscribersOK, PresentOK
  <1>9. ASSUME NEW c \in Conn, CheckRemoved(c)
        PROVE  PInv'
    BY <1>9 DEF CheckRemoved, TypeOK, PlacesOK, SubscribersOK, PresentOK
  <1>10. ASSUME NEW c \in Conn, Swap(c)
        PROVE  PInv'
    BY <1>10 DEF Swap, LockOf, TypeOK, PlacesOK, SubscribersOK, PresentOK
  <1>11. ASSUME NEW c \in Conn, Unpin(c)
        PROVE  PInv'
    BY <1>11 DEF Unpin, TypeOK, PlacesOK, SubscribersOK, PresentOK
  <1>12. ASSUME NEW c \in Conn, StoreAgain(c)
        PROVE  PInv'
    BY <1>12 DEF StoreAgain, TypeOK, PlacesOK, MapOK, SubscribersOK, PresentOK
  <1>13. ASSUME NEW c \in Conn, Subscriber(c)
        PROVE  PInv'
    <2>1. SubscribersOK'
      BY <1>13 DEF Subscriber, Resumes, AfterOffline, TypeOK, PlacesOK, SubscribersOK
    <2>2. PresentOK'
      BY <1>13 DEF Subscriber, TypeOK, PresentOK
    <2>3. QED BY <2>1, <2>2
  <1>14. ASSUME NEW c \in Conn, Persist(c)
        PROVE  PInv'
    BY <1>14 DEF Persist, Kept, TypeOK, PlacesOK, SubscribersOK, PresentOK
  <1>15. ASSUME NEW c \in Conn, Acknowledge(c)
        PROVE  PInv'
    BY <1>15 DEF Acknowledge, TypeOK, PlacesOK, SubscribersOK, PresentOK
  <1>16. ASSUME NEW c \in Conn, AcknowledgeFails(c)
        PROVE  PInv'
    BY <1>16 DEF AcknowledgeFails, TypeOK, PlacesOK, SubscribersOK, PresentOK
  <1>17. ASSUME NEW c \in Conn, Refuse(c)
        PROVE  PInv'
    BY <1>17 DEF Refuse, TypeOK, PlacesOK, SubscribersOK, PresentOK
  <1>18. ASSUME NEW c \in Conn, Start(c)
        PROVE  PInv'
    BY <1>18 DEF Start, TypeOK, PlacesOK, SubscribersOK, PresentOK
  <1>19. ASSUME NEW c \in Conn, NEW i \in ClientId, NEW cl \in Cleans, Connect(c, i, cl)
        PROVE  PInv'
    BY <1>19 DEF Connect, TypeOK, PlacesOK, SubscribersOK, PresentOK
  <1>20. ASSUME NEW c \in Conn, Subscribe(c)
        PROVE  PInv'
    BY <1>20 DEF Subscribe, TypeOK, PlacesOK, SubscribersOK, PresentOK
  <1>21. ASSUME NEW c \in Conn, UnSubscribe(c)
        PROVE  PInv'
    BY <1>21 DEF UnSubscribe, TypeOK, PlacesOK, SubscribersOK, PresentOK
  <1>22. ASSUME NEW c \in Conn, Drop(c)
        PROVE  PInv'
    BY <1>22 DEF Drop, TypeOK, PlacesOK, SubscribersOK, PresentOK
  <1>23. ASSUME NEW c \in Conn, FallsSilent(c)
        PROVE  PInv'
    BY <1>23 DEF FallsSilent, TypeOK, PlacesOK, SubscribersOK, PresentOK
  <1>24. ASSUME NEW c \in Conn, Offline(c)
        PROVE  PInv'
    BY <1>24 DEF Offline, AfterOffline, TypeOK, PlacesOK, SubscribersOK, PresentOK
  <1>25. ASSUME NEW c \in Conn, ConnectionClose(c)
        PROVE  PInv'
    BY <1>25 DEF ConnectionClose, AfterOffline, Keeps, TypeOK, PlacesOK, MapOK,
         SubscribersOK, PresentOK
  <1>26. ASSUME NEW c \in Conn, SessionOffline(c)
        PROVE  PInv'
    BY <1>26 DEF SessionOffline, Removes, Remaining, TypeOK, PlacesOK, MapOK,
         SubscribersOK, PresentOK
  <1>27. CASE Stop
    BY <1>27 DEF Stop, TypeOK, PlacesOK, SubscribersOK, PresentOK
  <1>28. ASSUME NEW i \in ClientId, Visit(i)
        PROVE  PInv'
    BY <1>28 DEF Visit, TypeOK, PlacesOK, SubscribersOK, PresentOK
  <1>29. CASE VisitIdle
    BY <1>29 DEF VisitIdle, Remaining, TypeOK, PlacesOK, SubscribersOK, PresentOK
  <1>30. CASE VisitRunning
    BY <1>30 DEF VisitRunning, Stopped, Dead, WaitsFor, TypeOK, PlacesOK, SubscribersOK,
         PresentOK
  <1>31. CASE StoppingClosed
    BY <1>31 DEF StoppingClosed, TypeOK, PlacesOK, SubscribersOK, PresentOK
  <1>32. CASE CountZero
    BY <1>32 DEF CountZero, TypeOK, PlacesOK, SubscribersOK, PresentOK
  <1>33. CASE Shutdown
    BY <1>33 DEF Shutdown, TypeOK, PlacesOK, SubscribersOK, PresentOK
  <1>34. CASE UNCHANGED vars
    BY <1>34 DEF TypeOK, PlacesOK, SubscribersOK, PresentOK
  <1>35. QED BY <1>1, <1>2, <1>3, <1>4, <1>5, <1>6, <1>7, <1>8, <1>9, <1>10, <1>11,
            <1>12, <1>13, <1>14, <1>15, <1>16, <1>17, <1>18, <1>19, <1>20, <1>21,
            <1>22, <1>23, <1>24, <1>25, <1>26, <1>27, <1>28, <1>29, <1>30, <1>31,
            <1>32, <1>33, <1>34 DEF Next, Accept, Client, Close, Manager

LEMMA InitTypes == Init => TInv /\ PInv
  <1> SUFFICES ASSUME Init PROVE TInv /\ PInv
    OBVIOUS
  <1> USE DEF Init
  <1>1. TypeOK
    <2>1. /\ pc \in [Conn -> Steps] /\ phase \in [Conn -> Phases]
          /\ id \in [Conn -> ClientId \cup {Nil}]
      OBVIOUS
    <2>2. sessionsCount \in Int /\ sessionsCount >= 0
      OBVIOUS
    <2>3. fatal \in BOOLEAN /\ swept \in BOOLEAN
      OBVIOUS
    <2>4. QED BY <2>1, <2>2, <2>3 DEF TypeOK
  <1>2. PlacesOK /\ MapOK /\ StopOK /\ SubscribersOK /\ PresentOK
    BY DEF PlacesOK, MapOK, StopOK, SubscribersOK, PresentOK
  <1>3. QED BY <1>1, <1>2 DEF TInv, PInv

LEMMA TypesInvariant == Spec => [](TInv /\ PInv)
  <1>1. TInv /\ PInv /\ [Next]_vars => (TInv /\ PInv)'
    BY NextTypes, NextPresent
  <1>2. QED BY <1>1, InitTypes, PTL DEF Spec

\* Every variable keeps its type, whatever the clients do; in particular
\* sessionsCount is never negative in a server that has not crashed
\* (sync.WaitGroup panics, sessions.go:181, 757).
THEOREM TypeCorrect == Spec => []TypeOK
  <1>1. TInv => TypeOK
    BY DEF TInv
  <1>2. QED BY <1>1, TypesInvariant, PTL

\* CONNACK never reports a session to a clean start, and always does when
\* subscriptions are resumed: with no exception, also after a lock has been lost
\* (sessions.go:602-646).
THEOREM PresentCorrect == Spec => []PresentOK
  <1>1. PInv => PresentOK
    BY DEF PInv
  <1>2. QED BY <1>1, TypesInvariant, PTL

-----------------------------------------------------------------------------
(* The wait group.                                                          *)

Mapped == {i \in ClientId : sessions[i] # Nil}
Adding == {c \in Conn : pc[c] = "count"}

LEMMA Finite ==
  ASSUME TInv
  PROVE  /\ IsFiniteSet(Mapped) /\ IsFiniteSet(Adding) /\ IsFiniteSet(returned)
         /\ Cardinality(Mapped) \in Nat /\ Cardinality(Adding) \in Nat
         /\ Cardinality(returned) \in Nat
  <1>1. Mapped \subseteq ClientId /\ Adding \subseteq Conn /\ returned \subseteq ClientId
    BY DEF Mapped, Adding, TInv, TypeOK
  <1>2. IsFiniteSet(Mapped) /\ IsFiniteSet(Adding) /\ IsFiniteSet(returned)
    BY <1>1, FiniteAssumption, FS_Subset
  <1>3. QED BY <1>2, FS_CardinalityType

\* A container comes into the map with a connection that has still to count it.
LEMMA StoredCounts ==
  ASSUME TInv, CountOK, NEW c \in Conn, StoreNew(c) \/ StoreAgain(c)
  PROVE  CountOK'
  <1> USE DEF TInv, StoreNew, StoreAgain
  <1>1. CASE sessions' = sessions
    <2>1. Adding' = Adding /\ Mapped' = Mapped /\ UNCHANGED <<sessionsCount, returned, mgr>>
      BY <1>1 DEF TypeOK, PlacesOK, Adding, Mapped
    <2>2. QED BY <2>1 DEF CountOK, Adding, Mapped
  <1>2. CASE sessions' # sessions
    <2>1. /\ id[c] \in ClientId \ Mapped /\ c \notin Adding
          /\ Adding' = Adding \cup {c} /\ Mapped' = Mapped \cup {id[c]}
          /\ UNCHANGED <<sessionsCount, returned, mgr>>
      BY <1>2 DEF TypeOK, PlacesOK, Adding, Mapped
    <2>2. /\ Cardinality(Adding') = Cardinality(Adding) + 1
          /\ Cardinality(Mapped') = Cardinality(Mapped) + 1
      BY <2>1, Finite, FS_AddElement
    <2>3. sessionsCount \in Int
      BY DEF TypeOK
    <2>4. QED BY <2>1, <2>2, <2>3, Finite DEF CountOK, Adding, Mapped
  <1>3. QED BY <1>1, <1>2

LEMMA CountNewCounts ==
  ASSUME TInv, CountOK, NEW c \in Conn, CountNew(c)
  PROVE  CountOK'
  <1> USE DEF TInv, CountNew
  <1>1. /\ c \in Adding /\ Adding' = Adding \ {c} /\ Mapped' = Mapped
        /\ sessionsCount' = sessionsCount + 1 /\ UNCHANGED <<returned, mgr>>
    BY DEF TypeOK, Adding, Mapped
  <1>2. Cardinality(Adding') = Cardinality(Adding) - 1
    BY <1>1, Finite, FS_RemoveElement
  <1>3. sessionsCount \in Int
    BY DEF TypeOK
  <1>4. QED BY <1>1, <1>2, <1>3, Finite DEF CountOK, Adding, Mapped

LEMMA SessionOfflineCounts ==
  ASSUME TInv, CountOK, NEW c \in Conn, SessionOffline(c)
  PROVE  CountOK'
  <1> USE DEF TInv, SessionOffline, Remaining
  <1> DEFINE k    == sessions[id[c]]
             gone == k # Nil /\ Removes(c, k)
  <1>1. Adding' = Adding /\ UNCHANGED <<returned, mgr>>
    BY DEF Adding
  <1>2. CASE gone
    <2>1. /\ id[c] \in Mapped /\ Mapped' = Mapped \ {id[c]}
          /\ sessionsCount' = sessionsCount - 1
      BY <1>2 DEF TypeOK, PlacesOK, Mapped
    <2>2. Cardinality(Mapped') = Cardinality(Mapped) - 1
      BY <2>1, Finite, FS_RemoveElement
    <2>3. sessionsCount \in Int
      BY DEF TypeOK
    <2>4. QED BY <1>1, <2>1, <2>2, <2>3, Finite DEF CountOK, Adding, Mapped
  <1>3. CASE ~gone
    <2>1. Mapped' = Mapped /\ UNCHANGED sessionsCount
      BY <1>3 DEF TypeOK, PlacesOK, Mapped
    <2>2. QED BY <1>1, <2>1 DEF CountOK, Adding, Mapped
  <1>4. QED BY <1>2, <1>3

\* Stop gives the count of an id back once.
LEMMA VisitIdleCounts ==
  ASSUME TInv, CountOK, VisitIdle
  PROVE  CountOK'
  <1> USE DEF TInv, VisitIdle, Remaining
  <1>1. /\ id[visited] \notin returned /\ returned' = returned \cup {id[visited]}
        /\ Adding' = Adding /\ Mapped' = Mapped
        /\ sessionsCount' = sessionsCount - 1 /\ mgr # "down"
    BY DEF StopOK, Adding, Mapped
  <1>2. Cardinality(returned') = Cardinality(returned) + 1
    BY <1>1, Finite, FS_AddElement
  <1>3. sessionsCount \in Int
    BY DEF TypeOK
  <1>4. QED BY <1>1, <1>2, <1>3, Finite DEF CountOK, Adding, Mapped

\* Every other step leaves the map, the wait group and who has still to count
\* alone, or empties the map.
LEMMA OthersCount ==
  ASSUME TInv, CountOK, [Next]_vars, ~VisitIdle,
         \A c \in Conn : ~StoreNew(c) /\ ~StoreAgain(c) /\ ~CountNew(c) /\ ~SessionOffline(c)
  PROVE  CountOK'
  <1>1. CASE Shutdown
    BY <1>1 DEF Shutdown, CountOK
  <1>2. CASE ~Shutdown
    <2>1. /\ UNCHANGED <<sessions, sessionsCount, returned>>
          /\ \A c \in Conn : pc'[c] = "count" <=> pc[c] = "count"
          /\ mgr' # "down" => mgr # "down"
      <3>1. ASSUME NEW c \in Conn, Accept(c) \/ Client(c) \/ Close(c)
            PROVE  /\ UNCHANGED <<sessions, sessionsCount, returned, mgr>>
                   /\ \A d \in Conn : pc'[d] = "count" <=> pc[d] = "count"
        BY <3>1 DEF Accept, Client, Close, LoadExisting, Acquire, Pin, Current,
           StopCurrent, CurrentClosed, CheckRemoved, Swap, Unpin, Subscriber, Persist,
           Acknowledge, AcknowledgeFails, Refuse, Start, Connect, Subscribe,
           UnSubscribe, Drop, FallsSilent, Offline, ConnectionClose, TInv, TypeOK
      <3>2. CASE Stop \/ Manager \/ UNCHANGED vars
        BY <1>2, <3>2 DEF Stop, Manager, Visit, VisitRunning, StoppingClosed, CountZero
      <3>3. QED BY <3>1, <3>2 DEF Next
    <2>2. Adding' = Adding /\ Mapped' = Mapped
      BY <2>1 DEF Adding, Mapped
    <2>3. QED BY <2>1, <2>2 DEF CountOK, Adding, Mapped
  <1>3. QED BY <1>1, <1>2

LEMMA InitCount == Init => CountOK
  <1> SUFFICES ASSUME Init PROVE CountOK
    OBVIOUS
  <1>1. Mapped = {} /\ Adding = {} /\ returned = {} /\ sessionsCount = 0
    BY DEF Init, Mapped, Adding
  <1>2. QED BY <1>1, FS_EmptySet DEF CountOK, Mapped, Adding

\* sessionsCount is the number of containers in the map, give or take those just
\* being added and those whose count Stop has given back: in every state, also
\* after a lock has been lost (sessions.go:181, 197, 591, 757).
THEOREM CountCorrect == Spec => []CountOK
  <1>1. TInv /\ CountOK /\ [Next]_vars => CountOK'
    BY StoredCounts, CountNewCounts, SessionOfflineCounts, VisitIdleCounts, OthersCount
  <1>2. QED BY <1>1, InitCount, TypesInvariant, PTL DEF Spec

-----------------------------------------------------------------------------
(* Until a lock is lost.                                                    *)

\* The client has come and gone before ses.start was called.
Gone(c) == pc[c] = "start" /\ phase[c] = "closed"

PhaseOK ==
  \A c \in Conn :
    /\ pc[c] \notin {"restore", "refuse", "refused"}
    /\ pc[c] \in Before => phase[c] = "new"
    /\ pc[c] = "failed" => phase[c] = "closed"
    /\ pc[c] \in {"start", "done"} =>
         phase[c] # "new" /\ (phase[c] = "closed" => stopReq[c])
    /\ phase[c] \in {"new", "open"} => ~stopReq[c]

TableOK ==
  \A i \in ClientId : sessions[i] # Nil =>
    box[sessions[i]] = sessions[i] /\ ~removed[sessions[i]]

BoxOK ==
  \A c \in Conn :
    /\ pc[c] \in {"idle", "load"} => ~removed[c]
    /\ pc[c] = "load" => locked[c] /\ idLock[c] = c /\ ses[c] = c
    /\ pc[c] = "count" => box[c] = c
    /\ pc[c] \in Busy /\ ~Gone(c) => sessions[id[c]] = box[c]
    /\ pc[c] \in Lockers => locked[box[c]]
    /\ pc[c] \in Holding => idLock[c] = box[c] /\ (~Gone(c) => ses[box[c]] = c)
    /\ pc[c] \in Pinning => ~removable[box[c]]
    /\ pc[c] \in {"check", "swap"} => ses[box[c]] = Nil
    /\ pc[c] = "failed" /\ mgr # "down" => sessions[id[c]] = box[c]

LockOK ==
  /\ \A k \in Conn : locked[k] =>
       \/ pc[k] = "load"
       \/ \E c \in Conn : pc[c] \in Lockers /\ box[c] = k
  /\ \A c, d \in Conn :
       c # d /\ pc[c] \in Lockers /\ pc[d] \in Lockers => box[c] # box[d]

TakeoverOK ==
  \A c \in Conn : pc[c] \in {"stop", "wait"} =>
    LET v == current[c]
    IN /\ id[v] = id[c] /\ pc[v] = "done"
       /\ pc[c] = "wait" => phase[v] # "open"
       /\ ses[box[c]] = IF Live(v) THEN v ELSE Nil

AskedOK ==
  \A v \in Conn : Live(v) /\ stopReq[v] =>
    \/ mgr # "running"
    \/ \E c \in Conn : pc[c] = "wait" /\ current[c] = v

SessionOK ==
  \A i \in ClientId : sessions[i] # Nil /\ ses[sessions[i]] # Nil =>
    LET s == ses[sessions[i]]
    IN id[s] = i /\ (Live(s) \/ (pc[s] \in Holding /\ ~Gone(s)))

VisitOK ==
  mgr = "visiting" /\ ses[visited] # Nil => sessions[id[visited]] = visited

IInv ==
  /\ PhaseOK /\ TableOK /\ BoxOK /\ LockOK /\ TakeoverOK /\ AskedOK /\ SessionOK
  /\ VisitOK /\ OneConnection /\ CurrentSession

LEMMA CurrentTakeover ==
  ASSUME TInv, IInv, NEW c \in Conn, Current(c)
  PROVE  TakeoverOK'
  <1> USE DEF TInv, IInv, Current
  <1> DEFINE v == ses[box[c]]
  <1>1. ASSUME v # Nil
        PROVE  v \in Conn /\ Live(v) /\ id[v] = id[c] /\ pc[v] = "done"
    <2>1. /\ id[c] \in ClientId /\ box[c] \in Conn /\ sessions[id[c]] = box[c]
          /\ phase[c] = "new"
      BY DEF PlacesOK, PhaseOK, BoxOK, Gone
    <2>2. v \in Conn /\ id[v] = id[c] /\ (Live(v) \/ (pc[v] \in Holding /\ ~Gone(v)))
      BY <1>1, <2>1 DEF TypeOK, SessionOK
    <2>3. ASSUME pc[v] \in Lockers, ~Gone(v) PROVE v = c
      <3>1. box[v] = box[c]
        BY <2>1, <2>2, <2>3 DEF BoxOK, StopOK
      <3>2. QED BY <2>2, <2>3, <3>1 DEF LockOK
    <2>4. v # c
      BY <2>1, <2>2
    <2>5. pc[v] \notin Lockers \/ Gone(v)
      BY <2>3, <2>4
    <2>6. Live(v)
      BY <2>2, <2>5
    <2>7. QED BY <2>2, <2>5, <2>6 DEF PlacesOK, Gone
  <1>2. /\ pc'[c] = (IF v = Nil THEN "check" ELSE "stop") /\ current'[c] = v
        /\ \A d \in Conn \ {c} : pc'[d] = pc[d] /\ current'[d] = current[d]
        /\ UNCHANGED <<id, phase, box, ses>>
    BY DEF TypeOK
  <1>3. \A d \in Conn : pc[d] = "done" => pc'[d] = "done"
    BY <1>2
  <1>4. QED BY <1>1, <1>2, <1>3 DEF TakeoverOK

\* Whoever else is busy with the container that sessionOffline comes to keeps it
\* in the map, and has not given it a session yet.
LEMMA OfflineContainer ==
  ASSUME TInv, IInv, NEW c \in Conn, SessionOffline(c), ~swept', mgr # "down",
         NEW d \in Conn, pc[d] \in Busy \cup {"failed"}, box[d] = sessions[id[c]]
  PROVE  \/ d = c
         \/ /\ sessions' = sessions
            /\ d # c /\ pc[d] \in {"acquire", "pin", "current", "stop", "wait", "check", "swap"}
         \/ Gone(d)
  <1> USE DEF TInv, IInv, SessionOffline, Removes, Gone
  <1> DEFINE k == sessions[id[c]]
  <1>1. k \in Conn /\ ses[k] = c /\ id[c] \in ClientId
    BY DEF TypeOK, PlacesOK, CurrentSession
  <1>2. pc[d] \in Holding => d = c \/ Gone(d)
    BY <1>1 DEF BoxOK
  <1>3. pc[d] \in {"acquire", "pin"} => sessions' = sessions
    BY <1>1 DEF Found, TypeOK
  <1>4. pc[d] \in Pinning => sessions' = sessions
    BY <1>1 DEF BoxOK, TypeOK
  <1>5. QED BY <1>2, <1>3, <1>4 DEF PhaseOK

LEMMA StoreNewStep ==
  ASSUME TInv, StopOK', IInv, ~swept', NEW c \in Conn, StoreNew(c)
  PROVE  IInv'
  <1> USE DEF TInv, StopOK, IInv, Gone, StoreNew
  <1>1. PhaseOK' /\ TableOK'
    BY DEF TypeOK, PlacesOK, MapOK, PhaseOK, TableOK, BoxOK
  <1>2. BoxOK'
    BY DEF TypeOK, PlacesOK, MapOK, PhaseOK, TableOK, BoxOK
  <1>3. LockOK'
    BY DEF TypeOK, PlacesOK, BoxOK, LockOK
  <1>4. TakeoverOK'
    BY DEF TypeOK, PlacesOK, PhaseOK, BoxOK, TakeoverOK
  <1>5. AskedOK' /\ VisitOK'
    BY DEF TypeOK, PlacesOK, MapOK, PhaseOK, AskedOK, VisitOK
  <1>6. SessionOK'
    BY DEF TypeOK, PlacesOK, PhaseOK, TableOK, BoxOK, SessionOK
  <1>7. OneConnection' /\ CurrentSession'
    BY DEF TypeOK, PlacesOK, MapOK, BoxOK, OneConnection, CurrentSession
  <1>8. QED BY <1>1, <1>2, <1>3, <1>4, <1>5, <1>6, <1>7

LEMMA LoadExistingStep ==
  ASSUME TInv, StopOK', IInv, ~swept', NEW c \in Conn, LoadExisting(c)
  PROVE  IInv'
  <1> USE DEF TInv, StopOK, IInv, Gone, LoadExisting, Released
  <1>1. PhaseOK' /\ TableOK'
    BY DEF TypeOK, PlacesOK, MapOK, PhaseOK, TableOK, BoxOK
  <1>2. BoxOK'
    BY DEF TypeOK, PlacesOK, MapOK, PhaseOK, TableOK, BoxOK
  <1>3. LockOK'
    BY DEF TypeOK, PlacesOK, BoxOK, LockOK
  <1>4. TakeoverOK'
    BY DEF TypeOK, PlacesOK, PhaseOK, BoxOK, TakeoverOK
  <1>5. AskedOK' /\ VisitOK'
    BY DEF TypeOK, PlacesOK, MapOK, PhaseOK, AskedOK, VisitOK
  <1>6. SessionOK'
    BY DEF TypeOK, PlacesOK, PhaseOK, TableOK, BoxOK, SessionOK
  <1>7. OneConnection' /\ CurrentSession'
    BY DEF TypeOK, PlacesOK, MapOK, BoxOK, OneConnection, CurrentSession
  <1>8. QED BY <1>1, <1>2, <1>3, <1>4, <1>5, <1>6, <1>7

LEMMA CountNewStep ==
  ASSUME TInv, StopOK', IInv, ~swept', NEW c \in Conn, CountNew(c)
  PROVE  IInv'
  <1> USE DEF TInv, StopOK, IInv, Gone, CountNew
  <1>1. PhaseOK' /\ TableOK'
    BY DEF TypeOK, PlacesOK, MapOK, PhaseOK, TableOK, BoxOK
  <1>2. BoxOK'
    BY DEF TypeOK, PlacesOK, MapOK, PhaseOK, TableOK, BoxOK
  <1>3. LockOK'
    BY DEF TypeOK, PlacesOK, BoxOK, LockOK
  <1>4. TakeoverOK'
    BY DEF TypeOK, PlacesOK, PhaseOK, BoxOK, TakeoverOK
  <1>5. AskedOK' /\ VisitOK'
    BY DEF TypeOK, PlacesOK, MapOK, PhaseOK, AskedOK, VisitOK
  <1>6. SessionOK'
    BY DEF TypeOK, PlacesOK, PhaseOK, TableOK, BoxOK, SessionOK
  <1>7. OneConnection' /\ CurrentSession'
    BY DEF TypeOK, PlacesOK, MapOK, BoxOK, OneConnection, CurrentSession
  <1>8. QED BY <1>1, <1>2, <1>3, <1>4, <1>5, <1>6, <1>7

LEMMA AcquireStep ==
  ASSUME TInv, StopOK', IInv, ~swept', NEW c \in Conn, Acquire(c)
  PROVE  IInv'
  <1> USE DEF TInv, StopOK, IInv, Gone, Acquire, Free
  <1>1. PhaseOK' /\ TableOK'
    BY DEF TypeOK, PlacesOK, MapOK, PhaseOK, TableOK, BoxOK
  <1>2. BoxOK'
    BY DEF TypeOK, PlacesOK, MapOK, PhaseOK, TableOK, BoxOK
  <1>3. LockOK'
    BY DEF TypeOK, PlacesOK, BoxOK, LockOK
  <1>4. TakeoverOK'
    BY DEF TypeOK, PlacesOK, PhaseOK, BoxOK, TakeoverOK
  <1>5. AskedOK' /\ VisitOK'
    BY DEF TypeOK, PlacesOK, MapOK, PhaseOK, AskedOK, VisitOK
  <1>6. SessionOK'
    BY DEF TypeOK, PlacesOK, PhaseOK, TableOK, BoxOK, SessionOK
  <1>7. OneConnection' /\ CurrentSession'
    BY DEF TypeOK, PlacesOK, MapOK, BoxOK, OneConnection, CurrentSession
  <1>8. QED BY <1>1, <1>2, <1>3, <1>4, <1>5, <1>6, <1>7

LEMMA PinStep ==
  ASSUME TInv, StopOK', IInv, ~swept', NEW c \in Conn, Pin(c)
  PROVE  IInv'
  <1> USE DEF TInv, StopOK, IInv, Gone, Pin
  <1>1. PhaseOK' /\ TableOK'
    BY DEF TypeOK, PlacesOK, MapOK, PhaseOK, TableOK, BoxOK
  <1>2. BoxOK'
    BY DEF TypeOK, PlacesOK, MapOK, PhaseOK, TableOK, BoxOK
  <1>3. LockOK'
    BY DEF TypeOK, PlacesOK, BoxOK, LockOK
  <1>4. TakeoverOK'
    BY DEF TypeOK, PlacesOK, PhaseOK, BoxOK, TakeoverOK
  <1>5. AskedOK' /\ VisitOK'
    BY DEF TypeOK, PlacesOK, MapOK, PhaseOK, AskedOK, VisitOK
  <1>6. SessionOK'
    BY DEF TypeOK, PlacesOK, PhaseOK, TableOK, BoxOK, SessionOK
  <1>7. OneConnection' /\ CurrentSession'
    BY DEF TypeOK, PlacesOK, MapOK, BoxOK, OneConnection, CurrentSession
  <1>8. QED BY <1>1, <1>2, <1>3, <1>4, <1>5, <1>6, <1>7

LEMMA CurrentStep ==
  ASSUME TInv, StopOK', IInv, ~swept', NEW c \in Conn, Current(c)
  PROVE  IInv'
  <1> USE DEF TInv, StopOK, IInv, Gone, Current
  <1>1. PhaseOK' /\ TableOK'
    BY DEF TypeOK, PlacesOK, MapOK, PhaseOK, TableOK, BoxOK
  <1>2. BoxOK'
    BY DEF TypeOK, PlacesOK, MapOK, PhaseOK, TableOK, BoxOK
  <1>3. LockOK'
    BY DEF TypeOK, PlacesOK, BoxOK, LockOK
  <1>4. TakeoverOK'
    BY CurrentTakeover
  <1>5. AskedOK' /\ VisitOK'
    BY DEF TypeOK, PlacesOK, MapOK, PhaseOK, AskedOK, VisitOK
  <1>6. SessionOK'
    BY DEF TypeOK, PlacesOK, PhaseOK, TableOK, BoxOK, SessionOK
  <1>7. OneConnection' /\ CurrentSession'
    BY DEF TypeOK, PlacesOK, MapOK, BoxOK, OneConnection, CurrentSession
  <1>8. QED BY <1>1, <1>2, <1>3, <1>4, <1>5, <1>6, <1>7

LEMMA StopCurrentStep ==
  ASSUME TInv, StopOK', IInv, ~swept', NEW c \in Conn, StopCurrent(c)
  PROVE  IInv'
  <1> USE DEF TInv, StopOK, IInv, Gone, StopCurrent, Stopped, Dead, WaitsFor
  <1>1. PhaseOK' /\ TableOK'
    BY DEF TypeOK, PlacesOK, TableOK, PhaseOK, TakeoverOK
  <1>2. BoxOK'
    BY DEF TypeOK, PlacesOK, PhaseOK, BoxOK, LockOK, TakeoverOK, AskedOK
  <1>3. LockOK'
    BY DEF TypeOK, PlacesOK, BoxOK, LockOK
  <1>4. TakeoverOK'
    BY DEF TypeOK, PlacesOK, PhaseOK, BoxOK, TakeoverOK
  <1>5. AskedOK' /\ VisitOK'
    BY DEF TypeOK, PlacesOK, MapOK, PhaseOK, AskedOK, VisitOK
  <1>6. SessionOK'
    BY DEF TypeOK, PlacesOK, PhaseOK, TableOK, BoxOK, SessionOK
  <1>7. OneConnection' /\ CurrentSession'
    BY DEF TypeOK, PlacesOK, MapOK, BoxOK, OneConnection, CurrentSession
  <1>8. QED BY <1>1, <1>2, <1>3, <1>4, <1>5, <1>6, <1>7

LEMMA CurrentClosedStep ==
  ASSUME TInv, StopOK', IInv, ~swept', NEW c \in Conn, CurrentClosed(c)
  PROVE  IInv'
  <1> USE DEF TInv, StopOK, IInv, Gone, CurrentClosed
  <1>1. PhaseOK' /\ TableOK'
    BY DEF TypeOK, PlacesOK, MapOK, PhaseOK, TableOK, BoxOK
  <1>2. BoxOK'
    BY DEF TypeOK, PlacesOK, PhaseOK, BoxOK, TakeoverOK
  <1>3. LockOK'
    BY DEF TypeOK, PlacesOK, BoxOK, LockOK
  <1>4. TakeoverOK'
    BY DEF TypeOK, PlacesOK, PhaseOK, BoxOK, TakeoverOK
  <1>5. AskedOK' /\ VisitOK'
    BY DEF TypeOK, PlacesOK, MapOK, PhaseOK, AskedOK, VisitOK
  <1>6. SessionOK'
    BY DEF TypeOK, PlacesOK, PhaseOK, TableOK, BoxOK, SessionOK
  <1>7. OneConnection' /\ CurrentSession'
    BY DEF TypeOK, PlacesOK, MapOK, BoxOK, OneConnection, CurrentSession
  <1>8. QED BY <1>1, <1>2, <1>3, <1>4, <1>5, <1>6, <1>7

LEMMA CheckRemovedStep ==
  ASSUME TInv, StopOK', IInv, ~swept', NEW c \in Conn, CheckRemoved(c)
  PROVE  IInv'
  <1> USE DEF TInv, StopOK, IInv, Gone, CheckRemoved
  <1>1. PhaseOK' /\ TableOK'
    BY DEF TypeOK, PlacesOK, MapOK, PhaseOK, TableOK, BoxOK
  <1>2. BoxOK'
    BY DEF TypeOK, PlacesOK, MapOK, PhaseOK, TableOK, BoxOK
  <1>3. LockOK'
    BY DEF TypeOK, PlacesOK, BoxOK, LockOK
  <1>4. TakeoverOK'
    BY DEF TypeOK, PlacesOK, PhaseOK, BoxOK, TakeoverOK
  <1>5. AskedOK' /\ VisitOK'
    BY DEF TypeOK, PlacesOK, MapOK, PhaseOK, AskedOK, VisitOK
  <1>6. SessionOK'
    BY DEF TypeOK, PlacesOK, PhaseOK, TableOK, BoxOK, SessionOK
  <1>7. OneConnection' /\ CurrentSession'
    BY DEF TypeOK, PlacesOK, MapOK, BoxOK, OneConnection, CurrentSession
  <1>8. QED BY <1>1, <1>2, <1>3, <1>4, <1>5, <1>6, <1>7

LEMMA SwapStep ==
  ASSUME TInv, StopOK', IInv, ~swept', NEW c \in Conn, Swap(c)
  PROVE  IInv'
  <1> USE DEF TInv, StopOK, IInv, Gone, Swap, LockOf
  <1>1. PhaseOK' /\ TableOK'
    BY DEF TypeOK, PlacesOK, MapOK, PhaseOK, TableOK, BoxOK
  <1>2. BoxOK'
    BY DEF TypeOK, PlacesOK, PhaseOK, BoxOK, LockOK
  <1>3. LockOK'
    BY DEF TypeOK, PlacesOK, BoxOK, LockOK
  <1>4. TakeoverOK'
    BY DEF TypeOK, PlacesOK, PhaseOK, BoxOK, LockOK, TakeoverOK
  <1>5. AskedOK' /\ VisitOK'
    BY DEF TypeOK, PlacesOK, MapOK, PhaseOK, AskedOK, VisitOK
  <1>6. SessionOK'
    BY DEF TypeOK, PlacesOK, MapOK, PhaseOK, BoxOK, SessionOK
  <1>7. OneConnection' /\ CurrentSession'
    BY DEF TypeOK, PlacesOK, MapOK, BoxOK, OneConnection, CurrentSession
  <1>8. QED BY <1>1, <1>2, <1>3, <1>4, <1>5, <1>6, <1>7

LEMMA UnpinStep ==
  ASSUME TInv, StopOK', IInv, ~swept', NEW c \in Conn, Unpin(c)
  PROVE  IInv'
  <1> USE DEF TInv, StopOK, IInv, Gone, Unpin
  <1>1. PhaseOK' /\ TableOK'
    BY DEF TypeOK, PlacesOK, MapOK, PhaseOK, TableOK, BoxOK
  <1>2. BoxOK'
    BY DEF TypeOK, PlacesOK, BoxOK, LockOK
  <1>3. LockOK'
    BY DEF TypeOK, PlacesOK, BoxOK, LockOK
  <1>4. TakeoverOK'
    BY DEF TypeOK, PlacesOK, PhaseOK, BoxOK, TakeoverOK
  <1>5. AskedOK' /\ VisitOK'
    BY DEF TypeOK, PlacesOK, MapOK, PhaseOK, AskedOK, VisitOK
  <1>6. SessionOK'
    BY DEF TypeOK, PlacesOK, PhaseOK, TableOK, BoxOK, SessionOK
  <1>7. OneConnection' /\ CurrentSession'
    BY DEF TypeOK, PlacesOK, MapOK, BoxOK, OneConnection, CurrentSession
  <1>8. QED BY <1>1, <1>2, <1>3, <1>4, <1>5, <1>6, <1>7

LEMMA SubscriberStep ==
  ASSUME TInv, StopOK', IInv, ~swept', NEW c \in Conn, Subscriber(c)
  PROVE  IInv'
  <1> USE DEF TInv, StopOK, IInv, Gone, Subscriber, Resumes, AfterOffline
  <1>1. PhaseOK' /\ TableOK'
    BY DEF TypeOK, PlacesOK, MapOK, PhaseOK, TableOK, BoxOK
  <1>2. BoxOK'
    BY DEF TypeOK, PlacesOK, MapOK, PhaseOK, TableOK, BoxOK
  <1>3. LockOK'
    BY DEF TypeOK, PlacesOK, BoxOK, LockOK
  <1>4. TakeoverOK'
    BY DEF TypeOK, PlacesOK, PhaseOK, BoxOK, TakeoverOK
  <1>5. AskedOK' /\ VisitOK'
    BY DEF TypeOK, PlacesOK, MapOK, PhaseOK, AskedOK, VisitOK
  <1>6. SessionOK'
    BY DEF TypeOK, PlacesOK, PhaseOK, TableOK, BoxOK, SessionOK
  <1>7. OneConnection' /\ CurrentSession'
    BY DEF TypeOK, PlacesOK, MapOK, BoxOK, OneConnection, CurrentSession
  <1>8. QED BY <1>1, <1>2, <1>3, <1>4, <1>5, <1>6, <1>7

LEMMA PersistStep ==
  ASSUME TInv, StopOK', IInv, ~swept', NEW c \in Conn, Persist(c)
  PROVE  IInv'
  <1> USE DEF TInv, StopOK, IInv, Gone, Persist, Kept
  <1>1. PhaseOK' /\ TableOK'
    BY DEF TypeOK, PlacesOK, MapOK, PhaseOK, TableOK, BoxOK
  <1>2. BoxOK'
    BY DEF TypeOK, PlacesOK, MapOK, PhaseOK, TableOK, BoxOK
  <1>3. LockOK'
    BY DEF TypeOK, PlacesOK, BoxOK, LockOK
  <1>4. TakeoverOK'
    BY DEF TypeOK, PlacesOK, PhaseOK, BoxOK, TakeoverOK
  <1>5. AskedOK' /\ VisitOK'
    BY DEF TypeOK, PlacesOK, MapOK, PhaseOK, AskedOK, VisitOK
  <1>6. SessionOK'
    BY DEF TypeOK, PlacesOK, PhaseOK, TableOK, BoxOK, SessionOK
  <1>7. OneConnection' /\ CurrentSession'
    BY DEF TypeOK, PlacesOK, MapOK, BoxOK, OneConnection, CurrentSession
  <1>8. QED BY <1>1, <1>2, <1>3, <1>4, <1>5, <1>6, <1>7

LEMMA AcknowledgeStep ==
  ASSUME TInv, StopOK', IInv, ~swept', NEW c \in Conn, Acknowledge(c)
  PROVE  IInv'
  <1> USE DEF TInv, StopOK, IInv, Gone, Acknowledge
  <1>1. PhaseOK' /\ TableOK'
    BY DEF TypeOK, PlacesOK, MapOK, PhaseOK, TableOK, BoxOK
  <1>2. BoxOK'
    BY DEF TypeOK, PlacesOK, MapOK, PhaseOK, TableOK, BoxOK
  <1>3. LockOK'
    BY DEF TypeOK, PlacesOK, BoxOK, LockOK
  <1>4. TakeoverOK'
    BY DEF TypeOK, PlacesOK, PhaseOK, BoxOK, TakeoverOK
  <1>5. AskedOK' /\ VisitOK'
    BY DEF TypeOK, PlacesOK, MapOK, PhaseOK, AskedOK, VisitOK
  <1>6. SessionOK'
    BY DEF TypeOK, PlacesOK, PhaseOK, TableOK, BoxOK, SessionOK
  <1>7. OneConnection' /\ CurrentSession'
    BY DEF TypeOK, PlacesOK, MapOK, BoxOK, PhaseOK, OneConnection, CurrentSession
  <1>8. QED BY <1>1, <1>2, <1>3, <1>4, <1>5, <1>6, <1>7

LEMMA AcknowledgeFailsStep ==
  ASSUME TInv, StopOK', IInv, ~swept', NEW c \in Conn, AcknowledgeFails(c)
  PROVE  IInv'
  <1> USE DEF TInv, StopOK, IInv, Gone, AcknowledgeFails
  <1>1. PhaseOK' /\ TableOK'
    BY DEF TypeOK, PlacesOK, MapOK, PhaseOK, TableOK, BoxOK
  <1>2. BoxOK'
    BY DEF TypeOK, PlacesOK, MapOK, PhaseOK, TableOK, BoxOK
  <1>3. LockOK'
    BY DEF TypeOK, PlacesOK, BoxOK, LockOK
  <1>4. TakeoverOK'
    BY DEF TypeOK, PlacesOK, PhaseOK, BoxOK, TakeoverOK
  <1>5. AskedOK' /\ VisitOK'
    BY DEF TypeOK, PlacesOK, MapOK, PhaseOK, AskedOK, VisitOK
  <1>6. SessionOK'
    BY DEF TypeOK, PlacesOK, PhaseOK, TableOK, BoxOK, SessionOK
  <1>7. OneConnection' /\ CurrentSession'
    BY DEF TypeOK, PlacesOK, MapOK, BoxOK, OneConnection, CurrentSession
  <1>8. QED BY <1>1, <1>2, <1>3, <1>4, <1>5, <1>6, <1>7

LEMMA StartStep ==
  ASSUME TInv, StopOK', IInv, ~swept', NEW c \in Conn, Start(c)
  PROVE  IInv'
  <1> USE DEF TInv, StopOK, IInv, Gone, Start
  <1>1. PhaseOK' /\ TableOK'
    BY DEF TypeOK, PlacesOK, MapOK, PhaseOK, TableOK, BoxOK
  <1>2. BoxOK'
    BY DEF TypeOK, PlacesOK, BoxOK, LockOK
  <1>3. LockOK'
    BY DEF TypeOK, PlacesOK, BoxOK, LockOK
  <1>4. TakeoverOK'
    BY DEF TypeOK, PlacesOK, PhaseOK, BoxOK, TakeoverOK
  <1>5. AskedOK' /\ VisitOK'
    BY DEF TypeOK, PlacesOK, MapOK, PhaseOK, AskedOK, VisitOK
  <1>6. SessionOK'
    BY DEF TypeOK, PlacesOK, PhaseOK, TableOK, BoxOK, SessionOK
  <1>7. OneConnection' /\ CurrentSession'
    BY DEF TypeOK, PlacesOK, MapOK, BoxOK, OneConnection, CurrentSession
  <1>8. QED BY <1>1, <1>2, <1>3, <1>4, <1>5, <1>6, <1>7

LEMMA ConnectStep ==
  ASSUME TInv, StopOK', IInv, ~swept', NEW c \in Conn, NEW i \in ClientId, NEW cl \in Cleans, Connect(c, i, cl)
  PROVE  IInv'
  <1> USE DEF TInv, StopOK, IInv, Gone, Connect
  <1>1. PhaseOK' /\ TableOK'
    BY DEF TypeOK, PlacesOK, MapOK, PhaseOK, TableOK, BoxOK
  <1>2. BoxOK'
    BY DEF TypeOK, PlacesOK, MapOK, PhaseOK, TableOK, BoxOK
  <1>3. LockOK'
    BY DEF TypeOK, PlacesOK, BoxOK, LockOK
  <1>4. TakeoverOK'
    BY DEF TypeOK, PlacesOK, PhaseOK, BoxOK, TakeoverOK
  <1>5. AskedOK' /\ VisitOK'
    BY DEF TypeOK, PlacesOK, MapOK, PhaseOK, AskedOK, VisitOK
  <1>6. SessionOK'
    BY DEF TypeOK, PlacesOK, MapOK, PhaseOK, SessionOK
  <1>7. OneConnection' /\ CurrentSession'
    BY DEF TypeOK, PlacesOK, MapOK, BoxOK, OneConnection, CurrentSession
  <1>8. QED BY <1>1, <1>2, <1>3, <1>4, <1>5, <1>6, <1>7

LEMMA SubscribeStep ==
  ASSUME TInv, StopOK', IInv, ~swept', NEW c \in Conn, Subscribe(c)
  PROVE  IInv'
  <1> USE DEF TInv, StopOK, IInv, Gone, Subscribe
  <1>1. PhaseOK' /\ TableOK'
    BY DEF TypeOK, PlacesOK, MapOK, PhaseOK, TableOK, BoxOK
  <1>2. BoxOK'
    BY DEF TypeOK, PlacesOK, MapOK, PhaseOK, TableOK, BoxOK
  <1>3. LockOK'
    BY DEF TypeOK, PlacesOK, BoxOK, LockOK
  <1>4. TakeoverOK'
    BY DEF TypeOK, PlacesOK, PhaseOK, BoxOK, TakeoverOK
  <1>5. AskedOK' /\ VisitOK'
    BY DEF TypeOK, PlacesOK, MapOK, PhaseOK, AskedOK, VisitOK
  <1>6. SessionOK'
    BY DEF TypeOK, PlacesOK, PhaseOK, TableOK, BoxOK, SessionOK
  <1>7. OneConnection' /\ CurrentSession'
    BY DEF TypeOK, PlacesOK, MapOK, BoxOK, OneConnection, CurrentSession
  <1>8. QED BY <1>1, <1>2, <1>3, <1>4, <1>5, <1>6, <1>7

LEMMA UnSubscribeStep ==
  ASSUME TInv, StopOK', IInv, ~swept', NEW c \in Conn, UnSubscribe(c)
  PROVE  IInv'
  <1> USE DEF TInv, StopOK, IInv, Gone, UnSubscribe
  <1>1. PhaseOK' /\ TableOK'
    BY DEF TypeOK, PlacesOK, MapOK, PhaseOK, TableOK, BoxOK
  <1>2. BoxOK'
    BY DEF TypeOK, PlacesOK, MapOK, PhaseOK, TableOK, BoxOK
  <1>3. LockOK'
    BY DEF TypeOK, PlacesOK, BoxOK, LockOK
  <1>4. TakeoverOK'
    BY DEF TypeOK, PlacesOK, PhaseOK, BoxOK, TakeoverOK
  <1>5. AskedOK' /\ VisitOK'
    BY DEF TypeOK, PlacesOK, MapOK, PhaseOK, AskedOK, VisitOK
  <1>6. SessionOK'
    BY DEF TypeOK, PlacesOK, PhaseOK, TableOK, BoxOK, SessionOK
  <1>7. OneConnection' /\ CurrentSession'
    BY DEF TypeOK, PlacesOK, MapOK, BoxOK, OneConnection, CurrentSession
  <1>8. QED BY <1>1, <1>2, <1>3, <1>4, <1>5, <1>6, <1>7

LEMMA DropStep ==
  ASSUME TInv, StopOK', IInv, ~swept', NEW c \in Conn, Drop(c)
  PROVE  IInv'
  <1> USE DEF TInv, StopOK, IInv, Gone, Drop
  <1>1. PhaseOK' /\ TableOK'
    BY DEF TypeOK, PlacesOK, MapOK, PhaseOK, TableOK, BoxOK
  <1>2. BoxOK'
    BY DEF TypeOK, PlacesOK, MapOK, PhaseOK, TableOK, BoxOK
  <1>3. LockOK'
    BY DEF TypeOK, PlacesOK, BoxOK, LockOK
  <1>4. TakeoverOK'
    BY DEF TypeOK, PlacesOK, PhaseOK, BoxOK, TakeoverOK
  <1>5. AskedOK' /\ VisitOK'
    BY DEF TypeOK, PlacesOK, MapOK, PhaseOK, AskedOK, VisitOK
  <1>6. SessionOK'
    BY DEF TypeOK, PlacesOK, PhaseOK, TableOK, BoxOK, SessionOK
  <1>7. OneConnection' /\ CurrentSession'
    BY DEF TypeOK, PlacesOK, MapOK, BoxOK, OneConnection, CurrentSession
  <1>8. QED BY <1>1, <1>2, <1>3, <1>4, <1>5, <1>6, <1>7

LEMMA FallsSilentStep ==
  ASSUME TInv, StopOK', IInv, ~swept', NEW c \in Conn, FallsSilent(c)
  PROVE  IInv'
  <1> USE DEF TInv, StopOK, IInv, Gone, FallsSilent
  <1>1. PhaseOK' /\ TableOK'
    BY DEF TypeOK, PlacesOK, MapOK, PhaseOK, TableOK, BoxOK
  <1>2. BoxOK'
    BY DEF TypeOK, PlacesOK, MapOK, PhaseOK, TableOK, BoxOK
  <1>3. LockOK'
    BY DEF TypeOK, PlacesOK, BoxOK, LockOK
  <1>4. TakeoverOK'
    BY DEF TypeOK, PlacesOK, PhaseOK, BoxOK, TakeoverOK
  <1>5. AskedOK' /\ VisitOK'
    BY DEF TypeOK, PlacesOK, MapOK, PhaseOK, AskedOK, VisitOK
  <1>6. SessionOK'
    BY DEF TypeOK, PlacesOK, PhaseOK, TableOK, BoxOK, SessionOK
  <1>7. OneConnection' /\ CurrentSession'
    BY DEF TypeOK, PlacesOK, MapOK, BoxOK, OneConnection, CurrentSession
  <1>8. QED BY <1>1, <1>2, <1>3, <1>4, <1>5, <1>6, <1>7

LEMMA OfflineStep ==
  ASSUME TInv, StopOK', IInv, ~swept', NEW c \in Conn, Offline(c)
  PROVE  IInv'
  <1> USE DEF TInv, StopOK, IInv, Gone, Offline, AfterOffline
  <1>1. PhaseOK' /\ TableOK'
    BY DEF TypeOK, PlacesOK, MapOK, PhaseOK, TableOK, BoxOK
  <1>2. BoxOK'
    BY DEF TypeOK, PlacesOK, MapOK, PhaseOK, TableOK, BoxOK
  <1>3. LockOK'
    BY DEF TypeOK, PlacesOK, BoxOK, LockOK
  <1>4. TakeoverOK'
    BY DEF TypeOK, PlacesOK, PhaseOK, BoxOK, TakeoverOK
  <1>5. AskedOK' /\ VisitOK'
    BY DEF TypeOK, PlacesOK, MapOK, PhaseOK, AskedOK, VisitOK
  <1>6. SessionOK'
    BY DEF TypeOK, PlacesOK, PhaseOK, TableOK, BoxOK, SessionOK
  <1>7. OneConnection' /\ CurrentSession'
    BY DEF TypeOK, PlacesOK, MapOK, BoxOK, OneConnection, CurrentSession
  <1>8. QED BY <1>1, <1>2, <1>3, <1>4, <1>5, <1>6, <1>7

LEMMA ConnectionCloseStep ==
  ASSUME TInv, StopOK', IInv, ~swept', NEW c \in Conn, ConnectionClose(c)
  PROVE  IInv'
  <1> USE DEF TInv, StopOK, IInv, Gone, ConnectionClose, AfterOffline, Keeps
  <1>1. PhaseOK' /\ TableOK'
    BY DEF TypeOK, PlacesOK, MapOK, PhaseOK, TableOK, BoxOK
  <1>2. BoxOK'
    BY DEF TypeOK, PlacesOK, MapOK, PhaseOK, TableOK, BoxOK
  <1>3. LockOK'
    BY DEF TypeOK, PlacesOK, BoxOK, LockOK
  <1>4. TakeoverOK'
    BY DEF TypeOK, PlacesOK, PhaseOK, BoxOK, TakeoverOK
  <1>5. AskedOK' /\ VisitOK'
    BY DEF TypeOK, PlacesOK, MapOK, PhaseOK, AskedOK, VisitOK
  <1>6. SessionOK'
    BY DEF TypeOK, PlacesOK, PhaseOK, TableOK, BoxOK, SessionOK
  <1>7. OneConnection' /\ CurrentSession'
    BY DEF TypeOK, PlacesOK, MapOK, BoxOK, OneConnection, CurrentSession
  <1>8. QED BY <1>1, <1>2, <1>3, <1>4, <1>5, <1>6, <1>7

LEMMA SessionOfflineStep ==
  ASSUME TInv, StopOK', IInv, ~swept', NEW c \in Conn, SessionOffline(c)
  PROVE  IInv'
  <1> USE DEF TInv, StopOK, IInv, Gone, SessionOffline, Removes, Remaining
  <1> DEFINE k == sessions[id[c]]
             gone == k # Nil /\ ~keep[c] /\ removable[k]
  <1>a. /\ \A j \in Conn : ses'[j] = IF j = k THEN Nil ELSE ses[j]
        /\ \A j \in Conn : removed'[j] = (removed[j] \/ (gone /\ j = k))
        /\ \A d \in Conn : /\ phase'[d] = IF d = c THEN "closed" ELSE phase[d]
                           /\ stopReq'[d] = IF d = c THEN TRUE ELSE stopReq[d]
        /\ UNCHANGED <<pc, id, box, current, idLock, locked, removable, mgr, visited>>
    BY DEF TypeOK
  <1>b. \A i \in ClientId : /\ sessions[i] \in Conn \cup {Nil}
                            /\ sessions'[i] = IF i = id[c] /\ gone THEN Nil ELSE sessions[i]
    BY DEF TypeOK
  <1>c. /\ phase[c] = "ending" /\ id[c] \in ClientId /\ pc[c] \in {"start", "done"}
        /\ mgr # "down" => k \in Conn /\ ses[k] = c
    BY DEF TypeOK, PlacesOK, CurrentSession
  <1>d. \A d \in Conn : pc[d] \in Busy \cup {"failed"} /\ box[d] = k /\ mgr # "down" =>
          \/ d = c
          \/ /\ sessions' = sessions
             /\ pc[d] \in {"acquire", "pin", "current", "stop", "wait", "check", "swap"}
          \/ Gone(d)
    BY OfflineContainer
  <1>e. mgr = "down" => k = Nil /\ sessions' = sessions
    BY <1>c DEF TypeOK
  <1>1. PhaseOK'
    BY DEF TypeOK, PlacesOK, PhaseOK, TakeoverOK
  <1>2. TableOK'
    BY DEF TypeOK, PlacesOK, MapOK, TableOK, BoxOK
  <1>4. LockOK'
    BY DEF TypeOK, PlacesOK, BoxOK, LockOK
  <1>6. AskedOK'
    BY DEF TypeOK, PlacesOK, PhaseOK, AskedOK
  <1>8. VisitOK'
    BY DEF TypeOK, PlacesOK, MapOK, VisitOK
  <1>9. OneConnection'
    BY DEF TypeOK, PlacesOK, OneConnection
  <1>10. CurrentSession'
    BY DEF TypeOK, PlacesOK, MapOK, BoxOK, CurrentSession
  <1> HIDE DEF SessionOffline, k, gone
  <1>3. BoxOK'
    <2>1. ASSUME NEW d \in Conn, pc[d] \in Busy \cup {"failed"}, ~Gone(d)', mgr # "down"
          PROVE  /\ ~Gone(d)
                 /\ sessions[id[d]] = box[d] => sessions'[id[d]] = box[d]
                 /\ pc[d] \in Holding => box[d] # k
      <3>1. d # c /\ ~Gone(d) /\ id[d] \in ClientId
        BY <1>a, <1>c, <2>1 DEF PlacesOK
      <3>2. box[d] = k => pc[d] \notin Holding /\ sessions' = sessions
        BY <1>d, <2>1, <3>1
      <3>3. sessions[id[d]] = box[d] => sessions'[id[d]] = box[d]
        BY <1>b, <3>1, <3>2 DEF k
      <3>4. QED BY <3>1, <3>2, <3>3
    <2>2. \A d \in Conn : pc[d] \in {"idle", "load"} => d # k
      BY <1>b, <1>c DEF MapOK, k
    <2>3. \A d \in Conn : pc[d] = "load" => ses'[d] = d
      BY <1>a, <2>2 DEF BoxOK
    <2>4. \A d \in Conn : pc[d] \in {"idle", "load"} => ~removed'[d]
      BY <1>a, <2>2 DEF BoxOK
    <2>5. ASSUME NEW d \in Conn, pc[d] \in Busy \cup {"failed"}
          PROVE  /\ pc[d] \in Busy /\ ~Gone(d)' => sessions'[id[d]] = box[d]
                 /\ pc[d] \in Holding /\ ~Gone(d)' => ses'[box[d]] = d
                 /\ pc[d] \in {"check", "swap"} => ses'[box[d]] = Nil
                 /\ pc[d] = "failed" /\ mgr # "down" => sessions'[id[d]] = box[d]
      <3>1. box[d] \in Conn
        BY <2>5 DEF PlacesOK
      <3>2. CASE mgr = "down"
        <4>1. pc[d] = "failed" /\ ses'[box[d]] = ses[box[d]]
          BY <1>a, <1>e, <2>5, <3>1, <3>2
        <4>2. QED BY <2>5, <3>2, <4>1 DEF BoxOK
      <3>3. CASE mgr # "down"
        BY <1>a, <2>1, <2>5, <3>1, <3>3 DEF BoxOK
      <3>4. QED BY <3>2, <3>3
    <2> QED BY <1>a, <2>3, <2>4, <2>5 DEF BoxOK
  <1>5. TakeoverOK'
    <2>1. ASSUME NEW d \in Conn, pc[d] \in {"stop", "wait"}
          PROVE  ses'[box[d]] = IF Live(current[d])' THEN current[d] ELSE Nil
      <3>1. /\ current[d] \in Conn /\ id[current[d]] = id[d] /\ id[d] \in ClientId
            /\ sessions[id[d]] = box[d] /\ box[d] \in Conn /\ mgr = "running"
            /\ ses[box[d]] = IF Live(current[d]) THEN current[d] ELSE Nil
        BY <2>1 DEF PlacesOK, BoxOK, TakeoverOK
      <3>2. CASE current[d] = c
        BY <1>a, <3>1, <3>2 DEF k
      <3>3. CASE current[d] # c
        BY <1>a, <1>c, <3>1, <3>3
      <3>4. QED BY <3>2, <3>3
    <2>2. \A d \in Conn : phase'[d] = "open" => phase[d] = "open"
      BY <1>a
    <2>3. QED BY <1>a, <2>1, <2>2 DEF TakeoverOK, PlacesOK
  <1>7. SessionOK'
    <2> SUFFICES ASSUME NEW i \in ClientId, sessions'[i] # Nil, ses'[sessions'[i]] # Nil
                 PROVE  /\ id'[ses'[sessions'[i]]] = i
                        /\ \/ Live(ses[sessions[i]])'
                           \/ pc'[ses'[sessions'[i]]] \in Holding /\ ~Gone(ses[sessions[i]])'
      BY DEF SessionOK
    <2>1. sessions'[i] = sessions[i] /\ sessions[i] \in Conn /\ sessions[i] # k
      BY <1>a, <1>b
    <2>2. PICK s \in Conn : s = ses[sessions[i]] /\ s = ses'[sessions'[i]]
      BY <1>a, <2>1 DEF TypeOK
    <2>3. id[s] = i /\ (Live(s) \/ (pc[s] \in Holding /\ ~Gone(s)))
      BY <2>1, <2>2, SessionsAssumption DEF SessionOK
    <2>4. s # c
      BY <2>1, <2>3 DEF k
    <2>5. phase'[s] = phase[s] /\ pc'[s] = pc[s] /\ id'[s] = id[s]
      BY <1>a, <2>4
    <2>6. QED BY <2>2, <2>3, <2>5
  <1>11. QED BY <1>1, <1>2, <1>3, <1>4, <1>5, <1>6, <1>7, <1>8, <1>9, <1>10

LEMMA StopStep ==
  ASSUME TInv, StopOK', IInv, ~swept', Stop
  PROVE  IInv'
  <1> USE DEF TInv, StopOK, IInv, Gone, Stop
  <1>1. PhaseOK' /\ TableOK'
    BY DEF TypeOK, PlacesOK, MapOK, PhaseOK, TableOK, BoxOK
  <1>2. BoxOK'
    BY DEF TypeOK, PlacesOK, MapOK, PhaseOK, TableOK, BoxOK
  <1>3. LockOK'
    BY DEF TypeOK, PlacesOK, BoxOK, LockOK
  <1>4. TakeoverOK'
    BY DEF TypeOK, PlacesOK, PhaseOK, BoxOK, TakeoverOK
  <1>5. AskedOK' /\ VisitOK'
    BY DEF TypeOK, PlacesOK, MapOK, PhaseOK, AskedOK, VisitOK
  <1>6. SessionOK'
    BY DEF TypeOK, PlacesOK, PhaseOK, TableOK, BoxOK, SessionOK
  <1>7. OneConnection' /\ CurrentSession'
    BY DEF TypeOK, PlacesOK, MapOK, BoxOK, OneConnection, CurrentSession
  <1>8. QED BY <1>1, <1>2, <1>3, <1>4, <1>5, <1>6, <1>7

LEMMA VisitStep ==
  ASSUME TInv, StopOK', IInv, ~swept', NEW i \in ClientId, Visit(i)
  PROVE  IInv'
  <1> USE DEF TInv, StopOK, IInv, Gone, Visit
  <1>1. PhaseOK' /\ TableOK'
    BY DEF TypeOK, PlacesOK, MapOK, PhaseOK, TableOK, BoxOK
  <1>2. BoxOK'
    BY DEF TypeOK, PlacesOK, MapOK, PhaseOK, TableOK, BoxOK
  <1>3. LockOK'
    BY DEF TypeOK, PlacesOK, BoxOK, LockOK
  <1>4. TakeoverOK'
    BY DEF TypeOK, PlacesOK, PhaseOK, BoxOK, TakeoverOK
  <1>5. AskedOK' /\ VisitOK'
    BY DEF TypeOK, PlacesOK, MapOK, PhaseOK, AskedOK, VisitOK
  <1>6. SessionOK'
    BY DEF TypeOK, PlacesOK, PhaseOK, TableOK, BoxOK, SessionOK
  <1>7. OneConnection' /\ CurrentSession'
    BY DEF TypeOK, PlacesOK, MapOK, BoxOK, OneConnection, CurrentSession
  <1>8. QED BY <1>1, <1>2, <1>3, <1>4, <1>5, <1>6, <1>7

LEMMA VisitIdleStep ==
  ASSUME TInv, StopOK', IInv, ~swept', VisitIdle
  PROVE  IInv'
  <1> USE DEF TInv, StopOK, IInv, Gone, VisitIdle, Remaining
  <1>1. PhaseOK' /\ TableOK'
    BY DEF TypeOK, PlacesOK, MapOK, PhaseOK, TableOK, BoxOK
  <1>2. BoxOK'
    BY DEF TypeOK, PlacesOK, MapOK, PhaseOK, TableOK, BoxOK
  <1>3. LockOK'
    BY DEF TypeOK, PlacesOK, BoxOK, LockOK
  <1>4. TakeoverOK'
    BY DEF TypeOK, PlacesOK, PhaseOK, BoxOK, TakeoverOK
  <1>5. AskedOK' /\ VisitOK'
    BY DEF TypeOK, PlacesOK, MapOK, PhaseOK, AskedOK, VisitOK
  <1>6. SessionOK'
    BY DEF TypeOK, PlacesOK, PhaseOK, TableOK, BoxOK, SessionOK
  <1>7. OneConnection' /\ CurrentSession'
    BY DEF TypeOK, PlacesOK, MapOK, BoxOK, OneConnection, CurrentSession
  <1>8. QED BY <1>1, <1>2, <1>3, <1>4, <1>5, <1>6, <1>7

LEMMA VisitRunningStep ==
  ASSUME TInv, StopOK', IInv, ~swept', VisitRunning
  PROVE  IInv'
  <1> USE DEF TInv, StopOK, IInv, Gone, VisitRunning, Stopped, Dead, WaitsFor
  <1>1. PhaseOK' /\ TableOK'
    BY DEF TypeOK, PlacesOK, PhaseOK, TableOK, MapOK, SessionOK, VisitOK
  <1>2. BoxOK'
    BY DEF TypeOK, PlacesOK, MapOK, PhaseOK, TableOK, BoxOK
  <1>3. LockOK'
    BY DEF TypeOK, PlacesOK, BoxOK, LockOK
  <1>4. TakeoverOK'
    BY DEF TypeOK, PlacesOK, PhaseOK, BoxOK, TakeoverOK
  <1>5. AskedOK' /\ VisitOK'
    BY DEF TypeOK, PlacesOK, MapOK, PhaseOK, AskedOK, VisitOK
  <1>6. SessionOK'
    BY DEF TypeOK, PlacesOK, PhaseOK, TableOK, BoxOK, SessionOK
  <1>7. OneConnection' /\ CurrentSession'
    BY DEF TypeOK, PlacesOK, MapOK, BoxOK, OneConnection, CurrentSession
  <1>8. QED BY <1>1, <1>2, <1>3, <1>4, <1>5, <1>6, <1>7

LEMMA StoppingClosedStep ==
  ASSUME TInv, StopOK', IInv, ~swept', StoppingClosed
  PROVE  IInv'
  <1> USE DEF TInv, StopOK, IInv, Gone, StoppingClosed
  <1>1. PhaseOK' /\ TableOK'
    BY DEF TypeOK, PlacesOK, MapOK, PhaseOK, TableOK, BoxOK
  <1>2. BoxOK'
    BY DEF TypeOK, PlacesOK, MapOK, PhaseOK, TableOK, BoxOK
  <1>3. LockOK'
    BY DEF TypeOK, PlacesOK, BoxOK, LockOK
  <1>4. TakeoverOK'
    BY DEF TypeOK, PlacesOK, PhaseOK, BoxOK, TakeoverOK
  <1>5. AskedOK' /\ VisitOK'
    BY DEF TypeOK, PlacesOK, MapOK, PhaseOK, AskedOK, VisitOK
  <1>6. SessionOK'
    BY DEF TypeOK, PlacesOK, PhaseOK, TableOK, BoxOK, SessionOK
  <1>7. OneConnection' /\ CurrentSession'
    BY DEF TypeOK, PlacesOK, MapOK, BoxOK, OneConnection, CurrentSession
  <1>8. QED BY <1>1, <1>2, <1>3, <1>4, <1>5, <1>6, <1>7

LEMMA CountZeroStep ==
  ASSUME TInv, StopOK', IInv, ~swept', CountZero
  PROVE  IInv'
  <1> USE DEF TInv, StopOK, IInv, Gone, CountZero
  <1>1. PhaseOK' /\ TableOK'
    BY DEF TypeOK, PlacesOK, MapOK, PhaseOK, TableOK, BoxOK
  <1>2. BoxOK'
    BY DEF TypeOK, PlacesOK, MapOK, PhaseOK, TableOK, BoxOK
  <1>3. LockOK'
    BY DEF TypeOK, PlacesOK, BoxOK, LockOK
  <1>4. TakeoverOK'
    BY DEF TypeOK, PlacesOK, PhaseOK, BoxOK, TakeoverOK
  <1>5. AskedOK' /\ VisitOK'
    BY DEF TypeOK, PlacesOK, MapOK, PhaseOK, AskedOK, VisitOK
  <1>6. SessionOK'
    BY DEF TypeOK, PlacesOK, PhaseOK, TableOK, BoxOK, SessionOK
  <1>7. OneConnection' /\ CurrentSession'
    BY DEF TypeOK, PlacesOK, MapOK, BoxOK, OneConnection, CurrentSession
  <1>8. QED BY <1>1, <1>2, <1>3, <1>4, <1>5, <1>6, <1>7

LEMMA ShutdownStep ==
  ASSUME TInv, StopOK', IInv, ~swept', Shutdown
  PROVE  IInv'
  <1> USE DEF TInv, StopOK, IInv, Gone, Shutdown
  <1>1. PhaseOK' /\ TableOK'
    BY DEF TypeOK, PlacesOK, MapOK, PhaseOK, TableOK, BoxOK
  <1>2. BoxOK'
    BY DEF TypeOK, PlacesOK, MapOK, PhaseOK, TableOK, BoxOK
  <1>3. LockOK'
    BY DEF TypeOK, PlacesOK, BoxOK, LockOK
  <1>4. TakeoverOK'
    BY DEF TypeOK, PlacesOK, PhaseOK, BoxOK, TakeoverOK
  <1>5. AskedOK' /\ VisitOK'
    BY DEF TypeOK, PlacesOK, MapOK, PhaseOK, AskedOK, VisitOK
  <1>6. SessionOK'
    BY DEF TypeOK, PlacesOK, PhaseOK, TableOK, BoxOK, SessionOK
  <1>7. OneConnection' /\ CurrentSession'
    BY DEF TypeOK, PlacesOK, MapOK, BoxOK, OneConnection, CurrentSession
  <1>8. QED BY <1>1, <1>2, <1>3, <1>4, <1>5, <1>6, <1>7

LEMMA NeverTaken ==
  ASSUME IInv, NEW c \in Conn
  PROVE  ~StoreAgain(c) /\ ~Refuse(c)
  BY DEF IInv, PhaseOK, StoreAgain, Refuse

LEMMA QuietStep ==
  ASSUME IInv, UNCHANGED vars
  PROVE  IInv'
  <1> USE DEF IInv, Gone
  <1>1. PhaseOK' /\ TableOK' /\ BoxOK' /\ LockOK' /\ VisitOK'
    BY DEF PhaseOK, TableOK, BoxOK, LockOK, VisitOK
  <1>2. TakeoverOK' /\ AskedOK' /\ SessionOK' /\ OneConnection' /\ CurrentSession'
    BY DEF TakeoverOK, AskedOK, SessionOK, OneConnection, CurrentSession
  <1>3. QED BY <1>1, <1>2

LEMMA InitIInv == Init => IInv
  <1> SUFFICES ASSUME Init PROVE IInv
    OBVIOUS
  <1> USE DEF Init, Gone
  <1>1. PhaseOK /\ TableOK /\ BoxOK /\ LockOK /\ VisitOK
    BY DEF PhaseOK, TableOK, BoxOK, LockOK, VisitOK
  <1>2. TakeoverOK /\ AskedOK /\ SessionOK /\ OneConnection /\ CurrentSession
    BY DEF TakeoverOK, AskedOK, SessionOK, OneConnection, CurrentSession
  <1>3. QED BY <1>1, <1>2 DEF IInv

\* A lost lock is lost for good.
LEMMA Sweeping ==
  ASSUME swept, [Next]_vars
  PROVE  swept'
  <1>1. ASSUME NEW c \in Conn, Accept(c) PROVE swept'
    BY <1>1 DEF Accept, StoreNew, LoadExisting, CountNew, Acquire, Pin, Current,
         StopCurrent, CurrentClosed, CheckRemoved, Swap, Unpin, StoreAgain, Subscriber,
         Persist, Acknowledge, AcknowledgeFails, Refuse, Start
  <1>2. ASSUME NEW c \in Conn, Client(c) \/ Offline(c) \/ ConnectionClose(c) PROVE swept'
    BY <1>2 DEF Client, Connect, Subscribe, UnSubscribe, Drop, FallsSilent, Offline,
         ConnectionClose
  <1>3. ASSUME NEW c \in Conn, SessionOffline(c) PROVE swept'
    BY <1>3 DEF SessionOffline
  <1>4. CASE Stop \/ Manager \/ UNCHANGED vars
    BY <1>4 DEF Stop, Manager, Visit, VisitIdle, VisitRunning, StoppingClosed, CountZero,
         Shutdown, vars, tableVars
  <1>5. QED BY <1>1, <1>2, <1>3, <1>4 DEF Next, Close

LEMMA NextIInv ==
  ASSUME TInv, TInv', IInv, ~swept', [Next]_vars
  PROVE  IInv'
  <1>0. StopOK'
    BY DEF TInv
  <1>1. ASSUME NEW c \in Conn, Accept(c) PROVE IInv'
    BY <1>0, <1>1, StoreNewStep, LoadExistingStep, CountNewStep, AcquireStep, PinStep,
       CurrentStep, StopCurrentStep, CurrentClosedStep, CheckRemovedStep, SwapStep,
       UnpinStep, SubscriberStep, PersistStep, AcknowledgeStep, AcknowledgeFailsStep,
       StartStep, NeverTaken DEF Accept
  <1>2. ASSUME NEW c \in Conn, Client(c) PROVE IInv'
    BY <1>0, <1>2, ConnectStep, SubscribeStep, UnSubscribeStep, DropStep,
         FallsSilentStep
       DEF Client
  <1>3. ASSUME NEW c \in Conn, Close(c) PROVE IInv'
    BY <1>0, <1>3, OfflineStep, ConnectionCloseStep, SessionOfflineStep DEF Close
  <1>4. CASE Manager
    BY <1>0, <1>4, VisitStep, VisitIdleStep, VisitRunningStep, StoppingClosedStep,
       CountZeroStep, ShutdownStep DEF Manager
  <1>5. CASE Stop
    BY <1>0, <1>5, StopStep
  <1>6. CASE UNCHANGED vars
    BY <1>6, QuietStep
  <1>7. QED BY <1>1, <1>2, <1>3, <1>4, <1>5, <1>6 DEF Next

Guarded == swept \/ IInv

\* Every reachable state satisfies IInv until a lock has been lost.
LEMMA Invariant == Spec => []Guarded
  <1>1. Init => Guarded
    BY InitIInv DEF Guarded
  <1>2. TInv /\ TInv' /\ Guarded /\ [Next]_vars => Guarded'
    BY NextIInv, Sweeping DEF Guarded
  <1>3. QED BY <1>1, <1>2, TypesInvariant, PTL DEF Spec

\* However many connections with one client id come in, at most one is between
\* finding its container and ses.start, and whoever holds the lock of a container
\* is on its way there or has failed to send CONNACK, until a container is removed
\* between being found and being pinned (sessions.go:539, 577, container.go:34).
THEOREM IdLockCorrect == Spec => []IdLock
  <1>1. TInv /\ Guarded => IdLock
    <2> SUFFICES ASSUME TInv, IInv PROVE IdExclusive /\ LockedByLoader
      BY DEF Guarded, IdLock
    <2>1. IdExclusive
      BY DEF TInv, PlacesOK, IInv, BoxOK, LockOK, Gone, IdExclusive
    <2>2. LockedByLoader
      BY DEF IInv, BoxOK, LockOK, LockedByLoader
    <2>3. QED BY <2>1, <2>2
  <1>2. QED BY <1>1, TypesInvariant, Invariant, PTL

\* Until then a live connection's session is where takeover and Stop look for it:
\* no belated sessionOffline of its predecessor takes it away (sessions.go:733).
THEOREM SessionsCurrent == Spec => []SessionCurrent
  <1>1. Guarded => SessionCurrent
    BY DEF Guarded, IInv, SessionCurrent
  <1>2. QED BY <1>1, Invariant, PTL

-----------------------------------------------------------------------------
(* Ownership. Acknowledge gives the id to the connection, SessionOffline     *)
(* takes it back, every other step leaves the owners alone; once a lock has  *)
(* been lost anything may happen to them.                                    *)

owners == [i \in ClientId |-> Owners(i)]

LEMMA SameOwners ==
  ASSUME \A d \in Conn : (Live(d) <=> Live(d)') /\ (Live(d) => id'[d] = id[d])
  PROVE  owners' = owners
  <1>1. ASSUME NEW i \in ClientId PROVE Owners(i)' = Owners(i)
    BY DEF Owners
  <1>2. QED BY <1>1 DEF owners

\* No other connection of the id is live when Acknowledge makes one so.
LEMMA AcknowledgeTakes ==
  ASSUME TInv, IInv', ~swept', NEW c \in Conn, Acknowledge(c)
  PROVE  id[c] \in ClientId /\ O!Take(id[c], c)
  <1> USE DEF Acknowledge
  <1>1. /\ id[c] \in ClientId /\ UNCHANGED <<id, swept>> /\ ~swept
        /\ phase[c] = "new" /\ phase' = [phase EXCEPT ![c] = "open"]
    BY DEF TInv, PlacesOK
  <1>2. /\ ~Live(c) /\ Live(c)'
        /\ \A d \in Conn \ {c} : Live(d)' <=> Live(d)
    BY <1>1 DEF TInv, TypeOK
  <1>3. \A d \in Conn \ {c} : id[d] = id[c] => ~Live(d)
    BY <1>1, <1>2 DEF IInv, OneConnection
  <1>4. Owners(id[c]) = {} /\ Owners(id[c])' = {c}
    BY <1>1, <1>2, <1>3 DEF Owners
  <1>5. ASSUME NEW i \in ClientId, i # id[c] PROVE Owners(i)' = Owners(i)
    BY <1>1, <1>2, <1>5 DEF Owners
  <1>6. owners' = [owners EXCEPT ![id[c]] = {c}]
    BY <1>1, <1>4, <1>5 DEF owners
  <1>7. QED BY <1>1, <1>4, <1>6 DEF O!Take, owners

\* It may be the step that loses a lock.
LEMMA SessionOfflineReleases ==
  ASSUME TInv, TInv', IInv, ~swept, NEW c \in Conn, SessionOffline(c)
  PROVE  id[c] \in ClientId /\ O!Release(id[c], c)
  <1> USE DEF SessionOffline
  <1>1. id[c] \in ClientId /\ id' = id /\ phase' = [phase EXCEPT ![c] = "closed"]
    BY DEF TInv, PlacesOK
  <1>2. /\ Live(c) /\ ~Live(c)'
        /\ \A d \in Conn \ {c} : Live(d)' <=> Live(d)
    BY <1>1 DEF TInv, TypeOK
  <1>3. \A d \in Conn \ {c} : id[d] = id[c] => ~Live(d)
    BY <1>2 DEF IInv, OneConnection
  <1>4. Owners(id[c]) = {c} /\ Owners(id[c])' = {}
    BY <1>1, <1>2, <1>3 DEF Owners
  <1>5. ASSUME NEW i \in ClientId, i # id[c] PROVE Owners(i)' = Owners(i)
    BY <1>1, <1>2, <1>5 DEF Owners
  <1>6. owners' = [owners EXCEPT ![id[c]] = {}]
    BY <1>1, <1>4, <1>5 DEF owners
  <1>7. swept' \in BOOLEAN
    BY DEF TInv, TypeOK
  <1>8. QED BY <1>1, <1>4, <1>6, <1>7 DEF O!Release, owners

LEMMA OthersKeep ==
  ASSUME TInv, IInv, [Next]_vars, \A c \in Conn : ~Acknowledge(c) /\ ~SessionOffline(c)
  PROVE  owners' = owners /\ swept' = swept
  <1> USE DEF TInv
  <1>1. ASSUME NEW c \in Conn, Accept(c)
        PROVE  id' = id /\ (\A d \in Conn : Live(d) <=> Live(d)') /\ swept' = swept
    <2>1. CASE StopCurrent(c)
      <3>1. current[c] \in Conn /\ phase[current[c]] # "new" /\ UNCHANGED <<id, swept>>
        BY <2>1 DEF StopCurrent, IInv, PlacesOK, PhaseOK, TakeoverOK
      <3>2. QED BY <2>1, <3>1 DEF StopCurrent, Stopped, TypeOK
    <2>2. CASE AcknowledgeFails(c) \/ Refuse(c)
      BY <2>2 DEF AcknowledgeFails, Refuse, TypeOK, PlacesOK
    <2>3. CASE ~StopCurrent(c) /\ ~AcknowledgeFails(c) /\ ~Refuse(c)
      BY <1>1, <2>3 DEF Accept, StoreNew, LoadExisting, CountNew, Acquire, Pin, Current,
         CurrentClosed, CheckRemoved, Swap, Unpin, StoreAgain, Subscriber, Persist, Start
    <2>4. QED BY <2>1, <2>2, <2>3
  <1>2. ASSUME NEW c \in Conn, Client(c) \/ Close(c)
        PROVE  /\ \A d \in Conn : (Live(d) <=> Live(d)') /\ (Live(d) => id'[d] = id[d])
               /\ swept' = swept
    <2>1. CASE \E i \in ClientId, cl \in Cleans : Connect(c, i, cl)
      BY <2>1 DEF Connect, TypeOK, PlacesOK
    <2>2. CASE Subscribe(c) \/ UnSubscribe(c)
      BY <2>2 DEF Subscribe, UnSubscribe
    <2>3. CASE Drop(c) \/ FallsSilent(c) \/ Offline(c) \/ ConnectionClose(c)
      BY <2>3 DEF Drop, FallsSilent, Offline, ConnectionClose, TypeOK
    <2>4. QED BY <1>2, <2>1, <2>2, <2>3 DEF Client, Close
  <1>3. CASE VisitRunning
    <2>1. /\ ses[visited] \in Conn /\ visited \in Conn /\ id[visited] \in ClientId
          /\ mgr = "visiting" /\ UNCHANGED <<id, swept>>
      BY <1>3 DEF VisitRunning, TypeOK, StopOK
    <2>2. phase[ses[visited]] # "new"
      BY <2>1, SessionsAssumption DEF IInv, VisitOK, SessionOK, StopOK, PhaseOK
    <2>3. \A d \in Conn : Live(d) <=> Live(d)'
      BY <1>3, <2>1, <2>2 DEF VisitRunning, Stopped, TypeOK
    <2>4. QED BY <2>1, <2>3, SameOwners
  <1>4. CASE (Stop \/ Manager \/ UNCHANGED vars) /\ ~VisitRunning
    <2>1. UNCHANGED <<phase, id, swept>>
      BY <1>4 DEF Stop, Manager, Visit, VisitIdle, StoppingClosed, CountZero, Shutdown
    <2>2. QED BY <2>1, SameOwners
  <1>5. QED BY <1>1, <1>2, <1>3, <1>4, SameOwners DEF Next

\* The clients manager implements Ownership: CONNACK takes an id that is free, the
\* end of the close frees it, nothing else moves it, for any number of
\* connections, takeovers and closes, until a lock is lost (sessions.go:562-565,
\* types.go:62).
THEOREM SessionsImplementOwnership == Spec => OwnershipSpec
  <1>1. Init => O!Init
    BY DEF Init, O!Init, Owners
  <1>2. TInv /\ TInv' /\ Guarded /\ Guarded' /\ [Next]_vars => [O!Next]_<<owners, swept>>
    <2> SUFFICES ASSUME TInv, TInv', Guarded, Guarded', [Next]_vars
                 PROVE  O!Next \/ (owners' = owners /\ swept' = swept)
      OBVIOUS
    <2>1. CASE swept
      <3>1. owners' \in [ClientId -> SUBSET Conn]
        BY DEF owners, Owners
      <3>2. swept' = TRUE
        BY <2>1, Sweeping DEF TInv, TypeOK
      <3>3. QED BY <2>1, <3>1, <3>2 DEF O!Next, O!Unkept, owners
    <2>2. ASSUME ~swept, NEW c \in Conn, Acknowledge(c) PROVE O!Next
      <3>1. ~swept'
        BY <2>2 DEF Acknowledge
      <3>2. QED BY <2>2, <3>1, AcknowledgeTakes DEF Guarded, O!Next
    <2>3. ASSUME ~swept, NEW c \in Conn, SessionOffline(c) PROVE O!Next
      BY <2>3, SessionOfflineReleases DEF Guarded, O!Next
    <2>4. CASE ~swept /\ \A c \in Conn : ~Acknowledge(c) /\ ~SessionOffline(c)
      BY <2>4, OthersKeep DEF Guarded
    <2>5. QED BY <2>1, <2>2, <2>3, <2>4
  <1>3. QED BY <1>1, <1>2, TypesInvariant, Invariant, PTL
            DEF Spec, O!Spec, OwnershipSpec, owners

-----------------------------------------------------------------------------
(* What ends the process.                                                   *)

\* The connections that have still to count their containers leave out the id of
\* one that is live.
LEMMA AddingBelow ==
  ASSUME TInv, IInv, NEW c \in Conn, Live(c), mgr # "down"
  PROVE  Cardinality(Adding) < Cardinality(Mapped)
  <1> DEFINE Rest == Mapped \ {id[c]}
             f == [d \in Adding |-> id[d]]
  <1>1. id[c] \in Mapped
    BY DEF TInv, PlacesOK, IInv, CurrentSession, Mapped
  <1>2. \A d \in Adding : id[d] \in ClientId /\ sessions[id[d]] = d /\ ses[d] = d /\ d # c
    BY DEF TInv, PlacesOK, IInv, BoxOK, PhaseOK, Gone, Adding
  <1>3. \A d \in Adding : id[d] \in Rest
    BY <1>2 DEF IInv, CurrentSession, Mapped, Adding
  <1>4. f \in Injection(Adding, Rest)
    BY <1>2, <1>3 DEF Injection, IsInjective
  <1>5. IsFiniteSet(Rest) /\ Cardinality(Rest) = Cardinality(Mapped) - 1
    BY <1>1, Finite, FS_RemoveElement
  <1>6. Cardinality(Adding) <= Cardinality(Rest)
    BY <1>4, <1>5, Finite, FS_Injection DEF ExistsInjection
  <1>7. QED BY <1>5, <1>6, Finite

\* Once Stop has given back as many counts as the map has containers, and not that
\* of one of them, it has given back that of one that was gone.
LEMMA TakenTwice ==
  ASSUME TInv, CountOK, mgr \notin {"running", "down"}, sessionsCount = 0,
         NEW i \in Mapped \ returned
  PROVE  \E j \in returned : sessions[j] = Nil
  <1>1. Adding = {} /\ returned \subseteq ClientId
    BY DEF Adding, TInv, StopOK, TypeOK
  <1>2. Cardinality(returned) = Cardinality(Mapped)
    BY <1>1, Finite, FS_EmptySet DEF CountOK, Adding, Mapped
  <1>3. SUFFICES ASSUME returned \subseteq Mapped PROVE FALSE
    BY <1>1 DEF Mapped
  <1>4. returned \subseteq Mapped \ {i} /\ i \in Mapped
    BY <1>3
  <1>5. IsFiniteSet(Mapped \ {i}) /\ Cardinality(Mapped \ {i}) = Cardinality(Mapped) - 1
    BY <1>4, Finite, FS_RemoveElement
  <1>6. Cardinality(returned) <= Cardinality(Mapped \ {i})
    BY <1>4, <1>5, FS_Subset
  <1>7. QED BY <1>2, <1>5, <1>6, Finite

LEMMA SessionOfflineFatal ==
  ASSUME TInv, IInv, CountOK, NEW c \in Conn, SessionOffline(c), fatal'
  PROVE  StopCrashes'
  <1>1. /\ sessions[id[c]] # Nil /\ sessionsCount = 0 /\ Live(c)
        /\ sessions'[id[c]] = Nil /\ id[c] \in ClientId
        /\ UNCHANGED <<mgr, returned>> /\ \A j \in ClientId : sessions[j] = Nil => sessions'[j] = Nil
    BY DEF SessionOffline, TInv, TypeOK, PlacesOK
  <1>2. id[c] \in Mapped /\ mgr # "down"
    BY <1>1 DEF Mapped, TInv, StopOK
  <1>3. mgr # "running"
    <2>1. SUFFICES ASSUME mgr = "running" PROVE FALSE
      OBVIOUS
    <2>2. Cardinality(returned) = 0
      BY <2>1, FS_EmptySet DEF TInv, StopOK
    <2>3. Cardinality(Adding) = Cardinality(Mapped)
      BY <1>1, <1>2, <2>2, Finite DEF CountOK, Adding, Mapped
    <2>4. QED BY <1>1, <1>2, <2>3, AddingBelow, Finite
  <1>4. \E j \in returned : sessions'[j] = Nil
    <2>1. CASE id[c] \in returned
      BY <1>1, <2>1
    <2>2. CASE id[c] \notin returned
      BY <1>1, <1>2, <1>3, <2>2, TakenTwice DEF TInv, TypeOK
    <2>3. QED BY <2>1, <2>2
  <1>5. QED BY <1>1, <1>3, <1>4 DEF StopCrashes

LEMMA VisitIdleFatal ==
  ASSUME TInv, CountOK, VisitIdle, fatal'
  PROVE  StopCrashes'
  <1>1. /\ id[visited] \in ClientId \ returned /\ sessionsCount = 0 /\ mgr = "visiting"
        /\ mgr' = "ranging" /\ returned' = returned \cup {id[visited]} /\ sessions' = sessions
    BY DEF VisitIdle, TInv, StopOK
  <1>2. \E j \in returned' : sessions[j] = Nil
    <2>1. CASE id[visited] \in Mapped
      BY <1>1, <2>1, TakenTwice
    <2>2. CASE id[visited] \notin Mapped
      BY <1>1, <2>2 DEF Mapped
    <2>3. QED BY <2>1, <2>2
  <1>3. QED BY <1>1, <1>2 DEF StopCrashes

LEMMA VisitRunningFatal ==
  ASSUME TInv, IInv, VisitRunning, fatal'
  PROVE  StopCrashes'
  <1> USE DEF TInv, IInv, VisitRunning
  <1> DEFINE v == ses[visited]
  <1>1. /\ v \in Conn /\ phase[v] = "closed" /\ ~stopReq[v] /\ mgr = "visiting"
        /\ mgr' = "ranging" /\ UNCHANGED <<pc, id, sessions, ses>>
    BY DEF Dead, WaitsFor, TypeOK, StopOK
  <1>2. sessions[id[visited]] = visited /\ id[visited] \in ClientId /\ visited \in Conn
    BY <1>1 DEF VisitOK, StopOK
  <1>3. id[v] = id[visited] /\ pc[v] \in Holding
    BY <1>1, <1>2 DEF SessionOK
  <1>4. pc[v] = "failed"
    BY <1>1, <1>3 DEF StopOK
  <1>5. QED BY <1>1, <1>2, <1>3, <1>4 DEF StopCrashes

LEMMA NextFatal ==
  ASSUME TInv, IInv, CountOK, ~fatal, fatal', [Next]_vars
  PROVE  StopCrashes'
  <1>1. ASSUME NEW c \in Conn, Start(c) PROVE FALSE
    BY <1>1 DEF Start, IInv, BoxOK
  <1>2. ASSUME NEW c \in Conn, SessionOffline(c) PROVE StopCrashes'
    BY <1>2, SessionOfflineFatal
  <1>3. CASE VisitIdle \/ VisitRunning
    BY <1>3, VisitIdleFatal, VisitRunningFatal
  <1>4. ASSUME NEW c \in Conn, Accept(c) \/ Client(c) \/ Close(c)
        PROVE  Start(c) \/ SessionOffline(c)
    BY <1>4 DEF Accept, Client, Close, StoreNew, LoadExisting, CountNew, Acquire, Pin,
       Current, StopCurrent, CurrentClosed, CheckRemoved, Swap, Unpin, StoreAgain,
       Subscriber, Persist, Acknowledge, AcknowledgeFails, Refuse, Connect, Subscribe,
       UnSubscribe, Drop, FallsSilent, Offline, ConnectionClose
  <1>5. CASE Stop \/ Manager \/ UNCHANGED vars
    BY <1>3, <1>5 DEF Stop, Manager, Visit, StoppingClosed, CountZero, Shutdown
  <1>6. QED BY <1>1, <1>2, <1>4, <1>5 DEF Next

\* Nothing moves in a process that has crashed.
LEMMA Crashed ==
  ASSUME fatal, [Next]_vars
  PROVE  UNCHANGED vars
BY DEF Next, Accept, Client, Close, Manager, Stop, StoreNew, LoadExisting, CountNew,
     Acquire, Pin, Current, StopCurrent, CurrentClosed, CheckRemoved, Swap, Unpin,
     StoreAgain, Subscriber, Persist, Acknowledge, AcknowledgeFails, Refuse, Start,
     Connect, Subscribe, UnSubscribe, Drop, FallsSilent, Offline, ConnectionClose,
     SessionOffline, Visit, VisitIdle, VisitRunning, StoppingClosed, CountZero, Shutdown

\* However accepts, closes and Stop interleave, nothing unlocks a free id lock or
\* takes sessionsCount below zero until a lock is lost, but for Stop in the two
\* cases that StopCrashes names (session.go:70, sessions.go:181, 757).
THEOREM NoCrash == Spec => []NeverFatal
  <1>1. Init => NeverFatal
    BY DEF Init, NeverFatal
  <1>2. TInv /\ Guarded /\ CountOK /\ NeverFatal /\ [Next]_vars => NeverFatal'
    <2> SUFFICES ASSUME TInv, Guarded, CountOK, NeverFatal, [Next]_vars, fatal', ~swept'
                 PROVE  StopCrashes'
      BY DEF NeverFatal
    <2>1. CASE fatal
      BY <2>1, Crashed, Sweeping DEF NeverFatal, StopCrashes
    <2>2. CASE ~fatal
      BY <2>2, NextFatal, Sweeping DEF Guarded
    <2>3. QED BY <2>1, <2>2
  <1>3. QED BY <1>1, <1>2, TypesInvariant, Invariant, CountCorrect, PTL DEF Spec

-----------------------------------------------------------------------------
(* The subscribers: who is left in the topics manager.                      *)

SubOK ==
  /\ \A k \in Conn : sub[k] # Nil => box[sub[k]] = k
  /\ mgr # "down" => \A c \in Conn :
       pc[c] \in {"persist", "ack"} \/ phase[c] \in Serving =>
         mySub[c] # Nil /\ sub[sessions[id[c]]] = mySub[c]

EndingOK ==
  mgr # "down" => \A c \in Conn : phase[c] = "ending" =>
    LET s == sub[sessions[id[c]]]
    IN IF keep[c] THEN s # Nil /\ topics[s] ELSE s = Nil

PinOK == \A k \in Conn : ~removable[k] => \E c \in Conn : pc[c] \in Pinning /\ box[c] = k

OwnedOK ==
  mgr # "down" => \A s \in Conn : topics[s] =>
    \E i \in ClientId : sessions[i] # Nil /\ sub[sessions[i]] = s

UsefulOK ==
  mgr # "down" => \A i \in ClientId : sessions[i] # Nil =>
    \/ ses[sessions[i]] # Nil
    \/ sub[sessions[i]] # Nil /\ topics[sub[sessions[i]]]
    \/ \E c \in Conn : pc[c] \in Loading /\ ~Gone(c) /\ box[c] = sessions[i]

SInv == SubOK /\ EndingOK /\ PinOK /\ OwnedOK /\ UsefulOK

\* A subscriber is that of one container, and a connection that is being closed
\* or is alive has its own session in its container.
LEMMA OneSubscriber ==
  ASSUME TInv, SInv, NEW j \in Conn, NEW k \in Conn, sub[j] = sub[k], sub[j] # Nil
  PROVE  j = k
  BY DEF TInv, SInv, TypeOK, SubOK

LEMMA LiveContainer ==
  ASSUME TInv, IInv, SInv, mgr # "down", NEW c \in Conn, Live(c)
  PROVE  /\ id[c] \in ClientId /\ sessions[id[c]] \in Conn /\ ses[sessions[id[c]]] = c
         /\ pc[c] \in {"start", "done"}
         /\ phase[c] \in Serving => mySub[c] \in Conn /\ sub[sessions[id[c]]] = mySub[c]
  BY DEF TInv, IInv, SInv, TypeOK, PlacesOK, CurrentSession, SubOK

\* What the containers of other connections have is not this one's subscriber.
LEMMA OthersSubscriber ==
  ASSUME TInv, IInv, SInv, mgr # "down", NEW c \in Conn, phase[c] \in Serving,
         NEW k \in Conn, k # sessions[id[c]]
  PROVE  sub[k] # mySub[c]
  BY LiveContainer, OneSubscriber DEF TInv, TypeOK

\* Where the subscriber of a connection that serves its client is, and is not.
LEMMA OwnSubscriber ==
  ASSUME TInv, IInv, SInv, mgr # "down", NEW c \in Conn, phase[c] \in Serving
  PROVE  /\ mySub[c] \in Conn /\ sub[sessions[id[c]]] = mySub[c]
         /\ sessions[id[c]] \in Conn /\ ses[sessions[id[c]]] = c /\ id[c] \in ClientId
         /\ \A k \in Conn : sub[k] = mySub[c] => k = sessions[id[c]]
         /\ \A d \in Conn : phase[d] = "ending" =>
              sessions[id[d]] \in Conn /\ sub[sessions[id[d]]] # mySub[c]
  <1>1. /\ mySub[c] \in Conn /\ sub[sessions[id[c]]] = mySub[c]
        /\ sessions[id[c]] \in Conn /\ ses[sessions[id[c]]] = c /\ id[c] \in ClientId
    BY LiveContainer
  <1>2. \A k \in Conn : sub[k] = mySub[c] => k = sessions[id[c]]
    BY OthersSubscriber
  <1>3. ASSUME NEW d \in Conn, phase[d] = "ending"
        PROVE  sessions[id[d]] \in Conn /\ sub[sessions[id[d]]] # mySub[c]
    <2>1. d # c /\ sessions[id[d]] \in Conn /\ ses[sessions[id[d]]] = d
      BY <1>3, LiveContainer
    <2>2. QED BY <1>1, <1>2, <2>1
  <1>4. QED BY <1>1, <1>2, <1>3

LEMMA StoreNewSubs ==
  ASSUME TInv, StopOK', PInv, IInv, SInv, NEW c \in Conn, StoreNew(c)
  PROVE  SInv'
  <1> USE DEF TInv, StopOK, PInv, IInv, SInv, Gone, StoreNew
  <1>1. SubOK'
    BY DEF TypeOK, PlacesOK, SubscribersOK, BoxOK, CurrentSession, SubOK
  <1>2. EndingOK' /\ PinOK'
    BY DEF TypeOK, PlacesOK, PhaseOK, BoxOK, CurrentSession, EndingOK, PinOK
  <1>3. OwnedOK'
    BY DEF TypeOK, PlacesOK, OwnedOK
  <1>4. UsefulOK'
    BY DEF TypeOK, PlacesOK, PhaseOK, BoxOK, UsefulOK
  <1>5. QED BY <1>1, <1>2, <1>3, <1>4

LEMMA LoadExistingSubs ==
  ASSUME TInv, StopOK', PInv, IInv, SInv, NEW c \in Conn, LoadExisting(c)
  PROVE  SInv'
  <1> USE DEF TInv, StopOK, PInv, IInv, SInv, Gone, LoadExisting, Released
  <1>1. SubOK'
    BY DEF TypeOK, PlacesOK, SubscribersOK, PhaseOK, TableOK, BoxOK, SubOK
  <1>2. EndingOK' /\ PinOK'
    BY DEF TypeOK, PlacesOK, PhaseOK, BoxOK, CurrentSession, EndingOK, PinOK
  <1>3. OwnedOK' /\ UsefulOK'
    BY DEF TypeOK, PlacesOK, PhaseOK, BoxOK, OwnedOK, UsefulOK
  <1>4. QED BY <1>1, <1>2, <1>3

LEMMA CountNewSubs ==
  ASSUME TInv, StopOK', PInv, IInv, SInv, NEW c \in Conn, CountNew(c)
  PROVE  SInv'
  <1> USE DEF TInv, StopOK, PInv, IInv, SInv, Gone, CountNew
  <1>1. SubOK'
    BY DEF TypeOK, PlacesOK, SubscribersOK, PhaseOK, TableOK, BoxOK, SubOK
  <1>2. EndingOK' /\ PinOK'
    BY DEF TypeOK, PlacesOK, PhaseOK, BoxOK, CurrentSession, EndingOK, PinOK
  <1>3. OwnedOK' /\ UsefulOK'
    BY DEF TypeOK, PlacesOK, PhaseOK, BoxOK, OwnedOK, UsefulOK
  <1>4. QED BY <1>1, <1>2, <1>3

LEMMA AcquireSubs ==
  ASSUME TInv, StopOK', PInv, IInv, SInv, NEW c \in Conn, Acquire(c)
  PROVE  SInv'
  <1> USE DEF TInv, StopOK, PInv, IInv, SInv, Gone, Acquire, Free
  <1>1. SubOK'
    BY DEF TypeOK, PlacesOK, SubscribersOK, PhaseOK, TableOK, BoxOK, SubOK
  <1>2. EndingOK' /\ PinOK'
    BY DEF TypeOK, PlacesOK, PhaseOK, BoxOK, CurrentSession, EndingOK, PinOK
  <1>3. OwnedOK' /\ UsefulOK'
    BY DEF TypeOK, PlacesOK, PhaseOK, BoxOK, OwnedOK, UsefulOK
  <1>4. QED BY <1>1, <1>2, <1>3

LEMMA PinSubs ==
  ASSUME TInv, StopOK', PInv, IInv, SInv, NEW c \in Conn, Pin(c)
  PROVE  SInv'
  <1> USE DEF TInv, StopOK, PInv, IInv, SInv, Gone, Pin
  <1>1. SubOK'
    BY DEF TypeOK, PlacesOK, SubscribersOK, PhaseOK, TableOK, BoxOK, SubOK
  <1>2. EndingOK' /\ PinOK'
    BY DEF TypeOK, PlacesOK, PhaseOK, BoxOK, CurrentSession, EndingOK, PinOK
  <1>3. OwnedOK' /\ UsefulOK'
    BY DEF TypeOK, PlacesOK, PhaseOK, BoxOK, OwnedOK, UsefulOK
  <1>4. QED BY <1>1, <1>2, <1>3

LEMMA CurrentSubs ==
  ASSUME TInv, StopOK', PInv, IInv, SInv, NEW c \in Conn, Current(c)
  PROVE  SInv'
  <1> USE DEF TInv, StopOK, PInv, IInv, SInv, Gone, Current
  <1>1. SubOK'
    BY DEF TypeOK, PlacesOK, SubscribersOK, PhaseOK, TableOK, BoxOK, SubOK
  <1>2. EndingOK' /\ PinOK'
    BY DEF TypeOK, PlacesOK, PhaseOK, BoxOK, CurrentSession, EndingOK, PinOK
  <1>3. OwnedOK' /\ UsefulOK'
    BY DEF TypeOK, PlacesOK, PhaseOK, BoxOK, OwnedOK, UsefulOK
  <1>4. QED BY <1>1, <1>2, <1>3

LEMMA CurrentClosedSubs ==
  ASSUME TInv, StopOK', PInv, IInv, SInv, NEW c \in Conn, CurrentClosed(c)
  PROVE  SInv'
  <1> USE DEF TInv, StopOK, PInv, IInv, SInv, Gone, CurrentClosed
  <1>1. SubOK'
    BY DEF TypeOK, PlacesOK, SubscribersOK, PhaseOK, TableOK, BoxOK, SubOK
  <1>2. EndingOK' /\ PinOK'
    BY DEF TypeOK, PlacesOK, PhaseOK, BoxOK, CurrentSession, EndingOK, PinOK
  <1>3. OwnedOK' /\ UsefulOK'
    BY DEF TypeOK, PlacesOK, PhaseOK, BoxOK, OwnedOK, UsefulOK
  <1>4. QED BY <1>1, <1>2, <1>3

LEMMA CheckRemovedSubs ==
  ASSUME TInv, StopOK', PInv, IInv, SInv, NEW c \in Conn, CheckRemoved(c)
  PROVE  SInv'
  <1> USE DEF TInv, StopOK, PInv, IInv, SInv, Gone, CheckRemoved
  <1>1. SubOK'
    BY DEF TypeOK, PlacesOK, SubscribersOK, PhaseOK, TableOK, BoxOK, SubOK
  <1>2. EndingOK' /\ PinOK'
    BY DEF TypeOK, PlacesOK, PhaseOK, TableOK, BoxOK, CurrentSession, EndingOK, PinOK
  <1>3. OwnedOK' /\ UsefulOK'
    BY DEF TypeOK, PlacesOK, PhaseOK, BoxOK, OwnedOK, UsefulOK
  <1>4. QED BY <1>1, <1>2, <1>3

LEMMA SwapSubs ==
  ASSUME TInv, StopOK', PInv, IInv, SInv, NEW c \in Conn, Swap(c)
  PROVE  SInv'
  <1> USE DEF TInv, StopOK, PInv, IInv, SInv, Gone, Swap, LockOf
  <1>1. SubOK'
    BY DEF TypeOK, PlacesOK, SubscribersOK, PhaseOK, TableOK, BoxOK, SubOK
  <1>2. EndingOK' /\ PinOK'
    BY DEF TypeOK, PlacesOK, PhaseOK, BoxOK, CurrentSession, EndingOK, PinOK
  <1>3. OwnedOK' /\ UsefulOK'
    BY DEF TypeOK, PlacesOK, PhaseOK, BoxOK, OwnedOK, UsefulOK
  <1>4. QED BY <1>1, <1>2, <1>3

LEMMA UnpinSubs ==
  ASSUME TInv, StopOK', PInv, IInv, SInv, NEW c \in Conn, Unpin(c)
  PROVE  SInv'
  <1> USE DEF TInv, StopOK, PInv, IInv, SInv, Gone, Unpin
  <1>1. SubOK'
    BY DEF TypeOK, PlacesOK, SubscribersOK, PhaseOK, TableOK, BoxOK, SubOK
  <1>2. EndingOK' /\ PinOK'
    BY DEF TypeOK, PlacesOK, PhaseOK, BoxOK, CurrentSession, EndingOK, PinOK
  <1>3. OwnedOK' /\ UsefulOK'
    BY DEF TypeOK, PlacesOK, PhaseOK, BoxOK, OwnedOK, UsefulOK
  <1>4. QED BY <1>1, <1>2, <1>3

LEMMA PersistSubs ==
  ASSUME TInv, StopOK', PInv, IInv, SInv, NEW c \in Conn, Persist(c)
  PROVE  SInv'
  <1> USE DEF TInv, StopOK, PInv, IInv, SInv, Gone, Persist, Kept
  <1>1. SubOK'
    BY DEF TypeOK, PlacesOK, SubscribersOK, PhaseOK, TableOK, BoxOK, SubOK
  <1>2. EndingOK' /\ PinOK'
    BY DEF TypeOK, PlacesOK, PhaseOK, BoxOK, CurrentSession, EndingOK, PinOK
  <1>3. OwnedOK' /\ UsefulOK'
    BY DEF TypeOK, PlacesOK, PhaseOK, BoxOK, OwnedOK, UsefulOK
  <1>4. QED BY <1>1, <1>2, <1>3

LEMMA AcknowledgeSubs ==
  ASSUME TInv, StopOK', PInv, IInv, SInv, NEW c \in Conn, Acknowledge(c)
  PROVE  SInv'
  <1> USE DEF TInv, StopOK, PInv, IInv, SInv, Gone, Acknowledge
  <1>1. SubOK'
    BY DEF TypeOK, PlacesOK, SubscribersOK, PhaseOK, TableOK, BoxOK, SubOK
  <1>2. EndingOK' /\ PinOK'
    BY DEF TypeOK, PlacesOK, PhaseOK, BoxOK, CurrentSession, EndingOK, PinOK
  <1>3. OwnedOK' /\ UsefulOK'
    BY DEF TypeOK, PlacesOK, PhaseOK, BoxOK, OwnedOK, UsefulOK
  <1>4. QED BY <1>1, <1>2, <1>3

LEMMA AcknowledgeFailsSubs ==
  ASSUME TInv, StopOK', PInv, IInv, SInv, NEW c \in Conn, AcknowledgeFails(c)
  PROVE  SInv'
  <1> USE DEF TInv, StopOK, PInv, IInv, SInv, Gone, AcknowledgeFails
  <1>1. SubOK'
    BY DEF TypeOK, PlacesOK, SubscribersOK, PhaseOK, TableOK, BoxOK, SubOK
  <1>2. EndingOK' /\ PinOK'
    BY DEF TypeOK, PlacesOK, PhaseOK, BoxOK, CurrentSession, EndingOK, PinOK
  <1>3. OwnedOK' /\ UsefulOK'
    BY DEF TypeOK, PlacesOK, PhaseOK, BoxOK, OwnedOK, UsefulOK
  <1>4. QED BY <1>1, <1>2, <1>3

LEMMA StartSubs ==
  ASSUME TInv, StopOK', PInv, IInv, SInv, NEW c \in Conn, Start(c)
  PROVE  SInv'
  <1> USE DEF TInv, StopOK, PInv, IInv, SInv, Gone, Start
  <1>1. SubOK'
    BY DEF TypeOK, PlacesOK, SubscribersOK, PhaseOK, TableOK, BoxOK, SubOK
  <1>2. EndingOK' /\ PinOK'
    BY DEF TypeOK, PlacesOK, PhaseOK, BoxOK, CurrentSession, EndingOK, PinOK
  <1>3. OwnedOK' /\ UsefulOK'
    BY DEF TypeOK, PlacesOK, PhaseOK, BoxOK, OwnedOK, UsefulOK
  <1>4. QED BY <1>1, <1>2, <1>3

LEMMA ConnectSubs ==
  ASSUME TInv, StopOK', PInv, IInv, SInv, NEW c \in Conn, NEW i \in ClientId, NEW cl \in Cleans, Connect(c, i, cl)
  PROVE  SInv'
  <1> USE DEF TInv, StopOK, PInv, IInv, SInv, Gone, Connect
  <1>1. SubOK'
    BY DEF TypeOK, PlacesOK, SubscribersOK, PhaseOK, TableOK, BoxOK, SubOK
  <1>2. EndingOK' /\ PinOK'
    BY DEF TypeOK, PlacesOK, PhaseOK, BoxOK, CurrentSession, EndingOK, PinOK
  <1>3. OwnedOK' /\ UsefulOK'
    BY DEF TypeOK, PlacesOK, PhaseOK, BoxOK, OwnedOK, UsefulOK
  <1>4. QED BY <1>1, <1>2, <1>3

LEMMA DropSubs ==
  ASSUME TInv, StopOK', PInv, IInv, SInv, NEW c \in Conn, Drop(c)
  PROVE  SInv'
  <1> USE DEF TInv, StopOK, PInv, IInv, SInv, Gone, Drop
  <1>1. SubOK'
    BY DEF TypeOK, PlacesOK, SubscribersOK, PhaseOK, TableOK, BoxOK, SubOK
  <1>2. EndingOK' /\ PinOK'
    BY DEF TypeOK, PlacesOK, PhaseOK, BoxOK, CurrentSession, EndingOK, PinOK
  <1>3. OwnedOK' /\ UsefulOK'
    BY DEF TypeOK, PlacesOK, PhaseOK, BoxOK, OwnedOK, UsefulOK
  <1>4. QED BY <1>1, <1>2, <1>3

LEMMA FallsSilentSubs ==
  ASSUME TInv, StopOK', PInv, IInv, SInv, NEW c \in Conn, FallsSilent(c)
  PROVE  SInv'
  <1> USE DEF TInv, StopOK, PInv, IInv, SInv, Gone, FallsSilent
  <1>1. SubOK'
    BY DEF TypeOK, PlacesOK, SubscribersOK, PhaseOK, TableOK, BoxOK, SubOK
  <1>2. EndingOK' /\ PinOK'
    BY DEF TypeOK, PlacesOK, PhaseOK, BoxOK, CurrentSession, EndingOK, PinOK
  <1>3. OwnedOK' /\ UsefulOK'
    BY DEF TypeOK, PlacesOK, PhaseOK, BoxOK, OwnedOK, UsefulOK
  <1>4. QED BY <1>1, <1>2, <1>3

LEMMA StopSubs ==
  ASSUME TInv, StopOK', PInv, IInv, SInv, Stop
  PROVE  SInv'
  <1> USE DEF TInv, StopOK, PInv, IInv, SInv, Gone, Stop
  <1>1. SubOK'
    BY DEF TypeOK, PlacesOK, SubscribersOK, PhaseOK, TableOK, BoxOK, SubOK
  <1>2. EndingOK' /\ PinOK'
    BY DEF TypeOK, PlacesOK, PhaseOK, BoxOK, CurrentSession, EndingOK, PinOK
  <1>3. OwnedOK' /\ UsefulOK'
    BY DEF TypeOK, PlacesOK, PhaseOK, BoxOK, OwnedOK, UsefulOK
  <1>4. QED BY <1>1, <1>2, <1>3

LEMMA VisitSubs ==
  ASSUME TInv, StopOK', PInv, IInv, SInv, NEW i \in ClientId, Visit(i)
  PROVE  SInv'
  <1> USE DEF TInv, StopOK, PInv, IInv, SInv, Gone, Visit
  <1>1. SubOK'
    BY DEF TypeOK, PlacesOK, SubscribersOK, PhaseOK, TableOK, BoxOK, SubOK
  <1>2. EndingOK' /\ PinOK'
    BY DEF TypeOK, PlacesOK, PhaseOK, BoxOK, CurrentSession, EndingOK, PinOK
  <1>3. OwnedOK' /\ UsefulOK'
    BY DEF TypeOK, PlacesOK, PhaseOK, BoxOK, OwnedOK, UsefulOK
  <1>4. QED BY <1>1, <1>2, <1>3

LEMMA VisitIdleSubs ==
  ASSUME TInv, StopOK', PInv, IInv, SInv, VisitIdle
  PROVE  SInv'
  <1> USE DEF TInv, StopOK, PInv, IInv, SInv, Gone, VisitIdle, Remaining
  <1>1. SubOK'
    BY DEF TypeOK, PlacesOK, SubscribersOK, PhaseOK, TableOK, BoxOK, SubOK
  <1>2. EndingOK' /\ PinOK'
    BY DEF TypeOK, PlacesOK, PhaseOK, BoxOK, CurrentSession, EndingOK, PinOK
  <1>3. OwnedOK' /\ UsefulOK'
    BY DEF TypeOK, PlacesOK, PhaseOK, BoxOK, OwnedOK, UsefulOK
  <1>4. QED BY <1>1, <1>2, <1>3

LEMMA VisitRunningSubs ==
  ASSUME TInv, StopOK', PInv, IInv, SInv, VisitRunning
  PROVE  SInv'
  <1> USE DEF TInv, StopOK, PInv, IInv, SInv, Gone, VisitRunning, Stopped, Dead, WaitsFor
  <1>1. SubOK'
    BY DEF TypeOK, PlacesOK, SubscribersOK, PhaseOK, TableOK, BoxOK, SubOK
  <1>2. EndingOK' /\ PinOK'
    BY DEF TypeOK, PlacesOK, PhaseOK, BoxOK, CurrentSession, EndingOK, PinOK
  <1>3. OwnedOK' /\ UsefulOK'
    BY DEF TypeOK, PlacesOK, PhaseOK, BoxOK, OwnedOK, UsefulOK
  <1>4. QED BY <1>1, <1>2, <1>3

LEMMA StoppingClosedSubs ==
  ASSUME TInv, StopOK', PInv, IInv, SInv, StoppingClosed
  PROVE  SInv'
  <1> USE DEF TInv, StopOK, PInv, IInv, SInv, Gone, StoppingClosed
  <1>1. SubOK'
    BY DEF TypeOK, PlacesOK, SubscribersOK, PhaseOK, TableOK, BoxOK, SubOK
  <1>2. EndingOK' /\ PinOK'
    BY DEF TypeOK, PlacesOK, PhaseOK, BoxOK, CurrentSession, EndingOK, PinOK
  <1>3. OwnedOK' /\ UsefulOK'
    BY DEF TypeOK, PlacesOK, PhaseOK, BoxOK, OwnedOK, UsefulOK
  <1>4. QED BY <1>1, <1>2, <1>3

LEMMA CountZeroSubs ==
  ASSUME TInv, StopOK', PInv, IInv, SInv, CountZero
  PROVE  SInv'
  <1> USE DEF TInv, StopOK, PInv, IInv, SInv, Gone, CountZero
  <1>1. SubOK'
    BY DEF TypeOK, PlacesOK, SubscribersOK, PhaseOK, TableOK, BoxOK, SubOK
  <1>2. EndingOK' /\ PinOK'
    BY DEF TypeOK, PlacesOK, PhaseOK, BoxOK, CurrentSession, EndingOK, PinOK
  <1>3. OwnedOK' /\ UsefulOK'
    BY DEF TypeOK, PlacesOK, PhaseOK, BoxOK, OwnedOK, UsefulOK
  <1>4. QED BY <1>1, <1>2, <1>3

LEMMA ShutdownSubs ==
  ASSUME TInv, StopOK', PInv, IInv, SInv, Shutdown
  PROVE  SInv'
  <1> USE DEF TInv, StopOK, PInv, IInv, SInv, Gone, Shutdown
  <1>1. SubOK'
    BY DEF TypeOK, PlacesOK, SubscribersOK, PhaseOK, TableOK, BoxOK, SubOK
  <1>2. EndingOK' /\ PinOK'
    BY DEF TypeOK, PlacesOK, PhaseOK, BoxOK, CurrentSession, EndingOK, PinOK
  <1>3. OwnedOK' /\ UsefulOK'
    BY DEF TypeOK, PlacesOK, PhaseOK, BoxOK, OwnedOK, UsefulOK
  <1>4. QED BY <1>1, <1>2, <1>3

LEMMA StopCurrentSubs ==
  ASSUME TInv, StopOK', PInv, IInv, SInv, NEW c \in Conn, StopCurrent(c)
  PROVE  SInv'
  <1> USE DEF TInv, StopOK, PInv, IInv, SInv, Gone, StopCurrent, Stopped, WaitsFor
  <1>1. SubOK'
    BY DEF TypeOK, PlacesOK, SubscribersOK, PhaseOK, SubOK
  <1>2. EndingOK'
    BY DEF TypeOK, PlacesOK, CurrentSession, EndingOK
  <1>3. /\ pc'[c] \in {"wait", "check"} /\ \A d \in Conn \ {c} : pc'[d] = pc[d]
        /\ UNCHANGED <<removable, box, ses, sessions, sub, topics, mgr>>
    BY DEF Dead, TypeOK, PlacesOK, PhaseOK, TakeoverOK
  <1>4. \A d \in Conn : ~Gone(d) => ~Gone(d)'
    BY DEF TypeOK, PlacesOK, PhaseOK, TakeoverOK
  <1>5. PinOK' /\ OwnedOK'
    BY <1>3 DEF PinOK, OwnedOK
  <1>6. UsefulOK'
    BY <1>3, <1>4 DEF UsefulOK
  <1>7. QED BY <1>1, <1>2, <1>5, <1>6

LEMMA SubscribeSubs ==
  ASSUME TInv, StopOK', PInv, IInv, SInv, NEW c \in Conn, Subscribe(c)
  PROVE  SInv'
  <1> USE DEF TInv, StopOK, PInv, IInv, SInv, Gone, Subscribe
  <1>1. SubOK' /\ PinOK'
    BY DEF TypeOK, PlacesOK, SubscribersOK, SubOK, PinOK
  <1>2. EndingOK' /\ UsefulOK'
    BY DEF TypeOK, EndingOK, UsefulOK
  <1>3. OwnedOK'
    BY OwnSubscriber DEF TypeOK, OwnedOK
  <1>4. QED BY <1>1, <1>2, <1>3

LEMMA UnSubscribeSubs ==
  ASSUME TInv, StopOK', PInv, IInv, SInv, NEW c \in Conn, UnSubscribe(c)
  PROVE  SInv'
  <1> USE DEF TInv, StopOK, PInv, IInv, SInv, Gone, UnSubscribe
  <1>1. SubOK' /\ PinOK'
    BY DEF TypeOK, PlacesOK, SubscribersOK, SubOK, PinOK
  <1>2. /\ \A s \in Conn : s # mySub[c] => topics'[s] = topics[s]
        /\ \A s \in Conn : topics'[s] => topics[s]
        /\ UNCHANGED <<sub, sessions, id, keep, mgr, ses, pc, box, phase>>
    BY DEF TypeOK
  <1>3. EndingOK'
    BY <1>2, OwnSubscriber DEF TypeOK, EndingOK
  <1>4. OwnedOK'
    BY <1>2 DEF OwnedOK
  <1>5. UsefulOK'
    <2>1. ASSUME NEW i \in ClientId, mgr # "down", sessions[i] # Nil, ses[sessions[i]] = Nil,
                 sub[sessions[i]] # Nil, topics[sub[sessions[i]]]
          PROVE  topics'[sub[sessions[i]]]
      BY <1>2, <2>1, OwnSubscriber DEF TypeOK
    <2>2. QED BY <1>2, <2>1 DEF UsefulOK
  <1>6. QED BY <1>1, <1>3, <1>4, <1>5

LEMMA OfflineSubs ==
  ASSUME TInv, StopOK', PInv, IInv, SInv, NEW c \in Conn, Offline(c)
  PROVE  SInv'
  <1> USE DEF TInv, StopOK, PInv, IInv, SInv, Gone, Offline, AfterOffline
  <1>1. SubOK' /\ PinOK'
    BY DEF TypeOK, PlacesOK, SubscribersOK, SubOK, PinOK
  <1>2. /\ \A s \in Conn : s # mySub[c] => topics'[s] = topics[s]
        /\ \A s \in Conn : topics'[s] => topics[s]
        /\ \A d \in Conn : phase'[d] = "ending" <=> phase[d] = "ending"
        /\ \A d \in Conn : phase'[d] = "closed" <=> phase[d] = "closed"
        /\ UNCHANGED <<sub, sessions, id, keep, mgr, ses, pc, box>>
    BY DEF TypeOK
  <1>3. EndingOK'
    BY <1>2, OwnSubscriber DEF TypeOK, EndingOK
  <1>4. OwnedOK'
    BY <1>2 DEF TypeOK, OwnedOK
  <1>5. UsefulOK'
    <2>1. ASSUME NEW i \in ClientId, mgr # "down", sessions[i] # Nil, ses[sessions[i]] = Nil,
                 sub[sessions[i]] # Nil, topics[sub[sessions[i]]]
          PROVE  topics'[sub[sessions[i]]]
      BY <1>2, <2>1, OwnSubscriber DEF TypeOK
    <2>2. QED BY <1>2, <2>1 DEF UsefulOK
  <1>6. QED BY <1>1, <1>3, <1>4, <1>5

LEMMA SubscriberSubs ==
  ASSUME TInv, StopOK', PInv, IInv, SInv, NEW c \in Conn, Subscriber(c)
  PROVE  SInv'
  <1> USE DEF TInv, StopOK, PInv, IInv, SInv, Gone, Subscriber, Resumes, AfterOffline
  <1> DEFINE k == box[c]
             t == IF Resumes(c) THEN sub[k] ELSE c
  <1>a. k \in Conn /\ sessions[id[c]] = k /\ ses[k] = c /\ id[c] \in ClientId /\ mgr = "running"
    BY DEF PlacesOK, BoxOK
  <1>b. t \in Conn /\ (Resumes(c) => t = sub[k])
    BY <1>a DEF TypeOK
  <1>c. /\ mySub' = [mySub EXCEPT ![c] = t] /\ sub' = [sub EXCEPT ![k] = t]
        /\ topics' = [s \in Conn |-> topics[s] /\ ~(~Resumes(c) /\ s = sub[k])]
        /\ pc' = [pc EXCEPT ![c] = "persist"]
        /\ UNCHANGED <<id, box, phase, keep, ses, sessions, mgr, removable>>
    BY DEF TypeOK
  <1>d. /\ sub'[k] = t /\ \A j \in Conn : j # k => sub'[j] = sub[j]
        /\ pc'[c] = "persist" /\ \A d \in Conn : d # c => pc'[d] = pc[d]
        /\ mySub'[c] = t /\ \A d \in Conn : d # c => mySub'[d] = mySub[d]
        /\ \A s \in Conn : s # sub[k] => topics'[s] = topics[s]
    BY <1>a, <1>c DEF TypeOK
  <1>e. \A j \in Conn : j # k /\ sub[j] # Nil => sub[j] # sub[k] /\ sub[j] \in Conn
    BY <1>a, OneSubscriber DEF TypeOK
  <1>g. \A i \in ClientId : sessions[i] \in Conn \cup {Nil}
    BY DEF TypeOK
  <1>h. \A d \in Conn : Live(d) => sessions[id[d]] \in Conn \ {k} /\ id[d] \in ClientId
    BY <1>a, LiveContainer DEF PhaseOK
  <1>r. (Resumes(c) => sub[k] # Nil) /\ pc[c] = "subscriber" /\ phase[c] = "new"
    BY DEF PhaseOK
  <1> HIDE DEF k, t, Subscriber, Resumes
  <1>1. SubOK'
    <2>1. \A j \in Conn : sub'[j] # Nil => box'[sub'[j]] = j
      BY <1>b, <1>c, <1>d, <1>r DEF SubOK, k, t
    <2>2. ASSUME NEW d \in Conn, d # c, pc[d] \in {"persist", "ack"} \/ phase[d] \in Serving
          PROVE  mySub'[d] # Nil /\ sub'[sessions'[id'[d]]] = mySub'[d]
      <3>1. sessions[id[d]] \in Conn /\ sessions[id[d]] # k
        <4>1. CASE phase[d] \in Serving
          BY <1>h, <4>1
        <4>2. CASE pc[d] \in {"persist", "ack"}
          BY <1>a, <2>2, <4>2 DEF BoxOK, PlacesOK
        <4>3. QED BY <2>2, <4>1, <4>2
      <3>2. mySub[d] # Nil /\ sub[sessions[id[d]]] = mySub[d]
        BY <1>a, <2>2 DEF SubOK
      <3>3. QED BY <1>c, <1>d, <2>2, <3>1, <3>2
    <2>3. mySub'[c] # Nil /\ sub'[sessions'[id'[c]]] = mySub'[c]
      BY <1>a, <1>b, <1>c, <1>d
    <2>4. \A d \in Conn : d # c /\ (pc'[d] \in {"persist", "ack"} \/ phase'[d] \in Serving) =>
            pc[d] \in {"persist", "ack"} \/ phase[d] \in Serving
      BY <1>c, <1>d
    <2>5. QED BY <2>1, <2>2, <2>3, <2>4 DEF SubOK
  <1>2. EndingOK'
    <2>1. ASSUME NEW d \in Conn, phase[d] = "ending"
          PROVE  LET s == sub'[sessions'[id'[d]]]
                 IN IF keep'[d] THEN s # Nil /\ topics'[s] ELSE s = Nil
      <3>1. sub'[sessions'[id'[d]]] = sub[sessions[id[d]]] /\ keep' = keep
        BY <1>c, <1>d, <1>h, <2>1
      <3>2. sub[sessions[id[d]]] # Nil =>
              topics'[sub[sessions[id[d]]]] = topics[sub[sessions[id[d]]]]
        BY <1>d, <1>e, <1>h, <2>1
      <3>3. QED BY <1>a, <2>1, <3>1, <3>2 DEF EndingOK
    <2>2. QED BY <1>c, <2>1 DEF EndingOK
  <1>3. PinOK'
    BY <1>c, <1>d, <1>r DEF PinOK
  <1>4. OwnedOK'
    <2>1. ASSUME NEW s \in Conn, topics'[s]
          PROVE  \E i \in ClientId : sessions'[i] # Nil /\ sub'[sessions'[i]] = s
      <3>1. topics[s] /\ (s # sub[k] \/ Resumes(c))
        BY <1>c, <2>1
      <3>2. PICK i \in ClientId : sessions[i] # Nil /\ sub[sessions[i]] = s
        BY <1>a, <3>1 DEF OwnedOK
      <3>3. sub'[sessions[i]] = s
        BY <1>b, <1>d, <1>g, <3>1, <3>2
      <3>4. QED BY <1>c, <3>2, <3>3
    <2>2. QED BY <2>1 DEF OwnedOK
  <1>5. UsefulOK'
    <2>1. ASSUME NEW i \in ClientId, sessions[i] # Nil, ses[sessions[i]] = Nil,
                 sub[sessions[i]] # Nil, topics[sub[sessions[i]]]
          PROVE  sub'[sessions[i]] # Nil /\ topics'[sub'[sessions[i]]]
      BY <1>a, <1>d, <1>e, <1>g, <2>1
    <2>2. \A d \in Conn : pc[d] \in Loading /\ ~Gone(d) => pc'[d] \in Loading /\ ~Gone(d)'
      BY <1>c, <1>d
    <2>3. QED BY <1>c, <2>1, <2>2 DEF UsefulOK
  <1>6. QED BY <1>1, <1>2, <1>3, <1>4, <1>5

LEMMA ConnectionCloseSubs ==
  ASSUME TInv, StopOK', PInv, IInv, SInv, NEW c \in Conn, ConnectionClose(c)
  PROVE  SInv'
  <1> USE DEF TInv, StopOK, PInv, IInv, SInv, Gone, ConnectionClose, AfterOffline, Keeps
  <1> DEFINE k == sessions[id[c]]
  <1>a. mgr # "down" => /\ mySub[c] \in Conn /\ sub[k] = mySub[c]
                        /\ k \in Conn /\ ses[k] = c /\ id[c] \in ClientId
                        /\ \A j \in Conn : sub[j] = mySub[c] => j = k
    BY OwnSubscriber
  <1>d. \A s \in Conn : s # mySub[c] => topics'[s] = topics[s]
    BY DEF TypeOK
  <1>e. /\ \A i \in ClientId : sessions[i] \in Conn \cup {Nil}
        /\ \A j \in Conn : sub[j] \in Conn \cup {Nil}
    BY DEF TypeOK
  <1>g. \A j \in Conn : sub'[j] = IF j = k /\ ~Keeps(c) THEN Nil ELSE sub[j]
    OBVIOUS
  <1>j. mgr # "down" => topics'[mySub[c]] <=> topics[mySub[c]] /\ Keeps(c)
    BY <1>a DEF TypeOK
  <1>h. /\ phase' = [phase EXCEPT ![c] = "ending"] /\ phase[c] = "offline"
        /\ keep' = [keep EXCEPT ![c] = Keeps(c)] /\ (Keeps(c) => topics[mySub[c]])
    BY DEF TypeOK
  <1>i. UNCHANGED <<pc, id, box, mySub, ses, sessions, removable, mgr>>
    OBVIOUS
  <1>l. \A d \in Conn : Gone(d)' <=> Gone(d)
    BY <1>h, <1>i DEF TypeOK
  <1> HIDE DEF ConnectionClose, Keeps
  <1>1. SubOK'
    <2>1. \A j \in Conn : sub'[j] # Nil => sub'[j] = sub[j]
      BY <1>g
    <2>2. \A d \in Conn : phase'[d] \in Serving => d # c /\ phase[d] \in Serving
      BY <1>h DEF TypeOK
    <2>3. ASSUME NEW d \in Conn, d # c, mgr # "down",
                 pc[d] \in {"persist", "ack"} \/ phase[d] \in Serving
          PROVE  sessions[id[d]] \in Conn /\ sessions[id[d]] # k
      <3>1. CASE phase[d] \in Serving
        BY <1>a, <2>3, <3>1, LiveContainer
      <3>2. CASE pc[d] \in {"persist", "ack"}
        BY <1>a, <2>3, <3>2 DEF BoxOK, PlacesOK
      <3>3. QED BY <2>3, <3>1, <3>2
    <2>4. pc[c] \notin {"persist", "ack"}
      BY <1>h DEF PlacesOK
    <2>5. QED BY <1>g, <1>i, <2>1, <2>2, <2>3, <2>4 DEF SubOK
  <1>2. EndingOK'
    <2>1. ASSUME NEW d \in Conn, d # c, phase[d] = "ending", mgr # "down"
          PROVE  LET s == sub'[sessions'[id'[d]]]
                 IN IF keep'[d] THEN s # Nil /\ topics'[s] ELSE s = Nil
      <3>1. sessions[id[d]] \in Conn /\ sessions[id[d]] # k
        BY <1>a, <2>1, LiveContainer
      <3>2. sub'[sessions'[id'[d]]] = sub[sessions[id[d]]] /\ keep'[d] = keep[d]
        BY <1>g, <1>h, <1>i, <2>1, <3>1 DEF TypeOK
      <3>3. sub[sessions[id[d]]] # mySub[c]
        BY <1>a, <2>1, <3>1
      <3>4. QED BY <1>d, <1>e, <2>1, <3>1, <3>2, <3>3 DEF EndingOK
    <2>2. ASSUME mgr # "down"
          PROVE  LET s == sub'[sessions'[id'[c]]]
                 IN IF keep'[c] THEN s # Nil /\ topics'[s] ELSE s = Nil
      <3>1. keep'[c] = Keeps(c)
        BY <1>h DEF TypeOK
      <3>2. sub'[sessions'[id'[c]]] = IF Keeps(c) THEN mySub[c] ELSE Nil
        BY <1>a, <1>g, <1>i, <2>2
      <3>3. Keeps(c) => topics'[mySub[c]] /\ mySub[c] # Nil
        BY <1>a, <1>h, <1>j, <2>2
      <3>4. QED BY ONLY <3>1, <3>2, <3>3
    <2>3. \A d \in Conn : phase'[d] = "ending" => d = c \/ phase[d] = "ending"
      BY <1>h DEF TypeOK
    <2>4. QED BY <1>i, <2>1, <2>2, <2>3 DEF EndingOK
  <1>3. PinOK'
    BY <1>i DEF PinOK
  <1>4. OwnedOK'
    <2>1. ASSUME NEW s \in Conn, topics'[s], mgr # "down"
          PROVE  \E i \in ClientId : sessions'[i] # Nil /\ sub'[sessions'[i]] = s
      <3>1. topics[s] /\ (s = mySub[c] => Keeps(c))
        BY <1>d, <1>j, <2>1
      <3>2. PICK i \in ClientId : sessions[i] # Nil /\ sub[sessions[i]] = s
        BY <2>1, <3>1 DEF OwnedOK
      <3>3. sub'[sessions[i]] = s
        BY <1>a, <1>e, <1>g, <2>1, <3>1, <3>2
      <3>4. QED BY <1>i, <3>2, <3>3
    <2>2. QED BY <1>i, <2>1 DEF OwnedOK
  <1>5. UsefulOK'
    <2>1. ASSUME NEW i \in ClientId, mgr # "down", sessions[i] # Nil, ses[sessions[i]] = Nil,
                 sub[sessions[i]] # Nil, topics[sub[sessions[i]]]
          PROVE  sub'[sessions[i]] # Nil /\ topics'[sub'[sessions[i]]]
      <3>1. sessions[i] \in Conn /\ sessions[i] # k
        BY <1>a, <1>e, <2>1
      <3>2. QED BY <1>a, <1>d, <1>e, <1>g, <2>1, <3>1
    <2>2. QED BY <1>i, <1>l, <2>1 DEF UsefulOK
  <1>6. QED BY <1>1, <1>2, <1>3, <1>4, <1>5

LEMMA SessionOfflineSubs ==
  ASSUME TInv, StopOK', PInv, IInv, SInv, NEW c \in Conn, SessionOffline(c)
  PROVE  SInv'
  <1> USE DEF TInv, StopOK, PInv, IInv, SInv, Gone, SessionOffline, Removes, Remaining
  <1> DEFINE k    == sessions[id[c]]
             gone == k # Nil /\ ~keep[c] /\ removable[k]
  <1>a. /\ \A j \in Conn : ses'[j] = IF j = k THEN Nil ELSE ses[j]
        /\ phase[c] = "ending"
        /\ \A d \in Conn : d # c => keep'[d] = keep[d]
        /\ UNCHANGED <<pc, id, box, mySub, sub, removable, topics, mgr>>
    BY DEF TypeOK
  <1>b. mgr # "down" => /\ k \in Conn /\ ses[k] = c /\ id[c] \in ClientId /\ pc[c] \in {"start", "done"}
                        /\ IF keep[c] THEN sub[k] # Nil /\ topics[sub[k]] ELSE sub[k] = Nil
    BY <1>a, LiveContainer DEF EndingOK
  <1>c. \A i \in ClientId : /\ sessions[i] \in Conn \cup {Nil}
                            /\ sessions'[i] = IF i = id[c] /\ gone THEN Nil ELSE sessions[i]
    BY DEF TypeOK
  <1>d. \A d \in Conn : phase'[d] = IF d = c THEN "closed" ELSE phase[d]
    BY DEF TypeOK
  <1>e. mgr # "down" => \A i \in ClientId : sessions[i] = k => i = id[c]
    BY <1>b DEF MapOK
  <1>f. \A d \in Conn : mgr # "down" /\ Live(d) /\ d # c => id[d] # id[c] /\ id[d] \in ClientId
    BY <1>b, LiveContainer
  <1> HIDE DEF SessionOffline, k, gone
  <1>1. SubOK'
    <2>1. ASSUME NEW d \in Conn, d # c, mgr # "down",
                 pc[d] \in {"persist", "ack"} \/ phase[d] \in Serving
          PROVE  id[d] # id[c] /\ id[d] \in ClientId
      <3>1. CASE phase[d] \in Serving
        BY <1>f, <2>1, <3>1
      <3>2. CASE pc[d] \in {"persist", "ack"}
        BY <1>b, <2>1, <3>2 DEF BoxOK, PlacesOK, k
      <3>3. QED BY <2>1, <3>1, <3>2
    <2>2. pc[c] \notin {"persist", "ack"}
      BY <1>a DEF PlacesOK
    <2>3. QED BY <1>a, <1>c, <1>d, <2>1, <2>2 DEF SubOK
  <1>2. EndingOK'
    BY <1>a, <1>c, <1>d, <1>f DEF EndingOK
  <1>3. PinOK'
    BY <1>a DEF PinOK
  <1>4. OwnedOK'
    <2>1. ASSUME NEW s \in Conn, topics[s], mgr # "down"
          PROVE  \E i \in ClientId : sessions'[i] # Nil /\ sub[sessions'[i]] = s
      <3>1. PICK i \in ClientId : sessions[i] # Nil /\ sub[sessions[i]] = s
        BY <2>1 DEF OwnedOK
      <3>2. ~(i = id[c] /\ gone)
        BY <1>b, <2>1, <3>1 DEF k, gone
      <3>3. QED BY <1>c, <3>1, <3>2
    <2>2. QED BY <1>a, <2>1 DEF OwnedOK
  <1>5. UsefulOK'
    <2>1. ASSUME NEW i \in ClientId, mgr # "down", sessions'[i] # Nil
          PROVE  \/ ses'[sessions'[i]] # Nil
                 \/ sub[sessions'[i]] # Nil /\ topics[sub[sessions'[i]]]
                 \/ \E d \in Conn : pc[d] \in Loading /\ ~Gone(d)' /\ box[d] = sessions'[i]
      <3>1. sessions'[i] = sessions[i] /\ sessions[i] \in Conn
        BY <1>c, <2>1
      <3>2. CASE sessions[i] = k
        <4>1. keep[c] \/ ~removable[k]
          BY <1>b, <1>c, <1>e, <2>1, <3>1, <3>2 DEF gone
        <4>2. CASE keep[c]
          BY <1>b, <2>1, <3>1, <3>2, <4>2
        <4>3. CASE ~removable[k]
          BY <1>a, <1>b, <2>1, <3>1, <3>2, <4>3 DEF PinOK
        <4>4. QED BY <4>1, <4>2, <4>3
      <3>3. CASE sessions[i] # k
        <4>1. \/ ses[sessions[i]] # Nil
              \/ sub[sessions[i]] # Nil /\ topics[sub[sessions[i]]]
              \/ \E d \in Conn : pc[d] \in Loading /\ ~Gone(d) /\ box[d] = sessions[i]
          BY <2>1, <3>1 DEF UsefulOK
        <4>2. ASSUME NEW d \in Conn, pc[d] \in Loading, ~Gone(d), box[d] = sessions[i], Gone(d)'
              PROVE  FALSE
          <5>1. d = c /\ pc[c] = "start"
            BY <1>a, <1>d, <4>2
          <5>2. box[c] = k
            BY <1>a, <4>2, <5>1 DEF BoxOK, k
          <5>3. QED BY <3>3, <4>2, <5>1, <5>2
        <4>3. QED BY <1>a, <3>1, <3>3, <4>1, <4>2
      <3>4. QED BY <3>2, <3>3
    <2>2. QED BY <1>a, <2>1 DEF UsefulOK
  <1>6. QED BY <1>1, <1>2, <1>3, <1>4, <1>5

LEMMA QuietSubs ==
  ASSUME SInv, UNCHANGED vars
  PROVE  SInv'
  BY DEF SInv, SubOK, EndingOK, PinOK, OwnedOK, UsefulOK, Gone

LEMMA InitSInv == Init => SInv
  BY DEF Init, SInv, SubOK, EndingOK, PinOK, OwnedOK, UsefulOK

LEMMA NextSInv ==
  ASSUME TInv, TInv', PInv, IInv, SInv, [Next]_vars
  PROVE  SInv'
  <1>0. StopOK'
    BY DEF TInv
  <1>1. ASSUME NEW c \in Conn, Accept(c) PROVE SInv'
    BY <1>0, <1>1, StoreNewSubs, LoadExistingSubs, CountNewSubs, AcquireSubs, PinSubs,
       CurrentSubs, StopCurrentSubs, CurrentClosedSubs, CheckRemovedSubs, SwapSubs,
       UnpinSubs, SubscriberSubs, PersistSubs, AcknowledgeSubs, AcknowledgeFailsSubs,
       StartSubs, NeverTaken DEF Accept
  <1>2. ASSUME NEW c \in Conn, Client(c) PROVE SInv'
    BY <1>0, <1>2, ConnectSubs, SubscribeSubs, UnSubscribeSubs, DropSubs,
         FallsSilentSubs
       DEF Client
  <1>3. ASSUME NEW c \in Conn, Close(c) PROVE SInv'
    BY <1>0, <1>3, OfflineSubs, ConnectionCloseSubs, SessionOfflineSubs DEF Close
  <1>4. CASE Manager
    BY <1>0, <1>4, VisitSubs, VisitIdleSubs, VisitRunningSubs, StoppingClosedSubs,
       CountZeroSubs, ShutdownSubs DEF Manager
  <1>5. CASE Stop
    BY <1>0, <1>5, StopSubs
  <1>6. CASE UNCHANGED vars
    BY <1>6, QuietSubs
  <1>7. QED BY <1>1, <1>2, <1>3, <1>4, <1>5, <1>6 DEF Next

GuardedSubs == swept \/ (IInv /\ SInv)

LEMMA SubscriberInvariant == Spec => []GuardedSubs
  <1>1. Init => GuardedSubs
    BY InitIInv, InitSInv DEF GuardedSubs
  <1>2. TInv /\ TInv' /\ PInv /\ GuardedSubs /\ [Next]_vars => GuardedSubs'
    BY NextIInv, NextSInv, Sweeping DEF GuardedSubs
  <1>3. QED BY <1>1, <1>2, TypesInvariant, PTL DEF Spec

\* Until a lock is lost no subscriber is left in the topics manager without a
\* container that leads to it, and no container in the map without a use, whatever
\* takeovers and closes interleave (container.go:52, sessions.go:723).
THEOREM NoOrphanCorrect == Spec => []NoOrphan
  <1>1. GuardedSubs => NoOrphan
    BY DEF GuardedSubs, SInv, OwnedOK, UsefulOK, NoneOrphaned, NoOrphan
  <1>2. QED BY <1>1, SubscriberInvariant, PTL

-----------------------------------------------------------------------------
(* What the subscriptions of an id survive.                                 *)

Parting(i) == \E c \in Conn : id[c] = i /\ Unsubscribes(c)

LEMMA OwnTopics ==
  ASSUME TInv, IInv, SInv, NEW c \in Conn, phase[c] \in Serving, NEW i \in ClientId, Subscribed(i),
         sub[sessions[i]] = mySub[c] \/ sessions[i] = sessions[id[c]]
  PROVE  i = id[c] /\ sub[sessions[i]] = mySub[c]
  <1>1. mgr # "down" /\ sessions[i] \in Conn
    BY DEF TInv, TypeOK, StopOK, Subscribed
  <1>2. sessions[i] = sessions[id[c]] /\ id[c] \in ClientId /\ sub[sessions[id[c]]] = mySub[c]
    BY <1>1, OthersSubscriber, LiveContainer
  <1>3. id[sessions[i]] = i /\ id[sessions[i]] = id[c]
    BY <1>1, <1>2 DEF TInv, MapOK
  <1>4. QED BY <1>2, <1>3

LEMMA TopicsPart ==
  ASSUME TInv, IInv, SInv, NEW c \in Conn, UnSubscribe(c) \/ Offline(c), NEW i \in ClientId,
         Subscribed(i), ~Subscribed(i)'
  PROVE  Parting(i)
  <1>1. phase[c] \in Serving /\ UNCHANGED <<sub, sessions>>
    BY DEF UnSubscribe, Offline
  <1>2. sub[sessions[i]] \in Conn /\ topics[sub[sessions[i]]]
    BY DEF Subscribed, TInv, TypeOK
  <1>3. ~topics'[sub[sessions[i]]]
    BY <1>1 DEF Subscribed
  <1>4. sub[sessions[i]] = mySub[c] /\ (clean[c] \/ UnSubscribe(c))
    BY <1>2, <1>3 DEF UnSubscribe, Offline, AfterOffline, TInv, TypeOK
  <1>5. QED BY <1>1, <1>4, OwnTopics DEF Parting, Unsubscribes

LEMMA ConnectionClosePart ==
  ASSUME TInv, IInv, SInv, NEW c \in Conn, ConnectionClose(c), NEW i \in ClientId,
         Subscribed(i), ~Subscribed(i)'
  PROVE  Parting(i)
  <1>1. phase[c] \in Serving /\ UNCHANGED sessions
    BY DEF ConnectionClose
  <1>2. sessions[i] \in Conn /\ sub[sessions[i]] \in Conn /\ topics[sub[sessions[i]]]
    BY DEF Subscribed, TInv, TypeOK
  <1>3. sub'[sessions[i]] = Nil \/ ~topics'[sub'[sessions[i]]]
    BY <1>1 DEF Subscribed
  <1>4. ~Keeps(c) /\ (sub[sessions[i]] = mySub[c] \/ sessions[i] = sessions[id[c]])
    BY <1>2, <1>3 DEF ConnectionClose, AfterOffline
  <1>5. i = id[c] /\ sub[sessions[i]] = mySub[c]
    BY <1>1, <1>4, OwnTopics
  <1>6. QED BY <1>2, <1>4, <1>5 DEF Keeps, Parting, Unsubscribes

\* What the close removes has no subscriber any more.
LEMMA SessionOfflineParts ==
  ASSUME TInv, IInv, SInv, NEW c \in Conn, SessionOffline(c), NEW i \in ClientId, Subscribed(i)
  PROVE  Subscribed(i)'
  <1>1. mgr # "down" /\ phase[c] = "ending" /\ UNCHANGED <<sub, topics>>
    BY DEF TInv, StopOK, Subscribed, SessionOffline
  <1>2. sessions'[i] = sessions[i] \/ (i = id[c] /\ ~keep[c])
    BY DEF SessionOffline, Removes, TInv, TypeOK
  <1>3. i = id[c] => keep[c]
    BY <1>1 DEF SInv, EndingOK, Subscribed
  <1>4. QED BY <1>1, <1>2, <1>3 DEF Subscribed

\* Nor does a clean start end anybody else's subscriptions.
LEMMA SubscriberParts ==
  ASSUME TInv, IInv, SInv, NEW c \in Conn, Subscriber(c), NEW i \in ClientId,
         Subscribed(i), ~Subscribed(i)'
  PROVE  Parting(i)
  <1>1. /\ box[c] \in Conn /\ sessions[id[c]] = box[c] /\ id[c] \in ClientId
        /\ sessions[i] \in Conn /\ sub[sessions[i]] \in Conn /\ topics[sub[sessions[i]]]
    BY DEF Subscriber, TInv, TypeOK, PlacesOK, IInv, BoxOK, Gone, Subscribed
  <1>2. CASE sessions[i] = box[c]
    <2>1. i = id[c]
      BY <1>1, <1>2 DEF TInv, MapOK
    <2>2. Resumes(c) => sub' = [sub EXCEPT ![box[c]] = sub[box[c]]]
                        /\ topics' = AfterOffline(sub[box[c]], FALSE)
      BY <1>1 DEF Subscriber, TInv, TypeOK
    <2>3. Resumes(c) => sub'[box[c]] = sub[box[c]]
      BY <1>1, <2>2 DEF TInv, TypeOK
    <2>4. Resumes(c) => topics'[sub[box[c]]]
      BY <1>1, <1>2, <2>2 DEF AfterOffline
    <2>5. UNCHANGED sessions
      BY DEF Subscriber
    <2>6. ~Resumes(c)
      BY <1>1, <1>2, <2>3, <2>4, <2>5 DEF Subscribed
    <2>7. clean[c]
      BY <1>1, <1>2, <2>6 DEF Resumes
    <2>8. QED BY <2>1, <2>7 DEF Parting, Unsubscribes
  <1>3. CASE sessions[i] # box[c]
    <2>1. sub[sessions[i]] # sub[box[c]]
      BY <1>1, <1>3, OneSubscriber
    <2>2. sub'[sessions[i]] = sub[sessions[i]] /\ topics'[sub[sessions[i]]] /\ UNCHANGED sessions
      BY <1>1, <1>3, <2>1 DEF Subscriber, AfterOffline, TInv, TypeOK
    <2>3. QED BY <1>1, <2>2 DEF Subscribed
  <1>4. QED BY <1>2, <1>3

LEMMA StoreNewParts ==
  ASSUME TInv, NEW c \in Conn, StoreNew(c), NEW i \in ClientId, Subscribed(i)
  PROVE  Subscribed(i)'
  BY DEF StoreNew, Subscribed, TInv, TypeOK

LEMMA NextParts ==
  ASSUME TInv, IInv, SInv, [Next]_vars, NEW i \in ClientId, Subscribed(i), ~Subscribed(i)'
  PROVE  mgr' = "down" \/ Parting(i)
  <1> DEFINE Same == UNCHANGED <<sessions, sub, topics>>
  <1>1. ~Same
    BY DEF Subscribed
  <1>2. ASSUME NEW c \in Conn, Accept(c) PROVE Parting(i)
    <2>1. StoreNew(c) \/ Subscriber(c) \/ Same
      BY <1>2, NeverTaken DEF Accept, LoadExisting, CountNew, Acquire, Pin, Current,
         StopCurrent, CurrentClosed, CheckRemoved, Swap, Unpin, Persist, Acknowledge,
         AcknowledgeFails, Start
    <2>2. QED BY <1>1, <2>1, StoreNewParts, SubscriberParts
  <1>3. ASSUME NEW c \in Conn, Client(c) PROVE Parting(i)
    <2>1. CASE Subscribe(c)
      BY <2>1 DEF Subscribe, Subscribed, TInv, TypeOK
    <2>2. Subscribe(c) \/ UnSubscribe(c) \/ Same
      BY <1>3 DEF Client, Connect, Drop, FallsSilent
    <2>3. QED BY <1>1, <2>1, <2>2, TopicsPart
  <1>4. ASSUME NEW c \in Conn, Close(c) PROVE Parting(i)
    BY <1>4, TopicsPart, ConnectionClosePart, SessionOfflineParts DEF Close
  <1>5. CASE Manager \/ Stop \/ UNCHANGED vars
    BY <1>1, <1>5 DEF Manager, Stop, Visit, VisitIdle, VisitRunning, StoppingClosed,
       CountZero, Shutdown
  <1>6. QED BY <1>2, <1>3, <1>4, <1>5 DEF Next

\* The subscriptions of a durable session survive every close and every takeover,
\* also between clean sessions of the id, until a lock is lost: only an
\* UNSUBSCRIBE, or the CONNECT or the close of a clean session, ends them
\* (session.go:297, container.go:53).
THEOREM DurableSurvivesCorrect == Spec => DurableSurvives
  <1>1. TInv /\ GuardedSubs /\ [Next]_vars =>
          [\A i \in ClientId : Subscribed(i) /\ ~Subscribed(i)' =>
             \/ mgr' = "down"
             \/ \E c \in Conn : id[c] = i /\ Unsubscribes(c)
             \/ swept']_vars
    <2> SUFFICES ASSUME TInv, GuardedSubs, [Next]_vars, ~swept', NEW i \in ClientId,
                        Subscribed(i), ~Subscribed(i)'
                 PROVE  mgr' = "down" \/ Parting(i)
      BY DEF Parting
    <2>1. QED BY NextParts, Sweeping DEF GuardedSubs
  <1>2. QED BY <1>1, TypesInvariant, SubscriberInvariant, PTL DEF Spec, DurableSurvives
=============================================================================

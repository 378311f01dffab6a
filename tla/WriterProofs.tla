---------------------------- MODULE WriterProofs ----------------------------
(***************************************************************************)
(* The safety of the writer, for any publishes, quota, number of packet    *)
(* ids and number (at least two) of names for goroutines, one layer on     *)
(* top of the other:                                                       *)
(*                                                                         *)
(* - running, wgRunSync and wg: one goroutine writes at a time, and none   *)
(*   after stop (IInv);                                                    *)
(* - what is where, and under which packet id: everything on its way has   *)
(*   an id of its own, which is in use, and what is missing of the quota   *)
(*   are the ids in use (Shape, Places);                                   *)
(* - the order: what was accepted is, from the first to the last, on the   *)
(*   wire, in the hands of the goroutine that writes, and in the queue     *)
(*   (AcceptedOK, OrderOK);                                                *)
(* - whoever leaves something in a queue sees to it that a goroutine looks *)
(*   at the queues (WakeOK, RunStands);                                    *)
(* - what the client has answered it has read, and what it has not read is *)
(*   in a queue or in the ack queue, to be persisted (TraceOK, SafeOK).    *)
(***************************************************************************)
EXTENDS Writer, FiniteSetTheorems, SequenceTheorems, TLAPS

SendingSteps == {"general", "qos12", "keep", "qos0", "write", "leave"}
EndingSteps  == {"flush", "recheck", "run", "claim", "done"}

\* A goroutine that running stands for, and one that wgRunSync counts.
Runs(r)   == pc[r] \in {"sync", "check"} \cup SendingSteps
Synced(r) == pc[r] \in SendingSteps \cup EndingSteps

BusyRoutines == {r \in Routine : Busy(r)}

Late == {"stopped", "queues", "closed"}

ControlOK ==
  /\ running \in BOOLEAN /\ quit \in BOOLEAN /\ passed \in BOOLEAN
  /\ pc \in [Caller -> Steps]
  /\ \A r \in Routine : Busy(r) => Runs(r) \/ Synced(r)

\* running stands for one goroutine, wgRunSync counts one goroutine, and nobody
\* is past its wait for the other as long as that counts.
HandOver ==
  /\ \A r \in Routine : Runs(r) => running
  /\ \A r, s \in Routine : Runs(r) /\ Runs(s) => r = s
  /\ \A r, s \in Routine : Synced(r) /\ Synced(s) => r = s
  /\ \A r, s \in Routine : pc[r] = "check" => ~Synced(s)
  /\ wgRunSync = IF \E r \in Routine : Synced(r) THEN 1 ELSE 0

\* stop waits for the goroutines there are.
Counted == wg = Cardinality(BusyRoutines)

\* What the close has brought to rest.
CloseOK ==
  /\ closing \in {"open", "begun", "offline", "quit"} \cup Late
  /\ closing \notin {"open", "begun"} => pc[Reader] = "idle" /\ \A m \in Pub : pc[m] \in {"idle", "ran"}
  /\ quit <=> closing \in {"quit"} \cup Late
  /\ quit => pc[Starter] = "ran"
  /\ closing \in Late /\ ~passed => \A r \in Routine : ~Busy(r)

IInv == ControlOK /\ HandOver /\ Counted /\ CloseOK

ctlVars == <<running, wgRunSync, wg, quit, closing, passed>>

USE WriterAssumption
    DEF Caller, Steps, SendingSteps, EndingSteps, Late, Busy, Sending, Goto, isAlive

-----------------------------------------------------------------------------
(* Counting the goroutines *)

\* A step that makes none busy or idle keeps their number.
LEMMA SameCount ==
  ASSUME Counted, wg' = wg, \A r \in Routine : Busy(r)' <=> Busy(r)
  PROVE  Counted'
  <1>1. BusyRoutines' = BusyRoutines
    BY DEF BusyRoutines
  <1>2. QED BY <1>1 DEF Counted

\* wg.Add(1) with the start of a goroutine.
LEMMA OneMore ==
  ASSUME Counted, NEW r \in Routine, ~Busy(r), Busy(r)', wg' = wg + 1,
         \A s \in Routine \ {r} : Busy(s)' <=> Busy(s)
  PROVE  Counted'
  <1>1. BusyRoutines' = BusyRoutines \cup {r} /\ r \notin BusyRoutines
    BY DEF BusyRoutines
  <1>2. IsFiniteSet(BusyRoutines)
    BY FS_Subset, RoutineAssumption DEF BusyRoutines
  <1>3. Cardinality(BusyRoutines \cup {r}) = Cardinality(BusyRoutines) + 1
    BY <1>1, <1>2, FS_AddElement
  <1>4. QED BY <1>1, <1>3 DEF Counted

\* wg.Done with its end.
LEMMA OneLess ==
  ASSUME Counted, NEW r \in Routine, Busy(r), ~Busy(r)', wg' = wg - 1,
         \A s \in Routine \ {r} : Busy(s)' <=> Busy(s)
  PROVE  Counted'
  <1>1. BusyRoutines' = BusyRoutines \ {r} /\ r \in BusyRoutines
    BY DEF BusyRoutines
  <1>2. IsFiniteSet(BusyRoutines)
    BY FS_Subset, RoutineAssumption DEF BusyRoutines
  <1>3. Cardinality(BusyRoutines \ {r}) = Cardinality(BusyRoutines) - 1
    BY <1>1, <1>2, FS_RemoveElement
  <1>4. QED BY <1>1, <1>3 DEF Counted

\* Once wg.Wait has returned no goroutine is left.
LEMMA NoneBusy ==
  ASSUME Counted, wg = 0
  PROVE  \A r \in Routine : ~Busy(r)
  <1>1. IsFiniteSet(BusyRoutines)
    BY FS_Subset, RoutineAssumption DEF BusyRoutines
  <1>2. BusyRoutines = {}
    BY <1>1, FS_EmptySet DEF Counted
  <1>3. QED BY <1>2 DEF BusyRoutines

-----------------------------------------------------------------------------
(* Steps that leave the protocol alone *)

\* Nobody's program counter moves, and nothing the protocol consists of changes.
LEMMA Elsewhere ==
  ASSUME IInv, UNCHANGED <<ctlVars, pc>>
  PROVE  IInv'
  <1>1. ControlOK' /\ HandOver' /\ CloseOK'
    BY DEF IInv, ControlOK, HandOver, CloseOK, Runs, Synced, ctlVars
  <1>2. Counted'
    BY SameCount DEF IInv, ctlVars
  <1>3. QED BY <1>1, <1>2 DEF IInv

\* A goroutine goes on sending, or goes on ending.
LEMMA GoesOn ==
  ASSUME IInv, UNCHANGED ctlVars, NEW r \in Routine, NEW step,
         pc' = [pc EXCEPT ![r] = step],
         \/ pc[r] \in SendingSteps /\ step \in SendingSteps
         \/ pc[r] \in EndingSteps /\ step \in EndingSteps
  PROVE  IInv'
  <1>1. ControlOK' /\ HandOver'
    BY DEF IInv, ControlOK, HandOver, Runs, Synced, ctlVars
  <1>2. CloseOK'
    BY DEF IInv, ControlOK, CloseOK, ctlVars
  <1>3. Counted'
    BY SameCount DEF IInv, ControlOK, ctlVars
  <1>4. QED BY <1>1, <1>2, <1>3 DEF IInv

\* A publisher, the reader or the start goes on.
LEMMA CallerGoesOn ==
  ASSUME IInv, UNCHANGED ctlVars, NEW t \in Caller \ Routine, NEW step \in Steps,
         pc' = [pc EXCEPT ![t] = step],
         \/ closing \in {"open", "begun"}
         \/ t \in Pub /\ pc[t] \notin {"idle", "ran"}
         \/ t = Reader /\ pc[t] # "idle"
         \/ t = Starter /\ pc[t] # "ran"
  PROVE  IInv'
  <1>1. \A r \in Routine : pc'[r] = pc[r]
    BY DEF IInv, ControlOK
  <1>2. ControlOK'
    BY <1>1 DEF IInv, ControlOK, Runs, Synced, ctlVars
  <1>3. HandOver'
    BY <1>1 DEF IInv, HandOver, Runs, Synced, ctlVars
  <1>4. CloseOK'
    BY <1>1 DEF IInv, ControlOK, CloseOK, ctlVars
  <1>5. Counted'
    BY <1>1, SameCount DEF IInv, ctlVars
  <1>6. QED BY <1>2, <1>3, <1>4, <1>5 DEF IInv

-----------------------------------------------------------------------------
(* Steps of the protocol *)

LEMMA RunStep ==
  ASSUME IInv, NEW t \in Caller, Run(t)
  PROVE  IInv'
  <1> USE DEF AfterRun
  <1>1. CASE RunChecks(t)
    <2>1. CASE t \in Routine
      BY <1>1, <2>1, GoesOn DEF RunChecks, runVars, closeVars, ctlVars
    <2>2. CASE t \notin Routine
      <3>1. PICK step \in Steps : pc' = [pc EXCEPT ![t] = step]
        BY <1>1, <2>2 DEF RunChecks
      <3>2. QED BY <1>1, <2>2, <3>1, CallerGoesOn DEF RunChecks, runVars, closeVars, ctlVars
    <2>3. QED BY <2>1, <2>2
  <1>2. CASE RunClaims(t) /\ running
    <2>1. CASE t \in Routine
      BY <1>2, <2>1, GoesOn DEF RunClaims, closeVars, ctlVars, IInv, ControlOK
    <2>2. CASE t \notin Routine
      <3>1. PICK step \in Steps : pc' = [pc EXCEPT ![t] = step]
        BY <1>2, <2>2 DEF RunClaims
      <3>2. QED BY <1>2, <2>2, <3>1, CallerGoesOn DEF RunClaims, closeVars, ctlVars
    <2>3. QED BY <2>1, <2>2
  <1>3. CASE RunClaims(t) /\ ~running
    <2>1. PICK r \in Routine : pc[r] = "idle" /\ pc' = [pc EXCEPT ![r] = "sync", ![t] = AfterRun(t)]
      BY <1>3 DEF RunClaims
    <2>2. /\ r # t /\ pc[t] = "claim" /\ running' = TRUE /\ wg' = wg + 1
          /\ UNCHANGED <<wgRunSync, quit, closing, passed>>
      BY <1>3, <2>1 DEF RunClaims, closeVars
    <2>3. /\ pc'[r] = "sync"
          /\ t \in Routine => pc'[t] = "done"
          /\ \A s \in Caller \ {r, t} : pc'[s] = pc[s]
          /\ pc' \in [Caller -> Steps]
          /\ t \notin Routine => pc'[t] \in {"idle", "delete", "ran"}
          /\ t \in Pub \cup {Starter} => pc'[t] = "ran"
      BY <2>1, <2>2 DEF IInv, ControlOK
    <2>4. ControlOK'
      BY <2>2, <2>3 DEF IInv, ControlOK, Runs, Synced
    <2>5. HandOver'
      <3>1. \A s \in Routine : Synced(s)' = Synced(s)
        BY <2>1, <2>2, <2>3 DEF Synced
      <3>2. \A s \in Routine : Runs(s)' = (s = r)
        BY <1>3, <2>1, <2>2, <2>3 DEF IInv, HandOver, Runs
      <3>3. \A s \in Routine : pc'[s] # "check"
        BY <3>2, <2>3 DEF Runs
      <3>4. QED BY <2>2, <3>1, <3>2, <3>3 DEF IInv, HandOver
    <2>6. CloseOK'
      <3>1. CASE closing \in {"open", "begun"}
        BY <2>2, <3>1 DEF IInv, ControlOK, CloseOK
      <3>2. CASE closing \notin {"open", "begun"}
        <4>1. t \in Routine \/ (t = Starter /\ closing = "offline")
          <5>1. t \notin Pub /\ t # Reader
            BY <2>2, <3>2 DEF IInv, CloseOK
          <5>2. t = Starter => closing = "offline"
            BY <2>2, <3>2 DEF IInv, CloseOK
          <5>3. QED BY <5>1, <5>2
        <4>2. closing \in Late => passed
          BY <2>2, <4>1 DEF IInv, CloseOK
        <4>3. pc'[Reader] = "idle" /\ \A m \in Pub : pc'[m] \in {"idle", "ran"}
          BY <2>3, <3>2, <4>1 DEF IInv, CloseOK
        <4>4. quit => pc'[Starter] = "ran"
          BY <2>3, <4>1 DEF IInv, CloseOK
        <4>5. QED BY <2>2, <4>2, <4>3, <4>4 DEF IInv, CloseOK
      <3>3. QED BY <3>1, <3>2
    <2>7. Counted'
      BY <2>1, <2>2, <2>3, OneMore DEF IInv
    <2>8. QED BY <2>4, <2>5, <2>6, <2>7 DEF IInv
  <1>4. QED BY <1>1, <1>2, <1>3 DEF Run, RunClaims

LEMMA SyncStep ==
  ASSUME IInv, NEW r \in Routine, Sync(r)
  PROVE  IInv'
  <1> USE DEF Sync, PreviousDone, runVars, closeVars
  <1>1. ControlOK' /\ HandOver'
    BY DEF IInv, ControlOK, HandOver, Runs, Synced
  <1>2. CloseOK'
    BY DEF IInv, ControlOK, CloseOK
  <1>3. Counted'
    BY SameCount DEF IInv, ControlOK
  <1>4. QED BY <1>1, <1>2, <1>3 DEF IInv

LEMMA CheckStep ==
  ASSUME IInv, NEW r \in Routine, Check(r)
  PROVE  IInv'
  <1> USE DEF Check, Left, closeVars
  <1>1. ControlOK' /\ HandOver'
    BY DEF IInv, ControlOK, HandOver, Runs, Synced
  <1>2. CloseOK'
    BY DEF IInv, ControlOK, CloseOK
  <1>3. CASE ~quit
    <2>1. wg' = wg /\ pc' = [pc EXCEPT ![r] = "general"]
      BY <1>3
    <2>2. \A s \in Routine : Busy(s)' <=> Busy(s)
      BY <2>1 DEF IInv, ControlOK
    <2>3. QED BY <1>1, <1>2, <2>1, <2>2, SameCount DEF IInv
  <1>4. CASE quit
    <2>1. wg' = wg - 1 /\ pc' = [pc EXCEPT ![r] = "idle"]
      BY <1>4
    <2>2. /\ Busy(r) /\ ~Busy(r)'
          /\ \A s \in Routine \ {r} : Busy(s)' <=> Busy(s)
      BY <2>1 DEF IInv, ControlOK
    <2>3. QED BY <1>1, <1>2, <2>1, <2>2, OneLess DEF IInv
  <1>5. QED BY <1>1, <1>2, <1>3, <1>4 DEF IInv

LEMMA LeaveStep ==
  ASSUME IInv, NEW r \in Routine, Leave(r)
  PROVE  IInv'
  <1> USE DEF Leave, closeVars
  <1>1. ControlOK'
    BY DEF IInv, ControlOK, Runs, Synced
  <1>2. HandOver'
    <2>1. Synced(r) /\ ~Runs(r)' /\ \A s \in Routine \ {r} : Runs(s)' <=> Runs(s)
      BY DEF IInv, ControlOK, Runs, Synced
    <2>2. \A s \in Routine : Synced(s)' <=> Synced(s)
      BY DEF IInv, ControlOK, Runs, Synced
    <2>3. QED BY <2>1, <2>2 DEF IInv, ControlOK, HandOver, Runs
  <1>3. CloseOK'
    BY DEF IInv, ControlOK, CloseOK
  <1>4. Counted'
    <2>1. wg' = wg /\ \A s \in Routine : Busy(s)' <=> Busy(s)
      BY DEF IInv, ControlOK
    <2>2. QED BY <2>1, SameCount DEF IInv
  <1>5. QED BY <1>1, <1>2, <1>3, <1>4 DEF IInv

LEMMA DoneStep ==
  ASSUME IInv, NEW r \in Routine, Done(r)
  PROVE  IInv'
  <1>1. ControlOK' /\ HandOver'
    BY DEF Done, IInv, ControlOK, HandOver, Runs, Synced
  <1>2. \/ closing' = closing
        \/ closing = "open" /\ closing' = "begun"
    BY Zenon DEF Done
  <1>3. CloseOK'
    BY <1>2 DEF Done, IInv, ControlOK, CloseOK
  <1>4. Counted'
    BY OneLess DEF Done, Left, IInv, ControlOK
  <1>5. QED BY <1>1, <1>3, <1>4 DEF IInv

\* The remaining steps of a goroutine: it sends, or it ends.
LEMMA GoroutineStep ==
  ASSUME IInv, NEW r \in Routine, Goroutine(r)
  PROVE  IInv'
  <1> USE GoesOn DEF runVars, closeVars, ctlVars
  <1>1. CASE PopGeneral(r)
    BY <1>1 DEF PopGeneral
  <1>2. CASE TakeQoS12(r)
    BY <1>2 DEF TakeQoS12
  <1>3. CASE NoQoS12(r)
    BY <1>3 DEF NoQoS12
  <1>4. CASE Keep(r)
    BY <1>4 DEF Keep
  <1>5. CASE PopQoS0(r)
    BY <1>5 DEF PopQoS0
  <1>6. CASE Write(r)
    BY <1>6 DEF Write
  <1>7. CASE NothingLeft(r)
    BY <1>7 DEF NothingLeft
  <1>8. CASE Flush(r)
    BY <1>8 DEF Flush
  <1>9. CASE Recheck(r)
    BY <1>9 DEF Recheck
  <1>10. QED
    BY <1>1, <1>2, <1>3, <1>4, <1>5, <1>6, <1>7, <1>8, <1>9,
       SyncStep, CheckStep, LeaveStep, DoneStep DEF Goroutine

LEMMA AckingStep ==
  ASSUME IInv, Acking
  PROVE  IInv'
  <1> USE CallerGoesOn DEF runVars, closeVars, ctlVars
  <1>1. CASE Read
    BY <1>1 DEF Read
  <1>2. CASE Load
    BY <1>2 DEF Load
  <1>3. CASE Free
    BY <1>3 DEF Free
  <1>4. CASE Raise
    BY <1>4 DEF Raise
  <1>5. CASE Delete
    BY <1>5 DEF Delete
  <1>6. CASE StoreRel
    BY <1>6 DEF StoreRel
  <1>7. CASE Respond
    BY <1>7 DEF Respond
  <1>8. QED BY <1>1, <1>2, <1>3, <1>4, <1>5, <1>6, <1>7 DEF Acking

LEMMA ClosingStep ==
  ASSUME IInv, Close \/ Closing \/ PassBy
  PROVE  IInv'
  <1> USE DEF Close, Closing, PassBy, Offline, Quit, Stopped, CollectQueues, CollectUnAck, runVars
  <1>1. UNCHANGED <<pc, running, wgRunSync, wg>>
    OBVIOUS
  <1>2. ControlOK' /\ HandOver'
    BY <1>1 DEF IInv, ControlOK, HandOver, Runs, Synced
  <1>3. Counted'
    BY <1>1, SameCount DEF IInv
  <1>4. CASE Stopped
    <2>1. \A r \in Routine : ~Busy(r)
      BY <1>4, NoneBusy DEF IInv, AllLeft
    <2>2. CloseOK'
      BY <1>4, <2>1 DEF IInv, ControlOK, CloseOK
    <2>3. QED BY <1>2, <1>3, <2>2 DEF IInv
  <1>5. CASE Close \/ Offline \/ PassBy
    <2>1. CloseOK'
      BY <1>5 DEF IInv, ControlOK, CloseOK
    <2>2. QED BY <1>2, <1>3, <2>1 DEF IInv
  <1>6. CASE Quit
    <2>1. CloseOK'
      BY <1>6 DEF IInv, ControlOK, CloseOK
    <2>2. QED BY <1>2, <1>3, <2>1 DEF IInv
  <1>7. CASE CollectQueues \/ CollectUnAck
    <2>1. CloseOK'
      BY <1>7 DEF IInv, ControlOK, CloseOK
    <2>2. QED BY <1>2, <1>3, <2>1 DEF IInv
  <1>8. QED BY <1>4, <1>5, <1>6, <1>7

-----------------------------------------------------------------------------

LEMMA InitIInv ==
  ASSUME Init
  PROVE  IInv
  <1> USE DEF Init
  <1>1. /\ pc \in [Caller -> Steps] /\ closing = "open" /\ quit = FALSE
        /\ \A t \in Caller : pc[t] = "idle"
    OBVIOUS
  <1>2. ControlOK /\ HandOver
    BY <1>1 DEF ControlOK, HandOver, Synced, Runs
  <1>3. CloseOK
    BY <1>1 DEF CloseOK
  <1>4. BusyRoutines = {}
    BY <1>1 DEF BusyRoutines
  <1>5. Counted
    BY <1>4, FS_EmptySet DEF Counted
  <1>6. QED BY <1>2, <1>3, <1>5 DEF IInv

LEMMA NextIInv ==
  ASSUME IInv, [Next]_vars
  PROVE  IInv'
  <1> USE DEF queueVars, flowVars, runVars, outVars, closeVars, netVars, ctlVars
  <1>1. CASE \E t \in Caller : Run(t)
    BY <1>1, RunStep
  <1>2. CASE \E m \in Pub : Send(m)
    BY <1>2, CallerGoesOn DEF Send
  <1>3. CASE \E r \in Routine : Goroutine(r)
    BY <1>3, GoroutineStep
  <1>4. CASE Start
    BY <1>4, CallerGoesOn DEF Start
  <1>5. CASE Acking
    BY <1>5, AckingStep
  <1>6. CASE Close \/ Closing \/ PassBy
    BY <1>6, ClosingStep
  <1>7. CASE Break \/ ClientReads
    BY <1>7, Elsewhere DEF Break, ClientReads
  <1>8. CASE UNCHANGED vars
    BY <1>8, Elsewhere DEF vars
  <1>9. QED
    BY <1>1, <1>2, <1>3, <1>4, <1>5, <1>6, <1>7, <1>8 DEF Next, Over

\* At every moment one goroutine at most is started and has not left its loop, one
\* at most is past its wait for the previous one, and stop waits for all there are.
THEOREM Inductive == Spec => []IInv
  BY InitIInv, NextIInv, PTL DEF Spec

\* Of the goroutines that run, flush and check again, and their successors, one
\* at a time is between the wait for the previous one and the end of its flush
\* (writer.go:292-372), and run finds a goroutine to start (writer.go:240-249).
THEOREM SingleWriterCorrect == Spec => []SingleWriter
  <1>1. ASSUME IInv PROVE SingleWriter
    <2>1. ASSUME NEW r \in Routine, NEW s \in Routine, Sending(r),
                 pc[s] \in {"flush", "recheck", "general", "qos12", "keep", "qos0", "write", "leave"}
          PROVE  r = s
      BY <1>1, <2>1 DEF IInv, HandOver, Synced
    <2>2. ASSUME ~running PROVE \E r \in Routine : ~Busy(r)
      <3>1. \A r \in Routine : Busy(r) => Synced(r)
        BY <1>1, <2>2 DEF IInv, ControlOK, HandOver
      <3>2. QED BY <1>1, <3>1, RoutineAssumption DEF IInv, HandOver
    <2>3. QED BY <2>1, <2>2 DEF SingleWriter
  <1>2. QED BY <1>1, Inductive, PTL

\* Once stop has waited for the goroutines nothing is written any more
\* (writer.go:162-169, connection.go:673-683).
THEOREM SilentCorrect == Spec => SilentAfterStop
  <1>1. ASSUME IInv, [Next]_vars, closing \in {"stopped", "queues", "closed"}, ~passed
        PROVE  UNCHANGED wire
    <2> USE DEF netVars
    <2>1. \A r \in Routine : ~Write(r) /\ ~Flush(r)
      BY <1>1 DEF IInv, CloseOK, Write, Flush
    <2>2. CASE \E t \in Caller : Run(t)
      BY <2>2 DEF Run, RunChecks, RunClaims
    <2>3. CASE \E m \in Pub : Send(m)
      BY <2>3 DEF Send
    <2>4. CASE \E r \in Routine : Goroutine(r)
      BY <2>1, <2>4 DEF Goroutine, Sync, Check, PopGeneral, TakeQoS12, NoQoS12, Keep, PopQoS0,
                        NothingLeft, Leave, Recheck, Done
    <2>5. CASE Start \/ Acking
      BY <2>5 DEF Start, Acking, Read, Load, Free, Raise, Delete, StoreRel, Respond
    <2>6. CASE Close \/ Closing \/ PassBy
      BY <2>6 DEF Close, Closing, PassBy, Offline, Quit, Stopped, CollectQueues, CollectUnAck
    <2>7. CASE Break \/ ClientReads
      BY <2>7 DEF Break, ClientReads
    <2>8. CASE UNCHANGED vars
      BY <2>8 DEF vars
    <2>9. QED
      BY <1>1, <2>2, <2>3, <2>4, <2>5, <2>6, <2>7, <2>8 DEF Next, Over
  <1>2. QED BY <1>1, Inductive, PTL DEF Spec, SilentAfterStop

\* From here on the proofs cite what they use.
HIDE WriterAssumption
     DEF Caller, Steps, SendingSteps, EndingSteps, Late, Busy, Sending, Goto, isAlive

-----------------------------------------------------------------------------
(* Sequences of packets *)

\* The elements of a sequence; a packet with the id i; one with the id i that
\* carries m; no two with the same id, unless that is 0.
Elems(s) == {s[k] : k \in DOMAIN s}
In(s, i) == \E p \in Elems(s) : p.id = i
Carried(s, m, i) == \E p \in Elems(s) : p.id = i /\ p.msg = m
Once(s) == \A j, k \in DOMAIN s : s[j].id = s[k].id /\ s[j].id # 0 => j = k

\* What the operators on sequences return.
LEMMA AppendType ==
  ASSUME NEW S, NEW s \in Seq(S), NEW p \in S
  PROVE  Append(s, p) \in Seq(S)
  OBVIOUS

LEMMA ConcatType ==
  ASSUME NEW S, NEW s \in Seq(S), NEW t \in Seq(S)
  PROVE  s \o t \in Seq(S)
  OBVIOUS

LEMMA TailType ==
  ASSUME NEW S, NEW s \in Seq(S), s # <<>>
  PROVE  Tail(s) \in Seq(S) /\ Head(s) \in S
  OBVIOUS

\* The elements of a sequence, and that no two of them have the same id.
LEMMA ElemsEmpty == Elems(<<>>) = {} /\ Once(<<>>)
  BY DEF Elems, Once

LEMMA ElemsAppend ==
  ASSUME NEW S, NEW s \in Seq(S), NEW p \in S
  PROVE  Elems(Append(s, p)) = Elems(s) \cup {p}
  <1> DEFINE t == Append(s, p)
  <1>1. /\ DOMAIN t = 1 .. Len(s) + 1 /\ DOMAIN s = 1 .. Len(s) /\ Len(s) \in Nat
        /\ t[Len(s) + 1] = p /\ \A k \in 1 .. Len(s) : t[k] = s[k]
    OBVIOUS
  <1> HIDE DEF t
  <1>2. QED BY <1>1 DEF Elems

LEMMA ElemsConcat ==
  ASSUME NEW S, NEW s \in Seq(S), NEW t \in Seq(S)
  PROVE  Elems(s \o t) = Elems(s) \cup Elems(t)
  <1> DEFINE u == s \o t
  <1>1. /\ DOMAIN u = 1 .. Len(s) + Len(t) /\ DOMAIN s = 1 .. Len(s) /\ DOMAIN t = 1 .. Len(t)
        /\ Len(s) \in Nat /\ Len(t) \in Nat
        /\ \A k \in 1 .. Len(s) : u[k] = s[k]
        /\ \A k \in 1 .. Len(t) : u[Len(s) + k] = t[k]
    OBVIOUS
  <1> HIDE DEF u
  <1>2. Elems(u) \subseteq Elems(s) \cup Elems(t)
    <2>1. ASSUME NEW k \in DOMAIN u PROVE u[k] \in Elems(s) \cup Elems(t)
      <3>1. CASE k <= Len(s)
        BY <1>1, <3>1 DEF Elems
      <3>2. CASE k > Len(s)
        <4>1. k - Len(s) \in 1 .. Len(t) /\ Len(s) + (k - Len(s)) = k
          BY <1>1, <3>2
        <4>2. u[k] = t[k - Len(s)]
          BY <1>1, <4>1
        <4>3. QED BY <1>1, <4>1, <4>2 DEF Elems
      <3>3. QED BY <1>1, <3>1, <3>2
    <2>2. QED BY <2>1 DEF Elems
  <1>3. Elems(s) \subseteq Elems(u)
    BY <1>1 DEF Elems
  <1>4. Elems(t) \subseteq Elems(u)
    BY <1>1 DEF Elems
  <1>5. QED BY <1>2, <1>3, <1>4 DEF u

LEMMA ElemsTail ==
  ASSUME NEW S, NEW s \in Seq(S), s # <<>>
  PROVE  /\ Head(s) \in S /\ Tail(s) \in Seq(S)
         /\ Elems(s) = Elems(Tail(s)) \cup {Head(s)}
  <1> DEFINE t == Tail(s)
             h == Head(s)
  <1>1. /\ DOMAIN s = 1 .. Len(s) /\ Len(s) \in Nat /\ Len(s) >= 1
        /\ DOMAIN t = 1 .. Len(s) - 1 /\ h = s[1] /\ h \in S /\ t \in Seq(S)
        /\ \A k \in 1 .. Len(s) - 1 : t[k] = s[k + 1]
    OBVIOUS
  <1> HIDE DEF t, h
  <1>2. Elems(s) \subseteq Elems(t) \cup {h}
    <2>1. ASSUME NEW k \in DOMAIN s, k # 1 PROVE s[k] \in Elems(t)
      <3>1. k - 1 \in DOMAIN t /\ (k - 1) + 1 = k
        BY <1>1, <2>1
      <3>2. s[k] = t[k - 1]
        BY <1>1, <3>1
      <3>3. QED BY <3>1, <3>2 DEF Elems
    <2>2. QED BY <1>1, <2>1 DEF Elems
  <1>3. Elems(t) \subseteq Elems(s)
    <2>1. \A k \in DOMAIN t : k + 1 \in DOMAIN s /\ t[k] = s[k + 1]
      BY <1>1
    <2>2. QED BY <2>1 DEF Elems
  <1>4. h \in Elems(s)
    BY <1>1 DEF Elems
  <1>5. QED BY <1>1, <1>2, <1>3, <1>4 DEF t, h

LEMMA OnceAppend ==
  ASSUME NEW S, NEW s \in Seq(S), NEW p \in S, Once(s), p.id = 0 \/ ~In(s, p.id)
  PROVE  Once(Append(s, p))
  <1> DEFINE t == Append(s, p)
  <1>1. /\ DOMAIN t = 1 .. Len(s) + 1 /\ DOMAIN s = 1 .. Len(s) /\ Len(s) \in Nat
        /\ t[Len(s) + 1] = p /\ \A k \in 1 .. Len(s) : t[k] = s[k]
    OBVIOUS
  <1> HIDE DEF t
  <1>2. \A k \in 1 .. Len(s) : p.id = 0 \/ s[k].id # p.id
    BY <1>1 DEF In, Elems
  <1>3. QED BY <1>1, <1>2 DEF Once

LEMMA OnceConcat ==
  ASSUME NEW S, NEW s \in Seq(S), NEW t \in Seq(S), Once(s), Once(t),
         \A p \in Elems(s) : p.id = 0 \/ ~In(t, p.id)
  PROVE  Once(s \o t)
  <1> DEFINE u == s \o t
  <1>1. /\ DOMAIN u = 1 .. Len(s) + Len(t) /\ DOMAIN s = 1 .. Len(s) /\ DOMAIN t = 1 .. Len(t)
        /\ Len(s) \in Nat /\ Len(t) \in Nat
        /\ \A k \in 1 .. Len(s) : u[k] = s[k]
        /\ \A k \in Len(s) + 1 .. Len(s) + Len(t) : k - Len(s) \in 1 .. Len(t) /\ u[k] = t[k - Len(s)]
    OBVIOUS
  <1> HIDE DEF u
  <1>2. \A j \in DOMAIN s, k \in DOMAIN t : s[j].id = 0 \/ s[j].id # t[k].id
    BY DEF In, Elems
  <1>3. ASSUME NEW j \in DOMAIN u, NEW k \in DOMAIN u, u[j].id = u[k].id, u[j].id # 0
        PROVE  j = k
    <2>1. CASE j <= Len(s) /\ k <= Len(s)
      BY <1>1, <1>3, <2>1 DEF Once
    <2>2. CASE j > Len(s) /\ k > Len(s)
      <3>1. /\ j - Len(s) \in DOMAIN t /\ u[j] = t[j - Len(s)]
            /\ k - Len(s) \in DOMAIN t /\ u[k] = t[k - Len(s)]
        BY <1>1, <2>2
      <3>2. j - Len(s) = k - Len(s)
        BY <1>3, <3>1 DEF Once
      <3>3. QED BY <1>1, <3>2
    <2>3. CASE j <= Len(s) /\ k > Len(s)
      BY <1>1, <1>2, <1>3, <2>3
    <2>4. CASE j > Len(s) /\ k <= Len(s)
      BY <1>1, <1>2, <1>3, <2>4
    <2>5. QED BY <1>1, <2>1, <2>2, <2>3, <2>4
  <1>4. QED BY <1>3 DEF Once, u

LEMMA OnceTail ==
  ASSUME NEW S, NEW s \in Seq(S), s # <<>>, Once(s)
  PROVE  Once(Tail(s)) /\ (Head(s).id # 0 => ~In(Tail(s), Head(s).id))
  <1> DEFINE t == Tail(s)
             h == Head(s)
  <1>1. /\ 1 \in DOMAIN s /\ h = s[1] /\ DOMAIN t \subseteq Int
        /\ \A k \in DOMAIN t : t[k] = s[k + 1] /\ k + 1 \in DOMAIN s /\ k + 1 # 1
    OBVIOUS
  <1> HIDE DEF t, h
  <1>2. ASSUME NEW j \in DOMAIN t, NEW k \in DOMAIN t, t[j].id = t[k].id, t[j].id # 0
        PROVE  j = k
    <2>1. j + 1 = k + 1
      BY <1>1, <1>2 DEF Once
    <2>2. QED BY <1>1, <2>1
  <1>3. ASSUME NEW k \in DOMAIN t, t[k].id = h.id, h.id # 0
        PROVE  FALSE
    <2>1. k + 1 = 1
      BY <1>1, <1>3 DEF Once
    <2>2. QED BY <1>1, <2>1
  <1>4. Once(t)
    BY <1>2 DEF Once
  <1>5. h.id # 0 => ~In(t, h.id)
    BY <1>3 DEF In, Elems
  <1>6. QED BY <1>4, <1>5 DEF t, h

\* What comes after the first n elements, when more are added or one is passed.
LEMMA RestOfConcat ==
  ASSUME NEW S, NEW s \in Seq(S), NEW t \in Seq(S), NEW n \in 0 .. Len(s)
  PROVE  SubSeq(s \o t, n + 1, Len(s \o t)) = SubSeq(s, n + 1, Len(s)) \o t
  <1> DEFINE u == s \o t
             x == SubSeq(u, n + 1, Len(u))
             y == SubSeq(s, n + 1, Len(s))
  <1>1. /\ u \in Seq(S) /\ Len(u) = Len(s) + Len(t) /\ Len(s) \in Nat /\ Len(t) \in Nat
        /\ \A k \in 1 .. Len(s) + Len(t) : u[k] = IF k <= Len(s) THEN s[k] ELSE t[k - Len(s)]
    BY ConcatProperties
  <1> HIDE DEF u
  <1>2. /\ x \in Seq(S) /\ Len(x) = Len(u) - n
        /\ \A k \in 1 .. Len(u) - n : x[k] = u[n + k]
    <2>1. n + 1 \in Int /\ Len(u) \in Int /\ \A k \in n + 1 .. Len(u) : u[k] \in S
      BY <1>1
    <2>2. /\ SubSeq(u, n + 1, Len(u)) \in Seq(S)
          /\ Len(SubSeq(u, n + 1, Len(u))) = (IF n + 1 <= Len(u) THEN Len(u) - (n + 1) + 1 ELSE 0)
          /\ \A k \in 1 .. Len(u) - (n + 1) + 1 : SubSeq(u, n + 1, Len(u))[k] = u[n + 1 + k - 1]
      BY ONLY <2>1, SubSeqProperties
    <2>3. QED BY <1>1, <2>2
  <1>3. /\ y \in Seq(S) /\ Len(y) = Len(s) - n
        /\ \A k \in 1 .. Len(s) - n : y[k] = s[n + k]
    <2>1. n + 1 \in Int /\ Len(s) \in Int /\ \A k \in n + 1 .. Len(s) : s[k] \in S
      BY <1>1
    <2>2. /\ SubSeq(s, n + 1, Len(s)) \in Seq(S)
          /\ Len(SubSeq(s, n + 1, Len(s))) = (IF n + 1 <= Len(s) THEN Len(s) - (n + 1) + 1 ELSE 0)
          /\ \A k \in 1 .. Len(s) - (n + 1) + 1 : SubSeq(s, n + 1, Len(s))[k] = s[n + 1 + k - 1]
      BY ONLY <2>1, SubSeqProperties
    <2>3. QED BY <1>1, <2>2
  <1> HIDE DEF x, y
  <1>4. /\ y \o t \in Seq(S) /\ Len(y \o t) = Len(y) + Len(t)
        /\ \A k \in 1 .. Len(y) + Len(t) : (y \o t)[k] = IF k <= Len(y) THEN y[k] ELSE t[k - Len(y)]
    BY <1>3, ConcatProperties
  <1>5. ASSUME NEW k \in 1 .. Len(x) PROVE x[k] = (y \o t)[k]
    <2>1. /\ x[k] = u[n + k] /\ n + k \in 1 .. Len(s) + Len(t)
          /\ k \in 1 .. Len(s) + Len(t) - n /\ Len(y) = Len(s) - n
      BY <1>1, <1>2, <1>3
    <2>2. CASE k <= Len(y)
      BY <1>1, <1>3, <1>4, <2>1, <2>2
    <2>3. CASE k > Len(y)
      <3>1. (y \o t)[k] = t[k - Len(y)]
        BY <1>1, <1>4, <2>1, <2>3
      <3>2. u[n + k] = t[n + k - Len(s)]
        BY <1>1, <2>1, <2>3
      <3>3. k - Len(y) = n + k - Len(s)
        BY <1>1, <2>1
      <3>4. QED BY <2>1, <3>1, <3>2, <3>3
    <2>4. k \in Nat /\ Len(y) \in Nat
      BY <1>1, <2>1
    <2>5. k <= Len(y) \/ k > Len(y)
      BY <2>4
    <2>6. QED BY <2>2, <2>3, <2>5
  <1>6. x = y \o t
    <2>1. Len(x) = Len(y \o t)
      BY <1>1, <1>2, <1>3, <1>4
    <2>2. QED BY ONLY <1>2, <1>4, <1>5, <2>1, SeqEqual
  <1>7. QED BY <1>6 DEF x, y, u

LEMMA RestOfRest ==
  ASSUME NEW S, NEW s \in Seq(S), NEW n \in 0 .. Len(s), n < Len(s)
  PROVE  /\ SubSeq(s, n + 1, Len(s)) \in Seq(S) /\ SubSeq(s, n + 1, Len(s)) # <<>>
         /\ Head(SubSeq(s, n + 1, Len(s))) = s[n + 1]
         /\ Tail(SubSeq(s, n + 1, Len(s))) = SubSeq(s, n + 2, Len(s))
  <1>1. n + 1 \in 1 .. Len(s) /\ Len(s) \in n + 1 .. Len(s) /\ (n + 1) + 1 = n + 2
    OBVIOUS
  <1>2. /\ Head(SubSeq(s, n + 1, Len(s))) = s[n + 1]
        /\ Tail(SubSeq(s, n + 1, Len(s))) = SubSeq(s, (n + 1) + 1, Len(s))
    BY ONLY <1>1, HeadTailOfSubSeq
  <1>3. n + 1 \in Int /\ Len(s) \in Int /\ \A k \in n + 1 .. Len(s) : s[k] \in S
    OBVIOUS
  <1>4. /\ SubSeq(s, n + 1, Len(s)) \in Seq(S)
        /\ Len(SubSeq(s, n + 1, Len(s))) = (IF n + 1 <= Len(s) THEN Len(s) - (n + 1) + 1 ELSE 0)
    BY ONLY <1>3, SubSeqProperties
  <1>5. Len(SubSeq(s, n + 1, Len(s))) # 0
    BY <1>1, <1>4
  <1>6. QED BY <1>1, <1>2, <1>4, <1>5

LEMMA RestType ==
  ASSUME NEW S, NEW s \in Seq(S), NEW n \in 0 .. Len(s)
  PROVE  SubSeq(s, n + 1, Len(s)) \in Seq(S)
  <1>1. n + 1 \in Int /\ Len(s) \in Int /\ \A k \in n + 1 .. Len(s) : s[k] \in S
    OBVIOUS
  <1>2. QED BY ONLY <1>1, SubSeqProperties

-----------------------------------------------------------------------------
(* The shape of the state *)

QoS12 == QoS1 \cup QoS2

\* The packets there are.
Outgoing == [type : {"PUBLISH"}, msg : QoS12, id : Id] \cup [type : {"PUBLISH"}, msg : QoS0, id : {0}]
              \cup [type : {"PUBREL"}, msg : {None}, id : Id]

\* What the client has not read yet.
Unread == SubSeq(wire, read + 1, Len(wire))
Last(s) == s[Len(s)]

PacketsOK ==
  /\ gMessages \in Seq([type : {"PUBREL"}, msg : {None}, id : Id])
  /\ qos0Messages \in Seq(QoS0) /\ qos12Messages \in Seq(QoS12)
  /\ batch \in [Routine -> Seq(Outgoing)] /\ buf \in [Routine -> Seq(Outgoing)]
  /\ wire \in Seq(Outgoing) /\ read \in 0 .. Len(wire) /\ acks \in Seq(AckPacket)
  /\ ack \in AckPacket

FlowOK ==
  /\ quota \in Nat /\ counter \in 0 .. MaxId /\ inUse \subseteq Id
  /\ pubOut \in [Id -> QoS12 \cup {Pubrel, None}]
  /\ overrun \in [Id -> QoS12 \cup {Pubrel, None}]
  /\ accepted \in Seq(QoS12)
  /\ stored \in [qos12 : SUBSET QoS12, unAck : SUBSET (QoS12 \cup {Pubrel})]
  /\ failed \in [Routine -> BOOLEAN] /\ broken \in BOOLEAN

\* What a goroutine at a step has in hand: what it popped, and what it has buffered.
HandIs(step, popped, buffered, fails, breaks) ==
  /\ step \notin SendingSteps \ {"leave"} => popped = <<>>
  /\ step \notin SendingSteps \cup {"flush"} => buffered = <<>>
  /\ step = "keep" => popped # <<>> /\ Last(popped).msg \in QoS12
  /\ fails => breaks

HandOK == \A r \in Routine : HandIs(pc[r], batch[r], buf[r], failed[r], broken)

ReaderOK ==
  /\ pc[Reader] \in {"idle", "load", "free", "raise", "run", "claim", "delete", "rel", "respond"}
  /\ pc[Reader] \in {"free", "raise"} => ack.type # "PUBREC"
  /\ pc[Reader] \in {"rel", "respond"} => ack.type = "PUBREC"
  /\ pc[Reader] = "free" => pubOut[ack.id] # None

Shape == PacketsOK /\ FlowOK /\ HandOK /\ ReaderOK

\* The callers of run are told apart.
LEMMA Apart ==
  /\ Reader \in Caller /\ Starter \in Caller /\ Reader \notin Routine /\ Reader \notin Pub
  /\ \A r \in Routine : r \in Caller /\ r # Reader /\ r \notin Pub
  /\ \A m \in Pub : m \in Caller /\ m # Reader /\ m # Starter /\ m \notin Routine
  /\ Starter # Reader /\ Starter \notin Routine
  BY WriterAssumption DEF Caller

\* One program counter moves.
LEMMA PcGoto ==
  ASSUME IInv, NEW t \in Caller, NEW step, Goto(t, step)
  PROVE  pc'[t] = step /\ \A s \in Caller \ {t} : pc'[s] = pc[s]
  BY DEF IInv, ControlOK, Goto

\* Only one goroutine has anything in hand.
LEMMA Alone ==
  ASSUME IInv, HandOK, NEW r \in Routine, Synced(r)
  PROVE  \A s \in Routine \ {r} : batch[s] = <<>> /\ buf[s] = <<>> /\ pc[s] \notin SendingSteps \cup {"flush"}
  BY DEF IInv, HandOver, HandOK, HandIs, Synced, EndingSteps

\* A step of the goroutine that has packets in hand, and one of anybody else.
LEMMA HandStep ==
  ASSUME IInv, HandOK, NEW r \in Routine, NEW step, Goto(r, step), broken' = broken,
         \A s \in Routine \ {r} : batch'[s] = batch[s] /\ buf'[s] = buf[s] /\ failed'[s] = failed[s],
         HandIs(step, batch'[r], buf'[r], failed'[r], broken)
  PROVE  HandOK'
  <1>1. pc'[r] = step /\ \A s \in Routine \ {r} : pc'[s] = pc[s]
    BY Apart, PcGoto
  <1>2. QED BY <1>1 DEF HandOK

LEMMA HandRest ==
  ASSUME HandOK, UNCHANGED <<batch, buf, failed>>, broken => broken',
         \A r \in Routine : pc'[r] = pc[r] \/ (pc[r] \notin SendingSteps \cup {"flush"} /\ pc'[r] \notin SendingSteps \cup {"flush"})
  PROVE  HandOK'
  BY DEF HandOK, HandIs, SendingSteps

\* Where run goes on, by who called it.
LEMMA AfterRunIs ==
  ASSUME NEW t \in Caller
  PROVE  /\ t \in Routine => AfterRun(t) = "done"
         /\ t = Reader => AfterRun(t) = IF ack.type = "PUBREC" THEN "idle" ELSE "delete"
         /\ t \notin Routine /\ t # Reader => AfterRun(t) = "ran"
  BY Apart DEF AfterRun

\* There are finitely many packet ids, and 0 is none.
LEMMA IdIs == IsFiniteSet(Id) /\ \A i \in Id : i \in Nat /\ i # 0
  <1>1. 1 \in Int /\ MaxId \in Int
    BY WriterAssumption
  <1>2. IsFiniteSet(1 .. MaxId)
    BY ONLY <1>1, FS_Interval
  <1>3. QED BY <1>1, <1>2 DEF Id

\* Every step keeps the shape: packets are packets, ids are ids, and who is not
\* sending has nothing in hand.
LEMMA RunChecksShape ==
  ASSUME IInv, Shape, NEW t \in Caller, RunChecks(t)
  PROVE  Shape'
  <1> USE DEF RunChecks, Shape, queueVars, flowVars, runVars, outVars, closeVars, netVars, pastVars
  <1>1. PacketsOK' /\ FlowOK'
    BY DEF PacketsOK, FlowOK
  <1>2. PICK step : Goto(t, step) /\ step \in {"claim", AfterRun(t)}
    OBVIOUS
  <1>3. pc'[t] = step /\ \A s \in Caller \ {t} : pc'[s] = pc[s]
    BY <1>2, PcGoto
  <1>4. t \in Routine => step \in EndingSteps \ {"flush"}
    BY <1>2, AfterRunIs DEF EndingSteps
  <1>5. HandOK'
    BY <1>3, <1>4, Apart, HandRest DEF SendingSteps, EndingSteps
  <1>6. ReaderOK'
    BY <1>2, <1>3, Apart, AfterRunIs DEF ReaderOK
  <1>7. QED BY <1>1, <1>5, <1>6

LEMMA RunClaimsShape ==
  ASSUME IInv, Shape, NEW t \in Caller, RunClaims(t)
  PROVE  Shape'
  <1> USE DEF RunClaims, Shape, queueVars, flowVars, runVars, outVars, closeVars, netVars, pastVars
  <1>1. PacketsOK' /\ FlowOK'
    BY DEF PacketsOK, FlowOK
  <1>2. pc'[t] = AfterRun(t) /\ pc[t] = "claim"
    BY DEF IInv, ControlOK, Goto
  <1>3. \A s \in Caller \ {t} : pc'[s] = pc[s] \/ (s \in Routine /\ pc[s] = "idle" /\ pc'[s] = "sync")
    BY DEF IInv, ControlOK, Goto
  <1>4. HandOK'
    BY <1>2, <1>3, Apart, AfterRunIs, HandRest DEF SendingSteps
  <1>5. ReaderOK'
    BY <1>2, <1>3, Apart, AfterRunIs DEF ReaderOK
  <1>6. QED BY <1>1, <1>4, <1>5

LEMMA SendShape ==
  ASSUME IInv, Shape, NEW m \in Pub, Send(m)
  PROVE  Shape'
  <1> USE DEF Send, queueVars, flowVars, runVars, outVars, closeVars, netVars, pastVars
  <1>1. PacketsOK' /\ FlowOK'
    <2>1. CASE m \in QoS0
      <3>1. qos0Messages' = Append(qos0Messages, m) /\ UNCHANGED <<qos12Messages, accepted>>
        BY <2>1
      <3>2. Append(qos0Messages, m) \in Seq(QoS0)
        BY <2>1, AppendType DEF Shape, PacketsOK
      <3>3. QED BY <3>1, <3>2 DEF Shape, PacketsOK, FlowOK
    <2>2. CASE m \notin QoS0
      <3>1. /\ qos12Messages' = Append(qos12Messages, m) /\ accepted' = Append(accepted, m)
            /\ UNCHANGED qos0Messages /\ m \in QoS12
        BY <2>2 DEF Pub, QoS12
      <3>2. Append(qos12Messages, m) \in Seq(QoS12) /\ Append(accepted, m) \in Seq(QoS12)
        BY <3>1, AppendType DEF Shape, PacketsOK, FlowOK
      <3>3. QED BY <3>1, <3>2 DEF Shape, PacketsOK, FlowOK
    <2>3. QED BY <2>1, <2>2
  <1>2. Goto(m, "run") /\ m \in Caller
    BY Apart
  <1>3. \A s \in Caller \ {m} : pc'[s] = pc[s]
    BY <1>2, PcGoto
  <1>4. HandOK'
    BY <1>3, Apart, HandRest DEF Shape
  <1>5. ReaderOK'
    BY <1>3, Apart DEF Shape, ReaderOK
  <1>6. QED BY <1>1, <1>4, <1>5 DEF Shape

LEMMA StartShape ==
  ASSUME IInv, Shape, Start
  PROVE  Shape'
  <1> USE DEF Start, Shape, queueVars, flowVars, runVars, outVars, closeVars, netVars, pastVars
  <1>1. PacketsOK' /\ FlowOK'
    BY DEF PacketsOK, FlowOK
  <1>2. HandOK'
    BY Apart, PcGoto, HandRest
  <1>3. ReaderOK'
    BY Apart, PcGoto DEF ReaderOK
  <1>4. QED BY <1>1, <1>2, <1>3

\* The steps of a goroutine that move no packet.
LEMMA QuietRoutineShape ==
  ASSUME IInv, Shape, NEW r \in Routine,
         Sync(r) \/ Check(r) \/ NoQoS12(r) \/ NothingLeft(r) \/ Leave(r) \/ Recheck(r)
  PROVE  Shape'
  <1> USE DEF Sync, Check, NoQoS12, NothingLeft, Leave, Recheck,
              queueVars, flowVars, runVars, outVars, closeVars, netVars, pastVars
  <1>1. /\ UNCHANGED <<gMessages, qos0Messages, qos12Messages, batch, buf, wire, read, acks, ack>>
        /\ UNCHANGED <<quota, counter, inUse, pubOut, overrun, accepted, stored, failed, broken>>
    OBVIOUS
  <1>2. PICK step \in Steps \ {"keep"} :
          /\ Goto(r, step)
          /\ \/ step \in SendingSteps
             \/ pc[r] = "leave" /\ step = "flush"
             \/ pc[r] \notin SendingSteps \cup {"flush"} /\ step \notin SendingSteps \cup {"flush"}
          /\ step = "leave" => batch[r] = <<>> \/ pc[r] = "leave"
    BY DEF Steps, SendingSteps
  <1>3. PacketsOK' /\ FlowOK'
    BY <1>1 DEF Shape, PacketsOK, FlowOK
  <1>4. HandOK'
    <2>1. HandIs(pc[r], batch[r], buf[r], failed[r], broken)
      BY DEF Shape, HandOK
    <2>2. HandIs(step, batch[r], buf[r], failed[r], broken)
      BY <1>2, <2>1 DEF HandIs, SendingSteps
    <2>3. QED BY <1>1, <1>2, <2>2, HandStep DEF Shape
  <1>5. ReaderOK'
    BY <1>1, <1>2, Apart, PcGoto DEF Shape, ReaderOK
  <1>6. QED BY <1>3, <1>4, <1>5 DEF Shape

LEMMA KeepShape ==
  ASSUME IInv, Shape, NEW r \in Routine, Keep(r)
  PROVE  Shape'
  <1> USE DEF Keep, Shape, queueVars, flowVars, runVars, outVars, closeVars, netVars, pastVars
  <1>1. PacketsOK'
    BY DEF PacketsOK
  <1>2. FlowOK'
    <2>1. pubOut' \in [Id -> QoS12 \cup {Pubrel, None}]
      <3>1. Last(batch[r]).msg \in QoS12
        BY DEF HandOK, HandIs
      <3>2. QED BY <3>1 DEF FlowOK, Kept, Last
    <2>2. QED BY <2>1 DEF FlowOK
  <1>3. HandOK'
    <2>1. HandIs(pc[r], batch[r], buf[r], failed[r], broken)
      BY DEF HandOK
    <2>2. QED BY <2>1, HandStep DEF HandIs, SendingSteps
  <1>4. ReaderOK'
    <2>1. Last(batch[r]).msg \in QoS12
      BY DEF HandOK, HandIs
    <2>2. \A i \in Id : pubOut[i] # None => pubOut'[i] # None
      BY <2>1, WriterAssumption DEF Kept, FlowOK, Last, Pub, QoS12
    <2>3. QED BY <2>2, Apart, PcGoto DEF ReaderOK, PacketsOK, AckPacket
  <1>5. QED BY <1>1, <1>2, <1>3, <1>4

\* The steps of a goroutine that pop and write.
LEMMA PopGeneralShape ==
  ASSUME IInv, Shape, NEW r \in Routine, PopGeneral(r)
  PROVE  Shape'
  <1> USE DEF PopGeneral, queueVars, flowVars, runVars, outVars, closeVars, netVars, pastVars
  <1>1. UNCHANGED <<buf, failed, broken, wire, read, acks, ack, qos0Messages, qos12Messages>>
        /\ \E step \in {"qos12", "write"} : Goto(r, step) /\ pc[r] = "general"
    OBVIOUS
  <1>2. PacketsOK' /\ \A s \in Routine \ {r} : batch'[s] = batch[s]
    <2>1. CASE isAlive /\ gMessages # <<>>
      <3>1. /\ gMessages' = Tail(gMessages) /\ batch' = [batch EXCEPT ![r] = Append(batch[r], Head(gMessages))]
        BY <2>1 DEF Popped
      <3>2. /\ Tail(gMessages) \in Seq([type : {"PUBREL"}, msg : {None}, id : Id])
            /\ Head(gMessages) \in Outgoing /\ batch[r] \in Seq(Outgoing)
        BY <2>1, TailType DEF Shape, PacketsOK, Outgoing
      <3>3. Append(batch[r], Head(gMessages)) \in Seq(Outgoing)
        BY <3>2, AppendType
      <3>4. QED BY <1>1, <3>1, <3>2, <3>3 DEF Shape, PacketsOK
    <2>2. CASE ~(isAlive /\ gMessages # <<>>)
      <3>1. UNCHANGED <<gMessages, batch>>
        BY <2>2
      <3>2. QED BY <1>1, <3>1 DEF Shape, PacketsOK
    <2>3. QED BY <2>1, <2>2
  <1>3. FlowOK'
    BY DEF Shape, FlowOK
  <1>4. HandOK'
    <2>1. PICK step \in {"qos12", "write"} : Goto(r, step) /\ pc[r] = "general"
      BY <1>1
    <2>2. HandIs(step, batch'[r], buf'[r], failed'[r], broken)
      BY <1>1, <2>1 DEF Shape, HandOK, HandIs, SendingSteps
    <2>3. QED BY <1>1, <1>2, <2>1, <2>2, HandStep DEF Shape
  <1>5. ReaderOK'
    BY Apart, PcGoto DEF Shape, ReaderOK
  <1>6. QED BY <1>2, <1>3, <1>4, <1>5 DEF Shape

LEMMA TakeQoS12Shape ==
  ASSUME IInv, Shape, NEW r \in Routine, TakeQoS12(r)
  PROVE  Shape'
  <1>1. PICK i \in Id \ inUse :
          /\ Acquires(i) /\ counter' = i /\ inUse' = inUse \cup {i}
          /\ batch' = [batch EXCEPT ![r] = Append(batch[r], Publish(Head(qos12Messages), i))]
    BY DEF TakeQoS12, Popped
  <1>2. /\ UNCHANGED <<gMessages, qos0Messages, pubOut, buf, failed, broken, wire, read, acks,
                       ack, stored, accepted, overrun>>
        /\ quota' = quota - 1 /\ quota > 0 /\ qos12Messages # <<>> /\ qos12Messages' = Tail(qos12Messages)
        /\ pc[r] = "qos12" /\ Goto(r, "keep")
    BY DEF TakeQoS12, qos12Available, quotaAvailable, runVars, closeVars, netVars, pastVars
  <1> DEFINE p == Publish(Head(qos12Messages), i)
  <1>3. qos12Messages' \in Seq(QoS12) /\ Head(qos12Messages) \in QoS12
    BY <1>2, TailType DEF Shape, PacketsOK
  <1>4. p \in Outgoing /\ p.msg \in QoS12 /\ batch[r] \in Seq(Outgoing)
    BY <1>3 DEF Publish, Outgoing, Shape, PacketsOK
  <1>5. /\ Append(batch[r], p) \in Seq(Outgoing) /\ Append(batch[r], p) # <<>> /\ Last(Append(batch[r], p)) = p
    BY <1>4, AppendType DEF Last
  <1>6. /\ batch' \in [Routine -> Seq(Outgoing)] /\ batch'[r] = Append(batch[r], p)
        /\ \A s \in Routine \ {r} : batch'[s] = batch[s]
    BY <1>1, <1>5 DEF Shape, PacketsOK
  <1> HIDE DEF p
  <1>7. PacketsOK'
    BY <1>2, <1>3, <1>6 DEF Shape, PacketsOK
  <1>8. FlowOK'
    <2>1. counter' \in 0 .. MaxId /\ inUse' \subseteq Id
      BY <1>1, WriterAssumption DEF Shape, FlowOK, Id
    <2>2. quota' \in Nat
      BY <1>2 DEF Shape, FlowOK
    <2>3. QED BY <1>2, <2>1, <2>2 DEF Shape, FlowOK
  <1>9. HandOK'
    <2>1. HandIs("keep", batch'[r], buf'[r], failed'[r], broken)
      BY <1>2, <1>4, <1>5, <1>6 DEF Shape, HandOK, HandIs, SendingSteps
    <2>2. QED BY <1>2, <1>6, <2>1, HandStep DEF Shape
  <1>10. ReaderOK'
    BY <1>2, Apart, PcGoto DEF Shape, ReaderOK
  <1>11. QED BY <1>7, <1>8, <1>9, <1>10 DEF Shape

LEMMA PopQoS0Shape ==
  ASSUME IInv, Shape, NEW r \in Routine, PopQoS0(r)
  PROVE  Shape'
  <1> USE DEF PopQoS0, queueVars, flowVars, runVars, outVars, closeVars, netVars, pastVars
  <1>1. /\ UNCHANGED <<gMessages, qos12Messages, buf, failed, broken, wire, read, acks, ack,
                       pubOut>>
        /\ pc[r] = "qos0" /\ Goto(r, "write")
    OBVIOUS
  <1>2. PacketsOK' /\ \A s \in Routine \ {r} : batch'[s] = batch[s]
    <2>1. CASE qos0Messages # <<>>
      <3>1. /\ qos0Messages' = Tail(qos0Messages)
            /\ batch' = [batch EXCEPT ![r] = Append(batch[r], Publish(Head(qos0Messages), 0))]
        BY <2>1 DEF Popped
      <3>2. Tail(qos0Messages) \in Seq(QoS0) /\ Head(qos0Messages) \in QoS0 /\ batch[r] \in Seq(Outgoing)
        BY <2>1, TailType DEF Shape, PacketsOK
      <3>3. Append(batch[r], Publish(Head(qos0Messages), 0)) \in Seq(Outgoing)
        BY <3>2, AppendType DEF Publish, Outgoing
      <3>4. QED BY <1>1, <3>1, <3>2, <3>3 DEF Shape, PacketsOK
    <2>2. CASE qos0Messages = <<>>
      <3>1. UNCHANGED <<qos0Messages, batch>>
        BY <2>2
      <3>2. QED BY <1>1, <3>1 DEF Shape, PacketsOK
    <2>3. QED BY <2>1, <2>2
  <1>3. FlowOK'
    BY DEF Shape, FlowOK
  <1>4. HandOK'
    <2>1. HandIs("write", batch'[r], buf'[r], failed'[r], broken)
      BY <1>1 DEF Shape, HandOK, HandIs, SendingSteps
    <2>2. QED BY <1>1, <1>2, <2>1, HandStep DEF Shape
  <1>5. ReaderOK'
    BY <1>1, Apart, PcGoto DEF Shape, ReaderOK
  <1>6. QED BY <1>2, <1>3, <1>4, <1>5 DEF Shape

\* The network takes packets or drops them.
LEMMA TransmitType ==
  ASSUME Shape, NEW packets \in Seq(Outgoing), Transmit(packets), UNCHANGED read
  PROVE  wire' \in Seq(Outgoing) /\ read' \in 0 .. Len(wire')
  <1>1. wire \o packets \in Seq(Outgoing)
    BY ConcatType DEF Shape, PacketsOK
  <1>2. Len(wire \o packets) = Len(wire) + Len(packets) /\ Len(packets) \in Nat /\ Len(wire) \in Nat
    BY DEF Shape, PacketsOK
  <1>3. CASE broken
    BY <1>3 DEF Transmit, Shape, PacketsOK
  <1>4. CASE ~broken
    <2>1. wire' = wire \o packets
      BY <1>4 DEF Transmit
    <2>2. QED BY <1>1, <1>2, <2>1 DEF Shape, PacketsOK
  <1>5. QED BY <1>3, <1>4

LEMMA WriteShape ==
  ASSUME IInv, Shape, NEW r \in Routine, Write(r)
  PROVE  Shape'
  <1>1. /\ UNCHANGED <<queueVars, flowVars, pubOut, runVars, ack, closeVars, broken, read, acks,
                       pastVars>>
        /\ pc[r] = "write" /\ batch' = [batch EXCEPT ![r] = <<>>]
    BY DEF Write
  <1>2. Ready(r) \in Seq(Outgoing)
    BY ConcatType DEF Shape, PacketsOK, Ready
  <1>3. batch' \in [Routine -> Seq(Outgoing)] /\ batch'[r] = <<>> /\ \A s \in Routine \ {r} : batch'[s] = batch[s]
    BY <1>1 DEF Shape, PacketsOK
  <1>4. PICK step \in {"general", "leave"} :
          /\ Goto(r, step)
          /\ \A s \in Routine \ {r} : buf'[s] = buf[s] /\ failed'[s] = failed[s]
          /\ buf' \in [Routine -> Seq(Outgoing)] /\ failed' \in [Routine -> BOOLEAN] /\ (failed'[r] => broken)
          /\ wire' \in Seq(Outgoing) /\ read' \in 0 .. Len(wire')
    <2>1. failed[r] => broken
      BY DEF Shape, HandOK, HandIs
    <2>2. CASE buf' = [buf EXCEPT ![r] = Ready(r)] /\ Goto(r, "general") /\ UNCHANGED <<failed,
                                                                                        wire>>
      BY <1>1, <1>2, <2>1, <2>2 DEF Shape, PacketsOK, FlowOK
    <2>3. CASE Transmit(Ready(r)) /\ buf' = [buf EXCEPT ![r] = <<>>] /\ Goto(r, "general") /\ UNCHANGED failed
      <3>1. wire' \in Seq(Outgoing) /\ read' \in 0 .. Len(wire')
        BY <1>1, <1>2, <2>3, TransmitType
      <3>2. QED BY <2>1, <2>3, <3>1 DEF Shape, PacketsOK, FlowOK
    <2>4. CASE broken /\ failed' = [failed EXCEPT ![r] = TRUE] /\ Goto(r, "leave") /\ UNCHANGED <<buf, wire>>
      BY <1>1, <2>4 DEF Shape, PacketsOK, FlowOK
    <2>5. QED BY <2>2, <2>3, <2>4 DEF Write
  <1>5. PacketsOK'
    BY <1>1, <1>3, <1>4 DEF Shape, PacketsOK, queueVars
  <1>6. FlowOK'
    BY <1>1, <1>4 DEF Shape, FlowOK, flowVars, closeVars, pastVars
  <1>7. HandOK'
    <2>1. HandIs(step, batch'[r], buf'[r], failed'[r], broken)
      BY <1>3, <1>4 DEF HandIs, SendingSteps
    <2>2. QED BY <1>1, <1>3, <1>4, <2>1, HandStep DEF Shape
  <1>8. ReaderOK'
    BY <1>1, <1>4, Apart, PcGoto DEF Shape, ReaderOK
  <1>9. QED BY <1>5, <1>6, <1>7, <1>8 DEF Shape

LEMMA FlushShape ==
  ASSUME IInv, Shape, NEW r \in Routine, Flush(r)
  PROVE  Shape'
  <1>1. /\ UNCHANGED <<queueVars, flowVars, pubOut, runVars, batch, failed, ack, closeVars,
                       broken, read, acks, pastVars>>
        /\ pc[r] = "flush" /\ Goto(r, "recheck") /\ buf' = [buf EXCEPT ![r] = <<>>]
    BY DEF Flush
  <1>2. wire' \in Seq(Outgoing) /\ read' \in 0 .. Len(wire')
    <2>1. Transmit(buf[r]) \/ wire' = wire
      BY DEF Flush
    <2>2. buf[r] \in Seq(Outgoing)
      BY DEF Shape, PacketsOK
    <2>3. QED BY <1>1, <2>1, <2>2, TransmitType DEF Shape, PacketsOK
  <1>3. PacketsOK'
    BY <1>1, <1>2 DEF Shape, PacketsOK, queueVars
  <1>4. FlowOK'
    BY <1>1 DEF Shape, FlowOK, flowVars, closeVars, pastVars
  <1>5. HandOK'
    <2>1. buf'[r] = <<>> /\ \A s \in Routine \ {r} : buf'[s] = buf[s]
      BY <1>1 DEF Shape, PacketsOK
    <2>2. HandIs("recheck", batch'[r], buf'[r], failed'[r], broken)
      BY <1>1, <2>1 DEF Shape, HandOK, HandIs, SendingSteps
    <2>3. QED BY <1>1, <2>1, <2>2, HandStep DEF Shape
  <1>6. ReaderOK'
    BY <1>1, Apart, PcGoto DEF Shape, ReaderOK
  <1>7. QED BY <1>3, <1>4, <1>5, <1>6 DEF Shape

LEMMA DoneShape ==
  ASSUME IInv, Shape, NEW r \in Routine, Done(r)
  PROVE  Shape'
  <1> USE DEF Done, Shape, queueVars, flowVars, runVars, outVars, closeVars, netVars, pastVars
  <1>1. PacketsOK'
    BY DEF PacketsOK
  <1>2. FlowOK'
    BY DEF FlowOK
  <1>3. HandOK'
    <2>1. failed'[r] = FALSE /\ \A s \in Routine \ {r} : failed'[s] = failed[s]
      BY DEF FlowOK
    <2>2. HandIs("idle", batch'[r], buf'[r], failed'[r], broken)
      BY <2>1 DEF HandOK, HandIs, SendingSteps
    <2>3. QED BY <2>1, <2>2, HandStep
  <1>4. ReaderOK'
    BY Apart, PcGoto DEF ReaderOK
  <1>5. QED BY <1>1, <1>2, <1>3, <1>4

\* The steps of the reader.
LEMMA ReadShape ==
  ASSUME IInv, Shape, Read
  PROVE  Shape'
  <1> USE DEF Read, Shape, queueVars, flowVars, runVars, outVars, closeVars, netVars, pastVars
  <1>1. PacketsOK'
    <2>1. Head(acks) \in AckPacket /\ Tail(acks) \in Seq(AckPacket)
      BY TailType DEF PacketsOK
    <2>2. QED BY <2>1 DEF PacketsOK
  <1>2. FlowOK'
    BY DEF FlowOK
  <1>3. HandOK'
    BY Apart, PcGoto, HandRest
  <1>4. ReaderOK'
    BY Apart, PcGoto DEF ReaderOK
  <1>5. QED BY <1>1, <1>2, <1>3, <1>4

LEMMA LoadShape ==
  ASSUME IInv, Shape, Load
  PROVE  Shape'
  <1> USE DEF Load, Shape, queueVars, flowVars, runVars, outVars, closeVars, netVars, pastVars
  <1>1. PacketsOK'
    BY DEF PacketsOK
  <1>2. FlowOK'
    BY DEF FlowOK
  <1>3. HandOK'
    BY Apart, PcGoto, HandRest
  <1>4. ReaderOK'
    <2>1. pc[Reader] = "load" /\ UNCHANGED <<ack, pubOut>>
      OBVIOUS
    <2>2. \/ ack.type = "PUBREC" /\ Goto(Reader, "delete")
          \/ ack.type # "PUBREC" /\ pubOut[ack.id] # None /\ Goto(Reader, "free")
          \/ Goto(Reader, "idle")
      OBVIOUS
    <2>3. QED BY <2>1, <2>2, Apart, PcGoto DEF ReaderOK
  <1>5. QED BY <1>1, <1>2, <1>3, <1>4

LEMMA FreeShape ==
  ASSUME IInv, Shape, Free
  PROVE  Shape'
  <1> USE DEF Free, Shape, queueVars, flowVars, runVars, outVars, closeVars, netVars, pastVars, Freed
  <1>1. PacketsOK'
    BY DEF PacketsOK
  <1>2. FlowOK'
    BY DEF FlowOK
  <1>3. HandOK'
    BY Apart, PcGoto, HandRest
  <1>4. ReaderOK'
    BY Apart, PcGoto DEF ReaderOK
  <1>5. QED BY <1>1, <1>2, <1>3, <1>4

LEMMA RaiseShape ==
  ASSUME IInv, Shape, Raise
  PROVE  Shape'
  <1> USE DEF Raise, Shape, queueVars, flowVars, runVars, outVars, closeVars, netVars, pastVars
  <1>1. PacketsOK'
    BY DEF PacketsOK
  <1>2. FlowOK'
    BY DEF FlowOK, Raised
  <1>3. HandOK'
    BY Apart, PcGoto, HandRest
  <1>4. ReaderOK'
    <2>1. pc[Reader] = "raise" /\ UNCHANGED <<ack, pubOut>> /\ (Goto(Reader,
                                              "run") \/ Goto(Reader, "delete"))
      OBVIOUS
    <2>2. QED BY <2>1, Apart, PcGoto DEF ReaderOK
  <1>5. QED BY <1>1, <1>2, <1>3, <1>4

LEMMA DeleteShape ==
  ASSUME IInv, Shape, Delete
  PROVE  Shape'
  <1> USE DEF Delete, Shape, queueVars, flowVars, runVars, outVars, closeVars, netVars, pastVars
  <1>1. PacketsOK'
    BY DEF PacketsOK
  <1>2. FlowOK'
    <2>1. ack.id \in Id
      BY DEF PacketsOK, AckPacket
    <2>2. pubOut' \in [Id -> QoS12 \cup {Pubrel, None}]
      BY <2>1 DEF FlowOK
    <2>3. overrun' \in [Id -> QoS12 \cup {Pubrel, None}]
      BY <2>1 DEF FlowOK, Overruns
    <2>4. QED BY <2>2, <2>3 DEF FlowOK
  <1>3. HandOK'
    BY Apart, PcGoto, HandRest
  <1>4. ReaderOK'
    BY Apart, PcGoto DEF ReaderOK
  <1>5. QED BY <1>1, <1>2, <1>3, <1>4

LEMMA StoreRelShape ==
  ASSUME IInv, Shape, StoreRel
  PROVE  Shape'
  <1> USE DEF StoreRel, Shape, queueVars, flowVars, runVars, outVars, closeVars, netVars, pastVars
  <1>1. PacketsOK'
    BY DEF PacketsOK
  <1>2. FlowOK'
    <2>1. ack.id \in Id
      BY DEF PacketsOK, AckPacket
    <2>2. pubOut' \in [Id -> QoS12 \cup {Pubrel, None}] /\ overrun' \in [Id -> QoS12 \cup {Pubrel, None}]
      BY <2>1 DEF FlowOK, RelKept
    <2>3. QED BY <2>2 DEF FlowOK
  <1>3. HandOK'
    BY Apart, PcGoto, HandRest
  <1>4. ReaderOK'
    BY Apart, PcGoto DEF ReaderOK
  <1>5. QED BY <1>1, <1>2, <1>3, <1>4

LEMMA RespondShape ==
  ASSUME IInv, Shape, Respond
  PROVE  Shape'
  <1> USE DEF Respond, Shape, queueVars, flowVars, runVars, outVars, closeVars, netVars, pastVars
  <1>1. PacketsOK'
    <2>1. Rel(ack.id) \in [type : {"PUBREL"}, msg : {None}, id : Id]
      BY DEF Rel, PacketsOK, AckPacket
    <2>2. Append(gMessages, Rel(ack.id)) \in Seq([type : {"PUBREL"}, msg : {None}, id : Id])
      BY <2>1, AppendType DEF PacketsOK
    <2>3. QED BY <2>2 DEF PacketsOK
  <1>2. FlowOK'
    BY DEF FlowOK
  <1>3. HandOK'
    BY Apart, PcGoto, HandRest
  <1>4. ReaderOK'
    BY Apart, PcGoto DEF ReaderOK
  <1>5. QED BY <1>1, <1>2, <1>3, <1>4

\* The steps of the close and of the network that move no packet.
LEMMA QuietShape ==
  ASSUME Shape, Close \/ Offline \/ Quit \/ Stopped \/ PassBy \/ Break \/ UNCHANGED vars
  PROVE  Shape'
  <1> USE DEF Close, Offline, Quit, Stopped, PassBy, Break, vars,
              queueVars, flowVars, runVars, outVars, closeVars, netVars, pastVars
  <1>1. /\ UNCHANGED <<gMessages, qos0Messages, qos12Messages, batch, buf, wire, read, acks, ack,
                       pc>>
        /\ UNCHANGED <<quota, counter, inUse, pubOut, overrun, accepted, stored, failed>>
        /\ broken' = broken \/ broken' = TRUE
    OBVIOUS
  <1>2. PacketsOK' /\ FlowOK'
    BY <1>1 DEF Shape, PacketsOK, FlowOK
  <1>3. HandOK'
    BY <1>1, HandRest DEF Shape
  <1>4. ReaderOK'
    BY <1>1 DEF Shape, ReaderOK
  <1>5. QED BY <1>2, <1>3, <1>4 DEF Shape

LEMMA CollectQueuesShape ==
  ASSUME IInv, Shape, CollectQueues
  PROVE  Shape'
  <1> USE DEF CollectQueues, Shape, queueVars, flowVars, runVars, outVars, closeVars, netVars, pastVars
  <1>1. PacketsOK'
    BY DEF PacketsOK
  <1>2. FlowOK'
    <2>1. \A k \in DOMAIN qos12Messages : qos12Messages[k] \in QoS12
      BY DEF PacketsOK
    <2>2. stored' \in [qos12 : SUBSET QoS12, unAck : SUBSET (QoS12 \cup {Pubrel})]
      BY <2>1 DEF FlowOK
    <2>3. QED BY <2>2 DEF FlowOK
  <1>3. HandOK'
    BY HandRest
  <1>4. ReaderOK'
    BY DEF ReaderOK
  <1>5. QED BY <1>1, <1>2, <1>3, <1>4

LEMMA CollectUnAckShape ==
  ASSUME IInv, Shape, CollectUnAck
  PROVE  Shape'
  <1> USE DEF CollectUnAck, Shape, queueVars, flowVars, runVars, outVars, closeVars, netVars, pastVars
  <1>1. PacketsOK'
    BY DEF PacketsOK
  <1>2. FlowOK'
    <2>1. \A i \in Id : pubOut[i] \in QoS12 \cup {Pubrel, None}
      BY DEF FlowOK
    <2>2. {pubOut[i] : i \in Id} \ {None} \in SUBSET (QoS12 \cup {Pubrel})
      BY <2>1
    <2>3. stored' \in [qos12 : SUBSET QoS12, unAck : SUBSET (QoS12 \cup {Pubrel})]
      BY <2>2 DEF FlowOK
    <2>4. pubOut' \in [Id -> QoS12 \cup {Pubrel, None}]
      OBVIOUS
    <2>5. QED BY <2>3, <2>4 DEF FlowOK
  <1>3. HandOK'
    BY HandRest
  <1>4. ReaderOK'
    <2>1. pc'[Reader] = "idle"
      BY DEF IInv, CloseOK
    <2>2. QED BY <2>1 DEF ReaderOK
  <1>5. QED BY <1>1, <1>2, <1>3, <1>4

\* What the client answers.
LEMMA ReplyIs ==
  ASSUME NEW p \in Outgoing
  PROVE  \/ Reply(p) = <<>> /\ p.msg \notin QoS12 /\ p.id = 0
         \/ /\ p.id \in Id
            /\ \E type \in {"PUBACK", "PUBREC", "PUBCOMP"} : Reply(p) = <<Ack(type, p.id)>>
  <1>1. CASE p \in [type : {"PUBREL"}, msg : {None}, id : Id]
    BY <1>1 DEF Reply
  <1>2. CASE p \in [type : {"PUBLISH"}, msg : QoS12, id : Id]
    BY <1>2 DEF Reply, QoS12
  <1>3. CASE p \in [type : {"PUBLISH"}, msg : QoS0, id : {0}]
    <2>1. p.msg \notin QoS12 /\ p.type # "PUBREL" /\ p.id = 0
      BY <1>3, WriterAssumption DEF QoS12
    <2>2. QED BY <2>1 DEF Reply, QoS12
  <1>4. QED BY <1>1, <1>2, <1>3 DEF Outgoing

LEMMA ClientReadsShape ==
  ASSUME IInv, Shape, ClientReads
  PROVE  Shape'
  <1> USE DEF ClientReads, Shape, queueVars, flowVars, runVars, outVars, closeVars, netVars, pastVars
  <1>1. PacketsOK'
    <2>1. wire[read + 1] \in Outgoing /\ read' \in 0 .. Len(wire')
      BY DEF PacketsOK
    <2>2. Reply(wire[read + 1]) \in Seq(AckPacket)
      <3>1. \A i \in Id, type \in {"PUBACK", "PUBREC", "PUBCOMP"} : <<Ack(type, i)>> \in Seq(AckPacket)
        BY DEF Ack, AckPacket
      <3>2. CASE Reply(wire[read + 1]) = <<>>
        BY <3>2
      <3>3. CASE Reply(wire[read + 1]) # <<>>
        <4>1. PICK type \in {"PUBACK", "PUBREC", "PUBCOMP"} :
                Reply(wire[read + 1]) = <<Ack(type, wire[read + 1].id)>> /\ wire[read + 1].id \in Id
          BY <2>1, <3>3, ReplyIs
        <4>2. QED BY <3>1, <4>1
      <3>4. QED BY <3>2, <3>3
    <2>3. acks \o Reply(wire[read + 1]) \in Seq(AckPacket)
      BY <2>2, ConcatType DEF PacketsOK
    <2>4. QED BY <2>1, <2>3 DEF PacketsOK
  <1>2. FlowOK'
    BY DEF FlowOK
  <1>3. HandOK'
    BY HandRest
  <1>4. ReaderOK'
    BY DEF ReaderOK
  <1>5. QED BY <1>1, <1>2, <1>3, <1>4

-----------------------------------------------------------------------------
(* Packets, packet ids and the quota *)

\* The goroutines, taken together, have a packet with the id popped or buffered.
InHands(f, i) == \E r \in Routine : In(f[r], i)

\* What the reader does with the id of an acknowledgement: it has not given it
\* back (Handles); it has, but has not deleted the entry in the ack queue; it
\* is replacing the entry.
Handles(i) ==
  /\ ack.id = i
  /\ pc[Reader] \in {"load", "free"} \/ (ack.type = "PUBREC" /\ pc[Reader] \in {"delete", "rel", "respond"})
GivesBack(i) == ack.id = i /\ ack.type # "PUBREC" /\ pc[Reader] \in {"raise", "run", "claim", "delete"}
Swaps(i) == ack.id = i /\ ack.type = "PUBREC" /\ pc[Reader] \in {"delete", "rel"}

\* No two packets or acknowledgements on their way have the same id.
OnceOK ==
  /\ Once(gMessages) /\ Once(Unread) /\ Once(acks)
  /\ \A r \in Routine : Once(batch[r]) /\ Once(buf[r])

OnePlace ==
  \A i \in Id :
    /\ In(gMessages, i) => ~InHands(batch, i) /\ ~InHands(buf, i) /\ ~In(Unread, i) /\ ~In(acks, i) /\ ~Handles(i)
    /\ InHands(batch, i) => ~InHands(buf, i) /\ ~In(Unread, i) /\ ~In(acks, i) /\ ~Handles(i)
    /\ InHands(buf, i) => ~In(Unread, i) /\ ~In(acks, i) /\ ~Handles(i)
    /\ In(Unread, i) => ~In(acks, i) /\ ~Handles(i)
    /\ In(acks, i) => ~Handles(i)

UnderWay(i) ==
  \/ In(gMessages, i) \/ InHands(batch, i) \/ InHands(buf, i)
  \/ In(Unread, i) \/ In(acks, i) \/ Handles(i)

\* An id is in use while anything under it is on its way, and as long as the ack
\* queue has, will have or has lost an entry for it.
IdsOK ==
  \A i \in Id :
    /\ UnderWay(i) => i \in inUse
    /\ i \in inUse => pubOut[i] # None \/ overrun[i] # None \/ Keeps(i) \/ Swaps(i) \/ closing = "closed"
    /\ pubOut[i] # None => i \in inUse \/ GivesBack(i) \/ closing = "closed"
    /\ overrun[i] # None => i \in inUse /\ ~Keeps(i) /\ ~GivesBack(i) /\ pubOut[i] = None /\ overrun[i] # Pubrel
    /\ GivesBack(i) /\ i \in inUse /\ ~Keeps(i) => pubOut[i] # Pubrel

QuotaOK == Quota - quota = Cardinality(inUse) + IF pc[Reader] = "raise" THEN 1 ELSE 0

Places == OnceOK /\ OnePlace /\ IdsOK /\ QuotaOK

\* Where an id is when sequences grow, shrink and are put together.
LEMMA InAppend ==
  ASSUME NEW S, NEW s \in Seq(S), NEW p \in S, NEW i
  PROVE  In(Append(s, p), i) <=> In(s, i) \/ p.id = i
  BY ElemsAppend DEF In

LEMMA InConcat ==
  ASSUME NEW S, NEW s \in Seq(S), NEW t \in Seq(S), NEW i
  PROVE  In(s \o t, i) <=> In(s, i) \/ In(t, i)
  BY ElemsConcat DEF In

LEMMA InTail ==
  ASSUME NEW S, NEW s \in Seq(S), s # <<>>, NEW i
  PROVE  In(s, i) <=> In(Tail(s), i) \/ Head(s).id = i
  BY ElemsTail DEF In

LEMMA InEmpty ==
  ASSUME NEW i
  PROVE  ~In(<<>>, i)
  BY ElemsEmpty DEF In

LEMMA InHandsIs ==
  ASSUME NEW f, NEW r \in Routine, \A s \in Routine \ {r} : f[s] = <<>>, NEW i
  PROVE  InHands(f, i) <=> In(f[r], i)
  BY InEmpty DEF InHands

\* Steps that move no packet and no id.
LEMMA StillPlaces ==
  ASSUME Shape, Places,
         UNCHANGED <<gMessages, batch, buf, wire, read, acks, inUse, quota, pubOut, overrun>>,
         (closing' = "closed") <=> (closing = "closed"),
         (pc'[Reader] = "raise") <=> (pc[Reader] = "raise"),
         \A i \in Id : /\ Keeps(i)' <=> Keeps(i)
                       /\ Handles(i)' <=> Handles(i)
                       /\ GivesBack(i)' <=> GivesBack(i)
                       /\ Swaps(i)' <=> Swaps(i)
  PROVE  Places'
  <1>1. Unread' = Unread
    BY DEF Unread
  <1>2. OnceOK'
    BY <1>1 DEF Places, OnceOK
  <1>3. OnePlace'
    BY <1>1 DEF Places, OnePlace
  <1>4. \A i \in Id : UnderWay(i)' <=> UnderWay(i)
    BY <1>1 DEF UnderWay
  <1>5. IdsOK'
    BY <1>4 DEF Places, IdsOK
  <1>6. QuotaOK'
    BY DEF Places, QuotaOK
  <1>7. QED BY <1>2, <1>3, <1>5, <1>6 DEF Places

\* Who keeps and who handles an id stays the same.
LEMMA KeepsSame ==
  ASSUME UNCHANGED batch, \A r \in Routine : (pc'[r] = "keep") <=> (pc[r] = "keep"), NEW i \in Id
  PROVE  Keeps(i)' <=> Keeps(i)
  BY DEF Keeps

LEMMA ReaderSame ==
  ASSUME UNCHANGED ack, pc'[Reader] = pc[Reader], NEW i \in Id
  PROVE  /\ Handles(i)' <=> Handles(i)
         /\ GivesBack(i)' <=> GivesBack(i)
         /\ Swaps(i)' <=> Swaps(i)
  BY DEF Handles, GivesBack, Swaps

\* Steps of a goroutine, of run, of its callers and of the close that move no
\* packet.
LEMMA QuietGoroutine ==
  ASSUME IInv, Shape, Places, NEW r \in Routine,
         Sync(r) \/ Check(r) \/ NoQoS12(r) \/ NothingLeft(r) \/ Leave(r) \/ Recheck(r) \/ Done(r)
  PROVE  Places'
  <1> USE DEF queueVars, flowVars, runVars, outVars, closeVars, netVars, pastVars
  <1>1. /\ UNCHANGED <<gMessages, batch, buf, wire, read, acks, ack, inUse, quota, pubOut,
                       overrun>>
        /\ (closing' = "closed") <=> (closing = "closed")
    BY DEF Sync, Check, NoQoS12, NothingLeft, Leave, Recheck, Done
  <1>2. PICK step \in Steps \ {"keep"} : Goto(r, step) /\ pc[r] # "keep"
    BY DEF Sync, Check, NoQoS12, NothingLeft, Leave, Recheck, Done, Steps
  <1>3. pc'[Reader] = pc[Reader] /\ \A s \in Routine : (pc'[s] = "keep") <=> (pc[s] = "keep")
    BY <1>2, Apart, PcGoto
  <1>4. QED BY <1>1, <1>3, KeepsSame, ReaderSame, StillPlaces

\* How run moves the one who called it, and the goroutine it starts.
LEMMA RunMoves ==
  ASSUME IInv, NEW t \in Caller, Run(t)
  PROVE  /\ pc[t] \in {"run", "claim"} /\ pc'[t] \in {"claim", AfterRun(t)}
         /\ \A s \in Caller \ {t} : pc'[s] = pc[s] \/ (s \in Routine /\ pc[s] = "idle" /\ pc'[s] = "sync")
  <1>1. CASE RunChecks(t)
    <2>1. PICK step : Goto(t, step) /\ step \in {"claim", AfterRun(t)} /\ pc[t] = "run"
      BY <1>1 DEF RunChecks
    <2>2. QED BY <2>1, PcGoto
  <1>2. CASE RunClaims(t)
    BY <1>2 DEF RunClaims, Goto, IInv, ControlOK
  <1>3. QED BY <1>1, <1>2 DEF Run

\* Whether or not it is the reader that calls run.
LEMMA RunReader ==
  ASSUME IInv, NEW t \in Caller, Run(t)
  PROVE  /\ UNCHANGED ack /\ ((pc'[Reader] = "raise") <=> (pc[Reader] = "raise"))
         /\ \A i \in Id : /\ Handles(i)' <=> Handles(i)
                          /\ GivesBack(i)' <=> GivesBack(i)
                          /\ Swaps(i)' <=> Swaps(i)
  <1>1. UNCHANGED ack
    BY DEF Run, RunChecks, RunClaims
  <1>2. CASE t # Reader
    <2>1. pc'[Reader] = pc[Reader]
      BY <1>2, Apart, RunMoves
    <2>2. QED BY <1>1, <2>1, ReaderSame
  <1>3. CASE t = Reader
    <2>1. /\ pc[Reader] \in {"run", "claim"}
          /\ pc'[Reader] \in {"claim", IF ack.type = "PUBREC" THEN "idle" ELSE "delete"}
      BY <1>3, RunMoves, AfterRunIs
    <2>2. QED BY <1>1, <2>1 DEF Handles, GivesBack, Swaps
  <1>4. QED BY <1>2, <1>3

LEMMA QuietCaller ==
  ASSUME IInv, Shape, Places, NEW t \in Caller, Run(t)
  PROVE  Places'
  <1> USE DEF queueVars, flowVars, runVars, outVars, closeVars, netVars, pastVars
  <1>1. UNCHANGED <<gMessages, batch, buf, wire, read, acks, ack, inUse, quota, pubOut, overrun,
                    closing>>
    BY DEF Run, RunChecks, RunClaims
  <1>2. /\ pc[t] \in {"run", "claim"} /\ pc'[t] \in {"claim", AfterRun(t)}
        /\ \A s \in Caller \ {t} : pc'[s] = pc[s] \/ (s \in Routine /\ pc[s] = "idle" /\ pc'[s] = "sync")
    BY RunMoves
  <1>3. \A s \in Routine : (pc'[s] = "keep") <=> (pc[s] = "keep")
    BY <1>2, Apart, AfterRunIs
  <1>4. /\ (pc'[Reader] = "raise") <=> (pc[Reader] = "raise")
        /\ \A i \in Id : /\ Handles(i)' <=> Handles(i)
                         /\ GivesBack(i)' <=> GivesBack(i)
                         /\ Swaps(i)' <=> Swaps(i)
    BY RunReader
  <1>5. QED BY <1>1, <1>3, <1>4, KeepsSame, StillPlaces

LEMMA QuietOther ==
  ASSUME IInv, Shape, Places,
         Start \/ (\E m \in Pub : Send(m)) \/ Close \/ Offline \/ Quit \/ Stopped \/ PassBy \/ CollectQueues \/ Break
  PROVE  Places'
  <1> USE DEF queueVars, flowVars, runVars, outVars, closeVars, netVars, pastVars
  <1>1. /\ UNCHANGED <<gMessages, batch, buf, wire, read, acks, ack, inUse, quota, pubOut,
                       overrun>>
        /\ (closing' = "closed") <=> (closing = "closed")
    BY DEF Start, Send, Close, Offline, Quit, Stopped, PassBy, CollectQueues, Break
  <1>2. pc' = pc \/ \E t \in Caller \ (Routine \cup {Reader}) : Goto(t, "run")
    BY Apart DEF Start, Send, Close, Offline, Quit, Stopped, PassBy, CollectQueues, Break
  <1>3. pc'[Reader] = pc[Reader] /\ \A s \in Routine : pc'[s] = pc[s]
    BY <1>2, Apart, PcGoto
  <1>4. QED BY <1>1, <1>3, KeepsSame, ReaderSame, StillPlaces

\* Only a goroutine that is about to fill the ack queue keeps an id from it.
LEMMA KeepsIs ==
  ASSUME IInv, HandOK, NEW r \in Routine, Synced(r), NEW i \in Id
  PROVE  Keeps(i) <=> pc[r] = "keep" /\ Last(batch[r]).id = i
  BY Alone DEF Keeps, Last, SendingSteps

\* Only the goroutine that is at work has an id in hand.
LEMMA HandsAre ==
  ASSUME IInv, HandOK, NEW r \in Routine, Synced(r), NEW i \in Id
  PROVE  /\ InHands(batch, i) <=> In(batch[r], i)
         /\ InHands(buf, i) <=> In(buf[r], i)
  BY Alone, InHandsIs

\* After a step of a goroutine that has packets in hand.
LEMMA HandsAfter ==
  ASSUME IInv, HandOK, NEW r \in Routine, Synced(r), NEW step, Goto(r, step),
         \A s \in Routine \ {r} : batch'[s] = batch[s] /\ buf'[s] = buf[s], NEW i \in Id
  PROVE  /\ InHands(batch', i) <=> In(batch'[r], i)
         /\ InHands(buf', i) <=> In(buf'[r], i)
         /\ Keeps(i)' <=> step = "keep" /\ Last(batch'[r]).id = i
         /\ pc'[Reader] = pc[Reader]
  <1>1. \A s \in Routine \ {r} : batch'[s] = <<>> /\ buf'[s] = <<>> /\ pc'[s] # "keep"
    BY Alone, Apart, PcGoto DEF SendingSteps
  <1>2. pc'[r] = step /\ pc'[Reader] = pc[Reader]
    BY Apart, PcGoto
  <1>3. InHands(batch', i) <=> In(batch'[r], i)
    BY <1>1, InHandsIs
  <1>4. InHands(buf', i) <=> In(buf'[r], i)
    BY <1>1, InHandsIs
  <1>5. QED BY <1>1, <1>2, <1>3, <1>4 DEF Keeps, Last

\* Steps that move a packet, but no id.
LEMMA StillIds ==
  ASSUME IdsOK, UNCHANGED <<inUse, pubOut, overrun>>,
                            (closing' = "closed") <=> (closing = "closed"),
         \A i \in Id : /\ UnderWay(i)' => UnderWay(i)
                       /\ Keeps(i)' <=> Keeps(i)
                       /\ GivesBack(i)' <=> GivesBack(i)
                       /\ Swaps(i)' <=> Swaps(i)
  PROVE  IdsOK'
  BY DEF IdsOK

\* Nobody keeps an id from the ack queue but a goroutine at "keep".
LEMMA NobodyKeeps ==
  ASSUME IInv, HandOK, NEW r \in Routine, Synced(r), pc[r] # "keep", NEW i \in Id
  PROVE  ~Keeps(i)
  BY KeepsIs

\* The goroutine pops a PUBREL: its id goes from the queue into its hands.
LEMMA PopGeneralPlaces ==
  ASSUME IInv, Shape, Places, Shape', NEW r \in Routine, PopGeneral(r)
  PROVE  Places'
  <1>1. /\ UNCHANGED <<buf, wire, read, acks, ack, inUse, quota, pubOut, overrun, closing>>
        /\ \A s \in Routine \ {r} : batch'[s] = batch[s]
        /\ pc[r] = "general" /\ Synced(r)
    BY DEF PopGeneral, Popped, Shape, PacketsOK, flowVars, closeVars, netVars, pastVars, Synced,
           SendingSteps
  <1>2. PICK step \in {"qos12", "write"} : Goto(r, step)
    BY DEF PopGeneral
  <1>3. \A i \in Id : /\ InHands(batch', i) <=> In(batch'[r], i)
                      /\ InHands(batch, i) <=> In(batch[r], i)
                      /\ InHands(buf', i) <=> InHands(buf, i)
                      /\ ~Keeps(i) /\ ~Keeps(i)'
    BY <1>1, <1>2, HandsAfter, HandsAre, NobodyKeeps DEF Shape
  <1>4. pc'[Reader] = pc[Reader]
    BY <1>2, Apart, PcGoto
  <1>5. \A i \in Id : (Handles(i)' <=> Handles(i)) /\ (GivesBack(i)' <=> GivesBack(i)) /\ (Swaps(i)' <=> Swaps(i))
    BY <1>1, <1>4, ReaderSame
  <1>6. Unread' = Unread
    BY <1>1 DEF Unread
  <1>7. QuotaOK'
    BY <1>1, <1>4 DEF Places, QuotaOK
  <1>8. CASE isAlive /\ gMessages # <<>>
    <2> DEFINE p == Head(gMessages)
    <2>1. /\ gMessages' = Tail(gMessages) /\ batch'[r] = Append(batch[r], p)
      BY <1>8 DEF PopGeneral, Popped, Shape, PacketsOK
    <2>2. p \in Outgoing /\ p.id \in Id /\ p.id # 0 /\ batch[r] \in Seq(Outgoing)
      <3>1. p \in [type : {"PUBREL"}, msg : {None}, id : Id]
        BY <1>8, TailType DEF Shape, PacketsOK
      <3>2. batch[r] \in Seq(Outgoing)
        BY DEF Shape, PacketsOK
      <3>3. p.id \in Id /\ p \in Outgoing
        BY <3>1 DEF Outgoing
      <3>4. QED BY <3>2, <3>3, IdIs
    <2>3. \A i \in Id : /\ In(gMessages, i) <=> In(gMessages', i) \/ p.id = i
                        /\ In(batch'[r], i) <=> In(batch[r], i) \/ p.id = i
      <3>1. \A i \in Id : In(gMessages, i) <=> In(gMessages', i) \/ p.id = i
        BY <1>8, <2>1, InTail DEF Shape, PacketsOK
      <3>2. \A i \in Id : In(batch'[r], i) <=> In(batch[r], i) \/ p.id = i
        BY <2>1, <2>2, InAppend
      <3>3. QED BY <3>1, <3>2
    <2>4. Once(gMessages') /\ ~In(gMessages', p.id)
      BY <1>8, <2>1, <2>2, OnceTail DEF Places, OnceOK, Shape, PacketsOK
    <2> HIDE DEF p
    <2>5. ~InHands(batch, p.id)
      BY <2>2, <2>3 DEF Places, OnePlace
    <2>6. Once(batch'[r])
      BY <1>3, <2>1, <2>2, <2>5, OnceAppend DEF Places, OnceOK
    <2>7. OnceOK'
      BY <1>1, <1>6, <2>4, <2>6 DEF Places, OnceOK
    <2>8. OnePlace'
      BY <1>1, <1>3, <1>5, <1>6, <2>3, <2>4 DEF Places, OnePlace
    <2>9. \A i \in Id : UnderWay(i)' => UnderWay(i)
      BY <1>1, <1>3, <1>5, <1>6, <2>3 DEF UnderWay
    <2>10. IdsOK'
      BY <1>1, <1>3, <1>5, <2>9, StillIds DEF Places
    <2>11. QED BY <1>7, <2>7, <2>8, <2>10 DEF Places
  <1>9. CASE ~(isAlive /\ gMessages # <<>>)
    <2>1. UNCHANGED <<gMessages, batch>>
      BY <1>9 DEF PopGeneral
    <2>2. QED BY <1>1, <1>3, <1>4, <1>5, <2>1, StillPlaces
  <1>10. QED BY <1>8, <1>9

\* A publish gets a new id (writer.go:267-284, flowControl.go:32-55).
LEMMA TakeQoS12Places ==
  ASSUME IInv, Shape, Places, Shape', NEW r \in Routine, TakeQoS12(r)
  PROVE  Places'
  <1>1. PICK j \in Id \ inUse :
          /\ inUse' = inUse \cup {j}
          /\ batch' = [batch EXCEPT ![r] = Append(batch[r], Publish(Head(qos12Messages), j))]
    BY DEF TakeQoS12, Popped
  <1>2. /\ UNCHANGED <<gMessages, buf, wire, read, acks, ack, pubOut, overrun, closing>>
        /\ quota' = quota - 1 /\ pc[r] = "qos12" /\ Synced(r) /\ Goto(r, "keep")
        /\ qos12Messages # <<>>
    BY DEF TakeQoS12, qos12Available, closeVars, netVars, pastVars, Synced, SendingSteps
  <1> DEFINE p == Publish(Head(qos12Messages), j)
  <1>3. p \in Outgoing /\ p.id = j /\ batch[r] \in Seq(Outgoing) /\ j # 0
    <2>1. Head(qos12Messages) \in QoS12
      BY <1>2, TailType DEF Shape, PacketsOK
    <2>2. batch[r] \in Seq(Outgoing)
      BY DEF Shape, PacketsOK
    <2>3. p \in Outgoing /\ p.id = j
      BY <2>1 DEF Publish, Outgoing
    <2>4. QED BY <2>2, <2>3, IdIs
  <1>4. batch'[r] = Append(batch[r], p) /\ \A s \in Routine \ {r} : batch'[s] = batch[s]
    BY <1>1 DEF Shape, PacketsOK
  <1> HIDE DEF p
  <1>5. Last(batch'[r]) = p
    BY <1>3, <1>4 DEF Last
  <1>6. \A i \in Id : /\ InHands(batch', i) <=> In(batch'[r], i)
                      /\ InHands(batch, i) <=> In(batch[r], i)
                      /\ InHands(buf', i) <=> InHands(buf, i)
                      /\ ~Keeps(i)
                      /\ Keeps(i)' <=> i = j
    BY <1>2, <1>3, <1>4, <1>5, HandsAfter, HandsAre, NobodyKeeps DEF Shape
  <1>7. pc'[Reader] = pc[Reader]
    BY <1>2, Apart, PcGoto
  <1>8. \A i \in Id : (Handles(i)' <=> Handles(i)) /\ (GivesBack(i)' <=> GivesBack(i)) /\ (Swaps(i)' <=> Swaps(i))
    BY <1>2, <1>7, ReaderSame
  <1>9. Unread' = Unread
    BY <1>2 DEF Unread
  <1>10. \A i \in Id : In(batch'[r], i) <=> In(batch[r], i) \/ i = j
    BY <1>3, <1>4, InAppend
  <1>11. ~UnderWay(j)
    BY DEF Places, IdsOK
  <1>12. OnceOK'
    <2>1. ~In(batch[r], p.id)
      BY <1>3, <1>6, <1>11 DEF UnderWay
    <2>2. Once(batch'[r])
      BY <1>3, <1>4, <2>1, OnceAppend DEF Places, OnceOK
    <2>3. QED BY <1>2, <1>4, <1>9, <2>2 DEF Places, OnceOK
  <1>13. OnePlace'
    BY <1>2, <1>6, <1>8, <1>9, <1>10, <1>11 DEF Places, OnePlace, UnderWay
  <1>14. \A i \in Id : UnderWay(i)' <=> UnderWay(i) \/ i = j
    BY <1>2, <1>6, <1>8, <1>9, <1>10 DEF UnderWay
  <1>15. overrun[j] = None
    BY DEF Places, IdsOK
  <1>16. IdsOK'
    BY <1>1, <1>2, <1>6, <1>8, <1>14, <1>15 DEF Places, IdsOK
  <1>17. QuotaOK'
    <2>1. IsFiniteSet(inUse)
      BY IdIs, FS_Subset DEF Shape, FlowOK
    <2>2. Cardinality(inUse') = Cardinality(inUse) + 1 /\ Cardinality(inUse) \in Nat
      BY <1>1, <2>1, FS_AddElement, FS_CardinalityType
    <2>3. quota \in Int /\ Quota \in Int
      BY WriterAssumption DEF Shape, FlowOK
    <2>4. QED BY <1>2, <1>7, <2>2, <2>3 DEF Places, QuotaOK
  <1>18. QED BY <1>12, <1>13, <1>16, <1>17 DEF Places

\* The packet popped gets into the ack queue (writer.go:286). The reader may have
\* to delete an older entry under its id.
LEMMA KeepPlaces ==
  ASSUME IInv, Shape, Places, Shape', NEW r \in Routine, Keep(r)
  PROVE  Places'
  <1> DEFINE p == Last(batch[r])
  <1>1. /\ UNCHANGED <<gMessages, batch, buf, wire, read, acks, ack, inUse, quota, overrun,
                       closing>>
        /\ pc[r] = "keep" /\ Synced(r) /\ Goto(r, "qos0") /\ pubOut' = [pubOut EXCEPT ![p.id] = p.msg]
    BY DEF Keep, Kept, Last, queueVars, flowVars, outVars, closeVars, netVars, pastVars, Synced,
           SendingSteps
  <1>2. p.msg \in QoS12 /\ p.id \in Id /\ In(batch[r], p.id)
    <2>1. p.msg \in QoS12 /\ batch[r] # <<>> /\ batch[r] \in Seq(Outgoing)
      BY <1>1 DEF Shape, HandOK, HandIs, PacketsOK
    <2>2. Len(batch[r]) \in DOMAIN batch[r] /\ p \in Outgoing
      BY <2>1 DEF Last
    <2>3. p.id \in Id
      BY <2>1, <2>2, WriterAssumption DEF Outgoing, QoS12, Pub
    <2>4. QED BY <2>1, <2>2, <2>3 DEF In, Elems, Last
  <1>3. p.msg # None /\ p.msg # Pubrel
    BY <1>2, WriterAssumption DEF QoS12, Pub
  <1> HIDE DEF p
  <1>4. \A i \in Id : /\ Keeps(i) <=> i = p.id
                      /\ ~Keeps(i)'
    BY <1>1, HandsAfter, KeepsIs DEF p, Shape
  <1>5. pc'[Reader] = pc[Reader]
    BY <1>1, Apart, PcGoto
  <1>6. \A i \in Id : (Handles(i)' <=> Handles(i)) /\ (GivesBack(i)' <=> GivesBack(i)) /\ (Swaps(i)' <=> Swaps(i))
    BY <1>1, <1>5, ReaderSame
  <1>7. Unread' = Unread
    BY <1>1 DEF Unread
  <1>8. OnceOK' /\ OnePlace'
    BY <1>1, <1>6, <1>7 DEF Places, OnceOK, OnePlace
  <1>9. \A i \in Id : UnderWay(i)' <=> UnderWay(i)
    BY <1>1, <1>6, <1>7 DEF UnderWay
  <1>10. p.id \in inUse
    <2>1. UnderWay(p.id)
      BY <1>2 DEF UnderWay, InHands
    <2>2. QED BY <1>2, <2>1 DEF Places, IdsOK
  <1>11. /\ pubOut'[p.id] = p.msg
         /\ \A i \in Id \ {p.id} : pubOut'[i] = pubOut[i]
    BY <1>1, <1>2 DEF Shape, FlowOK
  <1>12. IdsOK'
    BY <1>1, <1>2, <1>3, <1>4, <1>6, <1>9, <1>10, <1>11 DEF Places, IdsOK
  <1>13. QuotaOK'
    BY <1>1, <1>5 DEF Places, QuotaOK
  <1>14. QED BY <1>8, <1>12, <1>13 DEF Places

\* A publish without an id is popped.
LEMMA PopQoS0Places ==
  ASSUME IInv, Shape, Places, Shape', NEW r \in Routine, PopQoS0(r)
  PROVE  Places'
  <1>1. /\ UNCHANGED <<gMessages, buf, wire, read, acks, ack, inUse, quota, pubOut, overrun,
                       closing>>
        /\ \A s \in Routine \ {r} : batch'[s] = batch[s]
        /\ pc[r] = "qos0" /\ Synced(r) /\ Goto(r, "write")
    BY DEF PopQoS0, Popped, Shape, PacketsOK, flowVars, closeVars, netVars, pastVars, Synced,
           SendingSteps
  <1>2. \A i \in Id : /\ InHands(batch', i) <=> In(batch'[r], i)
                      /\ InHands(batch, i) <=> In(batch[r], i)
                      /\ InHands(buf', i) <=> InHands(buf, i)
                      /\ ~Keeps(i) /\ ~Keeps(i)'
    BY <1>1, HandsAfter, HandsAre, NobodyKeeps DEF Shape
  <1>3. pc'[Reader] = pc[Reader]
    BY <1>1, Apart, PcGoto
  <1>4. \A i \in Id : (Handles(i)' <=> Handles(i)) /\ (GivesBack(i)' <=> GivesBack(i)) /\ (Swaps(i)' <=> Swaps(i))
    BY <1>1, <1>3, ReaderSame
  <1>5. Unread' = Unread
    BY <1>1 DEF Unread
  <1>6. batch[r] \in Seq(Outgoing) /\ Once(batch[r])
    BY DEF Shape, PacketsOK, Places, OnceOK
  <1>7. Once(batch'[r]) /\ \A i \in Id : In(batch'[r], i) <=> In(batch[r], i)
    <2>1. CASE qos0Messages # <<>>
      <3> DEFINE p == Publish(Head(qos0Messages), 0)
      <3>1. batch'[r] = Append(batch[r], p)
        BY <2>1 DEF PopQoS0, Popped, Shape, PacketsOK
      <3>2. Head(qos0Messages) \in QoS0
        BY <2>1, TailType DEF Shape, PacketsOK
      <3>3. p \in Outgoing /\ p.id = 0
        BY <3>2 DEF Publish, Outgoing
      <3> HIDE DEF p
      <3>4. \A i \in Id : In(batch'[r], i) <=> In(batch[r], i)
        BY <1>6, <3>1, <3>3, InAppend, IdIs
      <3>5. Once(batch'[r])
        BY <1>6, <3>1, <3>3, OnceAppend
      <3>6. QED BY <3>4, <3>5
    <2>2. CASE qos0Messages = <<>>
      BY <1>6, <2>2 DEF PopQoS0
    <2>3. QED BY <2>1, <2>2
  <1>8. OnceOK'
    BY <1>1, <1>5, <1>7 DEF Places, OnceOK
  <1>9. OnePlace'
    BY <1>1, <1>2, <1>4, <1>5, <1>7 DEF Places, OnePlace
  <1>10. \A i \in Id : UnderWay(i)' => UnderWay(i)
    BY <1>1, <1>2, <1>4, <1>5, <1>7 DEF UnderWay
  <1>11. IdsOK'
    BY <1>1, <1>2, <1>4, <1>10, StillIds DEF Places
  <1>12. QuotaOK'
    BY <1>1, <1>3 DEF Places, QuotaOK
  <1>13. QED BY <1>8, <1>9, <1>11, <1>12 DEF Places

\* The goroutine gives packets to the network: those get there, or get lost.
LEMMA TransmitPlaces ==
  ASSUME Shape, Shape', NEW packets \in Seq(Outgoing), Transmit(packets), UNCHANGED read
  PROVE  \/ Unread' = Unread
         \/ Unread \in Seq(Outgoing) /\ Unread' = Unread \o packets
  <1>1. CASE broken
    BY <1>1 DEF Transmit, Unread
  <1>2. CASE ~broken
    <2>1. wire' = wire \o packets /\ wire \in Seq(Outgoing) /\ read \in 0 .. Len(wire)
      BY <1>2 DEF Transmit, Shape, PacketsOK
    <2>2. /\ SubSeq(wire \o packets, read + 1, Len(wire \o packets)) = SubSeq(wire, read + 1, Len(wire)) \o packets
          /\ SubSeq(wire, read + 1, Len(wire)) \in Seq(Outgoing)
      BY <2>1, RestOfConcat, RestType
    <2>3. QED BY <2>1, <2>2 DEF Unread
  <1>3. QED BY <1>1, <1>2

\* What the goroutine popped gets into its buffer or to the network.
LEMMA WritePlaces ==
  ASSUME IInv, Shape, Places, Shape', NEW r \in Routine, Write(r)
  PROVE  Places'
  <1>1. /\ UNCHANGED <<gMessages, read, acks, ack, inUse, quota, pubOut, overrun, closing>>
        /\ batch'[r] = <<>> /\ \A s \in Routine \ {r} : batch'[s] = batch[s] /\ buf'[s] = buf[s]
        /\ pc[r] = "write" /\ Synced(r)
    BY DEF Write, Shape, PacketsOK, queueVars, flowVars, closeVars, pastVars, Synced, SendingSteps
  <1>2. PICK step \in {"general", "leave"} : Goto(r, step)
    BY DEF Write
  <1>3. \A i \in Id : /\ InHands(batch', i) <=> In(batch'[r], i)
                      /\ InHands(batch, i) <=> In(batch[r], i)
                      /\ InHands(buf', i) <=> In(buf'[r], i)
                      /\ InHands(buf, i) <=> In(buf[r], i)
                      /\ ~Keeps(i) /\ ~Keeps(i)'
    BY <1>1, <1>2, HandsAfter, HandsAre, NobodyKeeps DEF Shape
  <1>4. pc'[Reader] = pc[Reader]
    BY <1>2, Apart, PcGoto
  <1>5. \A i \in Id : (Handles(i)' <=> Handles(i)) /\ (GivesBack(i)' <=> GivesBack(i)) /\ (Swaps(i)' <=> Swaps(i))
    BY <1>1, <1>4, ReaderSame
  <1>6. /\ batch[r] \in Seq(Outgoing) /\ buf[r] \in Seq(Outgoing) /\ Ready(r) \in Seq(Outgoing)
        /\ Once(batch[r]) /\ Once(buf[r]) /\ Once(Unread)
    BY ConcatType DEF Shape, PacketsOK, Places, OnceOK, Ready
  <1>7. \A i \in Id : In(Ready(r), i) <=> In(buf[r], i) \/ In(batch[r], i)
    BY <1>6, InConcat DEF Ready
  <1>8. \A s \in {batch[r], buf[r], Ready(r), Unread} : s \in Seq(Outgoing) => \A p \in Elems(s) : p.id = 0 \/ (p.id \in Id /\ In(s, p.id))
    <2>1. \A p \in Outgoing : p.id = 0 \/ p.id \in Id
      BY DEF Outgoing
    <2>2. QED BY <2>1 DEF Elems, In
  <1>9. Once(Ready(r))
    <2>1. \A p \in Elems(buf[r]) : p.id = 0 \/ ~In(batch[r], p.id)
      BY <1>3, <1>6, <1>8 DEF Places, OnePlace
    <2>2. QED BY <1>6, <2>1, OnceConcat DEF Ready
  <1>10. /\ \A i \in Id : ~In(batch'[r], i)
         /\ Once(batch'[r])
    BY <1>1, InEmpty, ElemsEmpty
  <1>11. /\ Once(buf'[r]) /\ Once(Unread')
         /\ \A i \in Id : /\ In(buf'[r], i) => In(batch[r], i) \/ In(buf[r], i)
                          /\ In(Unread', i) => In(Unread, i) \/ In(batch[r], i) \/ In(buf[r], i)
                          /\ ~(In(buf'[r], i) /\ In(Unread', i))
    <2>1. CASE buf' = [buf EXCEPT ![r] = Ready(r)] /\ wire' = wire
      <3>1. buf'[r] = Ready(r) /\ Unread' = Unread
        BY <1>1, <2>1 DEF Shape, PacketsOK, Unread
      <3>2. QED BY <1>3, <1>6, <1>7, <1>9, <3>1 DEF Places, OnePlace
    <2>2. CASE Transmit(Ready(r)) /\ buf' = [buf EXCEPT ![r] = <<>>]
      <3>1. buf'[r] = <<>>
        BY <2>2 DEF Shape, PacketsOK
      <3>2. Once(buf'[r]) /\ \A i \in Id : ~In(buf'[r], i)
        BY <3>1, InEmpty, ElemsEmpty
      <3>3. CASE Unread' = Unread
        BY <1>6, <3>2, <3>3
      <3>4. CASE Unread \in Seq(Outgoing) /\ Unread' = Unread \o Ready(r)
        <4>1. \A i \in Id : In(Unread', i) <=> In(Unread, i) \/ In(Ready(r), i)
          BY <1>6, <3>4, InConcat
        <4>2. \A p \in Elems(Unread) : p.id = 0 \/ ~In(Ready(r), p.id)
          BY <1>3, <1>7, <1>8, <3>4 DEF Places, OnePlace
        <4>3. Once(Unread')
          BY <1>6, <1>9, <3>4, <4>2, OnceConcat
        <4>4. QED BY <1>7, <3>2, <4>1, <4>3
      <3>5. QED BY <1>1, <1>6, <2>2, <3>3, <3>4, TransmitPlaces
    <2>3. CASE UNCHANGED <<buf, wire>>
      <3>1. Unread' = Unread /\ buf' = buf
        BY <1>1, <2>3 DEF Unread
      <3>2. QED BY <1>3, <1>6, <3>1 DEF Places, OnePlace
    <2>4. QED BY <2>1, <2>2, <2>3 DEF Write
  <1>12. OnceOK'
    BY <1>1, <1>10, <1>11 DEF Places, OnceOK
  <1>13. OnePlace'
    BY <1>1, <1>3, <1>5, <1>10, <1>11 DEF Places, OnePlace
  <1>14. \A i \in Id : UnderWay(i)' => UnderWay(i)
    BY <1>1, <1>3, <1>5, <1>10, <1>11 DEF UnderWay
  <1>15. IdsOK'
    BY <1>1, <1>3, <1>5, <1>14, StillIds DEF Places
  <1>16. QuotaOK'
    BY <1>1, <1>4 DEF Places, QuotaOK
  <1>17. QED BY <1>12, <1>13, <1>15, <1>16 DEF Places

\* What it has buffered gets to the network.
LEMMA FlushPlaces ==
  ASSUME IInv, Shape, Places, Shape', NEW r \in Routine, Flush(r)
  PROVE  Places'
  <1>1. /\ UNCHANGED <<gMessages, batch, read, acks, ack, inUse, quota, pubOut, overrun, closing>>
        /\ buf'[r] = <<>> /\ \A s \in Routine \ {r} : buf'[s] = buf[s]
        /\ pc[r] = "flush" /\ Synced(r) /\ Goto(r, "recheck")
    BY DEF Flush, Shape, PacketsOK, queueVars, flowVars, closeVars, pastVars, Synced, EndingSteps
  <1>2. \A i \in Id : /\ InHands(batch', i) <=> InHands(batch, i)
                      /\ ~InHands(buf', i)
                      /\ InHands(buf, i) <=> In(buf[r], i)
                      /\ ~Keeps(i) /\ ~Keeps(i)'
    BY <1>1, HandsAfter, HandsAre, NobodyKeeps, InEmpty DEF Shape
  <1>3. pc'[Reader] = pc[Reader]
    BY <1>1, Apart, PcGoto
  <1>4. \A i \in Id : (Handles(i)' <=> Handles(i)) /\ (GivesBack(i)' <=> GivesBack(i)) /\ (Swaps(i)' <=> Swaps(i))
    BY <1>1, <1>3, ReaderSame
  <1>5. buf[r] \in Seq(Outgoing) /\ Once(buf[r]) /\ Once(Unread) /\ Once(buf'[r])
    BY <1>1, ElemsEmpty DEF Shape, PacketsOK, Places, OnceOK
  <1>6. /\ Once(Unread')
        /\ \A i \in Id : In(Unread', i) => In(Unread, i) \/ In(buf[r], i)
    <2>1. CASE Unread' = Unread
      BY <1>5, <2>1
    <2>2. CASE Unread \in Seq(Outgoing) /\ Unread' = Unread \o buf[r]
      <3>1. \A i \in Id : In(Unread', i) <=> In(Unread, i) \/ In(buf[r], i)
        BY <1>5, <2>2, InConcat
      <3>2. \A p \in Elems(Unread) : p.id = 0 \/ (p.id \in Id /\ In(Unread, p.id))
        <4>1. \A p \in Outgoing : p.id = 0 \/ p.id \in Id
          BY DEF Outgoing
        <4>2. QED BY <2>2, <4>1 DEF Elems, In
      <3>3. \A p \in Elems(Unread) : p.id = 0 \/ ~In(buf[r], p.id)
        BY <1>2, <3>2 DEF Places, OnePlace
      <3>4. Once(Unread')
        BY <1>5, <2>2, <3>3, OnceConcat
      <3>5. QED BY <3>1, <3>4
    <2>3. wire' = wire => Unread' = Unread
      BY <1>1 DEF Unread
    <2>4. Transmit(buf[r]) \/ wire' = wire
      BY DEF Flush
    <2>5. QED BY <1>1, <1>5, <2>1, <2>2, <2>3, <2>4, TransmitPlaces
  <1>7. OnceOK'
    BY <1>1, <1>5, <1>6 DEF Places, OnceOK
  <1>8. OnePlace'
    BY <1>1, <1>2, <1>4, <1>6 DEF Places, OnePlace
  <1>9. \A i \in Id : UnderWay(i)' => UnderWay(i)
    BY <1>1, <1>2, <1>4, <1>6 DEF UnderWay
  <1>10. IdsOK'
    BY <1>1, <1>2, <1>4, <1>9, StillIds DEF Places
  <1>11. QuotaOK'
    BY <1>1, <1>3 DEF Places, QuotaOK
  <1>12. QED BY <1>7, <1>8, <1>10, <1>11 DEF Places

\* Steps of the reader and the client leave the goroutines alone.
LEMMA HandsStill ==
  ASSUME IInv, UNCHANGED <<batch, buf>>, pc' = pc \/ (\E step : Goto(Reader, step)), NEW i \in Id
  PROVE  /\ Keeps(i)' <=> Keeps(i)
         /\ InHands(batch', i) <=> InHands(batch, i)
         /\ InHands(buf', i) <=> InHands(buf, i)
  <1>1. \A r \in Routine : pc'[r] = pc[r]
    BY Apart, PcGoto
  <1>2. QED BY <1>1 DEF Keeps

\* The next packet the client reads.
LEMMA UnreadIs ==
  ASSUME Shape, read < Len(wire), read' = read + 1, UNCHANGED wire
  PROVE  /\ Unread \in Seq(Outgoing) /\ Unread # <<>> /\ Head(Unread) = wire[read + 1]
         /\ Unread' = Tail(Unread) /\ wire[read + 1] \in Outgoing
  <1>1. /\ SubSeq(wire, read + 1, Len(wire)) \in Seq(Outgoing) /\ SubSeq(wire, read + 1, Len(wire)) # <<>>
        /\ Head(SubSeq(wire, read + 1, Len(wire))) = wire[read + 1]
        /\ Tail(SubSeq(wire, read + 1, Len(wire))) = SubSeq(wire, read + 2, Len(wire))
    BY RestOfRest DEF Shape, PacketsOK
  <1>2. read' + 1 = read + 2 /\ wire[read + 1] \in Outgoing
    BY DEF Shape, PacketsOK
  <1>3. QED BY <1>1, <1>2 DEF Unread

\* Its answer, if any, has its id.
LEMMA ReplyIn ==
  ASSUME Shape, NEW p \in Outgoing, acks' = acks \o Reply(p)
  PROVE  /\ \A i \in Id : In(acks', i) => In(acks, i) \/ p.id = i
         /\ Once(acks) /\ (p.id # 0 => ~In(acks, p.id)) => Once(acks')
  <1>1. acks \in Seq(AckPacket)
    BY DEF Shape, PacketsOK
  <1>2. CASE Reply(p) = <<>>
    <2>1. acks' = acks
      BY <1>1, <1>2
    <2>2. QED BY <2>1
  <1>3. CASE Reply(p) # <<>>
    <2>1. PICK type \in {"PUBACK", "PUBREC", "PUBCOMP"} : Reply(p) = <<Ack(type, p.id)>> /\ p.id \in Id
      BY <1>3, ReplyIs
    <2>2. Ack(type, p.id) \in AckPacket /\ Ack(type, p.id).id = p.id
      BY <2>1 DEF Ack, AckPacket
    <2>3. acks' = Append(acks, Ack(type, p.id))
      BY <1>1, <2>1, <2>2
    <2>4. \A i \in Id : In(acks', i) <=> In(acks, i) \/ p.id = i
      BY <1>1, <2>2, <2>3, InAppend
    <2>5. Once(acks) /\ (p.id # 0 => ~In(acks, p.id)) => Once(acks')
      BY <1>1, <2>1, <2>2, <2>3, OnceAppend, IdIs
    <2>6. QED BY <2>4, <2>5
  <1>4. QED BY <1>2, <1>3

\* The client reads a packet and answers.
LEMMA ClientReadsPlaces ==
  ASSUME IInv, Shape, Places, Shape', ClientReads
  PROVE  Places'
  <1>1. /\ UNCHANGED <<gMessages, batch, buf, wire, pc, ack, inUse, quota, pubOut, overrun,
                       closing>>
        /\ read < Len(wire) /\ read' = read + 1 /\ acks' = acks \o Reply(wire[read + 1])
    BY DEF ClientReads, queueVars, flowVars, outVars, closeVars, pastVars
  <1>2. /\ Unread \in Seq(Outgoing) /\ Unread # <<>> /\ Head(Unread) = wire[read + 1]
        /\ Unread' = Tail(Unread) /\ wire[read + 1] \in Outgoing
    BY <1>1, UnreadIs
  <1> DEFINE p == wire[read + 1]
  <1> HIDE DEF p
  <1>3. /\ \A i \in Id : In(Unread, i) <=> In(Unread', i) \/ p.id = i
        /\ Once(Unread') /\ (p.id # 0 => ~In(Unread', p.id))
    BY <1>2, InTail, OnceTail DEF Places, OnceOK, p
  <1>4. /\ Once(acks')
        /\ \A i \in Id : In(acks', i) => In(acks, i) \/ p.id = i
    <2>1. Once(acks) /\ acks' = acks \o Reply(p) /\ p \in Outgoing
      BY <1>1, <1>2 DEF Places, OnceOK, p
    <2>2. p.id # 0 => ~In(acks, p.id)
      <3>1. p.id # 0 => p.id \in Id
        BY <2>1 DEF Outgoing
      <3>2. QED BY <1>3, <3>1 DEF Places, OnePlace
    <2>3. QED BY <2>1, <2>2, ReplyIn
  <1>5. \A i \in Id : /\ Keeps(i)' <=> Keeps(i)
                      /\ InHands(batch', i) <=> InHands(batch, i)
                      /\ InHands(buf', i) <=> InHands(buf, i)
    BY <1>1, HandsStill
  <1>6. \A i \in Id : (Handles(i)' <=> Handles(i)) /\ (GivesBack(i)' <=> GivesBack(i)) /\ (Swaps(i)' <=> Swaps(i))
    BY <1>1, ReaderSame
  <1>7. OnceOK'
    BY <1>1, <1>3, <1>4 DEF Places, OnceOK
  <1>8. OnePlace'
    BY <1>1, <1>3, <1>4, <1>5, <1>6, IdIs DEF Places, OnePlace
  <1>9. \A i \in Id : UnderWay(i)' => UnderWay(i)
    BY <1>1, <1>3, <1>4, <1>5, <1>6 DEF UnderWay
  <1>10. IdsOK'
    BY <1>1, <1>5, <1>6, <1>9, StillIds DEF Places
  <1>11. QuotaOK'
    BY <1>1 DEF Places, QuotaOK
  <1>12. QED BY <1>7, <1>8, <1>10, <1>11 DEF Places

\* The reader takes the next acknowledgement.
LEMMA ReadPlaces ==
  ASSUME IInv, Shape, Places, Shape', Read
  PROVE  Places'
  <1>1. /\ UNCHANGED <<gMessages, batch, buf, wire, read, inUse, quota, pubOut, overrun, closing>>
        /\ pc[Reader] = "idle" /\ acks # <<>> /\ ack' = Head(acks) /\ acks' = Tail(acks) /\ Goto(Reader, "load")
    BY DEF Read, queueVars, flowVars, outVars, closeVars, pastVars
  <1>2. pc'[Reader] = "load"
    BY <1>1, Apart, PcGoto
  <1>3. \A i \in Id : /\ Keeps(i)' <=> Keeps(i)
                      /\ InHands(batch', i) <=> InHands(batch, i)
                      /\ InHands(buf', i) <=> InHands(buf, i)
    BY <1>1, HandsStill
  <1>4. Unread' = Unread
    BY <1>1 DEF Unread
  <1>5. /\ \A i \in Id : In(acks, i) <=> In(acks', i) \/ ack'.id = i
        /\ Once(acks') /\ ~In(acks', ack'.id)
    <2>1. acks \in Seq(AckPacket) /\ Once(acks) /\ ack'.id # 0
      BY IdIs DEF Shape, PacketsOK, Places, OnceOK, AckPacket
    <2>2. QED BY <1>1, <2>1, InTail, OnceTail
  <1>6. \A i \in Id : /\ ~Handles(i) /\ (Handles(i)' <=> ack'.id = i)
                      /\ ~GivesBack(i) /\ ~GivesBack(i)' /\ ~Swaps(i) /\ ~Swaps(i)'
    BY <1>1, <1>2 DEF Handles, GivesBack, Swaps
  <1>7. OnceOK'
    BY <1>1, <1>4, <1>5 DEF Places, OnceOK
  <1>8. OnePlace'
    BY <1>1, <1>3, <1>4, <1>5, <1>6 DEF Places, OnePlace
  <1>9. \A i \in Id : UnderWay(i)' => UnderWay(i)
    BY <1>1, <1>3, <1>4, <1>5, <1>6 DEF UnderWay
  <1>10. IdsOK'
    BY <1>1, <1>3, <1>6, <1>9, StillIds DEF Places
  <1>11. QuotaOK'
    BY <1>1, <1>2 DEF Places, QuotaOK
  <1>12. QED BY <1>7, <1>8, <1>10, <1>11 DEF Places

\* The PUBREL goes into the queue.
LEMMA RespondPlaces ==
  ASSUME IInv, Shape, Places, Shape', Respond
  PROVE  Places'
  <1>1. /\ UNCHANGED <<batch, buf, wire, read, acks, ack, inUse, quota, pubOut, overrun, closing>>
        /\ pc[Reader] = "respond" /\ gMessages' = Append(gMessages, Rel(ack.id)) /\ Goto(Reader, "run")
    BY DEF Respond, flowVars, outVars, closeVars, netVars, pastVars
  <1>2. pc'[Reader] = "run" /\ ack.type = "PUBREC" /\ ack.id \in Id
    BY <1>1, Apart, PcGoto DEF Shape, ReaderOK, PacketsOK, AckPacket
  <1>3. \A i \in Id : /\ Keeps(i)' <=> Keeps(i)
                      /\ InHands(batch', i) <=> InHands(batch, i)
                      /\ InHands(buf', i) <=> InHands(buf, i)
    BY <1>1, HandsStill
  <1>4. Unread' = Unread
    BY <1>1 DEF Unread
  <1>5. \A i \in Id : /\ ~Handles(i)' /\ (Handles(i) <=> ack.id = i)
                      /\ ~GivesBack(i) /\ ~GivesBack(i)' /\ ~Swaps(i) /\ ~Swaps(i)'
    BY <1>1, <1>2 DEF Handles, GivesBack, Swaps
  <1>6. /\ Once(gMessages')
        /\ \A i \in Id : In(gMessages', i) <=> In(gMessages, i) \/ ack.id = i
    <2> DEFINE Rels == [type : {"PUBREL"}, msg : {None}, id : Id]
               p == Rel(ack.id)
    <2>1. p \in Rels /\ p.id = ack.id /\ gMessages \in Seq(Rels) /\ Once(gMessages)
      BY <1>2 DEF Rel, Shape, PacketsOK, Places, OnceOK
    <2>2. ~In(gMessages, ack.id)
      BY <1>2, <1>5 DEF Places, OnePlace
    <2>3. gMessages' = Append(gMessages, p)
      BY <1>1
    <2> HIDE DEF Rels, p
    <2>4. \A i \in Id : In(gMessages', i) <=> In(gMessages, i) \/ ack.id = i
      BY <2>1, <2>3, InAppend
    <2>5. Once(gMessages')
      BY <2>1, <2>2, <2>3, OnceAppend
    <2>6. QED BY <2>4, <2>5
  <1>7. OnceOK'
    BY <1>1, <1>4, <1>6 DEF Places, OnceOK
  <1>8. OnePlace'
    BY <1>1, <1>3, <1>4, <1>5, <1>6 DEF Places, OnePlace
  <1>9. \A i \in Id : UnderWay(i)' => UnderWay(i)
    BY <1>1, <1>3, <1>4, <1>5, <1>6 DEF UnderWay
  <1>10. IdsOK'
    BY <1>1, <1>3, <1>5, <1>9, StillIds DEF Places
  <1>11. QuotaOK'
    BY <1>1, <1>2 DEF Places, QuotaOK
  <1>12. QED BY <1>7, <1>8, <1>10, <1>11 DEF Places

\* What stays as it is when the reader works on an acknowledgement.
LEMMA AckingStill ==
  ASSUME IInv, Shape, Places, Load \/ Free \/ Raise \/ Delete \/ StoreRel
  PROVE  /\ UNCHANGED <<gMessages, batch, buf, wire, read, acks, ack, closing>>
         /\ Unread' = Unread
         /\ OnceOK' /\ ack.id \in Id
         /\ \A i \in Id : /\ Keeps(i)' <=> Keeps(i)
                          /\ InHands(batch', i) <=> InHands(batch, i)
                          /\ InHands(buf', i) <=> InHands(buf, i)
         /\ (\A i \in Id : Handles(i)' => Handles(i)) =>
               OnePlace' /\ \A i \in Id : UnderWay(i)' => UnderWay(i)
  <1>1. UNCHANGED <<gMessages, batch, buf, wire, read, acks, ack, closing>>
    BY DEF Load, Free, Raise, Delete, StoreRel, queueVars, flowVars, outVars, closeVars, netVars
  <1>2. \A i \in Id : /\ Keeps(i)' <=> Keeps(i)
                      /\ InHands(batch', i) <=> InHands(batch, i)
                      /\ InHands(buf', i) <=> InHands(buf, i)
    <2>1. \E step : Goto(Reader, step)
      BY DEF Load, Free, Raise, Delete, StoreRel
    <2>2. QED BY <1>1, <2>1, HandsStill
  <1>3. Unread' = Unread
    BY <1>1 DEF Unread
  <1>4. OnceOK' /\ ack.id \in Id
    BY <1>1, <1>3 DEF Places, OnceOK, Shape, PacketsOK, AckPacket
  <1>5. ASSUME \A i \in Id : Handles(i)' => Handles(i)
        PROVE  OnePlace' /\ \A i \in Id : UnderWay(i)' => UnderWay(i)
    <2>1. OnePlace'
      BY <1>1, <1>2, <1>3, <1>5 DEF Places, OnePlace
    <2>2. \A i \in Id : UnderWay(i)' => UnderWay(i)
      BY <1>1, <1>2, <1>3, <1>5 DEF UnderWay
    <2>3. QED BY <2>1, <2>2
  <1>6. QED BY <1>1, <1>2, <1>3, <1>4, <1>5

\* release looks for the packet (ack.go:26).
LEMMA LoadPlaces ==
  ASSUME IInv, Shape, Places, Shape', Load
  PROVE  Places'
  <1>1. /\ UNCHANGED <<ack, inUse, quota, pubOut, overrun>> /\ pc[Reader] = "load"
    BY DEF Load, flowVars, pastVars
  <1>2. \/ ack.type = "PUBREC" /\ pc'[Reader] = "delete"
        \/ ack.type # "PUBREC" /\ pc'[Reader] \in {"free", "idle"}
    BY Apart, PcGoto DEF Load
  <1>3. \A i \in Id : /\ Handles(i)' => Handles(i)
                      /\ ~GivesBack(i) /\ ~GivesBack(i)' /\ ~Swaps(i)
    BY <1>1, <1>2 DEF Handles, GivesBack, Swaps
  <1>4. OnceOK' /\ OnePlace'
    BY <1>3, AckingStill
  <1>5. IdsOK'
    BY <1>1, <1>3, AckingStill DEF Places, IdsOK
  <1>6. QuotaOK'
    BY <1>1, <1>2 DEF Places, QuotaOK
  <1>7. QED BY <1>4, <1>5, <1>6 DEF Places

\* The id is given back (flowControl.go:58): nothing is on its way under it.
LEMMA FreePlaces ==
  ASSUME IInv, Shape, Places, Shape', Free
  PROVE  Places'
  <1>1. /\ UNCHANGED <<ack, quota, pubOut, overrun>> /\ pc[Reader] = "free" /\ Goto(Reader,
                       "raise")
        /\ inUse' = inUse \ {ack.id}
    BY DEF Free, Freed, pastVars
  <1>2. pc'[Reader] = "raise" /\ ack.type # "PUBREC" /\ pubOut[ack.id] # None
    BY <1>1, Apart, PcGoto DEF Shape, ReaderOK
  <1>3. \A i \in Id : /\ Handles(i) <=> i = ack.id
                      /\ GivesBack(i)' <=> i = ack.id
                      /\ ~Handles(i)' /\ ~GivesBack(i) /\ ~Swaps(i) /\ ~Swaps(i)'
    BY <1>1, <1>2 DEF Handles, GivesBack, Swaps
  <1>4. OnceOK' /\ OnePlace' /\ \A i \in Id : UnderWay(i)' => UnderWay(i)
    BY <1>3, AckingStill
  <1>5. ~UnderWay(ack.id)'
    <2>1. /\ ~In(gMessages, ack.id) /\ ~InHands(batch, ack.id) /\ ~InHands(buf, ack.id)
          /\ ~In(Unread, ack.id) /\ ~In(acks, ack.id) /\ ack.id \in Id
      BY <1>3, AckingStill DEF Places, OnePlace
    <2>2. QED BY <1>3, <2>1, AckingStill DEF UnderWay
  <1>6. ack.id \in inUse /\ overrun[ack.id] = None
    BY <1>2, <1>3, AckingStill DEF Places, IdsOK, UnderWay
  <1>7. IdsOK'
    BY <1>1, <1>2, <1>3, <1>4, <1>5, <1>6, AckingStill DEF Places, IdsOK
  <1>8. QuotaOK'
    <2>1. IsFiniteSet(inUse)
      BY IdIs, FS_Subset DEF Shape, FlowOK
    <2>2. Cardinality(inUse') = Cardinality(inUse) - 1 /\ Cardinality(inUse) \in Nat
      BY <1>1, <1>6, <2>1, FS_RemoveElement, FS_CardinalityType
    <2>3. quota \in Int /\ Quota \in Int
      BY WriterAssumption DEF Shape, FlowOK
    <2>4. QED BY <1>1, <1>2, <2>2, <2>3 DEF Places, QuotaOK
  <1>9. QED BY <1>4, <1>7, <1>8 DEF Places

\* The quota follows (flowControl.go:60).
LEMMA RaisePlaces ==
  ASSUME IInv, Shape, Places, Shape', Raise
  PROVE  Places'
  <1>1. /\ UNCHANGED <<ack, inUse, pubOut, overrun>> /\ pc[Reader] = "raise" /\ quota' = quota + 1
        /\ Goto(Reader, "run") \/ Goto(Reader, "delete")
    BY DEF Raise, Raised, pastVars
  <1>2. pc'[Reader] \in {"run", "delete"} /\ ack.type # "PUBREC"
    BY <1>1, Apart, PcGoto DEF Shape, ReaderOK
  <1>3. \A i \in Id : /\ ~Handles(i) /\ ~Handles(i)' /\ ~Swaps(i) /\ ~Swaps(i)'
                      /\ GivesBack(i)' <=> GivesBack(i)
    BY <1>1, <1>2 DEF Handles, GivesBack, Swaps
  <1>4. OnceOK' /\ OnePlace'
    BY <1>3, AckingStill
  <1>5. IdsOK'
    BY <1>1, <1>3, AckingStill, StillIds DEF Places
  <1>6. QuotaOK'
    <2>1. Cardinality(inUse) \in Nat
      BY IdIs, FS_Subset, FS_CardinalityType DEF Shape, FlowOK
    <2>2. quota \in Int /\ Quota \in Int
      BY WriterAssumption DEF Shape, FlowOK
    <2>3. QED BY <1>1, <1>2, <2>1, <2>2 DEF Places, QuotaOK
  <1>7. QED BY <1>4, <1>5, <1>6 DEF Places

\* Only then is the entry deleted (ack.go:30), whosever it is by now.
LEMMA DeletePlaces ==
  ASSUME IInv, Shape, Places, Shape', Delete
  PROVE  Places'
  <1>1. /\ UNCHANGED <<ack, inUse, quota>> /\ pc[Reader] = "delete"
        /\ pubOut' = [pubOut EXCEPT ![ack.id] = None]
        /\ overrun' = IF Overruns THEN [overrun EXCEPT ![ack.id] = pubOut[ack.id]] ELSE overrun
    BY DEF Delete, flowVars
  <1>2. \/ ack.type = "PUBREC" /\ pc'[Reader] = "rel"
        \/ ack.type # "PUBREC" /\ pc'[Reader] = "idle"
    BY Apart, PcGoto DEF Delete
  <1>3. /\ ack.id \in Id
        /\ pubOut'[ack.id] = None /\ \A i \in Id \ {ack.id} : pubOut'[i] = pubOut[i]
        /\ Overruns => overrun'[ack.id] = pubOut[ack.id]
        /\ ~Overruns => overrun'[ack.id] = overrun[ack.id]
        /\ \A i \in Id \ {ack.id} : overrun'[i] = overrun[i]
    <2>1. ack.id \in Id
      BY AckingStill
    <2>2. QED BY <1>1, <2>1 DEF Shape, FlowOK
  <1>4. QuotaOK' /\ pc'[Reader] # "raise"
    BY <1>1, <1>2 DEF Places, QuotaOK
  <1>5. CASE ack.type = "PUBREC"
    <2>1. \A i \in Id : /\ Handles(i)' => Handles(i)
                        /\ ~GivesBack(i) /\ ~GivesBack(i)'
                        /\ Swaps(i) <=> i = ack.id
                        /\ Swaps(i)' <=> i = ack.id
      BY <1>1, <1>2, <1>5 DEF Handles, GivesBack, Swaps
    <2>2. OnceOK' /\ OnePlace' /\ \A i \in Id : UnderWay(i)' => UnderWay(i)
      BY <2>1, AckingStill
    <2>3. \A i \in Id : overrun'[i] = overrun[i]
      BY <1>3, <1>5 DEF Overruns
    <2>4. IdsOK'
      BY <1>1, <1>3, <2>1, <2>2, <2>3, AckingStill DEF Places, IdsOK
    <2>5. QED BY <1>4, <2>2, <2>4 DEF Places
  <1>6. CASE ack.type # "PUBREC"
    <2>1. \A i \in Id : /\ ~Handles(i) /\ ~Handles(i)'
                        /\ GivesBack(i) <=> i = ack.id
                        /\ ~GivesBack(i)' /\ ~Swaps(i) /\ ~Swaps(i)'
      BY <1>1, <1>2, <1>6 DEF Handles, GivesBack, Swaps
    <2>2. OnceOK' /\ OnePlace' /\ \A i \in Id : UnderWay(i)' => UnderWay(i)
      BY <2>1, AckingStill
    <2>3. Overruns <=> ack.id \in inUse /\ ~Keeps(ack.id)
      BY <1>6 DEF Overruns
    <2>4. overrun[ack.id] = None
      BY <1>3, <2>1 DEF Places, IdsOK
    <2>5. Overruns => closing = "closed" \/ (pubOut[ack.id] # None /\ pubOut[ack.id] # Pubrel)
      BY <1>3, <2>1, <2>3, <2>4 DEF Places, IdsOK
    <2>6. IdsOK'
      BY <1>1, <1>3, <2>1, <2>2, <2>3, <2>4, <2>5, AckingStill DEF Places, IdsOK
    <2>7. QED BY <1>4, <2>2, <2>6 DEF Places
  <1>7. QED BY <1>5, <1>6

\* The PUBREL gets the place of the publish (connection.go:856).
LEMMA StoreRelPlaces ==
  ASSUME IInv, Shape, Places, Shape', StoreRel
  PROVE  Places'
  <1>1. /\ UNCHANGED <<ack, inUse, quota>> /\ pc[Reader] = "rel" /\ Goto(Reader, "respond")
        /\ pubOut' = [pubOut EXCEPT ![ack.id] = Pubrel] /\ overrun' = [overrun EXCEPT ![ack.id] = None]
    BY DEF StoreRel, RelKept, flowVars
  <1>2. pc'[Reader] = "respond" /\ ack.type = "PUBREC" /\ ack.id \in Id
    BY <1>1, Apart, PcGoto, AckingStill DEF Shape, ReaderOK
  <1>3. /\ pubOut'[ack.id] = Pubrel /\ overrun'[ack.id] = None
        /\ \A i \in Id \ {ack.id} : pubOut'[i] = pubOut[i] /\ overrun'[i] = overrun[i]
    BY <1>1, <1>2 DEF Shape, FlowOK
  <1>4. \A i \in Id : /\ Handles(i)' <=> i = ack.id
                      /\ Handles(i) <=> i = ack.id
                      /\ ~GivesBack(i) /\ ~GivesBack(i)'
                      /\ Swaps(i) <=> i = ack.id
                      /\ ~Swaps(i)'
    BY <1>1, <1>2 DEF Handles, GivesBack, Swaps
  <1>5. OnceOK' /\ OnePlace' /\ \A i \in Id : UnderWay(i)' => UnderWay(i)
    BY <1>4, AckingStill
  <1>6. ack.id \in inUse
    BY <1>2, <1>4 DEF Places, IdsOK, UnderWay
  <1>7. Pubrel # None
    BY WriterAssumption
  <1>8. IdsOK'
    BY <1>1, <1>2, <1>3, <1>4, <1>5, <1>6, <1>7, AckingStill DEF Places, IdsOK
  <1>9. QuotaOK'
    BY <1>1, <1>2 DEF Places, QuotaOK
  <1>10. QED BY <1>5, <1>8, <1>9 DEF Places

\* The close empties the ack queue.
LEMMA CollectUnAckPlaces ==
  ASSUME IInv, Shape, Places, Shape', CollectUnAck
  PROVE  Places'
  <1>1. /\ UNCHANGED <<gMessages, batch, buf, wire, read, acks, ack, pc, inUse, quota, overrun>>
        /\ closing' = "closed" /\ pubOut' = [i \in Id |-> None] /\ pc[Reader] = "idle"
    BY DEF CollectUnAck, queueVars, flowVars, outVars, netVars, pastVars, IInv, CloseOK
  <1>2. Unread' = Unread
    BY <1>1 DEF Unread
  <1>3. \A i \in Id : /\ Keeps(i)' <=> Keeps(i)
                      /\ InHands(batch', i) <=> InHands(batch, i)
                      /\ InHands(buf', i) <=> InHands(buf, i)
    BY <1>1, HandsStill
  <1>4. \A i \in Id : ~Handles(i) /\ ~Handles(i)' /\ ~GivesBack(i) /\ ~GivesBack(i)'
    BY <1>1 DEF Handles, GivesBack
  <1>5. OnceOK' /\ OnePlace'
    BY <1>1, <1>2, <1>3, <1>4 DEF Places, OnceOK, OnePlace
  <1>6. \A i \in Id : UnderWay(i)' <=> UnderWay(i)
    BY <1>1, <1>2, <1>3, <1>4 DEF UnderWay
  <1>7. IdsOK'
    BY <1>1, <1>3, <1>4, <1>6 DEF Places, IdsOK
  <1>8. QuotaOK'
    BY <1>1 DEF Places, QuotaOK
  <1>9. QED BY <1>5, <1>7, <1>8 DEF Places

\* The id that goes to the ack queue next is that of a packet just popped.
LEMMA KeepsInHands ==
  ASSUME Shape, NEW i \in Id, Keeps(i)
  PROVE  InHands(batch, i)
  <1>1. PICK r \in Routine : pc[r] = "keep" /\ batch[r][Len(batch[r])].id = i
    BY DEF Keeps
  <1>2. batch[r] # <<>> /\ batch[r] \in Seq(Outgoing)
    BY <1>1 DEF Shape, HandOK, HandIs, PacketsOK
  <1>3. Len(batch[r]) \in DOMAIN batch[r]
    BY <1>2
  <1>4. QED BY <1>1, <1>3 DEF InHands, In, Elems

\* All layers put together.
LEMMA InitPlaces ==
  ASSUME Init
  PROVE  Shape /\ Places
  <1> USE DEF Init
  <1>1. PacketsOK
    <2>1. 1 \in Id
      BY WriterAssumption DEF Id
    <2>2. ack \in AckPacket
      BY <2>1 DEF AckPacket, Ack
    <2>3. /\ gMessages = <<>> /\ qos0Messages = <<>> /\ qos12Messages = <<>> /\ wire = <<>> /\ read = 0 /\ acks = <<>>
          /\ batch = [r \in Routine |-> <<>>] /\ buf = [r \in Routine |-> <<>>]
      OBVIOUS
    <2>4. QED BY ONLY <2>2, <2>3 DEF PacketsOK
  <1>2. FlowOK
    <2>1. Quota \in Nat /\ 0 \in 0 .. MaxId
      BY WriterAssumption
    <2>2. pubOut \in [Id -> QoS12 \cup {Pubrel, None}] /\ overrun \in [Id -> QoS12 \cup {Pubrel, None}]
      OBVIOUS
    <2>3. /\ stored \in [qos12 : SUBSET QoS12, unAck : SUBSET (QoS12 \cup {Pubrel})]
          /\ failed \in [Routine -> BOOLEAN] /\ broken \in BOOLEAN
      OBVIOUS
    <2>4. accepted \in Seq(QoS12) /\ inUse = {} /\ quota = Quota /\ counter = 0
      OBVIOUS
    <2>5. QED BY ONLY <2>1, <2>2, <2>3, <2>4 DEF FlowOK
  <1>3. HandOK /\ ReaderOK
    BY Apart DEF HandOK, HandIs, ReaderOK
  <1>4. Unread = <<>>
    BY DEF Unread
  <1>5. OnceOK
    BY <1>4, ElemsEmpty DEF OnceOK
  <1>6. \A i \in Id : ~UnderWay(i) /\ ~Handles(i) /\ ~GivesBack(i)
    BY <1>4, Apart, InEmpty DEF UnderWay, InHands, Handles, GivesBack
  <1>7. OnePlace
    BY <1>6 DEF OnePlace, UnderWay
  <1>8. IdsOK
    BY <1>6 DEF IdsOK
  <1>9. QuotaOK
    BY Apart, FS_EmptySet, WriterAssumption DEF QuotaOK
  <1>10. QED BY <1>1, <1>2, <1>3, <1>5, <1>7, <1>8, <1>9 DEF Shape, Places

LEMMA GoroutinePlaces ==
  ASSUME IInv, Shape, Places, NEW r \in Routine, Goroutine(r)
  PROVE  Shape' /\ Places'
  <1>1. CASE Sync(r) \/ Check(r) \/ NoQoS12(r) \/ NothingLeft(r) \/ Leave(r) \/ Recheck(r)
    BY <1>1, QuietRoutineShape, QuietGoroutine
  <1>2. CASE PopGeneral(r)
    BY <1>2, PopGeneralShape, PopGeneralPlaces
  <1>3. CASE TakeQoS12(r)
    BY <1>3, TakeQoS12Shape, TakeQoS12Places
  <1>4. CASE Keep(r)
    BY <1>4, KeepShape, KeepPlaces
  <1>5. CASE PopQoS0(r)
    BY <1>5, PopQoS0Shape, PopQoS0Places
  <1>6. CASE Write(r)
    BY <1>6, WriteShape, WritePlaces
  <1>7. CASE Flush(r)
    BY <1>7, FlushShape, FlushPlaces
  <1>8. CASE Done(r)
    BY <1>8, DoneShape, QuietGoroutine
  <1>9. QED BY <1>1, <1>2, <1>3, <1>4, <1>5, <1>6, <1>7, <1>8 DEF Goroutine

LEMMA AckingPlaces ==
  ASSUME IInv, Shape, Places, Acking
  PROVE  Shape' /\ Places'
  <1>1. CASE Read
    BY <1>1, ReadShape, ReadPlaces
  <1>2. CASE Load
    BY <1>2, LoadShape, LoadPlaces
  <1>3. CASE Free
    BY <1>3, FreeShape, FreePlaces
  <1>4. CASE Raise
    BY <1>4, RaiseShape, RaisePlaces
  <1>5. CASE Delete
    BY <1>5, DeleteShape, DeletePlaces
  <1>6. CASE StoreRel
    BY <1>6, StoreRelShape, StoreRelPlaces
  <1>7. CASE Respond
    BY <1>7, RespondShape, RespondPlaces
  <1>8. QED BY <1>1, <1>2, <1>3, <1>4, <1>5, <1>6, <1>7 DEF Acking

LEMMA NextPlaces ==
  ASSUME IInv, Shape, Places, [Next]_vars
  PROVE  Shape' /\ Places'
  <1>1. CASE \E t \in Caller : Run(t)
    BY <1>1, RunChecksShape, RunClaimsShape, QuietCaller DEF Run
  <1>2. CASE \E m \in Pub : Send(m)
    BY <1>2, SendShape, QuietOther
  <1>3. CASE \E r \in Routine : Goroutine(r)
    BY <1>3, GoroutinePlaces
  <1>4. CASE Start
    BY <1>4, StartShape, QuietOther
  <1>5. CASE Acking
    BY <1>5, AckingPlaces
  <1>6. CASE Close \/ Offline \/ Quit \/ Stopped \/ PassBy \/ CollectQueues \/ Break
    BY <1>6, QuietShape, CollectQueuesShape, QuietOther
  <1>7. CASE CollectUnAck
    BY <1>7, CollectUnAckShape, CollectUnAckPlaces
  <1>8. CASE ClientReads
    BY <1>8, ClientReadsShape, ClientReadsPlaces
  <1>9. CASE UNCHANGED vars
    <2>1. UNCHANGED <<gMessages, batch, buf, wire, read, acks, ack, inUse, quota, pubOut,
                      overrun, closing, pc>>
      BY <1>9 DEF vars, queueVars, flowVars, outVars, closeVars, netVars, pastVars
    <2>2. Places'
      BY <2>1, KeepsSame, ReaderSame, StillPlaces
    <2>3. QED BY <1>9, <2>2, QuietShape
  <1>10. QED
    BY <1>1, <1>2, <1>3, <1>4, <1>5, <1>6, <1>7, <1>8, <1>9 DEF Next, Closing, Over

\* The shape and the places are kept by every step, on top of the protocol: no
\* two packets or acknowledgements on their way have the same id, an id is in use
\* as long as anything is under way with it, and the ack queue has what is in use
\* (writer.go:267-290, flowControl.go:32-61, ack.go:16-32, connection.go:825-870).
THEOREM PlacesInductive == Spec => [](IInv /\ Shape /\ Places)
  <1>1. Init => IInv /\ Shape /\ Places
    BY InitIInv, InitPlaces
  <1>2. IInv /\ Shape /\ Places /\ [Next]_vars => (IInv /\ Shape /\ Places)'
    BY NextIInv, NextPlaces
  <1>3. QED BY <1>1, <1>2, PTL DEF Spec

\* When an acknowledgement comes the ack queue has the packet it is for, unless
\* that was deleted with the one that had its id before (writer.go:286,
\* connection.go:853-856, ack.go:23-32).
THEOREM AcksFindTheirPacketCorrect == Spec => []AcksFindTheirPacket
  <1>1. ASSUME IInv, Shape, Places PROVE AcksFindTheirPacket
    <2>1. ASSUME pc[Reader] = "load" PROVE pubOut[ack.id] # None \/ overrun[ack.id] # None
      <3>1. ack.id \in Id /\ Handles(ack.id) /\ ~Swaps(ack.id)
        BY <1>1, <2>1 DEF Shape, PacketsOK, AckPacket, Handles, Swaps
      <3>2. ~Keeps(ack.id)
        <4>1. ~InHands(batch, ack.id)
          BY <1>1, <3>1 DEF Places, OnePlace
        <4>2. QED BY <1>1, <3>1, <4>1, KeepsInHands
      <3>3. closing # "closed"
        BY <1>1, <2>1 DEF IInv, CloseOK
      <3>4. ack.id \in inUse
        BY <1>1, <3>1 DEF Places, IdsOK, UnderWay
      <3>5. QED BY <1>1, <3>1, <3>2, <3>3, <3>4 DEF Places, IdsOK
    <2>2. QED BY <2>1 DEF AcksFindTheirPacket
  <1>2. QED BY <1>1, PlacesInductive, PTL

\* The type invariant follows from the shape and the places.
LEMMA TypesHold ==
  ASSUME IInv, Shape, Places
  PROVE  TypeOK
  <1>1. Outgoing \subseteq Packet /\ [type : {"PUBREL"}, msg : {None}, id : Id] \subseteq Packet
    BY DEF Outgoing, Packet, QoS12, Pub
  <1>2. /\ gMessages \in Seq(Packet) /\ wire \in Seq(Packet)
        /\ batch \in [Routine -> Seq(Packet)] /\ buf \in [Routine -> Seq(Packet)]
    BY <1>1, SeqMonotonic DEF Shape, PacketsOK
  <1>3. wg \in Nat /\ wgRunSync \in Nat
    <2>1. IsFiniteSet(BusyRoutines)
      BY FS_Subset, RoutineAssumption DEF BusyRoutines
    <2>2. wg \in Nat
      BY <2>1, FS_CardinalityType DEF IInv, Counted
    <2>3. QED BY <2>2 DEF IInv, HandOver
  <1>4. quota \in 0 .. Quota
    <2>1. Cardinality(inUse) \in Nat
      BY IdIs, FS_Subset, FS_CardinalityType DEF Shape, FlowOK
    <2>2. quota \in Nat /\ Quota \in Nat
      BY WriterAssumption DEF Shape, FlowOK
    <2>3. QED BY <2>1, <2>2 DEF Places, QuotaOK
  <1>5. overrun \in [Id -> QoS12 \cup {None}]
    BY WriterAssumption DEF Shape, FlowOK, Places, IdsOK
  <1>6. closing \in {"open", "begun", "offline", "quit", "stopped", "queues", "closed"}
    BY DEF IInv, CloseOK, Late
  <1>7. QED
    BY <1>2, <1>3, <1>4, <1>5, <1>6 DEF TypeOK, Shape, PacketsOK, FlowOK, IInv, ControlOK, QoS12

\* Quota, ids in use and ack queue stay in balance: none gets lost, none is used
\* twice (flowControl.go:32-61, ack.go:23-32).
THEOREM BalancedCorrect == Spec => []Balanced
  <1>1. ASSUME IInv, Shape, Places PROVE Balanced
    <2>1. TypeOK
      BY <1>1, TypesHold
    <2>2. Quota - quota = Cardinality(inUse) + IF pc[Reader] = "raise" THEN 1 ELSE 0
      BY <1>1 DEF Places, QuotaOK
    <2>3. ASSUME NEW i \in Id, closing # "closed", ~BetweenBoth(i)
          PROVE  i \in inUse <=> pubOut[i] # None \/ overrun[i] # None
      <3>1. ~Keeps(i) /\ ~Swaps(i) /\ ~GivesBack(i)
        BY <2>3 DEF BetweenBoth, Swaps, GivesBack
      <3>2. QED BY <1>1, <2>3, <3>1 DEF Places, IdsOK
    <2>4. QED BY <2>1, <2>2, <2>3 DEF Balanced
  <1>2. QED BY <1>1, PlacesInductive, PTL

-----------------------------------------------------------------------------
(* The order *)

\* Of the QoS 1 and 2 publishes, s has those accepted after the first lo and up to
\* the first hi, in order, and no other.
Covers(s, acc, lo, hi) ==
  /\ \A k \in DOMAIN s : s[k].msg \in QoS12 => \E a \in lo + 1 .. hi : acc[a] = s[k].msg
  /\ \A a \in lo + 1 .. hi : \E k \in DOMAIN s : s[k].msg = acc[a]
  /\ \A j, k \in DOMAIN s, a, b \in lo + 1 .. hi : s[j].msg = acc[a] /\ s[k].msg = acc[b] /\ j < k => a < b

\* A publish is accepted once.
Distinct == \A a, b \in DOMAIN accepted : accepted[a] = accepted[b] => a = b
AcceptedOK == Distinct /\ \A m \in QoS12 : m \in Elems(accepted) <=> pc[m] # "idle"

HasHand(r) == pc[r] \in SendingSteps \cup {"flush"}

\* What a goroutine has in hand does not reach the network any more.
Gone == broken \/ (quit /\ \A r \in Routine : ~HasHand(r))

\* What was accepted after the first n is in the queue, until that is collected.
Waiting(n) ==
  qos12Messages = IF closing \in {"queues", "closed"} THEN <<>> ELSE SubSeq(accepted, n + 1, Len(accepted))

\* What was accepted is, from the first to the last, on the wire, buffered and popped
\* by a goroutine, and in the queue.
SentUpTo(w, u, n) ==
  /\ w <= u /\ u <= n
  /\ Covers(wire, accepted, 0, w)
  /\ \/ Gone
     \/ \E r \in Routine : HasHand(r) /\ Covers(buf[r], accepted, w, u) /\ Covers(batch[r], accepted, u, n)
     \/ w = n /\ \A r \in Routine : ~HasHand(r)
  /\ Waiting(n)

OrderOK == \E w, u, n \in 0 .. Len(accepted) : SentUpTo(w, u, n)

\* The same while r is the one that has packets in hand.
SentBy(r, w, u, n) ==
  /\ w <= u /\ u <= n
  /\ Covers(wire, accepted, 0, w)
  /\ broken \/ (Covers(buf[r], accepted, w, u) /\ Covers(batch[r], accepted, u, n))
  /\ Waiting(n)

\* Sequences without a QoS 1 or 2 publish, and with one.
LEMMA CoversNone ==
  ASSUME NEW acc, NEW n \in Nat
  PROVE  Covers(<<>>, acc, n, n)
  BY DEF Covers

LEMMA CoversNothing ==
  ASSUME NEW acc, NEW lo \in Nat, NEW hi \in Nat, lo <= hi, Covers(<<>>, acc, lo, hi)
  PROVE  lo = hi
  <1>1. ASSUME lo # hi PROVE FALSE
    <2>1. hi \in lo + 1 .. hi
      BY <1>1
    <2>2. QED BY <2>1 DEF Covers
  <1>2. QED BY <1>1

LEMMA CoversOther ==
  ASSUME NEW acc, NEW n \in Nat, NEW p, p.msg \notin QoS12
  PROVE  Covers(<<p>>, acc, n, n)
  <1>1. DOMAIN <<p>> = {1} /\ <<p>>[1] = p
    OBVIOUS
  <1>2. n + 1 .. n = {}
    OBVIOUS
  <1>3. QED BY <1>1, <1>2 DEF Covers

LEMMA CoversOne ==
  ASSUME NEW acc, NEW n \in Nat, NEW p, p.msg = acc[n + 1]
  PROVE  Covers(<<p>>, acc, n, n + 1)
  <1>1. DOMAIN <<p>> = {1} /\ <<p>>[1] = p
    OBVIOUS
  <1>2. n + 1 .. n + 1 = {n + 1}
    OBVIOUS
  <1>3. QED BY <1>1, <1>2 DEF Covers

\* Accepting more changes nothing about what was.
LEMMA CoversStill ==
  ASSUME NEW acc, NEW acc2, NEW lo \in Nat, NEW hi \in Nat, \A a \in lo + 1 .. hi : acc2[a] = acc[a],
         NEW s, Covers(s, acc, lo, hi)
  PROVE  Covers(s, acc2, lo, hi)
  BY DEF Covers

\* One after the other they have what was accepted first, and then the rest.
LEMMA CoversConcat ==
  ASSUME NEW acc \in Seq(QoS12), \A a, b \in DOMAIN acc : acc[a] = acc[b] => a = b,
         NEW lo \in Nat, NEW mid \in Nat, NEW hi \in 0 .. Len(acc), lo <= mid, mid <= hi,
         NEW s \in Seq(Outgoing), NEW t \in Seq(Outgoing), Covers(s, acc, lo, mid), Covers(t, acc, mid, hi)
  PROVE  Covers(s \o t, acc, lo, hi)
  <1> DEFINE u == s \o t
  <1>1. /\ DOMAIN u = 1 .. Len(s) + Len(t) /\ DOMAIN s = 1 .. Len(s) /\ DOMAIN t = 1 .. Len(t)
        /\ Len(s) \in Nat /\ Len(t) \in Nat
        /\ \A k \in 1 .. Len(s) : u[k] = s[k]
        /\ \A k \in Len(s) + 1 .. Len(s) + Len(t) : k - Len(s) \in 1 .. Len(t) /\ u[k] = t[k - Len(s)]
        /\ \A k \in 1 .. Len(t) : Len(s) + k \in DOMAIN u /\ u[Len(s) + k] = t[k]
    OBVIOUS
  <1>2. /\ \A a \in lo + 1 .. hi : a \in DOMAIN acc /\ acc[a] \in QoS12 /\ (a \in lo + 1 .. mid \/ a \in mid + 1 .. hi)
        /\ lo + 1 .. mid \subseteq lo + 1 .. hi /\ mid + 1 .. hi \subseteq lo + 1 .. hi
    OBVIOUS
  <1> HIDE DEF u
  <1>3. ASSUME NEW k \in DOMAIN s, NEW a \in lo + 1 .. hi, u[k].msg = acc[a]
        PROVE  a \in lo + 1 .. mid /\ s[k].msg = acc[a]
    <2>1. u[k] = s[k] /\ s[k].msg \in QoS12
      BY <1>1, <1>2, <1>3
    <2>2. PICK b \in lo + 1 .. mid : acc[b] = s[k].msg
      BY <2>1 DEF Covers
    <2>3. QED BY <1>2, <1>3, <2>1, <2>2
  <1>4. ASSUME NEW k \in DOMAIN u \ DOMAIN s, NEW a \in lo + 1 .. hi, u[k].msg = acc[a]
        PROVE  a \in mid + 1 .. hi /\ k - Len(s) \in DOMAIN t /\ t[k - Len(s)].msg = acc[a]
    <2>1. u[k] = t[k - Len(s)] /\ k - Len(s) \in DOMAIN t
      BY <1>1
    <2>2. t[k - Len(s)].msg \in QoS12
      BY <1>2, <1>4, <2>1
    <2>3. PICK b \in mid + 1 .. hi : acc[b] = t[k - Len(s)].msg
      BY <2>1, <2>2 DEF Covers
    <2>4. QED BY <1>2, <1>4, <2>1, <2>3
  <1>5. ASSUME NEW k \in DOMAIN u, u[k].msg \in QoS12
        PROVE  \E a \in lo + 1 .. hi : acc[a] = u[k].msg
    <2>1. CASE k \in DOMAIN s
      BY <1>1, <1>2, <1>5, <2>1 DEF Covers
    <2>2. CASE k \notin DOMAIN s
      <3>1. u[k] = t[k - Len(s)] /\ k - Len(s) \in DOMAIN t
        BY <1>1, <2>2
      <3>2. QED BY <1>2, <1>5, <3>1 DEF Covers
    <2>3. QED BY <2>1, <2>2
  <1>6. ASSUME NEW a \in lo + 1 .. hi
        PROVE  \E k \in DOMAIN u : u[k].msg = acc[a]
    <2>1. CASE a \in lo + 1 .. mid
      <3>1. PICK k \in DOMAIN s : s[k].msg = acc[a]
        BY <2>1 DEF Covers
      <3>2. k \in DOMAIN u /\ u[k] = s[k]
        BY <1>1
      <3>3. QED BY <3>1, <3>2
    <2>2. CASE a \in mid + 1 .. hi
      <3>1. PICK k \in DOMAIN t : t[k].msg = acc[a]
        BY <2>2 DEF Covers
      <3>2. QED BY <1>1, <3>1
    <2>3. QED BY <1>2, <2>1, <2>2
  <1>7. ASSUME NEW j \in DOMAIN u, NEW k \in DOMAIN u, NEW a \in lo + 1 .. hi, NEW b \in lo + 1 .. hi,
               u[j].msg = acc[a], u[k].msg = acc[b], j < k
        PROVE  a < b
    <2>1. CASE j \in DOMAIN s /\ k \in DOMAIN s
      BY <1>3, <1>7, <2>1 DEF Covers
    <2>2. CASE j \in DOMAIN s /\ k \notin DOMAIN s
      <3>1. a \in lo + 1 .. mid
        BY <1>3, <1>7, <2>2
      <3>2. b \in mid + 1 .. hi
        BY <1>4, <1>7, <2>2
      <3>3. QED BY <3>1, <3>2
    <2>3. CASE j \notin DOMAIN s /\ k \notin DOMAIN s
      <3>1. j - Len(s) < k - Len(s)
        BY <1>1, <1>7
      <3>2. QED BY <1>4, <1>7, <2>3, <3>1 DEF Covers
    <2>4. CASE j \notin DOMAIN s /\ k \in DOMAIN s
      BY <1>1, <1>7, <2>4
    <2>5. QED BY <2>1, <2>2, <2>3, <2>4
  <1>8. Covers(u, acc, lo, hi)
    BY <1>5, <1>6, <1>7 DEF Covers
  <1>9. QED BY <1>8 DEF u

LEMMA CoversAppend ==
  ASSUME NEW acc \in Seq(QoS12), \A a, b \in DOMAIN acc : acc[a] = acc[b] => a = b,
         NEW lo \in Nat, NEW mid \in Nat, NEW hi \in 0 .. Len(acc), lo <= mid, mid <= hi,
         NEW s \in Seq(Outgoing), NEW p \in Outgoing, Covers(s, acc, lo, mid), Covers(<<p>>, acc, mid, hi)
  PROVE  Covers(Append(s, p), acc, lo, hi)
  <1>1. <<p>> \in Seq(Outgoing) /\ Append(s, p) = s \o <<p>>
    OBVIOUS
  <1>2. Covers(s \o <<p>>, acc, lo, hi)
    BY <1>1, CoversConcat
  <1>3. QED BY <1>1, <1>2

\* Steps that accept no publish, and steps that move none.
LEMMA AcceptedStill ==
  ASSUME AcceptedOK, UNCHANGED accepted, \A m \in QoS12 : (pc'[m] = "idle") <=> (pc[m] = "idle")
  PROVE  AcceptedOK'
  BY DEF AcceptedOK, Distinct

LEMMA OrderStill ==
  ASSUME OrderOK, UNCHANGED <<wire, batch, buf, accepted, qos12Messages>>, broken => broken',
                              quit => quit',
         (closing' \in {"queues", "closed"}) <=> (closing \in {"queues", "closed"}),
         \A r \in Routine : HasHand(r)' <=> HasHand(r)
  PROVE  OrderOK'
  <1>1. PICK w \in 0 .. Len(accepted), u \in 0 .. Len(accepted), n \in 0 .. Len(accepted) : SentUpTo(w, u, n)
    BY DEF OrderOK
  <1>2. Waiting(n)'
    BY <1>1 DEF SentUpTo, Waiting
  <1>3. Gone => Gone'
    BY DEF Gone
  <1>4. SentUpTo(w, u, n)'
    BY <1>1, <1>2, <1>3 DEF SentUpTo
  <1>5. QED BY <1>1, <1>4 DEF OrderOK

\* Only one goroutine has packets in hand, and it writes as long as it does.
LEMMA HandFrom ==
  ASSUME IInv, OrderOK, NEW r \in Routine, HasHand(r)
  PROVE  \E w, u, n \in 0 .. Len(accepted) : SentBy(r, w, u, n)
  <1>1. PICK w \in 0 .. Len(accepted), u \in 0 .. Len(accepted), n \in 0 .. Len(accepted) : SentUpTo(w, u, n)
    BY DEF OrderOK
  <1>2. \A s \in Routine : HasHand(s) => s = r
    BY DEF IInv, HandOver, Synced, HasHand, EndingSteps
  <1>3. SentBy(r, w, u, n)
    BY <1>1, <1>2 DEF SentUpTo, SentBy, Gone
  <1>4. QED BY <1>1, <1>3

LEMMA HandTo ==
  ASSUME NEW r \in Routine, HasHand(r)', NEW w \in 0 .. Len(accepted'), NEW u \in 0 .. Len(accepted'),
         NEW n \in 0 .. Len(accepted'), SentBy(r, w, u, n)'
  PROVE  OrderOK'
  <1>1. SentUpTo(w, u, n)'
    BY DEF SentBy, SentUpTo, Gone
  <1>2. QED BY <1>1 DEF OrderOK

LEMMA NobodyElse ==
  ASSUME IInv, NEW r \in Routine, pc[r] \in {"check", "flush"}
  PROVE  \A s \in Routine \ {r} : ~HasHand(s)
  BY DEF IInv, HandOver, Synced, HasHand, EndingSteps

\* A goroutine that begins to send has nothing in hand.
LEMMA CheckOrder ==
  ASSUME IInv, Shape, OrderOK, NEW r \in Routine, Check(r)
  PROVE  OrderOK'
  <1>1. UNCHANGED <<wire, batch, buf, accepted, qos12Messages, broken, quit, closing>>
    BY DEF Check, queueVars, outVars, closeVars, netVars, pastVars
  <1>2. pc[r] = "check" /\ \A s \in Routine \ {r} : pc'[s] = pc[s]
    BY Apart, PcGoto DEF Check
  <1>3. CASE quit
    <2>1. pc'[r] = "idle"
      BY <1>3, Apart, PcGoto DEF Check, isAlive
    <2>2. \A s \in Routine : HasHand(s)' <=> HasHand(s)
      BY <1>2, <2>1 DEF HasHand, SendingSteps
    <2>3. QED BY <1>1, <2>2, OrderStill
  <1>4. CASE ~quit
    <2>1. pc'[r] = "general"
      BY <1>4, Apart, PcGoto DEF Check, isAlive
    <2>2. \A s \in Routine : ~HasHand(s)
      BY <1>2, NobodyElse DEF HasHand, SendingSteps
    <2>3. HasHand(r)' /\ batch[r] = <<>> /\ buf[r] = <<>>
      BY <1>2, <2>1 DEF HasHand, SendingSteps, Shape, HandOK, HandIs
    <2>4. PICK w \in 0 .. Len(accepted), u \in 0 .. Len(accepted), n \in 0 .. Len(accepted) : SentUpTo(w, u, n)
      BY DEF OrderOK
    <2>5. broken \/ w = n
      BY <1>4, <2>2, <2>4 DEF SentUpTo, Gone
    <2>6. w \in Nat /\ n \in Nat /\ Covers(<<>>, accepted, n, n)
      BY <2>4, CoversNone
    <2>7. Waiting(n)'
      BY <1>1, <2>4 DEF SentUpTo, Waiting
    <2>8. CASE broken
      BY <1>1, <2>3, <2>4, <2>7, <2>8, HandTo DEF SentUpTo, SentBy
    <2>9. CASE w = n
      <3>1. SentBy(r, n, n, n)'
        BY <1>1, <2>3, <2>4, <2>6, <2>7, <2>9 DEF SentUpTo, SentBy
      <3>2. QED BY <1>1, <2>3, <2>4, <3>1, HandTo
    <2>10. QED BY <2>5, <2>8, <2>9
  <1>5. QED BY <1>3, <1>4

\* A packet that is no QoS 1 or 2 publish is popped.
LEMMA OtherOrder ==
  ASSUME IInv, Shape, AcceptedOK, OrderOK, NEW r \in Routine, HasHand(r), HasHand(r)',
         UNCHANGED <<wire, buf, accepted, qos12Messages, broken, closing>>,
         NEW p \in Outgoing, p.msg \notin QoS12, batch'[r] = Append(batch[r], p)
  PROVE  OrderOK'
  <1>1. PICK w \in 0 .. Len(accepted), u \in 0 .. Len(accepted), n \in 0 .. Len(accepted) : SentBy(r, w, u, n)
    BY HandFrom
  <1>2. Waiting(n)'
    BY <1>1 DEF SentBy, Waiting
  <1>3. Covers(batch[r], accepted, u, n) => Covers(batch'[r], accepted, u, n)
    <2>1. accepted \in Seq(QoS12) /\ batch[r] \in Seq(Outgoing)
      BY DEF Shape, PacketsOK, FlowOK
    <2>2. u \in Nat /\ n \in Nat /\ u <= n
      BY <1>1 DEF SentBy
    <2>3. Covers(<<p>>, accepted, n, n)
      BY <2>2, CoversOther
    <2>4. QED BY <1>1, <2>1, <2>2, <2>3, CoversAppend DEF AcceptedOK, Distinct
  <1>4. SentBy(r, w, u, n)'
    BY <1>1, <1>2, <1>3 DEF SentBy
  <1>5. QED BY <1>1, <1>4, HandTo

\* The steps of a goroutine that move packets.
LEMMA PopGeneralOrder ==
  ASSUME IInv, Shape, AcceptedOK, OrderOK, NEW r \in Routine, PopGeneral(r)
  PROVE  OrderOK'
  <1>1. /\ UNCHANGED <<wire, buf, accepted, qos12Messages, broken, quit, closing>>
        /\ HasHand(r) /\ \A s \in Routine : HasHand(s)' <=> HasHand(s)
    <2>1. PICK step \in {"qos12", "write"} : Goto(r, step) /\ pc[r] = "general"
      BY DEF PopGeneral
    <2>2. QED BY <2>1, Apart, PcGoto
              DEF PopGeneral, HasHand, SendingSteps, runVars, closeVars, netVars, pastVars
  <1>2. CASE isAlive /\ gMessages # <<>>
    <2>1. batch'[r] = Append(batch[r], Head(gMessages))
      BY <1>2 DEF PopGeneral, Popped, Shape, PacketsOK
    <2>2. Head(gMessages) \in [type : {"PUBREL"}, msg : {None}, id : Id]
      BY <1>2, TailType DEF Shape, PacketsOK
    <2>3. Head(gMessages) \in Outgoing /\ Head(gMessages).msg \notin QoS12
      BY <2>2, WriterAssumption DEF Outgoing, QoS12, Pub
    <2>4. QED BY <1>1, <2>1, <2>3, OtherOrder
  <1>3. CASE ~(isAlive /\ gMessages # <<>>)
    <2>1. UNCHANGED batch
      BY <1>3 DEF PopGeneral
    <2>2. QED BY <1>1, <2>1, OrderStill
  <1>4. QED BY <1>2, <1>3

LEMMA PopQoS0Order ==
  ASSUME IInv, Shape, AcceptedOK, OrderOK, NEW r \in Routine, PopQoS0(r)
  PROVE  OrderOK'
  <1>1. /\ UNCHANGED <<wire, buf, accepted, qos12Messages, broken, quit, closing>>
        /\ HasHand(r) /\ \A s \in Routine : HasHand(s)' <=> HasHand(s)
    BY Apart, PcGoto DEF PopQoS0, HasHand, SendingSteps, runVars, closeVars, netVars, pastVars
  <1>2. CASE qos0Messages # <<>>
    <2>1. batch'[r] = Append(batch[r], Publish(Head(qos0Messages), 0))
      BY <1>2 DEF PopQoS0, Popped, Shape, PacketsOK
    <2>2. Head(qos0Messages) \in QoS0
      BY <1>2, TailType DEF Shape, PacketsOK
    <2>3. Publish(Head(qos0Messages), 0) \in Outgoing /\ Publish(Head(qos0Messages), 0).msg \notin QoS12
      BY <2>2, WriterAssumption DEF Publish, Outgoing, QoS12
    <2>4. QED BY <1>1, <2>1, <2>3, OtherOrder
  <1>3. CASE qos0Messages = <<>>
    <2>1. UNCHANGED batch
      BY <1>3 DEF PopQoS0
    <2>2. QED BY <1>1, <2>1, OrderStill
  <1>4. QED BY <1>2, <1>3

LEMMA TakeQoS12Order ==
  ASSUME IInv, Shape, AcceptedOK, OrderOK, NEW r \in Routine, TakeQoS12(r)
  PROVE  OrderOK'
  <1>1. PICK i \in Id : batch' = [batch EXCEPT ![r] = Append(batch[r], Publish(Head(qos12Messages), i))]
    BY DEF TakeQoS12, Popped
  <1>2. /\ UNCHANGED <<wire, buf, accepted, broken, closing>>
        /\ qos12Messages # <<>> /\ qos12Messages' = Tail(qos12Messages)
    BY DEF TakeQoS12, qos12Available, runVars, closeVars, netVars, pastVars
  <1>3. HasHand(r) /\ HasHand(r)'
    BY Apart, PcGoto DEF TakeQoS12, HasHand, SendingSteps
  <1>4. PICK w \in 0 .. Len(accepted), u \in 0 .. Len(accepted), n \in 0 .. Len(accepted) : SentBy(r, w, u, n)
    BY <1>3, HandFrom
  <1>5. /\ closing \notin {"queues", "closed"} /\ qos12Messages = SubSeq(accepted, n + 1, Len(accepted))
    BY <1>2, <1>4 DEF SentBy, Waiting
  <1>6. accepted \in Seq(QoS12) /\ Len(accepted) \in Nat /\ n \in Nat /\ u \in Nat
    BY <1>4 DEF Shape, FlowOK
  <1>7. n < Len(accepted)
    <2>1. CASE n = Len(accepted)
      <3>1. SubSeq(accepted, n + 1, Len(accepted)) = <<>>
        BY <1>6, <2>1
      <3>2. QED BY <1>2, <1>5, <3>1
    <2>2. QED BY <1>4, <1>6, <2>1
  <1>8. Head(qos12Messages) = accepted[n + 1] /\ qos12Messages' = SubSeq(accepted, n + 2, Len(accepted))
    BY <1>2, <1>4, <1>5, <1>6, <1>7, RestOfRest
  <1>9. n + 1 \in 0 .. Len(accepted) /\ n + 1 \in DOMAIN accepted /\ (n + 1) + 1 = n + 2
    BY <1>6, <1>7
  <1>10. Waiting(n + 1)'
    BY <1>2, <1>5, <1>8, <1>9 DEF Waiting
  <1> DEFINE p == Publish(accepted[n + 1], i)
  <1>11. p \in Outgoing /\ p.msg = accepted[n + 1]
    BY <1>6, <1>9 DEF Publish, Outgoing
  <1>12. batch'[r] = Append(batch[r], p) /\ batch[r] \in Seq(Outgoing)
    BY <1>1, <1>8 DEF Shape, PacketsOK
  <1> HIDE DEF p
  <1>13. Covers(batch[r], accepted, u, n) => Covers(batch'[r], accepted, u, n + 1)
    <2>1. Covers(<<p>>, accepted, n, n + 1)
      BY <1>6, <1>11, CoversOne
    <2>2. u <= n /\ n <= n + 1
      BY <1>4, <1>6 DEF SentBy
    <2>3. QED BY <1>6, <1>9, <1>11, <1>12, <2>1, <2>2, CoversAppend DEF AcceptedOK, Distinct
  <1>14. SentBy(r, w, u, n + 1)'
    <2>1. w <= u /\ u <= n + 1
      BY <1>4, <1>6 DEF SentBy
    <2>2. QED BY <1>2, <1>4, <1>10, <1>13, <2>1 DEF SentBy
  <1>15. QED BY <1>2, <1>3, <1>4, <1>9, <1>14, HandTo

LEMMA WriteOrder ==
  ASSUME IInv, Shape, AcceptedOK, OrderOK, NEW r \in Routine, Write(r)
  PROVE  OrderOK'
  <1>1. /\ UNCHANGED <<accepted, qos12Messages, broken, closing>>
        /\ batch'[r] = <<>>
    BY DEF Write, queueVars, closeVars, pastVars, Shape, PacketsOK
  <1>2. HasHand(r) /\ HasHand(r)'
    <2>1. PICK step \in {"general", "leave"} : Goto(r, step) /\ pc[r] = "write"
      BY DEF Write
    <2>2. QED BY <2>1, Apart, PcGoto DEF HasHand, SendingSteps
  <1>3. PICK w \in 0 .. Len(accepted), u \in 0 .. Len(accepted), n \in 0 .. Len(accepted) : SentBy(r, w, u, n)
    BY <1>2, HandFrom
  <1>4. /\ accepted \in Seq(QoS12) /\ wire \in Seq(Outgoing) /\ batch[r] \in Seq(Outgoing) /\ buf[r] \in Seq(Outgoing)
        /\ w \in Nat /\ u \in Nat /\ n \in Nat /\ 0 <= w /\ w <= u /\ u <= n
    BY <1>3 DEF Shape, PacketsOK, FlowOK, SentBy
  <1>5. Waiting(n)'
    BY <1>1, <1>3 DEF SentBy, Waiting
  <1>6. Covers(wire, accepted, 0, w) /\ Covers(<<>>, accepted, n, n)
    BY <1>3, <1>4, CoversNone DEF SentBy
  <1>7. CASE broken
    <2>1. wire' = wire
      BY <1>7 DEF Write, Transmit
    <2>2. SentBy(r, w, u, n)'
      BY <1>1, <1>4, <1>5, <1>6, <1>7, <2>1 DEF SentBy
    <2>3. QED BY <1>1, <1>2, <1>3, <2>2, HandTo
  <1>8. CASE ~broken
    <2>1. Ready(r) \in Seq(Outgoing) /\ Covers(Ready(r), accepted, w, n)
      <3>1. Covers(buf[r], accepted, w, u) /\ Covers(batch[r], accepted, u, n)
        BY <1>3, <1>8 DEF SentBy
      <3>2. QED BY <1>3, <1>4, <3>1, CoversConcat, ConcatType DEF Ready, AcceptedOK, Distinct
    <2>2. CASE buf' = [buf EXCEPT ![r] = Ready(r)] /\ UNCHANGED wire
      <3>1. buf'[r] = Ready(r)
        BY <2>2 DEF Shape, PacketsOK
      <3>2. SentBy(r, w, n, n)'
        <4>1. w <= n /\ n <= n
          BY <1>4
        <4>2. QED BY <1>1, <1>5, <1>6, <2>1, <2>2, <3>1, <4>1 DEF SentBy
      <3>3. QED BY <1>1, <1>2, <1>3, <3>2, HandTo
    <2>3. CASE Transmit(Ready(r)) /\ buf' = [buf EXCEPT ![r] = <<>>]
      <3>1. wire' = wire \o Ready(r) /\ buf'[r] = <<>>
        BY <1>8, <2>3 DEF Transmit, Shape, PacketsOK
      <3>2. Covers(wire', accepted, 0, n)
        <4>1. 0 \in Nat /\ 0 <= w /\ w <= n
          BY <1>4
        <4>2. QED BY <1>3, <1>4, <1>6, <2>1, <3>1, <4>1, CoversConcat DEF AcceptedOK, Distinct
      <3>3. SentBy(r, n, n, n)'
        BY <1>1, <1>4, <1>5, <1>6, <3>1, <3>2 DEF SentBy
      <3>4. QED BY <1>1, <1>2, <1>3, <3>3, HandTo
    <2>4. QED BY <1>8, <2>2, <2>3 DEF Write
  <1>9. QED BY <1>7, <1>8

LEMMA FlushOrder ==
  ASSUME IInv, Shape, AcceptedOK, OrderOK, NEW r \in Routine, Flush(r)
  PROVE  OrderOK'
  <1>1. /\ UNCHANGED <<accepted, qos12Messages, broken, closing, quit>> /\ pc[r] = "flush"
    BY DEF Flush, queueVars, runVars, closeVars, pastVars
  <1>2. HasHand(r) /\ \A s \in Routine : ~HasHand(s)'
    <2>1. pc'[r] = "recheck" /\ \A s \in Routine \ {r} : pc'[s] = pc[s]
      BY Apart, PcGoto DEF Flush
    <2>2. \A s \in Routine \ {r} : ~HasHand(s)
      BY <1>1, NobodyElse
    <2>3. QED BY <1>1, <2>1, <2>2 DEF HasHand, SendingSteps
  <1>3. PICK w \in 0 .. Len(accepted), u \in 0 .. Len(accepted), n \in 0 .. Len(accepted) : SentBy(r, w, u, n)
    BY <1>2, HandFrom
  <1>4. /\ accepted \in Seq(QoS12) /\ wire \in Seq(Outgoing) /\ buf[r] \in Seq(Outgoing)
        /\ w \in Nat /\ u \in Nat /\ n \in Nat /\ w <= u /\ u <= n
    BY <1>3 DEF Shape, PacketsOK, FlowOK, SentBy
  <1>5. Waiting(n)'
    BY <1>1, <1>3 DEF SentBy, Waiting
  <1>6. Covers(wire, accepted, 0, w)
    BY <1>3 DEF SentBy
  <1>7. CASE broken \/ quit
    <2>1. wire' = wire
      BY <1>7 DEF Flush, Transmit, isAlive
    <2>2. Gone'
      BY <1>1, <1>2, <1>7 DEF Gone
    <2>3. SentUpTo(w, u, n)'
      BY <1>1, <1>4, <1>5, <1>6, <2>1, <2>2 DEF SentUpTo
    <2>4. QED BY <1>1, <1>3, <2>3 DEF OrderOK
  <1>8. CASE ~broken /\ ~quit
    <2>1. batch[r] = <<>> /\ ~failed[r]
      BY <1>1, <1>8 DEF Shape, HandOK, HandIs, SendingSteps
    <2>2. u = n
      <3>1. Covers(<<>>, accepted, u, n)
        BY <1>3, <1>8, <2>1 DEF SentBy
      <3>2. QED BY <1>4, <3>1, CoversNothing
    <2>3. wire' = wire \o buf[r]
      BY <1>8, <2>1 DEF Flush, Transmit, isAlive
    <2>4. Covers(wire', accepted, 0, n)
      <3>1. Covers(buf[r], accepted, w, n)
        BY <1>3, <1>8, <2>2 DEF SentBy
      <3>2. 0 \in Nat /\ 0 <= w /\ w <= n
        BY <1>4, <2>2
      <3>3. QED BY <1>3, <1>4, <1>6, <2>3, <3>1, <3>2, CoversConcat DEF AcceptedOK, Distinct
    <2>5. SentUpTo(n, n, n)'
      BY <1>1, <1>2, <1>4, <1>5, <2>4 DEF SentUpTo
    <2>6. QED BY <1>1, <1>3, <2>5 DEF OrderOK
  <1>9. QED BY <1>7, <1>8

LEMMA AppendSingle ==
  ASSUME NEW S, NEW s \in Seq(S), NEW p \in S
  PROVE  <<p>> \in Seq(S) /\ Append(s, p) = s \o <<p>>
  OBVIOUS

\* Somebody accepts a publish.
LEMMA SendAccepted ==
  ASSUME IInv, Shape, AcceptedOK, NEW m \in Pub, Send(m)
  PROVE  AcceptedOK'
  <1>1. pc[m] = "idle" /\ pc'[m] = "run" /\ \A s \in Caller \ {m} : pc'[s] = pc[s]
    BY Apart, PcGoto DEF Send
  <1>2. CASE m \in QoS0
    <2>1. UNCHANGED accepted /\ m \notin QoS12
      BY <1>2, WriterAssumption DEF Send, pastVars, QoS12
    <2>2. \A k \in QoS12 : pc'[k] = pc[k]
      BY <1>1, <2>1, Apart DEF QoS12, Pub
    <2>3. QED BY <2>1, <2>2, AcceptedStill
  <1>3. CASE m \notin QoS0
    <2>1. accepted' = Append(accepted, m) /\ m \in QoS12 /\ accepted \in Seq(QoS12)
      BY <1>3 DEF Send, QoS12, Pub, Shape, FlowOK
    <2>2. Elems(accepted') = Elems(accepted) \cup {m} /\ m \notin Elems(accepted)
      BY <1>1, <2>1, ElemsAppend DEF AcceptedOK
    <2>3. \A k \in QoS12 \ {m} : pc'[k] = pc[k]
      BY <1>1, Apart DEF QoS12, Pub
    <2>4. \A k \in QoS12 : k \in Elems(accepted') <=> pc'[k] # "idle"
      BY <1>1, <2>2, <2>3 DEF AcceptedOK
    <2>5. Distinct'
      <3>1. /\ DOMAIN accepted' = 1 .. Len(accepted) + 1 /\ DOMAIN accepted = 1 .. Len(accepted)
            /\ Len(accepted) \in Nat /\ accepted'[Len(accepted) + 1] = m
            /\ \A a \in 1 .. Len(accepted) : accepted'[a] = accepted[a]
        BY <2>1
      <3>2. \A a \in 1 .. Len(accepted) : accepted[a] # m
        BY <2>2, <3>1 DEF Elems
      <3>3. QED BY <3>1, <3>2 DEF AcceptedOK, Distinct
    <2>6. QED BY <2>4, <2>5 DEF AcceptedOK
  <1>4. QED BY <1>2, <1>3

LEMMA SendOrder ==
  ASSUME IInv, Shape, OrderOK, NEW m \in Pub, Send(m)
  PROVE  OrderOK'
  <1>1. /\ UNCHANGED <<wire, batch, buf, broken, quit, closing>> /\ closing \notin {"queues",
                       "closed"}
        /\ \A s \in Routine : HasHand(s)' <=> HasHand(s)
    BY Apart, PcGoto DEF Send, HasHand, runVars, outVars, closeVars, netVars
  <1>2. CASE m \in QoS0
    BY <1>1, <1>2, OrderStill DEF Send, pastVars
  <1>3. CASE m \notin QoS0
    <2>1. /\ accepted' = Append(accepted, m) /\ qos12Messages' = Append(qos12Messages, m)
          /\ m \in QoS12 /\ accepted \in Seq(QoS12) /\ qos12Messages \in Seq(QoS12)
      BY <1>3 DEF Send, QoS12, Pub, Shape, PacketsOK, FlowOK
    <2>2. PICK w \in 0 .. Len(accepted), u \in 0 .. Len(accepted), n \in 0 .. Len(accepted) : SentUpTo(w, u, n)
      BY DEF OrderOK
    <2>3. /\ Len(accepted) \in Nat /\ Len(accepted') = Len(accepted) + 1
          /\ \A a \in 1 .. Len(accepted) : accepted'[a] = accepted[a]
      BY <2>1
    <2>4. /\ w \in Nat /\ u \in Nat /\ n \in Nat
          /\ {w, u, n} \subseteq 0 .. Len(accepted')
          /\ \A a \in 0 + 1 .. w : accepted'[a] = accepted[a]
          /\ \A a \in w + 1 .. u : accepted'[a] = accepted[a]
          /\ \A a \in u + 1 .. n : accepted'[a] = accepted[a]
      <3>1. /\ w \in Nat /\ u \in Nat /\ n \in Nat
            /\ w <= Len(accepted) /\ u <= Len(accepted) /\ n <= Len(accepted)
        BY <2>2, <2>3
      <3>2. {w, u, n} \subseteq 0 .. Len(accepted')
        BY <2>3, <3>1
      <3>3. /\ 0 + 1 .. w \subseteq 1 .. Len(accepted)
            /\ w + 1 .. u \subseteq 1 .. Len(accepted) /\ u + 1 .. n \subseteq 1 .. Len(accepted)
        BY ONLY <2>3, <3>1
      <3>4. QED BY <2>3, <3>1, <3>2, <3>3
    <2>5. Covers(wire, accepted', 0, w)
      <3>1. Covers(wire, accepted, 0, w) /\ 0 \in Nat
        BY <2>2 DEF SentUpTo
      <3>2. QED BY <2>4, <3>1, CoversStill
    <2>6. \A r \in Routine : /\ Covers(buf[r], accepted, w, u) => Covers(buf[r], accepted', w, u)
                             /\ Covers(batch[r], accepted, u, n) => Covers(batch[r], accepted', u, n)
      BY <2>4, CoversStill
    <2>7. qos12Messages' = SubSeq(accepted', n + 1, Len(accepted'))
      <3>1. qos12Messages = SubSeq(accepted, n + 1, Len(accepted))
        BY <1>1, <2>2 DEF SentUpTo, Waiting
      <3>2. /\ <<m>> \in Seq(QoS12) /\ accepted' = accepted \o <<m>>
            /\ qos12Messages' = qos12Messages \o <<m>>
        BY <2>1, AppendSingle
      <3>3. QED BY <2>1, <2>2, <3>1, <3>2, RestOfConcat
    <2>8. Gone => Gone'
      BY <1>1 DEF Gone
    <2>9. SentUpTo(w, u, n)'
      BY <1>1, <2>2, <2>5, <2>6, <2>7, <2>8 DEF SentUpTo, Waiting
    <2>10. QED BY <2>4, <2>9 DEF OrderOK
  <1>4. QED BY <1>2, <1>3

\* The close empties the queue.
LEMMA CollectQueuesOrder ==
  ASSUME OrderOK, CollectQueues
  PROVE  OrderOK'
  <1>1. UNCHANGED <<wire, batch, buf, accepted, broken, quit, pc>> /\ qos12Messages' = <<>> /\ closing' = "queues"
    BY DEF CollectQueues, runVars, outVars, netVars, pastVars
  <1>2. PICK w \in 0 .. Len(accepted), u \in 0 .. Len(accepted), n \in 0 .. Len(accepted) : SentUpTo(w, u, n)
    BY DEF OrderOK
  <1>3. Waiting(n)' /\ (Gone => Gone') /\ \A r \in Routine : HasHand(r)' <=> HasHand(r)
    BY <1>1 DEF Waiting, Gone, HasHand
  <1>4. SentUpTo(w, u, n)'
    BY <1>1, <1>2, <1>3 DEF SentUpTo
  <1>5. QED BY <1>1, <1>2, <1>4 DEF OrderOK

\* All steps put together.
LEMMA GoroutineOrder ==
  ASSUME IInv, Shape, AcceptedOK, OrderOK, NEW r \in Routine, Goroutine(r)
  PROVE  AcceptedOK' /\ OrderOK'
  <1>1. UNCHANGED accepted /\ \A m \in QoS12 : pc'[m] = pc[m]
    <2>1. PICK step : Goto(r, step) /\ UNCHANGED accepted
      BY DEF Goroutine, Sync, Check, PopGeneral, TakeQoS12, NoQoS12, Keep, PopQoS0, Write,
             NothingLeft, Leave,
             Flush, Recheck, Done, pastVars
    <2>2. QED BY <2>1, Apart, PcGoto DEF QoS12, Pub
  <1>2. AcceptedOK'
    BY <1>1, AcceptedStill
  <1>3. CASE Sync(r) \/ NoQoS12(r) \/ Keep(r) \/ NothingLeft(r) \/ Leave(r) \/ Recheck(r) \/ Done(r)
    <2>1. UNCHANGED <<wire, batch, buf, accepted, qos12Messages, broken, quit>>
      BY <1>3 DEF Sync, NoQoS12, Keep, NothingLeft, Leave, Recheck, Done,
                  queueVars, runVars, outVars, netVars, pastVars
    <2>2. (closing' \in {"queues", "closed"}) <=> (closing \in {"queues", "closed"})
      BY <1>3 DEF Sync, NoQoS12, Keep, NothingLeft, Leave, Recheck, Done, closeVars
    <2>3. PICK step : /\ Goto(r, step)
                      /\ (pc[r] \in SendingSteps \cup {"flush"}) <=> (step \in SendingSteps \cup {"flush"})
      BY <1>3 DEF Sync, NoQoS12, Keep, NothingLeft, Leave, Recheck, Done, SendingSteps
    <2>4. \A s \in Routine : HasHand(s)' <=> HasHand(s)
      BY <2>3, Apart, PcGoto DEF HasHand
    <2>5. QED BY <1>2, <2>1, <2>2, <2>4, OrderStill
  <1>4. QED
    BY <1>2, <1>3, CheckOrder, PopGeneralOrder, TakeQoS12Order, PopQoS0Order, WriteOrder,
       FlushOrder DEF Goroutine

LEMMA NextOrder ==
  ASSUME IInv, Shape, AcceptedOK, OrderOK, [Next]_vars
  PROVE  AcceptedOK' /\ OrderOK'
  <1> DEFINE Quiet ==
        /\ UNCHANGED <<wire, batch, buf, accepted,
                       qos12Messages>> /\ (broken => broken') /\ (quit => quit')
        /\ (closing' \in {"queues", "closed"}) <=> (closing \in {"queues", "closed"})
        /\ \A m \in QoS12 : (pc'[m] = "idle") <=> (pc[m] = "idle")
        /\ \A s \in Routine : HasHand(s)' <=> HasHand(s)
  <1>1. ASSUME Quiet PROVE AcceptedOK' /\ OrderOK'
    BY <1>1, AcceptedStill, OrderStill
  <1>2. CASE \E t \in Caller : Run(t)
    <2>1. PICK t \in Caller : Run(t)
      BY <1>2
    <2>2. UNCHANGED <<wire, batch, buf, accepted, qos12Messages, broken, quit, closing>>
      BY <2>1
         DEF Run, RunChecks, RunClaims, queueVars, runVars, outVars, closeVars, netVars, pastVars
    <2>3. /\ pc[t] \in {"run", "claim"} /\ pc'[t] \in {"claim", AfterRun(t)}
          /\ \A s \in Caller \ {t} : pc'[s] = pc[s] \/ (s \in Routine /\ pc[s] = "idle" /\ pc'[s] = "sync")
      BY <2>1, RunMoves
    <2>4. \A s \in Routine : HasHand(s)' <=> HasHand(s)
      BY <2>3, Apart, AfterRunIs DEF HasHand, SendingSteps
    <2>5. \A m \in QoS12 : (pc'[m] = "idle") <=> (pc[m] = "idle")
      <3>1. \A m \in QoS12 : m \in Pub
        BY DEF QoS12, Pub
      <3>2. QED BY <2>3, <3>1, Apart, AfterRunIs
    <2>6. QED BY <1>1, <2>2, <2>4, <2>5
  <1>3. CASE \E m \in Pub : Send(m)
    BY <1>3, SendAccepted, SendOrder
  <1>4. CASE \E r \in Routine : Goroutine(r)
    BY <1>4, GoroutineOrder
  <1>5. CASE Start \/ Acking
    <2>1. UNCHANGED <<wire, batch, buf, accepted, qos12Messages, broken, quit, closing>>
      BY <1>5 DEF Start, Acking, Read, Load, Free, Raise, Delete, StoreRel, Respond,
                  queueVars, runVars, outVars, closeVars, netVars, pastVars
    <2>2. PICK t \in {Reader, Starter}, step \in Steps : Goto(t, step)
      BY <1>5 DEF Steps, Start, Acking, Read, Load, Free, Raise, Delete, StoreRel, Respond
    <2>3. \A s \in Pub \cup Routine : pc'[s] = pc[s]
      BY <2>2, Apart, PcGoto
    <2>4. Quiet
      BY <2>1, <2>3 DEF HasHand, QoS12, Pub
    <2>5. QED BY <1>1, <2>4
  <1>6. CASE Close \/ Offline \/ Quit \/ Stopped \/ PassBy \/ CollectUnAck \/ Break \/ ClientReads \/ UNCHANGED vars
    <2>1. UNCHANGED <<wire, batch, buf, accepted, qos12Messages,
                      pc>> /\ (broken => broken') /\ (quit => quit')
      BY <1>6 DEF Close, Offline, Quit, Stopped, PassBy, CollectUnAck, Break, ClientReads, vars,
                  queueVars, runVars, outVars, netVars, pastVars
    <2>2. (closing' \in {"queues", "closed"}) <=> (closing \in {"queues", "closed"})
      BY <1>6 DEF Close, Offline, Quit, Stopped, PassBy, CollectUnAck, Break, ClientReads, vars,
                  closeVars
    <2>3. QED BY <1>1, <2>1, <2>2 DEF HasHand
  <1>7. CASE CollectQueues
    <2>1. UNCHANGED <<accepted, pc>>
      BY <1>7 DEF CollectQueues, pastVars
    <2>2. QED BY <1>7, <2>1, AcceptedStill, CollectQueuesOrder
  <1>8. QED BY <1>2, <1>3, <1>4, <1>5, <1>6, <1>7 DEF Next, Closing, Over

LEMMA InitOrder ==
  ASSUME Init
  PROVE  AcceptedOK /\ OrderOK
  <1> USE DEF Init
  <1>1. \A t \in Caller : pc[t] = "idle"
    OBVIOUS
  <1>2. AcceptedOK
    BY <1>1, Apart, ElemsEmpty DEF AcceptedOK, Distinct, QoS12, Pub
  <1>3. \A r \in Routine : ~HasHand(r)
    BY <1>1, Apart DEF HasHand, SendingSteps
  <1>4. 0 \in Nat /\ Len(accepted) = 0 /\ Waiting(0)
    BY DEF Waiting
  <1>5. Covers(wire, accepted, 0, 0)
    BY <1>4, CoversNone
  <1>6. SentUpTo(0, 0, 0)
    BY ONLY <1>3, <1>4, <1>5 DEF SentUpTo
  <1>7. QED BY <1>2, <1>4, <1>6 DEF OrderOK

\* What was accepted is, in the order of acceptance and without a gap, on the
\* wire, in the hands of the goroutine that sends, and in the queue, until a
\* broken network or the close cuts it off (writer.go:197-232, 292-392).
THEOREM OrderInductive == Spec => [](AcceptedOK /\ OrderOK)
  <1>1. Init => AcceptedOK /\ OrderOK
    BY InitOrder
  <1>2. (IInv /\ Shape /\ Places) /\ (AcceptedOK /\ OrderOK) /\ [Next]_vars => (AcceptedOK /\ OrderOK)'
    BY NextOrder
  <1>3. QED BY <1>1, <1>2, PlacesInductive, PTL DEF Spec

\* QoS 1 and 2 publishes get to the wire once each and in the order in which they
\* were accepted, although one goroutine hands over to the next (writer.go:292-372,
\* 374-392).
THEOREM InOrderCorrect == Spec => []InOrder
  <1>1. ASSUME Shape, AcceptedOK, OrderOK PROVE InOrder
    <2>1. PICK w \in 0 .. Len(accepted) : Covers(wire, accepted, 0, w)
      BY <1>1 DEF OrderOK, SentUpTo
    <2>2. /\ accepted \in Seq(QoS12) /\ DOMAIN accepted = 1 .. Len(accepted) /\ DOMAIN wire = 1 .. Len(wire)
          /\ Len(accepted) \in Nat /\ Len(wire) \in Nat /\ 0 + 1 .. w \subseteq DOMAIN accepted
      BY <1>1 DEF Shape, PacketsOK, FlowOK
    <2>3. ASSUME NEW k \in DOMAIN wire, wire[k].msg \in QoS12
          PROVE  \E a \in DOMAIN accepted :
                   /\ accepted[a] = wire[k].msg
                   /\ \A b \in DOMAIN accepted : b < a <=> \E j \in 1 .. k - 1 : wire[j].msg = accepted[b]
      <3>1. PICK a \in 0 + 1 .. w : accepted[a] = wire[k].msg
        BY <2>1, <2>3 DEF Covers
      <3>2. ASSUME NEW b \in DOMAIN accepted, b < a
            PROVE  \E j \in 1 .. k - 1 : wire[j].msg = accepted[b]
        <4>1. b \in 0 + 1 .. w
          BY <2>2, <3>1, <3>2
        <4>2. PICK j \in DOMAIN wire : wire[j].msg = accepted[b]
          BY <2>1, <4>1 DEF Covers
        <4>3. ~(k < j) /\ k # j
          <5>1. k < j => a < b
            BY <2>1, <3>1, <4>1, <4>2 DEF Covers
          <5>2. k = j => a = b
            BY <1>1, <2>2, <3>1, <4>1, <4>2 DEF AcceptedOK, Distinct
          <5>3. QED BY <2>2, <3>1, <3>2, <5>1, <5>2
        <4>4. QED BY <2>2, <4>2, <4>3
      <3>3. ASSUME NEW b \in DOMAIN accepted, NEW j \in 1 .. k - 1, wire[j].msg = accepted[b]
            PROVE  b < a
        <4>1. j \in DOMAIN wire /\ j < k /\ accepted[b] \in QoS12
          BY <2>2, <3>3
        <4>2. PICK c \in 0 + 1 .. w : accepted[c] = wire[j].msg
          BY <2>1, <3>3, <4>1 DEF Covers
        <4>3. c = b
          BY <1>1, <2>2, <3>3, <4>2 DEF AcceptedOK, Distinct
        <4>4. c < a
          BY <2>1, <3>1, <4>1, <4>2 DEF Covers
        <4>5. QED BY <4>3, <4>4
      <3>4. a \in DOMAIN accepted
        BY <2>2, <3>1
      <3>5. QED BY <3>1, <3>2, <3>3, <3>4
    <2>4. QED BY <2>3 DEF InOrder, QoS12
  <1>2. QED BY <1>1, PlacesInductive, OrderInductive, PTL

-----------------------------------------------------------------------------
(* Nobody waits for a goroutine in vain *)

\* Where somebody sees to it that what is in the queues is looked at.
WakefulSteps == {"run", "claim", "sync", "check", "flush", "recheck"} \cup SendingSteps
Awake == \E t \in Caller : pc[t] \in WakefulSteps

WakeOK == ~quit /\ ~broken /\ packetsAvailable => Awake

\* As long as running is set a goroutine has yet to look at the queues.
RunStands == running /\ ~quit => \E r \in Routine : Runs(r)

\* As long as the goroutine that running stands for is there.
LEMMA RunsStill ==
  ASSUME RunStands, running' => running, quit => quit', \A r \in Routine : Runs(r) => Runs(r)' \/ quit
  PROVE  RunStands'
  BY DEF RunStands

\* run finds a goroutine that has yet to look at the queues, or starts one
\* (writer.go:240-249).
LEMMA RunAwake ==
  ASSUME IInv, RunStands, NEW t \in Caller, Run(t)
  PROVE  RunStands' /\ (quit \/ Awake')
  <1>1. UNCHANGED quit /\ pc[t] \in {"run", "claim"}
    BY DEF Run, RunChecks, RunClaims, runVars
  <1>2. \A s \in Caller \ {t} : pc'[s] = pc[s] \/ (s \in Routine /\ pc[s] = "idle" /\ pc'[s] = "sync")
    BY RunMoves
  <1>3. \A r \in Routine : Runs(r) => Runs(r)' /\ pc'[r] \in WakefulSteps
    BY <1>1, <1>2, Apart DEF Runs, SendingSteps, WakefulSteps
  <1>4. CASE RunChecks(t)
    <2>1. UNCHANGED running /\ (quit \/ pc'[t] = "claim")
      BY <1>4, PcGoto DEF RunChecks, runVars, isAlive
    <2>2. quit \/ Awake'
      BY <2>1 DEF Awake, WakefulSteps
    <2>3. QED BY <1>1, <1>3, <2>1, <2>2, RunsStill
  <1>5. CASE RunClaims(t) /\ running
    <2>1. UNCHANGED running
      BY <1>5 DEF RunClaims
    <2>2. RunStands'
      BY <1>1, <1>3, <2>1, RunsStill
    <2>3. quit \/ Awake'
      <3>1. ASSUME ~quit PROVE \E r \in Routine : r \in Caller /\ pc'[r] \in WakefulSteps
        BY <1>3, <1>5, <3>1, Apart DEF RunStands
      <3>2. QED BY <3>1 DEF Awake
    <2>4. QED BY <2>2, <2>3
  <1>6. CASE RunClaims(t) /\ ~running
    <2>1. PICK r \in Routine : r \in Caller /\ pc'[r] = "sync"
      BY <1>6, Apart DEF RunClaims, IInv, ControlOK
    <2>2. Runs(r)' /\ pc'[r] \in WakefulSteps
      BY <2>1 DEF Runs, WakefulSteps
    <2>3. QED BY <2>1, <2>2 DEF RunStands, Awake
  <1>7. QED BY <1>4, <1>5, <1>6 DEF Run

\* A goroutine that ends looks once more after it has reset running
\* (writer.go:307-318), and nobody else but a goroutine resets it.
LEMMA RoutineAwake ==
  ASSUME IInv, Shape, RunStands, WakeOK, NEW r \in Routine, Goroutine(r)
  PROVE  RunStands' /\ WakeOK'
  <1>1. PICK step : /\ Goto(r, step)
                    /\ UNCHANGED <<quit, broken>> /\ (running' => running)
    BY DEF Goroutine, Sync, Check, PopGeneral, TakeQoS12, NoQoS12, Keep, PopQoS0, Write,
           NothingLeft, Leave,
           Flush, Recheck, Done, runVars, netVars
  <1>2. r \in Caller /\ pc'[r] = step /\ \A s \in Caller \ {r} : pc'[s] = pc[s]
    BY <1>1, Apart, PcGoto
  <1>3. RunStands'
    <2>1. CASE Leave(r)
      BY <2>1 DEF Leave, RunStands
    <2>2. CASE ~Leave(r)
      <3>1. Runs(r) => Runs(r)' \/ quit
        BY <1>2, <2>2 DEF Goroutine, Sync, Check, PopGeneral, TakeQoS12, NoQoS12, Keep, PopQoS0,
                          Write, NothingLeft,
               Flush, Recheck, Done, Runs, SendingSteps, isAlive, Goto, IInv, ControlOK
      <3>2. \A s \in Routine \ {r} : Runs(s) => Runs(s)'
        BY <1>2, Apart DEF Runs
      <3>3. QED BY <1>1, <3>1, <3>2, RunsStill
    <2>3. QED BY <2>1, <2>2
  <1>4. CASE step \in WakefulSteps
    BY <1>2, <1>3, <1>4 DEF WakeOK, Awake
  <1>5. CASE step \notin WakefulSteps
    <2>1. \/ Check(r) /\ quit
          \/ Recheck(r) /\ ~Rechecks(r)
          \/ Done(r)
      BY <1>2, <1>5 DEF Goroutine, Sync, Check, PopGeneral, TakeQoS12, NoQoS12, Keep, PopQoS0,
                        Write, NothingLeft,
             Leave, Flush, Recheck, Done, WakefulSteps, SendingSteps, isAlive, Goto, IInv, ControlOK
    <2>2. UNCHANGED <<queueVars, quota>>
      BY <2>1 DEF Check, Recheck, Done, flowVars
    <2>3. packetsAvailable' = packetsAvailable
      BY <2>2 DEF packetsAvailable, qos12Available, quotaAvailable, queueVars
    <2>4. CASE Check(r) /\ quit
      BY <1>1, <1>3, <2>4 DEF WakeOK
    <2>5. CASE Recheck(r) /\ ~Rechecks(r)
      BY <1>1, <1>3, <2>3, <2>5 DEF Recheck, WakeOK, Rechecks, Shape, HandOK, HandIs
    <2>6. CASE Done(r)
      <3>1. Awake => Awake'
        BY <1>2, <2>6 DEF Done, Awake, WakefulSteps, SendingSteps
      <3>2. QED BY <1>1, <1>3, <2>3, <3>1 DEF WakeOK
    <2>7. QED BY <2>1, <2>4, <2>5, <2>6
  <1>6. QED BY <1>3, <1>4, <1>5

\* Whoever adds to a queue calls run, and release does when the quota was used up.
LEMMA NextAwake ==
  ASSUME IInv, Shape, RunStands, WakeOK, [Next]_vars
  PROVE  RunStands' /\ WakeOK'
  <1>1. CASE \E t \in Caller : Run(t)
    <2>1. UNCHANGED quit
      BY <1>1 DEF Run, RunChecks, RunClaims, runVars
    <2>2. QED BY <1>1, <2>1, RunAwake DEF WakeOK
  <1>2. CASE \E r \in Routine : Goroutine(r)
    BY <1>2, RoutineAwake
  <1>3. CASE (\E m \in Pub : Send(m)) \/ Start \/ Acking
    <2>1. PICK t \in Caller \ Routine, step \in Steps : Goto(t, step)
      BY <1>3, Apart
         DEF Steps, Send, Start, Acking, Read, Load, Free, Raise, Delete, StoreRel, Respond
    <2>2. UNCHANGED <<running, quit, broken>>
      BY <1>3 DEF Send, Start, Acking, Read, Load, Free, Raise, Delete, StoreRel, Respond,
                  runVars, netVars
    <2>3. pc'[t] = step /\ \A s \in Caller \ {t} : pc'[s] = pc[s]
      BY <2>1, PcGoto
    <2>4. RunStands'
      <3>1. \A r \in Routine : Runs(r)' <=> Runs(r)
        BY <2>1, <2>3, Apart DEF Runs
      <3>2. QED BY <2>2, <3>1, RunsStill
    <2>5. CASE step = "run"
      BY <2>1, <2>3, <2>4, <2>5 DEF WakeOK, Awake, WakefulSteps
    <2>6. CASE step # "run"
      <3>1. Read \/ Load \/ Free \/ Raise \/ Delete \/ StoreRel
        BY <1>3, <2>3, <2>6, Apart, PcGoto DEF Send, Start, Acking, Respond
      <3>2. t = Reader
        <4>1. PICK to : Goto(Reader, to) /\ to # pc[Reader]
          BY <3>1 DEF Read, Load, Free, Raise, Delete, StoreRel
        <4>2. QED BY <2>3, <4>1, Apart, PcGoto
      <3>3. pc[Reader] \notin WakefulSteps
        BY <3>1 DEF Read, Load, Free, Raise, Delete, StoreRel, WakefulSteps, SendingSteps
      <3>4. Awake => Awake'
        BY <2>3, <3>2, <3>3 DEF Awake
      <3>5. UNCHANGED queueVars
        BY <3>1 DEF Read, Load, Free, Raise, Delete, StoreRel
      <3>6. CASE Raise
        <4>1. ~Signals /\ quota' = quota + 1 /\ quota \in Nat
          BY <2>3, <2>6, <3>2, <3>6, Apart, PcGoto DEF Raise, Raised, Shape, FlowOK
        <4>2. packetsAvailable' => packetsAvailable
          BY <3>5, <4>1 DEF Signals, packetsAvailable, qos12Available, quotaAvailable, queueVars
        <4>3. QED BY <2>2, <2>4, <3>4, <4>2 DEF WakeOK
      <3>7. CASE ~Raise
        <4>1. UNCHANGED quota
          BY <3>1, <3>7 DEF Read, Load, Free, Delete, StoreRel, flowVars
        <4>2. packetsAvailable' = packetsAvailable
          BY <3>5, <4>1 DEF packetsAvailable, qos12Available, quotaAvailable, queueVars
        <4>3. QED BY <2>2, <2>4, <3>4, <4>2 DEF WakeOK
      <3>8. QED BY <3>6, <3>7
    <2>7. QED BY <2>4, <2>5, <2>6
  <1>4. CASE Close \/ Closing \/ PassBy \/ Break \/ ClientReads \/ UNCHANGED vars
    <2>1. UNCHANGED <<running, pc>> /\ (quit => quit') /\ (broken => broken')
      BY <1>4 DEF Close, Closing, PassBy, Offline, Quit, Stopped, CollectQueues, CollectUnAck,
                  Break, ClientReads,
                  vars, runVars, netVars
    <2>2. RunStands' /\ (Awake' <=> Awake)
      BY <2>1, RunsStill DEF Runs, Awake
    <2>3. CASE CollectQueues
      BY <2>1, <2>2, <2>3 DEF CollectQueues, WakeOK, IInv, CloseOK, Late
    <2>4. CASE ~CollectQueues
      <3>1. UNCHANGED <<queueVars, quota>>
        BY <1>4, <2>4
           DEF Close, Closing, PassBy, Offline, Quit, Stopped, CollectUnAck, Break, ClientReads,
                          vars, flowVars
      <3>2. packetsAvailable' = packetsAvailable
        BY <3>1 DEF packetsAvailable, qos12Available, quotaAvailable, queueVars
      <3>3. QED BY <2>1, <2>2, <3>2 DEF WakeOK
    <2>5. QED BY <2>2, <2>3, <2>4
  <1>5. QED BY <1>1, <1>2, <1>3, <1>4 DEF Next, Over

\* When nobody is at work, nothing that could be sent is waiting in a queue
\* (writer.go:193-249, 307-318, 437-441).
THEOREM NoLostWakeupCorrect == Spec => []NoLostWakeup
  <1>1. Init => RunStands /\ WakeOK
    BY DEF Init, RunStands, WakeOK, packetsAvailable, qos12Available
  <1>2. (IInv /\ Shape /\ Places) /\ (RunStands /\ WakeOK) /\ [Next]_vars => (RunStands /\ WakeOK)'
    BY NextAwake
  <1>3. ASSUME WakeOK PROVE NoLostWakeup
    <2>1. ASSUME pc[Starter] = "ran", pc[Reader] = "idle", \A m \in Pub : pc[m] \in {"idle", "ran"},
                 \A r \in Routine : ~Busy(r)
          PROVE  ~Awake
      BY <2>1 DEF Awake, Caller, Busy, WakefulSteps, SendingSteps
    <2>2. QED BY <1>3, <2>1 DEF NoLostWakeup, WakeOK, isAlive
  <1>4. QED BY <1>1, <1>2, <1>3, PlacesInductive, PTL DEF Spec

-----------------------------------------------------------------------------
(* Nothing is lost in the close *)

HandsCarry(f, m, i) == \E r \in Routine : Carried(f[r], m, i)

\* The publish m, or a PUBREL (None), is on its way to the client under the id.
OnItsWay(m, i) == HandsCarry(batch, m, i) \/ HandsCarry(buf, m, i) \/ Carried(Unread, m, i)

\* The ack queue has m under the id, or has lost it.
UnderId(m, i) == pubOut[i] = m \/ overrun[i] = m

\* The client has answered the publish that has the id.
Answered(i) ==
  \/ In(gMessages, i) \/ OnItsWay(None, i) \/ In(acks, i) \/ Handles(i)
  \/ GivesBack(i) /\ (i \in inUse => Keeps(i))

CarriedOK ==
  closing # "closed" => \A i \in Id, m \in QoS12 : OnItsWay(m, i) => UnderId(m, i) \/ Keeps(i)

AnsweredOK ==
  closing # "closed" => \A i \in Id, m \in QoS12 : Answered(i) /\ UnderId(m, i) => HasRead(m)

\* What a goroutine overwrites in the ack queue has been answered.
KeepsOK == \A i \in Id : Keeps(i) /\ pubOut[i] # None => GivesBack(i)

TraceOK == CarriedOK /\ AnsweredOK /\ KeepsOK

Taken(m) == \E r \in Routine : pc[r] = "keep" /\ Last(batch[r]).msg = m

\* Where an accepted publish can be.
Safe(m) ==
  \/ m \in Elems(qos12Messages) \/ Taken(m) \/ (\E i \in Id : UnderId(m, i)) \/ HasRead(m)
  \/ closing \in {"queues", "closed"} /\ m \in stored.qos12
  \/ closing = "closed" /\ m \in stored.unAck

SafeOK ==
  /\ \A m \in QoS12 : pc[m] # "idle" => Safe(m)
  /\ closing = "closed" /\ ~passed => \A i \in Id : pubOut[i] = None

\* Where a packet is when sequences grow, shrink and are put together.
LEMMA CarriedAppend ==
  ASSUME NEW S, NEW s \in Seq(S), NEW p \in S, NEW m, NEW i
  PROVE  Carried(Append(s, p), m, i) <=> Carried(s, m, i) \/ (p.id = i /\ p.msg = m)
  BY ElemsAppend DEF Carried

LEMMA CarriedConcat ==
  ASSUME NEW S, NEW s \in Seq(S), NEW t \in Seq(S), NEW m, NEW i
  PROVE  Carried(s \o t, m, i) <=> Carried(s, m, i) \/ Carried(t, m, i)
  BY ElemsConcat DEF Carried

LEMMA CarriedTail ==
  ASSUME NEW S, NEW s \in Seq(S), s # <<>>, NEW m, NEW i
  PROVE  Carried(s, m, i) <=> Carried(Tail(s), m, i) \/ (Head(s).id = i /\ Head(s).msg = m)
  BY ElemsTail DEF Carried

LEMMA CarriedEmpty ==
  ASSUME NEW m, NEW i
  PROVE  ~Carried(<<>>, m, i)
  BY ElemsEmpty DEF Carried

LEMMA CarriedIn ==
  ASSUME NEW s, NEW m, NEW i, Carried(s, m, i)
  PROVE  In(s, i)
  BY DEF Carried, In

LEMMA CarriedOnce ==
  ASSUME NEW s, Once(s), NEW p \in Elems(s), p.id # 0, NEW m, Carried(s, m, p.id)
  PROVE  m = p.msg
  BY DEF Once, Carried, Elems

\* Only the goroutine that is at work has packets in hand.
LEMMA HandsCarryIs ==
  ASSUME NEW f, NEW r \in Routine, \A s \in Routine \ {r} : f[s] = <<>>, NEW m, NEW i
  PROVE  HandsCarry(f, m, i) <=> Carried(f[r], m, i)
  BY CarriedEmpty DEF HandsCarry

LEMMA HandsCarryAre ==
  ASSUME IInv, HandOK, NEW r \in Routine, Synced(r), NEW m, NEW i
  PROVE  /\ HandsCarry(batch, m, i) <=> Carried(batch[r], m, i)
         /\ HandsCarry(buf, m, i) <=> Carried(buf[r], m, i)
  BY Alone, HandsCarryIs

LEMMA HandsCarryAfter ==
  ASSUME IInv, HandOK, NEW r \in Routine, Synced(r),
         \A s \in Routine \ {r} : batch'[s] = batch[s] /\ buf'[s] = buf[s], NEW m, NEW i
  PROVE  /\ HandsCarry(batch', m, i) <=> Carried(batch'[r], m, i)
         /\ HandsCarry(buf', m, i) <=> Carried(buf'[r], m, i)
  <1>1. \A s \in Routine \ {r} : batch'[s] = <<>> /\ buf'[s] = <<>>
    BY Alone
  <1>2. HandsCarry(batch', m, i) <=> Carried(batch'[r], m, i)
    BY <1>1, HandsCarryIs
  <1>3. HandsCarry(buf', m, i) <=> Carried(buf'[r], m, i)
    BY <1>1, HandsCarryIs
  <1>4. QED BY <1>2, <1>3

LEMMA NobodyTakes ==
  ASSUME IInv, HandOK, NEW r \in Routine, Synced(r), NEW m
  PROVE  Taken(m) <=> pc[r] = "keep" /\ Last(batch[r]).msg = m
  BY Alone DEF Taken, SendingSteps

\* What the client has read it has read, whatever else is sent to it.
LEMMA HasReadGrows ==
  ASSUME Shape, UNCHANGED read, NEW packets \in Seq(Outgoing), wire' \in {wire, wire \o packets},
         NEW m, HasRead(m)
  PROVE  HasRead(m)'
  <1>1. wire \in Seq(Outgoing) /\ read \in 0 .. Len(wire)
    BY DEF Shape, PacketsOK
  <1>2. \A k \in 1 .. Len(wire) : wire'[k] = wire[k]
    BY <1>1
  <1>3. 1 .. read \subseteq 1 .. Len(wire) /\ Len(wire) \in Nat
    BY <1>1
  <1>4. QED BY <1>2, <1>3 DEF HasRead

\* Steps that bring no packet and no answer on its way.
LEMMA TraceStill ==
  ASSUME TraceOK, UNCHANGED <<pubOut, overrun>>, closing = "closed" => closing' = "closed",
         \A m \in QoS12 : HasRead(m) => HasRead(m)',
         \A i \in Id : /\ Keeps(i)' <=> Keeps(i)
                       /\ GivesBack(i) => GivesBack(i)'
                       /\ Answered(i)' => Answered(i)
                       /\ \A m \in QoS12 : OnItsWay(m, i)' => OnItsWay(m, i)
  PROVE  TraceOK'
  <1>1. \A i \in Id, m \in QoS12 : UnderId(m, i)' <=> UnderId(m, i)
    BY DEF UnderId
  <1>2. CarriedOK'
    BY <1>1 DEF TraceOK, CarriedOK
  <1>3. AnsweredOK'
    BY <1>1 DEF TraceOK, AnsweredOK
  <1>4. KeepsOK'
    BY DEF TraceOK, KeepsOK
  <1>5. QED BY <1>2, <1>3, <1>4 DEF TraceOK

LEMMA SafeStill ==
  ASSUME SafeOK, UNCHANGED <<qos12Messages, stored, pubOut, overrun>>, passed => passed',
         (closing' = "closed") <=> (closing = "closed"),
         closing \in {"queues", "closed"} => closing' \in {"queues", "closed"},
         \A m \in QoS12 : /\ (pc'[m] = "idle") <=> (pc[m] = "idle")
                          /\ Taken(m) => Taken(m)'
                          /\ HasRead(m) => HasRead(m)'
  PROVE  SafeOK'
  <1>1. \A m \in QoS12 : Safe(m) => Safe(m)'
    <2>1. \A i \in Id, m \in QoS12 : UnderId(m, i)' <=> UnderId(m, i)
      BY DEF UnderId
    <2>2. QED BY <2>1 DEF Safe
  <1>2. QED BY <1>1 DEF SafeOK

\* Steps that move no packet.
LEMMA QuietTrace ==
  ASSUME TraceOK,
         UNCHANGED <<gMessages, batch, buf, wire, read, acks, inUse, pubOut, overrun>>,
         (closing' = "closed") <=> (closing = "closed"),
         \A r \in Routine : (pc'[r] = "keep") <=> (pc[r] = "keep"),
         \A i \in Id : (Handles(i)' <=> Handles(i)) /\ (GivesBack(i)' <=> GivesBack(i))
  PROVE  /\ TraceOK'
         /\ \A m \in QoS12 : (Taken(m)' <=> Taken(m)) /\ (HasRead(m)' <=> HasRead(m))
  <1>1. Unread' = Unread
    BY DEF Unread
  <1>2. \A m \in QoS12 : (Taken(m)' <=> Taken(m)) /\ (HasRead(m)' <=> HasRead(m))
    BY DEF Taken, HasRead
  <1>3. \A i \in Id : Keeps(i)' <=> Keeps(i)
    BY KeepsSame
  <1>4. \A i \in Id, m \in QoS12 \cup {None} : OnItsWay(m, i)' <=> OnItsWay(m, i)
    BY <1>1 DEF OnItsWay
  <1>5. \A i \in Id : Answered(i)' <=> Answered(i)
    BY <1>3, <1>4 DEF Answered
  <1>6. QED BY <1>2, <1>3, <1>4, <1>5, TraceStill

\* Steps that move packets from one place to the next, or lose them.
LEMMA MovesTrace ==
  ASSUME IInv, Shape, TraceOK, SafeOK, NEW r \in Routine, Synced(r), pc[r] # "keep",
         NEW step, step # "keep", Goto(r, step),
         \A s \in Routine \ {r} : batch'[s] = batch[s] /\ buf'[s] = buf[s],
         UNCHANGED <<acks, ack, inUse, pubOut, overrun, closing, passed, stored, read,
                     qos12Messages>>,
         \A m \in QoS12 : HasRead(m) => HasRead(m)',
         \A i \in Id, m \in QoS12 :
           Carried(batch'[r], m, i) \/ Carried(buf'[r], m, i) \/ Carried(Unread', m, i)
             => Carried(batch[r], m, i) \/ Carried(buf[r], m, i) \/ Carried(Unread, m, i),
         \A i \in Id :
           In(gMessages', i) \/ Carried(batch'[r], None, i) \/ Carried(buf'[r], None, i) \/ Carried(Unread', None, i)
             => In(gMessages, i) \/ Carried(batch[r], None, i) \/ Carried(buf[r], None, i) \/ Carried(Unread, None, i)
  PROVE  TraceOK' /\ SafeOK'
  <1>1. \A m \in QoS12 : ~Taken(m) /\ (pc'[m] = "idle" <=> pc[m] = "idle")
    <2>1. \A m \in QoS12 : ~Taken(m)
      BY NobodyTakes DEF Shape
    <2>2. \A m \in QoS12 : pc'[m] = pc[m]
      BY Apart, PcGoto DEF QoS12, Pub
    <2>3. QED BY <2>1, <2>2
  <1>2. SafeOK'
    BY <1>1, SafeStill
  <1>3. \A i \in Id : ~Keeps(i) /\ ~Keeps(i)'
    BY NobodyKeeps, HandsAfter DEF Shape
  <1>4. \A i \in Id : (Handles(i)' <=> Handles(i)) /\ (GivesBack(i)' <=> GivesBack(i))
    <2>1. pc'[Reader] = pc[Reader]
      BY Apart, PcGoto
    <2>2. QED BY <2>1, ReaderSame
  <1>5. \A i \in Id, m \in QoS12 : OnItsWay(m, i)' => OnItsWay(m, i)
    BY HandsCarryAre, HandsCarryAfter DEF OnItsWay, Shape
  <1>6. \A i \in Id : In(gMessages, i)' \/ OnItsWay(None, i)' => In(gMessages, i) \/ OnItsWay(None, i)
    BY HandsCarryAre, HandsCarryAfter DEF OnItsWay, Shape
  <1>7. \A i \in Id : Answered(i)' => Answered(i)
    BY <1>3, <1>4, <1>6 DEF Answered
  <1>8. TraceOK'
    BY <1>3, <1>4, <1>5, <1>7, TraceStill
  <1>9. QED BY <1>2, <1>8

\* A goroutine moves packets on, or a broken network loses them.
LEMMA PopGeneralTrace ==
  ASSUME IInv, Shape, TraceOK, SafeOK, NEW r \in Routine, PopGeneral(r)
  PROVE  TraceOK' /\ SafeOK'
  <1>1. /\ UNCHANGED <<buf, wire, read, acks, ack, inUse, pubOut, overrun, closing, passed,
                       stored, qos12Messages>>
        /\ \A s \in Routine \ {r} : batch'[s] = batch[s]
        /\ pc[r] = "general" /\ Synced(r)
    BY DEF PopGeneral, Popped, Shape, PacketsOK, flowVars, closeVars, netVars, pastVars, Synced,
           SendingSteps
  <1>2. PICK step \in {"qos12", "write"} : Goto(r, step)
    BY DEF PopGeneral
  <1>3. Unread' = Unread /\ \A m \in QoS12 : HasRead(m)' <=> HasRead(m)
    BY <1>1 DEF Unread, HasRead
  <1>4. /\ \A i \in Id, m \in QoS12 : Carried(batch'[r], m, i) => Carried(batch[r], m, i)
        /\ \A i \in Id : In(gMessages', i) \/ Carried(batch'[r], None, i) => In(gMessages, i) \/ Carried(batch[r], None, i)
    <2>1. CASE isAlive /\ gMessages # <<>>
      <3> DEFINE p == Head(gMessages)
      <3>1. /\ gMessages' = Tail(gMessages) /\ batch'[r] = Append(batch[r], p) /\ batch[r] \in Seq(Outgoing)
        BY <2>1 DEF PopGeneral, Popped, Shape, PacketsOK
      <3>2. p \in [type : {"PUBREL"}, msg : {None}, id : Id]
        BY <2>1, TailType DEF Shape, PacketsOK
      <3>3. p \in Outgoing /\ p.msg = None /\ p.msg \notin QoS12
        BY <3>2, WriterAssumption DEF Outgoing, QoS12, Pub
      <3>4. \A i \in Id : In(gMessages, i) <=> In(gMessages', i) \/ p.id = i
        BY <2>1, <3>1, InTail DEF Shape, PacketsOK
      <3> HIDE DEF p
      <3>5. \A i \in Id, m \in QoS12 \cup {None} : Carried(batch'[r], m, i) <=> Carried(batch[r], m, i) \/ (p.id = i /\ p.msg = m)
        BY <3>1, <3>3, CarriedAppend
      <3>6. QED BY <3>3, <3>4, <3>5
    <2>2. CASE ~(isAlive /\ gMessages # <<>>)
      BY <2>2 DEF PopGeneral
    <2>3. QED BY <2>1, <2>2
  <1>5. QED BY <1>1, <1>2, <1>3, <1>4, MovesTrace

LEMMA PopQoS0Trace ==
  ASSUME IInv, Shape, TraceOK, SafeOK, NEW r \in Routine, PopQoS0(r)
  PROVE  TraceOK' /\ SafeOK'
  <1>1. /\ UNCHANGED <<gMessages, buf, wire, read, acks, ack, inUse, pubOut, overrun, closing,
                       passed, stored, qos12Messages>>
        /\ \A s \in Routine \ {r} : batch'[s] = batch[s]
        /\ pc[r] = "qos0" /\ Synced(r) /\ Goto(r, "write")
    BY DEF PopQoS0, Popped, Shape, PacketsOK, flowVars, closeVars, netVars, pastVars, Synced,
           SendingSteps
  <1>2. Unread' = Unread /\ \A m \in QoS12 : HasRead(m)' <=> HasRead(m)
    BY <1>1 DEF Unread, HasRead
  <1>3. \A i \in Id, m \in QoS12 \cup {None} : Carried(batch'[r], m, i) => Carried(batch[r], m, i)
    <2>1. CASE qos0Messages # <<>>
      <3> DEFINE p == Publish(Head(qos0Messages), 0)
      <3>1. batch'[r] = Append(batch[r], p) /\ batch[r] \in Seq(Outgoing)
        BY <2>1 DEF PopQoS0, Popped, Shape, PacketsOK
      <3>2. Head(qos0Messages) \in QoS0
        BY <2>1, TailType DEF Shape, PacketsOK
      <3>3. p \in Outgoing /\ p.id = 0
        BY <3>2 DEF Publish, Outgoing
      <3> HIDE DEF p
      <3>4. \A i \in Id, m \in QoS12 \cup {None} : Carried(batch'[r], m, i) <=> Carried(batch[r], m, i) \/ (p.id = i /\ p.msg = m)
        BY <3>1, <3>3, CarriedAppend
      <3>5. QED BY <3>3, <3>4, IdIs
    <2>2. CASE qos0Messages = <<>>
      BY <2>2 DEF PopQoS0
    <2>3. QED BY <2>1, <2>2
  <1>4. QED BY <1>1, <1>2, <1>3, MovesTrace

LEMMA WriteTrace ==
  ASSUME IInv, Shape, Shape', TraceOK, SafeOK, NEW r \in Routine, Write(r)
  PROVE  TraceOK' /\ SafeOK'
  <1>1. /\ UNCHANGED <<gMessages, read, acks, ack, inUse, pubOut, overrun, closing, passed,
                       stored, qos12Messages>>
        /\ batch'[r] = <<>> /\ \A s \in Routine \ {r} : batch'[s] = batch[s] /\ buf'[s] = buf[s]
        /\ pc[r] = "write" /\ Synced(r)
    BY DEF Write, Shape, PacketsOK, queueVars, flowVars, closeVars, pastVars, Synced, SendingSteps
  <1>2. PICK step \in {"general", "leave"} : Goto(r, step)
    BY DEF Write
  <1>3. /\ batch[r] \in Seq(Outgoing) /\ buf[r] \in Seq(Outgoing) /\ Ready(r) \in Seq(Outgoing)
        /\ \A m, i : Carried(Ready(r), m, i) <=> Carried(buf[r], m, i) \/ Carried(batch[r], m, i)
    <2>1. batch[r] \in Seq(Outgoing) /\ buf[r] \in Seq(Outgoing)
      BY DEF Shape, PacketsOK
    <2>2. QED BY <2>1, ConcatType, CarriedConcat DEF Ready
  <1>4. \A m, i : ~Carried(batch'[r], m, i)
    BY <1>1, CarriedEmpty
  <1>5. /\ \A m \in QoS12 : HasRead(m) => HasRead(m)'
        /\ \A m, i : Carried(buf'[r], m, i) \/ Carried(Unread', m, i)
                       => Carried(batch[r], m, i) \/ Carried(buf[r], m, i) \/ Carried(Unread, m, i)
    <2>1. CASE buf' = [buf EXCEPT ![r] = Ready(r)] /\ wire' = wire
      <3>1. buf'[r] = Ready(r) /\ Unread' = Unread
        BY <1>1, <2>1 DEF Shape, PacketsOK, Unread
      <3>2. QED BY <1>1, <1>3, <2>1, <3>1 DEF HasRead
    <2>2. CASE Transmit(Ready(r)) /\ buf' = [buf EXCEPT ![r] = <<>>]
      <3>1. buf'[r] = <<>> /\ wire' \in {wire, wire \o Ready(r)}
        BY <2>2 DEF Shape, PacketsOK, Transmit
      <3>2. \A m, i : ~Carried(buf'[r], m, i)
        BY <3>1, CarriedEmpty
      <3>3. \A m \in QoS12 : HasRead(m) => HasRead(m)'
        BY <1>1, <1>3, <3>1, HasReadGrows
      <3>4. CASE Unread' = Unread
        BY <3>2, <3>3, <3>4
      <3>5. CASE Unread \in Seq(Outgoing) /\ Unread' = Unread \o Ready(r)
        <4>1. \A m, i : Carried(Unread', m, i) <=> Carried(Unread, m, i) \/ Carried(Ready(r), m, i)
          BY <1>3, <3>5, CarriedConcat
        <4>2. QED BY <1>3, <3>2, <3>3, <4>1
      <3>6. QED BY <1>1, <1>3, <2>2, <3>4, <3>5, TransmitPlaces
    <2>3. CASE UNCHANGED <<buf, wire>>
      <3>1. Unread' = Unread /\ buf' = buf
        BY <1>1, <2>3 DEF Unread
      <3>2. QED BY <1>1, <2>3, <3>1 DEF HasRead
    <2>4. QED BY <2>1, <2>2, <2>3 DEF Write
  <1>6. QED BY <1>1, <1>2, <1>4, <1>5, MovesTrace

LEMMA FlushTrace ==
  ASSUME IInv, Shape, Shape', TraceOK, SafeOK, NEW r \in Routine, Flush(r)
  PROVE  TraceOK' /\ SafeOK'
  <1>1. /\ UNCHANGED <<gMessages, batch, read, acks, ack, inUse, pubOut, overrun, closing,
                       passed, stored, qos12Messages>>
        /\ buf'[r] = <<>> /\ \A s \in Routine \ {r} : buf'[s] = buf[s]
        /\ pc[r] = "flush" /\ Synced(r) /\ Goto(r, "recheck")
    BY DEF Flush, Shape, PacketsOK, queueVars, flowVars, closeVars, pastVars, Synced, EndingSteps
  <1>2. \A m, i : ~Carried(buf'[r], m, i)
    BY <1>1, CarriedEmpty
  <1>3. buf[r] \in Seq(Outgoing) /\ (wire' = wire \/ Transmit(buf[r]))
    BY DEF Flush, Shape, PacketsOK
  <1>4. \A m \in QoS12 : HasRead(m) => HasRead(m)'
    <2>1. wire' \in {wire, wire \o buf[r]}
      BY <1>3 DEF Transmit
    <2>2. QED BY <1>1, <1>3, <2>1, HasReadGrows
  <1>5. \A m, i : Carried(Unread', m, i) => Carried(buf[r], m, i) \/ Carried(Unread, m, i)
    <2>1. wire' = wire => Unread' = Unread
      BY <1>1 DEF Unread
    <2>2. CASE Unread' = Unread
      BY <2>2
    <2>3. CASE Unread \in Seq(Outgoing) /\ Unread' = Unread \o buf[r]
      BY <1>3, <2>3, CarriedConcat
    <2>4. QED BY <1>1, <1>3, <2>1, <2>2, <2>3, TransmitPlaces
  <1>6. QED BY <1>1, <1>2, <1>4, <1>5, MovesTrace

\* A publish is popped: it is in the hands of the goroutine only until it gets
\* into the ack queue.
LEMMA TakeQoS12Trace ==
  ASSUME IInv, Shape, Places, OrderOK, TraceOK, SafeOK, NEW r \in Routine, TakeQoS12(r)
  PROVE  TraceOK' /\ SafeOK'
  <1>0. PICK h : h = Head(qos12Messages)
    OBVIOUS
  <1>1. PICK j \in Id \ inUse :
          inUse' = inUse \cup {j} /\ batch' = [batch EXCEPT ![r] = Append(batch[r], Publish(h, j))]
    BY <1>0 DEF TakeQoS12, Popped
  <1>2. /\ UNCHANGED <<gMessages, buf, wire, read, acks, ack, pubOut, overrun, closing, passed,
                       stored>>
        /\ pc[r] = "qos12" /\ Synced(r) /\ Goto(r, "keep")
        /\ qos12Messages # <<>> /\ qos12Messages' = Tail(qos12Messages) /\ qos12Messages \in Seq(QoS12)
    BY DEF TakeQoS12, qos12Available, closeVars, netVars, pastVars, Synced, SendingSteps, Shape,
           PacketsOK
  <1>3. closing # "closed"
    BY <1>2 DEF OrderOK, SentUpTo, Waiting
  <1>4. h \in QoS12 /\ h # None
    BY <1>0, <1>2, TailType, WriterAssumption DEF QoS12, Pub
  <1>5. Elems(qos12Messages) = Elems(qos12Messages') \cup {h}
    BY <1>0, <1>2, ElemsTail
  <1> DEFINE p == Publish(h, j)
  <1>6. p \in Outgoing /\ p.id = j /\ p.msg = h /\ batch[r] \in Seq(Outgoing)
    BY <1>4 DEF Publish, Outgoing, Shape, PacketsOK
  <1>7. batch'[r] = Append(batch[r], p) /\ \A s \in Routine \ {r} : batch'[s] = batch[s]
    BY <1>1 DEF Shape, PacketsOK
  <1> HIDE DEF p
  <1>8. Last(batch'[r]) = p
    BY <1>6, <1>7 DEF Last
  <1>9. \A i \in Id : ~Keeps(i) /\ (Keeps(i)' <=> i = j)
    BY <1>2, <1>6, <1>7, <1>8, HandsAfter, NobodyKeeps DEF Shape
  <1>10. \A i \in Id : (Handles(i)' <=> Handles(i)) /\ (GivesBack(i)' <=> GivesBack(i))
    BY <1>2, Apart, PcGoto, ReaderSame
  <1>11. Unread' = Unread /\ \A m \in QoS12 : HasRead(m)' <=> HasRead(m)
    BY <1>2 DEF Unread, HasRead
  <1>12. \A i \in Id, m \in QoS12 \cup {None} : OnItsWay(m, i)' <=> OnItsWay(m, i) \/ (i = j /\ m = h)
    <2>1. \A m, i : Carried(batch'[r], m, i) <=> Carried(batch[r], m, i) \/ (p.id = i /\ p.msg = m)
      BY <1>6, <1>7, CarriedAppend
    <2>2. \A m, i : HandsCarry(batch', m, i) <=> HandsCarry(batch, m, i) \/ (i = j /\ m = h)
      BY <1>2, <1>6, <1>7, <2>1, HandsCarryAre, HandsCarryAfter DEF Shape
    <2>3. QED BY <1>2, <1>11, <2>2 DEF OnItsWay
  <1>13. \A i \in Id, m \in QoS12 : UnderId(m, i)' <=> UnderId(m, i)
    BY <1>2 DEF UnderId
  <1>14. CarriedOK'
    BY <1>3, <1>9, <1>12, <1>13 DEF TraceOK, CarriedOK
  <1>15. \A i \in Id : Answered(i)' => Answered(i)
    BY <1>1, <1>2, <1>4, <1>9, <1>10, <1>12 DEF Answered
  <1>16. AnsweredOK'
    BY <1>2, <1>11, <1>13, <1>15 DEF TraceOK, AnsweredOK
  <1>17. KeepsOK'
    <2>1. pubOut[j] # None => GivesBack(j)
      BY <1>3 DEF Places, IdsOK
    <2>2. QED BY <1>2, <1>9, <1>10, <2>1 DEF KeepsOK
  <1>18. SafeOK'
    <2>1. Taken(h)'
      <3>1. pc'[r] = "keep"
        BY <1>2, Apart, PcGoto
      <3>2. Last(batch'[r]).msg = h
        BY <1>6, <1>8
      <3>3. QED BY <3>1, <3>2 DEF Taken
    <2>2. \A m \in QoS12 : ~Taken(m)
      BY <1>2, NobodyTakes DEF Shape
    <2>3. \A m \in QoS12 : Safe(m) => Safe(m)'
      <3>1. \A m \in QoS12 : m \in Elems(qos12Messages) => m \in Elems(qos12Messages') \/ Taken(m)'
        BY <1>5, <2>1
      <3>2. \A m \in QoS12 : (\E i \in Id : UnderId(m, i)) => \E i \in Id : UnderId(m, i)'
        BY <1>13
      <3>3. UNCHANGED <<closing, stored>>
        BY <1>2
      <3>4. QED BY <1>11, <2>2, <3>1, <3>2, <3>3 DEF Safe
    <2>4. \A m \in QoS12 : pc'[m] = pc[m]
      BY <1>2, Apart, PcGoto DEF QoS12, Pub
    <2>5. QED BY <1>2, <1>3, <2>3, <2>4 DEF SafeOK
  <1>19. QED BY <1>14, <1>16, <1>17, <1>18 DEF TraceOK

\* The entry that the new one replaces in the ack queue has been answered.
LEMMA KeepTrace ==
  ASSUME IInv, Shape, Places, TraceOK, SafeOK, NEW r \in Routine, Keep(r)
  PROVE  TraceOK' /\ SafeOK'
  <1>0. PICK p : p = Last(batch[r])
    OBVIOUS
  <1>1. /\ UNCHANGED <<gMessages, batch, buf, wire, read, acks, ack, inUse, overrun, closing,
                       passed, stored, qos12Messages>>
        /\ pc[r] = "keep" /\ Synced(r) /\ Goto(r, "qos0") /\ pubOut' = [pubOut EXCEPT ![p.id] = p.msg]
    BY <1>0 DEF Keep, Kept, Last, queueVars, flowVars, outVars, closeVars, netVars, pastVars,
                Synced, SendingSteps
  <1>2. p.msg \in QoS12 /\ p.id \in Id /\ p \in Elems(batch[r]) /\ p.msg # None
    <2>1. p.msg \in QoS12 /\ batch[r] # <<>> /\ batch[r] \in Seq(Outgoing)
      BY <1>0, <1>1 DEF Shape, HandOK, HandIs, PacketsOK
    <2>2. Len(batch[r]) \in DOMAIN batch[r] /\ p \in Outgoing
      BY <1>0, <2>1 DEF Last
    <2>3. p.id \in Id /\ p.msg # None
      BY <2>1, <2>2, WriterAssumption DEF Outgoing, QoS12, Pub
    <2>4. QED BY <1>0, <2>1, <2>2, <2>3 DEF Elems, Last
  <1>3. \A i \in Id : (Keeps(i) <=> i = p.id) /\ ~Keeps(i)'
    BY <1>0, <1>1, HandsAfter, KeepsIs DEF Shape
  <1>4. \A i \in Id : (Handles(i)' <=> Handles(i)) /\ (GivesBack(i)' <=> GivesBack(i))
    BY <1>1, Apart, PcGoto, ReaderSame
  <1>5. Unread' = Unread /\ \A m \in QoS12 : HasRead(m)' <=> HasRead(m)
    BY <1>1 DEF Unread, HasRead
  <1>6. \A i \in Id, m \in QoS12 \cup {None} : OnItsWay(m, i)' <=> OnItsWay(m, i)
    BY <1>1, <1>5 DEF OnItsWay
  <1>7. /\ pubOut'[p.id] = p.msg
        /\ \A i \in Id \ {p.id} : pubOut'[i] = pubOut[i]
    BY <1>1, <1>2 DEF Shape, FlowOK
  <1>8. /\ ~In(gMessages, p.id) /\ ~InHands(buf, p.id) /\ ~In(Unread, p.id) /\ ~In(acks, p.id) /\ ~Handles(p.id)
        /\ p.id \in inUse /\ overrun[p.id] = None
    <2>1. InHands(batch, p.id)
      BY <1>2 DEF InHands, In
    <2>2. QED BY <1>2, <1>3, <2>1 DEF Places, OnePlace, IdsOK, UnderWay
  <1>9. \A m \in QoS12 \cup {None} : OnItsWay(m, p.id) => m = p.msg
    <2>1. \A m \in QoS12 \cup {None} : ~Carried(Unread, m, p.id) /\ ~HandsCarry(buf, m, p.id)
      BY <1>8, CarriedIn DEF HandsCarry, InHands
    <2>2. \A m \in QoS12 \cup {None} : HandsCarry(batch, m, p.id) => m = p.msg
      <3>1. Once(batch[r]) /\ p.id # 0
        BY <1>2, IdIs DEF Places, OnceOK
      <3>2. QED BY <1>1, <1>2, <3>1, HandsCarryAre, CarriedOnce DEF Shape
    <2>3. QED BY <2>1, <2>2 DEF OnItsWay
  <1>10. CarriedOK'
    <2>1. UnderId(p.msg, p.id)'
      BY <1>7 DEF UnderId
    <2>2. \A i \in Id \ {p.id}, m \in QoS12 : UnderId(m, i)' <=> UnderId(m, i)
      BY <1>1, <1>7 DEF UnderId
    <2>3. QED BY <1>1, <1>3, <1>6, <1>9, <2>1, <2>2 DEF TraceOK, CarriedOK
  <1>11. AnsweredOK'
    <2>1. ~Answered(p.id)'
      <3>1. ~OnItsWay(None, p.id)
        BY <1>2, <1>9
      <3>2. QED BY <1>1, <1>2, <1>3, <1>4, <1>6, <1>8, <3>1 DEF Answered
    <2>2. \A i \in Id \ {p.id} : Answered(i)' => Answered(i)
      BY <1>1, <1>3, <1>4, <1>6 DEF Answered
    <2>3. \A i \in Id \ {p.id}, m \in QoS12 : UnderId(m, i)' <=> UnderId(m, i)
      BY <1>1, <1>7 DEF UnderId
    <2>4. QED BY <1>1, <1>5, <2>1, <2>2, <2>3 DEF TraceOK, AnsweredOK
  <1>12. KeepsOK'
    BY <1>3 DEF KeepsOK
  <1>13. SafeOK'
    <2>1. \A m \in QoS12 : pc'[m] = pc[m]
      BY <1>1, Apart, PcGoto DEF QoS12, Pub
    <2>2. UnderId(p.msg, p.id)'
      BY <1>7 DEF UnderId
    <2>3. ASSUME NEW m \in QoS12, Taken(m) PROVE \E i \in Id : UnderId(m, i)'
      <3>1. m = p.msg
        BY <1>0, <1>1, <2>3, NobodyTakes DEF Shape
      <3>2. QED BY <1>2, <2>2, <3>1
    <2>4. ASSUME NEW m \in QoS12, NEW i \in Id, UnderId(m, i) PROVE UnderId(m, i)' \/ HasRead(m)'
      <3>1. CASE i # p.id
        BY <1>1, <1>7, <2>4, <3>1 DEF UnderId
      <3>2. CASE i = p.id
        <4>1. pubOut[i] = m /\ m # None
          BY <1>8, <2>4, <3>2, WriterAssumption DEF UnderId, QoS12, Pub
        <4>2. GivesBack(i) /\ Keeps(i)
          BY <1>3, <3>2, <4>1 DEF TraceOK, KeepsOK
        <4>3. closing # "closed"
          BY <4>2 DEF GivesBack, IInv, CloseOK
        <4>4. HasRead(m)
          BY <2>4, <4>2, <4>3 DEF TraceOK, AnsweredOK, Answered
        <4>5. QED BY <1>5, <4>4
      <3>3. QED BY <3>1, <3>2
    <2>5. \A m \in QoS12 : Safe(m) => Safe(m)'
      BY <1>1, <1>5, <2>3, <2>4 DEF Safe
    <2>6. ~(closing = "closed" /\ ~passed)
      BY <1>1 DEF IInv, CloseOK, Late, Busy
    <2>7. QED BY <1>1, <2>1, <2>5, <2>6 DEF SafeOK
  <1>14. QED BY <1>10, <1>11, <1>12, <1>13 DEF TraceOK

\* What the client answers it has read, whatever it was.
LEMMA ClientReadsTrace ==
  ASSUME IInv, Shape, Places, TraceOK, SafeOK, ClientReads
  PROVE  TraceOK' /\ SafeOK'
  <1>1. /\ UNCHANGED <<gMessages, batch, buf, wire, pc, ack, inUse, pubOut, overrun, closing,
                       passed, stored, qos12Messages>>
        /\ read < Len(wire) /\ read' = read + 1 /\ acks' = acks \o Reply(wire[read + 1])
    BY DEF ClientReads, queueVars, flowVars, outVars, closeVars, pastVars
  <1>2. /\ Unread \in Seq(Outgoing) /\ Unread # <<>> /\ Head(Unread) = wire[read + 1]
        /\ Unread' = Tail(Unread) /\ wire[read + 1] \in Outgoing
    BY <1>1, UnreadIs
  <1>0. PICK p : p = wire[read + 1]
    OBVIOUS
  <1>3. \A m, i : Carried(Unread, m, i) <=> Carried(Unread', m, i) \/ (p.id = i /\ p.msg = m)
    BY <1>0, <1>2, CarriedTail
  <1>4. \A i \in Id : In(acks', i) => In(acks, i) \/ p.id = i
    BY <1>0, <1>1, <1>2, ReplyIn
  <1>5. /\ \A m \in QoS12 : HasRead(m) => HasRead(m)'
        /\ p.type = "PUBLISH" => HasRead(p.msg)'
    <2>1. read \in Nat /\ read + 1 \in 1 .. read' /\ 1 .. read \subseteq 1 .. read' /\ wire'[read + 1] = p
      BY <1>0, <1>1 DEF Shape, PacketsOK
    <2>2. QED BY <1>1, <2>1 DEF HasRead
  <1>6. \A i \in Id : (Keeps(i)' <=> Keeps(i)) /\ (Handles(i)' <=> Handles(i)) /\ (GivesBack(i)' <=> GivesBack(i))
    BY <1>1, KeepsSame, ReaderSame
  <1>7. \A i \in Id, m \in QoS12 \cup {None} : OnItsWay(m, i)' => OnItsWay(m, i)
    BY <1>1, <1>3 DEF OnItsWay
  <1>8. \A i \in Id : Answered(i)' => Answered(i) \/ p.id = i
    BY <1>1, <1>4, <1>6, <1>7 DEF Answered
  <1>9. \A i \in Id, m \in QoS12 : UnderId(m, i)' <=> UnderId(m, i)
    BY <1>1 DEF UnderId
  <1>10. CarriedOK'
    BY <1>1, <1>6, <1>7, <1>9 DEF TraceOK, CarriedOK
  <1>11. AnsweredOK'
    <2>1. ASSUME NEW i \in Id, NEW m \in QoS12, Answered(i)', UnderId(m, i), closing # "closed"
          PROVE  HasRead(m)'
      <3>1. CASE Answered(i)
        BY <1>5, <2>1, <3>1 DEF TraceOK, AnsweredOK
      <3>2. CASE p.id = i
        <4>1. OnItsWay(p.msg, i) /\ In(Unread, i)
          <5>1. Carried(Unread, p.msg, i)
            BY <1>3, <3>2
          <5>2. QED BY <5>1, CarriedIn DEF OnItsWay
        <4>2. CASE p.msg \in QoS12
          <5>1. ~Keeps(i)
            <6>1. ~InHands(batch, i)
              BY <4>1 DEF Places, OnePlace
            <6>2. QED BY <6>1, KeepsInHands
          <5>2. UnderId(p.msg, i)
            BY <2>1, <4>1, <4>2, <5>1 DEF TraceOK, CarriedOK
          <5>3. m = p.msg
            BY <2>1, <4>2, <5>2, WriterAssumption DEF UnderId, Places, IdsOK, QoS12, Pub
          <5>4. p.type = "PUBLISH"
            BY <1>0, <1>2, <4>2, WriterAssumption DEF Outgoing, QoS12, Pub
          <5>5. QED BY <1>5, <5>3, <5>4
        <4>3. CASE p.msg \notin QoS12
          <5>1. p.msg = None
            BY <1>0, <1>2, <3>2, <4>3, IdIs DEF Outgoing
          <5>2. Answered(i)
            BY <4>1, <5>1 DEF Answered
          <5>3. QED BY <1>5, <2>1, <5>2 DEF TraceOK, AnsweredOK
        <4>4. QED BY <4>2, <4>3
      <3>3. QED BY <1>8, <2>1, <3>1, <3>2
    <2>2. QED BY <1>1, <1>9, <2>1 DEF AnsweredOK
  <1>12. KeepsOK'
    BY <1>1, <1>6 DEF TraceOK, KeepsOK
  <1>13. SafeOK'
    <2>1. \A m \in QoS12 : Taken(m)' <=> Taken(m)
      BY <1>1 DEF Taken
    <2>2. QED BY <1>1, <1>5, <2>1, SafeStill
  <1>14. QED BY <1>10, <1>11, <1>12, <1>13 DEF TraceOK

\* What stays as it is when the reader works on an acknowledgement.
LEMMA AckingSame ==
  ASSUME IInv, Shape, Places, Acking
  PROVE  /\ UNCHANGED <<batch, buf, wire, read, qos12Messages, closing, passed,
                        stored>> /\ closing # "closed"
         /\ \A i \in Id : /\ Keeps(i)' <=> Keeps(i)
                          /\ \A m \in QoS12 \cup {None} : OnItsWay(m, i)' <=> OnItsWay(m, i)
         /\ \A m \in QoS12 : /\ HasRead(m)' <=> HasRead(m)
                             /\ Taken(m)' <=> Taken(m)
                             /\ pc'[m] = pc[m]
  <1> USE DEF Acking, Read, Load, Free, Raise, Delete, StoreRel, Respond
  <1>1. UNCHANGED <<batch, buf, wire, read, qos12Messages, closing, passed, stored>>
    BY DEF queueVars, outVars, closeVars, netVars
  <1>2. closing # "closed"
    BY DEF IInv, CloseOK
  <1>3. \E step : Goto(Reader, step)
    OBVIOUS
  <1> USE DEF QoS12, Pub
  <1>4. \A r \in Routine \cup QoS12 : pc'[r] = pc[r]
    BY <1>3, Apart, PcGoto
  <1>5. \A i \in Id : Keeps(i)' <=> Keeps(i)
    BY <1>1, <1>4, KeepsSame
  <1>6. Unread' = Unread
    BY <1>1 DEF Unread
  <1>7. \A i \in Id, m \in QoS12 \cup {None} : OnItsWay(m, i)' <=> OnItsWay(m, i)
    BY <1>1, <1>6 DEF OnItsWay
  <1>8. \A m \in QoS12 : (HasRead(m)' <=> HasRead(m)) /\ (Taken(m)' <=> Taken(m))
    BY <1>1, <1>4 DEF HasRead, Taken
  <1>9. QED BY <1>1, <1>2, <1>4, <1>5, <1>7, <1>8

\* Steps of the reader that leave the ack queue alone.
LEMMA AckingTrace ==
  ASSUME IInv, Shape, Places, TraceOK, SafeOK, Read \/ Load \/ Free \/ Raise \/ Respond
  PROVE  TraceOK' /\ SafeOK'
  <1>1. Acking
    BY DEF Acking
  <1>2. UNCHANGED <<pubOut, overrun>>
    BY DEF Read, Load, Free, Raise, Respond, pastVars
  <1>3. /\ \A i \in Id : In(gMessages', i) \/ In(acks', i) \/ Handles(i)' => In(gMessages, i) \/ In(acks, i) \/ Handles(i)
        /\ \A i \in Id : GivesBack(i) => GivesBack(i)'
        /\ \A i \in Id : GivesBack(i)' /\ (i \in inUse' => Keeps(i)) => Answered(i)
    <2>1. CASE Read
      <3>1. /\ UNCHANGED <<gMessages, inUse>> /\ pc[Reader] = "idle" /\ pc'[Reader] = "load"
            /\ acks # <<>> /\ ack' = Head(acks) /\ acks' = Tail(acks) /\ acks \in Seq(AckPacket)
        BY <2>1, Apart, PcGoto DEF Read, queueVars, flowVars, Shape, PacketsOK
      <3>2. \A i \in Id : In(acks, i) <=> In(acks', i) \/ ack'.id = i
        BY <3>1, InTail
      <3>3. \A i \in Id : (Handles(i)' => ack'.id = i) /\ ~GivesBack(i) /\ ~GivesBack(i)'
        BY <3>1 DEF Handles, GivesBack
      <3>4. QED BY <3>1, <3>2, <3>3
    <2>2. CASE Load
      <3>1. /\ UNCHANGED <<gMessages, acks, ack>> /\ pc[Reader] = "load"
            /\ \/ ack.type = "PUBREC" /\ pc'[Reader] = "delete"
               \/ ack.type # "PUBREC" /\ pc'[Reader] \in {"free", "idle"}
        BY <2>2, Apart, PcGoto DEF Load, queueVars, netVars
      <3>2. \A i \in Id : (Handles(i)' => Handles(i)) /\ ~GivesBack(i) /\ ~GivesBack(i)'
        BY <3>1 DEF Handles, GivesBack
      <3>3. QED BY <3>1, <3>2
    <2>3. CASE Free
      <3>1. /\ UNCHANGED <<gMessages, acks, ack>> /\ pc[Reader] = "free" /\ pc'[Reader] = "raise"
            /\ ack.type # "PUBREC"
        BY <2>3, Apart, PcGoto DEF Free, queueVars, netVars, Shape, ReaderOK
      <3>2. \A i \in Id : ~Handles(i)' /\ ~GivesBack(i) /\ (GivesBack(i)' => Handles(i))
        BY <3>1 DEF Handles, GivesBack
      <3>3. QED BY <3>1, <3>2 DEF Answered
    <2>4. CASE Raise
      <3>1. /\ UNCHANGED <<gMessages, acks, ack,
                           inUse>> /\ pc[Reader] = "raise" /\ pc'[Reader] \in {"run", "delete"}
            /\ ack.type # "PUBREC"
        BY <2>4, Apart, PcGoto DEF Raise, queueVars, netVars, Shape, ReaderOK
      <3>2. \A i \in Id : ~Handles(i)' /\ (GivesBack(i)' <=> GivesBack(i))
        BY <3>1 DEF Handles, GivesBack
      <3>3. QED BY <3>1, <3>2 DEF Answered
    <2>5. CASE Respond
      <3>1. /\ UNCHANGED <<acks, ack, inUse>> /\ pc[Reader] = "respond" /\ pc'[Reader] = "run"
            /\ gMessages' = Append(gMessages, Rel(ack.id)) /\ ack.type = "PUBREC" /\ ack.id \in Id
        BY <2>5, Apart, PcGoto
           DEF Respond, flowVars, netVars, Shape, ReaderOK, PacketsOK, AckPacket
      <3>2. \A i \in Id : In(gMessages', i) <=> In(gMessages, i) \/ ack.id = i
        <4> DEFINE Rels == [type : {"PUBREL"}, msg : {None}, id : Id]
                   p == Rel(ack.id)
        <4>1. p \in Rels /\ p.id = ack.id /\ gMessages \in Seq(Rels) /\ gMessages' = Append(gMessages, p)
          BY <3>1 DEF Rel, Shape, PacketsOK
        <4> HIDE DEF Rels, p
        <4>2. QED BY <4>1, InAppend
      <3>3. \A i \in Id : ~Handles(i)' /\ (ack.id = i => Handles(i)) /\ ~GivesBack(i) /\ ~GivesBack(i)'
        BY <3>1 DEF Handles, GivesBack
      <3>4. QED BY <3>1, <3>2, <3>3
    <2>6. QED BY <2>1, <2>2, <2>3, <2>4, <2>5
  <1>4. \A i \in Id : Answered(i)' => Answered(i)
    <2>1. \A i \in Id : (Keeps(i)' <=> Keeps(i)) /\ (OnItsWay(None, i)' <=> OnItsWay(None, i))
      BY <1>1, AckingSame
    <2>2. QED BY <1>3, <2>1 DEF Answered
  <1>5. TraceOK'
    BY <1>1, <1>2, <1>3, <1>4, AckingSame, TraceStill
  <1>6. SafeOK'
    BY <1>1, <1>2, AckingSame, SafeStill
  <1>7. QED BY <1>5, <1>6

\* Steps of the reader that take an entry out of the ack queue: of a publish that
\* the client has read, or to what is lost.
LEMMA EntryTrace ==
  ASSUME IInv, Shape, Places, TraceOK, SafeOK, Acking,
         \A i \in Id : /\ Answered(i)' => Answered(i)
                       /\ Keeps(i) /\ pubOut'[i] # None => GivesBack(i)'
                       /\ \A m \in QoS12 : /\ UnderId(m, i)' => UnderId(m, i)
                                           /\ UnderId(m, i) => UnderId(m, i)' \/ HasRead(m)
                                           /\ UnderId(m, i) /\ OnItsWay(m, i) => UnderId(m, i)' \/ Keeps(i)
  PROVE  TraceOK' /\ SafeOK'
  <1>1. CarriedOK'
    BY AckingSame DEF TraceOK, CarriedOK
  <1>2. AnsweredOK'
    BY AckingSame DEF TraceOK, AnsweredOK
  <1>3. KeepsOK'
    BY AckingSame DEF KeepsOK
  <1>4. \A m \in QoS12 : Safe(m) => Safe(m)'
    BY AckingSame DEF Safe
  <1>5. SafeOK'
    BY <1>4, AckingSame DEF SafeOK
  <1>6. QED BY <1>1, <1>2, <1>3, <1>5 DEF TraceOK

\* What release deletes the client has read, or is noted as overrun.
LEMMA DeleteTrace ==
  ASSUME IInv, Shape, Places, TraceOK, SafeOK, Delete
  PROVE  TraceOK' /\ SafeOK'
  <1>1. Acking
    BY DEF Acking
  <1>2. /\ UNCHANGED <<gMessages, acks, ack, inUse>> /\ pc[Reader] = "delete"
        /\ \/ ack.type = "PUBREC" /\ pc'[Reader] = "rel"
           \/ ack.type # "PUBREC" /\ pc'[Reader] = "idle"
    BY Apart, PcGoto DEF Delete, queueVars, flowVars, netVars
  <1>3. PICK j \in Id : j = ack.id
    BY AckingStill
  <1>4. /\ pubOut'[j] = None /\ \A i \in Id \ {j} : pubOut'[i] = pubOut[i] /\ overrun'[i] = overrun[i]
        /\ Overruns => overrun'[j] = pubOut[j]
        /\ ~Overruns => overrun'[j] = overrun[j]
    BY <1>3 DEF Delete, Shape, FlowOK
  <1>5. closing # "closed"
    BY <1>1, AckingSame
  <1>6. \A i \in Id : (Handles(i)' => Handles(i)) /\ ~GivesBack(i)' /\ (GivesBack(i) => i = j)
    BY <1>2, <1>3 DEF Handles, GivesBack
  <1>7. \A i \in Id : Answered(i)' => Answered(i)
    BY <1>1, <1>2, <1>6, AckingSame DEF Answered
  <1>8. \A i \in Id : Keeps(i) => pubOut'[i] = None
    BY <1>4, <1>6 DEF TraceOK, KeepsOK
  <1>9. \A i \in Id \ {j}, m \in QoS12 : UnderId(m, i)' <=> UnderId(m, i)
    BY <1>4 DEF UnderId
  <1>10. Overruns => overrun[j] = None
    <2>1. Overruns => GivesBack(j)
      BY <1>2, <1>3 DEF Overruns, GivesBack
    <2>2. QED BY <2>1 DEF Places, IdsOK
  <1>11. ASSUME NEW m \in QoS12
         PROVE  (UnderId(m, j)' => UnderId(m, j)) /\ (UnderId(m, j) => UnderId(m, j)' \/ ~Overruns)
    BY <1>4, <1>10, WriterAssumption DEF UnderId, QoS12, Pub
  <1>12. CASE Overruns
    BY <1>1, <1>7, <1>8, <1>9, <1>11, <1>12, EntryTrace
  <1>13. CASE ~Overruns
    <2>1. Answered(j)
      <3>1. CASE ack.type = "PUBREC"
        BY <1>2, <1>3, <3>1 DEF Answered, Handles
      <3>2. CASE ack.type # "PUBREC"
        BY <1>2, <1>3, <1>13, <3>2 DEF Answered, GivesBack, Overruns
      <3>3. QED BY <3>1, <3>2
    <2>2. \A m \in QoS12 : UnderId(m, j) => HasRead(m)
      BY <1>5, <2>1 DEF TraceOK, AnsweredOK
    <2>3. \A m \in QoS12 : OnItsWay(m, j) => Keeps(j)
      <3>1. CASE ack.type = "PUBREC"
        <4>1. ~InHands(batch, j) /\ ~InHands(buf, j) /\ ~In(Unread, j)
          BY <1>2, <1>3, <3>1 DEF Places, OnePlace, Handles
        <4>2. QED BY <4>1, CarriedIn DEF OnItsWay, HandsCarry, InHands
      <3>2. CASE ack.type # "PUBREC" /\ ~Keeps(j)
        <4>1. ~UnderWay(j)
          BY <1>3, <1>13, <3>2 DEF Overruns, Places, IdsOK
        <4>2. QED BY <4>1, CarriedIn DEF UnderWay, OnItsWay, HandsCarry, InHands
      <3>3. QED BY <3>1, <3>2
    <2>4. QED BY <1>1, <1>7, <1>8, <1>9, <1>11, <2>2, <2>3, EntryTrace
  <1>14. QED BY <1>12, <1>13

\* The client has read the publish whose place the PUBREL gets.
LEMMA StoreRelTrace ==
  ASSUME IInv, Shape, Places, TraceOK, SafeOK, StoreRel
  PROVE  TraceOK' /\ SafeOK'
  <1>1. Acking
    BY DEF Acking
  <1>2. /\ UNCHANGED <<gMessages, acks, ack,
                       inUse>> /\ pc[Reader] = "rel" /\ pc'[Reader] = "respond"
        /\ ack.type = "PUBREC"
    BY Apart, PcGoto DEF StoreRel, queueVars, flowVars, netVars, Shape, ReaderOK
  <1>3. PICK j \in Id : j = ack.id
    BY AckingStill
  <1>4. /\ pubOut'[j] = Pubrel /\ overrun'[j] = None
        /\ \A i \in Id \ {j} : pubOut'[i] = pubOut[i] /\ overrun'[i] = overrun[i]
    BY <1>3 DEF StoreRel, RelKept, Shape, FlowOK
  <1>5. \A i \in Id : /\ Handles(i)' <=> Handles(i)
                      /\ ~GivesBack(i) /\ ~GivesBack(i)'
    BY <1>2 DEF Handles, GivesBack
  <1>6. \A i \in Id : Answered(i)' => Answered(i)
    BY <1>1, <1>2, <1>5, AckingSame DEF Answered
  <1>7. Handles(j)
    BY <1>2, <1>3 DEF Handles
  <1>8. ~InHands(batch, j) /\ ~InHands(buf, j) /\ ~In(Unread, j)
    BY <1>7 DEF Places, OnePlace
  <1>9. \A i \in Id : Keeps(i) => pubOut'[i] = None
    <2>1. ~Keeps(j)
      BY <1>8, KeepsInHands
    <2>2. QED BY <1>4, <1>5, <2>1 DEF TraceOK, KeepsOK
  <1>10. \A i \in Id \ {j}, m \in QoS12 : UnderId(m, i)' <=> UnderId(m, i)
    BY <1>4 DEF UnderId
  <1>11. \A m \in QoS12 : ~UnderId(m, j)'
    BY <1>4, WriterAssumption DEF UnderId, QoS12, Pub
  <1>12. \A m \in QoS12 : UnderId(m, j) => HasRead(m)
    BY <1>1, <1>7, AckingSame DEF TraceOK, AnsweredOK, Answered
  <1>13. \A m \in QoS12 : ~OnItsWay(m, j)
    BY <1>8, CarriedIn DEF OnItsWay, HandsCarry, InHands
  <1>14. QED BY <1>1, <1>6, <1>9, <1>10, <1>11, <1>12, <1>13, EntryTrace

\* The other steps, and all of them put together.
LEMMA GoroutineTrace ==
  ASSUME IInv, Shape, Places, Shape', OrderOK, TraceOK, SafeOK, NEW r \in Routine, Goroutine(r)
  PROVE  TraceOK' /\ SafeOK'
  <1>1. CASE PopGeneral(r)
    BY <1>1, PopGeneralTrace
  <1>2. CASE TakeQoS12(r)
    BY <1>2, TakeQoS12Trace
  <1>3. CASE Keep(r)
    BY <1>3, KeepTrace
  <1>4. CASE PopQoS0(r)
    BY <1>4, PopQoS0Trace
  <1>5. CASE Write(r)
    BY <1>5, WriteTrace
  <1>6. CASE Flush(r)
    BY <1>6, FlushTrace
  <1>7. CASE Sync(r) \/ Check(r) \/ NoQoS12(r) \/ NothingLeft(r) \/ Leave(r) \/ Recheck(r) \/ Done(r)
    <2>1. /\ UNCHANGED <<gMessages, qos12Messages, batch, buf, wire, read, acks, ack, inUse,
                         pubOut, overrun>>
          /\ UNCHANGED <<stored, passed>>
          /\ closing' = closing \/ (closing = "open" /\ closing' = "begun")
      BY <1>7 DEF Sync, Check, NoQoS12, NothingLeft, Leave, Recheck, Done,
                  queueVars, flowVars, outVars, closeVars, netVars, pastVars
    <2>2. PICK step \in Steps \ {"keep"} : Goto(r, step) /\ pc[r] # "keep"
      BY <1>7 DEF Sync, Check, NoQoS12, NothingLeft, Leave, Recheck, Done, Steps
    <2>3. /\ pc'[Reader] = pc[Reader] /\ \A s \in Routine : (pc'[s] = "keep") <=> (pc[s] = "keep")
          /\ \A m \in QoS12 : pc'[m] = pc[m]
      BY <2>2, Apart, PcGoto DEF QoS12, Pub
    <2>4. TraceOK' /\ \A m \in QoS12 : (Taken(m)' <=> Taken(m)) /\ (HasRead(m)' <=> HasRead(m))
      BY <2>1, <2>3, ReaderSame, QuietTrace
    <2>5. SafeOK'
      BY <2>1, <2>3, <2>4, SafeStill
    <2>6. QED BY <2>4, <2>5
  <1>8. QED BY <1>1, <1>2, <1>3, <1>4, <1>5, <1>6, <1>7 DEF Goroutine

LEMMA RunTrace ==
  ASSUME IInv, TraceOK, SafeOK, NEW t \in Caller, Run(t)
  PROVE  TraceOK' /\ SafeOK'
  <1>1. UNCHANGED <<gMessages, qos12Messages, batch, buf, wire, read, acks, inUse, pubOut,
                    overrun, closing, stored, passed>>
    BY DEF Run, RunChecks, RunClaims, queueVars, flowVars, outVars, closeVars, netVars, pastVars
  <1>2. /\ pc[t] \in {"run", "claim"} /\ pc'[t] \in {"claim", AfterRun(t)}
        /\ \A s \in Caller \ {t} : pc'[s] = pc[s] \/ (s \in Routine /\ pc[s] = "idle" /\ pc'[s] = "sync")
    BY RunMoves
  <1>3. \A s \in Routine : (pc'[s] = "keep") <=> (pc[s] = "keep")
    BY <1>2, Apart, AfterRunIs
  <1>4. \A m \in QoS12 : (pc'[m] = "idle") <=> (pc[m] = "idle")
    BY <1>2, Apart, AfterRunIs DEF QoS12, Pub
  <1>5. TraceOK' /\ \A m \in QoS12 : (Taken(m)' <=> Taken(m)) /\ (HasRead(m)' <=> HasRead(m))
    BY <1>1, <1>3, RunReader, QuietTrace
  <1>6. SafeOK'
    BY <1>1, <1>4, <1>5, SafeStill
  <1>7. QED BY <1>5, <1>6

LEMMA OtherTrace ==
  ASSUME IInv, TraceOK, SafeOK,
         Start \/ Close \/ Offline \/ Quit \/ Stopped \/ PassBy \/ Break \/ UNCHANGED vars
  PROVE  TraceOK' /\ SafeOK'
  <1> USE DEF Start, Close, Offline, Quit, Stopped, PassBy, Break, vars,
              queueVars, flowVars, outVars, closeVars, netVars, pastVars
  <1>1. /\ UNCHANGED <<gMessages, qos12Messages, batch, buf, wire, read, acks, ack, inUse,
                       pubOut, overrun, stored>>
        /\ passed => passed'
        /\ closing' = closing \/ (closing \notin {"queues", "closed"} /\ closing' \notin {"queues", "closed"})
    OBVIOUS
  <1>2. pc' = pc \/ Goto(Starter, "run")
    OBVIOUS
  <1>3. /\ pc'[Reader] = pc[Reader] /\ \A s \in Routine : pc'[s] = pc[s]
        /\ \A m \in QoS12 : pc'[m] = pc[m]
    BY <1>2, Apart, PcGoto DEF QoS12, Pub
  <1>4. TraceOK' /\ \A m \in QoS12 : (Taken(m)' <=> Taken(m)) /\ (HasRead(m)' <=> HasRead(m))
    BY <1>1, <1>3, ReaderSame, QuietTrace
  <1>5. SafeOK'
    BY <1>1, <1>3, <1>4, SafeStill
  <1>6. QED BY <1>4, <1>5

\* What is accepted is in the queue.
LEMMA SendTrace ==
  ASSUME IInv, Shape, TraceOK, SafeOK, NEW n \in Pub, Send(n)
  PROVE  TraceOK' /\ SafeOK'
  <1>1. /\ UNCHANGED <<gMessages, batch, buf, wire, read, acks, ack, inUse, pubOut, overrun,
                       closing, stored, passed>>
        /\ closing # "closed" /\ Goto(n, "run")
        /\ n \notin QoS0 => qos12Messages' = Append(qos12Messages, n)
        /\ n \in QoS0 => qos12Messages' = qos12Messages
    BY DEF Send, flowVars, outVars, closeVars, netVars, pastVars
  <1>2. pc'[Reader] = pc[Reader] /\ \A s \in Routine : pc'[s] = pc[s]
    BY <1>1, Apart, PcGoto
  <1>3. \A m \in QoS12 : m = n \/ pc'[m] = pc[m]
    BY <1>1, Apart, PcGoto DEF QoS12, Pub
  <1>4. TraceOK' /\ \A m \in QoS12 : (Taken(m)' <=> Taken(m)) /\ (HasRead(m)' <=> HasRead(m))
    BY <1>1, <1>2, ReaderSame, QuietTrace
  <1>5. /\ \A m \in QoS12 : m \in Elems(qos12Messages) => m \in Elems(qos12Messages')
        /\ n \in QoS12 => n \in Elems(qos12Messages')
    <2>1. CASE n \in QoS0
      <3>1. n \notin QoS12
        BY <2>1, WriterAssumption DEF QoS12
      <3>2. QED BY <1>1, <2>1, <3>1
    <2>2. CASE n \notin QoS0
      <3>1. n \in QoS12 /\ qos12Messages \in Seq(QoS12)
        BY <2>2 DEF QoS12, Pub, Shape, PacketsOK
      <3>2. Elems(qos12Messages') = Elems(qos12Messages) \cup {n}
        <4>1. qos12Messages' = Append(qos12Messages, n)
          BY <1>1, <2>2
        <4>2. QED BY ONLY <3>1, <4>1, ElemsAppend
      <3>3. QED BY <3>2
    <2>3. QED BY <2>1, <2>2
  <1>6. \A m \in QoS12 : Safe(m) => Safe(m)'
    <2>1. \A m \in QoS12, i \in Id : UnderId(m, i)' <=> UnderId(m, i)
      BY <1>1 DEF UnderId
    <2>2. QED BY <1>1, <1>4, <1>5, <2>1 DEF Safe
  <1>7. n \in QoS12 => Safe(n)'
    BY <1>5 DEF Safe
  <1>8. SafeOK'
    BY <1>1, <1>3, <1>6, <1>7 DEF SafeOK
  <1>9. QED BY <1>4, <1>8

\* The close collects the queue, and then the ack queue (writer.go:489-550).
LEMMA CollectQueuesTrace ==
  ASSUME IInv, Shape, TraceOK, SafeOK, CollectQueues
  PROVE  TraceOK' /\ SafeOK'
  <1>1. /\ UNCHANGED <<gMessages, batch, buf, wire, read, acks, ack, inUse, pubOut, overrun,
                       passed, pc>>
        /\ closing = "stopped" /\ closing' = "queues"
        /\ stored' = [stored EXCEPT !.qos12 = Elems(qos12Messages)]
    BY DEF CollectQueues, flowVars, outVars, netVars, pastVars, Elems
  <1>2. TraceOK' /\ \A m \in QoS12 : (Taken(m)' <=> Taken(m)) /\ (HasRead(m)' <=> HasRead(m))
    BY <1>1, ReaderSame, QuietTrace
  <1>3. stored'.qos12 = Elems(qos12Messages)
    BY <1>1 DEF Shape, FlowOK
  <1>4. \A m \in QoS12 : Safe(m) => Safe(m)'
    <2>1. \A m \in QoS12, i \in Id : UnderId(m, i)' <=> UnderId(m, i)
      BY <1>1 DEF UnderId
    <2>2. QED BY <1>1, <1>2, <1>3, <2>1 DEF Safe
  <1>5. SafeOK'
    BY <1>1, <1>4 DEF SafeOK
  <1>6. QED BY <1>2, <1>5

LEMMA CollectUnAckTrace ==
  ASSUME IInv, Shape, TraceOK, SafeOK, CollectUnAck
  PROVE  TraceOK' /\ SafeOK'
  <1>1. /\ UNCHANGED <<qos12Messages, batch, wire, read, overrun, pc>>
        /\ closing = "queues" /\ closing' = "closed"
        /\ stored' = [stored EXCEPT !.unAck = {pubOut[i] : i \in Id} \ {None}]
        /\ pubOut' = [i \in Id |-> None]
    BY DEF CollectUnAck, queueVars, outVars, netVars, pastVars
  <1>2. TraceOK'
    BY <1>1 DEF TraceOK, CarriedOK, AnsweredOK, KeepsOK
  <1>3. stored'.qos12 = stored.qos12 /\ stored'.unAck = {pubOut[i] : i \in Id} \ {None}
    BY <1>1 DEF Shape, FlowOK
  <1>4. \A m \in QoS12 : (Taken(m)' <=> Taken(m)) /\ (HasRead(m)' <=> HasRead(m))
    BY <1>1 DEF Taken, HasRead
  <1>5. \A m \in QoS12 : m # None
    BY WriterAssumption DEF QoS12, Pub
  <1>6. \A m \in QoS12, i \in Id : UnderId(m, i) => UnderId(m, i)' \/ m \in stored'.unAck
    BY <1>1, <1>3, <1>5 DEF UnderId
  <1>7. \A m \in QoS12 : Safe(m) => Safe(m)'
    BY <1>1, <1>3, <1>4, <1>6 DEF Safe
  <1>8. SafeOK'
    BY <1>1, <1>7 DEF SafeOK
  <1>9. QED BY <1>2, <1>8

LEMMA InitTrace ==
  ASSUME Init
  PROVE  TraceOK /\ SafeOK
  <1> USE DEF Init
  <1>1. Unread = <<>>
    BY DEF Unread
  <1>2. \A i \in Id, m \in QoS12 : ~OnItsWay(m, i)
    BY <1>1, CarriedEmpty DEF OnItsWay, HandsCarry
  <1>3. \A i \in Id, m \in QoS12 : ~UnderId(m, i)
    BY WriterAssumption DEF UnderId, QoS12, Pub
  <1>4. \A i \in Id : pubOut[i] = None
    OBVIOUS
  <1>5. \A m \in QoS12 : pc[m] = "idle"
    BY Apart DEF QoS12, Pub
  <1>6. TraceOK
    BY <1>2, <1>3, <1>4 DEF TraceOK, CarriedOK, AnsweredOK, KeepsOK
  <1>7. SafeOK
    BY <1>4, <1>5 DEF SafeOK
  <1>8. QED BY <1>6, <1>7

LEMMA NextTrace ==
  ASSUME IInv, Shape, Places, OrderOK, TraceOK, SafeOK, [Next]_vars
  PROVE  TraceOK' /\ SafeOK'
  <1>1. Shape'
    BY NextPlaces
  <1>2. CASE \E t \in Caller : Run(t)
    BY <1>2, RunTrace
  <1>3. CASE \E m \in Pub : Send(m)
    BY <1>3, SendTrace
  <1>4. CASE \E r \in Routine : Goroutine(r)
    BY <1>1, <1>4, GoroutineTrace
  <1>5. CASE Acking
    BY <1>5, AckingTrace, DeleteTrace, StoreRelTrace DEF Acking
  <1>6. CASE Start \/ Close \/ Offline \/ Quit \/ Stopped \/ PassBy \/ Break \/ UNCHANGED vars
    BY <1>6, OtherTrace
  <1>7. CASE CollectQueues \/ CollectUnAck
    BY <1>7, CollectQueuesTrace, CollectUnAckTrace
  <1>8. CASE ClientReads
    BY <1>8, ClientReadsTrace
  <1>9. QED
    BY <1>2, <1>3, <1>4, <1>5, <1>6, <1>7, <1>8 DEF Next, Closing, Over

\* Once the close is over every QoS 1 or 2 publish accepted is among the packets
\* to be persisted, has been read by the client, or was deleted with the packet
\* that had its id before (writer.go:267-290, 489-550, ack.go:23-32,
\* connection.go:674-683, 825-870).
THEOREM NothingLostCorrect == Spec => []NothingLost
  <1>1. Init => TraceOK /\ SafeOK
    BY InitTrace
  <1>2. (IInv /\ Shape /\ Places) /\ (AcceptedOK /\ OrderOK) /\ (TraceOK /\ SafeOK) /\ [Next]_vars
          => (TraceOK /\ SafeOK)'
    BY NextTrace
  <1>3. ASSUME IInv, OrderOK, SafeOK PROVE NothingLost
    <2>1. ASSUME closing = "closed", ~passed, NEW m \in QoS12, pc[m] = "ran"
          PROVE  HasRead(m) \/ m \in stored.qos12 \cup stored.unAck \/ \E i \in Id : overrun[i] = m
      <3>1. Safe(m)
        BY <1>3, <2>1 DEF SafeOK
      <3>2. m \notin Elems(qos12Messages)
        BY <1>3, <2>1, ElemsEmpty DEF OrderOK, SentUpTo, Waiting
      <3>3. ~Taken(m)
        BY <1>3, <2>1 DEF IInv, CloseOK, Late, Busy, Taken
      <3>4. \A i \in Id : pubOut[i] = None /\ m # None
        BY <1>3, <2>1, WriterAssumption DEF SafeOK, QoS12, Pub
      <3>5. QED BY <2>1, <3>1, <3>2, <3>3, <3>4 DEF Safe, UnderId
    <2>2. QED BY <2>1 DEF NothingLost, QoS12
  <1>4. QED BY <1>1, <1>2, <1>3, PlacesInductive, OrderInductive, PTL DEF Spec
=============================================================================

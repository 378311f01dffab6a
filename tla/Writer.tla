------------------------------- MODULE Writer -------------------------------
(***************************************************************************)
(* The writer of one connection (connection/writer.go, flowControl.go,     *)
(* ack.go) from SignalOnline to the collecting of what it has not sent.    *)
(*                                                                         *)
(* Whoever has something to send puts it into a queue and calls run, which *)
(* starts a goroutine unless one is running: the publishers (one call of   *)
(* send per publish, named by the publish), the reader of the connection   *)
(* when an acknowledgement makes room, Acknowledge when the connection     *)
(* starts, and the goroutine itself when it finds more as it ends. Each    *)
(* such caller, and each goroutine, has a program counter.                 *)
(*                                                                         *)
(* Not here: reloading what an earlier connection left (Delivery), the     *)
(* MQTT 5 features (expiry, topic aliases, maximum packet size).           *)
(***************************************************************************)
EXTENDS Integers, Sequences, FiniteSets

CONSTANTS
  QoS0, QoS1, QoS2,  \* the publishes there are, by their QoS
  Quota,             \* flow.quota of the connection: 0xFFFF up to v3.1.1
  MaxId,             \* the largest packet id: 0xFFFF
  Routine,           \* names for the goroutines that send
  Reader, Starter,   \* the callers that are not publishers
  None,              \* no packet
  Pubrel,            \* a PUBREL in the ack queue
  Breaks             \* the network may break

Pub == QoS0 \cup QoS1 \cup QoS2
Id == 1 .. MaxId
Caller == Pub \cup Routine \cup {Reader, Starter}

ASSUME WriterAssumption ==
  /\ Quota \in Nat \ {0} /\ MaxId \in Nat \ {0} /\ Quota <= MaxId
  /\ QoS0 \cap QoS1 = {} /\ QoS0 \cap QoS2 = {} /\ QoS1 \cap QoS2 = {}
  /\ Pub \cap Routine = {} /\ Reader # Starter
  /\ {Reader, Starter} \cap (Pub \cup Routine) = {}
  /\ None \notin Pub /\ Pubrel \notin Pub /\ None # Pubrel
  /\ Breaks \in BOOLEAN

\* A goroutine that ends and its successor.
ASSUME RoutineAssumption == IsFiniteSet(Routine) /\ \E r, s \in Routine : r # s

VARIABLES
  gMessages, qos0Messages, qos12Messages,  \* the queues
  quota, counter, inUse,                   \* flow: packets in flight, packet ids
  pubOut,     \* the ack queue: by packet id a publish, Pubrel or None
  running,    \* a goroutine is running or about to
  wgRunSync,  \* goroutines past their wait for the previous one
  wg,         \* goroutines that stop waits for
  quit,       \* quit is closed
  pc,         \* where each caller and goroutine is
  batch,      \* what each goroutine popped
  buf,        \* what is in its bufio.Writer
  failed,     \* its err # nil
  ack,        \* the acknowledgement the reader works on
  closing,    \* progress of the close: "open" until it begins
  passed,     \* the close has not waited for stop to end
  stored,     \* what getQueuedPackets returned: QoS 1 and 2, and UnAck
  broken,     \* the network is broken
  wire,       \* the packets that reached the client, in order
  read,       \* how many of them the client has read
  acks,       \* acknowledgements on their way back
  accepted,   \* the QoS 1 and 2 publishes, as they entered their queue
  overrun     \* by packet id: a publish deleted from the ack queue together with
              \* the packet that had its id before, or None

queueVars == <<gMessages, qos0Messages, qos12Messages>>
flowVars  == <<quota, counter, inUse>>
runVars   == <<running, wgRunSync, wg, quit>>
outVars   == <<batch, buf, failed>>
closeVars == <<closing, passed, stored>>
netVars   == <<broken, wire, read, acks>>
\* What the properties look back at; no step depends on it.
pastVars  == <<accepted, overrun>>
vars == <<queueVars, flowVars, pubOut, runVars, pc, outVars, ack, closeVars, netVars, pastVars>>

Publish(m, i) == [type |-> "PUBLISH", msg |-> m, id |-> i]
Rel(i)        == [type |-> "PUBREL", msg |-> None, id |-> i]
Ack(t, i)     == [type |-> t, id |-> i]

Packet == [type : {"PUBLISH"}, msg : Pub, id : Id \cup {0}]
            \cup [type : {"PUBREL"}, msg : {None}, id : Id]
AckPacket == [type : {"PUBACK", "PUBREC", "PUBCOMP"}, id : Id]

Init ==
  /\ gMessages = <<>> /\ qos0Messages = <<>> /\ qos12Messages = <<>>
  /\ quota = Quota /\ counter = 0 /\ inUse = {}
  /\ pubOut = [i \in Id |-> None]
  /\ running = FALSE /\ wgRunSync = 0 /\ wg = 0 /\ quit = FALSE
  /\ pc = [t \in Caller |-> "idle"]
  /\ batch = [r \in Routine |-> <<>>]
  /\ buf = [r \in Routine |-> <<>>]
  /\ failed = [r \in Routine |-> FALSE]
  /\ ack = Ack("PUBACK", 1)
  /\ closing = "open" /\ passed = FALSE /\ stored = [qos12 |-> {}, unAck |-> {}]
  /\ broken = FALSE /\ wire = <<>> /\ read = 0 /\ acks = <<>>
  /\ accepted = <<>> /\ overrun = [i \in Id |-> None]

Goto(t, step) == pc' = [pc EXCEPT ![t] = step]

isAlive == ~quit
quotaAvailable == quota > 0
qos12Available == quotaAvailable /\ qos12Messages # <<>>

packetsAvailable == gMessages # <<>> \/ qos0Messages # <<>> \/ qos12Available

-----------------------------------------------------------------------------
(* run, called from everywhere *)

\* Where a caller goes on after run: a publisher and the start are done, the
\* goroutine ends, the reader deletes the packet from the ack queue unless it
\* has just answered PUBREC.
AfterRun(t) ==
  CASE t \in Routine -> "done"
    [] t = Reader    -> IF ack.type = "PUBREC" THEN "idle" ELSE "delete"
    [] OTHER         -> "ran"

RunChecks(t) ==
  /\ pc[t] = "run"
  /\ Goto(t, IF isAlive THEN "claim" ELSE AfterRun(t))
  /\ UNCHANGED <<queueVars, flowVars, pubOut, runVars, outVars, ack, closeVars, netVars, pastVars>>

\* CompareAndSwap of running, wg.Add, go routine.
RunClaims(t) ==
  /\ pc[t] = "claim"
  /\ \/ /\ running
        /\ Goto(t, AfterRun(t))
        /\ UNCHANGED <<running, wg>>
     \/ /\ ~running
        /\ running' = TRUE
        /\ wg' = wg + 1
        /\ \E r \in Routine : /\ pc[r] = "idle"
                              /\ pc' = [pc EXCEPT ![r] = "sync", ![t] = AfterRun(t)]
  /\ UNCHANGED <<queueVars, flowVars, pubOut, wgRunSync, quit, outVars, ack, closeVars, netVars, pastVars>>

-----------------------------------------------------------------------------
(* The callers of send, and start *)

\* The subscriber hands a publish to the connection while it is online.
Send(m) ==
  /\ pc[m] = "idle"
  /\ closing \in {"open", "begun"}
  /\ IF m \in QoS0
     THEN /\ qos0Messages' = Append(qos0Messages, m)
          /\ UNCHANGED <<qos12Messages, pastVars>>
     ELSE /\ qos12Messages' = Append(qos12Messages, m)
          /\ accepted' = Append(accepted, m)
          /\ UNCHANGED qos0Messages
  /\ Goto(m, "run")
  /\ UNCHANGED <<gMessages, flowVars, pubOut, runVars, outVars, ack, closeVars, netVars, overrun>>

\* tx.start(true), with nothing persisted.
Start ==
  /\ pc[Starter] = "idle"
  /\ Goto(Starter, "run")
  /\ UNCHANGED <<queueVars, flowVars, pubOut, runVars, outVars, ack, closeVars, netVars, pastVars>>

-----------------------------------------------------------------------------
(* The goroutine *)

DoesNotWait == TRUE
PreviousDone == wgRunSync = 0

Sync(r) ==
  /\ pc[r] = "sync"
  /\ PreviousDone
  /\ Goto(r, "check")
  /\ UNCHANGED <<queueVars, flowVars, pubOut, runVars, outVars, ack, closeVars, netVars, pastVars>>

NotLeft == wg
Left == wg - 1

Check(r) ==
  /\ pc[r] = "check"
  /\ IF isAlive
     THEN /\ wgRunSync' = wgRunSync + 1
          /\ Goto(r, "general")
          /\ UNCHANGED wg
     ELSE /\ wg' = Left
          /\ Goto(r, "idle")
          /\ UNCHANGED wgRunSync
  /\ UNCHANGED <<queueVars, flowVars, pubOut, running, quit, outVars, ack, closeVars, netVars, pastVars>>

Popped(r, p) == batch' = [batch EXCEPT ![r] = Append(batch[r], p)]

\* popPackets: one packet of each queue.
PopGeneral(r) ==
  /\ pc[r] = "general"
  /\ Goto(r, IF isAlive THEN "qos12" ELSE "write")
  /\ IF isAlive /\ gMessages # <<>>
     THEN gMessages' = Tail(gMessages) /\ Popped(r, Head(gMessages))
     ELSE UNCHANGED <<gMessages, batch>>
  /\ UNCHANGED <<qos0Messages, qos12Messages, flowVars, pubOut, runVars, buf, failed, ack, closeVars, netVars, pastVars>>

\* flow.acquire: the first id after counter, going round and leaving out 0,
\* that is not in use.
Following(k) == ((counter + k - 1) % MaxId) + 1
Acquires(i) == \E k \in Id : i = Following(k) /\ \A l \in 1 .. k - 1 : Following(l) \in inUse

\* qos12PopPacket, up to SetPacketID. The ack queue gets the packet next.
TakeQoS12(r) ==
  /\ pc[r] = "qos12"
  /\ qos12Available
  /\ \E i \in Id \ inUse :
       /\ Acquires(i)
       /\ counter' = i
       /\ inUse' = inUse \cup {i}
       /\ Popped(r, Publish(Head(qos12Messages), i))
  /\ quota' = quota - 1
  /\ qos12Messages' = Tail(qos12Messages)
  /\ Goto(r, "keep")
  /\ UNCHANGED <<gMessages, qos0Messages, pubOut, runVars, buf, failed, ack, closeVars, netVars, pastVars>>

NoQoS12(r) ==
  /\ pc[r] = "qos12"
  /\ ~qos12Available
  /\ Goto(r, "qos0")
  /\ UNCHANGED <<queueVars, flowVars, pubOut, runVars, outVars, ack, closeVars, netVars, pastVars>>

NotKept(p) == pubOut
Kept(p) == [pubOut EXCEPT ![p.id] = p.msg]

Keep(r) ==
  /\ pc[r] = "keep"
  /\ pubOut' = Kept(batch[r][Len(batch[r])])
  /\ Goto(r, "qos0")
  /\ UNCHANGED <<queueVars, flowVars, runVars, outVars, ack, closeVars, netVars, pastVars>>

PopQoS0(r) ==
  /\ pc[r] = "qos0"
  /\ Goto(r, "write")
  /\ IF qos0Messages # <<>>
     THEN /\ qos0Messages' = Tail(qos0Messages)
          /\ Popped(r, Publish(Head(qos0Messages), 0))
     ELSE UNCHANGED <<qos0Messages, batch>>
  /\ UNCHANGED <<gMessages, qos12Messages, flowVars, pubOut, runVars, buf, failed, ack, closeVars, netVars, pastVars>>

\* What is written now comes after what the bufio.Writer still has.
Overtakes(r) == batch[r] \o buf[r]
Ready(r) == buf[r] \o batch[r]

Transmit(packets) == wire' = IF broken THEN wire ELSE wire \o packets

\* The bufio.Writer may have to flush. A broken network may only show later.
Write(r) ==
  /\ pc[r] = "write"
  /\ batch[r] # <<>>
  /\ batch' = [batch EXCEPT ![r] = <<>>]
  /\ \/ /\ buf' = [buf EXCEPT ![r] = Ready(r)]
        /\ Goto(r, "general")
        /\ UNCHANGED <<failed, wire>>
     \/ /\ Transmit(Ready(r))
        /\ buf' = [buf EXCEPT ![r] = <<>>]
        /\ Goto(r, "general")
        /\ UNCHANGED failed
     \/ /\ broken
        /\ failed' = [failed EXCEPT ![r] = TRUE]
        /\ Goto(r, "leave")
        /\ UNCHANGED <<buf, wire>>
  /\ UNCHANGED <<queueVars, flowVars, pubOut, runVars, ack, closeVars, broken, read, acks, pastVars>>

NothingLeft(r) ==
  /\ pc[r] = "write"
  /\ batch[r] = <<>>
  /\ Goto(r, "leave")
  /\ UNCHANGED <<queueVars, flowVars, pubOut, runVars, outVars, ack, closeVars, netVars, pastVars>>

\* The deferred function.
Leave(r) ==
  /\ pc[r] = "leave"
  /\ running' = FALSE
  /\ Goto(r, "flush")
  /\ UNCHANGED <<queueVars, flowVars, pubOut, wgRunSync, wg, quit, outVars, ack, closeVars, netVars, pastVars>>

Flush(r) ==
  /\ pc[r] = "flush"
  /\ IF ~failed[r] /\ isAlive THEN Transmit(buf[r]) ELSE UNCHANGED wire
  /\ buf' = [buf EXCEPT ![r] = <<>>]
  /\ Goto(r, "recheck")
  /\ UNCHANGED <<queueVars, flowVars, pubOut, runVars, batch, failed, ack, closeVars, broken, read, acks, pastVars>>

NoRecheck(r) == FALSE
Rechecks(r) == ~failed[r] /\ packetsAvailable

Recheck(r) ==
  /\ pc[r] = "recheck"
  /\ Goto(r, IF Rechecks(r) THEN "run" ELSE "done")
  /\ UNCHANGED <<queueVars, flowVars, pubOut, runVars, outVars, ack, closeVars, netVars, pastVars>>

\* wgRunSync.Done, wg.Done; a failure starts the close.
Done(r) ==
  /\ pc[r] = "done"
  /\ wgRunSync' = wgRunSync - 1
  /\ wg' = Left
  /\ failed' = [failed EXCEPT ![r] = FALSE]
  /\ closing' = IF failed[r] /\ closing = "open" THEN "begun" ELSE closing
  /\ Goto(r, "idle")
  /\ UNCHANGED <<queueVars, flowVars, pubOut, running, quit, batch, buf, ack, passed, stored, netVars, pastVars>>

-----------------------------------------------------------------------------
(* The reader: acknowledgements (onAck) *)

Read ==
  /\ pc[Reader] = "idle"
  /\ acks # <<>>
  /\ closing \in {"open", "begun"}
  /\ ack' = Head(acks)
  /\ acks' = Tail(acks)
  /\ Goto(Reader, "load")
  /\ UNCHANGED <<queueVars, flowVars, pubOut, runVars, outVars, closeVars, broken, wire, read, pastVars>>

\* ackQueue.release: Load. What is not there is ignored.
Load ==
  /\ pc[Reader] = "load"
  /\ Goto(Reader, CASE ack.type = "PUBREC" -> "delete"
                    [] ack.type # "PUBREC" /\ pubOut[ack.id] # None -> "free"
                    [] OTHER -> "idle")
  /\ UNCHANGED <<queueVars, flowVars, pubOut, runVars, outVars, ack, closeVars, netVars, pastVars>>

NotFreed == inUse
Freed == inUse \ {ack.id}

Free ==
  /\ pc[Reader] = "free"
  /\ inUse' = Freed
  /\ Goto(Reader, "raise")
  /\ UNCHANGED <<queueVars, quota, counter, pubOut, runVars, outVars, ack, closeVars, netVars, pastVars>>

NeverSignals == FALSE
Signals == quota + 1 = 1 /\ qos12Messages # <<>>

Raised == quota + 1

Raise ==
  /\ pc[Reader] = "raise"
  /\ quota' = Raised
  /\ Goto(Reader, IF Signals THEN "run" ELSE "delete")
  /\ UNCHANGED <<queueVars, counter, inUse, pubOut, runVars, outVars, ack, closeVars, netVars, pastVars>>

\* A goroutine has taken the id and comes to the ack queue next.
Keeps(i) == \E r \in Routine : pc[r] = "keep" /\ batch[r][Len(batch[r])].id = i

\* The id has been taken again since it was given back, and what is deleted is
\* the entry of its new packet.
Overruns == ack.type # "PUBREC" /\ ack.id \in inUse /\ ~Keeps(ack.id)

Delete ==
  /\ pc[Reader] = "delete"
  /\ pubOut' = [pubOut EXCEPT ![ack.id] = None]
  /\ overrun' = IF Overruns THEN [overrun EXCEPT ![ack.id] = pubOut[ack.id]] ELSE overrun
  /\ Goto(Reader, IF ack.type = "PUBREC" THEN "rel" ELSE "idle")
  /\ UNCHANGED <<queueVars, flowVars, runVars, outVars, ack, closeVars, netVars, accepted>>

RelNotKept == pubOut
RelKept == [pubOut EXCEPT ![ack.id] = Pubrel]

StoreRel ==
  /\ pc[Reader] = "rel"
  /\ pubOut' = RelKept
  /\ overrun' = [overrun EXCEPT ![ack.id] = None]
  /\ Goto(Reader, "respond")
  /\ UNCHANGED <<queueVars, flowVars, runVars, outVars, ack, closeVars, netVars, accepted>>

Respond ==
  /\ pc[Reader] = "respond"
  /\ gMessages' = Append(gMessages, Rel(ack.id))
  /\ Goto(Reader, "run")
  /\ UNCHANGED <<qos0Messages, qos12Messages, flowVars, pubOut, runVars, outVars, ack, closeVars, netVars, pastVars>>

-----------------------------------------------------------------------------
(* The close: onConnectionCloseStage2 *)

\* Somebody closes the connection: the reader, the server or a takeover.
Close ==
  /\ closing = "open"
  /\ closing' = "begun"
  /\ UNCHANGED <<queueVars, flowVars, pubOut, runVars, pc, outVars, ack, passed, stored, netVars, pastVars>>

\* rx.shutdown waits for the reader, SignalOffline for publishers in send.
Offline ==
  /\ closing = "begun"
  /\ pc[Reader] = "idle"
  /\ \A m \in Pub : pc[m] \in {"idle", "ran"}
  /\ closing' = "offline"
  /\ UNCHANGED <<queueVars, flowVars, pubOut, runVars, pc, outVars, ack, passed, stored, netVars, pastVars>>

\* tx.stop: wgStarted.Wait, close(quit), wg.Wait.
Quit ==
  /\ closing = "offline"
  /\ pc[Starter] = "ran"
  /\ quit' = TRUE
  /\ closing' = "quit"
  /\ UNCHANGED <<queueVars, flowVars, pubOut, running, wgRunSync, wg, pc, outVars, ack, passed, stored, netVars, pastVars>>

NobodyAwaited == TRUE
AllLeft == wg = 0

Stopped ==
  /\ closing = "quit"
  /\ AllLeft
  /\ closing' = "stopped"
  /\ UNCHANGED <<queueVars, flowVars, pubOut, runVars, pc, outVars, ack, passed, stored, netVars, pastVars>>

\* onStop is a Once: when the reader is in it because of a DISCONNECT, Stage2
\* goes on without waiting for the end of the stop.
PassBy ==
  /\ closing = "quit"
  /\ closing' = "stopped"
  /\ passed' = TRUE
  /\ UNCHANGED <<queueVars, flowVars, pubOut, runVars, pc, outVars, ack, stored, netVars, pastVars>>

\* getQueuedPackets: the queues, then the ack queue.
CollectQueues ==
  /\ closing = "stopped"
  /\ stored' = [stored EXCEPT !.qos12 = {qos12Messages[k] : k \in DOMAIN qos12Messages}]
  /\ qos12Messages' = <<>>
  /\ qos0Messages' = <<>>
  /\ closing' = "queues"
  /\ UNCHANGED <<gMessages, flowVars, pubOut, runVars, pc, outVars, ack, passed, netVars, pastVars>>

CollectUnAck ==
  /\ closing = "queues"
  /\ stored' = [stored EXCEPT !.unAck = {pubOut[i] : i \in Id} \ {None}]
  /\ pubOut' = [i \in Id |-> None]
  /\ closing' = "closed"
  /\ UNCHANGED <<queueVars, flowVars, runVars, pc, outVars, ack, passed, netVars, pastVars>>

-----------------------------------------------------------------------------
(* The network and the client *)

Break ==
  /\ Breaks
  /\ ~broken
  /\ broken' = TRUE
  /\ UNCHANGED <<queueVars, flowVars, pubOut, runVars, pc, outVars, ack, closeVars, wire, read, acks, pastVars>>

Reply(p) ==
  CASE p.type = "PUBREL" -> <<Ack("PUBCOMP", p.id)>>
    [] p.msg \in QoS1    -> <<Ack("PUBACK", p.id)>>
    [] p.msg \in QoS2    -> <<Ack("PUBREC", p.id)>>
    [] OTHER             -> <<>>

ClientReads ==
  /\ read < Len(wire)
  /\ read' = read + 1
  /\ acks' = acks \o Reply(wire[read + 1])
  /\ UNCHANGED <<queueVars, flowVars, pubOut, runVars, pc, outVars, ack, closeVars, broken, wire, pastVars>>

-----------------------------------------------------------------------------

Run(t) == RunChecks(t) \/ RunClaims(t)

Goroutine(r) ==
  \/ Sync(r) \/ Check(r) \/ PopGeneral(r) \/ TakeQoS12(r) \/ NoQoS12(r) \/ Keep(r) \/ PopQoS0(r) \/ Write(r)
  \/ NothingLeft(r) \/ Leave(r) \/ Flush(r) \/ Recheck(r) \/ Done(r)

Acking == Read \/ Load \/ Free \/ Raise \/ Delete \/ StoreRel \/ Respond

Closing == Offline \/ Quit \/ Stopped \/ CollectQueues \/ CollectUnAck

\* All is over. Whatever else is under way at that moment may go on.
Over == closing = "closed" /\ UNCHANGED vars

Next ==
  \/ \E t \in Caller : Run(t)
  \/ \E m \in Pub : Send(m)
  \/ \E r \in Routine : Goroutine(r)
  \/ Start \/ Acking \/ Close \/ Closing \/ PassBy \/ Break \/ ClientReads \/ Over

Spec == Init /\ [][Next]_vars

\* Every goroutine goes on when it can, and the client reads and answers.
Fairness ==
  /\ \A t \in Caller : WF_vars(Run(t))
  /\ \A r \in Routine : WF_vars(Goroutine(r))
  /\ WF_vars(Start) /\ WF_vars(Acking) /\ WF_vars(Closing) /\ WF_vars(ClientReads)

FairSpec == Spec /\ Fairness

-----------------------------------------------------------------------------

Steps == {"idle", "run", "claim", "ran", "sync", "check", "general", "qos12", "keep", "qos0", "write",
          "leave", "flush", "recheck", "done", "load", "free", "raise", "delete", "rel", "respond"}

TypeOK ==
  /\ gMessages \in Seq(Packet) /\ qos0Messages \in Seq(QoS0) /\ qos12Messages \in Seq(QoS1 \cup QoS2)
  /\ quota \in 0 .. Quota /\ counter \in 0 .. MaxId /\ inUse \subseteq Id
  /\ pubOut \in [Id -> QoS1 \cup QoS2 \cup {Pubrel, None}]
  /\ running \in BOOLEAN /\ quit \in BOOLEAN /\ wgRunSync \in Nat /\ wg \in Nat
  /\ pc \in [Caller -> Steps]
  /\ batch \in [Routine -> Seq(Packet)] /\ buf \in [Routine -> Seq(Packet)]
  /\ failed \in [Routine -> BOOLEAN]
  /\ ack \in AckPacket
  /\ closing \in {"open", "begun", "offline", "quit", "stopped", "queues", "closed"}
  /\ passed \in BOOLEAN
  /\ stored \in [qos12 : SUBSET (QoS1 \cup QoS2), unAck : SUBSET (QoS1 \cup QoS2 \cup {Pubrel})]
  /\ broken \in BOOLEAN /\ wire \in Seq(Packet) /\ read \in 0 .. Len(wire) /\ acks \in Seq(AckPacket)
  /\ accepted \in Seq(QoS1 \cup QoS2) /\ overrun \in [Id -> QoS1 \cup QoS2 \cup {None}]

Sending(r) == pc[r] \in {"general", "qos12", "keep", "qos0", "write", "leave"}
Busy(r) == pc[r] # "idle"

\* One goroutine sends at a time, although its successor may be started while
\* it still ends; and run always finds a goroutine to start.
SingleWriter ==
  /\ \A r, s \in Routine : Sending(r) /\ pc[s] \in {"flush", "recheck", "general", "qos12", "keep", "qos0", "write", "leave"} => r = s
  /\ ~running => \E r \in Routine : ~Busy(r)

\* connection.go: a packet is in the ack queue before its answer can come, and
\* until it has. (Unless it took its id before the packet that gave it back was
\* deleted: release in ack.go.)
AcksFindTheirPacket == pc[Reader] = "load" => pubOut[ack.id] # None \/ overrun[ack.id] # None

\* A goroutine that takes an id and fills the ack queue one after the other, or
\* the reader that empties both, may be in between.
BetweenBoth(i) == (pc[Reader] # "idle" /\ i = ack.id) \/ Keeps(i)

\* Quota, packet ids and ack queue stay in balance: what is missing of the quota
\* are the ids in use, but for the one the reader is giving back, and an id is in
\* use as long as the ack queue has a packet under it (flowControl.go, ack.go), or
\* has lost it.
Balanced ==
  /\ TypeOK
  /\ Quota - quota = Cardinality(inUse) + IF pc[Reader] = "raise" THEN 1 ELSE 0
  /\ \A i \in Id : \/ i \in inUse <=> pubOut[i] # None \/ overrun[i] # None
                  \/ BetweenBoth(i) \/ closing = "closed"

\* Whenever nobody is at work, nothing that could be sent is waiting: no
\* packet is added, and no quota raised, without a goroutine looking after it.
NoLostWakeup ==
  /\ isAlive /\ closing = "open" /\ ~broken
  /\ pc[Starter] = "ran" /\ pc[Reader] = "idle"
  /\ \A m \in Pub : pc[m] \in {"idle", "ran"}
  /\ \A r \in Routine : ~Busy(r)
  => ~packetsAvailable

\* QoS 1 and 2 publishes reach the client once each and in the order in which
\* they were accepted, none left out, however many goroutines took part in
\* sending them: what comes before a publish on the wire is what was accepted
\* before it.
InOrder ==
  \A k \in DOMAIN wire : wire[k].msg \in QoS1 \cup QoS2 =>
    \E a \in DOMAIN accepted :
      /\ accepted[a] = wire[k].msg
      /\ \A b \in DOMAIN accepted : b < a <=> \E j \in 1 .. k - 1 : wire[j].msg = accepted[b]

HasRead(m) == \E k \in 1 .. read : wire[k].type = "PUBLISH" /\ wire[k].msg = m

\* No QoS 1 or 2 publish gets lost in the close: it is among the packets to be
\* persisted unless the client has it. (A takeover during a DISCONNECT does not
\* wait for the goroutine, and what that has in hand is lost. So is what was
\* deleted from the ack queue with its predecessor.)
NothingLost ==
  closing = "closed" /\ ~passed =>
    \A m \in QoS1 \cup QoS2 : pc[m] = "ran" =>
      HasRead(m) \/ m \in stored.qos12 \cup stored.unAck \/ \E i \in Id : overrun[i] = m

\* Once stop has returned nothing is sent: Stage2 writes DISCONNECT after it.
SilentAfterStop == [][(closing \in {"stopped", "queues", "closed"} /\ ~passed) => UNCHANGED wire]_vars

\* What is accepted reaches the client unless the connection closes.
Delivered == \A m \in Pub : pc[m] = "ran" ~> (closing # "open" \/ \E k \in DOMAIN wire : wire[k].msg = m)

\* The close ends: stop is never waited for in vain.
CloseEnds == closing = "begun" ~> closing = "closed"
=============================================================================

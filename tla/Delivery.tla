------------------------------ MODULE Delivery ------------------------------
(***************************************************************************)
(* What happens to the publishes for one durable session (protocol         *)
(* versions up to v3.1.1) while its client connects and disconnects:       *)
(* subscriber, writer, persistence. Writer shows how one connection sends; *)
(* here a whole pop, acknowledgement, reload or store is one step.         *)
(***************************************************************************)
EXTENDS Integers, Sequences, FiniteSets, SequencesExt

CONSTANTS
  QoS0, QoS1, QoS2,  \* the publishes there are, by their QoS
  Quota, MaxId,      \* flow control, as in Writer
  OfflineQoS0,       \* common.OfflineQoS0
  MaxConnections,    \* bound: how often the client connects
  None,              \* no packet
  Pubrel             \* a PUBREL in the ack queue

Pub == QoS0 \cup QoS1 \cup QoS2
Id == 1 .. MaxId

ASSUME DeliveryAssumption ==
  /\ Quota \in Nat \ {0} /\ MaxId \in Nat \ {0} /\ MaxConnections \in Nat
  /\ OfflineQoS0 \in BOOLEAN
  /\ QoS0 \cap QoS1 = {} /\ QoS0 \cap QoS2 = {} /\ QoS1 \cap QoS2 = {}
  /\ None \notin Pub /\ Pubrel \notin Pub /\ None # Pubrel

VARIABLES
  link,        \* the connection: "off", "up", or "closing" from SignalOffline on
  online,      \* the subscriber forwards to the connection
  started,     \* tx.start has reloaded
  connections, \* how often the client has connected
  qos0Messages, qos12Messages,  \* the queues of the writer
  quota, counter, inUse,        \* its flow
  pubOut,      \* its ack queue
  store,       \* the persisted packets of the session: qos0, qos12, unAck
  wire, acks,  \* packets to the client, acknowledgements from it
  pending,     \* for each id the QoS 2 publish the client has got under it and not yet released
  received,    \* how often each publish was given to the client's application
  mistaken,    \* the QoS 2 publishes the client has taken for another it had under that id
  published,   \* the publishes accepted for the session
  panicked     \* a panic: the process is gone or, when reloading, the id stays locked

connVars   == <<link, online, started, connections>>
queueVars  == <<qos0Messages, qos12Messages>>
flowVars   == <<quota, counter, inUse>>
clientVars == <<pending, received, mistaken>>
netVars    == <<wire, acks>>
vars == <<connVars, queueVars, flowVars, pubOut, store, netVars, clientVars, published, panicked>>

Packet(t, m, i) == [type |-> t, msg |-> m, id |-> i]
Publish(m, i)   == Packet("PUBLISH", m, i)
Rel(i)          == Packet("PUBREL", None, i)
Ack(t, i)       == Packet(t, None, i)
Nothing         == Packet("nil", None, 0)

Init ==
  /\ link = "off" /\ online = FALSE /\ started = FALSE /\ connections = 0
  /\ qos0Messages = <<>> /\ qos12Messages = <<>>
  /\ quota = Quota /\ counter = 0 /\ inUse = {}
  /\ pubOut = [i \in Id |-> None]
  /\ store = [qos0 |-> <<>>, qos12 |-> <<>>, unAck |-> <<>>]
  /\ wire = <<>> /\ acks = <<>>
  /\ pending = [i \in Id |-> None] /\ received = [m \in Pub |-> 0] /\ mistaken = {}
  /\ published = {} /\ panicked = FALSE

-----------------------------------------------------------------------------
(* The subscriber *)

\* Online: the connection's queue; offline: sessionPersistPublish.
Forward(m) ==
  /\ ~panicked /\ online
  /\ m \notin published
  /\ published' = published \cup {m}
  /\ IF m \in QoS0
     THEN qos0Messages' = Append(qos0Messages, m) /\ UNCHANGED qos12Messages
     ELSE qos12Messages' = Append(qos12Messages, Publish(m, 0)) /\ UNCHANGED qos0Messages
  /\ UNCHANGED <<connVars, flowVars, pubOut, store, netVars, clientVars, panicked>>

PersistPublish(m) ==
  /\ ~panicked /\ ~online
  /\ connections > 0
  /\ m \notin published
  /\ published' = published \cup {m}
  /\ store' = IF m \in QoS0
              THEN [store EXCEPT !.qos0 = Append(@, m)]
              ELSE [store EXCEPT !.qos12 = Append(@, Publish(m, 0))]
  /\ UNCHANGED <<connVars, queueVars, flowVars, pubOut, netVars, clientVars, panicked>>

-----------------------------------------------------------------------------
(* Connecting: a new writer, SignalOnline, then tx.start(true) *)

Connect ==
  /\ ~panicked /\ link = "off"
  /\ connections < MaxConnections
  /\ connections' = connections + 1
  /\ link' = "up" /\ online' = TRUE /\ started' = FALSE
  /\ quota' = Quota /\ counter' = 0 /\ inUse' = {}
  /\ UNCHANGED <<queueVars, pubOut, store, netVars, clientVars, published, panicked>>

\* PacketsForEach* go from the newest packet to the oldest, take what they hand
\* out from the store, and stop after count packets; a count of zero never gets
\* to zero and stops nothing.
HandedOut(s, count) == IF count = 0 \/ count > Len(s) THEN Len(s) ELSE count
Newest(s, n) == SubSeq(Reverse(s), 1, n)
KeepsLoaded(s, n) == s
Others(s, n) == SubSeq(s, 1, Len(s) - n)

\* flow.reAcquire of each: the one that takes the quota to zero does not get
\* its id.
ReAcquired(s) == {s[k].id : k \in {j \in DOMAIN s : quota - j # 0}}

\* The unacknowledged packets first. QoS 1 and 2 follow when there are packets
\* in the queue by then, as many as those. What was persisted as nil panics.
Start ==
  /\ ~panicked /\ link # "off" /\ ~started
  /\ started' = TRUE
  /\ LET queued == qos12Messages \o Newest(store.unAck, Len(store.unAck))
         n12    == IF queued = <<>> THEN 0 ELSE HandedOut(store.qos12, Len(queued))
         n0     == HandedOut(store.qos0, Len(qos0Messages))
         IsNil(k) == Newest(store.qos12, n12)[k] = Nothing
     IN  \E n \in 0 .. n12 :
           /\ \A k \in 1 .. n : ~IsNil(k)
           /\ panicked' = (n < n12) /\ (n < n12 => IsNil(n + 1))
           /\ quota' = quota - Len(store.unAck)
           /\ inUse' = inUse \cup ReAcquired(Newest(store.unAck, Len(store.unAck)))
           /\ qos12Messages' = queued \o Newest(store.qos12, n)
           /\ IF n < n12
              THEN /\ store' = [store EXCEPT !.unAck = <<>>, !.qos12 = Others(@, n)]
                   /\ UNCHANGED qos0Messages
              ELSE /\ store' = [qos0  |-> Others(store.qos0, n0),
                                qos12 |-> Others(store.qos12, n),
                                unAck |-> <<>>]
                   /\ qos0Messages' = qos0Messages \o Newest(store.qos0, n0)
  /\ UNCHANGED <<link, online, connections, counter, pubOut, netVars, clientVars, published>>

-----------------------------------------------------------------------------
(* Sending *)

Following(k) == ((counter + k - 1) % MaxId) + 1
Acquires(i) == \E k \in Id : i = Following(k) /\ \A l \in 1 .. k - 1 : Following(l) \in inUse

quotaAvailable == quota > 0

\* qos12PopPacket. A publish gets an id of its own, one that was reloaded too.
SendQoS12 ==
  /\ ~panicked /\ link # "off"
  /\ quotaAvailable /\ qos12Messages # <<>>
  /\ Head(qos12Messages).type = "PUBLISH"
  /\ LET m == Head(qos12Messages).msg
     IN  \E i \in Id \ inUse :
           /\ Acquires(i)
           /\ counter' = i
           /\ inUse' = inUse \cup {i}
           /\ pubOut' = [pubOut EXCEPT ![i] = m]
           /\ wire' = Append(wire, Publish(m, i))
  /\ quota' = quota - 1
  /\ qos12Messages' = Tail(qos12Messages)
  /\ UNCHANGED <<connVars, qos0Messages, store, acks, clientVars, published, panicked>>

\* What is neither a publish nor wrapped as unacknowledged leaves pkt nil, and
\* pubOut.store calls a method of it.
SendUnexpected ==
  /\ ~panicked /\ link # "off"
  /\ quotaAvailable /\ qos12Messages # <<>>
  /\ Head(qos12Messages).type # "PUBLISH"
  /\ panicked' = TRUE
  /\ UNCHANGED <<connVars, queueVars, flowVars, pubOut, store, netVars, clientVars, published>>

SendQoS0 ==
  /\ ~panicked /\ link # "off"
  /\ qos0Messages # <<>>
  /\ wire' = Append(wire, Publish(Head(qos0Messages), 0))
  /\ qos0Messages' = Tail(qos0Messages)
  /\ UNCHANGED <<connVars, qos12Messages, flowVars, pubOut, store, acks, clientVars, published, panicked>>

-----------------------------------------------------------------------------
(* The client, and its acknowledgements (onAck) *)

\* What the client gives to its application: any publish but a QoS 2 one whose
\* id it has not released, which it takes for the same once more.
New(p) == p.type = "PUBLISH" /\ (p.msg \in QoS2 => pending[p.id] = None)

ClientReads ==
  /\ ~panicked /\ wire # <<>>
  /\ LET p == Head(wire)
     IN  /\ acks' = acks \o (CASE p.type = "PUBREL" -> <<Ack("PUBCOMP", p.id)>>
                               [] p.msg \in QoS1    -> <<Ack("PUBACK", p.id)>>
                               [] p.msg \in QoS2    -> <<Ack("PUBREC", p.id)>>
                               [] OTHER             -> <<>>)
         /\ pending' = CASE p.type = "PUBREL" -> [pending EXCEPT ![p.id] = None]
                         [] New(p) /\ p.msg \in QoS2 -> [pending EXCEPT ![p.id] = p.msg]
                         [] OTHER -> pending
         /\ received' = IF New(p) THEN [received EXCEPT ![p.msg] = @ + 1] ELSE received
         /\ mistaken' = IF p.msg \in QoS2 /\ pending[p.id] \notin {None, p.msg}
                        THEN mistaken \cup {p.msg} ELSE mistaken
  /\ wire' = Tail(wire)
  /\ UNCHANGED <<connVars, queueVars, flowVars, pubOut, store, published, panicked>>

NotRaised == quota
Raised == quota + 1

\* PUBACK and PUBCOMP; one that has nothing to acknowledge is ignored.
Acknowledged ==
  /\ ~panicked /\ link = "up" /\ acks # <<>>
  /\ Head(acks).type # "PUBREC"
  /\ LET i == Head(acks).id
     IN  IF pubOut[i] # None
         THEN /\ pubOut' = [pubOut EXCEPT ![i] = None]
              /\ inUse' = inUse \ {i}
              /\ quota' = Raised
         ELSE UNCHANGED <<pubOut, inUse, quota>>
  /\ acks' = Tail(acks)
  /\ UNCHANGED <<connVars, queueVars, counter, store, wire, clientVars, published, panicked>>

\* PUBREC: the publish leaves the ack queue, the PUBREL enters it.
Pubrec ==
  /\ ~panicked /\ link = "up" /\ acks # <<>>
  /\ Head(acks).type = "PUBREC"
  /\ pubOut' = [pubOut EXCEPT ![Head(acks).id] = Pubrel]
  /\ wire' = Append(wire, Rel(Head(acks).id))
  /\ acks' = Tail(acks)
  /\ UNCHANGED <<connVars, queueVars, flowVars, store, clientVars, published, panicked>>

-----------------------------------------------------------------------------
(* Disconnecting *)

\* The reader has ended; SignalOffline.
Offline ==
  /\ ~panicked /\ link = "up"
  /\ connections < MaxConnections
  /\ link' = "closing" /\ online' = FALSE
  /\ UNCHANGED <<started, connections, queueVars, flowVars, pubOut, store, netVars, clientVars, published, panicked>>

\* The ack queue is a map: its packets come in any order. They come wrapped, so
\* the branch that would mark a publish as duplicate is never taken.
UnAckPackets ==
  {[k \in DOMAIN o |-> IF pubOut[o[k]] = Pubrel THEN Rel(o[k]) ELSE Publish(pubOut[o[k]], o[k])] :
     o \in SetToSeqs({i \in Id : pubOut[i] # None})}

\* What waits to be sent has its packet id reset, if it is a publish; anything
\* else is persisted as nil.
Encoded(q) ==
  [k \in DOMAIN q |-> IF q[k].type = "PUBLISH" THEN [q[k] EXCEPT !.id = 0] ELSE Nothing]

\* tx.stop, getQueuedPackets and PacketsStore.
Store ==
  /\ ~panicked /\ link = "closing" /\ started
  /\ \E u \in UnAckPackets :
       store' = [qos0  |-> store.qos0 \o (IF OfflineQoS0 THEN qos0Messages ELSE <<>>),
                 qos12 |-> store.qos12 \o Encoded(qos12Messages),
                 unAck |-> store.unAck \o u]
  /\ qos0Messages' = <<>> /\ qos12Messages' = <<>>
  /\ pubOut' = [i \in Id |-> None]
  /\ wire' = <<>> /\ acks' = <<>>
  /\ link' = "off"
  /\ UNCHANGED <<online, started, connections, flowVars, clientVars, published, panicked>>

-----------------------------------------------------------------------------

Over == panicked /\ UNCHANGED vars

Session == Connect \/ Start \/ Offline \/ Store
Sending == SendQoS12 \/ SendUnexpected \/ SendQoS0
Acking  == Acknowledged \/ Pubrec

Next ==
  \/ \E m \in Pub : Forward(m) \/ PersistPublish(m)
  \/ Session \/ Sending \/ ClientReads \/ Acking \/ Over

Spec == Init /\ [][Next]_vars

\* Both ends go on as long as they are connected; nobody has to disconnect.
Fairness ==
  /\ WF_vars(Start) /\ WF_vars(SendQoS12 \/ SendUnexpected) /\ WF_vars(SendQoS0)
  /\ WF_vars(ClientReads) /\ WF_vars(Acking)

FairSpec == Spec /\ Fairness

-----------------------------------------------------------------------------

Entries(t, m, i) == [type : t, msg : m, id : i]
Queued == Entries({"PUBLISH"}, QoS1 \cup QoS2, Id \cup {0}) \cup Entries({"PUBREL"}, {None}, Id)

TypeOK ==
  /\ link \in {"off", "up", "closing"} /\ online = (link = "up") /\ started \in BOOLEAN
  /\ connections \in 0 .. MaxConnections
  /\ qos0Messages \in Seq(QoS0) /\ qos12Messages \in Seq(Queued)
  /\ quota \in Int /\ quota <= Quota /\ counter \in 0 .. MaxId /\ inUse \subseteq Id
  /\ pubOut \in [Id -> QoS1 \cup QoS2 \cup {Pubrel, None}]
  /\ store.qos0 \in Seq(QoS0) /\ store.qos12 \in Seq(Queued \cup {Nothing}) /\ store.unAck \in Seq(Queued)
  /\ pending \in [Id -> QoS2 \cup {None}] /\ mistaken \subseteq QoS2
  /\ received \in [Pub -> 0 .. MaxConnections]
  /\ published \subseteq Pub /\ panicked \in BOOLEAN

\* Where a publish is, so that it can still be delivered: how often it occurs.
Occurs(m, q) == Cardinality({k \in DOMAIN q : q[k].msg = m})
Places(m) == Occurs(m, qos12Messages) + Occurs(m, store.qos12) + Occurs(m, store.unAck)
               + Cardinality({i \in Id : pubOut[i] = m})

\* A QoS 1 or 2 publish is in one place until the client has it, through all
\* disconnects: persisting and reloading lose none, and double none, which a
\* client that has not even missed it would get twice. It reaches the client at
\* most once per connection, and a QoS 0 publish once, persisted or not. And it
\* never has more to acknowledge than it said it takes. What is sent again gets
\* a new id, so that one the client has not released yet goes to another
\* publish: that one the client acknowledges without having it. Only a QoS 2
\* publish is lost this way, and only after a disconnect.
Conserved ==
  /\ TypeOK
  /\ Cardinality({i \in Id : pubOut[i] # None}) <= Quota
  /\ \A m \in (QoS1 \cup QoS2) \cap published :
       Places(m) <= 1 /\ (Places(m) = 0 => received[m] > 0 \/ m \in mistaken)
  /\ \A m \in Pub : received[m] <= IF m \in QoS0 THEN 1 ELSE connections
  /\ mistaken # {} => connections > 1

\* What there will be of the quota in this connection once all is acknowledged.
Reserve == quota + Cardinality({i \in Id : pubOut[i] # None})

\* While the client stays connected and answers, everything queued is sent,
\* unless reloading has used the quota up: it takes a packet's share twice, as
\* unacknowledged and when it is sent again, and gives it back once.
QueuedIsSent ==
  \A m \in QoS1 \cup QoS2 :
    (link = "up" /\ started /\ Reserve > 0 /\ Occurs(m, qos12Messages) > 0)
      ~> (link # "up" \/ panicked \/ Occurs(m, qos12Messages) = 0)
=============================================================================

------------------------------ MODULE Inbound ------------------------------
(***************************************************************************)
(* What a client sends to the broker: the goroutine that reads from the    *)
(* connection (connection/reader.go), what it does to publishes and        *)
(* PUBREL (connection/connection.go, ack.go), and the close                *)
(* (onConnectionCloseStage2) that stops it by a deadline.                  *)
(*                                                                         *)
(* One client with a will and a durable session connects time and again    *)
(* and sends again what has not been acknowledged, in the next connection  *)
(* or in the same one. The next connection of its id is accepted when the  *)
(* close of the previous one is done (Sessions); what the broker sends is  *)
(* Writer's and Delivery's business, but for the acknowledgements, and so  *)
(* are the protocol states before CONNACK Sessions'. Subscriptions and     *)
(* MQTT 5 are not here. Nor are permissions: the reason of a denial,       *)
(* CodeRefusedNotAuthorized = 0x05, is below CodeUnspecifiedError = 0x80,  *)
(* so onPublish does with a denied publish what it does with any other.    *)
(***************************************************************************)
EXTENDS Integers, Sequences, FiniteSets

CONSTANTS
  QoS1, QoS2,      \* the publishes of the client, by their QoS
  RxMax,           \* rxQuota of a connection
  Window,          \* bound: how many publishes the client has in flight
  MaxRepeats,      \* bound: how often it repeats a packet within a connection
  MaxId,           \* the largest packet id
  MaxConnections,  \* bound: how often the client connects
  None             \* no publish

Msg == QoS1 \cup QoS2
Id  == 1 .. MaxId

ASSUME InboundAssumption ==
  /\ QoS1 \cap QoS2 = {} /\ None \notin Msg
  /\ IsFiniteSet(Msg)
  /\ RxMax \in Nat \ {0} /\ Window \in Nat \ {0} /\ MaxId \in Nat \ {0}
  /\ MaxConnections \in Nat /\ MaxRepeats \in Nat

VARIABLES
  state,        \* where the client is with each publish
  idOf,         \* its packet id, 0 if it has none
  connections,  \* how often the client has connected
  repeats,      \* how often it has repeated a packet
  up,           \* the connection is there, as the client sees it
  net,          \* packets on their way to the broker
  back,         \* acknowledgements on their way to the client
  buffered,     \* how many packets of net are in the bufio.Reader
  keepAlive,    \* the connection has a keep-alive interval
  deadline,     \* of the next read: "none", "later" or "past"
  rpc,          \* where the reader is; "crashed" ends the process
  pkt,          \* the packet it has in hand
  pubIn,        \* the queue of QoS 2 publishes to be released, by packet id
  rxQuota,
  will,         \* the session has a will
  onStop,       \* the Once around the stop has been used
  tx,           \* s.tx # nil
  closing,      \* progress of Stage2, "open" until it begins
  unanswered,   \* history: PUBLISH packets of this connection less PUBACKs and PUBCOMPs
  published,    \* history: how often each publish went to the topics manager
  dropped,      \* history: publishes that went with pubIn
  willSent,     \* history: how often this connection's will was published
  left,         \* history: its reader has met a DISCONNECT
  passed        \* history: its close has not waited for the reader

clientVars  == <<state, idOf, connections, repeats, unanswered>>
netVars     == <<up, net, back, buffered>>
readVars    == <<keepAlive, deadline, rpc, pkt>>
queueVars   == <<pubIn, rxQuota>>
closeVars   == <<will, onStop, tx, closing>>
historyVars == <<published, dropped, willSent, left, passed>>
vars == <<clientVars, netVars, readVars, queueVars, closeVars, historyVars>>

Publish(m, i)   == [type |-> "PUBLISH", id |-> i, msg |-> m]
Control(t, i)   == [type |-> t, id |-> i, msg |-> None]

Init ==
  /\ state = [m \in Msg |-> "new"] /\ idOf = [m \in Msg |-> 0]
  /\ connections = 0 /\ repeats = 0 /\ unanswered = 0
  /\ up = FALSE /\ net = <<>> /\ back = <<>> /\ buffered = 0
  /\ keepAlive = FALSE /\ deadline = "none" /\ rpc = "ended" /\ pkt = Control("PINGREQ", 0)
  /\ pubIn = [i \in Id |-> None] /\ rxQuota = RxMax
  /\ will = FALSE /\ onStop = FALSE /\ tx = FALSE /\ closing = "done"
  /\ published = [m \in Msg |-> 0] /\ dropped = {} /\ willSent = 0
  /\ left = FALSE /\ passed = FALSE

-----------------------------------------------------------------------------
(* The client and the network *)

InFlight == {m \in Msg : state[m] \in {"sent", "released"}}

\* What is sent again first thing, in any order.
Again(m) == IF state[m] = "released" THEN Control("PUBREL", idOf[m]) ELSE Publish(m, idOf[m])

Resent == {s \in [1 .. Cardinality(InFlight) -> {Again(m) : m \in InFlight}] :
             \A m \in InFlight : \E k \in DOMAIN s : s[k] = Again(m)}

\* What the reader gets of the packets the client has sent before CONNACK: those
\* that arrived with CONNECT were in the buffer of connectionRoutine, and are gone.
Unread(again) == {SubSeq(again, k + 1, Len(again)) : k \in 0 .. Len(again)}

\* A connection that has been accepted: New, Acknowledge, rx.run.
Connect(keeps, again) ==
  /\ closing = "done" /\ rpc = "ended"
  /\ connections < MaxConnections
  /\ connections' = connections + 1
  /\ up' = TRUE /\ net' \in Unread(again) /\ back' = <<>> /\ buffered' = 0
  /\ keepAlive' = keeps /\ deadline' = "none" /\ rpc' = "deadline"
  /\ pubIn' = [i \in Id |-> None] /\ rxQuota' = RxMax
  /\ will' = TRUE /\ onStop' = FALSE /\ tx' = TRUE /\ closing' = "open"
  /\ willSent' = 0 /\ left' = FALSE /\ passed' = FALSE
  /\ unanswered' = Cardinality({m \in Msg : state[m] = "sent"})
  /\ UNCHANGED <<state, idOf, repeats, pkt, published, dropped>>

\* The client takes no packet id of a publish in flight, or of a packet it has
\* still to get an answer to.
Unused(i) ==
  /\ \A m \in Msg : idOf[m] # i
  /\ \A k \in DOMAIN net : net[k].id # i
  /\ \A k \in DOMAIN back : back[k].id # i
  /\ rpc = "handle" => pkt.id # i

ClientSends(m, i) ==
  /\ up
  /\ state[m] = "new" /\ Unused(i)
  /\ Cardinality(InFlight) < Window
  /\ state' = [state EXCEPT ![m] = "sent"]
  /\ idOf' = [idOf EXCEPT ![m] = i]
  /\ net' = Append(net, Publish(m, i))
  /\ unanswered' = unanswered + 1
  /\ UNCHANGED <<connections, repeats, up, back, buffered, readVars, queueVars, closeVars,
                 historyVars>>

\* The client need not wait for a new connection to send a packet again.
ClientRepeats(m) ==
  /\ up
  /\ m \in InFlight
  /\ repeats < MaxRepeats
  /\ repeats' = repeats + 1
  /\ net' = Append(net, Again(m))
  /\ unanswered' = IF state[m] = "sent" THEN unanswered + 1 ELSE unanswered
  /\ UNCHANGED <<state, idOf, connections, up, back, buffered, readVars, queueVars, closeVars,
                 historyVars>>

\* PUBREC is answered with PUBREL; PUBACK and PUBCOMP end the exchange. A second
\* one of these is about nothing.
ClientReads ==
  /\ back # <<>>
  /\ back' = Tail(back)
  /\ unanswered' = IF Head(back).type = "PUBREC" THEN unanswered ELSE unanswered - 1
  /\ LET i == Head(back).id
     IN \/ \E m \in Msg :
             /\ idOf[m] = i
             /\ IF Head(back).type = "PUBREC"
                THEN /\ state' = [state EXCEPT ![m] = "released"]
                     /\ net' = Append(net, Control("PUBREL", i))
                     /\ UNCHANGED idOf
                ELSE /\ state' = [state EXCEPT ![m] = "done"]
                     /\ idOf' = [idOf EXCEPT ![m] = 0]
                     /\ UNCHANGED net
        \/ /\ \A m \in Msg : idOf[m] # i
           /\ UNCHANGED <<state, idOf, net>>
  /\ UNCHANGED <<connections, repeats, up, buffered, readVars, queueVars, closeVars, historyVars>>

\* One at a time.
ClientPings ==
  /\ up
  /\ net = <<>>
  /\ net' = <<Control("PINGREQ", 0)>>
  /\ UNCHANGED <<clientVars, up, back, buffered, readVars, queueVars, closeVars, historyVars>>

ClientDisconnects ==
  /\ up
  /\ up' = FALSE
  /\ net' = Append(net, Control("DISCONNECT", 0))
  /\ back' = <<>>
  /\ UNCHANGED <<clientVars, buffered, readVars, queueVars, closeVars, historyVars>>

\* Some of what is on its way arrives nevertheless.
Break ==
  /\ up
  /\ up' = FALSE
  /\ \E k \in buffered .. Len(net) : net' = SubSeq(net, 1, k)
  /\ back' = <<>>
  /\ UNCHANGED <<clientVars, buffered, readVars, queueVars, closeVars, historyVars>>

-----------------------------------------------------------------------------
(* The reader (routine, readPacket) *)

Reset == IF keepAlive THEN "later" ELSE deadline

SetDeadline ==
  /\ rpc = "deadline"
  /\ deadline' = Reset
  /\ rpc' = "read"
  /\ UNCHANGED <<clientVars, netVars, keepAlive, pkt, queueVars, closeVars, historyVars>>

\* Reading from the connection gets one packet or more; what is in the buffer
\* is there whatever the deadline.
ReadPacket ==
  /\ rpc = "read"
  /\ net # <<>>
  /\ buffered > 0 \/ deadline # "past"
  /\ pkt' = Head(net)
  /\ net' = Tail(net)
  /\ buffered' \in IF buffered > 0 THEN {buffered - 1} ELSE 0 .. Len(net) - 1
  /\ rpc' = "handle"
  /\ UNCHANGED <<clientVars, up, back, keepAlive, deadline, queueVars, closeVars, historyVars>>

\* The deadline, the keep-alive interval or the connection is over.
ReadFails ==
  /\ rpc = "read"
  /\ buffered = 0
  /\ \/ deadline = "past"
     \/ net = <<>> /\ (deadline = "later" \/ ~up)
  /\ rpc' = "ended"
  /\ UNCHANGED <<clientVars, netVars, keepAlive, deadline, pkt, queueVars, closeVars, historyVars>>

-----------------------------------------------------------------------------
(* What it does to a packet (processIncoming) *)

Respond(t) ==
  /\ back' = IF up THEN Append(back, Control(t, pkt.id)) ELSE back
  /\ rpc' = "deadline"

Forwarded(m) == [published EXCEPT ![m] = published[m] + 1]

\* publishToTopic, for QoS 1, and the answer.
OnPublishQoS1 ==
  /\ rpc = "handle"
  /\ pkt.msg \in QoS1
  /\ rxQuota > 0
  /\ published' = Forwarded(pkt.msg)
  /\ Respond("PUBACK")
  /\ UNCHANGED <<clientVars, up, net, buffered, keepAlive, deadline, pkt, queueVars, closeVars,
                 dropped, willSent, left, passed>>

Lowered == rxQuota - 1

\* Stored until PUBREL. A repeated publish takes the place of the first, and
\* lowers the quota again.
OnPublishQoS2 ==
  /\ rpc = "handle"
  /\ pkt.msg \in QoS2
  /\ rxQuota > 0
  /\ rxQuota' = Lowered
  /\ pubIn' = [pubIn EXCEPT ![pkt.id] = pkt.msg]
  /\ dropped' = dropped \ {pkt.msg}
  /\ Respond("PUBREC")
  /\ UNCHANGED <<clientVars, up, net, buffered, keepAlive, deadline, pkt, closeVars,
                 published, willSent, left, passed>>

Refuse ==
  /\ rpc = "handle"
  /\ pkt.type = "PUBLISH"
  /\ rxQuota = 0
  /\ rpc' = "ended"
  /\ UNCHANGED <<clientVars, netVars, keepAlive, deadline, pkt, queueVars, closeVars, historyVars>>

\* ackQueue.release: what is stored is forwarded (onReleaseIn), then deleted.
Discarded(i) == published
Released(i) == IF pubIn[i] = None THEN published ELSE Forwarded(pubIn[i])

\* PUBREL raises the quota whether or not it has released anything.
RaisedIfStored == IF pubIn[pkt.id] = None THEN rxQuota ELSE rxQuota + 1
Raised == rxQuota + 1

OnPubrel ==
  /\ rpc = "handle"
  /\ pkt.type = "PUBREL"
  /\ published' = Released(pkt.id)
  /\ pubIn' = [pubIn EXCEPT ![pkt.id] = None]
  /\ rxQuota' = Raised
  /\ Respond("PUBCOMP")
  /\ UNCHANGED <<clientVars, up, net, buffered, keepAlive, deadline, pkt, closeVars,
                 dropped, willSent, left, passed>>

\* PINGRESP is nothing to anybody here.
OnPingReq ==
  /\ rpc = "handle"
  /\ pkt.type = "PINGREQ"
  /\ rpc' = "deadline"
  /\ UNCHANGED <<clientVars, netVars, keepAlive, deadline, pkt, queueVars, closeVars, historyVars>>

\* DISCONNECT: the reader stops the writer itself unless the close has begun to.
OnDisconnect ==
  /\ rpc = "handle"
  /\ pkt.type = "DISCONNECT"
  /\ left' = TRUE
  /\ onStop' = TRUE
  /\ rpc' = IF onStop THEN "disconnect" ELSE "stop"
  /\ UNCHANGED <<clientVars, netVars, keepAlive, deadline, pkt, queueVars, will, tx, closing,
                 published, dropped, willSent, passed>>

\* SignalOffline takes its time; then s.tx is read, and stop called.
StopWriter ==
  /\ rpc = "stop"
  /\ rpc' = IF tx THEN "disconnect" ELSE "crashed"
  /\ UNCHANGED <<clientVars, netVars, keepAlive, deadline, pkt, queueVars, closeVars, historyVars>>

WillStays == will
NoWill == FALSE

SignalDisconnect ==
  /\ rpc = "disconnect"
  /\ will' = NoWill
  /\ rpc' = "ended"
  /\ UNCHANGED <<clientVars, netVars, keepAlive, deadline, pkt, queueVars, onStop, tx, closing, historyVars>>

-----------------------------------------------------------------------------
(* The close (onConnectionCloseStage2), in whatever goroutine is first *)

\* The reader has ended, or a takeover or the server calls Stop.
Begin ==
  /\ closing = "open"
  /\ closing' = "begun"
  /\ UNCHANGED <<clientVars, netVars, readVars, queueVars, will, onStop, tx, historyVars>>

ReaderCloses == rpc = "ended" /\ Begin

NoDeadline == deadline
Past == "past"

\* onStop.Do: the deadline for the reader. If the reader is in it, or has been,
\* Do returns at once.
Stop ==
  /\ closing = "begun"
  /\ onStop' = TRUE
  /\ IF onStop
     THEN /\ closing' = "drop"
          /\ passed' = (rpc # "ended")
          /\ UNCHANGED deadline
     ELSE /\ closing' = "waits"
          /\ deadline' = Past
          /\ UNCHANGED passed
  /\ UNCHANGED <<clientVars, netVars, keepAlive, rpc, pkt, queueVars, will, tx,
                 published, dropped, willSent, left>>

\* rx.shutdown, SignalOffline, tx.stop.
ReaderGone ==
  /\ closing = "waits"
  /\ rpc = "ended"
  /\ closing' = "drop"
  /\ UNCHANGED <<clientVars, netVars, readVars, queueVars, will, onStop, tx, historyVars>>

\* conn.Close, getQueuedPackets, s.tx = nil.
Drop ==
  /\ closing = "drop"
  /\ up' = FALSE /\ net' = <<>> /\ back' = <<>> /\ buffered' = 0
  /\ tx' = FALSE
  /\ closing' = "signal"
  /\ UNCHANGED <<clientVars, readVars, queueVars, will, onStop, historyVars>>

SignalConnectionClose ==
  /\ closing = "signal"
  /\ willSent' = IF will THEN willSent + 1 ELSE willSent
  /\ will' = FALSE
  /\ closing' = "clear"
  /\ UNCHANGED <<clientVars, netVars, readVars, queueVars, onStop, tx,
                 published, dropped, left, passed>>

Clear ==
  /\ closing = "clear"
  /\ dropped' = dropped \cup ({pubIn[i] : i \in Id} \ {None})
  /\ pubIn' = [i \in Id |-> None]
  /\ closing' = "done"
  /\ UNCHANGED <<clientVars, netVars, readVars, rxQuota, will, onStop, tx,
                 published, willSent, left, passed>>

-----------------------------------------------------------------------------

Client ==
  \/ \E keeps \in BOOLEAN, again \in Resent : Connect(keeps, again)
  \/ \E m \in Msg, i \in Id : ClientSends(m, i)
  \/ \E m \in Msg : ClientRepeats(m)
  \/ ClientReads \/ ClientPings \/ ClientDisconnects \/ Break

Reader ==
  \/ SetDeadline \/ ReadPacket \/ ReadFails
  \/ OnPublishQoS1 \/ OnPublishQoS2 \/ Refuse \/ OnPubrel \/ OnPingReq \/ OnDisconnect
  \/ StopWriter \/ SignalDisconnect

Closer == ReaderCloses \/ Stop \/ ReaderGone \/ Drop \/ SignalConnectionClose \/ Clear

Next == Client \/ Reader \/ Closer \/ Begin

Spec == Init /\ [][Next]_vars

\* The goroutines go on when they can; nothing is asked of client and network.
FairSpec == Spec /\ WF_vars(Reader) /\ WF_vars(Closer)

-----------------------------------------------------------------------------

\* A QoS 2 publish reaches the topics manager once at most, over all connections
\* and whatever is sent again, and once if the exchange is complete, unless its
\* packet was dropped by a close between PUBREC and PUBREL; a QoS 1 publish once
\* at least (onPublish, onReleaseIn, ackQueue.release).
ExactlyOnce ==
  \A m \in Msg :
    /\ m \in QoS2 => published[m] <= 1
    /\ state[m] = "done" /\ m \notin dropped => published[m] >= 1

\* onPublish refuses only a client that has sent more PUBLISH packets than the
\* receive maximum without having got the PUBACK or PUBCOMP: rxQuota loses
\* nothing to a publish sent again, a PUBREL for what is not stored any more or a
\* connection that ended between PUBREC and PUBREL (onPublish and onAck).
NeverRefused == [][Refuse => unanswered > RxMax]_vars

\* The close publishes the will if and only if the reader has met no DISCONNECT,
\* and takes the writer from no reader that is about to stop it. (A close that
\* passes by the reader in its DISCONNECT may do either.)
CloseInOrder ==
  /\ closing = "done" /\ connections > 0 /\ ~passed => willSent = IF left THEN 0 ELSE 1
  /\ rpc = "crashed" => passed

\* The close comes to its end if the client falls silent, whichever of reader and
\* close sets its deadline last.
ReaderStops == []<><<ClientPings>>_vars \/ (closing = "begun" ~> closing = "done")
=============================================================================

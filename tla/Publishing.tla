----------------------------- MODULE Publishing -----------------------------
(***************************************************************************)
(* From the publish of one client to the connection, or the store, of      *)
(* another: the two publisher goroutines of the topics manager             *)
(* (topics/memLockFree/topics.go), which acquire and release subscribers,  *)
(* and the subscriber (subscriber/subscriber.go) through subscribing,      *)
(* connecting, the close of the connection and its own end.                *)
(*                                                                         *)
(* There is one topic filter, and the node that holds its subscribers is a *)
(* set: TopicTree is about how they are found.  A subscriber of a clean    *)
(* session lives for one connection; one of a durable session while it has *)
(* subscriptions.  What a connection does with what it was given is        *)
(* Writer's and Delivery's business.                                       *)
(***************************************************************************)
EXTENDS Integers, Sequences, FiniteSets

CONSTANTS
  Clean, Durable,  \* subscribers, by their sessions
  Messages,        \* bound: how many publishes
  Publisher,       \* goroutines of the topics manager
  MaxConnections,  \* bound: of a durable session
  None

Sub == Clean \cup Durable
Msg == 1 .. Messages

ASSUME PublishingAssumption ==
  /\ Clean \cap Durable = {} /\ None \notin Msg \cup Sub
  /\ Messages \in Nat /\ MaxConnections \in Nat \ {0}
  /\ IsFiniteSet(Publisher)

VARIABLES
  \* of each subscriber
  at,           \* where the goroutine of its session is
  connections,  \* how many it has had
  publisher,    \* the connection it publishes to, 0 is the store
  tx,           \* the writer of the last: "up", "stopped" or "nil"
  subscribed,   \* those in the node
  access,       \* the wait group of each: publishers that have acquired it
  \* of the topics manager
  inbound,      \* its channel
  pc,           \* of each publisher: "idle", "taken", "deliver", "call" or "crashed"
  msg,          \* what it has taken
  found,        \* subscribers it has read, but not acquired yet
  entries,      \* those it has acquired, and has still to deliver to
  target,       \* what it calls, holding the read lock of the subscriber
  \* history
  sent,         \* how many publishes were handed to the topics manager
  owed,         \* to each subscriber: those sent since SUBACK
  got,          \* how often a connection or the store got each
  late          \* who has acquired whom after Offline had waited for publishers

subVars  == <<at, connections, publisher, tx, subscribed>>
pubVars  == <<pc, msg, found, entries, target>>
gotVars  == <<sent, owed, got>>
vars == <<subVars, access, inbound, pubVars, gotVars, late>>

Init ==
  /\ at = [s \in Sub |-> "off"]
  /\ connections = [s \in Sub |-> 0]
  /\ publisher = [s \in Sub |-> 0]
  /\ tx = [s \in Sub |-> "nil"]
  /\ subscribed = {}
  /\ access = [s \in Sub |-> 0]
  /\ inbound = <<>>
  /\ pc = [p \in Publisher |-> "idle"]
  /\ msg = [p \in Publisher |-> None]
  /\ found = [p \in Publisher |-> {}]
  /\ entries = [p \in Publisher |-> {}]
  /\ target = [p \in Publisher |-> None]
  /\ sent = 0 /\ late = {}
  /\ owed = [s \in Sub |-> {}]
  /\ got = [s \in Sub |-> [m \in Msg |-> 0]]

-----------------------------------------------------------------------------
(* The publisher goroutines *)

\* session.SignalPublish of some client.
Publish ==
  /\ sent < Messages
  /\ sent' = sent + 1
  /\ inbound' = Append(inbound, sent')
  /\ owed' = [s \in Sub |-> IF s \in subscribed /\ at[s] \notin {"unsubscribe", "shutdown"}
                            THEN owed[s] \cup {sent'} ELSE owed[s]]
  /\ UNCHANGED <<subVars, access, pubVars, got, late>>

Take(p) ==
  /\ pc[p] = "idle" /\ inbound # <<>>
  /\ msg' = [msg EXCEPT ![p] = Head(inbound)]
  /\ inbound' = Tail(inbound)
  /\ pc' = [pc EXCEPT ![p] = "taken"]
  /\ UNCHANGED <<subVars, access, found, entries, target, gotVars, late>>

\* Range over the subscribers of the node. It meets one after the other: as they
\* have nothing to do with each other, it may as well meet all at once.
Search(p) ==
  /\ pc[p] = "taken"
  /\ found' = [found EXCEPT ![p] = subscribed]
  /\ pc' = [pc EXCEPT ![p] = "deliver"]
  /\ UNCHANGED <<subVars, access, inbound, msg, entries, target, gotVars, late>>

Acquire(p, s) ==
  /\ s \in found[p]
  /\ access' = [access EXCEPT ![s] = @ + 1]
  /\ entries' = [entries EXCEPT ![p] = @ \cup {s}]
  /\ found' = [found EXCEPT ![p] = @ \ {s}]
  /\ late' = IF s \in Clean /\ at[s] \in {"stop", "close", "end", "gone"}
             THEN late \cup {<<p, s>>} ELSE late
  /\ UNCHANGED <<subVars, inbound, pc, msg, target, gotVars>>

\* Subscriber.Publish takes the read lock and calls s.publisher.
Deliver(p, s) ==
  /\ pc[p] = "deliver" /\ found[p] = {} /\ s \in entries[p]
  /\ target' = [target EXCEPT ![p] = [sub |-> s, connection |-> publisher[s]]]
  /\ pc' = [pc EXCEPT ![p] = "call"]
  /\ UNCHANGED <<subVars, access, inbound, msg, found, entries, gotVars, late>>

\* The writer the call finds: that of a connection before the last is nil.
TxOf(t) == IF t.connection = connections[t.sub] THEN tx[t.sub] ELSE "nil"

NotReleased(s, called) == IF called THEN access[s] - 1 ELSE access[s]
Released(s, called)    == access[s] - 1

\* sessionPersistPublish, or the tx.send of the connection, which is in vain when
\* the writer has been stopped and its queues taken; then the lock and the
\* subscriber are released. s.tx = nil panics, and nobody recovers: the process
\* ends. (What the model does after that means nothing.)
Call(p) ==
  /\ pc[p] = "call"
  /\ LET s == target[p].sub
         writer == TxOf(target[p])
         stored == target[p].connection = 0
     IN IF ~stored /\ writer = "nil"
        THEN /\ pc' = [pc EXCEPT ![p] = "crashed"]
             /\ UNCHANGED <<access, entries, target, got, late>>
        ELSE /\ pc' = [pc EXCEPT ![p] = "deliver"]
             /\ target' = [target EXCEPT ![p] = None]
             /\ access' = [access EXCEPT ![s] = Released(s, stored \/ writer = "up")]
             /\ entries' = [entries EXCEPT ![p] = @ \ {s}]
             /\ late' = late \ {<<p, s>>}
             /\ got' = IF stored \/ writer = "up"
                       THEN [got EXCEPT ![s][msg[p]] = @ + 1] ELSE got
  /\ UNCHANGED <<subVars, inbound, msg, found, sent, owed>>

Done(p) ==
  /\ pc[p] = "deliver" /\ found[p] = {} /\ entries[p] = {}
  /\ pc' = [pc EXCEPT ![p] = "idle"]
  /\ msg' = [msg EXCEPT ![p] = None]
  /\ UNCHANGED <<subVars, access, inbound, found, entries, target, gotVars, late>>

-----------------------------------------------------------------------------
(* The goroutine of the session: reader, then close *)

Step(s, from, to) == at[s] = from /\ at' = [at EXCEPT ![s] = to]

Unlocked(s) == TRUE
Lockable(s) == \A p \in Publisher : pc[p] = "call" => target[p].sub # s

\* SignalOnline, and tx.start. A durable subscriber may be subscribed already.
Online(s) ==
  /\ connections[s] < (IF s \in Clean THEN 1 ELSE MaxConnections)
  /\ Lockable(s)
  /\ \/ Step(s, "off", "idle")
     \/ Step(s, "away", "subscribed")
  /\ connections' = [connections EXCEPT ![s] = @ + 1]
  /\ publisher' = [publisher EXCEPT ![s] = connections'[s]]
  /\ tx' = [tx EXCEPT ![s] = "up"]
  /\ UNCHANGED <<subscribed, access, inbound, pubVars, gotVars, late>>

\* The request goes to a goroutine of the topics manager.
Subscribe(s) ==
  /\ Step(s, "idle", "subscribe")
  /\ UNCHANGED <<connections, publisher, tx, subscribed, access, inbound, pubVars, gotVars, late>>

UnSubscribe(s) ==
  /\ Step(s, "subscribed", "unsubscribe")
  /\ owed' = [owed EXCEPT ![s] = {}]
  /\ UNCHANGED <<connections, publisher, tx, subscribed, access, inbound, pubVars, sent, got, late>>

\* It inserts or removes, and answers.
Subscriber(s) ==
  /\ Step(s, "subscribe", "subscribed")
  /\ subscribed' = subscribed \cup {s}
  /\ UNCHANGED <<connections, publisher, tx, access, inbound, pubVars, gotVars, late>>

UnSubscriber(s) ==
  /\ Step(s, "unsubscribe", "idle") \/ Step(s, "shutdown", "wait")
  /\ subscribed' = subscribed \ {s}
  /\ UNCHANGED <<connections, publisher, tx, access, inbound, pubVars, gotVars, late>>

\* SignalOffline when the connection ends, the reader having stopped. A clean
\* session removes its subscriptions; a durable one turns to the store.
Offline(s) ==
  /\ IF s \in Clean
     THEN /\ Step(s, "idle", "wait") \/ Step(s, "subscribed", "shutdown")
          /\ owed' = [owed EXCEPT ![s] = {}]
          /\ UNCHANGED publisher
     ELSE /\ Lockable(s)
          /\ Step(s, "idle", "stop") \/ Step(s, "subscribed", "stop")
          /\ publisher' = [publisher EXCEPT ![s] = 0]
          /\ UNCHANGED owed
  /\ UNCHANGED <<connections, tx, subscribed, access, inbound, pubVars, sent, got, late>>

DoesNotWait(s) == TRUE
NoAccess(s)    == access[s] = 0

\* access.Wait: of a clean session now, of a durable one without subscriptions
\* after the close.
AccessWait(s) ==
  /\ NoAccess(s)
  /\ Step(s, "wait", "stop") \/ Step(s, "end", "gone")
  /\ UNCHANGED <<connections, publisher, tx, subscribed, access, inbound, pubVars, gotVars, late>>

\* tx.stop and getQueuedPackets.
StopWriter(s) ==
  /\ Step(s, "stop", "close")
  /\ tx' = [tx EXCEPT ![s] = "stopped"]
  /\ UNCHANGED <<connections, publisher, subscribed, access, inbound, pubVars, gotVars, late>>

\* s.tx = nil and SignalConnectionClose, which keeps a durable subscriber that has
\* subscriptions, and shuts the others down.
Close(s) ==
  /\ Step(s, "close", IF s \in Durable \cap subscribed THEN "away" ELSE "end")
  /\ tx' = [tx EXCEPT ![s] = "nil"]
  /\ UNCHANGED <<connections, publisher, subscribed, access, inbound, pubVars, gotVars, late>>

-----------------------------------------------------------------------------

Publishers(p) ==
  \/ Take(p) \/ Search(p) \/ Call(p) \/ Done(p)
  \/ \E s \in Sub : Acquire(p, s) \/ Deliver(p, s)

Closing(s) ==
  \/ UnSubscriber(s) \/ Subscriber(s) \/ AccessWait(s)
  \/ StopWriter(s) \/ Close(s)

Next ==
  \/ Publish
  \/ \E p \in Publisher : Publishers(p)
  \/ \E s \in Sub : Online(s) \/ Subscribe(s) \/ UnSubscribe(s) \/ Offline(s) \/ Closing(s)

Spec == Init /\ [][Next]_vars

\* Every goroutine goes on when it can. Nothing is asked of the clients.
FairSpec ==
  /\ Spec
  /\ \A p \in Publisher : WF_vars(Publishers(p))
  /\ \A s \in Sub : WF_vars(Closing(s))

-----------------------------------------------------------------------------

Crashed == \E p \in Publisher : pc[p] = "crashed"
UnderWay(m) == (\E i \in DOMAIN inbound : inbound[i] = m) \/ (\E p \in Publisher : msg[p] = m)

\* What is published after SUBACK and before UNSUBSCRIBE reaches the subscriber
\* once: the connection, or the store if the session is durable and the connection
\* has closed or is about to; and nothing reaches it twice.
OnceEach ==
  \A s \in Sub, m \in Msg :
    /\ got[s][m] <= 1
    /\ m \in owed[s] /\ ~UnderWay(m) => got[s][m] = 1

\* A publisher finds no writer at the connection only if it acquired the subscriber
\* of a clean session after Offline had waited for those that had ("prevent
\* subscriber being deleted before active writes finished").
NoWriter ==
  \A p \in Publisher : pc[p] = "crashed" => target[p].sub \in Clean /\ <<p, target[p].sub>> \in late

\* Offline, and the close it is part of, come to an end; so does a publish.
OfflineEnds ==
  /\ \A s \in Sub : at[s] \in {"shutdown", "wait", "stop"} ~> at[s] \in {"away", "gone"} \/ Crashed
  /\ \A m \in Msg : sent >= m ~> ~UnderWay(m) \/ Crashed
=============================================================================

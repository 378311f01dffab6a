# link2iot: specifications, model checking and proofs

link2iot is an MQTT broker in Go, derived from VolantMQ. This directory holds
TLA+ modules translated from its source, the TLC configurations that check them
on small instances, and TLAPS proofs of what matters most for all instances.
Source paths below are relative to `src/src/`.

## 1. Inventory

| part | source | state it keeps | operations | talks to |
|---|---|---|---|---|
| clients manager | `clients/sessions.go`, `container.go`, `session.go` | the map from client id to container; per container a lock, a session, a subscriber, `removable`, `removed`, the expiry; two wait groups | OnConnection (processConnect, newSession, loadContainer), the session's signals, Stop, Shutdown, loading of persisted sessions | connections (both ways, callbacks), topics, persistence, systree |
| session expiry | `clients/expiry.go` | a timer, its phase, the delayed will | start, cancel, timerCallback, persistedState | manager (callback under its own lock) |
| connection | `connection/connection.go`, `options.go` | state of the handshake, inbound QoS 2 packets, topic aliases, quota, `OnceWait` of the close | Accept, Acknowledge, processIncoming, onPublish, onAck, close stages 1 and 2, stop | session, reader, writer |
| reader | `connection/reader.go` | deadline, quit | routine, one packet at a time | connection |
| writer, flow control | `connection/writer.go`, `flowControl.go`, `ack.go` | three queues, unacknowledged packets, quota and packet ids, running flag | send, start/stop, loading of persisted packets, acknowledging | network, persistence, types.Queue |
| subscriber | `subscriber/subscriber.go` | subscriptions, publisher, the access wait group | Online, Offline, Subscribe, UnSubscribe, Acquire/Release, Publish | topics, writer or persistence |
| topics manager | `topics/memLockFree`, `topics/mem` | the tree of nodes, retained messages, in-flight queues | Subscribe, UnSubscribe, Publish, Retain, Shutdown | subscribers |
| server, transport | `server/volantmq.go`, `transport/` | listeners, the pool of acceptors | ListenAndServe, Shutdown, accept loop | manager |
| types | `types/queue.go`, `types.go`, `pool.go` | ring buffer, once flags, worker pool | Add, Remove, Get, Peek; Do; Schedule | writer, connection, transport |
| systree, auth | `systree/`, `auth/` | counters; credentials | updates and periodic publishing; Password, ACL | all |
| persistence | `github.com/VolantMQ/.../persistence/mem` | sessions, subscriptions, packets, expiries | third-party; modelled by how the code uses it | manager, writer |

Not modelled: `orm/` and the vendored libraries (the broker's logic does not
depend on them), configuration, logs and utilities (pure input and output), the
packet codec (a third-party function of its input).

### What is hard here

* One client id, several connections. A CONNECT may meet the session of an
  earlier connection in any state: live, closing, closed but kept, being
  accepted itself. Container lock, `removable` and `removed` are what keep the
  parties apart, and each is set in a different place.
* The close of a connection runs on whichever goroutine noticed first: the
  reader, the writer, a takeover, the shutdown. It goes through the session
  (SignalOffline, SignalConnectionClose) and the manager (sessionOffline) in
  steps between which everything else goes on.
* Wait groups as reference counts: sessionsCount must be raised and lowered
  exactly once per container; too often ends the process, too rarely makes
  Stop hang.
* Reloading of persisted packets, packet ids and quota across reconnects.
* Lock-free removal of tree nodes while others insert below them.
* Timers whose callbacks race their cancellation.

The correctness properties of each part are listed with the module that states
them (section 3) or, for the parts still to come, in the plan (section 2).
`PROJECT.json` lists every hazard at its line, with the property that covers it.

## 2. Plan

Most important behaviour first.

1. `Fifo`, `Queue`: the queue every outgoing packet goes through. *Done,* with
   `TypesProofs`, the proofs about both parts of package types.
2. `Ownership`, `Sessions`, `SessionsProofs`: ownership of a client id. *Done for the
   protocol versions that are enabled.*
3. `Once`: the two once types of `types.go`. *Done, its proofs in `TypesProofs`.*
4. `Writer`: queues, quota, ids and goroutines of one connection; `Delivery`: what
   becomes of the publishes of a durable session over several connections. *Done
   for the versions that are enabled,* with `WriterProofs`: all safety of the
   run `writer`; and `DeliveryProofs`: Conserved.
5. `Inbound`: reader and connection: deadlines against stop, inbound QoS 2
   exactly once, receive quota, the will. *Done, with `InboundProofs`.*
6. `TopicTree`: the lock-free tree of topics. *Done,* with `TopicTreeProofs`: the
   counters of the nodes, whatever overlaps; and NoneLost, MarkedIsCut and FindsAll, as
   long as no insertion and removal overlap.
7. `Server`: listeners, the pool, the handshake and Shutdown. *Done.*
8. `Publishing`: publisher goroutines against subscribers that come and go. *Done.*
   *OnceEach and NoWriter are proved.*
9. Retained messages as a new subscriber meets them. *Done, in `TopicTree`.*

How they fit together: `Server` accepts connections and hands each to `Sessions`, which
sees it from CONNECT to the end of its close; within that, `Inbound` has what
the client sends, `Publishing` the way of a publish through the topics manager to
another client's connection or store, with `TopicTree` for the tree in which its
subscribers are found, and `Writer` and `Delivery` what that connection makes
of it, with `Queue` for its queues. `Once` is the close all of them share. Where
one module takes for granted what another shows, its comments name it: what
becomes of a session that Stop of Server has asked to end is what StopTerminates of
Sessions says, its exceptions (kept, counted twice) included; the reader that has
stopped in Publishing, and the one that stops a client that has fallen silent in
Sessions, is ReaderStops of Inbound.

## 3. Modules

### Queue (types/queue.go)

`Queue` is the ring buffer: `buf`, `head`, `tail`, `count` are its fields, `cap`
is `len(buf)`, `ret` what the last call returned. Every method holds `q.lock`
throughout, so each is one action: Add, Remove, Get, and Empty for Remove and
Peek of an empty queue. The code computes the remainder as `& (len-1)`; the model
uses the remainder itself and `CapacityOK` shows that the capacity is a power of
two times the smallest one, which makes the two the same. `minQueueLen` is a
constant (16 in the code) so that TLC reaches growing and shrinking with few
elements.

`Fifo` is what a queue promises; `FifoSpec` says that the ring buffer implements
it, the items being the `count` slots from `head` on.

### Server (server/volantmq.go, transport/, types/pool.go, OnConnection)

One listener for each port. Serve schedules a task in the pool and waits for its
answer; the task accepts a connection and stays with it until OnConnection returns.
That takes the CONNECT (or the deadline for it), the lock of its client id, and the end
of the session it takes over: a listener accepts nobody meanwhile. Shutdown goes
through its steps in order.

| state | in the code |
|---|---|
| `listener` | off, or open; then the steps of tcp.Close: quit closed, socket closed, `l.listener` nil |
| `serve` | where the goroutine of Serve is |
| `task`, `conn` | its task: queued, reading l.listener, in Accept, accepted, in OnConnection (handling the first packet, waiting for the lock of the id, taking it over), or the error in the channel `accept`; the connection it has |
| `dials`, `where` | connections the kernel has and Accept has not; where each client is, in a session or how the count of its session ended (`kept`, `twice`) |
| `id`, `locked` | `params.ID`; the ids whose container is locked |
| `work`, `workers` | the channel of the pool and its goroutines (len of `sem`) |
| `updater` | systreeUpdater |
| `shutdown` | the step of Shutdown that comes next |

Reading `l.listener` is a step of its own, since Close writes it without a lock. A
timeout of ScheduleTimeout changes nothing, and neither does the delay after a
temporary error. Stop waits for the count of every session (`Counted`): one that ends
because Stop asks it to gives it back (`away`), or keeps its container and nobody
gives the count back (`kept`), or Stop gives it back a second time (`twice`); which of
them is Sessions' business. What ends the work of a listener or of the
process for good are states of the model: a task that calls Accept of nil and a count given back
twice end the process (`Crashed`); a task whose client sends another packet before
CONNECT, or that waits for the lock of an id nobody will unlock (its CONNACK
failed), waits for ever (`Stuck`).

### Publishing (topics/memLockFree/topics.go, subscriber/subscriber.go)

The goroutines of the topics manager that take publishes from `inbound` and, for each
subscriber they find, acquire, publish under the read lock, and release; against
the goroutine of each session, which goes online, subscribes, unsubscribes, goes
offline, stops its writer and closes.

| state | in the code |
|---|---|
| `at` | the goroutine of the session, from off to gone |
| `connections`, `publisher`, `tx` | how many connections it has had; `s.publisher` (the connection it belongs to, 0 for OfflinePublish); `tx` of the last one |
| `subscribed` | the subscribers in the node |
| `access` | the wait group |
| `inbound`, `pc`, `msg`, `found`, `entries`, `target` | the channel, and of each publisher what it has taken, found, acquired and calls |
| `owed`, `got`, `late` | history: what a subscriber must get, what its connection or store got, who acquired a subscriber that Offline had already waited for |

What a call of a connection whose writer is nil does is a crash. Clean and Durable are
the two kinds of session; there is one filter, since filters have nothing to do with
each other here.

### Once (types/types.go)

`OnceWait` guards the close of a connection, `Once` what need not be waited for;
the constant `Waits` says which of the two it is. One process per caller: `pc`,
and `res`, the outcome of its compare-and-swap. `val`, `lock` and `wait` are the fields;
`calls` counts the calls of the function, `finished` says that the call has ended.
Every step of Do on a shared field is an action.

### Writer (connection/writer.go, flowControl.go, ack.go)

The writer of one connection from SignalOnline to getQueuedPackets. Its processes
are the publishers (each calls send once), the caller of start, the reader that
handles acknowledgements, whoever closes the connection, and the goroutines that
send, of which a predecessor may still be ending while its successor waits.

| state | in the code |
|---|---|
| `gMessages`, `qos0Messages`, `qos12Messages` | the queues (as sequences; see Queue) |
| `quota`, `counter`, `inUse` | `flow` |
| `pubOut` | `ackQueue.messages` |
| `running`, `wgRunSync`, `wg`, `quit` | the fields of that name |
| `batch`, `buf`, `failed` | locals of routine: packets popped, the bufio.Writer, `err` |
| `ack` | the packet onAck works on |
| `closing`, `stored` | progress of the close and what getQueuedPackets returns |
| `accepted`, `overrun` | history: the publishes in the order accepted; by packet id the one that was deleted from the ack queue with its predecessor (section 6) |
| `wire`, `read`, `acks`, `broken` | the network and the client |

Run is two steps (isAlive, then the compare-and-swap with wg.Add), the pop of a
QoS 1 or 2 packet two (out of the queue with an id, into the ack queue), ending five
(clear running, flush, look for more, run, Done), releasing four (load, free the id,
raise the quota, delete). In `PassBy` Stage2 passes a stop that the reader has
begun because of a DISCONNECT.

### Delivery (writer, subscriber, persistence)

A durable session over several connections. Where Writer cuts an operation into its
steps, Delivery takes it whole: a reload, a send, an acknowledgement, a store. It
says what is reloaded (`Newest`, `Others`: the last packets first, as many as the
count allows), what a reload does to quota and ids (`ReAcquired`), what is
persisted of the queues and the ack queue (`Encoded`, `UnAckPackets`) and where a
publish goes while the client is away (`PersistPublish`). The client answers
what it reads, in order, and remembers for each id the QoS 2 publish it has got and not
released (`pending`). Whatever else comes under that id it takes for the same publish
once more: `mistaken` are those with which it is wrong (section 6).

### Inbound (connection/reader.go, and onPublish, onAck, stage 2 of connection.go)

What a client sends. The reader's goroutine (`rpc`, with `pkt`, the packet it has in hand)
sets a deadline, reads, handles, and begins again; the close (`closing`) is stage 2
from SetReadDeadline to the end of onConnectionClose, begun by the reader itself or
by anybody else (`Begin`). The client sends each publish for the first time in any order.
After a reconnect it sends again all that is not acknowledged, in any order
(`Resent`); and it repeats, whenever it wants, a PUBLISH or PUBREL in the connection
it has (`ClientRepeats`), which lowers or raises rxQuota once more. Acknowledgements
and packets under way are lost when a connection breaks. Permissions are not in the
model because they are of no effect: the reason of a denial is below the bound that
onPublish compares it with (section 6).

| state | in the code |
|---|---|
| `deadline`, `keepAlive` | of the net.Conn, which the model knows as none, later or past; `reader.keepAlive` |
| `buffered` | how many packets the bufio.Reader holds, which are handled whatever the deadline |
| `pubIn`, `rxQuota`, `onStop`, `tx` | the fields of `impl` (`tx`: it is not nil) |
| `will` | `session.will` |
| `state`, `idOf`, `net`, `back`, `up` | the client and the network |
| `connections`, `repeats` | how often the client has connected, and repeated a packet: bounded |
| `unanswered` | history: PUBLISH packets of this connection less the PUBACKs and PUBCOMPs read |
| `published`, `dropped`, `willSent`, `left`, `passed` | history |

A reader that uses `s.tx` after the close has set it to nil ends the process (`rpc`
is "crashed"): OnDisconnect, SignalOffline and tx.stop are two steps for that.

### TopicTree (topics/memLockFree)

The tree behind subscriptions and retained messages. Its processes are the clients,
each of which has one request at a time at a goroutine of the manager (`pc`, `op`,
`want` and the place `at`, `kid` in the tree), the retainer, and the publishers. A
publisher searches the tree for subscribers, and a subscription, once it is in the tree,
for retained messages: both with a list of what is still to be looked at (`todo`), in
the order in which the recursions of subscriptionRecurseSearch and of
retainRecurseSearch come to it.

| state | in the code |
|---|---|
| `children`, `parent`, `kidsCount`, `subsCount`, `remove`, `wgDeleted`, `subs`, `retained` | the fields of node; nodes are numbers in the order in which they are created |
| `path` | the levels from the root to a node, which the code has in `levels` |
| `held` | `subscriber.subscriptions` |
| `kept`, `due`, `may`, `mixed` | history: what the retainer was told, what a search must and may find, whether an insertion and a removal have been under way together |

Every access to a counter, to the mark, to the wait group and to a map is a step. A
sync.Map's Range over the subscriptions of a node is one step, since each
entry is judged for itself; over children (of retainSearch) it comes to the levels it
has met in any order and loads each when it comes to it. Subscriptions have no parameters, so that a second
one to the same filter changes nothing. Of a WaitGroup the model has the
counter only.

### Ownership, Sessions (clients/, and the close in connection/connection.go)

`Ownership` is what the manager promises of a client id: it belongs to one connection at
a time, which takes it when it is free and keeps it until it releases it. `OwnershipSpec`
says that Sessions implements it, the owners of an id being its connections from
CONNACK to the end of their close.

One process per accepted connection, of which each owns at most one session,
one container and one subscriber, so that a connection names them all.

| state | in the code |
|---|---|
| `pc`, `box`, `current`, `resumed`, `present` | program counter and locals of OnConnection and loadContainer |
| `id`, `clean` | `params.ID`, `params.CleanStart` |
| `idLock` | the container whose lock `session.idLock` points to (container.swap redirects it) |
| `phase` | Acknowledge and the stages of the close |
| `stopReq`, `mySub`, `keep` | `session.stopReq`, `session.subscriber`, `keepContainer` |
| `locked`, `ses`, `sub`, `removable`, `removed` | the container |
| `topics` | whether a subscriber has subscriptions in the topics manager |
| `sessions`, `sessionsCount`, `persisted` | the map, the wait group, the persistence provider |
| `mgr`, `todo`, `visited`, `stopping` | progress of Manager.Stop and Manager.Shutdown: the ids Range has still to come to, the container it has handed out, the session Stop waits for |
| `fatal` | a panic outside every recover: the process is gone |
| `returned`, `swept` | history: the ids whose count Stop has given back; a container was removed after a CONNECT had found it and before it had pinned it |

Accepting is cut into a step wherever the code touches state shared with other
goroutines: LoadOrStore, acquire, setRemovable, session, stop, waiting for the
close, reading `removed`, swap, and so on. Closing is SignalOffline (Offline),
SignalConnectionClose (ConnectionClose) and sessionOffline (SessionOffline).
Stop visits the containers one by one as Range does, which loads a container (`Visit`)
before Stop looks at its session (`VisitIdle`, `VisitRunning`): a close may
come in between.

A client drops its connection at any time, a CONNECT comes at any time, and CONNACK may
fail. A connection that was asked to close, or whose writer has failed, is "talking"
until its reader has left (`FallsSilent`); the client may subscribe and unsubscribe
until then, and nobody makes it fall silent. The one window in which the lock of an id is
lost, and with it all that rests on the lock, is remembered in `swept`: most
properties hold until then, which is what they say; `ChangesAlone` says it without
the exception and fails (`sessions_race`). `clean` and `keep` of a session are forgotten when
its close has ended, so that a property about clean sessions does not speak of
earlier ones.

Several
connections are accepted at the same time only when the server has several
listeners (one listener serves its connections one after the other,
`transport/tcp.go`); the model allows it always.

`SessionsProofs` holds the inductive invariant and the theorems (section 5).

## 4. Runs

| run | shows |
|---|---|
| `queue` (MCQueue.cfg) | CapacityOK, FifoSpec. Smallest capacity 2, up to five elements of two values: the buffer grows twice, wraps at every size and shrinks back |
| `sessions` (MCSessions.cfg) | IdLock, SessionCurrent, CountOK, NeverFatal, NoOrphan, PresentOK, the refinement OwnershipSpec, DurableSurvives, Answered and StopTerminates; three connections under two ids, so that three can fight for one id or two while another uses the other id; clients that drop at any time, CONNACKs that fail, and a server that may be stopped |
| `sessions_race` (MCSessionsRace.cfg) | a violation of section 6: ChangesAlone, three connections under one id |
| `once` (MCOnce.cfg) | four callers of a OnceWait whose function may panic: CalledOnce, ReturnsAfterCall, AlwaysReturns |
| `writer` (MCWriter.cfg) | the safety of Writer: three publishes of QoS 1 and 2, quota 2 and two ids, so that the quota is used up, ids come round while they are being given back, and packets can overtake each other; a breaking network and a close at any time |
| `writer_live` (MCWriterLive.cfg) | Delivered, CloseEnds, for a publish of QoS 0 and one of QoS 1 |
| `delivery` (MCDelivery.cfg) | Delivery: four publishes, one of QoS 0, one of QoS 1 and two of QoS 2, over three connections, quota 2; Conserved (no publish lost or doubled in the broker, the window kept, the client wrong about a QoS 2 publish only after a disconnect), QueuedIsSent |
| `topics` (MCTopicTree.cfg) | TopicTree: three requests of two clients, the retainer and a publisher, in every interleaving; a filter above the topic, the topic itself and one with both wildcards, so that insertions pass through nodes that others fill and empty; Balanced; FindsAll: a publish, and the search of a new subscription for retained messages, finds nothing that does not match and, until an insertion and a removal have overlapped, all it must; NoneLost and MarkedIsCut with the same condition |
| `inbound` (MCInbound.cfg) | ExactlyOnce, NeverRefused, CloseInOrder, ReaderStops: one publish of QoS 1 and two of QoS 2 over two connections, with one more in flight than the receive maximum of one allows, a packet repeated within a connection, packets that may come with CONNECT, and a client that may ping at any time; ReaderStops holds of every client but one that pings for ever |
| `server` (MCServer.cfg) | Server: two listeners, a pool of two to three goroutines, two clients with one client id that dial as often as they want, Shutdown at any time: ClosedInOrder, Accepting, ShutdownEnds |
| `publishing` (MCPublishing.cfg) | Publishing: two publishes, two publisher goroutines, a subscriber of a clean session and one of a durable session with two connections: OnceEach, NoWriter, OfflineEnds |
| `topics_race` (MCTopicTreeRace.cfg) | the violation of section 6 |

Three connections are enough for a live one, one waiting for its close and one
waiting for the lock, which exhausts the states of a container; three are also what it
takes to lose a lock and have somebody come in by it. Two ids suffice since
containers of different ids share only the map and the wait group. Connections and ids
are numbered in the order in which they are first seen (`NumberedAsTheyCome`, an
action constraint): who comes is not in the fairness, so that every behaviour has one that
differs in names only. Connections do not come back, hence no deadlock check.

Fairness (`Fairness` in Sessions): weak fairness of each accepting goroutine, of
each close that has begun and of the manager's goroutine: the Go scheduler runs
every goroutine that can run. A mutex that is free is eventually taken by one of
those waiting; weak fairness suffices for Answered because no connection comes
back. No fairness is assumed of clients: nothing depends on their
sending or dropping anything. A close ends when the reader leaves its
read: ReaderStops of Inbound shows that it does when the client falls silent, and
section 6 that it need not otherwise. `FallsSilent` is therefore not fair, and
Answered and StopTerminates have the premise `AllFallSilent`: each client that was
asked to close falls silent in the end. Their exceptions are what the code does
not keep: an id left locked (LeftLocked), a lost lock (swept), a count nobody
gives back (Held), a crash (fatal).

Fairness of Once is that of the callers inside Do, strong for the lock, which is free
again and again. Fairness of Writer: every goroutine and every caller goes on, the
close goes on once begun, and the client reads and answers; Delivered depends on the
last, since without acknowledgements the quota stays used up. Delivery is fair to the
writer, the reader and the client, and does not make anybody disconnect; its run
stops when every publish is delivered and no connection is left, hence no
deadlock check.

Inbound is fair to the reader and to the close, not to client and network: a client
may fall silent at any point, hence no deadlock check. A read with a keep-alive interval
or on a broken connection is taken to fail in the end; one without either may
last for ever, unless a close ends it.

Server asks of its environment that a client whose connection was accepted sends its
CONNECT or meets the deadline of ConnectTimeout. That a session ends when a takeover
or Stop asks it to is no fairness of the model but the premise `AllFallSilent` of
Accepting and ShutdownEnds, the same as in Sessions. Three fairness conditions are strong. Schedule(l): the channel of the pool is
free again and again, but other listeners may fill it each time; a Go channel serves
those blocked in a send in the order they came. ScheduleTimeout gives up after a
millisecond and comes again at the end of that queue, so this is fairness of the
runtime and not a guarantee of the code; with PreSpawn goroutines, 100 against the one
listener of the server as it is started, the channel is never full for long.
Accept(l): a temporary error may come instead of a connection, though not for
ever. Acquire(l): the lock of an id is free again and again, and a sync.Mutex is handed
to the one that has waited for more than a millisecond. Nothing makes clients dial or the server shut down, hence no deadlock check.

Publishing is fair to the publishers and to a close that has begun, not to clients:
they need not subscribe, disconnect or publish anything. No deadlock check, since
its bounds (messages, connections) are used up.

In `server`, two listeners are what it takes to have a queued task wait for another
listener's, a goroutine more than PreSpawn to have select choose; each client
dials again after its session, so that every listener state meets a dial; both have
the one client id, so that each CONNECT may meet a lock or a session to take over. Three
action constraints: the listeners are added in order (they differ in nothing); one
of the clients dials the first listener only (`OneChanges`), which leaves two clients at one
listener, one at each, and one that changes between them; and the timer of the updater
goes off when the sessions are being stopped or later (`GoesOffLate`), since nothing looks at the
updater before. In
`publishing`, two publishes are two in flight at once, one for each goroutine, and the
second connection of the durable session lets a call made for the first find it.

In `topics`, three requests are what it takes to have something settled, something else
come or go, and a search meanwhile; two subscriptions of one node and a removal; or a
message stored, cleared and asked for. No walker is ever without a node to create
(`MaxNodes`): the run would end in a deadlock.

In `inbound`, the second connection and the repetition together send a publish or
PUBREL again after it has been sent again; two ids are used by three publishes, so that an id comes back
with another publish. With a receive maximum of one, a PUBLISH that is repeated, or whose
exchange a broken connection has cut off, leaves no quota for another. In `writer`, two goroutines suffice: SingleWriter shows that run always
finds an idle one. Goroutines are symmetric, and so are the QoS 1 publishes. The third publish
has to wait for an acknowledgement of the first two. In `delivery`, two QoS 2 publishes
are what it takes for an id the client still holds to come back with another publish;
three publishes with acknowledgements are one more than the quota, so that some are
reloaded from the ack queue and some from the queue; the third connection brings a
second reload.

Every property of a passing run has a mutant: a definition of the module next to the one it
replaces (Unreleased beside Released, and so on) that a plausible bug would turn
it into, under which TLC finds the property violated.

## 5. Proofs

`TypesProofs` proves about the queue, for every set of elements, every smallest
capacity and every bound on the length:

* `TypeCorrect`, `RingCorrect`: TypeOK and RingOK are invariants. RingOK is not
  inductive as it stands, since resize of a wrapped ring needs to know which
  element lies where: `IInv` says that the places from `head` on hold elements
  and all others Nil (`Ring`). RingAdd, RingRemove and RingResize are lemmas about
  the operators alone, stated of any ring.
* `QueueImplementsFifo`: Spec => FifoSpec. Each step lemma says what the step
  does to the item `k` places behind the head; AddRefines, RemoveRefines and
  GetRefines turn this into Append, Tail and indexing of the sequence `Content`.

* `CapacityCorrect`: the capacity is the smallest one, doubled some number of times. The
  capacities are a recursive function (`Doubled`). That there is such a function
  (DoubledExists), and that it stays ahead of its argument, so that the bound on
  the length is never short of a capacity (DoubledGrows), are shown for the least
  number for which they fail, because the library's induction is out of the prover's reach.
  A full ring grows to the next capacity. One that shrinks is above the smallest and
  therefore not the first: half of it is the capacity before.

`SessionsProofs` proves, for any number of connections and ids, whatever clients and
network do and with the server stopped at any time, the safety of the run `sessions`. It has
two layers. What holds in every reachable state, after a lost lock too:

* `TypeCorrect`, from `TInv`: which containers, ids and connections belong together, and
  what is at rest once Stop has begun.
* `PresentCorrect`, from `PInv`: that who has subscriptions is persisted
  (SubscribersOK) is what makes CONNACK right.
* `CountCorrect`: the wait group. It needs the sets of connections and ids to be finite
  (FiniteAssumption), and that Stop comes to each id once (StopOK).

And what holds until a lock is lost, from `IInv` and `SInv`, each with the hypothesis ~swept in
the invariant itself (`Guarded`):

* `IdLockCorrect`, `SessionsCurrent`, from `IInv`, of which OneConnection is a part too. They
  depend on each other: an id is exclusive because the lock is that of the container in the
  map (BoxOK, LockOK, TableOK); the container stays in the map because whoever is past
  acquire pins it (BoxOK), and what sessionOffline removes is a container nobody has found
  (OfflineContainer; that is what ~swept says); which in turn needs the session found in
  the container to be live or dead for good (TakeoverOK, SessionOK, SessionCurrent).
* `SessionsImplementOwnership`: Spec => OwnershipSpec. Acknowledge is Take, since
  OneConnection, which holds after it, leaves no other owner; SessionOffline is Release;
  of all other steps SameOwners says that they change no owner: what they do
  to `phase` stays on one side of Live (TakeoverOK and SessionOK for the
  connections that takeover and Stop close).
* `NoCrash`: unlocking a free mutex is excluded by LockOK, a counter below zero by CountCorrect,
  since a container in the map has been counted before its session can end (BoxOK, LockOK); what
  remains is Stop (StopCrashes).
* `NoOrphanCorrect`, `DurableSurvivesCorrect`, from IInv together with
  `SInv`, which is about subscribers. A subscriber carries the name of the connection
  that brought it, and that connection's container never changes again: so no two
  containers share one (SubOK, OneSubscriber), and what one client does to its subscriptions
  is nobody else's loss. While a connection serves it uses the subscriber of its own container; once
  its close has decided, the container is kept with subscriptions or has no subscriber
  left (EndingOK). A container that is not removable has a connection that pinned it
  (PinOK): the use that NoOrphan asks for.

There is one lemma per action and invariant. TLC checked IInv and SInv before the proofs
were begun.

`TypesProofs` proves about the once types, for any number of callers: `OnceTypeCorrect`, `CalledOnceCorrect`,
and, under `Waits`, `WaitsForCall`. The inductive invariant adds to the three that
the lock is held by the one caller between lock and unlock (LockOK), that at
most one caller has won (WinnerOK), that the wait group is one exactly while the
winner is between Add and Done (WaitOK), and that nobody is past unlock before the
winner has added itself (EarlyOK): this is why the code holds the lock around
compare-and-swap and Add.

`WriterProofs` proves, for any publishes, quota and number of packet ids and any
finite number (at least two) of names for goroutines: `SingleWriterCorrect` and
`SilentCorrect`. `IInv` is about running, wgRunSync, wg and the close only. HandOver
says that running stands for one goroutine at most (Runs), that wgRunSync counts one
at most (Synced) and that nobody is past its wait for the previous one meanwhile:
this is why Sync may be followed by a separate Check. Counted says that wg is the
number of goroutines that have not ended, whatever is started by callers between
isAlive and the compare-and-swap, and CloseOK that by the time quit is closed
only goroutines can be such callers: together they show that nobody is left when
wg.Wait returns. SilentCorrect does not hold without the condition `~passed` (PassBy).

On top of the protocol come layers that each use the ones before; TLC checked each
on the run `writer` before it was proved:

* `PlacesInductive`: `Shape` (what the queues, the hands of the goroutines and the reader
  hold at each step, which is TypeOK and more) and `Places`. Every packet is in one
  place at most from the queue to the network and back (OnceOK, OnePlace), and where it
  has an id, the id is its own and in use (IdsOK), so that `inUse` and the quota
  move together (QuotaOK). That an id in use is never given back twice is the heart of it:
  an acknowledgement is on its way only for an id whose packet has left the hands of
  the goroutine. From it: `BalancedCorrect`, with which TypeOK, and
  `AcksFindTheirPacketCorrect`.
* `OrderInductive`: the publishes in `accepted` are distinct (AcceptedOK), and there are
  numbers w <= u <= n such that the first w are on the wire, those up to u in the buffer of
  the one goroutine that writes, the next in its batch, and the rest in the queue (OrderOK); what is
  missing in between, a broken connection or a close that passed by accounts for. From it:
  `InOrderCorrect`.
* `NoLostWakeupCorrect`: as long as packets are available, someone is at a step after
  which it looks at the queues or calls run (WakeOK), and `running` is never left set
  by nobody (RunStands).
* `NothingLostCorrect`: TraceOK says that a publish on its way to the client is in the
  ack queue under the id it carries, or is just being stored there (CarriedOK), that what
  has been answered under an id the client has read (AnsweredOK), and that what a goroutine
  overwrites in the ack queue is an answered publish (KeepsOK); SafeOK that what was accepted and not read is in a
  queue, in a hand, in the ack queue or among what was persisted.

`ServerProofs` proves `ClosedInOrderCorrect` for any number of listeners and clients
and any pool. StepOK says what has come to its end by each step of Shutdown; a listener
that is added late is no harm because Serve, which finds the pool closed, has returned
before it uses anything (TaskOK, WorkOK: a task is under way only while its Serve waits
for the answer, and the channel of the pool holds one at most).

`PublishingProofs` proves, for any finite set of publisher goroutines, any subscribers,
connections and publishes:

* `NoWriterCorrect`. The read lock keeps what a publisher is about to call the
  publisher of the subscriber (CallOK: Online, and Offline of a durable session, wait
  for it). For a clean session, for which Offline leaves the publisher alone, what
  counts is that `access` is the number of publishers that hold the subscriber
  (AccessOK, a cardinality), so that access.Wait ends when nobody does; whoever holds
  it later came later (LateOK).
* `OnceEachCorrect`, from the same invariant with Counted: publishes are taken
  in the order they are sent (MsgOK), and one that is owed to a subscriber is in the
  channel, or with a publisher that will bring it to the subscriber, or delivered,
  and it is never delivered while one brings it (GotOK). A publisher that finds a
  writer stopped loses nothing that is owed (OwedHasWriter).

`InboundProofs` proves, for any finite sets of publishes, any number of packet ids and
connections, any receive maximum and any window of the client:

* `ExactlyOnceCorrect`, from IdsOK (an id belongs to one publish in flight), WayOK, OrderOK,
  StoredOK, OnceOK. Any number of copies of a packet may be on their way. WayOK says that
  each of them, and each acknowledgement, is due: a PUBLISH of QoS 2 finds its publish in flight and
  not forwarded, a PUBREL finds it released, a PUBREC that what it answers has been stored, a
  PUBCOMP that nothing is stored any more. What keeps it so is the order: behind a PUBREL no PUBLISH with its id is on its
  way, nor behind a PUBCOMP (OrderOK), because a client that has got PUBREC
  repeats PUBREL only, and a packet id is not used again while a packet with it is on its
  way (`Unused`). StoredOK says that what pubIn holds under an id is the publish that has the
  id, and has not been forwarded; OnceOK that a publish answered with PUBREC is in pubIn, forwarded or
  dropped (Kept).
* `NeverRefusedCorrect`, an action property, from QuotaOK: the quota and the PUBLISH packets
  without an answer are never short of the receive maximum, counting the publishes that have still to lower the
  quota and the last acknowledgements the client has still to read. The
  publish in hand is one of the former: if the quota is nothing, more are
  without an answer than the maximum.
* `CloseInOrderCorrect`, from CloseOK: the Once around the stop has been used before the close
  stops the reader only if the reader has met a DISCONNECT; whether the close has waited is what decides
  who takes s.tx and the will.

`IInvCorrect` is the inductive invariant itself.

`TopicTreeProofs` proves, for any finite set of clients, any filters, topics and number
of nodes, and with no condition on what overlaps: `TypeCorrect` and `BalancedCorrect`. A
counter is one of three sorts of sets of walkers: those that hold a node (Holding), that have
raised its number of children (Raising), that are about to cut it off (CuttingOff);
the number of those that are about to delete a subscription they no longer count is
the fourth (Deleting). A step changes each of these by the walker that makes it
(CountsMove), and the counter by as much (CountsStep, CountOK). For that a walker has to be where
it counts: TreeOK says that nodes and paths are a tree, in which children come after their
parents, and WalkOK that a walker is on the way to the node it wants, at the end of it
where it stores, and that the subscription it is about to delete is there, so that
no counter drops below zero. Balanced counts levels, where the code counts
attempts to insert; kidsCount is never short of the nodes created below, linked or not
(Kids).

On it rests a second induction, Apart, for `MarkedIsCutCorrect` and `NoneLostCorrect`. It
holds as long as no insertion and removal have overlapped (`ApartCorrect`: ~mixed => Apart), so
that those at work are all insertions or all removals (PhaseOK, which only the environment can
end). It is about the nodes that their parents still have (Linked). What keeps them a tree is
that a parent counts a child for ever (Balanced, Kids), so that a node that ever was one never
looks empty: the parent of every node is linked, and no two linked nodes have the same
path (LinkOK). What nodes hold is in linked nodes (ContentOK). Insertions stand at linked
nodes only (InsertOK); a removal stands at one, or at one that another removal has cut
off and left an empty place, and what it has found empty stays so (RemoveOK); whoever
marks a node goes on to cut it off (MarkOK). SubsOK and RetainedOK say the rest of NoneLost with
a linked node that has the path for what NodeAt finds. NodeAtIs connects them: the way down from the root
ends at the linked node with the path, if there is one, and at none otherwise. It is proved by the
least level at which the two part, because induction over the levels is out of the prover's reach.
The condition ~mixed is not for the proof's sake: without it the code loses
subscriptions (AlwaysKept, the run `topics_race`).

A third induction is for `FindsAllCorrect`. Its first half, SearchOK, holds whatever
overlaps. It is about the nodes that can be reached from the root at all, linked or not
(Reach; Bare are those below which a walker holds nothing): a subscription that is to be
removed is nowhere but at the node the removal is looking for (LooksOK), and what can be
found is what clients have, or are about to have or to give up (NotedOK). So a
search, which only follows links, finds nothing that it must not
(PublisherOK, ClientOK). The second half, DuesOK, holds while ~mixed: what is due has been
found, or lies ahead of an entry of `todo` whose node is linked (DueOK, RetainedDueOK). Nodes
with something below them stay linked, by Apart; a step of the search puts the
children that lie ahead in place of the entry it takes.

The theorem has a hypothesis, `Plain`: the filters and topics are such that the code reads
them as the specification does. The "#" of a filter is at its end; a filter does not
begin with "+" where a topic begins with "$" (node.go:277), and has no "#" for a topic's empty
level (node.go:213, 301). Without it FindsAll need not hold (section 6). TLC evaluates it on
the run (`PlainFilters` in MCTopicTree).

`DeliveryProofs` proves, for any publishes, quota, number of packet ids and number of
connections: `ConservedCorrect`. `IInv` counts. A QoS 1 or 2 publish waits, in the queue
or in a list of the store, or is in the ack queue under an id: one place in all, or the client
has had it (PlacesOK). About each id one packet or acknowledgement at most is on its
way, and it is about what the ack queue has under that id (ExchangeOK): this is what
makes an acknowledgement remove what the client has had and nothing else. What
waits or is on the wire has not been read in this connection (ReadOK), so that each
connection brings a publish once at most. As long as there has been one
connection only, an id that the client holds has its release on the way
(PendingOK); so nothing comes under it before, and nobody is mistaken. That the client never
has more to acknowledge than the window (WindowOK) does not follow from the sum of quota
and open packets, since reloads take the quota below zero: sending needs a positive
quota, and nothing else opens an id. The lemmas on counting (a packet appended, taken,
moved from one list to another, a list reversed or cut in two) are shown by
bijections between the places, since induction over sequences is out of reach.

Every invariant that a passing run checks is proved by now. What is proved with a hypothesis is
ReturnsAfterCall (`Waits`) and FindsAll (`Plain`). What remains with
TLC is liveness.

Liveness (Answered, StopTerminates, AlwaysReturns, Delivered, CloseEnds, QueuedIsSent,
ReaderStops, Accepting, ShutdownEnds, OfflineEnds) is out of the prover's reach and only
model checked.

## 6. Where code and documentation part

* `sessions_race`, against sessions.go:539, "lock id to prevent other
  incoming connections with same ID making any changes until we done": a client
  drops while a second connection takes its id over, after LoadOrStore has found the
  container and before setRemovable(false). The close removes the container; loadContainer
  then stores the new container, whose lock it has already given up, and still holds the lock
  of the removed one, for good. A third connection gets the new container's lock at once: two
  connections are accepted under one id (`ChangesAlone`). What follows is behind `swept` in the other
  properties: the second ses.start unlocks a free mutex, which ends the process; or two
  connections of one id are live, one of them with no container that leads to it; or a CONNECT
  that finds the id taken again is refused (StoreAgain, Refuse).
* `topics_race`: an insertion and a removal that meet on one node. A new node is in the
  tree before its inserter has counted itself on it; on an inner node the
  inserter lets go before it has counted the child. A removal that looks at that
  moment, be it of a filter its client does not have, cuts the node off: the
  subscription is acknowledged, is in no tree, and is not found when it is to be
  removed. In the run two clients subscribe to and unsubscribe from one filter.

Met while translating, and built into the models, without a run of their own:

* QoS 1 and 2 publishes persisted while the client was away are reloaded only if there
  were also unacknowledged packets, and only as many (writer.go:106); the later loading
  is commented out, though writer.go:358 still says "when no messages to transmit see
  if persistence has anything". They stay in the store (`Newest` of Delivery).
* connection.go:675, "gracefully shutdown receiver by setting some small ReadDeadline".
  The reader sets its own deadline before each packet
  (reader.go:71-75). If the close sets the short one while a packet is handled, the
  keep-alive interval takes its place, and does so again with every packet: the
  close, and a takeover waiting for it, last as long as the client sends
  something, be it PINGREQ, within each interval (the premise of ReaderStops, and
  AllFallSilent in Sessions and Server).
* volantmq.go:66, "Shutdown terminates the server by shutting down all the client
  connections and closing configured listeners. It does full clean up". If tcp.Close
  falls between two tasks of a listener, or on one that is in a handshake, Serve,
  which does not look at quit, schedules another; it calls Accept of the listener
  that is nil by now, in a goroutine of the pool without a recover: the process
  ends before sessions and topics are shut down (`Crashed` in ShutdownEnds).
* A first packet that is not CONNECT is an error that connectionRoutine only logs
  (reader.go:101-103). OnConnection waits for `connect` for ever, base.go:98 says
  "Exit regardless of error type": the listener accepts nobody any more, and
  Shutdown does not return (`Stuck` in Accepting and ShutdownEnds).
* A connection accepted after close(l.quit) is not closed (tcp.go:134; `leaked`), and
  neither is one newConn fails for.
* systreeUpdater has a select and no loop: the system topics are published once.
* A listener that is added after Shutdown is opened, found closed out by the pool and never
  closed (PoolIsClosed).
* The select of pool.schedule may queue a task although another goroutine could be
  started. With fewer goroutines to begin with than listeners (PreSpawn) the task
  waits for those of other listeners, which wait for clients (the premise of
  Accepting).
* "prevent subscriber being deleted before active writes finished"
  (subscriber.go:63): a publisher that has read a subscriber from its node and has not
  acquired it yet is not waited for. It then publishes to a connection whose
  writer is nil and ends the process, there being no recover (`late` in NoWriter).
* Two publisher goroutines deliver the publishes of one client in any order, against
  what MQTT asks of ordered topics. TLC finds it with the first two publishes; no
  comment or test of the code promises an order.
* SignalPublish sends a retained publish to the retainer first and to the publishers
  then, and each goes about it in its own time. A client that subscribes in between
  may be too late for the publisher and too early for the retainer, and gets
  neither ([MQTT-3.3.1-5], topics.go:244).
* Packets that arrive together with CONNECT, which a client may send before CONNACK, are
  in the buffer of connectionRoutine and lost (`Unread`); those of QoS 1 and 2
  come again with the next connection, unless the client repeats them before.
* When CONNACK cannot be written nobody calls ses.start, and the id stays locked for
  good (`AcknowledgeFails`; LockedByLoader of IdLock and LeftLocked of Answered): each
  later CONNECT of that id waits at sessions.go:540, and so does the listener that
  brought it (`Stuck` in Server). If Stop comes to such a session it calls a writer that is
  nil, which ends the process (`Dead`, StopCrashes).
* volantmq.go:66 again: Manager.Stop never returns if a durable session with
  subscriptions was connected when it began, since the close of that session keeps the
  container and calls no sessionsCount.Done (`Held` in StopTerminates, `kept` in Server).
* Manager.Stop gives a count back that the close of the session has given back: Range has
  loaded the container, the close then clears its session, deletes it and calls Done, and Stop
  finds no session and calls Done as well (sessions.go:181, 757). The counter is below zero, which
  ends the process, or Stop returns before another session has ended (StopCrashes in NeverFatal,
  `twice` in Server).
* connection.go:763-765 names two ways to deal with a publish that a client of version 3.1.1
  may not send: "ignore the message but send acks" or "return error leading to disconnect". The
  code takes neither. The reason of a denial is CodeRefusedNotAuthorized, 0x05, and what it
  is compared with is CodeUnspecifiedError, 0x80: so a QoS 2 publish is stored and forwarded at PUBREL
  (connection.go:787), and a QoS 1 publish falls through to publishToTopic (connection.go:807; the
  TODO at 815 leaves QoS 0 open). For this reason Inbound has no permissions.
* A QoS 2 PUBLISH that is repeated in a connection lowers rxQuota a second time
  (connection.go:776), though it is one publish in flight. PUBREL raises it once. A client that
  repeats is refused sooner than its publishes in flight would have it: NeverRefused counts
  PUBLISH packets for that reason.
* queue.go:70, "This call panics if the queue is empty", and queue.go:104, "If the queue is empty,
  the call will panic": Peek and Remove return nil (queue.go:77, 111), and the writer relies on
  it (writer.go:377, 386, 534). `Empty` of Queue is what the code does, and Fifo
  allows it.
* A panic in the function of OnceWait leaves everybody else waiting, against the
  comment on Do: wait.Done is not deferred (`Panic`, and the exception in
  AlwaysReturns). Once has the comment of OnceWait, but waits for nobody.
* A takeover during a DISCONNECT does not wait for the writer to stop (`PassBy`);
  the publish a goroutine has in hand is then lost: the exception in NothingLost.
* OfflineQoS0 does not keep QoS 0 publishes from being persisted while the client is
  away (`PersistPublish`), against connection/options.go:31.
* An acknowledged packet gives back its id before it is deleted from the ack queue. If
  the writer takes that id in between, the entry of the new packet is deleted:
  its acknowledgement is ignored, quota and id stay taken, and a disconnect does not
  persist it. Ids are handed out in turn, so it takes a packet that stays
  unacknowledged until the ids have come round to its own; with as many ids as quota, which is
  what versions up to 3.1.1 have, a quota that is used up will do. `overrun` remembers
  these publishes; Balanced, AcksFindTheirPacket and NothingLost except them and no others.
* A PUBREL that was not answered before a disconnect is reloaded into the queue of
  publishes, where it makes the writer panic (`SendUnexpected`).
* The comment of Once says "no call to Do returns until the one call to f returns"
  (types.go:92), and onStop relies on it. It does return: a takeover passes by a
  reader that is in its DISCONNECT, publishes the will or does not, and sets s.tx to nil
  under it, which ends the process (the condition `passed` of CloseInOrder).
* A QoS 2 publish between PUBREC and PUBREL is dropped by the close (`Clear`), although
  the session goes on: the PUBREL of the next connection is answered with PUBCOMP and
  nothing is published (the condition `dropped` of ExactlyOnce). The same PUBREL
  raises rxQuota above the receive maximum.
* What is sent again is never marked as a duplicate (`UnAckPackets`).

TopicTree shows four more. "+" at the beginning of a filter leaves out what begins with
"$" when publishes are matched, but not in the search for retained messages
(node.go:277; "#" does, node.go:301): FindsAll fails as soon as `System` has a level and
`Filter` "+" in front (`Plain` excludes it from FindsAllCorrect). A subscription that begins with "$" takes its node for granted
(node.go:308): if a removal that has overlapped with it has cut that node off, nil is
dereferenced in a goroutine without a recover (`Panic`). Then: a removal that finds a
node held at its second look leaves it in the tree with its mark, and insertions below
it then back off and try again for ever (the condition `~mixed` of MarkedIsCut); and the
count of children is not lowered when a child is cut off, so that a node that has had
children is never removed (Balanced has `>=` for it; node.go:176, "If both are empty
tell parent node to remove that token").

Delivery also shows, without a comment or a test that says otherwise: each reload
of unacknowledged packets takes their number off the quota for good, since they are
sent under new ids (so that with a small receive maximum nothing is sent any
more: the condition `Reserve > 0` of QueuedIsSent); a QoS 2 publish sent again under
a new id reaches the application twice; reloads go from the newest to the oldest. And
ids begin again with each connection: if the client holds an id whose QoS 2 publish it
has not released, another QoS 2 publish, be it a reloaded one, may get that id; the client
takes it for the one it has and acknowledges it, and its application never gets it (`mistaken`,
the exception in Conserved; [MQTT-4.4.0-1] has a client's session resumed with the
original ids).

## 7. Not modelled

* Refusing a CONNECT instead of taking its id over (sessions.go:548-560): `common.SessionDups` is a variable
  of the package that is TRUE and that nothing assigns, the configuration included.
* Code that `common.VERSION`, which enables versions up to 3.1.1, leaves dormant: session
  expiry and its timers (`clients/expiry.go`), delayed wills, receive maximum of
  the client, topic aliases, re-authentication, reason codes.
* Persisted state across processes: loading sessions and retained messages at start and
  storing them at the end. The provider that is linked in keeps everything in memory,
  so that a new process finds nothing.
* The parameters of subscriptions (granted QoS, No Local, identifiers) and what a second
  subscription to the same filter does to them.
* Authentication (an answer of yes or no before loadContainer), systree counters,
  the HTTP server, configuration, logs, the packet codec, `orm/`, the vendored
  libraries: no control of their own that the broker's state depends on.

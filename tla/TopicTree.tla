------------------------------ MODULE TopicTree ------------------------------
(***************************************************************************)
(* The topics manager (topics/memLockFree): a tree of nodes, one for each  *)
(* level of a topic filter, holding subscriptions and retained messages.   *)
(* Its goroutines insert and remove without a lock; what keeps them apart  *)
(* are the counters of a node, its flag "remove" and the wait group of     *)
(* those that are removing it. Every access to one of these is a step.     *)
(***************************************************************************)
EXTENDS Naturals, Sequences, FiniteSets

Seqs == INSTANCE SequencesExt

CONSTANTS
  Client,       \* the subscribers
  Retainer,     \* the goroutine that stores retained messages
  Publisher,    \* the goroutines that publish
  Filter,       \* topic filters: sequences of levels
  Topic,        \* topics published to
  System,       \* the levels that begin with "$"
  Message,      \* what is retained
  None,
  MaxNodes,     \* bound: nodes ever created
  MaxRequests   \* bound: requests of clients and of the retainer, and publishes

MWC == "#"
SWC == "+"

LevelsOf(f) == {f[i] : i \in DOMAIN f}
Level == {MWC, SWC} \cup UNION {LevelsOf(f) : f \in Filter \cup Topic}
Root == 0
Node == Root .. MaxNodes
Walker == Client \cup {Retainer}
Searcher == Publisher \cup Client

ASSUME TopicTreeAssumption ==
  /\ Retainer \notin Client \cup Publisher /\ Publisher \cap Client = {}
  /\ None \notin Message \cup Node /\ None \notin Level
  /\ MaxNodes \in Nat /\ MaxRequests \in Nat
  /\ \A t \in Topic : LevelsOf(t) \cap {MWC, SWC} = {}
  /\ <<>> \notin Filter \cup Topic
  /\ \A f \in Filter \cup Topic : f \in Seq(LevelsOf(f))
  /\ IsFiniteSet(Client)

VARIABLES
  children, parent, path,           \* the tree; path: the levels from the root
  kidsCount, subsCount, remove, wgDeleted,
  subs, retained,                   \* what a node holds
  nodes,                            \* how many nodes have been created
  pc, op, want, at, kid, existed,   \* each walker: its request and its place
  held,                             \* subscriber.subscriptions, by client
  kept,                             \* what is to be retained, by topic
  mixed,                            \* an insertion and a removal have overlapped
  requests,
  topic,                            \* what each publisher publishes to
  todo, found,                      \* each publisher or client: the search
  due, may                          \* what it must find, what it may find

treeVars   == <<children, parent, path, nodes>>
countVars  == <<kidsCount, subsCount, remove, wgDeleted>>
walkVars   == <<pc, op, want, at, kid, existed>>
clientVars == <<held, kept, mixed, requests>>
searchVars == <<topic, todo, found, due, may>>
vars == <<treeVars, countVars, subs, retained, walkVars, clientVars, searchVars>>

Init ==
  /\ children = [n \in Node |-> [l \in Level |-> None]]
  /\ parent = [n \in Node |-> None] /\ path = [n \in Node |-> <<>>]
  /\ kidsCount = [n \in Node |-> 0] /\ subsCount = [n \in Node |-> 0]
  /\ remove = [n \in Node |-> FALSE] /\ wgDeleted = [n \in Node |-> 0]
  /\ subs = [n \in Node |-> {}] /\ retained = [n \in Node |-> None]
  /\ nodes = 0
  /\ pc = [w \in Walker |-> "idle"] /\ op = [w \in Walker |-> "none"]
  /\ want = [w \in Walker |-> <<>>]
  /\ at = [w \in Walker |-> Root] /\ kid = [w \in Walker |-> Root]
  /\ existed = [w \in Walker |-> FALSE]
  /\ held = [c \in Client |-> {}] /\ kept = [t \in Topic |-> None]
  /\ mixed = FALSE /\ requests = 0
  /\ topic = [p \in Publisher |-> <<>>] /\ todo = [s \in Searcher |-> <<>>]
  /\ found = [s \in Searcher |-> {}]
  /\ due = [s \in Searcher |-> {}] /\ may = [s \in Searcher |-> {}]
-----------------------------------------------------------------------------
(* Topic filters *)

\* What a filter matches: "#" is "the parent and all children levels", "+" "all
\* names in the current level", a system topic is matched by its name only.
Matches(f, t) ==
  LET n == Len(f)
      Same(i) == f[i] = SWC \/ f[i] = t[i]
  IN /\ t[1] \in System => f[1] = t[1]
     /\ IF f[n] = MWC
        THEN Len(t) >= n - 1 /\ \A i \in 1 .. n - 1 : Same(i)
        ELSE Len(t) = n /\ \A i \in 1 .. n : Same(i)

\* The node a path leads to.
NodeAt(p) ==
  LET walk[i \in 0 .. Len(p)] ==
        IF i = 0 THEN Root
        ELSE IF walk[i - 1] = None THEN None ELSE children[walk[i - 1]][p[i]]
  IN walk[Len(p)]

-----------------------------------------------------------------------------
(* Requests. A client waits for the answer to one before it makes the next.   *)
(* There are two goroutines for subscribing and two for unsubscribing: with   *)
(* two clients none has to wait for one.                                      *)

Inserts == {"subscribe", "store"}
Removes == {"unsubscribe", "clear"}
Busy == {w \in Walker : pc[w] # "idle"}

\* Whether, with this request, insertions and removals are under way together;
\* "replace" is a removal and then an insertion.
Mixes(o) ==
  LET all == {o} \cup {op[w] : w \in Busy}
  IN ~(all \subseteq Inserts \/ all \subseteq Removes \/ Busy = {})

Goto(w, step) == pc' = [pc EXCEPT ![w] = step]

Request(w, o, f, first) ==
  /\ pc[w] = "idle"
  /\ requests < MaxRequests
  /\ requests' = requests + 1
  /\ op' = [op EXCEPT ![w] = o]
  /\ want' = [want EXCEPT ![w] = f]
  /\ Goto(w, first)
  /\ mixed' = (mixed \/ Mixes(o))
  /\ UNCHANGED <<treeVars, countVars, subs, retained, at, kid, existed>>

\* What searches that are under way may find from now on, or need not any more.
Searching == {s \in Searcher : todo[s] # <<>>}
With(who, x)    == [s \in Searcher |-> IF s \in who \cap Searching THEN may[s] \cup {x} ELSE may[s]]
Without(who, x) == [s \in Searcher |-> IF s \in who THEN due[s] \ {x} ELSE due[s]]

Subscribe(c, f) ==
  /\ Request(c, "subscribe", f, "raise")
  /\ may' = With({p \in Publisher : topic[p] # <<>> /\ Matches(f, topic[p])}, <<c, f>>)
  /\ UNCHANGED <<held, kept, topic, todo, found, due>>

UnSubscribe(c, f) ==
  /\ Request(c, "unsubscribe", f, "seek")
  /\ due' = Without(Publisher, <<c, f>>)
  /\ UNCHANGED <<held, kept, topic, todo, found, may>>

\* retain: an empty payload clears, QoS 0 clears before it stores.
Retain(t, o, m) ==
  /\ Request(Retainer, o, t, IF o = "store" THEN "raise" ELSE "seek")
  /\ kept' = [kept EXCEPT ![t] = m]
  /\ due' = Without(Client, t)
  /\ may' = With({c \in Client : pc[c] = "collect" /\ Matches(want[c], t)}, t)
  /\ UNCHANGED <<held, topic, todo, found>>

Forget(s, set) == [r \in Searcher |-> IF r = s THEN {} ELSE set[r]]

\* The answer: the client notes what it has subscribed to.
Answer(w) ==
  /\ pc[w] = "answer"
  /\ Goto(w, "idle")
  /\ op' = [op EXCEPT ![w] = "none"] /\ want' = [want EXCEPT ![w] = <<>>]
  /\ at' = [at EXCEPT ![w] = Root] /\ kid' = [kid EXCEPT ![w] = Root]
  /\ existed' = [existed EXCEPT ![w] = FALSE]
  /\ held' = CASE op[w] = "subscribe"   -> [held EXCEPT ![w] = @ \cup {want[w]}]
               [] op[w] = "unsubscribe" -> [held EXCEPT ![w] = @ \ {want[w]}]
               [] OTHER                 -> held
  /\ found' = Forget(w, found) /\ due' = Forget(w, due) /\ may' = Forget(w, may)
  /\ UNCHANGED <<treeVars, countVars, subs, retained, kept, mixed, requests,
                 topic, todo>>
-----------------------------------------------------------------------------
(* retainSearch, in the goroutine that has just put a subscription into the   *)
(* tree: along the filter, or through all there is below "#", depth first.    *)

\* What is still to do, in order.
ToDo(step, n, l, all) == [step |-> step, node |-> n, level |-> l, all |-> all]
Child(n, l, all) == ToDo("child", n, l, all)
Children(n, all) == ToDo("children", n, None, all)
Retained(n)      == ToDo("retained", n, None, TRUE)

\* At a node: allRetained, or retainRecurseSearch with the rest of the filter.
Arrive(n, f, all) ==
  LET rest == SubSeq(f, Len(path[n]) + 1, Len(f))
  IN IF all THEN <<Retained(n), Children(n, TRUE)>>
     ELSE IF rest = <<>> THEN <<Retained(n), Child(n, MWC, TRUE)>>
     ELSE CASE rest[1] = MWC -> <<Retained(n), Children(n, TRUE)>>
            [] rest[1] = SWC -> <<Children(n, FALSE)>>
            [] OTHER         -> <<Child(n, rest[1], FALSE)>>

\* What it must find is what was retained before and is not replaced meanwhile.
BeginSearch(c) ==
  /\ Goto(c, "collect")
  /\ LET f == want[c]
         fits == {t \in Topic : Matches(f, t)}
     IN /\ todo' = [todo EXCEPT ![c] = IF f[1] = MWC THEN <<Children(Root, TRUE)>>
                                       ELSE Arrive(Root, f, FALSE)]
        /\ due' = [due EXCEPT ![c] = {t \in fits : ~mixed /\ kept[t] # None /\ want[Retainer] # t}]
        /\ may' = [may EXCEPT ![c] = {t \in fits : kept[t] # None \/ want[Retainer] = t}]

-----------------------------------------------------------------------------
(* leafInsertNode: down the levels, creating the nodes that are missing *)

Add(count, n, d) == [count EXCEPT ![n] = @ + d]
Sub(count, n, d) == [count EXCEPT ![n] = @ - d]
NextLevel(w) == want[w][Len(path[at[w]]) + 1]
AtLeaf(w, n) == Len(path[n]) = Len(want[w])

\* The child is counted before it is known whether it is new.
Raise(w) ==
  /\ pc[w] = "raise"
  /\ kidsCount' = Add(kidsCount, at[w], 1)
  /\ Goto(w, "load")
  /\ UNCHANGED <<treeVars, subsCount, remove, wgDeleted, subs, retained, op, want,
                 at, kid, existed, clientVars, searchVars>>

LoadChild(w) ==
  /\ pc[w] = "load"
  /\ LET n == children[at[w]][NextLevel(w)] IN
       /\ n # None
       /\ kid' = [kid EXCEPT ![w] = n]
  /\ existed' = [existed EXCEPT ![w] = TRUE]
  /\ Goto(w, "count")
  /\ UNCHANGED <<treeVars, countVars, subs, retained, op, want, at, clientVars, searchVars>>

StoreChild(w) ==
  /\ pc[w] = "load"
  /\ children[at[w]][NextLevel(w)] = None
  /\ nodes < MaxNodes
  /\ nodes' = nodes + 1
  /\ children' = [children EXCEPT ![at[w]][NextLevel(w)] = nodes']
  /\ parent' = [parent EXCEPT ![nodes'] = at[w]]
  /\ path' = [path EXCEPT ![nodes'] = Append(path[at[w]], NextLevel(w))]
  /\ kid' = [kid EXCEPT ![w] = nodes']
  /\ existed' = [existed EXCEPT ![w] = FALSE]
  /\ Goto(w, "count")
  /\ UNCHANGED <<countVars, subs, retained, op, want, at, clientVars, searchVars>>

\* The child is held by its counter of subscriptions.
Count(w) ==
  /\ pc[w] = "count"
  /\ subsCount' = Add(subsCount, kid[w], 1)
  /\ Goto(w, IF existed[w] THEN "lower" ELSE "enter")
  /\ UNCHANGED <<treeVars, kidsCount, remove, wgDeleted, subs, retained, op, want,
                 at, kid, existed, clientVars, searchVars>>

Lower(w) ==
  /\ pc[w] = "lower"
  /\ kidsCount' = Sub(kidsCount, at[w], 1)
  /\ Goto(w, "check")
  /\ UNCHANGED <<treeVars, subsCount, remove, wgDeleted, subs, retained, op, want,
                 at, kid, existed, clientVars, searchVars>>

CheckRemove(w) ==
  /\ pc[w] = "check"
  /\ Goto(w, IF remove[kid[w]] THEN "back" ELSE "enter")
  /\ UNCHANGED <<treeVars, countVars, subs, retained, op, want, at, kid, existed,
                 clientVars, searchVars>>

\* It is being removed: wait for that and try again.
BackOff(w) ==
  /\ pc[w] = "back"
  /\ subsCount' = Sub(subsCount, kid[w], 1)
  /\ Goto(w, "wait")
  /\ UNCHANGED <<treeVars, kidsCount, remove, wgDeleted, subs, retained, op, want,
                 at, kid, existed, clientVars, searchVars>>

WaitDeleted(w) ==
  /\ pc[w] = "wait"
  /\ wgDeleted[kid[w]] = 0
  /\ Goto(w, "raise")
  /\ UNCHANGED <<treeVars, countVars, subs, retained, op, want, at, kid, existed,
                 clientVars, searchVars>>

\* Only the leaf stays held.
Enter(w) ==
  /\ pc[w] = "enter"
  /\ at' = [at EXCEPT ![w] = kid[w]]
  /\ IF AtLeaf(w, kid[w])
     THEN Goto(w, "leaf") /\ UNCHANGED subsCount
     ELSE Goto(w, "raise") /\ subsCount' = Sub(subsCount, kid[w], 1)
  /\ UNCHANGED <<treeVars, kidsCount, remove, wgDeleted, subs, retained, op, want,
                 kid, existed, clientVars, searchVars>>

\* subscriptionInsert: what held the leaf now counts the subscription.
StoreSub(w) ==
  /\ pc[w] = "leaf" /\ op[w] = "subscribe"
  /\ subs' = [subs EXCEPT ![at[w]] = @ \cup {w}]
  /\ IF w \in subs[at[w]] THEN Goto(w, "release") /\ UNCHANGED <<todo, due, may>>
     ELSE BeginSearch(w)
  /\ UNCHANGED <<treeVars, countVars, retained, op, want, at, kid, existed,
                 clientVars, topic, found>>

\* retainInsert
StoreRetained(w) ==
  /\ pc[w] = "leaf" /\ op[w] = "store"
  /\ retained' = [retained EXCEPT ![at[w]] = kept[want[w]]]
  /\ Goto(w, "release")
  /\ UNCHANGED <<treeVars, countVars, subs, op, want, at, kid, existed,
                 clientVars, searchVars>>

\* The variant NotReleased, for testing Balanced, forgets to.
NotReleased(w) == subsCount
Released(w) == Sub(subsCount, at[w], 1)

ReleaseLeaf(w) ==
  /\ pc[w] = "release"
  /\ subsCount' = Released(w)
  /\ IF op[w] = "subscribe" THEN BeginSearch(w)
     ELSE Goto(w, "answer") /\ UNCHANGED <<todo, due, may>>
  /\ UNCHANGED <<treeVars, kidsCount, remove, wgDeleted, subs, retained, op, want,
                 at, kid, existed, clientVars, topic, found>>
-----------------------------------------------------------------------------
(* Removing: leafSearchNode, the removal, and nodesCleanup up to the root *)

Seek(w) ==
  /\ pc[w] = "seek"
  /\ LET n == children[at[w]][NextLevel(w)] IN
       IF n = None
       THEN UNCHANGED at /\ Goto(w, IF op[w] = "replace" THEN "again" ELSE "answer")
       ELSE /\ at' = [at EXCEPT ![w] = n]
            /\ Goto(w, IF AtLeaf(w, n) THEN "found" ELSE "seek")
  /\ UNCHANGED <<treeVars, countVars, subs, retained, op, want, kid, existed,
                 clientVars, searchVars>>

\* subscriptionRemove: a subscriber that is not there leaves the counter alone.
Present(w) == w \in subs[at[w]]

LoadSub(w) ==
  /\ pc[w] = "found" /\ op[w] = "unsubscribe"
  /\ Goto(w, IF Present(w) THEN "uncount" ELSE "subs")
  /\ UNCHANGED <<treeVars, countVars, subs, retained, op, want, at, kid, existed,
                 clientVars, searchVars>>

Uncount(w) ==
  /\ pc[w] = "uncount"
  /\ subsCount' = Sub(subsCount, at[w], 1)
  /\ Goto(w, "delete")
  /\ UNCHANGED <<treeVars, kidsCount, remove, wgDeleted, subs, retained, op, want,
                 at, kid, existed, clientVars, searchVars>>

\* The variant NobodyLeft, for testing NoneLost, removes as for a nil subscriber.
NobodyLeft(w) == {}
Others(w) == subs[at[w]] \ {w}

DeleteSub(w) ==
  /\ pc[w] = "delete"
  /\ subs' = [subs EXCEPT ![at[w]] = Others(w)]
  /\ Goto(w, "subs")
  /\ UNCHANGED <<treeVars, countVars, retained, op, want, at, kid, existed,
                 clientVars, searchVars>>

\* retainRemove
ClearRetained(w) ==
  /\ pc[w] = "found" /\ op[w] \in {"clear", "replace"}
  /\ retained' = [retained EXCEPT ![at[w]] = None]
  /\ Goto(w, "subs")
  /\ UNCHANGED <<treeVars, countVars, subs, op, want, at, kid, existed,
                 clientVars, searchVars>>

\* To the parent, or from the root on to the answer or to the second half of
\* "replace".
Up(w) ==
  IF at[w] # Root
  THEN at' = [at EXCEPT ![w] = parent[at[w]]] /\ Goto(w, "subs")
  ELSE UNCHANGED at /\ Goto(w, IF op[w] = "replace" THEN "again" ELSE "answer")

\* One of the three reads that find a node empty.
Look(w, step, empty, next, otherwise) ==
  /\ pc[w] = step
  /\ IF empty THEN Goto(w, next) /\ UNCHANGED at ELSE otherwise
  /\ UNCHANGED <<treeVars, countVars, subs, retained, op, want, kid, existed,
                 clientVars, searchVars>>

LooksEmpty(w) ==
  LET n == at[w] IN
  \/ Look(w, "subs", subsCount[n] = 0, "kids", Up(w))
  \/ Look(w, "kids", kidsCount[n] = 0, "retained", Up(w))
  \/ Look(w, "retained", retained[n] = None, "hold", Up(w))

StillEmpty(w) ==
  LET n == at[w]
      Stop == Goto(w, "letGo") /\ UNCHANGED at
  IN \/ Look(w, "subsAgain", subsCount[n] = 0, "kidsAgain", Stop)
     \/ Look(w, "kidsAgain", kidsCount[n] = 0, "retainedAgain", Stop)
     \/ Look(w, "retainedAgain", retained[n] = None, "cut", Stop)

HoldDeleted(w) ==
  /\ pc[w] = "hold"
  /\ wgDeleted' = Add(wgDeleted, at[w], 1)
  /\ Goto(w, "mark")
  /\ UNCHANGED <<treeVars, kidsCount, subsCount, remove, subs, retained, op, want,
                 at, kid, existed, clientVars, searchVars>>

\* Nothing ever takes the mark back.
Mark(w) ==
  /\ pc[w] = "mark"
  /\ remove' = [remove EXCEPT ![at[w]] = TRUE]
  /\ Goto(w, "subsAgain")
  /\ UNCHANGED <<treeVars, kidsCount, subsCount, wgDeleted, subs, retained, op, want,
                 at, kid, existed, clientVars, searchVars>>

\* The parent forgets the level, whichever node is there; its count stays. The
\* variant SparesFirst, for testing MarkedIsCut, takes the nodes of the first
\* level for the root.
Forgotten(n) == [children EXCEPT ![parent[n]][path[n][Len(path[n])]] = None]
SparesFirst(n) == IF n = Root \/ parent[n] = Root THEN children ELSE Forgotten(n)
CutOff(n) == IF n = Root THEN children ELSE Forgotten(n)

Cut(w) ==
  /\ pc[w] = "cut"
  /\ children' = CutOff(at[w])
  /\ Goto(w, "letGo")
  /\ UNCHANGED <<parent, path, nodes, countVars, subs, retained, op, want, at, kid,
                 existed, clientVars, searchVars>>

LetGo(w) ==
  /\ pc[w] = "letGo"
  /\ wgDeleted' = Sub(wgDeleted, at[w], 1)
  /\ Up(w)
  /\ UNCHANGED <<treeVars, kidsCount, subsCount, remove, subs, retained, op, want,
                 kid, existed, clientVars, searchVars>>

\* retain goes on to store what it has made room for.
Again(w) ==
  /\ pc[w] = "again"
  /\ op' = [op EXCEPT ![w] = "store"]
  /\ at' = [at EXCEPT ![w] = Root]
  /\ Goto(w, "raise")
  /\ UNCHANGED <<treeVars, countVars, subs, retained, want, kid, existed,
                 clientVars, searchVars>>
-----------------------------------------------------------------------------
(* subscriptionSearch: what a publisher has still to look at, in order. A     *)
(* look at a level loads that child, one at None takes the subscribers.       *)

At(n, l) == [node |-> n, level |-> l]

\* "#" below a node matches whatever comes next. The variant NotFurther, for
\* testing FindsAll, looks for it at the end only.
NotFurther(n, l) == <<>>
Further(n, l) == IF l = "" THEN <<>> ELSE <<At(n, MWC)>>

Visit(n, t) ==
  IF Len(path[n]) = Len(t)
  THEN <<At(n, None), At(n, MWC)>>
  ELSE LET l == t[Len(path[n]) + 1]
       IN Further(n, l) \o <<At(n, l), At(n, SWC)>>

\* The other walkers' requests, as a search that begins now sees them.
Settled == {x \in Client \X Filter :
              x[2] \in held[x[1]] /\ ~(op[x[1]] = "unsubscribe" /\ want[x[1]] = x[2])}
Possible == {x \in Client \X Filter :
               x[2] \in held[x[1]] \/ (op[x[1]] = "subscribe" /\ want[x[1]] = x[2])}
Matching(pairs, t) == {x \in pairs : Matches(x[2], t)}

Publish(p, t) ==
  /\ topic[p] = <<>>
  /\ requests < MaxRequests
  /\ requests' = requests + 1
  /\ topic' = [topic EXCEPT ![p] = t]
  /\ todo' = [todo EXCEPT ![p] = IF t[1] \in System THEN <<At(Root, t[1])>>
                                 ELSE Visit(Root, t)]
  /\ due' = [due EXCEPT ![p] = IF mixed THEN {} ELSE Matching(Settled, t)]
  /\ may' = [may EXCEPT ![p] = Matching(Possible, t)]
  /\ UNCHANGED <<treeVars, countVars, subs, retained, walkVars, held, kept, mixed, found>>

First(p) == Head(todo[p])

LoadLevel(p) ==
  /\ todo[p] # <<>> /\ First(p).level # None
  /\ LET n == children[First(p).node][First(p).level]
         next == CASE n = None -> <<>>
                   [] n # None /\ First(p).level = MWC -> <<At(n, None)>>
                   [] OTHER -> Visit(n, topic[p])
     IN todo' = [todo EXCEPT ![p] = next \o Tail(@)]
  /\ UNCHANGED <<treeVars, countVars, subs, retained, walkVars, clientVars,
                 topic, found, due, may>>

\* nonOverlappingSubscribers: an entry for every subscription of the node.
TakeSubscribers(p) ==
  /\ todo[p] # <<>> /\ First(p).level = None
  /\ found' = [found EXCEPT ![p] =
                 @ \cup {<<c, path[First(p).node]>> : c \in subs[First(p).node]}]
  /\ todo' = [todo EXCEPT ![p] = Tail(@)]
  /\ UNCHANGED <<treeVars, countVars, subs, retained, walkVars, clientVars,
                 topic, due, may>>

Deliver(p) ==
  /\ topic[p] # <<>> /\ todo[p] = <<>>
  /\ topic' = [topic EXCEPT ![p] = <<>>]
  /\ found' = Forget(p, found) /\ due' = Forget(p, due) /\ may' = Forget(p, may)
  /\ UNCHANGED <<treeVars, countVars, subs, retained, walkVars, clientVars, todo>>
-----------------------------------------------------------------------------
(* The steps of retainSearch: each reads one child, one retained message or   *)
(* the levels of one node.                                                    *)

\* A step, and what it finds to do next.
Collect(c, step, next) ==
  /\ pc[c] = "collect" /\ Head(todo[c]).step = step
  /\ todo' = [todo EXCEPT ![c] = next \o Tail(@)]
  /\ Goto(c, IF todo'[c] = <<>> THEN "answer" ELSE "collect")
  /\ UNCHANGED <<treeVars, countVars, subs, retained, op, want, at, kid, existed,
                 clientVars, topic, due, may>>

\* A filter that begins with "$" takes the node of that level for granted: if it
\* has been cut off again, nil is dereferenced and the process ends.
Panic == ToDo("panic", Root, None, FALSE)

LoadKid(c) ==
  /\ pc[c] = "collect"
  /\ LET d == Head(todo[c])
         n == children[d.node][d.level]
         granted == d.node = Root /\ want[c][1] \in System
     IN Collect(c, "child", IF n # None THEN Arrive(n, want[c], d.all)
                            ELSE IF granted THEN <<Panic>> ELSE <<>>)
  /\ UNCHANGED found

LoadRetained(c) ==
  /\ Collect(c, "retained", <<>>)
  /\ LET n == Head(todo[c]).node IN
       found' = [found EXCEPT ![c] = IF retained[n] = None THEN @ ELSE @ \cup {path[n]}]

\* Range comes to the levels in any order. From the root, "#" leaves out those that
\* begin with "$" and the empty one; "+" does not.
RangeChildren(c) ==
  /\ pc[c] = "collect"
  /\ LET d == Head(todo[c])
         levels == {l \in Level : children[d.node][l] # None}
         hidden == IF d.node = Root /\ d.all THEN System \cup {""} ELSE {}
     IN \E order \in Seqs!SetToSeqs(levels \ hidden) :
          Collect(c, "children", [i \in DOMAIN order |-> Child(d.node, order[i], d.all)])
  /\ UNCHANGED found
-----------------------------------------------------------------------------
Insert(w) ==
  \/ Raise(w) \/ LoadChild(w) \/ StoreChild(w) \/ Count(w) \/ Lower(w)
  \/ CheckRemove(w) \/ BackOff(w) \/ WaitDeleted(w) \/ Enter(w)
  \/ StoreSub(w) \/ StoreRetained(w) \/ ReleaseLeaf(w)

Remove(w) ==
  \/ Seek(w) \/ LoadSub(w) \/ Uncount(w) \/ DeleteSub(w) \/ ClearRetained(w)
  \/ LooksEmpty(w) \/ HoldDeleted(w) \/ Mark(w) \/ StillEmpty(w) \/ Cut(w)
  \/ LetGo(w) \/ Again(w)

SearchRetained(c) == LoadKid(c) \/ LoadRetained(c) \/ RangeChildren(c)

Walk(w) == Insert(w) \/ Remove(w) \/ Answer(w)

Environment ==
  \/ \E c \in Client, f \in Filter : Subscribe(c, f) \/ UnSubscribe(c, f)
  \/ \E t \in Topic : Retain(t, "clear", None)
  \/ \E t \in Topic, m \in Message, o \in {"store", "replace"} : Retain(t, o, m)
  \/ \E p \in Publisher, t \in Topic : Publish(p, t)

Search(p) == LoadLevel(p) \/ TakeSubscribers(p) \/ Deliver(p)

\* Nothing is under way.
Quiet == Busy = {} /\ (\A p \in Publisher : topic[p] = <<>>) /\ UNCHANGED vars

Next == \/ \E w \in Walker : Walk(w)
        \/ \E c \in Client : SearchRetained(c)
        \/ \E p \in Publisher : Search(p)
        \/ Environment \/ Quiet

Spec == Init /\ [][Next]_vars
-----------------------------------------------------------------------------
Steps == {"idle", "raise", "load", "count", "lower", "check", "back", "wait", "enter",
          "leaf", "release", "collect", "seek", "found", "uncount", "delete", "subs", "kids",
          "retained", "hold", "mark", "subsAgain", "kidsAgain", "retainedAgain",
          "cut", "letGo", "again", "answer"}

\* Types.
TypeOK ==
  /\ children \in [Node -> [Level -> Node \cup {None}]]
  /\ parent \in [Node -> Node \cup {None}]
  /\ nodes \in Node
  /\ kidsCount \in [Node -> Nat] /\ subsCount \in [Node -> Nat]
  /\ remove \in [Node -> BOOLEAN] /\ wgDeleted \in [Node -> Nat]
  /\ subs \in [Node -> SUBSET Client] /\ retained \in [Node -> Message \cup {None}]
  /\ pc \in [Walker -> Steps]
  /\ at \in [Walker -> Node] /\ kid \in [Walker -> Node]
  /\ held \in [Client -> SUBSET Filter] /\ kept \in [Topic -> Message \cup {None}]

Walking(steps, place, n) == Cardinality({w \in Walker : pc[w] \in steps /\ place[w] = n})

\* A node's counters are what they count: its subscriptions, and those that hold
\* it on their way, so that no node is taken for empty which is not. A child is
\* counted from before it exists, and for ever (node.go:64-90, 120-122, 156-162).
Balanced ==
  /\ TypeOK
  /\ \A n \in Node :
      /\ subsCount[n] + Walking({"delete"}, at, n)
           = Cardinality(subs[n])
             + Walking({"lower", "check", "back", "enter"}, kid, n)
             + Walking({"leaf", "release"}, at, n)
      /\ kidsCount[n] >=
           Cardinality({l \in Level : children[n][l] # None})
             + Walking({"load"}, at, n)
      /\ wgDeleted[n] = Walking({"mark", "subsAgain", "kidsAgain", "retainedAgain",
                                 "cut", "letGo"}, at, n)

\* As long as nobody has inserted while another removed: what a client was told
\* it has subscribed to is in the tree, and of the retained messages the last, however
\* insertions, or removals with their cleanups, interleave (topics.go:49-51).
NoneLost ==
  ~mixed =>
    /\ \A x \in Settled : LET n == NodeAt(x[2]) IN n # None /\ x[1] \in subs[n]
    /\ \A t \in Topic : pc[Retainer] = "idle" =>
         LET n == NodeAt(t) IN kept[t] = IF n = None THEN None ELSE retained[n]

\* In the same environment: a node that is marked and that nobody is removing any
\* more is out of the tree, so that who waits for it (WaitDeleted) finds another
\* in its place and does not meet the mark for ever (node.go:74-77).
MarkedIsCut ==
  ~mixed =>
    \A n \in Node \ {Root} :
      remove[n] /\ wgDeleted[n] = 0 => children[parent[n]][path[n][Len(path[n])]] # n

\* The manager "stores the topic subscriptions ... in memory" (topics.go:49-51),
\* whatever overlaps. It does not: a node whose inserter has not counted itself
\* yet, or has just let go of it on its way down, is removed under it.
AlwaysKept == \A x \in Settled : LET n == NodeAt(x[2]) IN n # None /\ x[1] \in subs[n]

\* A publish goes to those only who had, at some moment of the search, a
\* subscription that matches, or were subscribing or unsubscribing. It goes to all
\* who had one during the whole search, whatever is inserted or removed elsewhere
\* meanwhile; for insertions and removals at once see NoneLost. The same holds of
\* the retained messages a new subscription is answered with (topics.go:242-247).
FindsAll ==
  \A s \in Searcher :
    /\ found[s] \subseteq may[s]
    /\ todo[s] = <<>> /\ ~mixed => due[s] \subseteq found[s]

\* What the specification of the filters and the code take alike: "#" comes last, a
\* "+" at the beginning does not stand for a level that begins with "$"
\* (node.go:277), and no "#" for an empty level (node.go:213, 301).
Plain ==
  /\ \A f \in Filter : \A i \in 1 .. Len(f) - 1 : f[i] # MWC
  /\ \A f \in Filter, t \in Topic :
       /\ f[1] = SWC => t[1] \notin System
       /\ f[Len(f)] = MWC /\ Len(f) <= Len(t) => t[Len(f)] # ""
=============================================================================

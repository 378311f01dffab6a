-------------------------- MODULE PublishingProofs --------------------------
(***************************************************************************)
(* What publishers and subscribers keep true for any number of either, of  *)
(* publishes and of connections.                                           *)
(***************************************************************************)
EXTENDS Publishing, FiniteSetTheorems, TLAPS

States   == {"off", "idle", "subscribe", "subscribed", "unsubscribe", "shutdown",
             "wait", "stop", "close", "end", "gone", "away"}
Attached == {"idle", "subscribe", "subscribed", "unsubscribe"}
Waited   == {"stop", "close", "end", "gone"}
Target   == [sub : Sub, connection : Nat]

TypeOK ==
  /\ at \in [Sub -> States]
  /\ connections \in [Sub -> Nat] /\ publisher \in [Sub -> Nat]
  /\ tx \in [Sub -> {"up", "stopped", "nil"}]
  /\ subscribed \subseteq Sub
  /\ access \in [Sub -> Int]
  /\ inbound \in Seq(Msg)
  /\ pc \in [Publisher -> {"idle", "taken", "deliver", "call", "crashed"}]
  /\ msg \in [Publisher -> Msg \cup {None}]
  /\ found \in [Publisher -> SUBSET Sub] /\ entries \in [Publisher -> SUBSET Sub]
  /\ target \in [Publisher -> Target \cup {None}]
  /\ sent \in 0 .. Messages
  /\ owed \in [Sub -> SUBSET Msg]
  /\ got \in [Sub -> [Msg -> Nat]]
  /\ late \subseteq Publisher \X Sub

\* Where the publishes of a subscriber go, by where its session is.
SessionOK ==
  \A s \in Sub :
    /\ publisher[s] \in {0, connections[s]}
    /\ at[s] = "off" => publisher[s] = 0
    /\ at[s] \in Attached \cup {"shutdown", "wait", "stop"} => tx[s] = "up"
    /\ at[s] = "close" => tx[s] = "stopped"
    /\ s \in Durable /\ publisher[s] # 0 => at[s] \in Attached
    /\ s \in Clean => at[s] # "away"

\* Who is owed anything is subscribed, and not about to end that.
OwedOK ==
  \A s \in Sub :
    /\ owed[s] # {} => s \in subscribed /\ at[s] \notin {"unsubscribe", "shutdown"}
    /\ s \in Clean /\ s \in subscribed => at[s] \in {"subscribed", "unsubscribe", "shutdown"}

\* What a publisher has read and acquired.
HeldOK ==
  \A p \in Publisher :
    /\ pc[p] \in {"idle", "taken"} => entries[p] = {}
    /\ found[p] # {} => pc[p] = "deliver"
    /\ found[p] \cap entries[p] = {}
    /\ msg[p] = None <=> pc[p] = "idle"

\* The read lock: what a publisher is about to call is still the publisher.
CallOK ==
  \A p \in Publisher :
    /\ pc[p] \in {"call", "crashed"} => target[p] \in Target
    /\ pc[p] = "call" => /\ target[p].sub \in entries[p]
                         /\ target[p].connection = publisher[target[p].sub]

\* The wait group counts the publishers that have acquired the subscriber.
Holders(s) == {p \in Publisher : s \in entries[p]}
AccessOK   == \A s \in Sub : access[s] = Cardinality(Holders(s))

\* Once Offline has waited, whoever holds the subscriber came afterwards.
LateOK ==
  \A s \in Clean, p \in Publisher :
    at[s] \in Waited /\ s \in entries[p] => <<p, s>> \in late

IInv == TypeOK /\ SessionOK /\ OwedOK /\ HeldOK /\ CallOK /\ AccessOK /\ LateOK /\ NoWriter

\* Publishes are numbered as they are sent, and taken in this order.
Taken == sent - Len(inbound)

MsgOK ==
  /\ Taken >= 0 /\ \A i \in 1 .. Len(inbound) : inbound[i] = Taken + i
  /\ \A p \in Publisher : msg[p] # None => msg[p] <= Taken
  /\ \A p, q \in Publisher : p # q /\ msg[p] # None => msg[p] # msg[q]

\* Publisher p will still deliver its message to s.
Brings(p, s) == pc[p] = "taken" \/ s \in found[p] \cup entries[p]

GotOK ==
  \A s \in Sub, m \in Msg :
    /\ got[s][m] <= 1
    /\ got[s][m] = 1 => m <= Taken
    /\ \A p \in Publisher : msg[p] = m /\ Brings(p, s) => got[s][m] = 0
    /\ m \in owed[s] =>
         \/ m > Taken /\ m <= sent
         \/ \E p \in Publisher : msg[p] = m /\ Brings(p, s)
         \/ got[s][m] = 1

-----------------------------------------------------------------------------
(* One lemma per action, with a step for each part of IInv.                 *)

USE PublishingAssumption
    DEF Sub, Msg, States, Attached, Waited, Target, subVars, pubVars, gotVars, vars

LEMMA InitIInv == Init => IInv
  <1> SUFFICES ASSUME Init PROVE IInv
    OBVIOUS
  <1>1. \A s \in Sub : Holders(s) = {}
    BY DEF Init, Holders
  <1>2. AccessOK
    BY <1>1, FS_EmptySet DEF Init, AccessOK
  <1>3. QED
    BY <1>2 DEF Init, IInv, TypeOK, SessionOK, OwedOK, HeldOK, CallOK, LateOK, NoWriter

\* A publisher more, or one less, holds a subscriber.
LEMMA HoldersCount ==
  ASSUME IInv, NEW p \in Publisher, NEW s \in Sub
  PROVE  /\ s \notin entries[p] => Cardinality(Holders(s) \cup {p}) = Cardinality(Holders(s)) + 1
         /\ s \in entries[p] => Cardinality(Holders(s) \ {p}) = Cardinality(Holders(s)) - 1
  <1>1. IsFiniteSet(Holders(s))
    BY FS_Subset DEF Holders
  <1>2. p \in Holders(s) <=> s \in entries[p]
    BY DEF Holders
  <1>3. QED BY <1>1, <1>2, FS_AddElement, FS_RemoveElement

\* Nobody holds a subscriber whose wait group is zero.
LEMMA NobodyHolds ==
  ASSUME IInv, NEW s \in Sub, access[s] = 0
  PROVE  \A p \in Publisher : s \notin entries[p]
  <1>1. IsFiniteSet(Holders(s)) /\ Cardinality(Holders(s)) = 0
    BY FS_Subset DEF Holders, IInv, AccessOK
  <1>2. Holders(s) = {}
    BY <1>1, FS_EmptySet
  <1>3. QED BY <1>2 DEF Holders

LEMMA PublishStep ==
  ASSUME IInv, Publish
  PROVE  IInv'
  <1> USE DEF IInv, Publish
  <1>1. TypeOK'
    <2>1. inbound \in Seq(Msg) /\ sent' \in Msg /\ inbound' = Append(inbound, sent')
      BY DEF TypeOK
    <2>2. inbound' \in Seq(Msg)
      BY ONLY <2>1
    <2>3. owed' \in [Sub -> SUBSET Msg]
      BY <2>1 DEF TypeOK
    <2>4. QED BY <2>1, <2>2, <2>3 DEF TypeOK
  <1>2. SessionOK'
    BY DEF TypeOK, SessionOK
  <1>3. OwedOK'
    BY DEF TypeOK, OwedOK
  <1>4. HeldOK'
    BY DEF TypeOK, HeldOK
  <1>5. CallOK'
    BY DEF TypeOK, CallOK, HeldOK
  <1>6. LateOK'
    BY DEF TypeOK, LateOK, HeldOK, CallOK
  <1>7. NoWriter'
    BY DEF TypeOK, NoWriter, CallOK, SessionOK, LateOK
  <1>8. AccessOK'
    BY DEF AccessOK, Holders
  <1>9. QED BY <1>1, <1>2, <1>3, <1>4, <1>5, <1>6, <1>7, <1>8

LEMMA TakeStep ==
  ASSUME IInv, NEW p \in Publisher, Take(p)
  PROVE  IInv'
  <1> USE DEF IInv, Take
  <1>1. TypeOK'
    <2>1. inbound \in Seq(Msg) /\ inbound # <<>>
      BY DEF TypeOK
    <2>2. Head(inbound) \in Msg /\ Tail(inbound) \in Seq(Msg)
      BY <2>1
    <2>3. msg' \in [Publisher -> Msg \cup {None}]
      BY <2>2 DEF TypeOK
    <2>4. pc' \in [Publisher -> {"idle", "taken", "deliver", "call", "crashed"}]
      BY DEF TypeOK
    <2>5. QED BY <2>2, <2>3, <2>4 DEF TypeOK
  <1>2. SessionOK'
    BY DEF TypeOK, SessionOK
  <1>3. OwedOK'
    BY DEF TypeOK, OwedOK
  <1>4. HeldOK'
    BY DEF TypeOK, HeldOK
  <1>5. CallOK'
    BY DEF TypeOK, CallOK, HeldOK
  <1>6. LateOK'
    BY DEF TypeOK, LateOK, HeldOK, CallOK
  <1>7. NoWriter'
    BY DEF TypeOK, NoWriter, CallOK, SessionOK, LateOK
  <1>8. AccessOK'
    BY DEF AccessOK, Holders
  <1>9. QED BY <1>1, <1>2, <1>3, <1>4, <1>5, <1>6, <1>7, <1>8

LEMMA SearchStep ==
  ASSUME IInv, NEW p \in Publisher, Search(p)
  PROVE  IInv'
  <1> USE DEF IInv, Search
  <1>1. TypeOK'
    BY DEF TypeOK
  <1>2. SessionOK'
    BY DEF TypeOK, SessionOK
  <1>3. OwedOK'
    BY DEF TypeOK, OwedOK
  <1>4. HeldOK'
    BY DEF TypeOK, HeldOK
  <1>5. CallOK'
    BY DEF TypeOK, CallOK, HeldOK
  <1>6. LateOK'
    BY DEF TypeOK, LateOK, HeldOK, CallOK
  <1>7. NoWriter'
    BY DEF TypeOK, NoWriter, CallOK, SessionOK, LateOK
  <1>8. AccessOK'
    BY DEF AccessOK, Holders
  <1>9. QED BY <1>1, <1>2, <1>3, <1>4, <1>5, <1>6, <1>7, <1>8

LEMMA AcquireStep ==
  ASSUME IInv, NEW p \in Publisher, NEW s \in Sub, Acquire(p, s)
  PROVE  IInv'
  <1> USE DEF IInv, Acquire
  <1>1. TypeOK'
    <2>1. found' \in [Publisher -> SUBSET Sub] /\ entries' \in [Publisher -> SUBSET Sub]
      BY DEF TypeOK
    <2>2. access' \in [Sub -> Int]
      BY DEF TypeOK
    <2>3. late' \subseteq Publisher \X Sub
      BY DEF TypeOK
    <2>4. QED BY <2>1, <2>2, <2>3 DEF TypeOK
  <1>2. SessionOK'
    BY DEF TypeOK, SessionOK
  <1>3. OwedOK'
    BY DEF TypeOK, OwedOK
  <1>4. HeldOK'
    BY DEF TypeOK, HeldOK
  <1>5. CallOK'
    BY DEF TypeOK, CallOK, HeldOK
  <1>6. LateOK'
    BY DEF TypeOK, LateOK, HeldOK, CallOK
  <1>7. NoWriter'
    BY DEF TypeOK, NoWriter, CallOK, SessionOK, LateOK
  <1>8. AccessOK'
    <2>1. s \notin entries[p]
      BY DEF HeldOK
    <2>2. Holders(s)' = Holders(s) \cup {p}
      BY DEF TypeOK, Holders
    <2>3. \A r \in Sub \ {s} : Holders(r)' = Holders(r)
      BY DEF TypeOK, Holders
    <2>4. access'[s] = access[s] + 1 /\ \A r \in Sub \ {s} : access'[r] = access[r]
      BY DEF TypeOK
    <2>5. access[s] + 1 = Cardinality(Holders(s))'
      <3>1. Cardinality(Holders(s) \cup {p}) = Cardinality(Holders(s)) + 1
        BY <2>1, HoldersCount
      <3>2. access[s] = Cardinality(Holders(s))
        BY DEF AccessOK
      <3>3. QED BY <2>2, <3>1, <3>2
    <2>6. ASSUME NEW r \in Sub \ {s} PROVE access'[r] = Cardinality(Holders(r))'
      BY <2>3, <2>4 DEF AccessOK
    <2>7. QED BY <2>4, <2>5, <2>6 DEF AccessOK
  <1>9. QED BY <1>1, <1>2, <1>3, <1>4, <1>5, <1>6, <1>7, <1>8

LEMMA DeliverStep ==
  ASSUME IInv, NEW p \in Publisher, NEW s \in Sub, Deliver(p, s)
  PROVE  IInv'
  <1> USE DEF IInv, Deliver
  <1>1. TypeOK'
    BY DEF TypeOK
  <1>2. SessionOK'
    BY DEF TypeOK, SessionOK
  <1>3. OwedOK'
    BY DEF TypeOK, OwedOK
  <1>4. HeldOK'
    BY DEF TypeOK, HeldOK
  <1>5. CallOK'
    BY DEF TypeOK, CallOK, HeldOK
  <1>6. LateOK'
    BY DEF TypeOK, LateOK, HeldOK, CallOK
  <1>7. NoWriter'
    BY DEF TypeOK, NoWriter, CallOK, SessionOK, LateOK
  <1>8. AccessOK'
    BY DEF AccessOK, Holders
  <1>9. QED BY <1>1, <1>2, <1>3, <1>4, <1>5, <1>6, <1>7, <1>8

\* A call that finds a writer, or the store, gives its subscriber back.
LEMMA CallStep ==
  ASSUME IInv, NEW p \in Publisher, Call(p)
  PROVE  IInv'
  <1> DEFINE writer == TxOf(target[p])
             stored == target[p].connection = 0
  <1> USE DEF IInv
  <1>1. PICK s \in Sub : s = target[p].sub
    BY DEF Call, CallOK
  <1>2. s \in entries[p] /\ target[p] \in Target /\ target[p].connection = publisher[s]
    BY <1>1 DEF Call, CallOK
  <1>3. CASE ~stored /\ writer = "nil"
    <2>1. UNCHANGED <<subVars, inbound, msg, found, sent, owed, access, entries, target, got, late>>
      BY <1>3 DEF Call
    <2>2. pc' = [pc EXCEPT ![p] = "crashed"] /\ pc[p] = "call"
      BY <1>3 DEF Call
    <2>3. TypeOK' /\ SessionOK' /\ OwedOK' /\ HeldOK' /\ CallOK'
      <3>1. pc' \in [Publisher -> {"idle", "taken", "deliver", "call", "crashed"}]
        BY <2>2 DEF TypeOK
      <3>2. TypeOK'
        BY <2>1, <3>1 DEF TypeOK
      <3>3. SessionOK' /\ OwedOK'
        BY <2>1 DEF SessionOK, OwedOK
      <3>4. HeldOK'
        BY <2>1, <2>2 DEF TypeOK, HeldOK
      <3>5. CallOK'
        BY <1>2, <2>1, <2>2 DEF TypeOK, CallOK
      <3>6. QED BY <3>2, <3>3, <3>4, <3>5
    <2>4. AccessOK' /\ LateOK'
      BY <2>1 DEF AccessOK, LateOK, Holders
    <2>5. s \in Clean /\ at[s] \in Waited
      BY <1>1, <1>2, <1>3 DEF TxOf, SessionOK, TypeOK
    <2>6. NoWriter'
      <3>1. <<p, s>> \in late
        BY <1>2, <2>5 DEF LateOK
      <3>2. \A q \in Publisher \ {p} : pc'[q] = pc[q]
        BY <2>2 DEF TypeOK
      <3>3. QED BY <1>1, <2>1, <2>5, <3>1, <3>2 DEF NoWriter
    <2>7. QED BY <2>3, <2>4, <2>6
  <1>4. CASE ~(~stored /\ writer = "nil")
    <2>1. /\ pc' = [pc EXCEPT ![p] = "deliver"] /\ pc[p] = "call"
          /\ target' = [target EXCEPT ![p] = None]
          /\ access' = [access EXCEPT ![s] = access[s] - 1]
          /\ entries' = [entries EXCEPT ![p] = entries[p] \ {s}]
          /\ late' = late \ {<<p, s>>}
          /\ got' \in {got, [got EXCEPT ![s][msg[p]] = got[s][msg[p]] + 1]}
          /\ UNCHANGED <<subVars, inbound, msg, found, sent, owed>>
      BY <1>1, <1>4 DEF Call, Released
    <2>2. msg[p] \in Msg
      BY <2>1 DEF HeldOK, TypeOK
    <2>3. TypeOK'
      <3>1. got' \in [Sub -> [Msg -> Nat]]
        <4>1. got[s][msg[p]] + 1 \in Nat /\ got[s] \in [Msg -> Nat]
          BY <2>2 DEF TypeOK
        <4>2. [got[s] EXCEPT ![msg[p]] = got[s][msg[p]] + 1] \in [Msg -> Nat]
          BY <4>1
        <4>3. [got EXCEPT ![s][msg[p]] = got[s][msg[p]] + 1]
                = [got EXCEPT ![s] = [got[s] EXCEPT ![msg[p]] = got[s][msg[p]] + 1]]
          BY DEF TypeOK
        <4>4. QED BY <2>1, <4>2, <4>3 DEF TypeOK
      <3>2. access' \in [Sub -> Int] /\ entries' \in [Publisher -> SUBSET Sub]
        BY <2>1 DEF TypeOK
      <3>3. target' \in [Publisher -> Target \cup {None}]
        BY <2>1 DEF TypeOK
      <3>4. QED BY <2>1, <3>1, <3>2, <3>3 DEF TypeOK
    <2>4. SessionOK' /\ OwedOK' /\ HeldOK' /\ CallOK'
      BY <1>1, <1>2, <2>1 DEF TypeOK, SessionOK, OwedOK, HeldOK, CallOK
    <2>5. LateOK' /\ NoWriter'
      BY <1>2, <2>1 DEF TypeOK, LateOK, NoWriter
    <2>6. AccessOK'
      <3>1. Holders(s)' = Holders(s) \ {p}
        BY <1>2, <2>1 DEF TypeOK, Holders
      <3>2. \A r \in Sub \ {s} : Holders(r)' = Holders(r)
        BY <1>2, <2>1 DEF TypeOK, Holders
      <3>3. access'[s] = access[s] - 1 /\ \A r \in Sub \ {s} : access'[r] = access[r]
        BY <1>1, <2>1 DEF TypeOK
      <3>4. access[s] - 1 = Cardinality(Holders(s))'
        <4>1. Cardinality(Holders(s) \ {p}) = Cardinality(Holders(s)) - 1
          BY <1>2, HoldersCount
        <4>2. access[s] = Cardinality(Holders(s))
          BY DEF AccessOK
        <4>3. QED BY <3>1, <4>1, <4>2
      <3>5. ASSUME NEW r \in Sub \ {s} PROVE access'[r] = Cardinality(Holders(r))'
        BY <3>2, <3>3 DEF AccessOK
      <3>6. QED BY <3>3, <3>4, <3>5 DEF AccessOK
    <2>7. QED BY <2>3, <2>4, <2>5, <2>6
  <1>5. QED BY <1>3, <1>4

LEMMA DoneStep ==
  ASSUME IInv, NEW p \in Publisher, Done(p)
  PROVE  IInv'
  <1> USE DEF IInv, Done
  <1>1. TypeOK'
    BY DEF TypeOK
  <1>2. SessionOK'
    BY DEF TypeOK, SessionOK
  <1>3. OwedOK'
    BY DEF TypeOK, OwedOK
  <1>4. HeldOK'
    BY DEF TypeOK, HeldOK
  <1>5. CallOK'
    BY DEF TypeOK, CallOK, HeldOK
  <1>6. LateOK'
    BY DEF TypeOK, LateOK, HeldOK, CallOK
  <1>7. NoWriter'
    BY DEF TypeOK, NoWriter, CallOK, SessionOK, LateOK
  <1>8. AccessOK'
    BY DEF AccessOK, Holders
  <1>9. QED BY <1>1, <1>2, <1>3, <1>4, <1>5, <1>6, <1>7, <1>8

LEMMA OnlineStep ==
  ASSUME IInv, NEW s \in Sub, Online(s)
  PROVE  IInv'
  <1> USE DEF IInv, Online, Step, Lockable
  <1>1. TypeOK'
    <2>1. connections' \in [Sub -> Nat] /\ publisher' \in [Sub -> Nat]
      BY DEF TypeOK
    <2>2. at' \in [Sub -> States]
      BY DEF TypeOK
    <2>3. tx' \in [Sub -> {"up", "stopped", "nil"}]
      BY DEF TypeOK
    <2>4. QED BY <2>1, <2>2, <2>3 DEF TypeOK
  <1>2. SessionOK'
    BY DEF TypeOK, SessionOK
  <1>3. OwedOK'
    BY DEF TypeOK, OwedOK
  <1>4. HeldOK'
    BY DEF TypeOK, HeldOK
  <1>5. CallOK'
    BY DEF TypeOK, CallOK, HeldOK
  <1>6. LateOK'
    BY DEF TypeOK, LateOK, HeldOK, CallOK
  <1>7. NoWriter'
    BY DEF TypeOK, NoWriter, CallOK, SessionOK, LateOK
  <1>8. AccessOK'
    BY DEF AccessOK, Holders
  <1>9. QED BY <1>1, <1>2, <1>3, <1>4, <1>5, <1>6, <1>7, <1>8

LEMMA SubscribeStep ==
  ASSUME IInv, NEW s \in Sub, Subscribe(s)
  PROVE  IInv'
  <1> USE DEF IInv, Subscribe, Step
  <1>1. TypeOK'
    BY DEF TypeOK
  <1>2. SessionOK'
    BY DEF TypeOK, SessionOK
  <1>3. OwedOK'
    BY DEF TypeOK, OwedOK
  <1>4. HeldOK'
    BY DEF TypeOK, HeldOK
  <1>5. CallOK'
    BY DEF TypeOK, CallOK, HeldOK
  <1>6. LateOK'
    BY DEF TypeOK, LateOK, HeldOK, CallOK
  <1>7. NoWriter'
    BY DEF TypeOK, NoWriter, CallOK, SessionOK, LateOK
  <1>8. AccessOK'
    BY DEF AccessOK, Holders
  <1>9. QED BY <1>1, <1>2, <1>3, <1>4, <1>5, <1>6, <1>7, <1>8

LEMMA UnSubscribeStep ==
  ASSUME IInv, NEW s \in Sub, UnSubscribe(s)
  PROVE  IInv'
  <1> USE DEF IInv, UnSubscribe, Step
  <1>1. TypeOK'
    BY DEF TypeOK
  <1>2. SessionOK'
    BY DEF TypeOK, SessionOK
  <1>3. OwedOK'
    BY DEF TypeOK, OwedOK
  <1>4. HeldOK'
    BY DEF TypeOK, HeldOK
  <1>5. CallOK'
    BY DEF TypeOK, CallOK, HeldOK
  <1>6. LateOK'
    BY DEF TypeOK, LateOK, HeldOK, CallOK
  <1>7. NoWriter'
    BY DEF TypeOK, NoWriter, CallOK, SessionOK, LateOK
  <1>8. AccessOK'
    BY DEF AccessOK, Holders
  <1>9. QED BY <1>1, <1>2, <1>3, <1>4, <1>5, <1>6, <1>7, <1>8

LEMMA SubscriberStep ==
  ASSUME IInv, NEW s \in Sub, Subscriber(s)
  PROVE  IInv'
  <1> USE DEF IInv, Subscriber, Step
  <1>1. TypeOK'
    BY DEF TypeOK
  <1>2. SessionOK'
    BY DEF TypeOK, SessionOK
  <1>3. OwedOK'
    BY DEF TypeOK, OwedOK
  <1>4. HeldOK'
    BY DEF TypeOK, HeldOK
  <1>5. CallOK'
    BY DEF TypeOK, CallOK, HeldOK
  <1>6. LateOK'
    BY DEF TypeOK, LateOK, HeldOK, CallOK
  <1>7. NoWriter'
    BY DEF TypeOK, NoWriter, CallOK, SessionOK, LateOK
  <1>8. AccessOK'
    BY DEF AccessOK, Holders
  <1>9. QED BY <1>1, <1>2, <1>3, <1>4, <1>5, <1>6, <1>7, <1>8

LEMMA UnSubscriberStep ==
  ASSUME IInv, NEW s \in Sub, UnSubscriber(s)
  PROVE  IInv'
  <1> USE DEF IInv, UnSubscriber, Step
  <1>1. TypeOK'
    BY DEF TypeOK
  <1>2. SessionOK'
    BY DEF TypeOK, SessionOK
  <1>3. OwedOK'
    BY DEF TypeOK, OwedOK
  <1>4. HeldOK'
    BY DEF TypeOK, HeldOK
  <1>5. CallOK'
    BY DEF TypeOK, CallOK, HeldOK
  <1>6. LateOK'
    BY DEF TypeOK, LateOK, HeldOK, CallOK
  <1>7. NoWriter'
    BY DEF TypeOK, NoWriter, CallOK, SessionOK, LateOK
  <1>8. AccessOK'
    BY DEF AccessOK, Holders
  <1>9. QED BY <1>1, <1>2, <1>3, <1>4, <1>5, <1>6, <1>7, <1>8

LEMMA OfflineStep ==
  ASSUME IInv, NEW s \in Sub, Offline(s)
  PROVE  IInv'
  <1> USE DEF IInv, Offline, Step, Lockable
  <1>1. TypeOK'
    <2>1. CASE s \in Clean
      BY <2>1 DEF TypeOK
    <2>2. CASE s \notin Clean
      <3>1. at' = [at EXCEPT ![s] = "stop"] /\ publisher' = [publisher EXCEPT ![s] = 0]
        BY <2>2
      <3>2. at' \in [Sub -> States] /\ publisher' \in [Sub -> Nat]
        BY <3>1 DEF TypeOK
      <3>3. QED BY <2>2, <3>2 DEF TypeOK
    <2>3. QED BY <2>1, <2>2
  <1>2. SessionOK'
    BY DEF TypeOK, SessionOK
  <1>3. OwedOK'
    <2>1. CASE s \in Clean
      <3>1. owed' = [owed EXCEPT ![s] = {}] /\ subscribed' = subscribed
        BY <2>1
      <3>2. \A r \in Sub \ {s} : at'[r] = at[r] /\ owed'[r] = owed[r]
        BY <2>1, <3>1 DEF TypeOK
      <3>3. owed'[s] = {} /\ (s \in subscribed => at'[s] = "shutdown")
        BY <2>1, <3>1 DEF TypeOK, OwedOK
      <3>4. QED BY <3>1, <3>2, <3>3 DEF OwedOK
    <2>2. CASE s \notin Clean
      <3>1. owed' = owed /\ subscribed' = subscribed
        BY <2>2
      <3>2. \A r \in Sub : at'[r] = at[r] \/ (r = s /\ at'[r] = "stop")
        BY <2>2 DEF TypeOK
      <3>3. QED BY <2>2, <3>1, <3>2 DEF OwedOK
    <2>3. QED BY <2>1, <2>2
  <1>4. HeldOK'
    BY DEF TypeOK, HeldOK
  <1>5. CallOK'
    BY DEF TypeOK, CallOK, HeldOK
  <1>6. LateOK'
    BY DEF TypeOK, LateOK, HeldOK, CallOK
  <1>7. NoWriter'
    BY DEF TypeOK, NoWriter, CallOK, SessionOK, LateOK
  <1>8. AccessOK'
    BY DEF AccessOK, Holders
  <1>9. QED BY <1>1, <1>2, <1>3, <1>4, <1>5, <1>6, <1>7, <1>8

LEMMA AccessWaitStep ==
  ASSUME IInv, NEW s \in Sub, AccessWait(s)
  PROVE  IInv'
  <1> USE DEF IInv, AccessWait, Step, NoAccess
  <1>1. TypeOK'
    BY DEF TypeOK
  <1>2. SessionOK'
    BY DEF TypeOK, SessionOK
  <1>3. OwedOK'
    BY DEF TypeOK, OwedOK
  <1>4. HeldOK'
    BY DEF TypeOK, HeldOK
  <1>5. CallOK'
    BY DEF TypeOK, CallOK, HeldOK
  <1>6. LateOK'
    BY NobodyHolds DEF TypeOK, LateOK, HeldOK, CallOK
  <1>7. NoWriter'
    BY DEF TypeOK, NoWriter, CallOK, SessionOK, LateOK
  <1>8. AccessOK'
    BY DEF AccessOK, Holders
  <1>9. QED BY <1>1, <1>2, <1>3, <1>4, <1>5, <1>6, <1>7, <1>8

LEMMA StopWriterStep ==
  ASSUME IInv, NEW s \in Sub, StopWriter(s)
  PROVE  IInv'
  <1> USE DEF IInv, StopWriter, Step
  <1>1. TypeOK'
    BY DEF TypeOK
  <1>2. SessionOK'
    BY DEF TypeOK, SessionOK
  <1>3. OwedOK'
    BY DEF TypeOK, OwedOK
  <1>4. HeldOK'
    BY DEF TypeOK, HeldOK
  <1>5. CallOK'
    BY DEF TypeOK, CallOK, HeldOK
  <1>6. LateOK'
    BY DEF TypeOK, LateOK, HeldOK, CallOK
  <1>7. NoWriter'
    BY DEF TypeOK, NoWriter, CallOK, SessionOK, LateOK
  <1>8. AccessOK'
    BY DEF AccessOK, Holders
  <1>9. QED BY <1>1, <1>2, <1>3, <1>4, <1>5, <1>6, <1>7, <1>8

LEMMA CloseStep ==
  ASSUME IInv, NEW s \in Sub, Close(s)
  PROVE  IInv'
  <1> USE DEF IInv, Close, Step
  <1>1. TypeOK'
    BY DEF TypeOK
  <1>2. SessionOK'
    BY DEF TypeOK, SessionOK
  <1>3. OwedOK'
    BY DEF TypeOK, OwedOK
  <1>4. HeldOK'
    BY DEF TypeOK, HeldOK
  <1>5. CallOK'
    BY DEF TypeOK, CallOK, HeldOK
  <1>6. LateOK'
    BY DEF TypeOK, LateOK, HeldOK, CallOK
  <1>7. NoWriter'
    BY DEF TypeOK, NoWriter, CallOK, SessionOK, LateOK
  <1>8. AccessOK'
    BY DEF AccessOK, Holders
  <1>9. QED BY <1>1, <1>2, <1>3, <1>4, <1>5, <1>6, <1>7, <1>8

LEMMA NextIInv == IInv /\ [Next]_vars => IInv'
  <1> SUFFICES ASSUME IInv, [Next]_vars PROVE IInv'
    OBVIOUS
  <1>1. CASE Publish
    BY <1>1, PublishStep
  <1>2. ASSUME NEW p \in Publisher, Publishers(p) PROVE IInv'
    BY <1>2, TakeStep, SearchStep, AcquireStep, DeliverStep, CallStep, DoneStep DEF Publishers
  <1>3. ASSUME NEW s \in Sub,
               Online(s) \/ Subscribe(s) \/ UnSubscribe(s) \/ Offline(s) \/ Closing(s)
        PROVE  IInv'
    BY <1>3, OnlineStep, SubscribeStep, UnSubscribeStep, SubscriberStep, UnSubscriberStep,
       OfflineStep, AccessWaitStep, StopWriterStep, CloseStep DEF Closing
  <1>4. CASE UNCHANGED vars
    <2> USE <1>4 DEF IInv
    <2>1. TypeOK'
      BY DEF TypeOK
    <2>2. SessionOK' /\ OwedOK' /\ HeldOK' /\ CallOK'
      BY DEF SessionOK, OwedOK, HeldOK, CallOK
    <2>3. LateOK' /\ NoWriter'
      BY DEF LateOK, NoWriter
    <2>4. AccessOK'
      BY DEF AccessOK, Holders
    <2>5. QED BY <2>1, <2>2, <2>3, <2>4
  <1>5. QED BY <1>1, <1>2, <1>3, <1>4 DEF Next

\* A publisher that finds the writer of a connection gone acquired the subscriber
\* after Offline had waited (subscriber.go:186, node.go:383), for any number of
\* publishers, subscribers, connections and publishes.
THEOREM NoWriterCorrect == Spec => []NoWriter
  <1>1. Init => IInv
    BY InitIInv
  <1>2. IInv /\ [Next]_vars => IInv'
    BY NextIInv
  <1>3. IInv => NoWriter
    BY DEF IInv
  <1>4. QED BY <1>1, <1>2, <1>3, PTL DEF Spec

-----------------------------------------------------------------------------
(* What is under way, delivered and owed.                                   *)

Counted == MsgOK /\ GotOK

\* Who is owed anything does not have a connection whose writer has stopped.
LEMMA OwedHasWriter ==
  ASSUME IInv, NEW s \in Sub, owed[s] # {}, publisher[s] # 0
  PROVE  publisher[s] = connections[s] /\ tx[s] = "up"
  BY DEF IInv, TypeOK, SessionOK, OwedOK

\* Actions that touch neither the messages nor what publishers hold.
LEMMA SubscriberCounted ==
  ASSUME IInv, Counted, UNCHANGED <<sent, inbound, pubVars, got>>,
         \A s \in Sub : owed'[s] \subseteq owed[s]
  PROVE  Counted'
  <1>1. MsgOK'
    BY DEF Counted, MsgOK, Taken
  <1>2. \A p \in Publisher, s \in Sub : Brings(p, s)' <=> Brings(p, s)
    BY DEF Brings
  <1>3. GotOK'
    BY <1>2 DEF Counted, GotOK, Taken
  <1>4. QED BY <1>1, <1>3 DEF Counted

LEMMA PublishCounted ==
  ASSUME IInv, Counted, Publish
  PROVE  Counted'
  <1> USE DEF IInv, Counted, Publish
  <1>1. sent \in Nat /\ inbound \in Seq(Msg) /\ sent' = sent + 1 /\ sent' \in Msg
    BY DEF TypeOK
  <1>2. /\ Len(inbound') = Len(inbound) + 1 /\ Len(inbound) \in Nat
        /\ \A i \in 1 .. Len(inbound) : inbound'[i] = inbound[i]
        /\ inbound'[Len(inbound) + 1] = sent'
    BY <1>1
  <1>3. Taken' = Taken /\ Taken \in Int
    BY <1>1, <1>2 DEF Taken
  <1>4. \A i \in 1 .. Len(inbound') : inbound'[i] = Taken + i
    BY <1>1, <1>2 DEF MsgOK, Taken
  <1>5. MsgOK'
    BY <1>3, <1>4 DEF MsgOK
  <1>6. \A s \in Sub : owed'[s] \subseteq owed[s] \cup {sent'}
    BY <1>1 DEF TypeOK
  <1>7. sent' > Taken
    BY <1>1, <1>2 DEF Taken
  <1>8. \A p \in Publisher, s \in Sub : Brings(p, s)' <=> Brings(p, s)
    BY DEF Brings
  <1>9. GotOK'
    <2> SUFFICES ASSUME NEW s \in Sub, NEW m \in Msg
                 PROVE  /\ got[s][m] <= 1
                        /\ got[s][m] = 1 => m <= Taken
                        /\ \A p \in Publisher : msg[p] = m /\ Brings(p, s) => got[s][m] = 0
                        /\ m \in owed'[s] =>
                             \/ m > Taken /\ m <= sent'
                             \/ \E p \in Publisher : msg[p] = m /\ Brings(p, s)
                             \/ got[s][m] = 1
      BY <1>3, <1>8 DEF GotOK
    <2>1. m \in owed'[s] => m \in owed[s] \/ m = sent'
      BY <1>6
    <2>2. m <= sent => m <= sent'
      BY <1>1
    <2>3. m = sent' => m > Taken /\ m <= sent'
      BY <1>1, <1>7
    <2>4. QED BY <2>1, <2>2, <2>3 DEF GotOK
  <1>10. QED BY <1>5, <1>9

LEMMA TakeCounted ==
  ASSUME IInv, Counted, NEW p \in Publisher, Take(p)
  PROVE  Counted'
  <1> USE DEF IInv, Counted, Take
  <1>1. sent \in Nat /\ inbound \in Seq(Msg) /\ inbound # <<>> /\ sent' = sent
    BY DEF TypeOK
  <1>2. /\ Len(inbound') = Len(inbound) - 1 /\ Len(inbound) \in Nat \ {0}
        /\ \A i \in 1 .. Len(inbound') : inbound'[i] = inbound[i + 1]
        /\ Head(inbound) = inbound[1]
    BY <1>1
  <1>3. Taken' = Taken + 1 /\ Taken \in Int
    BY <1>1, <1>2 DEF Taken
  <1>4. Head(inbound) = Taken + 1
    BY <1>2 DEF MsgOK
  <1>5. \A i \in 1 .. Len(inbound') : inbound'[i] = Taken' + i
    BY <1>2, <1>3 DEF MsgOK
  <1>6. msg' = [msg EXCEPT ![p] = Taken + 1] /\ Taken + 1 \in Msg
    <2>1. Head(inbound) \in Msg
      BY <1>1
    <2>2. QED BY <2>1, <1>4
  <1>7. \A q \in Publisher \ {p} : msg'[q] = msg[q] /\ pc'[q] = pc[q]
    BY <1>6 DEF TypeOK
  <1>8. msg'[p] = Taken + 1 /\ pc'[p] = "taken"
    BY <1>6 DEF TypeOK
  <1>9. \A q \in Publisher : msg[q] # None => msg[q] \in Nat /\ msg[q] < Taken + 1
    BY <1>3 DEF TypeOK, MsgOK
  <1>10. MsgOK'
    <2>1. Taken' >= 0
      BY <1>3 DEF MsgOK
    <2>2. \A q \in Publisher : msg'[q] # None => msg'[q] <= Taken'
      BY <1>3, <1>7, <1>8, <1>9
    <2>3. \A q, r \in Publisher : q # r /\ msg'[q] # None => msg'[q] # msg'[r]
      <3> SUFFICES ASSUME NEW q \in Publisher, NEW r \in Publisher, q # r, msg'[q] # None
                   PROVE  msg'[q] # msg'[r]
        OBVIOUS
      <3>1. CASE q = p
        BY <3>1, <1>3, <1>6, <1>7, <1>8, <1>9
      <3>2. CASE r = p
        BY <3>2, <1>3, <1>7, <1>8, <1>9
      <3>3. CASE q # p /\ r # p
        BY <3>3, <1>7 DEF MsgOK
      <3>4. QED BY <3>1, <3>2, <3>3
    <2>4. QED BY <1>5, <2>1, <2>2, <2>3 DEF MsgOK
  <1>11. \A q \in Publisher \ {p}, s \in Sub : Brings(q, s)' <=> Brings(q, s)
    BY <1>7 DEF Brings
  <1>12. \A s \in Sub : Brings(p, s)'
    BY <1>8 DEF Brings
  <1>13. msg[p] = None
    BY DEF HeldOK
  <1>14. \A s \in Sub, m \in Msg : got[s][m] \in Nat
    BY DEF TypeOK
  <1>15. \A s \in Sub : got[s][Taken + 1] = 0
    <2> SUFFICES ASSUME NEW s \in Sub PROVE got[s][Taken + 1] = 0
      OBVIOUS
    <2>1. got[s][Taken + 1] \in Nat /\ got[s][Taken + 1] <= 1
      BY <1>6, <1>14 DEF GotOK
    <2>2. got[s][Taken + 1] # 1
      BY <1>3, <1>6 DEF GotOK
    <2>3. QED BY <2>1, <2>2
  <1>16. GotOK'
    <2> SUFFICES ASSUME NEW s \in Sub, NEW m \in Msg
                 PROVE  /\ got[s][m] <= 1
                        /\ got[s][m] = 1 => m <= Taken'
                        /\ \A q \in Publisher : msg'[q] = m /\ Brings(q, s)' => got[s][m] = 0
                        /\ m \in owed[s] =>
                             \/ m > Taken' /\ m <= sent
                             \/ \E q \in Publisher : msg'[q] = m /\ Brings(q, s)'
                             \/ got[s][m] = 1
      BY DEF GotOK
    <2>1. CASE m = Taken + 1
      BY <2>1, <1>3, <1>8, <1>12, <1>15
    <2>2. CASE m # Taken + 1
      <3>1. \A q \in Publisher : msg'[q] = m /\ Brings(q, s)' <=> msg[q] = m /\ Brings(q, s)
        BY <2>2, <1>7, <1>8, <1>11, <1>13
      <3>2. m \in Int
        OBVIOUS
      <3>3. /\ got[s][m] <= 1
            /\ \A q \in Publisher : msg[q] = m /\ Brings(q, s) => got[s][m] = 0
            /\ m \in owed[s] =>
                 \/ m > Taken /\ m <= sent
                 \/ \E q \in Publisher : msg[q] = m /\ Brings(q, s)
                 \/ got[s][m] = 1
        BY DEF GotOK
      <3>4. got[s][m] = 1 => m <= Taken'
        BY <3>2, <1>3 DEF GotOK
      <3>5. m > Taken => m > Taken'
        BY <2>2, <3>2, <1>3
      <3>6. QED BY <3>1, <3>3, <3>4, <3>5
    <2>3. QED BY <2>1, <2>2
  <1>17. QED BY <1>10, <1>16

\* Actions of a publisher that keep what it has taken, and deliver nothing.
LEMMA PublisherCounted ==
  ASSUME IInv, Counted, NEW p \in Publisher, UNCHANGED <<sent, inbound, msg, got, owed>>,
         \A q \in Publisher \ {p}, s \in Sub : Brings(q, s)' <=> Brings(q, s),
         \A s \in Sub : Brings(p, s)' => Brings(p, s),
         \A s \in Sub : msg[p] \in owed[s] /\ Brings(p, s) => Brings(p, s)'
  PROVE  Counted'
  <1>1. MsgOK'
    BY DEF Counted, MsgOK, Taken
  <1>2. GotOK'
    <2> SUFFICES ASSUME NEW s \in Sub, NEW m \in Msg
                 PROVE  /\ \A q \in Publisher : msg[q] = m /\ Brings(q, s)' => got[s][m] = 0
                        /\ m \in owed[s] =>
                             \/ m > Taken /\ m <= sent
                             \/ \E q \in Publisher : msg[q] = m /\ Brings(q, s)'
                             \/ got[s][m] = 1
      BY DEF Counted, GotOK, Taken
    <2>1. \A q \in Publisher : Brings(q, s)' => Brings(q, s)
      OBVIOUS
    <2>2. \A q \in Publisher : msg[q] \in owed[s] /\ Brings(q, s) => Brings(q, s)'
      OBVIOUS
    <2>3. QED BY <2>1, <2>2 DEF Counted, GotOK
  <1>3. QED BY <1>1, <1>2 DEF Counted

LEMMA SearchCounted ==
  ASSUME IInv, Counted, NEW p \in Publisher, Search(p)
  PROVE  Counted'
  <1>1. \A q \in Publisher \ {p}, s \in Sub : Brings(q, s)' <=> Brings(q, s)
    BY DEF IInv, TypeOK, Search, Brings
  <1>2. \A s \in Sub : Brings(p, s)
    BY DEF Search, Brings
  <1>3. \A s \in Sub : msg[p] \in owed[s] => Brings(p, s)'
    BY DEF IInv, TypeOK, OwedOK, Search, Brings
  <1>4. QED BY <1>1, <1>2, <1>3, PublisherCounted DEF Search, gotVars

LEMMA AcquireCounted ==
  ASSUME IInv, Counted, NEW p \in Publisher, NEW s \in Sub, Acquire(p, s)
  PROVE  Counted'
  <1>1. \A q \in Publisher, r \in Sub : Brings(q, r)' <=> Brings(q, r)
    BY DEF IInv, TypeOK, Acquire, Brings
  <1>2. QED BY <1>1, PublisherCounted DEF Acquire

LEMMA DeliverCounted ==
  ASSUME IInv, Counted, NEW p \in Publisher, NEW s \in Sub, Deliver(p, s)
  PROVE  Counted'
  <1>1. \A q \in Publisher, r \in Sub : Brings(q, r)' <=> Brings(q, r)
    BY DEF IInv, TypeOK, Deliver, Brings
  <1>2. QED BY <1>1, PublisherCounted DEF Deliver

LEMMA DoneCounted ==
  ASSUME IInv, Counted, NEW p \in Publisher, Done(p)
  PROVE  Counted'
  <1> USE DEF IInv, Counted, Done
  <1>1. msg'[p] = None /\ \A q \in Publisher \ {p} : msg'[q] = msg[q]
    BY DEF TypeOK
  <1>2. MsgOK'
    BY <1>1 DEF MsgOK, Taken
  <1>3. \A q \in Publisher \ {p}, s \in Sub : Brings(q, s)' <=> Brings(q, s)
    BY DEF TypeOK, Brings
  <1>4. \A s \in Sub : ~Brings(p, s)
    BY DEF Brings
  <1>5. \A m \in Msg : m # None
    OBVIOUS
  <1>6. \A q \in Publisher, s \in Sub, m \in Msg :
          msg'[q] = m /\ Brings(q, s)' <=> msg[q] = m /\ Brings(q, s)
    BY <1>1, <1>3, <1>4, <1>5
  <1>7. GotOK'
    BY <1>6 DEF GotOK, Taken
  <1>8. QED BY <1>2, <1>7

LEMMA CallCounted ==
  ASSUME IInv, Counted, NEW p \in Publisher, Call(p)
  PROVE  Counted'
  <1> DEFINE writer == TxOf(target[p])
             stored == target[p].connection = 0
  <1> USE DEF IInv
  <1>1. PICK s \in Sub : s = target[p].sub
    BY DEF Call, CallOK
  <1>2. s \in entries[p] /\ target[p] \in Target /\ target[p].connection = publisher[s]
    BY <1>1 DEF Call, CallOK
  <1>3. CASE ~stored /\ writer = "nil"
    <2>1. UNCHANGED <<sent, inbound, msg, found, entries, got, owed>>
      BY <1>3 DEF Call
    <2>2. pc' = [pc EXCEPT ![p] = "crashed"] /\ pc[p] = "call"
      BY <1>3 DEF Call
    <2>3. \A q \in Publisher, r \in Sub : Brings(q, r)' <=> Brings(q, r)
      BY <2>1, <2>2 DEF TypeOK, Brings
    <2>4. QED BY <2>1, <2>3, PublisherCounted
  <1>4. CASE ~(~stored /\ writer = "nil")
    <2>1. /\ pc' = [pc EXCEPT ![p] = "deliver"] /\ pc[p] = "call"
          /\ entries' = [entries EXCEPT ![p] = entries[p] \ {s}]
          /\ UNCHANGED <<subVars, inbound, msg, found, sent, owed>>
      BY <1>1, <1>4 DEF Call
    <2>2. msg[p] \in Msg /\ s \notin found[p]
      BY <1>2, <2>1 DEF HeldOK, TypeOK
    <2>3. \A q \in Publisher \ {p}, r \in Sub : Brings(q, r)' <=> Brings(q, r)
      BY <2>1 DEF TypeOK, Brings
    <2>4. /\ \A r \in Sub \ {s} : Brings(p, r)' <=> Brings(p, r)
          /\ Brings(p, s) /\ ~Brings(p, s)'
      BY <1>2, <2>1, <2>2 DEF TypeOK, Brings
    <2>5. CASE stored \/ writer = "up"
      <3>1. got' = [got EXCEPT ![s][msg[p]] = got[s][msg[p]] + 1]
        BY <1>1, <1>4, <2>5 DEF Call
      <3>2. got[s][msg[p]] = 0
        BY <2>2, <2>4 DEF Counted, GotOK
      <3>3. got'[s][msg[p]] = 1
        BY <2>2, <3>1, <3>2 DEF TypeOK
      <3>4. \A r \in Sub, m \in Msg : r # s \/ m # msg[p] => got'[r][m] = got[r][m]
        BY <2>2, <3>1 DEF TypeOK
      <3>5. MsgOK'
        BY <2>1 DEF Counted, MsgOK, Taken
      <3>6. \A q \in Publisher \ {p} : msg[q] # msg[p]
        BY <2>2 DEF Counted, MsgOK
      <3>7. msg[p] <= Taken
        BY <2>2 DEF Counted, MsgOK
      <3>8. GotOK'
        <4> SUFFICES ASSUME NEW r \in Sub, NEW m \in Msg
                     PROVE  /\ got'[r][m] <= 1
                            /\ got'[r][m] = 1 => m <= Taken
                            /\ \A q \in Publisher : msg[q] = m /\ Brings(q, r)' => got'[r][m] = 0
                            /\ m \in owed[r] =>
                                 \/ m > Taken /\ m <= sent
                                 \/ \E q \in Publisher : msg[q] = m /\ Brings(q, r)'
                                 \/ got'[r][m] = 1
          BY <2>1 DEF GotOK, Taken
        <4>1. CASE r = s /\ m = msg[p]
          BY <4>1, <2>4, <3>3, <3>6, <3>7
        <4>2. CASE ~(r = s /\ m = msg[p])
          <5>1. \A q \in Publisher : msg[q] = m /\ Brings(q, r)' <=> msg[q] = m /\ Brings(q, r)
            BY <4>2, <2>3, <2>4
          <5>2. QED BY <4>2, <5>1, <3>4 DEF Counted, GotOK
        <4>3. QED BY <4>1, <4>2
      <3>9. QED BY <3>5, <3>8 DEF Counted
    <2>6. CASE ~(stored \/ writer = "up")
      <3>1. got' = got
        BY <1>4, <2>6 DEF Call
      <3>2. owed[s] = {}
        BY <1>1, <1>2, <2>6, OwedHasWriter DEF TxOf
      <3>3. \A r \in Sub : msg[p] \in owed[r] /\ Brings(p, r) => Brings(p, r)'
        BY <2>4, <3>2
      <3>4. QED BY <2>1, <2>3, <2>4, <3>1, <3>3, PublisherCounted
    <2>7. QED BY <2>5, <2>6
  <1>5. QED BY <1>3, <1>4

LEMMA NextCounted == IInv /\ Counted /\ [Next]_vars => Counted'
  <1> SUFFICES ASSUME IInv, Counted, [Next]_vars PROVE Counted'
    OBVIOUS
  <1>1. CASE Publish
    BY <1>1, PublishCounted
  <1>2. ASSUME NEW p \in Publisher, Publishers(p) PROVE Counted'
    BY <1>2, TakeCounted, SearchCounted, AcquireCounted, DeliverCounted, CallCounted,
       DoneCounted DEF Publishers
  <1>3. ASSUME NEW s \in Sub,
               Online(s) \/ Subscribe(s) \/ UnSubscribe(s) \/ Offline(s) \/ Closing(s)
        PROVE  Counted'
    <2>1. UNCHANGED <<sent, inbound, pubVars, got>>
      BY <1>3 DEF Online, Subscribe, UnSubscribe, Offline, Closing, UnSubscriber, Subscriber,
         AccessWait, StopWriter, Close
    <2>2. owed' = owed \/ owed' = [owed EXCEPT ![s] = {}]
      BY <1>3 DEF Online, Subscribe, UnSubscribe, Offline, Closing, UnSubscriber, Subscriber,
         AccessWait, StopWriter, Close
    <2>3. \A r \in Sub : owed'[r] \subseteq owed[r]
      BY <2>2 DEF IInv, TypeOK
    <2>4. QED BY <2>1, <2>3, SubscriberCounted
  <1>4. CASE UNCHANGED vars
    BY <1>4, SubscriberCounted
  <1>5. QED BY <1>1, <1>2, <1>3, <1>4 DEF Next

LEMMA CountedOnceEach == IInv /\ Counted => OnceEach
  <1> SUFFICES ASSUME IInv, Counted, NEW s \in Sub, NEW m \in Msg,
                      m \in owed[s], ~UnderWay(m)
               PROVE  got[s][m] = 1
    BY DEF OnceEach, Counted, GotOK
  <1>1. \A p \in Publisher : msg[p] # m
    BY DEF UnderWay
  <1>2. ~(m > Taken /\ m <= sent)
    <2> SUFFICES ASSUME m > Taken, m <= sent PROVE FALSE
      OBVIOUS
    <2>1. m - Taken \in 1 .. Len(inbound) /\ inbound \in Seq(Msg)
      BY DEF Taken, IInv, TypeOK
    <2>2. Taken \in Int
      BY <2>1 DEF Taken, IInv, TypeOK
    <2>3. inbound[m - Taken] = Taken + (m - Taken)
      BY <2>1 DEF Counted, MsgOK
    <2>4. inbound[m - Taken] = m
      BY <2>2, <2>3
    <2>5. QED BY <2>1, <2>4 DEF UnderWay
  <1>3. QED BY <1>1, <1>2 DEF Counted, GotOK

\* What is published between SUBACK and UNSUBSCRIBE is delivered, or stored, once
\* (topics.go:256, subscriber.go:150), and nothing is delivered twice, for any number
\* of publishers, subscribers, connections and publishes.
THEOREM OnceEachCorrect == Spec => []OnceEach
  <1>1. Init => IInv /\ Counted
    <2>1. Init => Counted
      BY DEF Init, Counted, MsgOK, GotOK, Taken, Brings
    <2>2. QED BY <2>1, InitIInv
  <1>2. IInv /\ Counted /\ [Next]_vars => (IInv /\ Counted)'
    BY NextIInv, NextCounted
  <1>3. QED BY <1>1, <1>2, CountedOnceEach, PTL DEF Spec
=============================================================================

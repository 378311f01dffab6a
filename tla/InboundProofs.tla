--------------------------- MODULE InboundProofs ---------------------------
(***************************************************************************)
(* What the reader and the close keep true for any number of publishes,    *)
(* packet ids, connections and packets sent again, any receive maximum and *)
(* any window.                                                             *)
(***************************************************************************)
EXTENDS Inbound, FiniteSetTheorems, TLAPS

Acks    == {"PUBACK", "PUBREC", "PUBCOMP"}
Last    == {"PUBACK", "PUBCOMP"}
Plain   == {"PINGREQ", "DISCONNECT"}
Packet  == [type : {"PUBLISH"}, id : Id, msg : Msg] \cup [type : {"PUBREL"}, id : Id, msg : {None}]
           \cup [type : Plain, id : {0}, msg : {None}]
Ack     == [type : Acks, id : Id, msg : {None}]
Reading == {"deadline", "read", "handle"}
Leaving == {"stop", "disconnect"}
Passing == {"drop", "signal", "clear", "done"}
Gone    == {"signal", "clear", "done"}

TypeOK ==
  /\ state \in [Msg -> {"new", "sent", "released", "done"}]
  /\ idOf \in [Msg -> 0 .. MaxId]
  /\ connections \in Nat /\ repeats \in Nat /\ unanswered \in Int
  /\ up \in BOOLEAN /\ net \in Seq(Packet) /\ back \in Seq(Ack)
  /\ buffered \in Nat
  /\ rpc \in Reading \cup Leaving \cup {"ended", "crashed"}
  /\ pkt \in Packet
  /\ pubIn \in [Id -> Msg \cup {None}] /\ rxQuota \in Int
  /\ will \in BOOLEAN /\ onStop \in BOOLEAN /\ tx \in BOOLEAN
  /\ closing \in {"open", "begun", "waits"} \cup Passing
  /\ published \in [Msg -> Nat] /\ dropped \subseteq Msg
  /\ willSent \in Nat /\ left \in BOOLEAN /\ passed \in BOOLEAN

\* How the reader and the close stop each other, and what becomes of the will.
CloseOK ==
  /\ left => onStop /\ rpc \in Leaving \cup {"ended", "crashed"}
  /\ rpc \in Leaving => left
  /\ onStop /\ closing \in {"open", "begun"} => left
  /\ passed => left /\ closing \in Passing
  /\ closing \in Passing => rpc = "ended" \/ passed
  /\ closing \in {"open", "begun", "waits", "drop"} => tx
  /\ rpc = "crashed" => passed
  /\ closing \notin {"clear", "done"} => willSent = 0 /\ (~left => will)
  /\ left /\ rpc = "ended" => ~will
  /\ closing \in {"clear", "done"} /\ connections > 0 /\ ~passed => willSent = IF left THEN 0 ELSE 1

\* A packet id belongs to one publish that is in flight.
IdsOK ==
  /\ \A m \in Msg : idOf[m] # 0 <=> state[m] \in {"sent", "released"}
  /\ \A m \in Msg : state[m] = "released" => m \in QoS2
  /\ \A m, n \in Msg : idOf[m] = idOf[n] /\ idOf[m] # 0 => m = n

\* The packets that have not been handled yet.
InHand == rpc = "handle"
Of(s)  == {s[k] : k \in 1 .. Len(s)}
Way    == Of(net) \cup IF InHand THEN {pkt} ELSE {}

\* A QoS 2 publish on its way is in flight and has not been forwarded; a QoS 1
\* publish may have been acknowledged already. Nobody else has their packet id.
PublishDue(p) ==
  /\ state[p.msg] # "new" /\ idOf[p.msg] \in {p.id, 0}
  /\ p.msg \in QoS2 => idOf[p.msg] = p.id /\ published[p.msg] = 0
  /\ \A n \in Msg : idOf[n] = p.id => n = p.msg

PubrelDue(p) == \A n \in Msg : idOf[n] = p.id => n \in QoS2 /\ state[n] = "released"

\* A publish that has been answered with PUBREC is stored, forwarded or dropped;
\* one that is answered for good is not stored any more.
Kept(m) == m \in dropped \/ published[m] >= 1 \/ pubIn[idOf[m]] = m

Answers(a) ==
  /\ \A n \in Msg : idOf[n] = a.id =>
       /\ a.type = "PUBACK" => n \in QoS1 /\ published[n] >= 1
       /\ a.type = "PUBREC" => n \in QoS2 /\ Kept(n)
       /\ a.type = "PUBCOMP" => n \in QoS2 /\ state[n] = "released"
  /\ a.type = "PUBCOMP" => pubIn[a.id] = None

\* Nothing is published again once it has been released.
Before(p, i) == p.type = "PUBLISH" => p.id # i
Ordered(s) ==
  \A j, k \in 1 .. Len(s) : j < k /\ s[j].type = "PUBREL" => Before(s[k], s[j].id)

OrderOK ==
  /\ Ordered(net)
  /\ InHand /\ pkt.type = "PUBREL" => \A p \in Of(net) : Before(p, pkt.id)
  /\ \A a \in Of(back), p \in Way : a.type = "PUBCOMP" => Before(p, a.id)

WayOK ==
  /\ \A p \in Way : /\ p.type = "PUBLISH" => PublishDue(p)
                    /\ p.type = "PUBREL" => PubrelDue(p)
  /\ \A a \in Of(back) : Answers(a)
  /\ ~up => back = <<>>
  /\ closing \in Gone => ~up /\ net = <<>>

\* What pubIn holds is in flight under its id and has not been forwarded.
StoredOK ==
  /\ \A i \in Id : pubIn[i] # None =>
       pubIn[i] \in QoS2 /\ idOf[pubIn[i]] = i /\ published[pubIn[i]] = 0
  /\ closing = "done" => \A i \in Id : pubIn[i] = None

OnceOK ==
  \A m \in Msg :
    /\ m \in QoS2 => published[m] <= 1
    /\ m \in QoS2 /\ state[m] \in {"new", "sent"} => published[m] = 0
    /\ state[m] = "released" => Kept(m)
    /\ state[m] = "done" => m \in dropped \/ published[m] >= 1

\* What the quota lacks has not been answered for good, what has still to lower it
\* has been sent, and what has raised it may not have been read.
Count(s, T) == Cardinality({k \in 1 .. Len(s) : s[k].type \in T})
Handled == IF InHand /\ pkt.type = "PUBLISH" THEN 1 ELSE 0
QuotaOK == rxQuota + unanswered >= RxMax + Count(net, {"PUBLISH"}) + Handled + Count(back, Last)

IInv == TypeOK /\ CloseOK /\ IdsOK /\ WayOK /\ OrderOK /\ StoredOK /\ OnceOK /\ QuotaOK
-----------------------------------------------------------------------------
(* Sequences of packets: what is on them, how many of a type, their order.  *)

LEMMA Countable ==
  ASSUME NEW S, NEW s \in Seq(S), NEW T
  PROVE  IsFiniteSet({k \in 1 .. Len(s) : s[k].type \in T}) /\ Count(s, T) \in Nat
  <1>1. Len(s) \in Nat
    OBVIOUS
  <1>2. IsFiniteSet(1 .. Len(s))
    BY <1>1, FS_Interval
  <1>3. IsFiniteSet({k \in 1 .. Len(s) : s[k].type \in T})
    BY <1>2, FS_Subset
  <1>4. QED BY <1>3, FS_CardinalityType DEF Count

LEMMA Empty ==
  ASSUME NEW T
  PROVE  Of(<<>>) = {} /\ Ordered(<<>>) /\ Count(<<>>, T) = 0
  <1>1. Len(<<>>) = 0
    OBVIOUS
  <1>2. 1 .. 0 = {}
    OBVIOUS
  <1>3. Of(<<>>) = {} /\ Ordered(<<>>)
    BY <1>1, <1>2 DEF Of, Ordered
  <1>4. {k \in 1 .. Len(<<>>) : <<>>[k].type \in T} = {}
    BY <1>1, <1>2
  <1>5. QED BY <1>3, <1>4, FS_EmptySet DEF Count

LEMMA Appended ==
  ASSUME NEW S, NEW s \in Seq(S), NEW e \in S, NEW T
  PROVE  /\ Append(s, e) \in Seq(S)
         /\ Of(Append(s, e)) = Of(s) \cup {e}
         /\ Count(Append(s, e), T) = IF e.type \in T THEN Count(s, T) + 1 ELSE Count(s, T)
         /\ Ordered(s) /\ (\A q \in Of(s) : q.type = "PUBREL" => Before(e, q.id))
              => Ordered(Append(s, e))
  <1> DEFINE t == Append(s, e)
             n == Len(s)
  <1>1. /\ t \in Seq(S) /\ Len(t) = n + 1 /\ n \in Nat /\ t[n + 1] = e
        /\ \A k \in 1 .. n : t[k] = s[k]
    OBVIOUS
  <1>2. 1 .. n + 1 = (1 .. n) \cup {n + 1} /\ n + 1 \notin 1 .. n
    BY <1>1
  <1> HIDE DEF t
  <1>3. Of(t) = Of(s) \cup {e}
    BY <1>1, <1>2 DEF Of
  <1>4. Count(t, T) = IF e.type \in T THEN Count(s, T) + 1 ELSE Count(s, T)
    <2> DEFINE A == {k \in 1 .. n : s[k].type \in T}
               B == {k \in 1 .. n + 1 : t[k].type \in T}
    <2>1. IsFiniteSet(A) /\ n + 1 \notin A
      <3>1. IsFiniteSet(A)
        BY Countable
      <3>2. QED BY <1>2, <3>1
    <2>2. e.type \in T => B = A \cup {n + 1}
      BY <1>1, <1>2
    <2>3. e.type \notin T => B = A
      BY <1>1, <1>2
    <2>4. Cardinality(A \cup {n + 1}) = Cardinality(A) + 1
      BY <2>1, FS_AddElement
    <2>5. Count(s, T) = Cardinality(A) /\ Count(t, T) = Cardinality(B)
      BY <1>1 DEF Count
    <2>6. QED BY <2>2, <2>3, <2>4, <2>5
  <1>5. Ordered(s) /\ (\A q \in Of(s) : q.type = "PUBREL" => Before(e, q.id)) => Ordered(t)
    <2> SUFFICES ASSUME Ordered(s), \A q \in Of(s) : q.type = "PUBREL" => Before(e, q.id),
                        NEW j \in 1 .. n + 1, NEW k \in 1 .. n + 1, j < k, t[j].type = "PUBREL"
                 PROVE  Before(t[k], t[j].id)
      BY <1>1 DEF Ordered
    <2>1. j \in 1 .. n
      BY <1>1
    <2>2. CASE k \in 1 .. n
      BY <1>1, <2>1, <2>2 DEF Ordered
    <2>3. CASE k = n + 1
      BY <1>1, <2>1, <2>3 DEF Of
    <2>4. QED BY <1>2, <2>2, <2>3
  <1>6. QED BY <1>1, <1>3, <1>4, <1>5 DEF t

LEMMA Behead ==
  ASSUME NEW S, NEW s \in Seq(S), s # <<>>, NEW T
  PROVE  /\ Head(s) \in S /\ Tail(s) \in Seq(S)
         /\ Of(s) = {Head(s)} \cup Of(Tail(s))
         /\ Count(s, T) = IF Head(s).type \in T THEN Count(Tail(s), T) + 1 ELSE Count(Tail(s), T)
         /\ Ordered(s) => /\ Ordered(Tail(s))
                          /\ Head(s).type = "PUBREL" => \A p \in Of(Tail(s)) : Before(p, Head(s).id)
  <1> DEFINE t == Tail(s)
             n == Len(t)
  <1>1. /\ t \in Seq(S) /\ Len(s) = n + 1 /\ n \in Nat /\ Head(s) = s[1] /\ s[1] \in S
        /\ \A k \in 1 .. n : t[k] = s[k + 1]
    OBVIOUS
  <1> HIDE DEF t
  <1>2. /\ 1 \in 1 .. Len(s) /\ \A k \in 1 .. n : k + 1 \in 1 .. Len(s) /\ 1 < k + 1
        /\ \A k \in 1 .. Len(s) : k = 1 \/ (k - 1 \in 1 .. n /\ t[k - 1] = s[k])
    <2>1. \A k \in 1 .. Len(s) : k # 1 => k - 1 \in 1 .. n /\ k = (k - 1) + 1
      BY <1>1
    <2>2. QED BY <1>1, <2>1
  <1>3. Of(s) = {Head(s)} \cup Of(t)
    <2>1. \A k \in 1 .. Len(s) : s[k] \in {Head(s)} \cup Of(t)
      BY <1>1, <1>2 DEF Of
    <2>2. \A k \in 1 .. n : t[k] \in Of(s)
      BY <1>1, <1>2 DEF Of
    <2>3. Head(s) \in Of(s)
      BY <1>1, <1>2 DEF Of
    <2>4. QED BY <2>1, <2>2, <2>3 DEF Of
  <1>4. Count(s, T) = IF Head(s).type \in T THEN Count(t, T) + 1 ELSE Count(t, T)
    <2> DEFINE A == {k \in 1 .. n : t[k].type \in T}
               B == {k \in 1 .. Len(s) : s[k].type \in T}
               f == [k \in A |-> k + 1]
    <2>1. IsFiniteSet(A) /\ IsFiniteSet(B)
      <3>1. IsFiniteSet(A)
        BY <1>1, Countable
      <3>2. IsFiniteSet(B)
        BY Countable
      <3>3. QED BY <3>1, <3>2
    <2>2. f \in Bijection(A, B \ {1})
      <3>1. f \in [A -> B \ {1}]
        BY <1>1, <1>2
      <3>2. \A j, k \in A : f[j] = f[k] => j = k
        OBVIOUS
      <3>3. \A b \in B \ {1} : b - 1 \in A /\ f[b - 1] = b
        BY <1>2
      <3>4. QED BY <3>1, <3>2, <3>3 DEF Bijection, Injection, Surjection, IsInjective
    <2>3. Cardinality(A) = Cardinality(B \ {1})
      BY <2>1, <2>2, FS_Bijection DEF ExistsBijection
    <2>4. Head(s).type \in T => 1 \in B
      BY <1>1, <1>2
    <2>5. Head(s).type \notin T => B \ {1} = B
      BY <1>1
    <2>6. 1 \in B => Cardinality(B) = Cardinality(B \ {1}) + 1
      <3>1. IsFiniteSet(B \ {1}) /\ 1 \notin B \ {1}
        BY <2>1, FS_Subset
      <3>2. Cardinality((B \ {1}) \cup {1}) = Cardinality(B \ {1}) + 1
        BY <3>1, FS_AddElement
      <3>3. 1 \in B => (B \ {1}) \cup {1} = B
        OBVIOUS
      <3>4. QED BY <3>2, <3>3
    <2>7. Count(t, T) = Cardinality(A) /\ Count(s, T) = Cardinality(B)
      BY DEF Count
    <2>8. QED BY <2>3, <2>4, <2>5, <2>6, <2>7
  <1>5. ASSUME Ordered(s) PROVE Ordered(t)
    <2> SUFFICES ASSUME NEW j \in 1 .. n, NEW k \in 1 .. n, j < k, t[j].type = "PUBREL"
                 PROVE  Before(t[k], t[j].id)
      BY DEF Ordered
    <2>1. j + 1 \in 1 .. Len(s) /\ k + 1 \in 1 .. Len(s) /\ j + 1 < k + 1
      BY <1>1, <1>2
    <2>2. QED BY <1>1, <1>5, <2>1 DEF Ordered
  <1>6. ASSUME Ordered(s), Head(s).type = "PUBREL", NEW p \in Of(t)
        PROVE  Before(p, Head(s).id)
    <2>1. PICK k \in 1 .. n : p = t[k]
      BY DEF Of
    <2>2. QED BY <1>1, <1>2, <1>6, <2>1 DEF Ordered
  <1>7. QED BY <1>1, <1>3, <1>4, <1>5, <1>6 DEF t

LEMMA Shortened ==
  ASSUME NEW S, NEW s \in Seq(S), NEW l \in 0 .. Len(s), NEW T
  PROVE  /\ SubSeq(s, 1, l) \in Seq(S) /\ Of(SubSeq(s, 1, l)) \subseteq Of(s)
         /\ Ordered(s) => Ordered(SubSeq(s, 1, l))
         /\ Count(SubSeq(s, 1, l), T) <= Count(s, T)
  <1> DEFINE t == SubSeq(s, 1, l)
  <1>1. /\ t \in Seq(S) /\ Len(t) = l /\ l \in Nat /\ Len(s) \in Nat
        /\ \A k \in 1 .. l : k \in 1 .. Len(s) /\ t[k] = s[k]
    OBVIOUS
  <1> HIDE DEF t
  <1>2. Of(t) \subseteq Of(s) /\ (Ordered(s) => Ordered(t))
    BY <1>1 DEF Of, Ordered
  <1>3. Count(t, T) <= Count(s, T)
    <2>1. IsFiniteSet({k \in 1 .. Len(s) : s[k].type \in T})
      BY Countable
    <2>2. {k \in 1 .. Len(t) : t[k].type \in T} \subseteq {k \in 1 .. Len(s) : s[k].type \in T}
      BY <1>1
    <2>3. QED BY <2>1, <2>2, FS_Subset DEF Count
  <1>4. QED BY <1>1, <1>2, <1>3 DEF t

-----------------------------------------------------------------------------
(* What the steps have in common.                                           *)

USE InboundAssumption
    DEF Msg, Id, Acks, Last, Plain, Reading, Leaving, Passing, Gone, clientVars, netVars,
        readVars, queueVars, closeVars, historyVars, vars, Control, Publish

LEMMA Counts ==
  ASSUME TypeOK
  PROVE  /\ Count(net, {"PUBLISH"}) \in Nat /\ Count(back, Last) \in Nat /\ Handled \in {0, 1}
         /\ rxQuota \in Int /\ unanswered \in Int
  BY Countable DEF TypeOK, Handled

\* Packets and acknowledgements may get lost, and packets that are about no
\* publish join them.
LEMMA Lost ==
  ASSUME IInv, UNCHANGED <<state, idOf, pubIn, rxQuota, unanswered, published, dropped>>,
         TypeOK', \A p \in Of(net') : p \in Of(net) \/ p.type \in Plain,
         Ordered(net'), Count(net, {"PUBLISH"})' <= Count(net, {"PUBLISH"}),
         back' \in {back, <<>>}, ~up' => back' = <<>>,
         InHand' => InHand /\ pkt' = pkt,
         closing' \in Gone => ~up' /\ net' = <<>>,
         closing' = "done" => closing = "done"
  PROVE  IdsOK' /\ WayOK' /\ OrderOK' /\ StoredOK' /\ OnceOK' /\ QuotaOK'
  <1> USE DEF IInv
  <1>1. IdsOK' /\ StoredOK' /\ OnceOK'
    BY DEF IdsOK, StoredOK, OnceOK, Kept
  <1>2. Of(back') \subseteq Of(back) /\ \A p \in Way' : p \in Way \/ p.type \in Plain
    BY Empty DEF Way
  <1>3. WayOK'
    BY <1>2 DEF WayOK, PublishDue, PubrelDue, Answers, Kept
  <1>4. OrderOK'
    BY <1>2 DEF OrderOK, Before
  <1>5. QuotaOK'
    <2>1. TypeOK /\ QuotaOK
      OBVIOUS
    <2>2. Count(back, Last)' <= Count(back, Last) /\ Handled' <= Handled
      BY <2>1, Counts, Empty DEF Handled
    <2>3. Count(net, {"PUBLISH"})' \in Nat /\ Count(back, Last)' \in Nat /\ Handled' \in {0, 1}
      BY Countable DEF TypeOK, Handled
    <2>4. RxMax \in Nat /\ rxQuota' = rxQuota /\ unanswered' = unanswered
      OBVIOUS
    <2> HIDE DEF IInv
    <2>5. Count(net, {"PUBLISH"})' <= Count(net, {"PUBLISH"})
      OBVIOUS
    <2>6. QED BY ONLY <2>1, <2>2, <2>3, <2>4, <2>5, Counts DEF QuotaOK
  <1>6. QED BY <1>1, <1>3, <1>4, <1>5

\* The steps of reader and close that leave the packets alone.
LEMMA Still ==
  ASSUME IInv, TypeOK',
         UNCHANGED <<state, idOf, pubIn, rxQuota, unanswered, published, dropped, net, back, up>>,
         InHand' => InHand /\ pkt' = pkt,
         closing' \in Gone => closing \in Gone,
         closing' = "done" => closing = "done"
  PROVE  IdsOK' /\ WayOK' /\ OrderOK' /\ StoredOK' /\ OnceOK' /\ QuotaOK'
  <1>1. /\ Of(net') = Of(net) /\ Ordered(net') /\ Count(net, {"PUBLISH"})' = Count(net, {"PUBLISH"})
        /\ ~up' => back' = <<>>
        /\ closing' \in Gone => ~up' /\ net' = <<>>
    BY DEF IInv, WayOK, OrderOK
  <1>2. Count(net, {"PUBLISH"}) \in Nat
    BY Counts DEF IInv
  <1>3. QED BY <1>1, <1>2, Lost

-----------------------------------------------------------------------------
(* One lemma per action.                                                    *)

LEMMA SetDeadlineStep ==
  ASSUME IInv, SetDeadline
  PROVE  IInv'
  <1> USE DEF IInv, SetDeadline, Reset
  <1>1. TypeOK'
    BY DEF TypeOK
  <1>2. CloseOK'
    BY DEF TypeOK, CloseOK
  <1>3. IdsOK' /\ WayOK' /\ OrderOK' /\ StoredOK' /\ OnceOK' /\ QuotaOK'
    BY <1>1, Still DEF InHand
  <1>4. QED BY <1>1, <1>2, <1>3

LEMMA ReadFailsStep ==
  ASSUME IInv, ReadFails
  PROVE  IInv'
  <1> USE DEF IInv, ReadFails
  <1>1. TypeOK'
    BY DEF TypeOK
  <1>2. CloseOK'
    BY DEF TypeOK, CloseOK
  <1>3. IdsOK' /\ WayOK' /\ OrderOK' /\ StoredOK' /\ OnceOK' /\ QuotaOK'
    BY <1>1, Still DEF InHand
  <1>4. QED BY <1>1, <1>2, <1>3

LEMMA RefuseStep ==
  ASSUME IInv, Refuse
  PROVE  IInv'
  <1> USE DEF IInv, Refuse
  <1>1. TypeOK'
    BY DEF TypeOK
  <1>2. CloseOK'
    BY DEF TypeOK, CloseOK
  <1>3. IdsOK' /\ WayOK' /\ OrderOK' /\ StoredOK' /\ OnceOK' /\ QuotaOK'
    BY <1>1, Still DEF InHand
  <1>4. QED BY <1>1, <1>2, <1>3

LEMMA OnPingReqStep ==
  ASSUME IInv, OnPingReq
  PROVE  IInv'
  <1> USE DEF IInv, OnPingReq
  <1>1. TypeOK'
    BY DEF TypeOK
  <1>2. CloseOK'
    BY DEF TypeOK, CloseOK
  <1>3. IdsOK' /\ WayOK' /\ OrderOK' /\ StoredOK' /\ OnceOK' /\ QuotaOK'
    BY <1>1, Still DEF InHand
  <1>4. QED BY <1>1, <1>2, <1>3

LEMMA OnDisconnectStep ==
  ASSUME IInv, OnDisconnect
  PROVE  IInv'
  <1> USE DEF IInv, OnDisconnect
  <1>1. TypeOK'
    BY DEF TypeOK
  <1>2. CloseOK'
    BY DEF TypeOK, CloseOK
  <1>3. IdsOK' /\ WayOK' /\ OrderOK' /\ StoredOK' /\ OnceOK' /\ QuotaOK'
    BY <1>1, Still DEF InHand
  <1>4. QED BY <1>1, <1>2, <1>3

LEMMA StopWriterStep ==
  ASSUME IInv, StopWriter
  PROVE  IInv'
  <1> USE DEF IInv, StopWriter
  <1>1. TypeOK'
    BY DEF TypeOK
  <1>2. CloseOK'
    BY DEF TypeOK, CloseOK
  <1>3. IdsOK' /\ WayOK' /\ OrderOK' /\ StoredOK' /\ OnceOK' /\ QuotaOK'
    BY <1>1, Still DEF InHand
  <1>4. QED BY <1>1, <1>2, <1>3

LEMMA SignalDisconnectStep ==
  ASSUME IInv, SignalDisconnect
  PROVE  IInv'
  <1> USE DEF IInv, SignalDisconnect, NoWill
  <1>1. TypeOK'
    BY DEF TypeOK
  <1>2. CloseOK'
    BY DEF TypeOK, CloseOK
  <1>3. IdsOK' /\ WayOK' /\ OrderOK' /\ StoredOK' /\ OnceOK' /\ QuotaOK'
    BY <1>1, Still DEF InHand
  <1>4. QED BY <1>1, <1>2, <1>3

LEMMA BeginStep ==
  ASSUME IInv, Begin
  PROVE  IInv'
  <1> USE DEF IInv, Begin
  <1>1. TypeOK'
    BY DEF TypeOK
  <1>2. CloseOK'
    BY DEF TypeOK, CloseOK
  <1>3. IdsOK' /\ WayOK' /\ OrderOK' /\ StoredOK' /\ OnceOK' /\ QuotaOK'
    BY <1>1, Still DEF InHand
  <1>4. QED BY <1>1, <1>2, <1>3

LEMMA StopStep ==
  ASSUME IInv, Stop
  PROVE  IInv'
  <1> USE DEF IInv, Stop, Past
  <1>1. TypeOK'
    BY DEF TypeOK
  <1>2. CloseOK'
    BY DEF TypeOK, CloseOK
  <1>3. IdsOK' /\ WayOK' /\ OrderOK' /\ StoredOK' /\ OnceOK' /\ QuotaOK'
    BY <1>1, Still DEF InHand
  <1>4. QED BY <1>1, <1>2, <1>3

LEMMA ReaderGoneStep ==
  ASSUME IInv, ReaderGone
  PROVE  IInv'
  <1> USE DEF IInv, ReaderGone
  <1>1. TypeOK'
    BY DEF TypeOK
  <1>2. CloseOK'
    BY DEF TypeOK, CloseOK
  <1>3. IdsOK' /\ WayOK' /\ OrderOK' /\ StoredOK' /\ OnceOK' /\ QuotaOK'
    BY <1>1, Still DEF InHand
  <1>4. QED BY <1>1, <1>2, <1>3

LEMMA SignalConnectionCloseStep ==
  ASSUME IInv, SignalConnectionClose
  PROVE  IInv'
  <1> USE DEF IInv, SignalConnectionClose
  <1>1. TypeOK'
    <2>1. willSent' \in Nat
      BY DEF TypeOK
    <2>2. QED BY <2>1 DEF TypeOK
  <1>2. CloseOK'
    BY DEF TypeOK, CloseOK
  <1>3. IdsOK' /\ WayOK' /\ OrderOK' /\ StoredOK' /\ OnceOK' /\ QuotaOK'
    BY <1>1, Still DEF InHand
  <1>4. QED BY <1>1, <1>2, <1>3

LEMMA ClientPingsStep ==
  ASSUME IInv, ClientPings
  PROVE  IInv'
  <1> USE DEF IInv
  <1>1. /\ UNCHANGED <<clientVars, up, back, buffered, readVars, queueVars, closeVars, historyVars>>
        /\ net' = Append(net, Control("PINGREQ", 0)) /\ net \in Seq(Packet) /\ up
        /\ Control("PINGREQ", 0) \in Packet
    BY DEF Packet, TypeOK, ClientPings
  <1>2. Ordered(net) /\ \A q \in Of(net) : Before(Control("PINGREQ", 0), q.id)
    BY Empty DEF ClientPings
  <1>3. /\ net' \in Seq(Packet) /\ Ordered(net')
        /\ \A p \in Of(net') : p \in Of(net) \/ p.type \in Plain
        /\ Count(net, {"PUBLISH"})' = Count(net, {"PUBLISH"})
    BY <1>1, <1>2, Appended
  <1>4. TypeOK'
    BY <1>1, <1>3 DEF TypeOK
  <1>5. CloseOK'
    BY <1>1 DEF CloseOK
  <1>6. closing \notin Gone /\ (~up' => back' = <<>>)
    BY <1>1 DEF WayOK
  <1>7. Count(net, {"PUBLISH"}) \in Nat
    BY Counts
  <1>8. IdsOK' /\ WayOK' /\ OrderOK' /\ StoredOK' /\ OnceOK' /\ QuotaOK'
    BY <1>1, <1>3, <1>4, <1>6, <1>7, Lost DEF InHand
  <1>9. QED BY <1>4, <1>5, <1>8

LEMMA ClientDisconnectsStep ==
  ASSUME IInv, ClientDisconnects
  PROVE  IInv'
  <1> USE DEF IInv, ClientDisconnects
  <1>1. net' = Append(net, Control("DISCONNECT", 0)) /\ net \in Seq(Packet)
        /\ Control("DISCONNECT", 0) \in Packet
    BY DEF Packet, TypeOK
  <1>2. /\ net' \in Seq(Packet) /\ Ordered(net')
        /\ \A p \in Of(net') : p \in Of(net) \/ p.type \in Plain
        /\ Count(net, {"PUBLISH"})' = Count(net, {"PUBLISH"})
    BY <1>1, Appended DEF OrderOK, Before
  <1>3. TypeOK'
    <2>1. back' \in Seq(Ack)
      <3>1. back' = <<>>
        OBVIOUS
      <3>2. QED BY ONLY <3>1
    <2>2. QED BY <1>2, <2>1 DEF TypeOK
  <1>4. CloseOK'
    BY DEF CloseOK
  <1>5. closing \notin Gone
    BY DEF WayOK
  <1>6. Count(net, {"PUBLISH"}) \in Nat
    BY Counts
  <1>7. IdsOK' /\ WayOK' /\ OrderOK' /\ StoredOK' /\ OnceOK' /\ QuotaOK'
    BY <1>2, <1>3, <1>5, <1>6, Lost DEF InHand
  <1>8. QED BY <1>3, <1>4, <1>7

LEMMA BreakStep ==
  ASSUME IInv, Break
  PROVE  IInv'
  <1> USE DEF IInv, Break
  <1>1. net \in Seq(Packet) /\ buffered \in Nat
    BY DEF TypeOK
  <1>2. PICK n \in buffered .. Len(net) : net' = SubSeq(net, 1, n)
    OBVIOUS
  <1>3. n \in 0 .. Len(net)
    BY <1>1, <1>2
  <1>4. /\ net' \in Seq(Packet) /\ Ordered(net') /\ Of(net') \subseteq Of(net)
        /\ Count(net, {"PUBLISH"})' <= Count(net, {"PUBLISH"})
    BY <1>1, <1>2, <1>3, Shortened DEF OrderOK
  <1>5. TypeOK'
    <2>1. back' \in Seq(Ack)
      <3>1. back' = <<>>
        OBVIOUS
      <3>2. QED BY ONLY <3>1
    <2>2. QED BY <1>4, <2>1 DEF TypeOK
  <1>6. CloseOK'
    BY DEF CloseOK
  <1>7. closing \notin Gone
    BY DEF WayOK
  <1>8. IdsOK' /\ WayOK' /\ OrderOK' /\ StoredOK' /\ OnceOK' /\ QuotaOK'
    BY <1>4, <1>5, <1>7, Lost DEF InHand
  <1>9. QED BY <1>5, <1>6, <1>8

LEMMA DropStep ==
  ASSUME IInv, Drop
  PROVE  IInv'
  <1> USE DEF IInv, Drop
  <1>1. net' = <<>> /\ net' \in Seq(Packet) /\ back' = <<>> /\ back' \in Seq(Ack)
    <2>1. net' = <<>> /\ back' = <<>>
      OBVIOUS
    <2>2. QED BY ONLY <2>1
  <1>2. TypeOK'
    BY <1>1 DEF TypeOK
  <1>3. CloseOK'
    BY DEF TypeOK, CloseOK
  <1>4. /\ Of(net') = {} /\ Ordered(net') /\ Count(net, {"PUBLISH"})' = 0
        /\ Count(net, {"PUBLISH"}) \in Nat
    BY <1>1, Empty, Counts
  <1>5. IdsOK' /\ WayOK' /\ OrderOK' /\ StoredOK' /\ OnceOK' /\ QuotaOK'
    BY <1>1, <1>2, <1>4, Lost DEF InHand
  <1>6. QED BY <1>2, <1>3, <1>5

\* What is stored goes with pubIn; nobody reads any more.
LEMMA ClearStep ==
  ASSUME IInv, Clear
  PROVE  IInv'
  <1> USE DEF IInv, Clear
  <1>1. TypeOK'
    BY DEF TypeOK
  <1>2. CloseOK'
    BY DEF TypeOK, CloseOK
  <1>3. IdsOK'
    BY DEF IdsOK
  <1>4. \A m \in Msg : idOf[m] \in Id /\ Kept(m) => Kept(m)'
    BY DEF Kept, TypeOK
  <1>5. back = <<>> /\ Of(back) = {} /\ Of(back') = {} /\ net = <<>>
    <2>1. net = <<>> /\ back = <<>> /\ back' = <<>>
      BY DEF WayOK
    <2>2. QED BY <2>1, Empty
  <1>6. WayOK'
    BY <1>5 DEF WayOK, Way, InHand, PublishDue, PubrelDue
  <1>7. OrderOK'
    BY <1>5 DEF OrderOK, Way, InHand
  <1>8. StoredOK'
    BY DEF StoredOK
  <1>9. OnceOK'
    <2>1. \A m \in Msg : state[m] = "released" => idOf[m] \in Id
      BY DEF IdsOK, TypeOK
    <2>2. dropped \subseteq dropped' /\ UNCHANGED <<state, published, idOf>>
      OBVIOUS
    <2>3. QED BY <1>4, <2>1, <2>2 DEF OnceOK
  <1>10. QuotaOK'
    BY DEF QuotaOK, Handled, InHand
  <1>11. QED BY <1>1, <1>2, <1>3, <1>6, <1>7, <1>8, <1>9, <1>10

\* A packet on its way is taken in hand.
LEMMA ReadPacketStep ==
  ASSUME IInv, ReadPacket
  PROVE  IInv'
  <1> USE DEF IInv
  <1>1. /\ net \in Seq(Packet) /\ net # <<>> /\ pkt' = Head(net) /\ net' = Tail(net)
        /\ UNCHANGED <<clientVars, up, back, keepAlive, deadline, queueVars, closeVars,
                       historyVars>>
        /\ rpc = "read" /\ rpc' = "handle"
    BY DEF TypeOK, ReadPacket
  <1>2. /\ pkt' \in Packet /\ net' \in Seq(Packet) /\ Of(net) = {pkt'} \cup Of(net')
        /\ Ordered(net') /\ (pkt'.type = "PUBREL" => \A p \in Of(net') : Before(p, pkt'.id))
        /\ Count(net, {"PUBLISH"}) = IF pkt'.type = "PUBLISH" THEN Count(net, {"PUBLISH"})' + 1
                                     ELSE Count(net, {"PUBLISH"})'
    BY <1>1, Behead DEF OrderOK
  <1>3. buffered' \in Nat
    BY <1>1 DEF TypeOK, ReadPacket
  <1>4. TypeOK'
    BY <1>1, <1>2, <1>3 DEF TypeOK
  <1>5. CloseOK' /\ IdsOK' /\ StoredOK' /\ OnceOK'
    BY <1>1 DEF CloseOK, IdsOK, StoredOK, OnceOK, Kept
  <1>6. Way' = Way
    BY <1>1, <1>2 DEF Way, InHand
  <1>7. closing \notin Gone
    BY <1>1 DEF WayOK
  <1>8. WayOK'
    BY <1>1, <1>6, <1>7 DEF WayOK, PublishDue, PubrelDue, Answers, Kept
  <1>9. OrderOK'
    BY <1>1, <1>2, <1>6 DEF OrderOK, Before
  <1>10. QuotaOK'
    <2>1. Handled = 0 /\ Handled' = IF pkt'.type = "PUBLISH" THEN 1 ELSE 0
      BY <1>1 DEF Handled, InHand
    <2>2. Count(net, {"PUBLISH"})' \in Nat /\ Count(back, Last)' = Count(back, Last)
      BY <1>1, <1>2, Countable
    <2>3. rxQuota' = rxQuota /\ unanswered' = unanswered
      BY <1>1
    <2>4. TypeOK /\ QuotaOK
      OBVIOUS
    <2>5. QED BY ONLY <1>2, <2>1, <2>2, <2>3, <2>4, Counts, InboundAssumption DEF QuotaOK
  <1>11. QED BY <1>4, <1>5, <1>8, <1>9, <1>10

\* A packet the client adds to those on their way.
LEMMA Sends ==
  ASSUME IInv, NEW e \in Packet, net' = Append(net, e), UNCHANGED <<rpc, pkt>>
  PROVE  /\ net' \in Seq(Packet) /\ Of(net') = Of(net) \cup {e} /\ Way' = Way \cup {e}
         /\ InHand' = InHand /\ Handled' = Handled
         /\ (\A q \in Of(net) : q.type = "PUBREL" => Before(e, q.id)) => Ordered(net')
         /\ Count(net, {"PUBLISH"})' = IF e.type = "PUBLISH" THEN Count(net, {"PUBLISH"}) + 1
                                       ELSE Count(net, {"PUBLISH"})
  <1>1. net \in Seq(Packet) /\ Ordered(net)
    BY DEF IInv, TypeOK, OrderOK
  <1>2. /\ net' \in Seq(Packet) /\ Of(net') = Of(net) \cup {e}
        /\ (\A q \in Of(net) : q.type = "PUBREL" => Before(e, q.id)) => Ordered(net')
        /\ Count(net, {"PUBLISH"})' = IF e.type = "PUBLISH" THEN Count(net, {"PUBLISH"}) + 1
                                      ELSE Count(net, {"PUBLISH"})
    BY <1>1, Appended
  <1>3. QED BY <1>2 DEF Way, InHand, Handled

LEMMA SendsCount ==
  ASSUME TypeOK, QuotaOK, UNCHANGED <<rxQuota, back>>, Handled' = Handled,
         NEW l \in {0, 1}, Count(net, {"PUBLISH"})' = Count(net, {"PUBLISH"}) + l,
         unanswered' = unanswered + l
  PROVE  QuotaOK'
  BY Counts DEF QuotaOK

\* A publish of the client takes a packet id nothing on its way has.
LEMMA ClientSendsStep ==
  ASSUME IInv, NEW m \in Msg, NEW i \in Id, ClientSends(m, i)
  PROVE  IInv'
  <1> USE DEF IInv
  <1>1. /\ UNCHANGED <<connections, repeats, up, back, buffered, readVars, queueVars, closeVars,
                       historyVars>>
        /\ state' = [state EXCEPT ![m] = "sent"] /\ idOf' = [idOf EXCEPT ![m] = i]
        /\ net' = Append(net, Publish(m, i)) /\ up
        /\ state[m] = "new" /\ Unused(i) /\ unanswered' = unanswered + 1
    BY DEF ClientSends
  <1>2. /\ \A n \in Msg \ {m} : state'[n] = state[n] /\ idOf'[n] = idOf[n]
        /\ state'[m] = "sent" /\ idOf'[m] = i /\ idOf[m] = 0
    BY <1>1 DEF TypeOK, IdsOK
  <1>3. Publish(m, i) \in Packet
    BY DEF Packet
  <1>4. /\ net' \in Seq(Packet) /\ Of(net') = Of(net) \cup {Publish(m, i)}
        /\ Way' = Way \cup {Publish(m, i)} /\ InHand' = InHand /\ Handled' = Handled
        /\ Count(net, {"PUBLISH"})' = Count(net, {"PUBLISH"}) + 1
    BY <1>1, <1>3, Sends
  <1>5. /\ \A n \in Msg : idOf[n] # i
        /\ \A p \in Way : p.id # i /\ (p.type = "PUBLISH" => p.msg # m)
        /\ \A a \in Of(back) : a.id # i
    <2>1. DOMAIN net = 1 .. Len(net) /\ DOMAIN back = 1 .. Len(back)
      BY DEF TypeOK
    <2>2. (\A p \in Way : p.id # i) /\ (\A a \in Of(back) : a.id # i)
      BY <1>1, <2>1 DEF Unused, Way, Of, InHand
    <2>3. \A p \in Way : p.type = "PUBLISH" => p.msg # m
      BY <1>1 DEF WayOK, PublishDue
    <2>4. QED BY <1>1, <2>2, <2>3 DEF Unused
  <1>6. TypeOK'
    BY <1>1, <1>4 DEF TypeOK
  <1>7. CloseOK'
    BY <1>1 DEF CloseOK
  <1>8. IdsOK'
    BY <1>1, <1>2, <1>5 DEF IdsOK
  <1>9. \A n \in Msg \ {m} : Kept(n) => Kept(n)'
    BY <1>1, <1>2 DEF Kept
  <1>10. WayOK'
    <2>1. ASSUME NEW p \in Way
          PROVE  /\ p.type = "PUBLISH" => PublishDue(p)'
                 /\ p.type = "PUBREL" => PubrelDue(p)'
      <3>1. p.type = "PUBLISH" => p.msg \in Msg \ {m} /\ PublishDue(p)
        <4>1. p \in Packet
          BY <1>1, <2>1 DEF TypeOK, Way, Of
        <4>2. QED BY <1>5, <4>1 DEF Packet, WayOK
      <3>2. p.type = "PUBLISH" => PublishDue(p)'
        BY <1>1, <1>2, <1>5, <3>1 DEF PublishDue
      <3>3. p.type = "PUBREL" => PubrelDue(p)'
        BY <1>2, <1>5 DEF WayOK, PubrelDue
      <3>4. QED BY <3>2, <3>3
    <2>2. PublishDue(Publish(m, i))'
      <3>1. m \in QoS2 => published[m] = 0
        BY <1>1 DEF OnceOK
      <3>2. QED BY <1>1, <1>2, <1>5, <3>1 DEF PublishDue
    <2>3. \A a \in Of(back') : Answers(a)'
      BY <1>1, <1>2, <1>5, <1>9 DEF WayOK, Answers
    <2>4. closing \notin Gone
      BY <1>1 DEF WayOK
    <2>5. QED BY <1>1, <1>4, <2>1, <2>2, <2>3, <2>4 DEF WayOK
  <1>11. OrderOK'
    <2>1. \A q \in Of(net) : q.id # i
      BY <1>5 DEF Way
    <2>2. Ordered(net')
      BY <1>1, <1>3, <2>1, Sends DEF Before
    <2>3. InHand' /\ pkt'.type = "PUBREL" => \A p \in Of(net') : Before(p, pkt'.id)
      BY <1>1, <1>4, <1>5 DEF OrderOK, Before, Way
    <2>4. \A a \in Of(back'), p \in Way' : a.type = "PUBCOMP" => Before(p, a.id)
      BY <1>1, <1>4, <1>5 DEF OrderOK, Before
    <2>5. QED BY <2>2, <2>3, <2>4 DEF OrderOK
  <1>12. StoredOK'
    <2>1. \A j \in Id : pubIn[j] # None => pubIn[j] \in Msg \ {m}
      BY <1>2 DEF StoredOK
    <2>2. QED BY <1>1, <1>2, <2>1 DEF StoredOK
  <1>13. OnceOK'
    BY <1>1, <1>2, <1>9 DEF OnceOK
  <1>14. QuotaOK'
    BY <1>1, <1>4, SendsCount
  <1>15. QED BY <1>6, <1>7, <1>8, <1>10, <1>11, <1>12, <1>13, <1>14

\* What is sent again is a packet for a publish in flight.
LEMMA AgainIsDue ==
  ASSUME IInv, NEW m \in InFlight
  PROVE  /\ Again(m) \in Packet /\ Again(m).id = idOf[m] /\ idOf[m] \in Id /\ m \in Msg
         /\ Again(m).type = IF state[m] = "sent" THEN "PUBLISH" ELSE "PUBREL"
         /\ Again(m).type = "PUBLISH" => Again(m).msg = m /\ PublishDue(Again(m))
         /\ Again(m).type = "PUBREL" => PubrelDue(Again(m))
  <1>1. m \in Msg /\ idOf[m] \in Id /\ state[m] \in {"sent", "released"}
    BY DEF IInv, TypeOK, IdsOK, InFlight
  <1>2. \A n \in Msg : idOf[n] = idOf[m] => n = m
    BY <1>1 DEF IInv, IdsOK
  <1>3. CASE state[m] = "released"
    <2>1. Again(m) = Control("PUBREL", idOf[m]) /\ m \in QoS2
      BY <1>1, <1>3 DEF Again, IInv, IdsOK
    <2>2. QED BY <1>1, <1>2, <1>3, <2>1 DEF PubrelDue, Packet
  <1>4. CASE state[m] = "sent"
    <2>1. Again(m) = Publish(m, idOf[m])
      BY <1>4 DEF Again
    <2>2. m \in QoS2 => published[m] = 0
      BY <1>4 DEF IInv, OnceOK
    <2>3. QED BY <1>1, <1>2, <1>4, <2>1, <2>2 DEF PublishDue, Packet
  <1>5. QED BY <1>1, <1>3, <1>4

\* A publish that has not been released may be sent again, and a PUBREL always.
LEMMA ClientRepeatsStep ==
  ASSUME IInv, NEW m \in Msg, ClientRepeats(m)
  PROVE  IInv'
  <1> USE DEF IInv
  <1>1. /\ UNCHANGED <<state, idOf, connections, up, back, buffered, readVars, queueVars,
                       closeVars, historyVars>>
        /\ net' = Append(net, Again(m)) /\ up /\ m \in InFlight /\ repeats' = repeats + 1
        /\ unanswered' = IF state[m] = "sent" THEN unanswered + 1 ELSE unanswered
    BY DEF ClientRepeats
  <1>2. PICK e \in Packet : e = Again(m)
    BY <1>1, AgainIsDue
  <1>3. /\ e.id = idOf[m] /\ (e.type = IF state[m] = "sent" THEN "PUBLISH" ELSE "PUBREL")
        /\ e.type = "PUBLISH" => e.msg = m /\ PublishDue(e)
        /\ e.type = "PUBREL" => PubrelDue(e)
    BY <1>1, <1>2, AgainIsDue
  <1>4. /\ net' \in Seq(Packet) /\ Of(net') = Of(net) \cup {e} /\ Way' = Way \cup {e}
        /\ InHand' = InHand /\ Handled' = Handled
        /\ (\A q \in Of(net) : q.type = "PUBREL" => Before(e, q.id)) => Ordered(net')
        /\ Count(net, {"PUBLISH"})' = IF e.type = "PUBLISH" THEN Count(net, {"PUBLISH"}) + 1
                                      ELSE Count(net, {"PUBLISH"})
    BY <1>1, <1>2, Sends
  <1>5. TypeOK'
    BY <1>1, <1>3, <1>4 DEF TypeOK
  <1>6. CloseOK' /\ IdsOK' /\ StoredOK' /\ OnceOK'
    BY <1>1 DEF CloseOK, IdsOK, StoredOK, OnceOK, Kept
  <1>7. closing \notin Gone
    BY <1>1 DEF WayOK
  <1>8. WayOK'
    BY <1>1, <1>3, <1>4, <1>7 DEF WayOK, PublishDue, PubrelDue, Answers, Kept
  <1>9. OrderOK'
    <2>1. \A q \in Way : q.type = "PUBREL" => Before(e, q.id)
      BY <1>3 DEF WayOK, PubrelDue, Before
    <2>2. \A a \in Of(back) : a.type = "PUBCOMP" => Before(e, a.id)
      BY <1>3 DEF WayOK, Answers, Before
    <2>3. Of(net) \subseteq Way /\ (InHand => pkt \in Way)
      BY DEF Way
    <2>4. QED BY <1>1, <1>4, <2>1, <2>2, <2>3 DEF OrderOK
  <1>10. QuotaOK'
    <2>1. CASE state[m] = "sent"
      BY <1>1, <1>3, <1>4, <2>1, SendsCount
    <2>2. CASE state[m] # "sent"
      <3>1. /\ Count(net, {"PUBLISH"})' = Count(net, {"PUBLISH"}) + 0
            /\ unanswered' = unanswered + 0
        BY <1>1, <1>3, <1>4, <2>2, Counts
      <3>2. QED BY <1>1, <1>4, <3>1, SendsCount
    <2>3. QED BY <2>1, <2>2
  <1>11. QED BY <1>5, <1>6, <1>8, <1>9, <1>10

LEMMA BackIds ==
  ASSUME TypeOK
  PROVE  \A a \in Of(back) : a.id \in Id
  <1>1. back \in Seq(Ack)
    BY DEF TypeOK
  <1>2. \A a \in Of(back) : a \in Ack
    BY ONLY <1>1 DEF Of
  <1>3. QED BY <1>2 DEF Ack

\* The acknowledgement is the first on its way; a second one is about nothing.
LEMMA ClientReadsStep ==
  ASSUME IInv, ClientReads
  PROVE  IInv'
  <1> USE DEF IInv
  <1>1. back \in Seq(Ack) /\ back # <<>> /\ back' = Tail(back) /\ up
    BY DEF ClientReads, TypeOK, WayOK
  <1>2. PICK a \in Ack : a = Head(back)
    BY <1>1, Behead
  <1>3. /\ back' \in Seq(Ack) /\ Of(back) = {a} \cup Of(back')
        /\ Count(back, Last) = IF a.type \in Last THEN Count(back, Last)' + 1 ELSE Count(back, Last)'
    BY <1>1, <1>2, Behead
  <1>4. /\ UNCHANGED <<connections, repeats, up, buffered, readVars, queueVars, closeVars,
                       historyVars>>
        /\ unanswered' = IF a.type = "PUBREC" THEN unanswered ELSE unanswered - 1
    BY <1>2 DEF ClientReads
  <1>5. Answers(a) /\ a.type \in Acks /\ a.id \in Id /\ closing \notin Gone
    BY <1>1, <1>3 DEF WayOK, Ack
  <1>6. CloseOK' /\ (closing' = "done" => \A i \in Id : pubIn'[i] = None)
    BY <1>4 DEF CloseOK, StoredOK
  <1>7. TypeOK /\ QuotaOK /\ Count(back, Last)' \in Nat
    BY <1>3, Countable
  <1>8. CASE \A m \in Msg : idOf[m] # a.id
    <2>1. UNCHANGED <<state, idOf, net>>
      BY <1>2, <1>8 DEF ClientReads
    <2>2. Way' = Way /\ Handled' = Handled
      BY <1>4, <2>1 DEF Way, InHand, Handled
    <2>3. TypeOK'
      BY <1>3, <1>4, <1>5, <2>1 DEF TypeOK
    <2>4. IdsOK' /\ StoredOK' /\ OnceOK'
      BY <1>4, <2>1 DEF IdsOK, StoredOK, OnceOK, Kept
    <2>5. WayOK'
      BY <1>1, <1>3, <1>4, <1>5, <2>1, <2>2 DEF WayOK, PublishDue, PubrelDue, Answers, Kept
    <2>6. OrderOK'
      BY <1>3, <1>4, <2>1, <2>2 DEF OrderOK, InHand
    <2>7. QuotaOK'
      <3>1. Count(net, {"PUBLISH"})' = Count(net, {"PUBLISH"}) /\ rxQuota' = rxQuota
        BY <1>4, <2>1
      <3>2. a.type \in Last <=> a.type # "PUBREC"
        BY <1>5
      <3>3. QED BY ONLY <1>3, <1>4, <1>7, <2>2, <3>1, <3>2, Counts, InboundAssumption DEF QuotaOK
    <2>8. QED BY <1>6, <2>3, <2>4, <2>5, <2>6, <2>7
  <1>9. ASSUME NEW m \in Msg, idOf[m] = a.id, a.type = "PUBREC",
               state' = [state EXCEPT ![m] = "released"], UNCHANGED idOf,
               net' = Append(net, Control("PUBREL", a.id))
        PROVE  IInv'
    <2> DEFINE e == Control("PUBREL", a.id)
    <2>1. e \in Packet
      BY <1>5 DEF Packet
    <2>2. /\ \A n \in Msg \ {m} : state'[n] = state[n] /\ idOf[n] # a.id
          /\ state'[m] = "released" /\ m \in QoS2 /\ Kept(m) /\ state[m] \in {"sent", "released"}
      BY <1>5, <1>9 DEF TypeOK, IdsOK, Answers
    <2>3. /\ net' \in Seq(Packet) /\ Of(net') = Of(net) \cup {e} /\ Way' = Way \cup {e}
          /\ InHand' = InHand /\ Handled' = Handled /\ Ordered(net')
          /\ Count(net, {"PUBLISH"})' = Count(net, {"PUBLISH"})
      BY <1>4, <1>9, <2>1, Sends DEF Before
    <2>4. TypeOK'
      BY <1>3, <1>4, <1>9, <2>3 DEF TypeOK
    <2>5. IdsOK'
      BY <1>9, <2>2 DEF IdsOK
    <2>6. \A n \in Msg : Kept(n)' = Kept(n)
      BY <1>4, <1>9 DEF Kept
    <2>7. WayOK'
      <3>1. \A p \in Way : /\ p.type = "PUBLISH" => PublishDue(p)'
                           /\ p.type = "PUBREL" => PubrelDue(p)'
        <4>1. \A p \in Way : p.type = "PUBLISH" => p.msg \in Msg
          BY DEF TypeOK, Way, Of, Packet, InHand
        <4>2. QED BY <1>4, <1>9, <2>2, <4>1 DEF WayOK, PublishDue, PubrelDue
      <3>2. PubrelDue(e)'
        BY <1>9, <2>2 DEF PubrelDue
      <3>3. \A b \in Of(back') : Answers(b)'
        BY <1>3, <1>4, <1>9, <2>2, <2>6 DEF WayOK, Answers
      <3>4. QED BY <1>1, <1>4, <1>5, <2>3, <3>1, <3>2, <3>3 DEF WayOK
    <2>8. OrderOK'
      BY <1>3, <1>4, <2>3 DEF OrderOK, Before
    <2>9. StoredOK'
      BY <1>4, <1>9 DEF StoredOK
    <2>10. OnceOK'
      BY <1>4, <2>2, <2>6 DEF OnceOK
    <2>11. QuotaOK'
      <3>1. rxQuota' = rxQuota /\ unanswered' = unanswered /\ a.type \notin Last
        BY <1>4, <1>9
      <3>2. QED BY ONLY <1>3, <1>7, <2>3, <3>1, Counts, InboundAssumption DEF QuotaOK
    <2>12. QED BY <1>6, <2>4, <2>5, <2>7, <2>8, <2>9, <2>10, <2>11
  <1>10. ASSUME NEW m \in Msg, idOf[m] = a.id, a.type # "PUBREC",
                state' = [state EXCEPT ![m] = "done"], idOf' = [idOf EXCEPT ![m] = 0],
                UNCHANGED net
         PROVE  IInv'
    <2>1. /\ \A n \in Msg \ {m} : state'[n] = state[n] /\ idOf'[n] = idOf[n] /\ idOf[n] # a.id
          /\ state'[m] = "done" /\ idOf'[m] = 0 /\ a.type \in Last
          /\ a.type = "PUBACK" => m \in QoS1 /\ published[m] >= 1
          /\ a.type = "PUBCOMP" => m \in QoS2 /\ state[m] = "released" /\ pubIn[a.id] = None
      BY <1>5, <1>10 DEF TypeOK, IdsOK, Answers
    <2>2. Way' = Way /\ Handled' = Handled
      BY <1>4, <1>10 DEF Way, InHand, Handled
    <2>3. TypeOK'
      BY <1>3, <1>4, <1>10 DEF TypeOK
    <2>4. IdsOK'
      BY <2>1 DEF IdsOK
    <2>5. \A j \in Id : pubIn[j] # m
      <3>1. a.type = "PUBACK" => \A j \in Id : pubIn[j] # m
        BY <2>1 DEF StoredOK
      <3>2. a.type = "PUBCOMP" => \A j \in Id : pubIn[j] # m
        BY <1>10, <2>1 DEF StoredOK
      <3>3. QED BY <2>1, <3>1, <3>2
    <2>6. \A n \in Msg \ {m} : Kept(n)' = Kept(n)
      BY <1>4, <2>1 DEF Kept
    <2>7. m \in dropped \/ published[m] >= 1
      BY <1>5, <1>10, <2>1, <2>5 DEF OnceOK, Kept
    <2>8. WayOK'
      <3>1. ASSUME NEW p \in Way, p.type = "PUBLISH" PROVE PublishDue(p)'
        <4>1. PublishDue(p) /\ p.msg \in Msg /\ p.id \in Id
          <5>1. p \in Packet
            BY <3>1 DEF TypeOK, Way, Of, InHand
          <5>2. QED BY <3>1, <5>1 DEF WayOK, Packet
        <4>2. CASE p.msg = m
          <5>1. m \notin QoS2
            <6>1. a.type = "PUBCOMP" => p.id # a.id
              BY <1>3, <3>1 DEF OrderOK, Before
            <6>2. QED BY <1>10, <2>1, <4>1, <4>2, <6>1 DEF PublishDue
          <5>2. QED BY <1>4, <2>1, <4>1, <4>2, <5>1 DEF PublishDue
        <4>3. CASE p.msg # m
          BY <1>4, <2>1, <4>1, <4>3 DEF PublishDue
        <4>4. QED BY <4>2, <4>3
      <3>2. \A p \in Way : p.type = "PUBREL" => PubrelDue(p)'
        <4>1. \A p \in Way : p.type = "PUBREL" => p.id \in Id
          BY DEF TypeOK, Way, Of, Packet, InHand
        <4>2. QED BY <2>1, <4>1 DEF WayOK, PubrelDue
      <3>3. \A b \in Of(back') : Answers(b)'
        <4>1. \A b \in Of(back') : b.id \in Id /\ Answers(b)
          BY <1>3, BackIds DEF WayOK
        <4>2. QED BY <1>4, <2>1, <2>6, <4>1 DEF Answers
      <3>4. QED BY <1>1, <1>4, <1>5, <2>2, <3>1, <3>2, <3>3 DEF WayOK
    <2>9. OrderOK'
      BY <1>3, <1>4, <1>10, <2>2 DEF OrderOK, InHand
    <2>10. StoredOK'
      BY <1>4, <1>6, <2>1, <2>5 DEF StoredOK, TypeOK
    <2>11. OnceOK'
      BY <1>4, <2>1, <2>6, <2>7 DEF OnceOK
    <2>12. QuotaOK'
      <3>1. Count(net, {"PUBLISH"})' = Count(net, {"PUBLISH"}) /\ rxQuota' = rxQuota
            /\ unanswered' = unanswered - 1
        BY <1>4, <1>10
      <3>2. QED BY ONLY <1>3, <1>7, <2>1, <2>2, <3>1, Counts, InboundAssumption DEF QuotaOK
    <2>13. QED BY <1>6, <2>3, <2>4, <2>8, <2>9, <2>10, <2>11, <2>12
  <1>11. QED BY <1>2, <1>8, <1>9, <1>10 DEF ClientReads

\* What has been in hand is answered with at most one acknowledgement.
LEMMA Responds ==
  ASSUME IInv, NEW t \in Acks, Respond(t), InHand, pkt.id \in Id, UNCHANGED <<net, up>>
  PROVE  /\ back' \in Seq(Ack) /\ ~InHand' /\ rpc' = "deadline" /\ Handled' = 0
         /\ Of(back') \subseteq Of(back) \cup {Control(t, pkt.id)}
         /\ Way' = Of(net) /\ Way = Of(net) \cup {pkt}
         /\ ~up' => back' = <<>>
         /\ \/ Count(back, Last)' = Count(back, Last)
            \/ t \in Last /\ Count(back, Last)' = Count(back, Last) + 1
         /\ closing \notin Passing /\ ~left
  <1>1. back \in Seq(Ack) /\ Control(t, pkt.id) \in Ack
    BY DEF IInv, TypeOK, Ack
  <1>2. /\ rpc' = "deadline" /\ ~InHand' /\ Handled' = 0
        /\ back' = IF up THEN Append(back, Control(t, pkt.id)) ELSE back
    BY DEF Respond, InHand, Handled
  <1>3. Way' = Of(net) /\ Way = Of(net) \cup {pkt}
    BY <1>2 DEF Way
  <1>4. closing \notin Passing /\ ~left
    BY DEF IInv, CloseOK, InHand
  <1>5. ~up => back = <<>>
    BY DEF IInv, WayOK
  <1>6. CASE up
    <2>1. /\ back' \in Seq(Ack) /\ Of(back') = Of(back) \cup {Control(t, pkt.id)}
          /\ Count(back, Last)' = IF t \in Last THEN Count(back, Last) + 1 ELSE Count(back, Last)
      BY <1>1, <1>2, <1>6, Appended
    <2>2. QED BY <1>2, <1>3, <1>4, <1>6, <2>1
  <1>7. CASE ~up
    BY <1>1, <1>2, <1>3, <1>4, <1>5, <1>7
  <1>8. QED BY <1>6, <1>7

\* The publish in hand.
LEMMA PublishInHand ==
  ASSUME IInv, InHand, pkt.msg \in Msg
  PROVE  /\ pkt.type = "PUBLISH" /\ pkt.id \in Id /\ PublishDue(pkt) /\ pkt.msg # None
         /\ \A a \in Of(back) : a.type = "PUBCOMP" => a.id # pkt.id
  <1>1. pkt \in Packet /\ pkt \in Way
    BY DEF IInv, TypeOK, Way
  <1>2. pkt.type = "PUBLISH" /\ pkt.id \in Id
    BY <1>1 DEF Packet
  <1>3. QED BY <1>1, <1>2 DEF IInv, WayOK, OrderOK, Before

LEMMA OnPublishQoS1Step ==
  ASSUME IInv, OnPublishQoS1
  PROVE  IInv'
  <1> USE DEF IInv
  <1>1. /\ InHand /\ pkt.msg \in QoS1 /\ Respond("PUBACK") /\ published' = Forwarded(pkt.msg)
        /\ UNCHANGED <<clientVars, up, net, buffered, keepAlive, deadline, pkt, queueVars,
                       closeVars, dropped, willSent, left, passed>>
    BY DEF OnPublishQoS1, InHand
  <1>2. PICK m \in QoS1 : m = pkt.msg
    BY <1>1
  <1>3. /\ pkt.type = "PUBLISH" /\ pkt.id \in Id /\ PublishDue(pkt)
    BY <1>1, PublishInHand
  <1>4. /\ back' \in Seq(Ack) /\ ~InHand' /\ rpc' = "deadline" /\ Handled' = 0
        /\ Of(back') \subseteq Of(back) \cup {Control("PUBACK", pkt.id)}
        /\ Way' = Of(net) /\ Way = Of(net) \cup {pkt} /\ (~up' => back' = <<>>)
        /\ \/ Count(back, Last)' = Count(back, Last)
           \/ Count(back, Last)' = Count(back, Last) + 1
        /\ closing \notin Passing /\ ~left
    BY <1>1, <1>3, Responds
  <1>5. /\ published' \in [Msg -> Nat]
        /\ \A n \in Msg \ {m} : published'[n] = published[n]
        /\ published'[m] >= 1
    BY <1>1, <1>2 DEF TypeOK, Forwarded
  <1>6. TypeOK'
    BY <1>1, <1>4, <1>5 DEF TypeOK
  <1>7. CloseOK' /\ IdsOK'
    BY <1>1, <1>4 DEF CloseOK, IdsOK
  <1>8. \A n \in Msg : Kept(n) => Kept(n)'
    BY <1>1, <1>5 DEF Kept, TypeOK
  <1>9. \A n \in Msg : /\ n \in QoS2 => published'[n] = published[n]
                       /\ published[n] >= 1 => published'[n] >= 1
    BY <1>5
  <1>10. WayOK'
    <2>1. \A p \in Of(net) : p.type = "PUBLISH" => p.msg \in Msg
      BY DEF TypeOK, Of, Packet
    <2>2. Answers(Control("PUBACK", pkt.id))'
      BY <1>1, <1>2, <1>3, <1>5 DEF PublishDue, Answers
    <2>3. \A a \in Of(back') : Answers(a)'
      BY <1>1, <1>4, <1>8, <1>9, <2>2 DEF WayOK, Answers
    <2>4. \A p \in Way' : /\ p.type = "PUBLISH" => PublishDue(p)'
                          /\ p.type = "PUBREL" => PubrelDue(p)'
      BY <1>1, <1>4, <1>9, <2>1 DEF WayOK, PublishDue, PubrelDue
    <2>5. QED BY <1>1, <1>4, <2>3, <2>4 DEF WayOK
  <1>11. OrderOK'
    BY <1>1, <1>4 DEF OrderOK
  <1>12. StoredOK'
    BY <1>1, <1>4, <1>9 DEF StoredOK
  <1>13. OnceOK'
    BY <1>1, <1>8, <1>9 DEF OnceOK
  <1>14. QuotaOK'
    <2>1. Handled = 1 /\ Count(net, {"PUBLISH"})' = Count(net, {"PUBLISH"})
          /\ rxQuota' = rxQuota /\ unanswered' = unanswered /\ TypeOK /\ QuotaOK
      BY <1>1, <1>3 DEF Handled
    <2>2. QED BY ONLY <1>4, <2>1, Counts, InboundAssumption DEF QuotaOK
  <1>15. QED BY <1>6, <1>7, <1>10, <1>11, <1>12, <1>13, <1>14

LEMMA OnPublishQoS2Step ==
  ASSUME IInv, OnPublishQoS2
  PROVE  IInv'
  <1> USE DEF IInv
  <1>1. /\ InHand /\ pkt.msg \in QoS2 /\ Respond("PUBREC") /\ rxQuota' = rxQuota - 1
        /\ pubIn' = [pubIn EXCEPT ![pkt.id] = pkt.msg] /\ dropped' = dropped \ {pkt.msg}
        /\ UNCHANGED <<clientVars, up, net, buffered, keepAlive, deadline, pkt, closeVars,
                       published, willSent, left, passed>>
    BY DEF OnPublishQoS2, InHand, Lowered
  <1>2. PICK m \in QoS2 : m = pkt.msg
    BY <1>1
  <1>3. /\ pkt.type = "PUBLISH" /\ pkt.id \in Id /\ idOf[m] = pkt.id /\ published[m] = 0
        /\ \A n \in Msg : idOf[n] = pkt.id => n = m
        /\ \A a \in Of(back) : a.type = "PUBCOMP" => a.id # pkt.id
    BY <1>1, <1>2, PublishInHand DEF PublishDue
  <1>4. /\ back' \in Seq(Ack) /\ ~InHand' /\ rpc' = "deadline" /\ Handled' = 0
        /\ Of(back') \subseteq Of(back) \cup {Control("PUBREC", pkt.id)}
        /\ Way' = Of(net) /\ Way = Of(net) \cup {pkt} /\ (~up' => back' = <<>>)
        /\ Count(back, Last)' = Count(back, Last)
        /\ closing \notin Passing /\ ~left
    BY <1>1, <1>3, Responds
  <1>5. /\ pubIn' \in [Id -> Msg \cup {None}] /\ pubIn'[pkt.id] = m /\ m \in Msg
        /\ \A i \in Id \ {pkt.id} : pubIn'[i] = pubIn[i]
        /\ \A n \in Msg \ {m} : n \in dropped => n \in dropped'
        /\ state[m] \in {"sent", "released"}
    BY <1>1, <1>2, <1>3 DEF TypeOK, IdsOK
  <1>6. TypeOK'
    <2>1. rxQuota' \in Int /\ dropped' \subseteq Msg
      BY <1>1 DEF TypeOK
    <2>2. QED BY <1>1, <1>4, <1>5, <2>1 DEF TypeOK
  <1>7. CloseOK' /\ IdsOK'
    BY <1>1, <1>4 DEF CloseOK, IdsOK
  <1>8. Kept(m)' /\ \A n \in Msg : idOf[n] \in Id /\ Kept(n) => Kept(n)'
    BY <1>1, <1>3, <1>5 DEF Kept
  <1>9. \A a \in Of(back) : a.id \in Id
    BY BackIds
  <1>10. WayOK'
    <2>1. Answers(Control("PUBREC", pkt.id))'
      BY <1>1, <1>3, <1>8 DEF Answers
    <2>2. \A a \in Of(back) : Answers(a) => Answers(a)'
      BY <1>1, <1>3, <1>5, <1>8, <1>9 DEF Answers
    <2>3. \A p \in Way' : /\ p.type = "PUBLISH" => PublishDue(p)'
                          /\ p.type = "PUBREL" => PubrelDue(p)'
      BY <1>1, <1>4 DEF WayOK, PublishDue, PubrelDue
    <2>4. QED BY <1>1, <1>4, <2>1, <2>2, <2>3 DEF WayOK
  <1>11. OrderOK'
    BY <1>1, <1>4 DEF OrderOK
  <1>12. StoredOK'
    BY <1>1, <1>3, <1>4, <1>5 DEF StoredOK
  <1>13. OnceOK'
    <2>1. \A n \in Msg : state[n] = "released" => idOf[n] \in Id
      BY DEF IdsOK, TypeOK
    <2>2. QED BY <1>1, <1>5, <1>8, <2>1 DEF OnceOK
  <1>14. QuotaOK'
    <2>1. Handled = 1 /\ Count(net, {"PUBLISH"})' = Count(net, {"PUBLISH"})
          /\ unanswered' = unanswered /\ TypeOK /\ QuotaOK
      BY <1>1, <1>3 DEF Handled
    <2>2. QED BY ONLY <1>1, <1>4, <2>1, Counts, InboundAssumption DEF QuotaOK
  <1>15. QED BY <1>6, <1>7, <1>10, <1>11, <1>12, <1>13, <1>14

LEMMA OnPubrelStep ==
  ASSUME IInv, OnPubrel
  PROVE  IInv'
  <1> USE DEF IInv
  <1>1. /\ InHand /\ pkt.type = "PUBREL" /\ Respond("PUBCOMP") /\ rxQuota' = rxQuota + 1
        /\ published' = Released(pkt.id)
        /\ pubIn' = [pubIn EXCEPT ![pkt.id] = None]
        /\ UNCHANGED <<clientVars, up, net, buffered, keepAlive, deadline, pkt, closeVars,
                       dropped, willSent, left, passed>>
    BY DEF OnPubrel, InHand, Raised
  <1>2. pkt.id \in Id /\ PubrelDue(pkt) /\ \A p \in Of(net) : Before(p, pkt.id)
    <2>1. pkt \in Packet /\ pkt \in Way
      BY <1>1 DEF TypeOK, Way
    <2>2. QED BY <1>1, <2>1 DEF Packet, WayOK, OrderOK
  <1>3. /\ back' \in Seq(Ack) /\ ~InHand' /\ rpc' = "deadline" /\ Handled' = 0
        /\ Of(back') \subseteq Of(back) \cup {Control("PUBCOMP", pkt.id)}
        /\ Way' = Of(net) /\ Way = Of(net) \cup {pkt} /\ (~up' => back' = <<>>)
        /\ \/ Count(back, Last)' = Count(back, Last)
           \/ Count(back, Last)' = Count(back, Last) + 1
        /\ closing \notin Passing /\ ~left
    BY <1>1, <1>2, Responds
  <1>4. /\ pubIn' \in [Id -> Msg \cup {None}] /\ pubIn'[pkt.id] = None
        /\ \A i \in Id \ {pkt.id} : pubIn'[i] = pubIn[i]
    BY <1>1, <1>2 DEF TypeOK
  <1>5. /\ published' \in [Msg -> Nat]
        /\ \A n \in Msg : \/ published'[n] = published[n] /\ n # pubIn[pkt.id]
                          \/ /\ n = pubIn[pkt.id] /\ published[n] = 0 /\ published'[n] = 1
                             /\ n \in QoS2 /\ idOf[n] = pkt.id /\ state[n] = "released"
    <2>1. CASE pubIn[pkt.id] = None
      BY <1>1, <2>1 DEF Released, TypeOK
    <2>2. CASE pubIn[pkt.id] # None
      <3>1. PICK m \in QoS2 : m = pubIn[pkt.id]
        BY <1>2, <2>2 DEF StoredOK
      <3>2. idOf[m] = pkt.id /\ published[m] = 0 /\ state[m] = "released"
        BY <1>2, <2>2, <3>1 DEF StoredOK, PubrelDue
      <3>3. published' = [published EXCEPT ![m] = published[m] + 1]
        BY <1>1, <2>2, <3>1 DEF Released, Forwarded
      <3>4. QED BY <3>1, <3>2, <3>3 DEF TypeOK
    <2>3. QED BY <2>1, <2>2
  <1>6. TypeOK'
    <2>1. rxQuota' \in Int /\ published' \in [Msg -> Nat]
      BY <1>1, <1>5 DEF TypeOK
    <2>2. QED BY <1>1, <1>3, <1>4, <2>1 DEF TypeOK
  <1>7. CloseOK' /\ IdsOK'
    BY <1>1, <1>3 DEF CloseOK, IdsOK
  <1>8. \A n \in Msg : /\ published[n] >= 1 => published'[n] >= 1
                       /\ idOf[n] \in Id /\ Kept(n) => Kept(n)'
    <2>1. \A n \in Msg : published[n] >= 1 => published'[n] >= 1
      BY <1>5
    <2>2. \A n \in Msg : n = pubIn[pkt.id] => published'[n] >= 1
      BY <1>5
    <2>3. QED BY <1>1, <1>4, <2>1, <2>2 DEF Kept
  <1>9. \A a \in Of(back) : a.id \in Id
    BY BackIds
  <1>10. WayOK'
    <2>1. Answers(Control("PUBCOMP", pkt.id))'
      BY <1>1, <1>2, <1>4 DEF Answers, PubrelDue
    <2>2. \A a \in Of(back) : Answers(a) => Answers(a)'
      BY <1>1, <1>4, <1>8, <1>9 DEF Answers
    <2>3. ASSUME NEW p \in Of(net), p.type = "PUBLISH" PROVE PublishDue(p)'
      <3>1. PublishDue(p) /\ p.id # pkt.id /\ p.msg \in Msg
        <4>1. p \in Packet
          BY DEF TypeOK, Of
        <4>2. QED BY <1>2, <1>3, <2>3, <4>1 DEF WayOK, Before, Packet
      <3>2. p.msg \in QoS2 => published'[p.msg] = published[p.msg]
        BY <1>5, <3>1 DEF PublishDue
      <3>3. QED BY <1>1, <3>1, <3>2 DEF PublishDue
    <2>4. \A p \in Of(net) : p.type = "PUBREL" => PubrelDue(p)'
      BY <1>1, <1>3 DEF WayOK, PubrelDue
    <2>5. QED BY <1>1, <1>3, <2>1, <2>2, <2>3, <2>4 DEF WayOK
  <1>11. OrderOK'
    BY <1>1, <1>2, <1>3 DEF OrderOK
  <1>12. StoredOK'
    <2>1. \A i \in Id : pubIn'[i] # None =>
            /\ pubIn'[i] = pubIn[i] /\ pubIn[i] \in QoS2 /\ idOf[pubIn[i]] = i /\ i # pkt.id
            /\ published[pubIn[i]] = 0
      BY <1>4 DEF StoredOK
    <2>2. \A i \in Id : pubIn'[i] # None => published'[pubIn'[i]] = 0
      BY <1>5, <2>1
    <2>3. QED BY <1>1, <1>3, <2>1, <2>2 DEF StoredOK
  <1>13. OnceOK'
    <2>1. \A n \in Msg : state[n] = "released" => idOf[n] \in Id
      BY DEF IdsOK, TypeOK
    <2>2. QED BY <1>1, <1>5, <1>8, <2>1 DEF OnceOK
  <1>14. QuotaOK'
    <2>1. Handled = 0 /\ Count(net, {"PUBLISH"})' = Count(net, {"PUBLISH"})
          /\ unanswered' = unanswered /\ TypeOK /\ QuotaOK
      BY <1>1 DEF Handled
    <2>2. QED BY ONLY <1>1, <1>3, <2>1, Counts, InboundAssumption DEF QuotaOK
  <1>15. QED BY <1>6, <1>7, <1>10, <1>11, <1>12, <1>13, <1>14


\* The packets sent again first thing are for different publishes.
LEMMA ResentIsDue ==
  ASSUME IInv, NEW again \in Resent
  PROVE  /\ again \in Seq(Packet)
         /\ \A k \in 1 .. Len(again) : \E m \in InFlight : again[k] = Again(m)
         /\ \A j, k \in 1 .. Len(again) : again[j].id = again[k].id => j = k
  <1> DEFINE n == Cardinality(InFlight)
             A == {Again(m) : m \in InFlight}
  <1>1. IsFiniteSet(InFlight) /\ n \in Nat
    BY FS_Subset, FS_CardinalityType DEF InFlight
  <1>2. again \in [1 .. n -> A] /\ \A m \in InFlight : \E k \in 1 .. n : again[k] = Again(m)
    BY DEF Resent
  <1>3. \A m, l \in InFlight : Again(m).id = Again(l).id => m = l
    <2> SUFFICES ASSUME NEW m \in InFlight, NEW l \in InFlight, Again(m).id = Again(l).id
                 PROVE  m = l
      OBVIOUS
    <2>1. idOf[m] = idOf[l] /\ idOf[m] # 0 /\ m \in Msg /\ l \in Msg
      BY AgainIsDue
    <2>2. QED BY <2>1 DEF IInv, IdsOK
  <1>4. [m \in InFlight |-> Again(m)] \in Bijection(InFlight, A)
    BY <1>3 DEF Bijection, Injection, Surjection, IsInjective
  <1>5. Cardinality(A) = n /\ IsFiniteSet(A)
    BY <1>1, <1>4, FS_Bijection DEF ExistsBijection
  <1>6. again \in Surjection(1 .. n, A)
    BY <1>2 DEF Surjection
  <1>7. IsFiniteSet(1 .. n) /\ Cardinality(1 .. n) = n
    BY <1>1, FS_Interval
  <1> HIDE DEF n
  <1>8. again \in Injection(1 .. n, A)
    BY <1>5, <1>6, <1>7, FS_SurjSameCardinalityImpliesInj
  <1>9. \A p \in A : p \in Packet /\ \E m \in InFlight : p = Again(m)
    BY AgainIsDue
  <1>10. \A p, q \in A : p.id = q.id => p = q
    BY <1>3
  <1> HIDE DEF A
  <1>11. \A j, k \in 1 .. n : again[j] = again[k] => j = k
    BY <1>8 DEF Injection, IsInjective
  <1>12. again \in [1 .. n -> Packet]
    BY <1>2, <1>9
  <1>13. again \in Seq(Packet) /\ Len(again) = n
    BY <1>1, <1>12
  <1>14. QED BY <1>2, <1>9, <1>10, <1>11, <1>13

\* What of them the reader gets.
LEMMA UnreadIsDue ==
  ASSUME IInv, NEW again \in Resent, NEW s \in Unread(again)
  PROVE  /\ s \in Seq(Packet) /\ Ordered(s)
         /\ \A p \in Of(s) : \E m \in InFlight : p = Again(m)
         /\ Count(s, {"PUBLISH"}) <= Cardinality({m \in Msg : state[m] = "sent"})
  <1>1. /\ again \in Seq(Packet)
        /\ \A k \in 1 .. Len(again) : \E m \in InFlight : again[k] = Again(m)
        /\ \A j, k \in 1 .. Len(again) : again[j].id = again[k].id => j = k
    BY ResentIsDue
  <1>2. PICK l \in 0 .. Len(again) : s = SubSeq(again, l + 1, Len(again))
    BY DEF Unread
  <1>3. /\ s \in Seq(Packet) /\ Len(s) = Len(again) - l /\ Len(again) \in Nat /\ l \in Nat
        /\ \A k \in 1 .. Len(s) : k + l \in 1 .. Len(again) /\ s[k] = again[k + l]
    BY ONLY <1>1, <1>2
  <1>4. /\ \A k \in 1 .. Len(s) : \E m \in InFlight : s[k] = Again(m)
        /\ \A j, k \in 1 .. Len(s) : s[j].id = s[k].id => j = k
    <2>1. \A k \in 1 .. Len(s) : \E m \in InFlight : s[k] = Again(m)
      BY ONLY <1>1, <1>3
    <2>2. ASSUME NEW j \in 1 .. Len(s), NEW k \in 1 .. Len(s), s[j].id = s[k].id
          PROVE  j = k
      <3>1. /\ j + l \in 1 .. Len(again) /\ k + l \in 1 .. Len(again)
            /\ again[j + l].id = again[k + l].id
        BY ONLY <1>3, <2>2
      <3>2. j + l = k + l
        BY ONLY <1>1, <3>1
      <3>3. QED BY ONLY <1>3, <3>2
    <2>3. QED BY <2>1, <2>2
  <1>5. Ordered(s)
    <2> SUFFICES ASSUME NEW j \in 1 .. Len(s), NEW k \in 1 .. Len(s), j < k
                 PROVE  s[k].id # s[j].id
      BY DEF Ordered, Before
    <2>1. QED BY <1>3, <1>4
  <1>6. Count(s, {"PUBLISH"}) <= Cardinality({m \in Msg : state[m] = "sent"})
    <2> DEFINE K == {k \in 1 .. Len(s) : s[k].type \in {"PUBLISH"}}
               B == {m \in Msg : state[m] = "sent"}
               f == [k \in K |-> s[k].msg]
    <2>1. ASSUME NEW k \in K
          PROVE  f[k] \in B /\ s[k].id = idOf[f[k]]
      <3>1. PICK m \in InFlight : s[k] = Again(m)
        BY <1>4
      <3>2. QED BY <2>1, <3>1, AgainIsDue
    <2>2. f \in [K -> B]
      BY <2>1
    <2>3. \A j, k \in K : f[j] = f[k] => j = k
      <3>1. \A k \in K : s[k].id = idOf[f[k]]
        BY <2>1
      <3> HIDE DEF f
      <3>2. \A j, k \in K : f[j] = f[k] => s[j].id = s[k].id
        BY ONLY <3>1
      <3>3. QED BY <1>4, <3>2
    <2>4. f \in Injection(K, B)
      BY <2>2, <2>3 DEF Injection, IsInjective
    <2>5. IsFiniteSet(B)
      BY FS_Subset
    <2>6. Cardinality(K) <= Cardinality(B)
      BY <2>4, <2>5, FS_Injection
    <2>7. QED BY <2>6 DEF Count
  <1>7. QED BY <1>3, <1>4, <1>5, <1>6 DEF Of

\* A connection begins with nothing stored, and with what the client sends again.
LEMMA ConnectStep ==
  ASSUME IInv, NEW keeps \in BOOLEAN, NEW again \in Resent, Connect(keeps, again)
  PROVE  IInv'
  <1> USE DEF IInv
  <1>1. /\ net' \in Seq(Packet) /\ Ordered(net')
        /\ \A p \in Of(net') : \E m \in InFlight : p = Again(m)
        /\ Count(net, {"PUBLISH"})' <= Cardinality({m \in Msg : state[m] = "sent"})
    BY UnreadIsDue DEF Connect
  <1>2. /\ UNCHANGED <<state, idOf, repeats, published, dropped, pkt>>
        /\ connections' = connections + 1 /\ up' = TRUE /\ back' = <<>> /\ buffered' = 0
        /\ rpc' = "deadline" /\ rpc = "ended" /\ closing = "done" /\ closing' = "open"
        /\ pubIn' = [i \in Id |-> None] /\ rxQuota' = RxMax
        /\ will' = TRUE /\ onStop' = FALSE /\ tx' = TRUE
        /\ willSent' = 0 /\ left' = FALSE /\ passed' = FALSE
        /\ unanswered' = Cardinality({m \in Msg : state[m] = "sent"})
    BY DEF Connect
  <1>3. back' \in Seq(Ack) /\ Of(back') = {} /\ Count(back, Last)' = 0
    <2>1. back' = <<>>
      BY <1>2
    <2>2. QED BY ONLY <2>1, Empty
  <1>4. Cardinality({m \in Msg : state[m] = "sent"}) \in Nat
    BY FS_Subset, FS_CardinalityType
  <1>5. TypeOK'
    <2>1. pubIn' \in [Id -> Msg \cup {None}] /\ rxQuota' \in Int /\ connections' \in Nat
          /\ unanswered' \in Int
      BY <1>2, <1>4 DEF TypeOK
    <2>2. QED BY <1>1, <1>2, <1>3, <2>1 DEF TypeOK
  <1>6. CloseOK'
    BY <1>2 DEF CloseOK
  <1>7. IdsOK'
    BY <1>2 DEF IdsOK
  <1>8. Way' = Of(net') /\ Handled' = 0
    BY <1>2 DEF Way, InHand, Handled
  <1>9. WayOK'
    <2>1. ASSUME NEW p \in Of(net')
          PROVE  /\ p.type = "PUBLISH" => PublishDue(p)'
                 /\ p.type = "PUBREL" => PubrelDue(p)'
      <3>1. PICK m \in InFlight : p = Again(m)
        BY <1>1
      <3>2. /\ p.type = "PUBLISH" => PublishDue(p)
            /\ p.type = "PUBREL" => PubrelDue(p)
        BY <3>1, AgainIsDue
      <3>3. QED BY <1>2, <3>2 DEF PublishDue, PubrelDue
    <2>2. QED BY <1>2, <1>3, <1>8, <2>1 DEF WayOK
  <1>10. OrderOK'
    BY <1>1, <1>2, <1>3 DEF OrderOK, InHand
  <1>11. StoredOK'
    <2>1. \A i \in Id : pubIn'[i] = None
      BY <1>2
    <2>2. QED BY <2>1, <1>2 DEF StoredOK
  <1>12. \A m \in Msg : state[m] = "released" => Kept(m)'
    <2>1. \A m \in Msg : state[m] = "released" => idOf[m] \in Id /\ Kept(m) /\ m # None
      BY DEF IdsOK, TypeOK, OnceOK
    <2>2. \A i \in Id : pubIn[i] = None
      BY <1>2 DEF StoredOK
    <2>3. QED BY <1>2, <2>1, <2>2 DEF Kept
  <1>13. OnceOK'
    BY <1>2, <1>12 DEF OnceOK
  <1>14. QuotaOK'
    <2>1. Count(net, {"PUBLISH"})' \in Nat
      BY <1>1, Countable
    <2>2. QED BY ONLY <1>1, <1>2, <1>3, <1>4, <1>8, <2>1, InboundAssumption DEF QuotaOK
  <1>15. QED BY <1>5, <1>6, <1>7, <1>9, <1>10, <1>11, <1>13, <1>14

-----------------------------------------------------------------------------

LEMMA InitIInv == Init => IInv
  <1> SUFFICES ASSUME Init PROVE IInv
    OBVIOUS
  <1>1. net = <<>> /\ net \in Seq(Packet) /\ back = <<>> /\ back \in Seq(Ack)
    <2>1. net = <<>> /\ back = <<>>
      BY DEF Init
    <2>2. QED BY ONLY <2>1
  <1>2. /\ Of(net) = {} /\ Of(back) = {} /\ Ordered(net) /\ Way = {} /\ ~InHand
        /\ Count(net, {"PUBLISH"}) = 0 /\ Count(back, Last) = 0 /\ Handled = 0
    <2>1. rpc = "ended"
      BY DEF Init
    <2>2. QED BY <1>1, <2>1, Empty DEF Way, InHand, Handled
  <1>3. TypeOK
    <2>1. Control("PINGREQ", 0) \in Packet
      BY DEF Packet
    <2>2. /\ state \in [Msg -> {"new"}] /\ idOf \in [Msg -> 0 .. MaxId]
          /\ pubIn \in [Id -> Msg \cup {None}] /\ rxQuota \in Int
          /\ published \in [Msg -> Nat]
      BY DEF Init
    <2>3. /\ connections \in Nat /\ repeats \in Nat /\ unanswered \in Int /\ buffered \in Nat
          /\ dropped \subseteq Msg /\ willSent \in Nat
      BY DEF Init
    <2>4. QED BY <1>1, <2>1, <2>2, <2>3 DEF Init, TypeOK
  <1>4. CloseOK
    BY DEF Init, CloseOK
  <1>5. IdsOK
    BY DEF Init, IdsOK
  <1>6. WayOK
    BY <1>1, <1>2 DEF Init, WayOK
  <1>7. OrderOK
    BY <1>2 DEF OrderOK
  <1>8. StoredOK
    BY DEF Init, StoredOK
  <1>9. OnceOK
    BY DEF Init, OnceOK
  <1>10. QuotaOK
    BY <1>2 DEF Init, QuotaOK
  <1>11. QED BY <1>3, <1>4, <1>5, <1>6, <1>7, <1>8, <1>9, <1>10 DEF IInv

LEMMA NextIInv == IInv /\ [Next]_vars => IInv'
  <1> SUFFICES ASSUME IInv, [Next]_vars PROVE IInv'
    OBVIOUS
  <1>1. CASE Client
    BY ONLY IInv, <1>1, ConnectStep, ClientSendsStep, ClientRepeatsStep, ClientReadsStep,
            ClientPingsStep, ClientDisconnectsStep, BreakStep DEF Client
  <1>2. CASE Reader
    BY ONLY IInv, <1>2, SetDeadlineStep, ReadPacketStep, ReadFailsStep, OnPublishQoS1Step,
            OnPublishQoS2Step, RefuseStep, OnPubrelStep, OnPingReqStep, OnDisconnectStep,
            StopWriterStep, SignalDisconnectStep DEF Reader
  <1>3. CASE Closer
    BY ONLY IInv, <1>3, BeginStep, StopStep, ReaderGoneStep, DropStep,
            SignalConnectionCloseStep, ClearStep DEF Closer, ReaderCloses
  <1>4. CASE Begin
    BY ONLY IInv, <1>4, BeginStep
  <1>5. CASE UNCHANGED vars
    <2> USE DEF IInv
    <2>1. TypeOK'
      BY <1>5 DEF TypeOK
    <2>2. CloseOK'
      BY <1>5 DEF CloseOK
    <2>3. IdsOK' /\ WayOK' /\ OrderOK' /\ StoredOK' /\ OnceOK' /\ QuotaOK'
      BY <1>5, <2>1, Still DEF InHand
    <2>4. QED BY <2>1, <2>2, <2>3
  <1>6. QED BY ONLY <1>1, <1>2, <1>3, <1>4, <1>5, [Next]_vars DEF Next

\* What the reader and the close keep true of packet ids, of what is on its way
\* and in which order, of pubIn and of the quota (connection/reader.go,
\* connection.go, ack.go).
THEOREM IInvCorrect == Spec => []IInv
  BY InitIInv, NextIInv, PTL DEF Spec

\* A QoS 2 publish is forwarded once at most over all connections of the client,
\* however often its packets are sent again, and a complete exchange has forwarded
\* it unless a close dropped it (onPublish, onReleaseIn, ackQueue.release).
THEOREM ExactlyOnceCorrect == Spec => []ExactlyOnce
  <1>1. IInv => ExactlyOnce
    BY DEF IInv, OnceOK, ExactlyOnce
  <1>2. QED BY <1>1, IInvCorrect, PTL

\* The will is published by a close if and only if the reader has met no
\* DISCONNECT, and no close that waits for the reader takes the writer from it
\* (onConnectionCloseStage2, onStop, the deadline that stops the reader).
THEOREM CloseInOrderCorrect == Spec => []CloseInOrder
  <1>1. IInv => CloseInOrder
    BY DEF IInv, CloseOK, CloseInOrder
  <1>2. QED BY <1>1, IInvCorrect, PTL

\* The publish in hand is one more than those that have lowered the quota.
LEMMA RefusedUnanswered ==
  ASSUME IInv, Refuse
  PROVE  unanswered > RxMax
  <1>1. TypeOK /\ QuotaOK /\ Handled = 1 /\ rxQuota = 0
    BY DEF IInv, Refuse, Handled, InHand
  <1>2. QED BY ONLY <1>1, Counts, InboundAssumption DEF QuotaOK

\* onPublish refuses only a client that has sent more PUBLISH packets than the
\* receive maximum, in this connection and without having got the answer: what
\* rxQuota has lost to a publish, the first or the same again, comes back with
\* PUBREL (onPublish, onAck).
THEOREM NeverRefusedCorrect == Spec => NeverRefused
  <1>1. IInv /\ [Next]_vars => [Refuse => unanswered > RxMax]_vars
    BY RefusedUnanswered
  <1>2. QED BY <1>1, IInvCorrect, PTL DEF Spec, NeverRefused
=============================================================================

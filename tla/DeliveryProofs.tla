--------------------------- MODULE DeliveryProofs ---------------------------
(***************************************************************************)
(* Conserved, for any publishes, window, number of ids and of connections. *)
(* The invariant counts where a publish is: waiting in a queue or a store, *)
(* or in the ack queue under an id. What the client has of it is tied to   *)
(* the ack queue by what is on its way: about each id at most one packet,  *)
(* and about what the ack queue has under it (ExchangeOK). That no publish *)
(* is read twice in a connection, since none waits once more (ReadOK), and *)
(* that in the first connection an id is free at the client by the time it *)
(* comes again (PendingOK), bounds how often a publish is given to the     *)
(* client, and tells when one can be taken for another.                    *)
(***************************************************************************)
EXTENDS Delivery, FiniteSetTheorems, SequenceTheorems, TLAPS

QoS12 == QoS1 \cup QoS2

\* How many of the elements of q are in K.
Count(q, K) == Cardinality({k \in DOMAIN q : q[k] \in K})

\* What is on the network.
ToClient == Entries({"PUBLISH"}, QoS0, {0}) \cup Entries({"PUBLISH"}, QoS12, Id)
              \cup Entries({"PUBREL"}, {None}, Id)
ToBroker == Entries({"PUBACK", "PUBREC", "PUBCOMP"}, {None}, Id)
UnAcked  == Entries({"PUBLISH"}, QoS12, Id) \cup Entries({"PUBREL"}, {None}, Id)
Packets  == ToClient \cup ToBroker \cup Queued \cup {Nothing}

With(i) == {p \in Packets : p.id = i}
For(m)  == {p \in Packets : p.msg = m}

\* Packets of the right kinds.
NetOK ==
  /\ wire \in Seq(ToClient) /\ acks \in Seq(ToBroker)
  /\ store.unAck \in Seq(UnAcked)

\* The store empties the connection.
LinkOK ==
  /\ link # "off" => connections > 0
  /\ link = "off" => /\ wire = <<>> /\ acks = <<>>
                     /\ qos0Messages = <<>> /\ qos12Messages = <<>>
                     /\ pubOut = [i \in Id |-> None]

\* What the client has to acknowledge. Reloading takes the quota below zero, so
\* that the bound on their number does not follow from it.
Open == {i \in Id : pubOut[i] # None}
WindowOK ==
  /\ quota + Cardinality(Open) <= Quota /\ Cardinality(Open) <= Quota
  /\ Open \subseteq inUse

\* The client has it, or takes it for one that it has.
Had(m) == received[m] > 0 \/ m \in mistaken

\* What is on its way about an id is about what the ack queue has under it, and
\* is one packet at most.
ExchangeOK ==
  /\ \A k \in DOMAIN wire : LET p == wire[k] IN
       /\ p.type = "PUBREL" => pubOut[p.id] = Pubrel
       /\ p.msg \in QoS12 => pubOut[p.id] = p.msg
  /\ \A k \in DOMAIN acks : LET p == acks[k] IN
       /\ p.type = "PUBACK" => pubOut[p.id] \in QoS1 /\ received[pubOut[p.id]] > 0
       /\ p.type = "PUBREC" => pubOut[p.id] \in QoS2 /\ Had(pubOut[p.id])
       /\ p.type = "PUBCOMP" => pubOut[p.id] = Pubrel
  /\ \A i \in Id : Count(wire, With(i)) + Count(acks, With(i)) <= 1

\* A QoS 1 or 2 publish waits, or is in the ack queue, or the client has had it.
Waiting(m) == Count(qos12Messages, For(m)) + Count(store.qos12, For(m)) + Count(store.unAck, For(m))
Under(m)   == {i \in Id : pubOut[i] = m}
InHand(m)  == Cardinality(Under(m))

PlacesOK ==
  \A m \in QoS12 :
    /\ m \in published => Waiting(m) + InHand(m) <= 1
    /\ m \in published /\ Waiting(m) + InHand(m) = 0 => Had(m)
    /\ m \notin published => Waiting(m) + InHand(m) = 0 /\ received[m] = 0

OnWire(m) == \E k \in DOMAIN wire : wire[k].msg = m

\* What is still to come has not been read in this connection.
ReadOK ==
  /\ \A m \in Pub : received[m] <= connections
  /\ link # "off" => \A m \in QoS12 : Waiting(m) > 0 \/ OnWire(m) => received[m] < connections

\* A QoS 0 publish is in one place, the client being the last.
OnceOnly(m) == Count(qos0Messages, {m}) + Count(store.qos0, {m}) + Count(wire, For(m)) + received[m]
QoS0OK ==
  \A m \in QoS0 : OnceOnly(m) <= 1 /\ (m \notin published => OnceOnly(m) = 0)

\* Who holds an id has had the publish; in the first connection the release is
\* on its way, so that none can be mistaken.
PendingOK ==
  /\ \A i \in Id : pending[i] # None => received[pending[i]] > 0
  /\ mistaken # {} => connections > 1
  /\ link # "off" /\ connections <= 1 =>
       \A i \in Id : pending[i] # None =>
         \/ \E k \in DOMAIN acks : acks[k].type = "PUBREC" /\ acks[k].id = i
         \/ \E k \in DOMAIN wire : wire[k].type = "PUBREL" /\ wire[k].id = i

\* The inductive invariant.
IInv ==
  /\ TypeOK /\ NetOK /\ LinkOK /\ WindowOK /\ ExchangeOK
  /\ PlacesOK /\ ReadOK /\ QoS0OK /\ PendingOK
-----------------------------------------------------------------------------
(* Counting in sequences *)

\* A bijection keeps the size.
LEMMA SameSize ==
  ASSUME NEW S, NEW T, IsFiniteSet(S), NEW f \in [S -> T],
         \A x, y \in S : f[x] = f[y] => x = y,
         \A z \in T : \E x \in S : f[x] = z
  PROVE  IsFiniteSet(T) /\ Cardinality(T) = Cardinality(S)
  <1>1. f \in Bijection(S, T) BY DEF Bijection, Injection, Surjection, IsInjective
  <1>2. ExistsBijection(S, T) BY <1>1 DEF ExistsBijection
  <1> QED BY <1>2, FS_Bijection

\* The places of q where K is.
At(q, K) == {k \in DOMAIN q : q[k] \in K}

\* Counts are numbers, zero where nothing is.
LEMMA CountIs ==
  ASSUME NEW S, NEW q \in Seq(S), NEW K
  PROVE  /\ IsFiniteSet(At(q, K)) /\ Count(q, K) = Cardinality(At(q, K)) /\ Count(q, K) \in Nat
         /\ Count(q, K) = 0 <=> \A k \in DOMAIN q : q[k] \notin K
         /\ Count(q, K) <= Len(q)
  <1>1. DOMAIN q = 1 .. Len(q) /\ Len(q) \in Nat BY LenProperties
  <1>2. IsFiniteSet(1 .. Len(q)) /\ Cardinality(1 .. Len(q)) = Len(q) BY <1>1, FS_Interval
  <1>3. At(q, K) \in SUBSET (1 .. Len(q)) BY <1>1 DEF At
  <1>4. IsFiniteSet(At(q, K)) /\ Cardinality(At(q, K)) <= Len(q) BY <1>2, <1>3, FS_Subset
  <1>5. Cardinality(At(q, K)) \in Nat BY <1>4, FS_CardinalityType
  <1>6. Cardinality(At(q, K)) = 0 <=> At(q, K) = {} BY <1>4, FS_EmptySet
  <1>7. Count(q, K) = Cardinality(At(q, K)) BY DEF Count, At
  <1>8. At(q, K) = {} <=> \A k \in DOMAIN q : q[k] \notin K BY DEF At
  <1> QED BY <1>4, <1>5, <1>6, <1>7, <1>8

\* Nothing is in the empty sequence.
LEMMA CountEmpty == \A K : Count(<<>>, K) = 0
  <1> TAKE K
  <1>1. <<>> \in Seq({}) /\ DOMAIN <<>> = {} BY EmptySeq
  <1> QED BY <1>1, CountIs

\* Two at once.
LEMMA CountTwo ==
  ASSUME NEW S, NEW q \in Seq(S), NEW K, NEW j \in DOMAIN q, NEW k \in DOMAIN q,
         j # k, q[j] \in K, q[k] \in K
  PROVE  Count(q, K) >= 2
  <1>1. IsFiniteSet({j, k}) /\ Cardinality({j, k}) = 2
    <2> DEFINE one == {j}
    <2>1. IsFiniteSet(one) /\ Cardinality(one) = 1 BY FS_Singleton
    <2>2. k \notin one /\ {j, k} = one \cup {k} OBVIOUS
    <2> HIDE DEF one
    <2>3. /\ IsFiniteSet(one \cup {k})
          /\ Cardinality(one \cup {k}) = IF k \in one THEN Cardinality(one) ELSE Cardinality(one) + 1
      BY <2>1, FS_AddElement
    <2>4. Cardinality(one \cup {k}) = 2 BY <2>1, <2>2, <2>3
    <2> QED BY <2>2, <2>3, <2>4
  <1>2. {j, k} \in SUBSET At(q, K) BY DEF At
  <1> QED BY <1>1, <1>2, FS_Subset, CountIs

\* What has the same places has the same count.
LEMMA CountSame ==
  ASSUME NEW q, NEW r, NEW K, NEW L, DOMAIN q = DOMAIN r,
         \A k \in DOMAIN q : q[k] \in K <=> r[k] \in L
  PROVE  Count(q, K) = Count(r, L)
  <1>1. {k \in DOMAIN q : q[k] \in K} = {k \in DOMAIN r : r[k] \in L} OBVIOUS
  <1> QED BY <1>1 DEF Count

\* A concatenation has what both parts have.
LEMMA CountConcat ==
  ASSUME NEW S, NEW q \in Seq(S), NEW r \in Seq(S), NEW K
  PROVE  Count(q \o r, K) = Count(q, K) + Count(r, K)
  <1> DEFINE n == Len(q)
             A == At(q, K)
             B == {k \in (n + 1) .. (n + Len(r)) : r[k - n] \in K}
             f == [k \in At(r, K) |-> k + n]
  <1>1. /\ DOMAIN q = 1 .. n /\ DOMAIN r = 1 .. Len(r) /\ n \in Nat /\ Len(r) \in Nat
        /\ DOMAIN (q \o r) = 1 .. n + Len(r) /\ q \o r \in Seq(S)
        /\ \A k \in 1 .. n + Len(r) : (q \o r)[k] = IF k <= n THEN q[k] ELSE r[k - n]
    BY ConcatProperties, LenProperties
  <1>2. At(q \o r, K) = A \cup B
    <2>1. ASSUME NEW k \in 1 .. n + Len(r)
          PROVE  k \in At(q \o r, K) <=> k \in A \cup B
      <3>1. CASE k <= n
        <4>1. k \in 1 .. n /\ k \notin B /\ (q \o r)[k] = q[k] BY <1>1, <3>1
        <4> QED BY <1>1, <4>1 DEF At
      <3>2. CASE k > n
        <4>1. k \notin 1 .. n /\ k \in (n + 1) .. (n + Len(r)) /\ (q \o r)[k] = r[k - n] BY <1>1, <3>2
        <4> QED BY <1>1, <4>1 DEF At
      <3> QED BY <1>1, <3>1, <3>2
    <2>2. At(q \o r, K) \subseteq 1 .. n + Len(r) BY <1>1 DEF At
    <2>3. A \subseteq 1 .. n + Len(r) /\ B \subseteq 1 .. n + Len(r) BY <1>1 DEF At
    <2> QED BY <2>1, <2>2, <2>3
  <1>3. A \cap B = {} BY <1>1 DEF At
  <1>4. IsFiniteSet(B) /\ Cardinality(B) = Cardinality(At(r, K))
    <2>1. f \in [At(r, K) -> B] BY <1>1 DEF At
    <2>2. \A x, y \in At(r, K) : f[x] = f[y] => x = y BY <1>1 DEF At
    <2>3. ASSUME NEW z \in B PROVE \E x \in At(r, K) : f[x] = z
      <3>1. z - n \in At(r, K) /\ f[z - n] = z BY <1>1 DEF At
      <3> QED BY <3>1
    <2>4. IsFiniteSet(At(r, K)) BY CountIs
    <2> HIDE DEF f, B
    <2> QED BY <2>1, <2>2, <2>3, <2>4, SameSize
  <1>5. IsFiniteSet(A) BY CountIs
  <1>6. Cardinality(A \cup B) = Cardinality(A) + Cardinality(B)
    <2>1. Cardinality(A \cup B) = Cardinality(A) + Cardinality(B) - Cardinality(A \cap B)
      BY <1>4, <1>5, FS_Union
    <2>2. Cardinality(A \cap B) = 0 BY <1>3, FS_EmptySet
    <2>3. Cardinality(A) \in Nat /\ Cardinality(B) \in Nat BY <1>4, <1>5, FS_CardinalityType
    <2> QED BY <2>1, <2>2, <2>3
  <1>7. Count(q \o r, K) = Cardinality(At(q \o r, K)) BY <1>1, CountIs
  <1> QED BY <1>2, <1>4, <1>6, <1>7, CountIs

\* A sequence of one.
LEMMA CountOne ==
  ASSUME NEW e, NEW K
  PROVE  Count(<<e>>, K) = IF e \in K THEN 1 ELSE 0
  <1>1. <<e>> \in Seq({e}) /\ DOMAIN <<e>> = {1} /\ <<e>>[1] = e OBVIOUS
  <1>2. CASE e \in K
    <2>1. At(<<e>>, K) = {1} BY <1>1, <1>2 DEF At
    <2>2. Count(<<e>>, K) = Cardinality({1}) BY <1>1, <2>1, CountIs
    <2> QED BY <1>2, <2>2, FS_Singleton
  <1>3. CASE e \notin K
    <2>1. \A k \in DOMAIN <<e>> : <<e>>[k] \notin K BY <1>1, <1>3
    <2>2. Count(<<e>>, K) = 0 BY <1>1, <2>1, CountIs
    <2> QED BY <1>3, <2>2
  <1> QED BY <1>2, <1>3

\* What comes at the end counts.
LEMMA CountAppend ==
  ASSUME NEW S, NEW q \in Seq(S), NEW e \in S, NEW K
  PROVE  Count(Append(q, e), K) = Count(q, K) + (IF e \in K THEN 1 ELSE 0)
  <1>1. Append(q, e) = q \o <<e>> /\ <<e>> \in Seq(S) BY AppendIsConcat
  <1>2. Count(q \o <<e>>, K) = Count(q, K) + Count(<<e>>, K) BY <1>1, CountConcat
  <1> QED BY <1>1, <1>2, CountOne

\* What leaves at the head is counted no more.
LEMMA CountTail ==
  ASSUME NEW S, NEW q \in Seq(S), q # <<>>, NEW K
  PROVE  Count(q, K) = Count(Tail(q), K) + (IF Head(q) \in K THEN 1 ELSE 0)
  <1>1. Head(q) \in S /\ Tail(q) \in Seq(S) /\ <<Head(q)>> \in Seq(S) BY HeadTailProperties
  <1>2. q = <<Head(q)>> \o Tail(q)
    <2> DEFINE r == <<Head(q)>> \o Tail(q)
    <2>1. /\ Len(q) \in Nat \ {0} /\ Len(Tail(q)) = Len(q) - 1 /\ Head(q) = q[1]
          /\ \A k \in 1 .. Len(q) - 1 : Tail(q)[k] = q[k + 1]
      BY LenProperties, HeadTailProperties
    <2>2. r \in Seq(S) /\ Len(r) = Len(q)
      BY <1>1, <2>1, ConcatProperties
    <2>3. ASSUME NEW k \in 1 .. Len(q) PROVE r[k] = q[k]
      BY <1>1, <2>1, ConcatProperties
    <2> HIDE DEF r
    <2>4. r = q BY <2>2, <2>3, SeqEqual
    <2> QED BY <2>4 DEF r
  <1>3. Count(q, K) = Count(<<Head(q)>>, K) + Count(Tail(q), K)
    <2>1. Count(<<Head(q)>> \o Tail(q), K) = Count(<<Head(q)>>, K) + Count(Tail(q), K) BY <1>1, CountConcat
    <2> QED BY <1>2, <2>1
  <1>4. Count(Tail(q), K) \in Nat BY <1>1, CountIs
  <1> QED BY <1>3, <1>4, CountOne

\* The first elements of a sequence.
LEMMA PrefixIs ==
  ASSUME NEW S, NEW q \in Seq(S), NEW m \in Nat, m <= Len(q)
  PROVE  /\ SubSeq(q, 1, m) \in Seq(S) /\ Len(SubSeq(q, 1, m)) = m
         /\ \A k \in 1 .. m : SubSeq(q, 1, m)[k] = q[k]
  <1>1. \A k \in 1 .. Len(q) : q[k] \in S BY ElementOfSeq
  <1>2. Len(q) \in Nat BY LenProperties
  <1>3. \A k \in 1 .. m : q[k] \in S BY <1>1, <1>2
  <1> QED BY <1>3, SubSeqProperties

\* The others.
LEMMA SuffixIs ==
  ASSUME NEW S, NEW q \in Seq(S), NEW m \in Nat, m <= Len(q)
  PROVE  /\ SubSeq(q, m + 1, Len(q)) \in Seq(S) /\ Len(SubSeq(q, m + 1, Len(q))) = Len(q) - m
         /\ \A k \in 1 .. Len(q) - m : SubSeq(q, m + 1, Len(q))[k] = q[m + k]
         /\ q = SubSeq(q, 1, m) \o SubSeq(q, m + 1, Len(q))
  <1> DEFINE p == SubSeq(q, 1, m)
             r == SubSeq(q, m + 1, Len(q))
  <1>1. Len(q) \in Nat /\ \A k \in 1 .. Len(q) : q[k] \in S BY LenProperties, ElementOfSeq
  <1>2. \A k \in m + 1 .. Len(q) : q[k] \in S BY <1>1
  <1>3. /\ r \in Seq(S) /\ Len(r) = IF m + 1 <= Len(q) THEN Len(q) - (m + 1) + 1 ELSE 0
        /\ \A k \in 1 .. Len(q) - (m + 1) + 1 : r[k] = q[m + 1 + k - 1]
    BY <1>1, <1>2, SubSeqProperties
  <1>4. p \in Seq(S) /\ Len(p) = m /\ \A k \in 1 .. m : p[k] = q[k] BY PrefixIs
  <1> HIDE DEF p, r
  <1>5. Len(r) = Len(q) - m /\ \A k \in 1 .. Len(q) - m : r[k] = q[m + k] BY <1>1, <1>3
  <1>6. /\ p \o r \in Seq(S) /\ Len(p \o r) = Len(p) + Len(r)
        /\ \A k \in 1 .. Len(p) + Len(r) : (p \o r)[k] = IF k <= Len(p) THEN p[k] ELSE r[k - Len(p)]
    BY <1>3, <1>4, ConcatProperties
  <1>7. ASSUME NEW k \in 1 .. Len(q) PROVE q[k] = (p \o r)[k]
    <2>1. CASE k <= m
      <3>1. k \in 1 .. m /\ k \in 1 .. Len(p) + Len(r) BY <1>1, <1>4, <1>5, <2>1
      <3> QED BY <1>4, <1>6, <2>1, <3>1
    <2>2. CASE ~(k <= m)
      <3>1. k - m \in 1 .. Len(q) - m /\ m + (k - m) = k /\ k \in 1 .. Len(p) + Len(r)
        BY <1>1, <1>4, <1>5, <2>2
      <3>2. (p \o r)[k] = r[k - m] BY <1>4, <1>6, <2>2, <3>1
      <3> QED BY <1>5, <3>1, <3>2
    <2> QED BY <2>1, <2>2
  <1>8. Len(p \o r) = Len(q) BY <1>1, <1>4, <1>5, <1>6
  <1>9. q = p \o r BY <1>6, <1>7, <1>8, SeqEqual
  <1> QED BY <1>3, <1>5, <1>9 DEF p, r

\* What is taken out of a store and what is left.
LEMMA NewestIs ==
  ASSUME NEW S, NEW q \in Seq(S), NEW n \in 0 .. Len(q)
  PROVE  /\ Newest(q, n) \in Seq(S) /\ Len(Newest(q, n)) = n
         /\ \A k \in 1 .. n : Newest(q, n)[k] = q[Len(q) - k + 1]
         /\ Others(q, n) \in Seq(S)
  <1>1. Len(q) \in Nat /\ n \in Nat /\ n <= Len(q) /\ DOMAIN q = 1 .. Len(q) /\ \A k \in 1 .. Len(q) : q[k] \in S
    BY LenProperties, ElementOfSeq
  <1>2. /\ Reverse(q) \in Seq(S) /\ Len(Reverse(q)) = Len(q)
        /\ \A k \in 1 .. Len(q) : Reverse(q)[k] = q[Len(q) - k + 1]
    BY <1>1 DEF Reverse
  <1>3. /\ SubSeq(Reverse(q), 1, n) \in Seq(S) /\ Len(SubSeq(Reverse(q), 1, n)) = n
        /\ \A k \in 1 .. n : SubSeq(Reverse(q), 1, n)[k] = Reverse(q)[k]
    BY <1>1, <1>2, PrefixIs
  <1>4. SubSeq(q, 1, Len(q) - n) \in Seq(S)
    <2>1. Len(q) - n \in Nat /\ Len(q) - n <= Len(q) BY <1>1
    <2> QED BY <2>1, PrefixIs
  <1> QED BY <1>1, <1>2, <1>3, <1>4 DEF Newest, Others

\* Reloading takes nothing away and adds nothing.
LEMMA CountNewest ==
  ASSUME NEW S, NEW q \in Seq(S), NEW n \in 0 .. Len(q), NEW K
  PROVE  Count(q, K) = Count(Newest(q, n), K) + Count(Others(q, n), K)
  <1> DEFINE l == Len(q)
             m == l - n
             r == SubSeq(q, m + 1, l)
             f == [k \in At(r, K) |-> n - k + 1]
  <1>1. l \in Nat /\ n \in Nat /\ n <= l /\ m \in Nat /\ m <= l /\ l - m = n
    BY LenProperties
  <1>2. /\ r \in Seq(S) /\ Len(r) = l - m /\ q = SubSeq(q, 1, m) \o r
        /\ \A k \in 1 .. l - m : r[k] = q[m + k]
    <2> HIDE DEF m
    <2> QED BY <1>1, SuffixIs
  <1>3. Others(q, n) = SubSeq(q, 1, m) /\ Others(q, n) \in Seq(S) BY NewestIs DEF Others
  <1>4. Count(q, K) = Count(Others(q, n), K) + Count(r, K)
    <2> HIDE DEF r, m
    <2>1. Count(Others(q, n) \o r, K) = Count(Others(q, n), K) + Count(r, K) BY <1>2, <1>3, CountConcat
    <2>2. Others(q, n) \o r = q BY <1>2, <1>3
    <2> QED BY <2>1, <2>2
  <1>5. Count(Newest(q, n), K) = Count(r, K)
    <2> HIDE DEF r
    <2>1. DOMAIN r = 1 .. n /\ DOMAIN Newest(q, n) = 1 .. n BY <1>1, <1>2, NewestIs, LenProperties
    <2>2. ASSUME NEW k \in 1 .. n PROVE n - k + 1 \in 1 .. n /\ Newest(q, n)[n - k + 1] = r[k]
      <3>1. n - k + 1 \in 1 .. n /\ l - (n - k + 1) + 1 = m + k BY <1>1
      <3>2. Newest(q, n)[n - k + 1] = q[l - (n - k + 1) + 1] BY <3>1, NewestIs
      <3>3. r[k] = q[m + k] BY <1>1, <1>2
      <3> QED BY <3>1, <3>2, <3>3
    <2>3. f \in [At(r, K) -> At(Newest(q, n), K)] BY <2>1, <2>2 DEF At
    <2>4. \A x, y \in At(r, K) : f[x] = f[y] => x = y BY <2>1, <1>1 DEF At
    <2>5. ASSUME NEW z \in At(Newest(q, n), K) PROVE \E x \in At(r, K) : f[x] = z
      <3>1. z \in 1 .. n /\ n - z + 1 \in 1 .. n /\ n - (n - z + 1) + 1 = z BY <2>1, <1>1 DEF At
      <3>2. r[n - z + 1] = Newest(q, n)[z] BY <2>2, <3>1
      <3>3. n - z + 1 \in At(r, K) BY <2>1, <3>1, <3>2 DEF At
      <3>4. f[n - z + 1] = z BY <3>1, <3>3
      <3> QED BY <3>3, <3>4
    <2>6. IsFiniteSet(At(r, K)) BY <1>2, CountIs
    <2> HIDE DEF f
    <2>7. Cardinality(At(Newest(q, n), K)) = Cardinality(At(r, K)) BY <2>3, <2>4, <2>5, <2>6, SameSize
    <2>8. Newest(q, n) \in Seq(S) BY NewestIs
    <2> QED BY <1>2, <2>7, <2>8, CountIs
  <1>6. Count(Others(q, n), K) \in Nat /\ Count(r, K) \in Nat
    <2> HIDE DEF r
    <2> QED BY <1>2, <1>3, CountIs
  <1> HIDE DEF r
  <1> QED BY <1>4, <1>5, <1>6
-----------------------------------------------------------------------------
(* Packets *)

\* The kinds of packets, and how publishes and marks differ.
LEMMA PacketsAre ==
  /\ ToClient \subseteq Packets /\ ToBroker \subseteq Packets /\ Queued \subseteq Packets
  /\ UnAcked \subseteq Queued /\ Nothing \in Packets
  /\ QoS12 \subseteq Pub /\ QoS0 \subseteq Pub /\ QoS1 \subseteq QoS12 /\ QoS2 \subseteq QoS12
  /\ QoS0 \cap QoS12 = {} /\ None \notin Pub /\ Pubrel \notin Pub /\ None # Pubrel
  /\ 0 \notin Id /\ IsFiniteSet(Id) /\ Id \subseteq Nat
  <1>1. UnAcked \subseteq Queued BY DEF UnAcked, Queued, Entries, QoS12
  <1>2. IsFiniteSet(Id) /\ 0 \notin Id /\ Id \subseteq Nat BY DeliveryAssumption, FS_Interval DEF Id, DeliveryAssumption
  <1> QED BY <1>1, <1>2, DeliveryAssumption DEF Packets, QoS12, Pub, DeliveryAssumption

\* What a packet of each kind looks like.
LEMMA Fields ==
  /\ \A p \in ToClient :
       /\ p = [type |-> p.type, msg |-> p.msg, id |-> p.id]
       /\ \/ p.type = "PUBLISH" /\ p.msg \in QoS0 /\ p.id = 0
          \/ p.type = "PUBLISH" /\ p.msg \in QoS12 /\ p.id \in Id
          \/ p.type = "PUBREL" /\ p.msg = None /\ p.id \in Id
  /\ \A p \in ToBroker : p.type \in {"PUBACK", "PUBREC", "PUBCOMP"} /\ p.msg = None /\ p.id \in Id
  /\ \A p \in Queued :
       \/ p.type = "PUBLISH" /\ p.msg \in QoS12 /\ p.id \in Id \cup {0}
       \/ p.type = "PUBREL" /\ p.msg = None /\ p.id \in Id
  /\ \A p \in UnAcked : p.id \in Id
  /\ Nothing.msg = None /\ Nothing.type = "nil"
  BY DEF ToClient, ToBroker, Queued, UnAcked, Entries, QoS12, Nothing, Packet

\* What the packets that are made look like.
LEMMA Made ==
  /\ \A m \in QoS12, i \in Id \cup {0} : /\ Publish(m, i) \in Queued
                                         /\ Publish(m, i).type = "PUBLISH" /\ Publish(m, i).msg = m
                                         /\ Publish(m, i).id = i
  /\ \A m \in QoS12, i \in Id : Publish(m, i) \in ToClient /\ Publish(m, i) \in UnAcked
  /\ \A m \in QoS0 : /\ Publish(m, 0) \in ToClient
                     /\ Publish(m, 0).type = "PUBLISH" /\ Publish(m, 0).msg = m /\ Publish(m, 0).id = 0
  /\ \A i \in Id : /\ Rel(i) \in ToClient /\ Rel(i) \in UnAcked
                   /\ Rel(i).type = "PUBREL" /\ Rel(i).msg = None /\ Rel(i).id = i
  /\ \A i \in Id, t \in {"PUBACK", "PUBREC", "PUBCOMP"} :
       /\ Ack(t, i) \in ToBroker /\ Ack(t, i).type = t /\ Ack(t, i).msg = None /\ Ack(t, i).id = i
  BY DEF ToClient, ToBroker, Queued, UnAcked, Entries, QoS12, Publish, Rel, Ack, Packet

\* The packets for a publish and those with an id.
LEMMA Sorted == \A p \in Packets : \A m, i : (p \in For(m) <=> p.msg = m) /\ (p \in With(i) <=> p.id = i)
  BY DEF For, With

\* The sequences of the system are sequences of packets.
LEMMA Sequences ==
  ASSUME TypeOK, NetOK
  PROVE  /\ qos12Messages \in Seq(Packets) /\ store.qos12 \in Seq(Packets) /\ store.unAck \in Seq(Packets)
         /\ wire \in Seq(Packets) /\ acks \in Seq(Packets)
  <1>1. Queued \cup {Nothing} \subseteq Packets /\ UnAcked \subseteq Packets BY PacketsAre
  <1> QED BY <1>1, PacketsAre, SeqMonotonic DEF TypeOK, NetOK

\* What the counters of a publish count.
LEMMA CountsAre ==
  ASSUME TypeOK, NetOK
  PROVE  \A m : /\ Count(qos12Messages, For(m)) \in Nat /\ Count(store.qos12, For(m)) \in Nat
                /\ Count(store.unAck, For(m)) \in Nat /\ Count(wire, For(m)) \in Nat
                /\ Count(wire, With(m)) \in Nat /\ Count(acks, With(m)) \in Nat
                /\ Count(qos0Messages, {m}) \in Nat /\ Count(store.qos0, {m}) \in Nat
                /\ IsFiniteSet(Under(m)) /\ InHand(m) \in Nat
                /\ Waiting(m) \in Nat
  <1> TAKE m
  <1>1. Under(m) \in SUBSET Id BY DEF Under
  <1>2. IsFiniteSet(Under(m)) BY <1>1, PacketsAre, FS_Subset
  <1>3. InHand(m) \in Nat BY <1>2, FS_CardinalityType DEF InHand
  <1>4. qos0Messages \in Seq(QoS0) /\ store.qos0 \in Seq(QoS0) BY DEF TypeOK
  <1>5. Count(qos0Messages, {m}) \in Nat /\ Count(store.qos0, {m}) \in Nat BY <1>4, CountIs
  <1>6. /\ Count(qos12Messages, For(m)) \in Nat /\ Count(store.qos12, For(m)) \in Nat
        /\ Count(store.unAck, For(m)) \in Nat /\ Count(wire, For(m)) \in Nat
        /\ Count(wire, With(m)) \in Nat /\ Count(acks, With(m)) \in Nat
    BY Sequences, CountIs
  <1> QED BY <1>2, <1>3, <1>5, <1>6 DEF Waiting

\* What the other counters count.
LEMMA NumbersAre ==
  ASSUME TypeOK, NetOK
  PROVE  /\ connections \in Nat /\ quota \in Int
         /\ IsFiniteSet(Open) /\ Cardinality(Open) \in Nat
         /\ \A m \in Pub : received[m] \in Nat /\ OnceOnly(m) \in Nat
  <1>1. connections \in Nat /\ quota \in Int BY DeliveryAssumption DEF TypeOK, DeliveryAssumption
  <1>2. Open \in SUBSET Id BY DEF Open
  <1>3. IsFiniteSet(Open) /\ Cardinality(Open) \in Nat BY <1>2, PacketsAre, FS_Subset, FS_CardinalityType
  <1>4. ASSUME NEW m \in Pub PROVE received[m] \in Nat /\ OnceOnly(m) \in Nat
    <2>1. received[m] \in Nat BY DeliveryAssumption DEF TypeOK, DeliveryAssumption
    <2>2. /\ Count(qos0Messages, {m}) \in Nat /\ Count(store.qos0, {m}) \in Nat
          /\ Count(wire, For(m)) \in Nat
      BY CountsAre
    <2> QED BY <2>1, <2>2 DEF OnceOnly
  <1> QED BY <1>1, <1>3, <1>4

\* The count of the specification.
LEMMA OccursIs ==
  ASSUME NEW q \in Seq(Packets), NEW m
  PROVE  Occurs(m, q) = Count(q, For(m))
  <1>1. \A k \in DOMAIN q : q[k] \in Packets BY ElementOfSeq, LenProperties
  <1>2. {k \in DOMAIN q : q[k].msg = m} = {k \in DOMAIN q : q[k] \in For(m)} BY <1>1, Sorted
  <1> QED BY <1>2 DEF Occurs, Count

\* The invariant is what is to be shown.
LEMMA InvConserved == IInv => Conserved
  <1> SUFFICES ASSUME IInv PROVE Conserved OBVIOUS
  <1>1. TypeOK /\ NetOK BY DEF IInv
  <1>2. ASSUME NEW m PROVE Places(m) = Waiting(m) + InHand(m)
    <2>1. /\ Occurs(m, qos12Messages) = Count(qos12Messages, For(m))
          /\ Occurs(m, store.qos12) = Count(store.qos12, For(m))
          /\ Occurs(m, store.unAck) = Count(store.unAck, For(m))
      BY <1>1, Sequences, OccursIs
    <2> QED BY <2>1 DEF Places, Waiting, InHand, Under
  <1>3. Cardinality({i \in Id : pubOut[i] # None}) <= Quota BY DEF IInv, WindowOK, Open
  <1>4. ASSUME NEW m \in (QoS1 \cup QoS2) \cap published
        PROVE  Places(m) <= 1 /\ (Places(m) = 0 => received[m] > 0 \/ m \in mistaken)
    BY <1>2 DEF IInv, PlacesOK, QoS12, Had
  <1>5. ASSUME NEW m \in Pub PROVE received[m] <= IF m \in QoS0 THEN 1 ELSE connections
    <2>1. CASE m \in QoS0
      <3>1. OnceOnly(m) <= 1 /\ received[m] \in Nat BY <1>1, <2>1 DEF IInv, QoS0OK, TypeOK
      <3>2. /\ Count(qos0Messages, {m}) \in Nat /\ Count(store.qos0, {m}) \in Nat
            /\ Count(wire, For(m)) \in Nat
        BY <1>1, CountsAre
      <3> QED BY <2>1, <3>1, <3>2 DEF OnceOnly
    <2>2. CASE m \notin QoS0 BY <2>2 DEF IInv, ReadOK
    <2> QED BY <2>1, <2>2
  <1>6. mistaken # {} => connections > 1 BY DEF IInv, PendingOK
  <1> QED BY <1>1, <1>3, <1>4, <1>5, <1>6 DEF Conserved
-----------------------------------------------------------------------------
(* Each step keeps the invariant *)

\* The invariant holds before the first connection.
LEMMA InitInv == Init => IInv
  <1> SUFFICES ASSUME Init PROVE IInv OBVIOUS
  <1>1. TypeOK
    <2>1. \A S : <<>> \in Seq(S) BY EmptySeq
    <2>2. store.qos0 = <<>> /\ store.qos12 = <<>> /\ store.unAck = <<>> BY DEF Init
    <2>3. /\ qos0Messages \in Seq(QoS0) /\ qos12Messages \in Seq(Queued)
          /\ store.qos0 \in Seq(QoS0) /\ store.qos12 \in Seq(Queued \cup {Nothing})
          /\ store.unAck \in Seq(Queued)
      BY <2>1, <2>2 DEF Init
    <2>4. /\ connections \in 0 .. MaxConnections /\ quota \in Int /\ quota <= Quota /\ counter \in 0 .. MaxId
          /\ inUse \subseteq Id /\ received \in [Pub -> 0 .. MaxConnections]
      BY DeliveryAssumption DEF Init, DeliveryAssumption
    <2>5. /\ pubOut \in [Id -> QoS1 \cup QoS2 \cup {Pubrel, None}]
          /\ pending \in [Id -> QoS2 \cup {None}] /\ mistaken \subseteq QoS2 /\ published \subseteq Pub
          /\ panicked \in BOOLEAN /\ link = "off" /\ online = FALSE /\ started \in BOOLEAN
      BY DEF Init
    <2> QED BY <2>3, <2>4, <2>5 DEF TypeOK
  <1>2. NetOK BY DEF Init, NetOK
  <1>3. \A K : /\ Count(qos12Messages, K) = 0 /\ Count(store.qos12, K) = 0 /\ Count(store.unAck, K) = 0
               /\ Count(qos0Messages, K) = 0 /\ Count(store.qos0, K) = 0
               /\ Count(wire, K) = 0 /\ Count(acks, K) = 0
    BY CountEmpty DEF Init
  <1>4. \A m \in QoS12 : Under(m) = {} /\ InHand(m) = 0
    BY PacketsAre, FS_EmptySet DEF Init, Under, InHand
  <1>5. Open = {} /\ Cardinality(Open) = 0 BY FS_EmptySet DEF Init, Open
  <1>6. \A m \in QoS12 : Waiting(m) = 0 BY <1>3 DEF Waiting
  <1>7. WindowOK BY <1>5, DeliveryAssumption DEF Init, WindowOK, DeliveryAssumption
  <1>8. ExchangeOK BY <1>3 DEF Init, ExchangeOK
  <1>9. PlacesOK BY <1>4, <1>6, PacketsAre DEF Init, PlacesOK
  <1>10. ReadOK BY DEF Init, ReadOK
  <1>11. QoS0OK BY <1>3, PacketsAre DEF Init, QoS0OK, OnceOnly
  <1>12. PendingOK BY DEF Init, PendingOK
  <1>13. LinkOK BY DEF Init, LinkOK
  <1> QED BY <1>1, <1>2, <1>7, <1>8, <1>9, <1>10, <1>11, <1>12, <1>13 DEF IInv

\* Nothing changes it but the steps.
LEMMA StutterInv == IInv /\ UNCHANGED vars => IInv'
  <1> SUFFICES ASSUME IInv, UNCHANGED vars PROVE IInv' OBVIOUS
  <1> USE DEF vars, connVars, queueVars, flowVars, clientVars, netVars
  <1>1. TypeOK' BY DEF IInv, TypeOK
  <1>2. NetOK' /\ LinkOK' BY DEF IInv, NetOK, LinkOK
  <1>3. WindowOK' BY DEF IInv, WindowOK, Open
  <1>4. ExchangeOK' BY DEF IInv, ExchangeOK, Had
  <1>5. PlacesOK' BY DEF IInv, PlacesOK, Had, Waiting, InHand, Under
  <1>6. ReadOK' BY DEF IInv, ReadOK, Waiting, OnWire
  <1>7. QoS0OK' BY DEF IInv, QoS0OK, OnceOnly
  <1>8. PendingOK' BY DEF IInv, PendingOK
  <1> QED BY <1>1, <1>2, <1>3, <1>4, <1>5, <1>6, <1>7, <1>8 DEF IInv

\* A publish that comes is new, whatever queue or store it enters.
LEMMA ForwardInv == ASSUME IInv, NEW n \in Pub, Forward(n) PROVE IInv'
  <1> USE DEF connVars, queueVars, flowVars, clientVars, netVars
  <1>1. /\ online /\ n \notin published /\ published' = published \cup {n}
        /\ UNCHANGED <<link, online, started, connections, quota, counter, inUse, pubOut, store, wire, acks,
                       pending, received, mistaken, panicked>>
    BY DEF Forward
  <1>2. TypeOK /\ NetOK /\ link = "up" /\ connections > 0 /\ connections \in Nat
    BY <1>1, NumbersAre DEF IInv, TypeOK, LinkOK
  <1>3. NetOK' /\ WindowOK' /\ ExchangeOK' /\ PendingOK'
    BY <1>1 DEF IInv, NetOK, WindowOK, Open, ExchangeOK, Had, PendingOK
  <1>4. LinkOK' BY <1>1, <1>2 DEF LinkOK
  <1>5. CASE n \in QoS0
    <2>1. qos0Messages' = Append(qos0Messages, n) /\ qos12Messages' = qos12Messages BY <1>5 DEF Forward
    <2>2. \A m : Count(qos0Messages, {m})' = Count(qos0Messages, {m}) + (IF n = m THEN 1 ELSE 0)
      BY <1>2, <1>5, <2>1, CountAppend DEF TypeOK
    <2>3. qos0Messages' \in Seq(QoS0) BY <1>2, <1>5, <2>1, AppendProperties DEF TypeOK
    <2>4. TypeOK' BY <1>1, <1>2, <2>1, <2>3 DEF TypeOK
    <2>5. PlacesOK'
      BY <1>1, <1>5, <2>1, PacketsAre DEF IInv, PlacesOK, Had, Waiting, InHand, Under
    <2>6. ReadOK' BY <1>1, <2>1 DEF IInv, ReadOK, Waiting, OnWire
    <2>7. QoS0OK'
      <3> SUFFICES ASSUME NEW m \in QoS0
                   PROVE  OnceOnly(m)' <= 1 /\ (m \notin published' => OnceOnly(m)' = 0)
        BY DEF QoS0OK
      <3>1. OnceOnly(m) <= 1 /\ (m \notin published => OnceOnly(m) = 0) /\ OnceOnly(m) \in Nat
        BY <1>2, NumbersAre, PacketsAre DEF IInv, QoS0OK
      <3>2. OnceOnly(m)' = OnceOnly(m) + (IF n = m THEN 1 ELSE 0)
        <4>1. /\ Count(qos0Messages, {m}) \in Nat /\ Count(store.qos0, {m}) \in Nat
              /\ Count(wire, For(m)) \in Nat /\ received[m] \in Nat
          BY <1>2, CountsAre, NumbersAre, PacketsAre
        <4>2. /\ Count(store.qos0, {m})' = Count(store.qos0, {m}) /\ Count(wire, For(m))' = Count(wire, For(m))
              /\ received'[m] = received[m]
          BY <1>1
        <4>3. Count(qos0Messages, {m})' = Count(qos0Messages, {m}) + (IF n = m THEN 1 ELSE 0) BY <2>2
        <4>4. OnceOnly(m)' = Count(qos0Messages, {m})' + Count(store.qos0, {m})' + Count(wire, For(m))' + received'[m]
          BY DEF OnceOnly
        <4>5. OnceOnly(m) = Count(qos0Messages, {m}) + Count(store.qos0, {m}) + Count(wire, For(m)) + received[m]
          BY DEF OnceOnly
        <4> QED BY <4>1, <4>2, <4>3, <4>4, <4>5
      <3> QED BY <1>1, <3>1, <3>2
    <2> QED BY <1>3, <1>4, <2>4, <2>5, <2>6, <2>7 DEF IInv
  <1>6. CASE n \notin QoS0
    <2>1. /\ qos12Messages' = Append(qos12Messages, Publish(n, 0)) /\ qos0Messages' = qos0Messages
          /\ n \in QoS12
      BY <1>6 DEF Forward, Pub, QoS12
    <2>2. Publish(n, 0) \in Queued /\ Publish(n, 0).msg = n BY <2>1, Made
    <2>3. qos12Messages' \in Seq(Queued) BY <1>2, <2>1, <2>2, AppendProperties DEF TypeOK
    <2>4. TypeOK' BY <1>1, <1>2, <2>1, <2>3 DEF TypeOK
    <2>5. \A m : Count(qos12Messages, For(m))' = Count(qos12Messages, For(m)) + (IF n = m THEN 1 ELSE 0)
      <3> TAKE m
      <3>1. Publish(n, 0) \in For(m) <=> n = m BY <2>2, Sorted, PacketsAre
      <3> QED BY <1>2, <2>1, <2>2, <3>1, CountAppend DEF TypeOK, For
    <2>6. \A m : Waiting(m)' = Waiting(m) + (IF n = m THEN 1 ELSE 0)
      <3> TAKE m
      <3>1. /\ Count(qos12Messages, For(m)) \in Nat /\ Count(store.qos12, For(m)) \in Nat
            /\ Count(store.unAck, For(m)) \in Nat
        BY <1>2, CountsAre
      <3>2. /\ Count(store.qos12, For(m))' = Count(store.qos12, For(m))
            /\ Count(store.unAck, For(m))' = Count(store.unAck, For(m))
        BY <1>1
      <3> QED BY <2>5, <3>1, <3>2 DEF Waiting
    <2>7. PlacesOK'
      <3> SUFFICES ASSUME NEW m \in QoS12
                   PROVE  /\ m \in published' => Waiting(m)' + InHand(m)' <= 1
                          /\ m \in published' /\ Waiting(m)' + InHand(m)' = 0 => Had(m)'
                          /\ m \notin published' => Waiting(m)' + InHand(m)' = 0 /\ received'[m] = 0
        BY DEF PlacesOK
      <3>1. InHand(m)' = InHand(m) /\ (Had(m)' <=> Had(m)) /\ received'[m] = received[m]
        BY <1>1 DEF InHand, Under, Had
      <3>2. Waiting(m) \in Nat /\ InHand(m) \in Nat BY <1>2, CountsAre
      <3> QED BY <1>1, <2>6, <3>1, <3>2 DEF IInv, PlacesOK
    <2>8. ReadOK'
      <3>1. received[n] = 0 BY <1>1, <2>1 DEF IInv, PlacesOK
      <3>2. \A m \in QoS12 : Waiting(m)' > 0 => n = m \/ Waiting(m) > 0
        <4> TAKE m \in QoS12
        <4>1. Waiting(m) \in Nat BY <1>2, CountsAre
        <4> QED BY <2>6, <4>1
      <3> QED BY <1>1, <1>2, <3>1, <3>2 DEF IInv, ReadOK, OnWire
    <2>9. QoS0OK' BY <1>1, <1>6, <2>1 DEF IInv, QoS0OK, OnceOnly
    <2> QED BY <1>3, <1>4, <2>4, <2>7, <2>8, <2>9 DEF IInv
  <1> QED BY <1>5, <1>6

\* One that comes while the client is away enters the store.
LEMMA PersistInv == ASSUME IInv, NEW n \in Pub, PersistPublish(n) PROVE IInv'
  <1> USE DEF connVars, queueVars, flowVars, clientVars, netVars
  <1>1. /\ n \notin published /\ published' = published \cup {n} /\ connections > 0
        /\ UNCHANGED <<link, online, started, connections, quota, counter, inUse, pubOut, wire, acks,
                       qos0Messages, qos12Messages, pending, received, mistaken, panicked>>
    BY DEF PersistPublish
  <1>2. TypeOK /\ NetOK /\ connections \in Nat BY NumbersAre DEF IInv
  <1>3. WindowOK' /\ ExchangeOK' /\ PendingOK' /\ LinkOK'
    BY <1>1 DEF IInv, LinkOK, WindowOK, Open, ExchangeOK, Had, PendingOK
  <1>4. CASE n \in QoS0
    <2>1. /\ store'.qos0 = Append(store.qos0, n)
          /\ store'.qos12 = store.qos12 /\ store'.unAck = store.unAck
      BY <1>4 DEF PersistPublish
    <2>2. \A m : Count(store.qos0, {m})' = Count(store.qos0, {m}) + (IF n = m THEN 1 ELSE 0)
      BY <1>2, <1>4, <2>1, CountAppend DEF TypeOK
    <2>3. store'.qos0 \in Seq(QoS0) BY <1>2, <1>4, <2>1, AppendProperties DEF TypeOK
    <2>4. TypeOK' BY <1>1, <1>2, <2>1, <2>3 DEF TypeOK
    <2>5. PlacesOK'
      BY <1>1, <1>4, <2>1, PacketsAre DEF IInv, PlacesOK, Had, Waiting, InHand, Under
    <2>6. ReadOK' BY <1>1, <2>1 DEF IInv, ReadOK, Waiting, OnWire
    <2>7. QoS0OK'
      <3> SUFFICES ASSUME NEW m \in QoS0
                   PROVE  OnceOnly(m)' <= 1 /\ (m \notin published' => OnceOnly(m)' = 0)
        BY DEF QoS0OK
      <3>1. OnceOnly(m) <= 1 /\ (m \notin published => OnceOnly(m) = 0) /\ OnceOnly(m) \in Nat
        BY <1>2, NumbersAre, PacketsAre DEF IInv, QoS0OK
      <3>2. OnceOnly(m)' = OnceOnly(m) + (IF n = m THEN 1 ELSE 0)
        <4>1. /\ Count(qos0Messages, {m}) \in Nat /\ Count(store.qos0, {m}) \in Nat
              /\ Count(wire, For(m)) \in Nat /\ received[m] \in Nat
          BY <1>2, CountsAre, NumbersAre, PacketsAre
        <4>2. /\ Count(qos0Messages, {m})' = Count(qos0Messages, {m}) /\ Count(wire, For(m))' = Count(wire, For(m))
              /\ received'[m] = received[m]
          BY <1>1
        <4>3. Count(store.qos0, {m})' = Count(store.qos0, {m}) + (IF n = m THEN 1 ELSE 0) BY <2>2
        <4>4. OnceOnly(m)' = Count(qos0Messages, {m})' + Count(store.qos0, {m})' + Count(wire, For(m))' + received'[m]
          BY DEF OnceOnly
        <4>5. OnceOnly(m) = Count(qos0Messages, {m}) + Count(store.qos0, {m}) + Count(wire, For(m)) + received[m]
          BY DEF OnceOnly
        <4> QED BY <4>1, <4>2, <4>3, <4>4, <4>5
      <3> QED BY <1>1, <3>1, <3>2
    <2>8. NetOK' BY <1>1, <2>1 DEF IInv, NetOK
    <2> QED BY <1>3, <2>4, <2>5, <2>6, <2>7, <2>8 DEF IInv
  <1>5. CASE n \notin QoS0
    <2>1. /\ store'.qos12 = Append(store.qos12, Publish(n, 0))
          /\ store'.qos0 = store.qos0 /\ store'.unAck = store.unAck
          /\ n \in QoS12
      BY <1>5 DEF PersistPublish, Pub, QoS12
    <2>2. Publish(n, 0) \in Queued \cup {Nothing} /\ Publish(n, 0) \in Queued /\ Publish(n, 0).msg = n BY <2>1, Made
    <2>3. store'.qos12 \in Seq(Queued \cup {Nothing}) BY <1>2, <2>1, <2>2, AppendProperties DEF TypeOK
    <2>4. TypeOK' BY <1>1, <1>2, <2>1, <2>3 DEF TypeOK
    <2>5. \A m : Count(store.qos12, For(m))' = Count(store.qos12, For(m)) + (IF n = m THEN 1 ELSE 0)
      <3> TAKE m
      <3>1. Publish(n, 0) \in For(m) <=> n = m BY <2>2, Sorted, PacketsAre
      <3>2. store.qos12 \in Seq(Queued \cup {Nothing}) BY <1>2 DEF TypeOK
      <3>3. Count(Append(store.qos12, Publish(n, 0)), For(m))
              = Count(store.qos12, For(m)) + (IF Publish(n, 0) \in For(m) THEN 1 ELSE 0)
        BY <2>2, <3>2, CountAppend
      <3> QED BY <2>1, <3>1, <3>3
    <2>6. \A m : Waiting(m)' = Waiting(m) + (IF n = m THEN 1 ELSE 0)
      <3> TAKE m
      <3>1. /\ Count(qos12Messages, For(m)) \in Nat /\ Count(store.qos12, For(m)) \in Nat
            /\ Count(store.unAck, For(m)) \in Nat
        BY <1>2, CountsAre
      <3>2. /\ Count(qos12Messages, For(m))' = Count(qos12Messages, For(m))
            /\ Count(store.unAck, For(m))' = Count(store.unAck, For(m))
        BY <1>1, <2>1
      <3> QED BY <2>5, <3>1, <3>2 DEF Waiting
    <2>7. PlacesOK'
      <3> SUFFICES ASSUME NEW m \in QoS12
                   PROVE  /\ m \in published' => Waiting(m)' + InHand(m)' <= 1
                          /\ m \in published' /\ Waiting(m)' + InHand(m)' = 0 => Had(m)'
                          /\ m \notin published' => Waiting(m)' + InHand(m)' = 0 /\ received'[m] = 0
        BY DEF PlacesOK
      <3>1. InHand(m)' = InHand(m) /\ (Had(m)' <=> Had(m)) /\ received'[m] = received[m]
        BY <1>1 DEF InHand, Under, Had
      <3>2. Waiting(m) \in Nat /\ InHand(m) \in Nat BY <1>2, CountsAre
      <3> QED BY <1>1, <2>6, <3>1, <3>2 DEF IInv, PlacesOK
    <2>8. ReadOK'
      <3>1. received[n] = 0 BY <1>1, <2>1 DEF IInv, PlacesOK
      <3>2. \A m \in QoS12 : Waiting(m)' > 0 => n = m \/ Waiting(m) > 0
        <4> TAKE m \in QoS12
        <4>1. Waiting(m) \in Nat BY <1>2, CountsAre
        <4> QED BY <2>6, <4>1
      <3> QED BY <1>1, <1>2, <3>1, <3>2 DEF IInv, ReadOK, OnWire
    <2>9. QoS0OK' BY <1>1, <1>5, <2>1 DEF IInv, QoS0OK, OnceOnly
    <2>10. NetOK' BY <1>1, <2>1 DEF IInv, NetOK
    <2> QED BY <1>3, <2>4, <2>7, <2>8, <2>9, <2>10 DEF IInv
  <1> QED BY <1>4, <1>5

\* A new connection has a new window, and everything is still to come in it.
LEMMA ConnectInv == ASSUME IInv, Connect PROVE IInv'
  <1> USE DEF connVars, queueVars, flowVars, clientVars, netVars
  <1>1. /\ link = "off" /\ connections < MaxConnections /\ connections' = connections + 1
        /\ link' = "up" /\ online' = TRUE /\ started' = FALSE
        /\ quota' = Quota /\ counter' = 0 /\ inUse' = {}
        /\ UNCHANGED <<qos0Messages, qos12Messages, pubOut, store, wire, acks, pending, received, mistaken,
                       published, panicked>>
    BY DEF Connect
  <1>2. TypeOK /\ NetOK /\ connections \in Nat /\ \A m \in Pub : received[m] \in Nat BY NumbersAre DEF IInv
  <1>3. /\ wire = <<>> /\ acks = <<>> /\ pubOut = [i \in Id |-> None]
        /\ qos0Messages = <<>> /\ qos12Messages = <<>>
    BY <1>1 DEF IInv, LinkOK
  <1>4. TypeOK'
    <2>1. connections' \in 0 .. MaxConnections /\ quota' \in Int /\ quota' <= Quota /\ counter' \in 0 .. MaxId
      BY <1>1, <1>2, DeliveryAssumption DEF DeliveryAssumption
    <2> QED BY <1>1, <1>2, <2>1 DEF TypeOK
  <1>5. NetOK' /\ LinkOK' BY <1>1, <1>2 DEF NetOK, LinkOK
  <1>6. WindowOK'
    <2>1. Open' = {} BY <1>1, <1>3 DEF Open
    <2>2. Cardinality({}) = 0 BY FS_EmptySet
    <2> QED BY <1>1, <2>1, <2>2, DeliveryAssumption DEF WindowOK, DeliveryAssumption
  <1>7. ExchangeOK' BY <1>1 DEF IInv, ExchangeOK, Had
  <1>8. PlacesOK' BY <1>1 DEF IInv, PlacesOK, Had, Waiting, InHand, Under
  <1>9. ReadOK'
    <2>1. \A m \in Pub : received'[m] < connections' BY <1>1, <1>2 DEF IInv, ReadOK
    <2> QED BY <1>1, <1>2, <2>1, PacketsAre DEF ReadOK
  <1>10. QoS0OK' BY <1>1 DEF IInv, QoS0OK, OnceOnly
  <1>11. PendingOK'
    <2>1. ASSUME connections' <= 1, NEW i \in Id PROVE pending[i] = None
      <3>1. connections = 0 BY <1>1, <1>2, <2>1
      <3>2. pending[i] # None => pending[i] \in Pub /\ received[pending[i]] > 0
        BY <1>2, PacketsAre DEF IInv, PendingOK, TypeOK
      <3>3. \A m \in Pub : received[m] = 0 BY <1>2, <3>1 DEF IInv, ReadOK
      <3> QED BY <3>2, <3>3
    <2>2. mistaken' # {} => connections' > 1 BY <1>1, <1>2 DEF IInv, PendingOK
    <2> QED BY <1>1, <2>1, <2>2 DEF IInv, PendingOK
  <1> QED BY <1>4, <1>5, <1>6, <1>7, <1>8, <1>9, <1>10, <1>11 DEF IInv

\* SignalOffline moves nothing.
LEMMA OfflineInv == ASSUME IInv, Offline PROVE IInv'
  <1> USE DEF connVars, queueVars, flowVars, clientVars, netVars
  <1>1. /\ link = "up" /\ link' = "closing" /\ online' = FALSE
        /\ UNCHANGED <<started, connections, qos0Messages, qos12Messages, quota, counter, inUse, pubOut, store,
                       wire, acks, pending, received, mistaken, published, panicked>>
    BY DEF Offline
  <1>2. TypeOK' BY <1>1 DEF IInv, TypeOK
  <1>3. NetOK' /\ LinkOK' BY <1>1 DEF IInv, NetOK, LinkOK
  <1>4. WindowOK' BY <1>1 DEF IInv, WindowOK, Open
  <1>5. ExchangeOK' BY <1>1 DEF IInv, ExchangeOK, Had
  <1>6. PlacesOK' BY <1>1 DEF IInv, PlacesOK, Had, Waiting, InHand, Under
  <1>7. ReadOK' BY <1>1 DEF IInv, ReadOK, Waiting, OnWire
  <1>8. QoS0OK' BY <1>1 DEF IInv, QoS0OK, OnceOnly
  <1>9. PendingOK' BY <1>1 DEF IInv, PendingOK
  <1> QED BY <1>2, <1>3, <1>4, <1>5, <1>6, <1>7, <1>8, <1>9 DEF IInv

\* A panic moves nothing either.
LEMMA UnexpectedInv == ASSUME IInv, SendUnexpected PROVE IInv'
  <1> USE DEF connVars, queueVars, flowVars, clientVars, netVars
  <1>1. /\ panicked' = TRUE
        /\ UNCHANGED <<link, online, started, connections, qos0Messages, qos12Messages, quota, counter, inUse,
                       pubOut, store, wire, acks, pending, received, mistaken, published>>
    BY DEF SendUnexpected
  <1>2. TypeOK' BY <1>1 DEF IInv, TypeOK
  <1>3. NetOK' /\ LinkOK' BY <1>1 DEF IInv, NetOK, LinkOK
  <1>4. WindowOK' BY <1>1 DEF IInv, WindowOK, Open
  <1>5. ExchangeOK' BY <1>1 DEF IInv, ExchangeOK, Had
  <1>6. PlacesOK' BY <1>1 DEF IInv, PlacesOK, Had, Waiting, InHand, Under
  <1>7. ReadOK' BY <1>1 DEF IInv, ReadOK, Waiting, OnWire
  <1>8. QoS0OK' BY <1>1 DEF IInv, QoS0OK, OnceOnly
  <1>9. PendingOK' BY <1>1 DEF IInv, PendingOK
  <1> QED BY <1>2, <1>3, <1>4, <1>5, <1>6, <1>7, <1>8, <1>9 DEF IInv

\* A publish leaves the head of a queue for an id that nobody uses.
LEMMA SendQoS0Inv == ASSUME IInv, SendQoS0 PROVE IInv'
  <1> USE DEF connVars, queueVars, flowVars, clientVars, netVars
  <1> DEFINE n == Head(qos0Messages)
  <1>1. /\ link # "off" /\ qos0Messages # <<>>
        /\ wire' = Append(wire, Publish(n, 0)) /\ qos0Messages' = Tail(qos0Messages)
        /\ UNCHANGED <<link, online, started, connections, qos12Messages, quota, counter, inUse, pubOut, store,
                       acks, pending, received, mistaken, published, panicked>>
    BY DEF SendQoS0
  <1>2. TypeOK /\ NetOK BY DEF IInv
  <1>3. n \in QoS0 /\ n \notin QoS12 /\ qos0Messages' \in Seq(QoS0)
    BY <1>1, <1>2, HeadTailProperties, PacketsAre DEF TypeOK
  <1> HIDE DEF n
  <1>4. Publish(n, 0) \in ToClient /\ Publish(n, 0).type = "PUBLISH" /\ Publish(n, 0).msg = n /\ Publish(n, 0).id = 0
    BY <1>3, Made
  <1>5. /\ wire' \in Seq(ToClient) /\ Len(wire') = Len(wire) + 1 /\ Len(wire) \in Nat
        /\ \A k \in 1 .. Len(wire) : wire'[k] = wire[k]
        /\ wire'[Len(wire) + 1] = Publish(n, 0)
        /\ DOMAIN wire = 1 .. Len(wire) /\ DOMAIN wire' = 1 .. Len(wire) + 1
    BY <1>1, <1>2, <1>4, AppendProperties, LenProperties DEF NetOK
  <1>6. \A K : Count(wire', K) = Count(wire, K) + (IF Publish(n, 0) \in K THEN 1 ELSE 0)
    BY <1>1, <1>2, <1>4, CountAppend DEF NetOK
  <1>7. TypeOK' BY <1>1, <1>2, <1>3 DEF TypeOK
  <1>8. NetOK' BY <1>1, <1>2, <1>5 DEF NetOK
  <1>9. LinkOK' BY <1>1 DEF IInv, LinkOK
  <1>10. WindowOK' BY <1>1 DEF IInv, WindowOK, Open
  <1>11. \A k \in DOMAIN wire' : (k \in DOMAIN wire /\ wire'[k] = wire[k]) \/ wire'[k] = Publish(n, 0)
    BY <1>5
  <1>12. ExchangeOK'
    <2>1. ASSUME NEW i \in Id PROVE Count(wire', With(i)) = Count(wire, With(i))
      <3>1. Publish(n, 0) \notin With(i) BY <1>4, PacketsAre DEF With
      <3>2. Count(wire, With(i)) \in Nat BY <1>2, CountsAre
      <3> QED BY <1>6, <3>1, <3>2
    <2>2. \A k \in DOMAIN wire' : /\ wire'[k].type = "PUBREL" => pubOut[wire'[k].id] = Pubrel
                                  /\ wire'[k].msg \in QoS12 => pubOut[wire'[k].id] = wire'[k].msg
      BY <1>3, <1>4, <1>11 DEF IInv, ExchangeOK
    <2> QED BY <1>1, <2>1, <2>2 DEF IInv, ExchangeOK, Had
  <1>13. PlacesOK' BY <1>1 DEF IInv, PlacesOK, Had, Waiting, InHand, Under
  <1>14. ReadOK'
    <2>1. \A m \in QoS12 : OnWire(m)' => OnWire(m) BY <1>3, <1>4, <1>11 DEF OnWire
    <2>2. \A m : Waiting(m)' = Waiting(m) BY <1>1 DEF Waiting
    <2> QED BY <1>1, <2>1, <2>2 DEF IInv, ReadOK
  <1>15. QoS0OK'
    <2> SUFFICES ASSUME NEW m \in QoS0 PROVE OnceOnly(m)' = OnceOnly(m)
      BY <1>1 DEF IInv, QoS0OK
    <2>1. Count(qos0Messages, {m}) = Count(qos0Messages', {m}) + (IF n \in {m} THEN 1 ELSE 0)
      BY <1>1, <1>2, CountTail DEF TypeOK, n
    <2>2. Count(wire', For(m)) = Count(wire, For(m)) + (IF n = m THEN 1 ELSE 0)
      <3>1. Publish(n, 0) \in For(m) <=> n = m BY <1>4, PacketsAre DEF For
      <3> QED BY <1>6, <3>1
    <2>3. /\ Count(qos0Messages, {m}) \in Nat /\ Count(store.qos0, {m}) \in Nat
          /\ Count(wire, For(m)) \in Nat /\ received[m] \in Nat /\ Count(qos0Messages', {m}) \in Nat
      BY <1>2, <1>3, CountsAre, CountIs, NumbersAre, PacketsAre
    <2>4. OnceOnly(m)' = Count(qos0Messages', {m}) + Count(store.qos0, {m}) + Count(wire', For(m)) + received[m]
      BY <1>1 DEF OnceOnly
    <2>5. OnceOnly(m) = Count(qos0Messages, {m}) + Count(store.qos0, {m}) + Count(wire, For(m)) + received[m]
      BY DEF OnceOnly
    <2> QED BY <2>1, <2>2, <2>3, <2>4, <2>5
  <1>16. PendingOK'
    <2>1. ASSUME NEW k \in DOMAIN wire PROVE k \in DOMAIN wire' /\ wire'[k] = wire[k] BY <1>5
    <2> QED BY <1>1, <2>1 DEF IInv, PendingOK
  <1> QED BY <1>7, <1>8, <1>9, <1>10, <1>12, <1>13, <1>14, <1>15, <1>16 DEF IInv

\* Nothing is on its way about an id that the ack queue has nothing under.
LEMMA IdleId ==
  ASSUME IInv, NEW i \in Id, pubOut[i] = None
  PROVE  /\ \A k \in DOMAIN wire : wire[k].id # i
         /\ \A k \in DOMAIN acks : acks[k].id # i
         /\ Count(wire, With(i)) = 0 /\ Count(acks, With(i)) = 0
  <1>1. TypeOK /\ NetOK BY DEF IInv
  <1>2. /\ \A k \in DOMAIN wire : wire[k] \in ToClient /\ wire[k] \in Packets
        /\ \A k \in DOMAIN acks : acks[k] \in ToBroker /\ acks[k] \in Packets
    BY <1>1, ElementOfSeq, LenProperties, PacketsAre DEF NetOK
  <1>3. ASSUME NEW k \in DOMAIN wire PROVE wire[k].id # i
    <2>1. /\ wire[k].type = "PUBREL" => pubOut[wire[k].id] = Pubrel
          /\ wire[k].msg \in QoS12 => pubOut[wire[k].id] = wire[k].msg
      BY DEF IInv, ExchangeOK
    <2> QED BY <1>2, <2>1, Fields, PacketsAre
  <1>4. ASSUME NEW k \in DOMAIN acks PROVE acks[k].id # i
    <2>1. /\ acks[k].type = "PUBACK" => pubOut[acks[k].id] \in QoS1
          /\ acks[k].type = "PUBREC" => pubOut[acks[k].id] \in QoS2
          /\ acks[k].type = "PUBCOMP" => pubOut[acks[k].id] = Pubrel
      BY DEF IInv, ExchangeOK
    <2> QED BY <1>2, <2>1, Fields, PacketsAre
  <1>5. wire \in Seq(Packets) /\ acks \in Seq(Packets) BY <1>1, Sequences
  <1>6. /\ \A k \in DOMAIN wire : wire[k] \notin With(i)
        /\ \A k \in DOMAIN acks : acks[k] \notin With(i)
    BY <1>3, <1>4 DEF With
  <1> QED BY <1>3, <1>4, <1>5, <1>6, CountIs

\* A QoS 1 or 2 publish goes from the queue to the ack queue and the wire.
LEMMA SendQoS12Inv == ASSUME IInv, SendQoS12 PROVE IInv'
  <1> USE DEF connVars, queueVars, flowVars, clientVars, netVars
  <1> DEFINE n == Head(qos12Messages).msg
  <1>1. PICK j \in Id \ inUse :
          /\ link # "off" /\ quota > 0 /\ qos12Messages # <<>> /\ Head(qos12Messages).type = "PUBLISH"
          /\ counter' = j /\ inUse' = inUse \cup {j} /\ pubOut' = [pubOut EXCEPT ![j] = n]
          /\ wire' = Append(wire, Publish(n, j))
          /\ quota' = quota - 1 /\ qos12Messages' = Tail(qos12Messages)
          /\ UNCHANGED <<link, online, started, connections, qos0Messages, store, acks,
                         pending, received, mistaken, published, panicked>>
    BY DEF SendQoS12, quotaAvailable
  <1>2. TypeOK /\ NetOK /\ quota \in Int /\ connections \in Nat BY NumbersAre DEF IInv
  <1>3. /\ Head(qos12Messages) \in Queued /\ qos12Messages' \in Seq(Queued)
        /\ n \in QoS12 /\ n \in Pub /\ n \notin QoS0
    <2>1. Head(qos12Messages) \in Queued /\ qos12Messages' \in Seq(Queued)
      BY <1>1, <1>2, HeadTailProperties DEF TypeOK
    <2> QED BY <1>1, <2>1, Fields, PacketsAre
  <1> HIDE DEF n
  <1>4. /\ Publish(n, j) \in ToClient /\ Publish(n, j).type = "PUBLISH" /\ Publish(n, j).msg = n
        /\ Publish(n, j).id = j /\ Publish(n, j) \in Packets
    BY <1>3, Made, PacketsAre
  <1>5. /\ wire' \in Seq(ToClient) /\ Len(wire') = Len(wire) + 1 /\ Len(wire) \in Nat
        /\ \A k \in 1 .. Len(wire) : wire'[k] = wire[k]
        /\ wire'[Len(wire) + 1] = Publish(n, j)
        /\ DOMAIN wire = 1 .. Len(wire) /\ DOMAIN wire' = 1 .. Len(wire) + 1
    BY <1>1, <1>2, <1>4, AppendProperties, LenProperties DEF NetOK
  <1>6. \A K : Count(wire', K) = Count(wire, K) + (IF Publish(n, j) \in K THEN 1 ELSE 0)
    BY <1>1, <1>2, <1>4, CountAppend DEF NetOK
  <1>7. /\ pubOut \in [Id -> QoS1 \cup QoS2 \cup {Pubrel, None}] /\ pubOut[j] = None
        /\ pubOut' \in [Id -> QoS1 \cup QoS2 \cup {Pubrel, None}] /\ pubOut'[j] = n
        /\ \A i \in Id : i # j => pubOut'[i] = pubOut[i]
    <2>1. pubOut[j] = None BY DEF IInv, WindowOK, Open
    <2> QED BY <1>1, <1>2, <1>3, <2>1 DEF TypeOK, QoS12
  <1>8. /\ \A k \in DOMAIN wire : wire[k].id # j
        /\ \A k \in DOMAIN acks : acks[k].id # j
        /\ Count(wire, With(j)) = 0 /\ Count(acks, With(j)) = 0
    BY <1>7, IdleId
  <1>9. TypeOK'
    <2>1. counter' \in 0 .. MaxId /\ quota' \in Int /\ quota' <= Quota /\ inUse' \subseteq Id
      BY <1>1, <1>2, DeliveryAssumption DEF TypeOK, Id, DeliveryAssumption
    <2> QED BY <1>1, <1>2, <1>3, <1>7, <2>1 DEF TypeOK
  <1>10. NetOK' BY <1>1, <1>2, <1>5 DEF NetOK
  <1>11. LinkOK' BY <1>1 DEF IInv, LinkOK
  <1>12. WindowOK'
    <2>1. Open' = Open \cup {j} /\ j \notin Open BY <1>3, <1>7, PacketsAre DEF Open
    <2>2. IsFiniteSet(Open) /\ Cardinality(Open) \in Nat BY <1>2, NumbersAre
    <2>3. Cardinality(Open') = Cardinality(Open) + 1 BY <2>1, <2>2, FS_AddElement
    <2>4. quota + Cardinality(Open) <= Quota /\ Open \subseteq inUse /\ Quota \in Int
      BY DeliveryAssumption DEF IInv, WindowOK, DeliveryAssumption
    <2>5. quota' + Cardinality(Open') <= Quota /\ Cardinality(Open') <= Quota
      BY <1>1, <1>2, <2>2, <2>3, <2>4
    <2> QED BY <1>1, <2>1, <2>4, <2>5 DEF WindowOK
  <1>13. \A k \in DOMAIN wire' : (k \in DOMAIN wire /\ wire'[k] = wire[k]) \/ wire'[k] = Publish(n, j)
    BY <1>5
  <1>14. /\ \A k \in DOMAIN wire : wire[k] \in ToClient
         /\ \A k \in DOMAIN acks : acks[k] \in ToBroker
    BY <1>2, ElementOfSeq, LenProperties DEF NetOK
  <1>15. ExchangeOK'
    <2>1. ASSUME NEW k \in DOMAIN wire'
          PROVE  /\ wire'[k].type = "PUBREL" => pubOut'[wire'[k].id] = Pubrel
                 /\ wire'[k].msg \in QoS12 => pubOut'[wire'[k].id] = wire'[k].msg
      <3>1. CASE wire'[k] = Publish(n, j) BY <1>4, <1>7, <3>1
      <3>2. CASE k \in DOMAIN wire /\ wire'[k] = wire[k]
        <4>1. wire[k].type = "PUBREL" \/ wire[k].msg \in QoS12 => wire[k].id \in Id \ {j}
          BY <1>8, <1>14, <3>2, Fields, PacketsAre
        <4>2. wire[k].type = "PUBREL" => pubOut[wire[k].id] = Pubrel BY <3>2 DEF IInv, ExchangeOK
        <4>3. wire[k].msg \in QoS12 => pubOut[wire[k].id] = wire[k].msg BY <3>2 DEF IInv, ExchangeOK
        <4> QED BY <1>7, <3>2, <4>1, <4>2, <4>3
      <3> QED BY <1>13, <3>1, <3>2
    <2>2. ASSUME NEW k \in DOMAIN acks PROVE pubOut'[acks[k].id] = pubOut[acks[k].id]
      BY <1>7, <1>8, <1>14, Fields
    <2>3. ASSUME NEW i \in Id PROVE Count(wire', With(i)) + Count(acks, With(i)) <= 1
      <3>1. CASE i = j
        <4>1. Count(wire', With(j)) = Count(wire, With(j)) + (IF Publish(n, j) \in With(j) THEN 1 ELSE 0)
          BY <1>6
        <4>2. Count(wire', With(j)) + Count(acks, With(j)) <= 1 BY <1>8, <4>1
        <4> QED BY <3>1, <4>2
      <3>2. CASE i # j
        <4>1. Publish(n, j) \notin With(i) BY <1>4, <3>2 DEF With
        <4>2. Count(wire, With(i)) \in Nat BY <1>2, CountsAre
        <4>3. Count(wire', With(i)) = Count(wire, With(i)) BY <1>6, <4>1, <4>2
        <4> QED BY <4>3 DEF IInv, ExchangeOK
      <3> QED BY <3>1, <3>2
    <2>4. \A k \in DOMAIN acks :
            /\ acks[k].type = "PUBACK" => pubOut'[acks[k].id] \in QoS1 /\ received[pubOut'[acks[k].id]] > 0
            /\ acks[k].type = "PUBREC" => pubOut'[acks[k].id] \in QoS2 /\ Had(pubOut'[acks[k].id])
            /\ acks[k].type = "PUBCOMP" => pubOut'[acks[k].id] = Pubrel
      BY <2>2 DEF IInv, ExchangeOK
    <2> QED BY <1>1, <2>1, <2>3, <2>4 DEF ExchangeOK, Had
  <1>16. \A m \in QoS12 : Waiting(m)' \in Nat /\ Waiting(m) = Waiting(m)' + (IF n = m THEN 1 ELSE 0)
    <2> TAKE m \in QoS12
    <2>1. Count(qos12Messages, For(m)) = Count(qos12Messages', For(m)) + (IF n = m THEN 1 ELSE 0)
      <3>1. Head(qos12Messages) \in For(m) <=> n = m BY <1>3, PacketsAre, Sorted DEF n
      <3> QED BY <1>1, <1>2, <3>1, CountTail DEF TypeOK
    <2>2. /\ Count(qos12Messages', For(m)) \in Nat /\ Count(store.qos12, For(m)) \in Nat
          /\ Count(store.unAck, For(m)) \in Nat
      BY <1>2, <1>3, CountsAre, CountIs
    <2>3. Waiting(m)' = Count(qos12Messages', For(m)) + Count(store.qos12, For(m)) + Count(store.unAck, For(m))
      BY <1>1 DEF Waiting
    <2> QED BY <2>1, <2>2, <2>3 DEF Waiting
  <1>17. \A m \in QoS12 : InHand(m)' = InHand(m) + (IF n = m THEN 1 ELSE 0)
    <2> TAKE m \in QoS12
    <2>1. IsFiniteSet(Under(m)) /\ InHand(m) \in Nat BY <1>2, CountsAre
    <2>2. CASE n = m
      <3>1. Under(m)' = Under(m) \cup {j} /\ j \notin Under(m) BY <1>3, <1>7, <2>2, PacketsAre DEF Under
      <3>2. Cardinality(Under(m)') = Cardinality(Under(m)) + 1 BY <2>1, <3>1, FS_AddElement
      <3> QED BY <2>2, <3>2 DEF InHand
    <2>3. CASE n # m
      <3>1. Under(m)' = Under(m) BY <1>3, <1>7, <2>3, PacketsAre DEF Under
      <3> QED BY <2>1, <2>3, <3>1 DEF InHand
    <2> QED BY <2>2, <2>3
  <1>18. PlacesOK'
    <2> SUFFICES ASSUME NEW m \in QoS12
                 PROVE  /\ Waiting(m)' + InHand(m)' = Waiting(m) + InHand(m)
                        /\ (Had(m)' <=> Had(m)) /\ received'[m] = received[m]
      BY <1>1 DEF IInv, PlacesOK
    <2>1. Waiting(m) \in Nat /\ InHand(m) \in Nat BY <1>2, CountsAre
    <2>2. (Had(m)' <=> Had(m)) /\ received'[m] = received[m] BY <1>1 DEF Had
    <2> QED BY <1>16, <1>17, <2>1, <2>2
  <1>19. ReadOK'
    <2> SUFFICES ASSUME NEW m \in QoS12, Waiting(m)' > 0 \/ OnWire(m)' PROVE Waiting(m) > 0 \/ OnWire(m)
      BY <1>1 DEF IInv, ReadOK
    <2>1. Waiting(m) \in Nat BY <1>2, CountsAre
    <2>2. CASE n = m
      <3>1. Waiting(m) # 0
        <4>1. 1 \in DOMAIN qos12Messages /\ qos12Messages[1] \in For(m)
          <5>1. qos12Messages \in Seq(Queued) BY <1>2 DEF TypeOK
          <5>2. 1 \in DOMAIN qos12Messages /\ qos12Messages[1] = Head(qos12Messages)
            BY <1>1, <5>1, EmptySeq, LenProperties
          <5> QED BY <1>3, <2>2, <5>2, PacketsAre, Sorted DEF n
        <4>2. Count(qos12Messages, For(m)) # 0 BY <1>2, <4>1, Sequences, CountIs
        <4>3. /\ Count(qos12Messages, For(m)) \in Nat /\ Count(store.qos12, For(m)) \in Nat
              /\ Count(store.unAck, For(m)) \in Nat
          BY <1>2, CountsAre
        <4> QED BY <4>2, <4>3 DEF Waiting
      <3> QED BY <2>1, <3>1
    <2>3. CASE n # m
      <3>1. ASSUME OnWire(m)' PROVE OnWire(m)
        <4>1. PICK k \in DOMAIN wire' : wire'[k].msg = m BY <3>1 DEF OnWire
        <4>2. k \in DOMAIN wire /\ wire'[k] = wire[k] BY <1>4, <1>13, <2>3, <4>1
        <4> QED BY <4>1, <4>2 DEF OnWire
      <3>2. Waiting(m)' > 0 => Waiting(m) > 0 BY <1>16, <2>1, <2>3
      <3> QED BY <3>1, <3>2
    <2> QED BY <2>2, <2>3
  <1>20. QoS0OK'
    <2> SUFFICES ASSUME NEW m \in QoS0 PROVE OnceOnly(m)' = OnceOnly(m)
      BY <1>1 DEF IInv, QoS0OK
    <2>1. Publish(n, j) \notin For(m) BY <1>3, <1>4 DEF For
    <2>2. Count(wire, For(m)) \in Nat BY <1>2, CountsAre
    <2>3. Count(wire', For(m)) = Count(wire, For(m)) BY <1>6, <2>1, <2>2
    <2> QED BY <1>1, <2>3 DEF OnceOnly
  <1>21. PendingOK'
    <2>1. ASSUME NEW k \in DOMAIN wire PROVE k \in DOMAIN wire' /\ wire'[k] = wire[k] BY <1>5
    <2> QED BY <1>1, <2>1 DEF IInv, PendingOK
  <1> QED BY <1>9, <1>10, <1>11, <1>12, <1>15, <1>18, <1>19, <1>20, <1>21 DEF IInv

\* What is at the head is all that is on its way about its id.
LEMMA OneAck ==
  ASSUME IInv, acks # <<>>
  PROVE  /\ Head(acks) \in ToBroker /\ Head(acks).id \in Id
         /\ Head(acks).type = "PUBACK" =>
              pubOut[Head(acks).id] \in QoS1 /\ received[pubOut[Head(acks).id]] > 0
         /\ Head(acks).type = "PUBREC" => pubOut[Head(acks).id] \in QoS2 /\ Had(pubOut[Head(acks).id])
         /\ Head(acks).type = "PUBCOMP" => pubOut[Head(acks).id] = Pubrel
         /\ \A k \in DOMAIN wire : wire[k].id # Head(acks).id
         /\ Tail(acks) \in Seq(ToBroker)
         /\ \A k \in DOMAIN Tail(acks) :
              /\ k + 1 \in DOMAIN acks /\ Tail(acks)[k] = acks[k + 1] /\ Tail(acks)[k] \in ToBroker
              /\ Tail(acks)[k].id # Head(acks).id
         /\ \A k \in DOMAIN acks : k = 1 \/ (k - 1 \in DOMAIN Tail(acks) /\ Tail(acks)[k - 1] = acks[k])
         /\ \A i \in Id : Count(acks, With(i)) = Count(Tail(acks), With(i)) + (IF i = Head(acks).id THEN 1 ELSE 0)
         /\ \A i \in Id : Count(Tail(acks), With(i)) \in Nat
         /\ link # "off"
  <1> DEFINE a == Head(acks)
             t == Tail(acks)
  <1>1. TypeOK /\ NetOK BY DEF IInv
  <1>2. acks \in Seq(ToBroker) BY <1>1 DEF NetOK
  <1>3. /\ a \in ToBroker /\ a.id \in Id /\ t \in Seq(ToBroker)
        /\ Len(t) = Len(acks) - 1 /\ Len(acks) \in Nat \ {0} /\ DOMAIN acks = 1 .. Len(acks) /\ DOMAIN t = 1 .. Len(t)
        /\ \A k \in 1 .. Len(t) : t[k] = acks[k + 1]
        /\ a = acks[1]
    BY <1>2, HeadTailProperties, LenProperties, EmptySeq, Fields
  <1>4. /\ a.type = "PUBACK" => pubOut[a.id] \in QoS1 /\ received[pubOut[a.id]] > 0
        /\ a.type = "PUBREC" => pubOut[a.id] \in QoS2 /\ Had(pubOut[a.id])
        /\ a.type = "PUBCOMP" => pubOut[a.id] = Pubrel
    <2>1. 1 \in DOMAIN acks BY <1>3
    <2> QED BY <1>3, <2>1 DEF IInv, ExchangeOK
  <1>5. \A K : Count(acks, K) = Count(t, K) + (IF a \in K THEN 1 ELSE 0) BY <1>2, CountTail
  <1>6. \A K : Count(t, K) \in Nat BY <1>3, CountIs
  <1>7. /\ wire \in Seq(Packets) /\ t \in Seq(Packets) /\ a \in Packets
        /\ \A k \in DOMAIN wire : wire[k] \in Packets
        /\ \A k \in DOMAIN t : t[k] \in ToBroker /\ t[k] \in Packets
    BY <1>1, <1>3, Sequences, PacketsAre, SeqMonotonic, ElementOfSeq, LenProperties
  <1>8. Count(wire, With(a.id)) = 0 /\ Count(t, With(a.id)) = 0
    <2>1. a \in With(a.id) BY <1>7, Sorted
    <2>2. Count(acks, With(a.id)) = Count(t, With(a.id)) + 1 BY <1>5, <2>1
    <2>3. Count(wire, With(a.id)) \in Nat /\ Count(t, With(a.id)) \in Nat BY <1>1, <1>6, CountsAre
    <2>4. Count(wire, With(a.id)) + Count(acks, With(a.id)) <= 1 BY <1>3 DEF IInv, ExchangeOK
    <2> QED BY <2>2, <2>3, <2>4
  <1>9. \A k \in DOMAIN wire : wire[k].id # a.id BY <1>7, <1>8, CountIs, Sorted
  <1>10. \A k \in DOMAIN t : t[k].id # a.id
    <2> HIDE DEF t
    <2>1. \A k \in DOMAIN t : t[k] \notin With(a.id) BY <1>7, <1>8, CountIs
    <2> QED BY <1>7, <2>1, Sorted
  <1>11. \A i \in Id : Count(acks, With(i)) = Count(t, With(i)) + (IF i = a.id THEN 1 ELSE 0)
    <2> TAKE i \in Id
    <2>1. a \in With(i) <=> i = a.id BY <1>7, Sorted
    <2> QED BY <1>5, <2>1
  <1>12. link # "off" BY DEF IInv, LinkOK
  <1>13. \A k \in DOMAIN t : k + 1 \in DOMAIN acks /\ t[k] = acks[k + 1] BY <1>3
  <1>14. \A k \in DOMAIN acks : k = 1 \/ (k - 1 \in DOMAIN t /\ t[k - 1] = acks[k])
    <2> TAKE k \in DOMAIN acks
    <2>1. CASE k # 1
      <3>1. k - 1 \in 1 .. Len(t) /\ (k - 1) + 1 = k BY <1>3, <2>1
      <3> QED BY <1>3, <3>1
    <2> QED BY <2>1
  <1> HIDE DEF t
  <1>15. \A k \in DOMAIN t : t[k] \in ToBroker BY <1>7
  <1> QED BY <1>3, <1>4, <1>6, <1>9, <1>10, <1>11, <1>12, <1>13, <1>14, <1>15 DEF t

\* One acknowledgement less, and something else in the ack queue under its id.
LEMMA AckedExchange ==
  ASSUME IInv, acks # <<>>, acks' = Tail(acks), UNCHANGED <<wire, received, mistaken>>,
         \A i \in Id : i # Head(acks).id => pubOut'[i] = pubOut[i]
  PROVE  ExchangeOK'
  <1> DEFINE i == Head(acks).id
  <1>1. TypeOK /\ NetOK BY DEF IInv
  <1>2. \A k \in DOMAIN wire : wire[k] \in ToClient BY <1>1, ElementOfSeq, LenProperties DEF NetOK
  <1>3. ASSUME NEW k \in DOMAIN wire
        PROVE  /\ wire[k].type = "PUBREL" => pubOut'[wire[k].id] = Pubrel
               /\ wire[k].msg \in QoS12 => pubOut'[wire[k].id] = wire[k].msg
    <2>1. /\ wire[k].type = "PUBREL" => pubOut[wire[k].id] = Pubrel
          /\ wire[k].msg \in QoS12 => pubOut[wire[k].id] = wire[k].msg
      BY DEF IInv, ExchangeOK
    <2>2. wire[k].type = "PUBREL" \/ wire[k].msg \in QoS12 => wire[k].id \in Id
      BY <1>2, Fields, PacketsAre
    <2>3. wire[k].id # i BY OneAck
    <2> QED BY <2>1, <2>2, <2>3
  <1>4. ASSUME NEW k \in DOMAIN acks'
        PROVE  LET p == acks'[k] IN
               /\ p.type = "PUBACK" => pubOut'[p.id] \in QoS1 /\ received[pubOut'[p.id]] > 0
               /\ p.type = "PUBREC" => pubOut'[p.id] \in QoS2 /\ Had(pubOut'[p.id])
               /\ p.type = "PUBCOMP" => pubOut'[p.id] = Pubrel
    <2>1. k + 1 \in DOMAIN acks /\ acks'[k] = acks[k + 1] /\ acks'[k] \in ToBroker /\ acks'[k].id # i
      BY OneAck
    <2>2. acks'[k].id \in Id BY <2>1, Fields
    <2>3. pubOut'[acks'[k].id] = pubOut[acks'[k].id] BY <2>1, <2>2
    <2>4. LET p == acks[k + 1] IN
          /\ p.type = "PUBACK" => pubOut[p.id] \in QoS1 /\ received[pubOut[p.id]] > 0
          /\ p.type = "PUBREC" => pubOut[p.id] \in QoS2 /\ Had(pubOut[p.id])
          /\ p.type = "PUBCOMP" => pubOut[p.id] = Pubrel
      BY <2>1 DEF IInv, ExchangeOK
    <2> QED BY <2>1, <2>3, <2>4
  <1>5. ASSUME NEW j \in Id PROVE Count(wire, With(j)) + Count(acks', With(j)) <= 1
    <2>1. Count(acks, With(j)) = Count(acks', With(j)) + (IF j = i THEN 1 ELSE 0) /\ Count(acks', With(j)) \in Nat
      BY OneAck
    <2>2. Count(wire, With(j)) + Count(acks, With(j)) <= 1 /\ Count(wire, With(j)) \in Nat
      BY <1>1, CountsAre DEF IInv, ExchangeOK
    <2> QED BY <2>1, <2>2
  <1> QED BY <1>3, <1>4, <1>5 DEF ExchangeOK, Had

\* PUBACK and PUBCOMP: the client has had what leaves the ack queue.
LEMMA AcknowledgedInv == ASSUME IInv, Acknowledged PROVE IInv'
  <1> USE DEF connVars, queueVars, flowVars, clientVars, netVars
  <1> DEFINE i == Head(acks).id
  <1>1. /\ link = "up" /\ acks # <<>> /\ Head(acks).type # "PUBREC" /\ acks' = Tail(acks)
        /\ UNCHANGED <<link, online, started, connections, qos0Messages, qos12Messages, counter, store, wire,
                       pending, received, mistaken, published, panicked>>
    BY DEF Acknowledged
  <1>2. TypeOK /\ NetOK /\ quota \in Int BY NumbersAre DEF IInv
  <1>3. /\ i \in Id /\ acks' \in Seq(ToBroker) /\ pubOut[i] # None
        /\ \/ pubOut[i] = Pubrel
           \/ pubOut[i] \in QoS1 /\ received[pubOut[i]] > 0
    <2>1. Head(acks).type \in {"PUBACK", "PUBCOMP"} BY <1>1, OneAck, Fields
    <2> QED BY <1>1, <2>1, OneAck, PacketsAre
  <1>4. pubOut' = [pubOut EXCEPT ![i] = None] /\ inUse' = inUse \ {i} /\ quota' = quota + 1
    BY <1>3 DEF Acknowledged, Raised
  <1> HIDE DEF i
  <1>5. /\ pubOut \in [Id -> QoS1 \cup QoS2 \cup {Pubrel, None}]
        /\ pubOut' \in [Id -> QoS1 \cup QoS2 \cup {Pubrel, None}] /\ pubOut'[i] = None
        /\ \A j \in Id : j # i => pubOut'[j] = pubOut[j]
    BY <1>2, <1>3, <1>4 DEF TypeOK
  <1>6. Open' = Open \ {i} /\ i \in Open BY <1>3, <1>5 DEF Open
  <1>7. IsFiniteSet(Open) /\ Cardinality(Open) \in Nat BY <1>2, NumbersAre
  <1>8. Cardinality(Open') = Cardinality(Open) - 1 BY <1>6, <1>7, FS_RemoveElement
  <1>9. quota + Cardinality(Open) <= Quota /\ Cardinality(Open) <= Quota /\ Open \subseteq inUse /\ Quota \in Int
    BY DeliveryAssumption DEF IInv, WindowOK, DeliveryAssumption
  <1>10. WindowOK'
    <2>1. quota' + Cardinality(Open') <= Quota /\ Cardinality(Open') <= Quota
      BY <1>2, <1>4, <1>7, <1>8, <1>9
    <2> QED BY <1>4, <1>6, <1>9, <2>1 DEF WindowOK
  <1>11. TypeOK'
    <2>1. Cardinality(Open) >= 1
      <3>1. Open # {} BY <1>6
      <3>2. Cardinality(Open) # 0 BY <1>7, <3>1, FS_EmptySet
      <3> QED BY <1>7, <3>2
    <2>2. quota' \in Int /\ quota' <= Quota /\ inUse' \subseteq Id
      BY <1>2, <1>4, <1>7, <1>9, <2>1 DEF TypeOK
    <2> QED BY <1>1, <1>2, <1>5, <2>2 DEF TypeOK
  <1>12. NetOK' BY <1>1, <1>2, <1>3 DEF NetOK
  <1>13. LinkOK' BY <1>1 DEF IInv, LinkOK
  <1>14. ExchangeOK' BY <1>1, <1>5, AckedExchange DEF i
  <1>15. PlacesOK'
    <2> SUFFICES ASSUME NEW m \in QoS12
                 PROVE  /\ m \in published => Waiting(m) + InHand(m)' <= 1
                        /\ m \in published /\ Waiting(m) + InHand(m)' = 0 => Had(m)
                        /\ m \notin published => Waiting(m) + InHand(m)' = 0 /\ received[m] = 0
      BY <1>1 DEF PlacesOK, Waiting, Had
    <2>1. Waiting(m) \in Nat /\ InHand(m) \in Nat /\ IsFiniteSet(Under(m)) BY <1>2, CountsAre
    <2>2. CASE pubOut[i] = m
      <3>1. Under(m)' = Under(m) \ {i} /\ i \in Under(m) BY <1>3, <1>5, <2>2 DEF Under
      <3>2. InHand(m)' = InHand(m) - 1 BY <2>1, <3>1, FS_RemoveElement DEF InHand
      <3>3. Under(m) # {} BY <3>1
      <3>4. InHand(m) # 0 BY <2>1, <3>3, FS_EmptySet DEF InHand
      <3>5. Had(m) BY <1>3, <2>2, PacketsAre DEF Had
      <3> QED BY <2>1, <3>2, <3>4, <3>5 DEF IInv, PlacesOK
    <2>3. CASE pubOut[i] # m
      <3>1. Under(m)' = Under(m) BY <1>5, <2>3, PacketsAre DEF Under
      <3>2. InHand(m)' = InHand(m) BY <3>1 DEF InHand
      <3> QED BY <3>2 DEF IInv, PlacesOK
    <2> QED BY <2>2, <2>3
  <1>16. ReadOK' BY <1>1 DEF IInv, ReadOK, Waiting, OnWire
  <1>17. QoS0OK' BY <1>1 DEF IInv, QoS0OK, OnceOnly
  <1>18. PendingOK'
    <2>1. \A k \in DOMAIN acks : acks[k].type = "PUBREC" => k - 1 \in DOMAIN acks' /\ acks'[k - 1] = acks[k]
      <3> SUFFICES ASSUME NEW k \in DOMAIN acks, acks[k].type = "PUBREC"
                   PROVE  k - 1 \in DOMAIN acks' /\ acks'[k - 1] = acks[k]
        OBVIOUS
      <3>1. acks[1] = Head(acks) OBVIOUS
      <3>2. k # 1 BY <1>1, <3>1
      <3> QED BY <1>1, <3>2, OneAck
    <2> QED BY <1>1, <2>1 DEF IInv, PendingOK
  <1> QED BY <1>10, <1>11, <1>12, <1>13, <1>14, <1>15, <1>16, <1>17, <1>18 DEF IInv

\* PUBREC: the client has had the publish, or takes it for one that it has had.
LEMMA PubrecInv == ASSUME IInv, Pubrec PROVE IInv'
  <1> USE DEF connVars, queueVars, flowVars, clientVars, netVars
  <1> DEFINE i == Head(acks).id
  <1>1. /\ link = "up" /\ acks # <<>> /\ Head(acks).type = "PUBREC" /\ acks' = Tail(acks)
        /\ pubOut' = [pubOut EXCEPT ![i] = Pubrel] /\ wire' = Append(wire, Rel(i))
        /\ UNCHANGED <<link, online, started, connections, qos0Messages, qos12Messages, quota, counter, inUse, store,
                       pending, received, mistaken, published, panicked>>
    BY DEF Pubrec
  <1>2. TypeOK /\ NetOK BY DEF IInv
  <1>3. /\ i \in Id /\ acks' \in Seq(ToBroker) /\ pubOut[i] # None /\ pubOut[i] \in QoS2 /\ Had(pubOut[i])
    BY <1>1, OneAck, PacketsAre
  <1> HIDE DEF i
  <1>4. /\ Rel(i) \in ToClient /\ Rel(i).type = "PUBREL" /\ Rel(i).msg = None /\ Rel(i).id = i /\ Rel(i) \in Packets
    BY <1>3, Made, PacketsAre
  <1>5. /\ wire' \in Seq(ToClient) /\ Len(wire') = Len(wire) + 1 /\ Len(wire) \in Nat
        /\ \A k \in 1 .. Len(wire) : wire'[k] = wire[k]
        /\ wire'[Len(wire) + 1] = Rel(i)
        /\ DOMAIN wire = 1 .. Len(wire) /\ DOMAIN wire' = 1 .. Len(wire) + 1
    BY <1>1, <1>2, <1>4, AppendProperties, LenProperties DEF NetOK
  <1>6. \A K : Count(wire', K) = Count(wire, K) + (IF Rel(i) \in K THEN 1 ELSE 0)
    BY <1>1, <1>2, <1>4, CountAppend DEF NetOK
  <1>7. \A k \in DOMAIN wire' : (k \in DOMAIN wire /\ wire'[k] = wire[k]) \/ wire'[k] = Rel(i)
    BY <1>5
  <1>8. /\ pubOut \in [Id -> QoS1 \cup QoS2 \cup {Pubrel, None}]
        /\ pubOut' \in [Id -> QoS1 \cup QoS2 \cup {Pubrel, None}] /\ pubOut'[i] = Pubrel
        /\ \A j \in Id : j # i => pubOut'[j] = pubOut[j]
    BY <1>1, <1>2, <1>3 DEF TypeOK
  <1>9. TypeOK' BY <1>1, <1>2, <1>8 DEF TypeOK
  <1>10. NetOK' BY <1>1, <1>2, <1>3, <1>5 DEF NetOK
  <1>11. LinkOK' BY <1>1 DEF IInv, LinkOK
  <1>12. WindowOK'
    <2>1. Open' = Open BY <1>3, <1>8, PacketsAre DEF Open
    <2> QED BY <1>1, <2>1 DEF IInv, WindowOK
  <1>13. ExchangeOK'
    <2>1. ASSUME NEW k \in DOMAIN wire'
          PROVE  /\ wire'[k].type = "PUBREL" => pubOut'[wire'[k].id] = Pubrel
                 /\ wire'[k].msg \in QoS12 => pubOut'[wire'[k].id] = wire'[k].msg
      <3>1. CASE wire'[k] = Rel(i) BY <1>4, <1>8, <3>1, PacketsAre
      <3>2. CASE k \in DOMAIN wire /\ wire'[k] = wire[k]
        <4>1. wire[k] \in ToClient BY <1>2, <3>2, ElementOfSeq, LenProperties DEF NetOK
        <4>2. wire[k].type = "PUBREL" \/ wire[k].msg \in QoS12 => wire[k].id \in Id
          BY <4>1, Fields, PacketsAre
        <4>3. wire[k].id # i BY <1>1, <3>2, OneAck DEF i
        <4>4. wire[k].type = "PUBREL" => pubOut[wire[k].id] = Pubrel BY <3>2 DEF IInv, ExchangeOK
        <4>5. wire[k].msg \in QoS12 => pubOut[wire[k].id] = wire[k].msg BY <3>2 DEF IInv, ExchangeOK
        <4> QED BY <1>8, <3>2, <4>2, <4>3, <4>4, <4>5
      <3> QED BY <1>7, <3>1, <3>2
    <2>2. ASSUME NEW k \in DOMAIN acks'
          PROVE  LET p == acks'[k] IN
                 /\ p.type = "PUBACK" => pubOut'[p.id] \in QoS1 /\ received[pubOut'[p.id]] > 0
                 /\ p.type = "PUBREC" => pubOut'[p.id] \in QoS2 /\ Had(pubOut'[p.id])
                 /\ p.type = "PUBCOMP" => pubOut'[p.id] = Pubrel
      <3>1. k + 1 \in DOMAIN acks /\ acks'[k] = acks[k + 1] /\ acks'[k] \in ToBroker /\ acks'[k].id # i
        BY <1>1, OneAck DEF i
      <3>2. acks'[k].id \in Id BY <3>1, Fields
      <3>3. pubOut'[acks'[k].id] = pubOut[acks'[k].id] BY <1>8, <3>1, <3>2
      <3>4. LET p == acks[k + 1] IN
            /\ p.type = "PUBACK" => pubOut[p.id] \in QoS1 /\ received[pubOut[p.id]] > 0
            /\ p.type = "PUBREC" => pubOut[p.id] \in QoS2 /\ Had(pubOut[p.id])
            /\ p.type = "PUBCOMP" => pubOut[p.id] = Pubrel
        BY <3>1 DEF IInv, ExchangeOK
      <3> QED BY <3>1, <3>3, <3>4
    <2>3. ASSUME NEW j \in Id PROVE Count(wire', With(j)) + Count(acks', With(j)) <= 1
      <3>1. Count(acks, With(j)) = Count(acks', With(j)) + (IF j = i THEN 1 ELSE 0) /\ Count(acks', With(j)) \in Nat
        BY <1>1, OneAck DEF i
      <3>2. Count(wire, With(j)) + Count(acks, With(j)) <= 1 /\ Count(wire, With(j)) \in Nat
        BY <1>2, CountsAre DEF IInv, ExchangeOK
      <3>3. Rel(i) \in With(j) <=> j = i BY <1>4, Sorted
      <3>4. Count(wire', With(j)) = Count(wire, With(j)) + (IF j = i THEN 1 ELSE 0) BY <1>6, <3>3
      <3> QED BY <3>1, <3>2, <3>4
    <2> QED BY <1>1, <2>1, <2>2, <2>3 DEF ExchangeOK, Had
  <1>14. PlacesOK'
    <2> SUFFICES ASSUME NEW m \in QoS12
                 PROVE  /\ m \in published => Waiting(m) + InHand(m)' <= 1
                        /\ m \in published /\ Waiting(m) + InHand(m)' = 0 => Had(m)
                        /\ m \notin published => Waiting(m) + InHand(m)' = 0 /\ received[m] = 0
      BY <1>1 DEF PlacesOK, Waiting, Had
    <2>1. Waiting(m) \in Nat /\ InHand(m) \in Nat /\ IsFiniteSet(Under(m)) BY <1>2, CountsAre
    <2>2. CASE pubOut[i] = m
      <3>1. Under(m)' = Under(m) \ {i} /\ i \in Under(m) BY <1>3, <1>8, <2>2, PacketsAre DEF Under
      <3>2. InHand(m)' = InHand(m) - 1 BY <2>1, <3>1, FS_RemoveElement DEF InHand
      <3>3. Under(m) # {} BY <3>1
      <3>4. InHand(m) # 0 BY <2>1, <3>3, FS_EmptySet DEF InHand
      <3>5. Had(m) BY <1>3, <2>2
      <3> QED BY <2>1, <3>2, <3>4, <3>5 DEF IInv, PlacesOK
    <2>3. CASE pubOut[i] # m
      <3>1. Under(m)' = Under(m) BY <1>8, <2>3, PacketsAre DEF Under
      <3>2. InHand(m)' = InHand(m) BY <3>1 DEF InHand
      <3> QED BY <3>2 DEF IInv, PlacesOK
    <2> QED BY <2>2, <2>3
  <1>15. ReadOK'
    <2>1. ASSUME NEW m \in QoS12, OnWire(m)' PROVE OnWire(m)
      <3>1. PICK k \in DOMAIN wire' : wire'[k].msg = m BY <2>1 DEF OnWire
      <3>2. k \in DOMAIN wire /\ wire'[k] = wire[k] BY <1>4, <1>7, <3>1, PacketsAre
      <3> QED BY <3>1, <3>2 DEF OnWire
    <2>2. \A m : Waiting(m)' = Waiting(m) BY <1>1 DEF Waiting
    <2> QED BY <1>1, <2>1, <2>2 DEF IInv, ReadOK
  <1>16. QoS0OK'
    <2> SUFFICES ASSUME NEW m \in QoS0 PROVE OnceOnly(m)' = OnceOnly(m)
      BY <1>1 DEF IInv, QoS0OK
    <2>1. Rel(i) \notin For(m) BY <1>4, PacketsAre DEF For
    <2>2. Count(wire, For(m)) \in Nat BY <1>2, CountsAre
    <2>3. Count(wire', For(m)) = Count(wire, For(m)) BY <1>6, <2>1, <2>2
    <2> QED BY <1>1, <2>3 DEF OnceOnly
  <1>17. PendingOK'
    <2>1. ASSUME NEW k \in DOMAIN wire PROVE k \in DOMAIN wire' /\ wire'[k] = wire[k] BY <1>5
    <2>2. Len(wire) + 1 \in DOMAIN wire' /\ wire'[Len(wire) + 1] = Rel(i) BY <1>5
    <2>3. ASSUME NEW k \in DOMAIN acks, acks[k].id # i
          PROVE  k - 1 \in DOMAIN acks' /\ acks'[k - 1] = acks[k]
      <3>1. acks[1] = Head(acks) OBVIOUS
      <3>2. k # 1 BY <2>3, <3>1 DEF i
      <3> QED BY <1>1, <3>2, OneAck
    <2>4. ASSUME NEW j \in Id,
                 \/ \E k \in DOMAIN acks : acks[k].type = "PUBREC" /\ acks[k].id = j
                 \/ \E k \in DOMAIN wire : wire[k].type = "PUBREL" /\ wire[k].id = j
          PROVE  \/ \E k \in DOMAIN acks' : acks'[k].type = "PUBREC" /\ acks'[k].id = j
                 \/ \E k \in DOMAIN wire' : wire'[k].type = "PUBREL" /\ wire'[k].id = j
      <3>1. CASE j = i BY <1>4, <2>2, <3>1
      <3>2. CASE j # i BY <2>1, <2>3, <2>4, <3>2
      <3> QED BY <3>1, <3>2
    <2> QED BY <1>1, <2>4 DEF IInv, PendingOK
  <1> QED BY <1>9, <1>10, <1>11, <1>12, <1>13, <1>14, <1>15, <1>16, <1>17 DEF IInv

\* What is at the head of the wire, and that nothing else is on its way about its id.
LEMMA OneRead ==
  ASSUME IInv, wire # <<>>
  PROVE  /\ Head(wire) \in ToClient /\ link # "off"
         /\ Head(wire).type = "PUBREL" => pubOut[Head(wire).id] = Pubrel
         /\ Head(wire).msg \in QoS12 => pubOut[Head(wire).id] = Head(wire).msg
         /\ Tail(wire) \in Seq(ToClient)
         /\ \A k \in DOMAIN Tail(wire) :
              /\ k + 1 \in DOMAIN wire /\ Tail(wire)[k] = wire[k + 1] /\ Tail(wire)[k] \in ToClient
              /\ Head(wire).id \in Id => Tail(wire)[k].id # Head(wire).id
         /\ \A k \in DOMAIN wire : k = 1 \/ (k - 1 \in DOMAIN Tail(wire) /\ Tail(wire)[k - 1] = wire[k])
         /\ Head(wire).id \in Id => \A k \in DOMAIN acks : acks[k].id # Head(wire).id
         /\ \A i \in Id : Count(wire, With(i)) = Count(Tail(wire), With(i)) + (IF i = Head(wire).id THEN 1 ELSE 0)
         /\ \A i \in Id : Count(Tail(wire), With(i)) \in Nat
         /\ \A m \in Pub : Count(wire, For(m)) = Count(Tail(wire), For(m)) + (IF m = Head(wire).msg THEN 1 ELSE 0)
         /\ \A m \in Pub : Count(Tail(wire), For(m)) \in Nat
         /\ OnWire(Head(wire).msg)
  <1> DEFINE a == Head(wire)
             t == Tail(wire)
  <1>1. TypeOK /\ NetOK BY DEF IInv
  <1>2. wire \in Seq(ToClient) BY <1>1 DEF NetOK
  <1>3. /\ a \in ToClient /\ t \in Seq(ToClient)
        /\ Len(t) = Len(wire) - 1 /\ Len(wire) \in Nat \ {0} /\ DOMAIN wire = 1 .. Len(wire) /\ DOMAIN t = 1 .. Len(t)
        /\ \A k \in 1 .. Len(t) : t[k] = wire[k + 1]
        /\ a = wire[1]
    BY <1>2, HeadTailProperties, LenProperties, EmptySeq
  <1>4. /\ a.type = "PUBREL" => pubOut[a.id] = Pubrel
        /\ a.msg \in QoS12 => pubOut[a.id] = a.msg
        /\ OnWire(a.msg)
    <2>1. 1 \in DOMAIN wire BY <1>3
    <2> QED BY <1>3, <2>1 DEF IInv, ExchangeOK, OnWire
  <1>5. \A K : Count(wire, K) = Count(t, K) + (IF a \in K THEN 1 ELSE 0) BY <1>2, CountTail
  <1>6. \A K : Count(t, K) \in Nat BY <1>3, CountIs
  <1>7. /\ acks \in Seq(Packets) /\ t \in Seq(Packets) /\ a \in Packets
        /\ \A k \in DOMAIN acks : acks[k] \in Packets
        /\ \A k \in DOMAIN t : t[k] \in ToClient /\ t[k] \in Packets
    BY <1>1, <1>3, Sequences, PacketsAre, SeqMonotonic, ElementOfSeq, LenProperties
  <1>8. a.id \in Id => Count(acks, With(a.id)) = 0 /\ Count(t, With(a.id)) = 0
    <2> SUFFICES ASSUME a.id \in Id PROVE Count(acks, With(a.id)) = 0 /\ Count(t, With(a.id)) = 0
      OBVIOUS
    <2>1. a \in With(a.id) BY <1>7, Sorted
    <2>2. Count(wire, With(a.id)) = Count(t, With(a.id)) + 1 BY <1>5, <2>1
    <2>3. Count(acks, With(a.id)) \in Nat /\ Count(t, With(a.id)) \in Nat BY <1>1, <1>6, CountsAre
    <2>4. Count(wire, With(a.id)) + Count(acks, With(a.id)) <= 1 BY DEF IInv, ExchangeOK
    <2> QED BY <2>2, <2>3, <2>4
  <1>9. a.id \in Id => \A k \in DOMAIN acks : acks[k].id # a.id
    <2> HIDE DEF a, t
    <2>1. Count(acks, With(a.id)) = 0 => \A k \in DOMAIN acks : acks[k] \notin With(a.id) BY <1>7, CountIs
    <2> QED BY <1>7, <1>8, <2>1, Sorted
  <1>10. a.id \in Id => \A k \in DOMAIN t : t[k].id # a.id
    <2> HIDE DEF a, t
    <2>1. Count(t, With(a.id)) = 0 => \A k \in DOMAIN t : t[k] \notin With(a.id) BY <1>7, CountIs
    <2> QED BY <1>7, <1>8, <2>1, Sorted
  <1>11. \A i \in Id : Count(wire, With(i)) = Count(t, With(i)) + (IF i = a.id THEN 1 ELSE 0)
    <2> TAKE i \in Id
    <2>1. a \in With(i) <=> i = a.id BY <1>7, Sorted
    <2> QED BY <1>5, <2>1
  <1>12. \A m \in Pub : Count(wire, For(m)) = Count(t, For(m)) + (IF m = a.msg THEN 1 ELSE 0)
    <2> TAKE m \in Pub
    <2>1. a \in For(m) <=> m = a.msg BY <1>7, Sorted
    <2> QED BY <1>5, <2>1
  <1>13. link # "off" BY DEF IInv, LinkOK
  <1>14. \A k \in DOMAIN t : k + 1 \in DOMAIN wire /\ t[k] = wire[k + 1] BY <1>3
  <1>15. \A k \in DOMAIN wire : k = 1 \/ (k - 1 \in DOMAIN t /\ t[k - 1] = wire[k])
    <2> TAKE k \in DOMAIN wire
    <2>1. CASE k # 1
      <3>1. k - 1 \in 1 .. Len(t) /\ (k - 1) + 1 = k BY <1>3, <2>1
      <3> QED BY <1>3, <3>1
    <2> QED BY <2>1
  <1> HIDE DEF t
  <1>16. \A k \in DOMAIN t : t[k] \in ToClient BY <1>7
  <1> QED BY <1>3, <1>4, <1>6, <1>9, <1>10, <1>11, <1>12, <1>13, <1>14, <1>15, <1>16 DEF t

\* A publish of QoS 1 or 2 that is being read is nowhere else, and is new in
\* this connection.
LEMMA ReadOnce ==
  ASSUME IInv, wire # <<>>, Head(wire).msg \in QoS12
  PROVE  LET m == Head(wire).msg IN
         /\ Waiting(m) = 0 /\ received[m] < connections /\ m \in published
         /\ \A k \in DOMAIN Tail(wire) : Tail(wire)[k].msg # m
  <1> DEFINE m == Head(wire).msg
             i == Head(wire).id
  <1>1. TypeOK /\ NetOK BY DEF IInv
  <1>2. Head(wire) \in ToClient /\ i \in Id /\ pubOut[i] = m BY OneRead, Fields, PacketsAre
  <1>3. received[m] < connections BY OneRead DEF IInv, ReadOK
  <1>4. IsFiniteSet(Under(m)) /\ InHand(m) \in Nat /\ Waiting(m) \in Nat BY <1>1, CountsAre
  <1>5. InHand(m) # 0
    <2>1. i \in Under(m) BY <1>2 DEF Under
    <2> QED BY <1>4, <2>1, FS_EmptySet DEF InHand
  <1>6. /\ m \in published => Waiting(m) + InHand(m) <= 1
        /\ m \notin published => Waiting(m) + InHand(m) = 0
    BY DEF IInv, PlacesOK
  <1>7. Waiting(m) = 0 /\ InHand(m) = 1 /\ m \in published BY <1>4, <1>5, <1>6
  <1>8. ASSUME NEW j \in Id, pubOut[j] = m PROVE j = i
    <2>1. Under(m) \ {i} = {}
      <3>1. i \in Under(m) BY <1>2 DEF Under
      <3>2. IsFiniteSet(Under(m) \ {i}) /\ Cardinality(Under(m) \ {i}) = Cardinality(Under(m)) - 1
        BY <1>4, <3>1, FS_RemoveElement
      <3>3. Cardinality(Under(m) \ {i}) = 0 BY <1>7, <3>2 DEF InHand
      <3> QED BY <3>2, <3>3, FS_EmptySet
    <2> QED BY <1>8, <2>1 DEF Under
  <1>9. ASSUME NEW k \in DOMAIN Tail(wire) PROVE Tail(wire)[k].msg # m
    <2> SUFFICES ASSUME Tail(wire)[k].msg = m PROVE FALSE OBVIOUS
    <2>1. /\ k + 1 \in DOMAIN wire /\ Tail(wire)[k] = wire[k + 1] /\ Tail(wire)[k] \in ToClient
          /\ Tail(wire)[k].id # i
      BY <1>2, OneRead
    <2>2. Tail(wire)[k].id \in Id BY <2>1, Fields, PacketsAre
    <2>3. pubOut[Tail(wire)[k].id] = m BY <2>1 DEF IInv, ExchangeOK
    <2> QED BY <1>8, <2>1, <2>2, <2>3
  <1> QED BY <1>3, <1>7, <1>9

\* Had, after the step.
HadNow(m) == received'[m] > 0 \/ m \in mistaken'

\* The acknowledgement takes the place of what has been read.
LEMMA ReadExchange ==
  ASSUME IInv, wire # <<>>, wire' = Tail(wire), pubOut' = pubOut,
         \A m \in Pub : received[m] > 0 => received'[m] > 0,
         \A m \in Pub : Had(m) => HadNow(m),
         \/ acks' = acks
         \/ \E e \in ToBroker :
              /\ acks' = Append(acks, e) /\ e.id = Head(wire).id
              /\ e.type = "PUBACK" => pubOut[e.id] \in QoS1 /\ received'[pubOut[e.id]] > 0
              /\ e.type = "PUBREC" => pubOut[e.id] \in QoS2 /\ HadNow(pubOut[e.id])
              /\ e.type = "PUBCOMP" => pubOut[e.id] = Pubrel
  PROVE  /\ ExchangeOK' /\ (store' = store => NetOK')
         /\ \A k \in DOMAIN acks : k \in DOMAIN acks' /\ acks'[k] = acks[k]
  <1>1. TypeOK /\ NetOK /\ acks \in Seq(ToBroker) /\ wire' \in Seq(ToClient) BY OneRead DEF IInv, NetOK
  <1>2. ASSUME NEW k \in DOMAIN wire'
        PROVE  /\ wire'[k].type = "PUBREL" => pubOut'[wire'[k].id] = Pubrel
               /\ wire'[k].msg \in QoS12 => pubOut'[wire'[k].id] = wire'[k].msg
    <2>1. k + 1 \in DOMAIN wire /\ wire'[k] = wire[k + 1] BY OneRead
    <2> QED BY <2>1 DEF IInv, ExchangeOK
  <1>3. ASSUME NEW k \in DOMAIN acks
        PROVE  /\ acks[k].type = "PUBACK" => pubOut'[acks[k].id] \in QoS1 /\ received'[pubOut'[acks[k].id]] > 0
               /\ acks[k].type = "PUBREC" => pubOut'[acks[k].id] \in QoS2 /\ HadNow(pubOut'[acks[k].id])
               /\ acks[k].type = "PUBCOMP" => pubOut'[acks[k].id] = Pubrel
    <2>1. /\ acks[k].type = "PUBACK" => pubOut[acks[k].id] \in QoS1 /\ received[pubOut[acks[k].id]] > 0
          /\ acks[k].type = "PUBREC" => pubOut[acks[k].id] \in QoS2 /\ Had(pubOut[acks[k].id])
          /\ acks[k].type = "PUBCOMP" => pubOut[acks[k].id] = Pubrel
      BY DEF IInv, ExchangeOK
    <2>2. acks[k].type = "PUBREC" => HadNow(pubOut[acks[k].id]) BY <2>1, PacketsAre
    <2> QED BY <2>1, <2>2, PacketsAre
  <1>4. CASE acks' = acks
    <2>1. ASSUME NEW j \in Id PROVE Count(wire', With(j)) + Count(acks', With(j)) <= 1
      <3>1. /\ Count(wire, With(j)) = Count(wire', With(j)) + (IF j = Head(wire).id THEN 1 ELSE 0)
            /\ Count(wire', With(j)) \in Nat
        BY OneRead
      <3>2. Count(wire, With(j)) + Count(acks, With(j)) <= 1 /\ Count(acks, With(j)) \in Nat
        BY <1>1, CountsAre DEF IInv, ExchangeOK
      <3>3. Count(wire', With(j)) <= Count(wire, With(j)) BY <3>1
      <3> QED BY <1>4, <3>1, <3>2, <3>3
    <2>2. ExchangeOK' BY <1>2, <1>3, <1>4, <2>1 DEF ExchangeOK, Had, HadNow
    <2> QED BY <1>1, <1>4, <2>2 DEF NetOK
  <1>5. ASSUME NEW e \in ToBroker,
               acks' = Append(acks, e), e.id = Head(wire).id,
               e.type = "PUBACK" => pubOut[e.id] \in QoS1 /\ received'[pubOut[e.id]] > 0,
               e.type = "PUBREC" => pubOut[e.id] \in QoS2 /\ HadNow(pubOut[e.id]),
               e.type = "PUBCOMP" => pubOut[e.id] = Pubrel
        PROVE  /\ ExchangeOK' /\ (store' = store => NetOK')
               /\ \A k \in DOMAIN acks : k \in DOMAIN acks' /\ acks'[k] = acks[k]
    <2>1. /\ acks' \in Seq(ToBroker) /\ Len(acks') = Len(acks) + 1 /\ Len(acks) \in Nat
          /\ \A k \in 1 .. Len(acks) : acks'[k] = acks[k]
          /\ acks'[Len(acks) + 1] = e
          /\ DOMAIN acks = 1 .. Len(acks) /\ DOMAIN acks' = 1 .. Len(acks) + 1
      BY <1>1, <1>5, AppendProperties, LenProperties
    <2>2. \A k \in DOMAIN acks' : (k \in DOMAIN acks /\ acks'[k] = acks[k]) \/ acks'[k] = e BY <2>1
    <2>3. ASSUME NEW k \in DOMAIN acks'
          PROVE  /\ acks'[k].type = "PUBACK" => pubOut'[acks'[k].id] \in QoS1 /\ received'[pubOut'[acks'[k].id]] > 0
                 /\ acks'[k].type = "PUBREC" => pubOut'[acks'[k].id] \in QoS2 /\ HadNow(pubOut'[acks'[k].id])
                 /\ acks'[k].type = "PUBCOMP" => pubOut'[acks'[k].id] = Pubrel
      <3>1. CASE acks'[k] = e BY <1>5, <3>1
      <3>2. CASE k \in DOMAIN acks /\ acks'[k] = acks[k] BY <1>3, <3>2
      <3> QED BY <2>2, <3>1, <3>2
    <2>4. ASSUME NEW j \in Id PROVE Count(wire', With(j)) + Count(acks', With(j)) <= 1
      <3>1. /\ Count(wire, With(j)) = Count(wire', With(j)) + (IF j = Head(wire).id THEN 1 ELSE 0)
            /\ Count(wire', With(j)) \in Nat
        BY OneRead
      <3>2. Count(wire, With(j)) + Count(acks, With(j)) <= 1 /\ Count(acks, With(j)) \in Nat
        BY <1>1, CountsAre DEF IInv, ExchangeOK
      <3>3. e \in With(j) <=> j = Head(wire).id BY <1>5, PacketsAre, Sorted
      <3>4. Count(acks', With(j)) = Count(acks, With(j)) + (IF e \in With(j) THEN 1 ELSE 0)
        BY <1>1, <1>5, CountAppend
      <3> QED BY <3>1, <3>2, <3>3, <3>4
    <2>5. ExchangeOK' BY <1>2, <2>3, <2>4 DEF ExchangeOK, Had, HadNow
    <2>6. \A k \in DOMAIN acks : k \in DOMAIN acks' /\ acks'[k] = acks[k] BY <2>1
    <2> QED BY <1>1, <2>1, <2>5, <2>6 DEF NetOK
  <1> QED BY <1>4, <1>5

\* How a publish of each QoS and a PUBREL are read.
LEMMA ReadCases ==
  ASSUME IInv, ClientReads
  PROVE  LET p == Head(wire) IN
         /\ wire # <<>> /\ wire' = Tail(wire)
         /\ UNCHANGED <<link, online, started, connections, qos0Messages, qos12Messages, quota, counter, inUse,
                        pubOut, store, published, panicked>>
         /\ \/ /\ p.type = "PUBLISH" /\ p.msg \in QoS0 /\ p.id = 0
               /\ acks' = acks /\ pending' = pending /\ mistaken' = mistaken
               /\ received' = [received EXCEPT ![p.msg] = @ + 1]
            \/ /\ p.type = "PUBLISH" /\ p.msg \in QoS1 /\ p.id \in Id
               /\ acks' = Append(acks, Ack("PUBACK", p.id)) /\ pending' = pending /\ mistaken' = mistaken
               /\ received' = [received EXCEPT ![p.msg] = @ + 1]
            \/ /\ p.type = "PUBLISH" /\ p.msg \in QoS2 /\ p.id \in Id
               /\ acks' = Append(acks, Ack("PUBREC", p.id))
               /\ \/ /\ pending[p.id] = None /\ pending' = [pending EXCEPT ![p.id] = p.msg]
                     /\ received' = [received EXCEPT ![p.msg] = @ + 1] /\ mistaken' = mistaken
                  \/ /\ pending[p.id] = p.msg
                     /\ pending' = pending /\ received' = received /\ mistaken' = mistaken
                  \/ /\ pending[p.id] \notin {None, p.msg}
                     /\ pending' = pending /\ received' = received /\ mistaken' = mistaken \cup {p.msg}
            \/ /\ p.type = "PUBREL" /\ p.msg = None /\ p.id \in Id
               /\ acks' = Append(acks, Ack("PUBCOMP", p.id))
               /\ pending' = [pending EXCEPT ![p.id] = None] /\ received' = received /\ mistaken' = mistaken
  <1> USE DEF connVars, queueVars, flowVars, clientVars, netVars
  <1> DEFINE p == Head(wire)
  <1>1. /\ wire # <<>> /\ wire' = Tail(wire)
        /\ UNCHANGED <<link, online, started, connections, qos0Messages, qos12Messages, quota, counter, inUse,
                       pubOut, store, published, panicked>>
        /\ acks' = acks \o (CASE p.type = "PUBREL" -> <<Ack("PUBCOMP", p.id)>>
                              [] p.msg \in QoS1    -> <<Ack("PUBACK", p.id)>>
                              [] p.msg \in QoS2    -> <<Ack("PUBREC", p.id)>>
                              [] OTHER             -> <<>>)
        /\ pending' = CASE p.type = "PUBREL" -> [pending EXCEPT ![p.id] = None]
                        [] New(p) /\ p.msg \in QoS2 -> [pending EXCEPT ![p.id] = p.msg]
                        [] OTHER -> pending
        /\ received' = IF New(p) THEN [received EXCEPT ![p.msg] = @ + 1] ELSE received
        /\ mistaken' = IF p.msg \in QoS2 /\ pending[p.id] \notin {None, p.msg}
                       THEN mistaken \cup {p.msg} ELSE mistaken
    BY DEF ClientReads
  <1>2. acks \in Seq(ToBroker) BY DEF IInv, NetOK
  <1>3. p \in ToClient BY <1>1, OneRead
  <1>4. /\ \/ p.type = "PUBLISH" /\ p.msg \in QoS0 /\ p.id = 0
           \/ p.type = "PUBLISH" /\ p.msg \in QoS12 /\ p.id \in Id
           \/ p.type = "PUBREL" /\ p.msg = None /\ p.id \in Id
        /\ QoS0 \cap QoS1 = {} /\ QoS0 \cap QoS2 = {} /\ QoS1 \cap QoS2 = {}
    BY <1>3, Fields, DeliveryAssumption DEF DeliveryAssumption
  <1>5. \A i \in Id, t \in {"PUBACK", "PUBREC", "PUBCOMP"} : acks \o <<Ack(t, i)>> = Append(acks, Ack(t, i))
    BY <1>2, Made, AppendIsConcat
  <1>6. acks \o <<>> = acks BY <1>2, ConcatEmptySeq
  <1> HIDE DEF p
  <1>7. CASE p.type = "PUBREL" /\ p.msg = None /\ p.id \in Id
    <2>1. p.msg \notin QoS1 /\ p.msg \notin QoS2 /\ ~New(p)
      <3>1. None \notin QoS1 /\ None \notin QoS2 BY DeliveryAssumption DEF Pub, DeliveryAssumption
      <3>2. p.msg \notin QoS1 /\ p.msg \notin QoS2 BY <1>7, <3>1
      <3>3. p.type # "PUBLISH" BY <1>7
      <3> QED BY <3>2, <3>3 DEF New
    <2>2. acks' = acks \o <<Ack("PUBCOMP", p.id)>> BY <1>1, <1>7, <2>1
    <2>3. pending' = [pending EXCEPT ![p.id] = None] BY <1>1, <1>7, <2>1
    <2> QED BY <1>1, <1>5, <1>7, <2>1, <2>2, <2>3 DEF p
  <1>8. CASE p.type = "PUBLISH" /\ p.msg \in QoS0 /\ p.id = 0
    <2>1. p.msg \notin QoS1 /\ p.msg \notin QoS2 /\ p.type # "PUBREL" /\ New(p) BY <1>4, <1>8 DEF New
    <2>2. acks' = acks \o <<>> BY <1>1, <2>1
    <2>3. pending' = pending BY <1>1, <2>1
    <2> QED BY <1>1, <1>6, <1>8, <2>1, <2>2, <2>3 DEF p
  <1>9. CASE p.type = "PUBLISH" /\ p.msg \in QoS12 /\ p.id \in Id
    <2>1. CASE p.msg \in QoS1
      <3>1. p.msg \notin QoS2 /\ p.type # "PUBREL" /\ New(p) BY <1>4, <1>9, <2>1 DEF New
      <3>2. acks' = acks \o <<Ack("PUBACK", p.id)>> BY <1>1, <2>1, <3>1
      <3>3. pending' = pending BY <1>1, <3>1
      <3> QED BY <1>1, <1>5, <1>9, <2>1, <3>1, <3>2, <3>3 DEF p
    <2>2. CASE p.msg \notin QoS1
      <3>1. p.msg \in QoS2 /\ p.type # "PUBREL" BY <1>9, <2>2 DEF QoS12
      <3>2. acks' = acks \o <<Ack("PUBREC", p.id)>> BY <1>1, <2>2, <3>1
      <3>3. acks' = Append(acks, Ack("PUBREC", p.id)) BY <1>5, <1>9, <3>2
      <3>4. CASE pending[p.id] = None
        <4>1. New(p) BY <1>9, <3>4 DEF New
        <4>2. pending' = [pending EXCEPT ![p.id] = p.msg] BY <1>1, <3>1, <4>1
        <4> QED BY <1>1, <1>9, <3>1, <3>3, <3>4, <4>1, <4>2 DEF p
      <3>5. CASE pending[p.id] # None
        <4>1. ~New(p) BY <3>1, <3>5 DEF New
        <4>2. pending' = pending /\ received' = received BY <1>1, <3>1, <4>1
        <4>3. mistaken' = IF pending[p.id] # p.msg THEN mistaken \cup {p.msg} ELSE mistaken
          BY <1>1, <3>1, <3>5
        <4> QED BY <1>1, <1>9, <3>1, <3>3, <3>5, <4>2, <4>3 DEF p
      <3> QED BY <3>4, <3>5
    <2> QED BY <2>1, <2>2
  <1> QED BY <1>4, <1>7, <1>8, <1>9

\* What reading does to the client, whatever the packet.
LEMMA ReadEffects ==
  ASSUME IInv, ClientReads
  PROVE  LET p == Head(wire) IN
         /\ received' \in [Pub -> 0 .. MaxConnections] /\ \A m \in Pub : received'[m] <= connections
         /\ \A m \in Pub : m # p.msg => received'[m] = received[m]
         /\ \A m \in Pub : received'[m] >= received[m]
         /\ p.msg \in QoS0 => received'[p.msg] = received[p.msg] + 1
         /\ mistaken \subseteq mistaken' /\ mistaken' \subseteq QoS2
         /\ mistaken' # {} => connections > 1
         /\ pending' \in [Id -> QoS2 \cup {None}]
         /\ \A i \in Id : pending'[i] # None => received'[pending'[i]] > 0
         /\ \A i \in Id : pending'[i] # None =>
              \/ pending[i] # None /\ ~(p.type = "PUBREL" /\ p.id = i)
              \/ i = p.id /\ p.id \in Id /\ acks' = Append(acks, Ack("PUBREC", p.id))
         /\ \/ acks' = acks
            \/ \E e \in ToBroker :
                 /\ acks' = Append(acks, e) /\ e.id = p.id
                 /\ e.type = "PUBACK" => pubOut[e.id] \in QoS1 /\ received'[pubOut[e.id]] > 0
                 /\ e.type = "PUBREC" => pubOut[e.id] \in QoS2 /\ HadNow(pubOut[e.id])
                 /\ e.type = "PUBCOMP" => pubOut[e.id] = Pubrel
  <1> DEFINE p == Head(wire)
  <1>1. wire # <<>> BY ReadCases
  <1>2. TypeOK /\ NetOK /\ connections \in Nat /\ connections > 0 /\ MaxConnections \in Nat
        /\ connections <= MaxConnections
    <2>1. link # "off" BY <1>1, OneRead
    <2>2. connections \in 0 .. MaxConnections /\ MaxConnections \in Nat
      BY DeliveryAssumption DEF IInv, TypeOK, DeliveryAssumption
    <2> QED BY <2>1, <2>2 DEF IInv, LinkOK
  <1>3. /\ received \in [Pub -> 0 .. MaxConnections] /\ pending \in [Id -> QoS2 \cup {None}] /\ mistaken \subseteq QoS2
        /\ \A m \in Pub : received[m] <= connections /\ received[m] \in Nat
        /\ \A i \in Id : pending[i] # None => received[pending[i]] > 0
        /\ mistaken # {} => connections > 1
    BY <1>2, NumbersAre DEF IInv, TypeOK, ReadOK, PendingOK
  <1>4. QoS0 \subseteq Pub /\ QoS1 \subseteq Pub /\ QoS2 \subseteq Pub /\ None \notin Pub /\ QoS1 \cap QoS2 = {}
        /\ QoS1 \subseteq QoS12 /\ QoS2 \subseteq QoS12
    BY DeliveryAssumption DEF Pub, QoS12, DeliveryAssumption
  <1>5. p.msg \in QoS12 => pubOut[p.id] = p.msg /\ received[p.msg] < connections
    BY <1>1, OneRead, ReadOnce
  <1>6. p.type = "PUBREL" => pubOut[p.id] = Pubrel BY <1>1, OneRead
  <1>7. p.msg \in QoS0 => received[p.msg] = 0
    <2> SUFFICES ASSUME p.msg \in QoS0 PROVE received[p.msg] = 0 OBVIOUS
    <2>1. Count(wire, For(p.msg)) = Count(Tail(wire), For(p.msg)) + 1 /\ Count(Tail(wire), For(p.msg)) \in Nat
      BY <1>1, <1>4, OneRead
    <2>2. /\ Count(qos0Messages, {p.msg}) \in Nat /\ Count(store.qos0, {p.msg}) \in Nat
          /\ Count(wire, For(p.msg)) \in Nat /\ received[p.msg] \in Nat
      BY <1>2, <1>3, <1>4, CountsAre
    <2>3. Count(qos0Messages, {p.msg}) + Count(store.qos0, {p.msg}) + Count(wire, For(p.msg)) + received[p.msg] <= 1
      BY DEF IInv, QoS0OK, OnceOnly
    <2> QED BY <2>1, <2>2, <2>3
  <1>8. p.type # "PUBREL" /\ p.id \in Id /\ pending[p.id] # None => connections > 1
    <2> SUFFICES ASSUME p.type # "PUBREL", p.id \in Id, pending[p.id] # None, connections <= 1 PROVE FALSE
      BY <1>2
    <2>1. link # "off" BY <1>1, OneRead
    <2>2. \/ \E k \in DOMAIN acks : acks[k].type = "PUBREC" /\ acks[k].id = p.id
          \/ \E k \in DOMAIN wire : wire[k].type = "PUBREL" /\ wire[k].id = p.id
      BY <2>1 DEF IInv, PendingOK
    <2>3. ~\E k \in DOMAIN acks : acks[k].id = p.id BY <1>1, OneRead
    <2>4. PICK k \in DOMAIN wire : wire[k].type = "PUBREL" /\ wire[k].id = p.id BY <2>2, <2>3
    <2>5. wire[1] = p OBVIOUS
    <2>6. k # 1 BY <2>4, <2>5
    <2>7. k - 1 \in DOMAIN Tail(wire) /\ Tail(wire)[k - 1] = wire[k] BY <1>1, <2>6, OneRead
    <2>8. Tail(wire)[k - 1].id # p.id BY <1>1, <2>7, OneRead
    <2> QED BY <2>4, <2>7, <2>8
  <1>9. acks \in Seq(ToBroker) BY <1>2 DEF NetOK
  <1>10. CASE /\ p.type = "PUBLISH" /\ p.msg \in QoS0 /\ p.id = 0
              /\ acks' = acks /\ pending' = pending /\ mistaken' = mistaken
              /\ received' = [received EXCEPT ![p.msg] = @ + 1]
    <2> HIDE DEF p
    <2>1. p.msg \in Pub /\ received'[p.msg] = 1 /\ received[p.msg] = 0 BY <1>3, <1>4, <1>7, <1>10
    <2>2. received' \in [Pub -> 0 .. MaxConnections] /\ \A m \in Pub : m # p.msg => received'[m] = received[m]
      BY <1>2, <1>3, <1>7, <1>10, <2>1
    <2>3. \A m \in Pub : received'[m] <= connections /\ received'[m] >= received[m]
      BY <1>2, <1>3, <2>1, <2>2
    <2>4. p.id \notin Id BY <1>10, PacketsAre
    <2>5. \A i \in Id : pending'[i] # None => pending'[i] \in Pub /\ received'[pending'[i]] > 0
      <3> TAKE i \in Id
      <3> HAVE pending'[i] # None
      <3>1. pending[i] \in Pub /\ received[pending[i]] > 0 BY <1>3, <1>4, <1>10
      <3> QED BY <1>3, <1>10, <2>3, <3>1, <2>1, <2>2
    <2> QED BY <1>3, <1>10, <2>1, <2>2, <2>3, <2>4, <2>5 DEF p
  <1>11. CASE /\ p.type = "PUBLISH" /\ p.msg \in QoS1 /\ p.id \in Id
              /\ acks' = Append(acks, Ack("PUBACK", p.id)) /\ pending' = pending /\ mistaken' = mistaken
              /\ received' = [received EXCEPT ![p.msg] = @ + 1]
    <2> HIDE DEF p
    <2>1. p.msg \in Pub /\ p.msg \notin QoS0 /\ received'[p.msg] = received[p.msg] + 1 /\ received'[p.msg] > 0
      BY <1>3, <1>4, <1>11, PacketsAre
    <2>2. received' \in [Pub -> 0 .. MaxConnections] /\ \A m \in Pub : m # p.msg => received'[m] = received[m]
      <3>1. received[p.msg] + 1 \in 0 .. MaxConnections BY <1>2, <1>3, <1>4, <1>5, <1>11
      <3> QED BY <1>3, <1>11, <3>1
    <2>3. \A m \in Pub : received'[m] <= connections /\ received'[m] >= received[m]
      BY <1>2, <1>3, <1>4, <1>5, <1>11, <2>1, <2>2
    <2>4. \A i \in Id : pending'[i] # None => received'[pending'[i]] > 0
      <3> TAKE i \in Id
      <3> HAVE pending'[i] # None
      <3>1. pending[i] \in Pub /\ received[pending[i]] > 0 BY <1>3, <1>4, <1>11
      <3>2. received'[pending[i]] >= received[pending[i]] /\ received'[pending[i]] \in Nat /\ received[pending[i]] \in Nat
        BY <1>3, <2>2, <2>3, <3>1
      <3> QED BY <1>11, <3>1, <3>2
    <2>5. /\ Ack("PUBACK", p.id) \in ToBroker /\ Ack("PUBACK", p.id).id = p.id
          /\ Ack("PUBACK", p.id).type = "PUBACK" /\ pubOut[p.id] = p.msg
      BY <1>4, <1>5, <1>11, Made
    <2>6. \E e \in ToBroker :
            /\ acks' = Append(acks, e) /\ e.id = p.id
            /\ e.type = "PUBACK" => pubOut[e.id] \in QoS1 /\ received'[pubOut[e.id]] > 0
            /\ e.type = "PUBREC" => pubOut[e.id] \in QoS2 /\ HadNow(pubOut[e.id])
            /\ e.type = "PUBCOMP" => pubOut[e.id] = Pubrel
      <3> DEFINE e == Ack("PUBACK", p.id)
      <3>1. /\ e \in ToBroker /\ acks' = Append(acks, e) /\ e.id = p.id
            /\ e.type = "PUBACK" => pubOut[e.id] \in QoS1 /\ received'[pubOut[e.id]] > 0
            /\ e.type = "PUBREC" => pubOut[e.id] \in QoS2 /\ HadNow(pubOut[e.id])
            /\ e.type = "PUBCOMP" => pubOut[e.id] = Pubrel
        BY <1>11, <2>1, <2>5
      <3> HIDE DEF e
      <3> QED BY <3>1
    <2> QED BY <1>3, <1>11, <2>1, <2>2, <2>3, <2>4, <2>6 DEF p
  <1>12. CASE /\ p.type = "PUBLISH" /\ p.msg \in QoS2 /\ p.id \in Id
              /\ acks' = Append(acks, Ack("PUBREC", p.id))
              /\ \/ /\ pending[p.id] = None /\ pending' = [pending EXCEPT ![p.id] = p.msg]
                    /\ received' = [received EXCEPT ![p.msg] = @ + 1] /\ mistaken' = mistaken
                 \/ /\ pending[p.id] = p.msg
                    /\ pending' = pending /\ received' = received /\ mistaken' = mistaken
                 \/ /\ pending[p.id] \notin {None, p.msg}
                    /\ pending' = pending /\ received' = received /\ mistaken' = mistaken \cup {p.msg}
    <2> HIDE DEF p
    <2>1. /\ p.msg \in Pub /\ p.msg \notin QoS0 /\ received[p.msg] \in Nat /\ received[p.msg] < connections
          /\ pubOut[p.id] = p.msg /\ p.msg # None
      BY <1>3, <1>4, <1>5, <1>12, PacketsAre
    <2>2. /\ received' \in [Pub -> 0 .. MaxConnections] /\ \A m \in Pub : m # p.msg => received'[m] = received[m]
          /\ received'[p.msg] >= received[p.msg] /\ received'[p.msg] <= connections
          /\ pending' \in [Id -> QoS2 \cup {None}] /\ mistaken \subseteq mistaken' /\ mistaken' \subseteq QoS2
          /\ \A i \in Id : i # p.id => pending'[i] = pending[i]
          /\ pending[p.id] = None => pending'[p.id] = p.msg /\ received'[p.msg] > 0
          /\ pending[p.id] # None => pending'[p.id] = pending[p.id]
          /\ HadNow(p.msg)
      <3>1. CASE pending[p.id] = None
        <4>1. /\ pending' = [pending EXCEPT ![p.id] = p.msg]
              /\ received' = [received EXCEPT ![p.msg] = @ + 1] /\ mistaken' = mistaken
          BY <1>12, <2>1, <3>1
        <4>2. received[p.msg] + 1 \in 0 .. MaxConnections BY <1>2, <2>1
        <4>3. received' \in [Pub -> 0 .. MaxConnections] /\ received'[p.msg] = received[p.msg] + 1
              /\ \A m \in Pub : m # p.msg => received'[m] = received[m]
          BY <1>3, <2>1, <4>1, <4>2
        <4>4. pending' \in [Id -> QoS2 \cup {None}] /\ pending'[p.id] = p.msg
              /\ \A i \in Id : i # p.id => pending'[i] = pending[i]
          BY <1>3, <1>12, <4>1
        <4>5. received'[p.msg] > 0 /\ received'[p.msg] <= connections /\ received'[p.msg] >= received[p.msg]
          BY <1>2, <2>1, <4>3
        <4> QED BY <1>3, <3>1, <4>1, <4>3, <4>4, <4>5 DEF HadNow
      <3>2. CASE pending[p.id] = p.msg
        <4>1. pending' = pending /\ received' = received /\ mistaken' = mistaken BY <1>12, <2>1, <3>2
        <4>2. received[p.msg] > 0 BY <1>3, <1>12, <2>1, <3>2
        <4> QED BY <1>2, <1>3, <2>1, <3>2, <4>1, <4>2 DEF HadNow
      <3>3. CASE pending[p.id] \notin {None, p.msg}
        <4>1. pending' = pending /\ received' = received /\ mistaken' = mistaken \cup {p.msg} BY <1>12, <2>1, <3>3
        <4> QED BY <1>2, <1>3, <1>12, <2>1, <3>3, <4>1 DEF HadNow
      <3> QED BY <3>1, <3>2, <3>3
    <2>3. mistaken' # {} => connections > 1
      <3>1. CASE pending[p.id] = None BY <1>3, <1>12, <2>1, <3>1
      <3>2. CASE pending[p.id] # None BY <1>8, <1>12, <3>2
      <3> QED BY <3>1, <3>2
    <2>4. \A m \in Pub : received'[m] <= connections /\ received'[m] >= received[m]
      <3> TAKE m \in Pub
      <3>1. CASE m = p.msg BY <2>2, <3>1
      <3>2. CASE m # p.msg BY <1>3, <2>2, <3>2
      <3> QED BY <3>1, <3>2
    <2>5. \A i \in Id : pending'[i] # None => received'[pending'[i]] > 0
      <3> TAKE i \in Id
      <3> HAVE pending'[i] # None
      <3>1. CASE pending[i] # None
        <4>1. pending'[i] = pending[i] BY <2>2, <3>1
        <4>2. pending[i] \in Pub /\ received[pending[i]] > 0 BY <1>3, <1>4, <3>1
        <4>3. received'[pending[i]] >= received[pending[i]] /\ received'[pending[i]] \in Nat /\ received[pending[i]] \in Nat
          BY <1>3, <2>2, <2>4, <4>2
        <4> QED BY <4>1, <4>2, <4>3
      <3>2. CASE pending[i] = None
        <4>1. i = p.id BY <2>2, <3>2
        <4> QED BY <2>2, <3>2, <4>1
      <3> QED BY <3>1, <3>2
    <2>6. /\ Ack("PUBREC", p.id) \in ToBroker /\ Ack("PUBREC", p.id).id = p.id
          /\ Ack("PUBREC", p.id).type = "PUBREC"
      BY <1>12, Made
    <2>7. \E e \in ToBroker :
            /\ acks' = Append(acks, e) /\ e.id = p.id
            /\ e.type = "PUBACK" => pubOut[e.id] \in QoS1 /\ received'[pubOut[e.id]] > 0
            /\ e.type = "PUBREC" => pubOut[e.id] \in QoS2 /\ HadNow(pubOut[e.id])
            /\ e.type = "PUBCOMP" => pubOut[e.id] = Pubrel
      <3> DEFINE e == Ack("PUBREC", p.id)
      <3>1. /\ e \in ToBroker /\ acks' = Append(acks, e) /\ e.id = p.id
            /\ e.type = "PUBACK" => pubOut[e.id] \in QoS1 /\ received'[pubOut[e.id]] > 0
            /\ e.type = "PUBREC" => pubOut[e.id] \in QoS2 /\ HadNow(pubOut[e.id])
            /\ e.type = "PUBCOMP" => pubOut[e.id] = Pubrel
        BY <1>12, <2>1, <2>2, <2>6
      <3> HIDE DEF e
      <3> QED BY <3>1
    <2>8. \A i \in Id : pending'[i] # None =>
            \/ pending[i] # None /\ ~(p.type = "PUBREL" /\ p.id = i)
            \/ i = p.id /\ p.id \in Id /\ acks' = Append(acks, Ack("PUBREC", p.id))
      <3>1. p.type # "PUBREL" BY <1>12
      <3> QED BY <1>12, <2>2, <3>1
    <2> QED BY <2>1, <2>2, <2>3, <2>4, <2>5, <2>7, <2>8 DEF p
  <1>13. CASE /\ p.type = "PUBREL" /\ p.msg = None /\ p.id \in Id
              /\ acks' = Append(acks, Ack("PUBCOMP", p.id))
              /\ pending' = [pending EXCEPT ![p.id] = None] /\ received' = received /\ mistaken' = mistaken
    <2> HIDE DEF p
    <2>1. p.msg \notin QoS0 BY <1>4, <1>13
    <2>2. /\ pending' \in [Id -> QoS2 \cup {None}] /\ pending'[p.id] = None
          /\ \A i \in Id : i # p.id => pending'[i] = pending[i]
      BY <1>3, <1>13
    <2>3. \A m \in Pub : received'[m] <= connections /\ received'[m] >= received[m] BY <1>3, <1>13
    <2>4. /\ Ack("PUBCOMP", p.id) \in ToBroker /\ Ack("PUBCOMP", p.id).id = p.id
          /\ Ack("PUBCOMP", p.id).type = "PUBCOMP" /\ pubOut[p.id] = Pubrel
      BY <1>6, <1>13, Made
    <2>5. \E e \in ToBroker :
            /\ acks' = Append(acks, e) /\ e.id = p.id
            /\ e.type = "PUBACK" => pubOut[e.id] \in QoS1 /\ received'[pubOut[e.id]] > 0
            /\ e.type = "PUBREC" => pubOut[e.id] \in QoS2 /\ HadNow(pubOut[e.id])
            /\ e.type = "PUBCOMP" => pubOut[e.id] = Pubrel
      <3> DEFINE e == Ack("PUBCOMP", p.id)
      <3>1. /\ e \in ToBroker /\ acks' = Append(acks, e) /\ e.id = p.id
            /\ e.type = "PUBACK" => pubOut[e.id] \in QoS1 /\ received'[pubOut[e.id]] > 0
            /\ e.type = "PUBREC" => pubOut[e.id] \in QoS2 /\ HadNow(pubOut[e.id])
            /\ e.type = "PUBCOMP" => pubOut[e.id] = Pubrel
        BY <1>13, <2>4
      <3> HIDE DEF e
      <3> QED BY <3>1
    <2>6. \A i \in Id : pending'[i] # None =>
            pending[i] # None /\ i # p.id /\ received'[pending'[i]] > 0
      BY <1>3, <1>13, <2>2
    <2> QED BY <1>3, <1>13, <2>1, <2>2, <2>3, <2>5, <2>6 DEF p
  <1> HIDE DEF p
  <1>14. \/ /\ p.type = "PUBLISH" /\ p.msg \in QoS0 /\ p.id = 0
            /\ acks' = acks /\ pending' = pending /\ mistaken' = mistaken
            /\ received' = [received EXCEPT ![p.msg] = @ + 1]
         \/ /\ p.type = "PUBLISH" /\ p.msg \in QoS1 /\ p.id \in Id
            /\ acks' = Append(acks, Ack("PUBACK", p.id)) /\ pending' = pending /\ mistaken' = mistaken
            /\ received' = [received EXCEPT ![p.msg] = @ + 1]
         \/ /\ p.type = "PUBLISH" /\ p.msg \in QoS2 /\ p.id \in Id
            /\ acks' = Append(acks, Ack("PUBREC", p.id))
            /\ \/ /\ pending[p.id] = None /\ pending' = [pending EXCEPT ![p.id] = p.msg]
                  /\ received' = [received EXCEPT ![p.msg] = @ + 1] /\ mistaken' = mistaken
               \/ /\ pending[p.id] = p.msg
                  /\ pending' = pending /\ received' = received /\ mistaken' = mistaken
               \/ /\ pending[p.id] \notin {None, p.msg}
                  /\ pending' = pending /\ received' = received /\ mistaken' = mistaken \cup {p.msg}
         \/ /\ p.type = "PUBREL" /\ p.msg = None /\ p.id \in Id
            /\ acks' = Append(acks, Ack("PUBCOMP", p.id))
            /\ pending' = [pending EXCEPT ![p.id] = None] /\ received' = received /\ mistaken' = mistaken
    BY ReadCases DEF p
  <1> QED BY <1>10, <1>11, <1>12, <1>13, <1>14

\* The client reads what is first on the wire.
LEMMA ClientReadsInv == ASSUME IInv, ClientReads PROVE IInv'
  <1> DEFINE p == Head(wire)
  <1>1. /\ wire # <<>> /\ wire' = Tail(wire)
        /\ UNCHANGED <<link, online, started, connections, qos0Messages, qos12Messages, quota, counter, inUse,
                       pubOut, store, published, panicked>>
    BY ReadCases
  <1>2. TypeOK /\ NetOK /\ connections \in Nat /\ link # "off" BY <1>1, NumbersAre, OneRead DEF IInv
  <1>3. /\ received' \in [Pub -> 0 .. MaxConnections] /\ \A m \in Pub : received'[m] <= connections
        /\ \A m \in Pub : m # p.msg => received'[m] = received[m]
        /\ \A m \in Pub : received'[m] >= received[m]
        /\ p.msg \in QoS0 => received'[p.msg] = received[p.msg] + 1
        /\ mistaken \subseteq mistaken' /\ mistaken' \subseteq QoS2
        /\ mistaken' # {} => connections > 1
        /\ pending' \in [Id -> QoS2 \cup {None}]
        /\ \A i \in Id : pending'[i] # None => received'[pending'[i]] > 0
        /\ \A i \in Id : pending'[i] # None =>
             \/ pending[i] # None /\ ~(p.type = "PUBREL" /\ p.id = i)
             \/ i = p.id /\ p.id \in Id /\ acks' = Append(acks, Ack("PUBREC", p.id))
    BY ReadEffects
  <1>4. \/ acks' = acks
        \/ \E e \in ToBroker :
             /\ acks' = Append(acks, e) /\ e.id = p.id
             /\ e.type = "PUBACK" => pubOut[e.id] \in QoS1 /\ received'[pubOut[e.id]] > 0
             /\ e.type = "PUBREC" => pubOut[e.id] \in QoS2 /\ HadNow(pubOut[e.id])
             /\ e.type = "PUBCOMP" => pubOut[e.id] = Pubrel
    BY ReadEffects
  <1>5. \A m \in Pub : received[m] \in Nat /\ received'[m] \in Nat
    BY <1>2, <1>3, NumbersAre, DeliveryAssumption DEF DeliveryAssumption
  <1>6. \A m \in Pub : received[m] > 0 => received'[m] > 0
    <2> TAKE m \in Pub
    <2> QED BY <1>3, <1>5
  <1>7. \A m \in Pub : Had(m) => HadNow(m) BY <1>3, <1>6 DEF Had, HadNow
  <1>8. /\ ExchangeOK' /\ NetOK'
        /\ \A k \in DOMAIN acks : k \in DOMAIN acks' /\ acks'[k] = acks[k]
    BY <1>1, <1>4, <1>6, <1>7, ReadExchange
  <1>9. p.msg \in QoS12 => received[p.msg] < connections /\ p.msg \in published
                           /\ Waiting(p.msg) = 0 /\ \A k \in DOMAIN wire' : wire'[k].msg # p.msg
    BY <1>1, ReadOnce
  <1> HIDE DEF p
  <1>10. TypeOK' BY <1>1, <1>2, <1>3 DEF TypeOK
  <1>11. LinkOK' BY <1>1, <1>2 DEF IInv, LinkOK
  <1>12. WindowOK' BY <1>1 DEF IInv, WindowOK, Open
  <1>13. \A m : Waiting(m)' = Waiting(m) /\ InHand(m)' = InHand(m) BY <1>1 DEF Waiting, InHand, Under
  <1>14. PlacesOK'
    <2> SUFFICES ASSUME NEW m \in QoS12
                 PROVE  /\ m \in published => Waiting(m) + InHand(m) <= 1
                        /\ m \in published /\ Waiting(m) + InHand(m) = 0 => HadNow(m)
                        /\ m \notin published => Waiting(m) + InHand(m) = 0 /\ received'[m] = 0
      BY <1>1, <1>13 DEF PlacesOK, Had, HadNow
    <2>1. m \in Pub BY PacketsAre
    <2>2. /\ m \in published => Waiting(m) + InHand(m) <= 1
          /\ m \in published /\ Waiting(m) + InHand(m) = 0 => Had(m)
          /\ m \notin published => Waiting(m) + InHand(m) = 0 /\ received[m] = 0
      BY DEF IInv, PlacesOK
    <2>3. m \notin published => m # p.msg BY <1>9
    <2> QED BY <1>3, <1>7, <2>1, <2>2, <2>3
  <1>15. ReadOK'
    <2>1. ASSUME NEW m \in QoS12, Waiting(m) > 0 \/ OnWire(m)' PROVE received'[m] < connections
      <3>1. m # p.msg
        <4>1. CASE Waiting(m) > 0 BY <1>9, <4>1
        <4>2. CASE OnWire(m)'
          <5>1. PICK k \in DOMAIN wire' : wire'[k].msg = m BY <4>2 DEF OnWire
          <5> QED BY <1>9, <5>1
        <4> QED BY <2>1, <4>1, <4>2
      <3>2. OnWire(m)' => OnWire(m)
        <4> SUFFICES ASSUME OnWire(m)' PROVE OnWire(m) OBVIOUS
        <4>1. PICK k \in DOMAIN wire' : wire'[k].msg = m BY DEF OnWire
        <4>2. k + 1 \in DOMAIN wire /\ wire'[k] = wire[k + 1] BY <1>1, <4>1, OneRead
        <4> QED BY <4>1, <4>2 DEF OnWire
      <3>3. received[m] < connections BY <1>2, <2>1, <3>2 DEF IInv, ReadOK
      <3>4. received'[m] = received[m] BY <1>3, <3>1, PacketsAre
      <3> QED BY <3>3, <3>4
    <2> QED BY <1>1, <1>3, <1>13, <2>1 DEF ReadOK
  <1>16. QoS0OK'
    <2> SUFFICES ASSUME NEW m \in QoS0 PROVE OnceOnly(m)' = OnceOnly(m)
      BY <1>1 DEF IInv, QoS0OK
    <2>1. m \in Pub BY PacketsAre
    <2>2. Count(wire, For(m)) = Count(wire', For(m)) + (IF m = p.msg THEN 1 ELSE 0) /\ Count(wire', For(m)) \in Nat
      BY <1>1, <2>1, OneRead DEF p
    <2>3. /\ Count(qos0Messages, {m}) \in Nat /\ Count(store.qos0, {m}) \in Nat
          /\ Count(wire, For(m)) \in Nat
      BY <1>2, CountsAre
    <2>4. received'[m] = received[m] + (IF m = p.msg THEN 1 ELSE 0) /\ received[m] \in Nat BY <1>3, <1>5, <2>1
    <2>5. OnceOnly(m)' = Count(qos0Messages, {m}) + Count(store.qos0, {m}) + Count(wire', For(m)) + received'[m]
      BY <1>1 DEF OnceOnly
    <2>6. OnceOnly(m) = Count(qos0Messages, {m}) + Count(store.qos0, {m}) + Count(wire, For(m)) + received[m]
      BY DEF OnceOnly
    <2> QED BY <2>2, <2>3, <2>4, <2>5, <2>6
  <1>17. PendingOK'
    <2>1. ASSUME NEW i \in Id, pending'[i] # None, connections <= 1
          PROVE  \/ \E k \in DOMAIN acks' : acks'[k].type = "PUBREC" /\ acks'[k].id = i
                 \/ \E k \in DOMAIN wire' : wire'[k].type = "PUBREL" /\ wire'[k].id = i
      <3>1. CASE pending[i] # None /\ ~(p.type = "PUBREL" /\ p.id = i)
        <4>1. \/ \E k \in DOMAIN acks : acks[k].type = "PUBREC" /\ acks[k].id = i
              \/ \E k \in DOMAIN wire : wire[k].type = "PUBREL" /\ wire[k].id = i
          BY <1>2, <2>1, <3>1 DEF IInv, PendingOK
        <4>2. CASE \E k \in DOMAIN acks : acks[k].type = "PUBREC" /\ acks[k].id = i BY <1>8, <4>2
        <4>3. CASE \E k \in DOMAIN wire : wire[k].type = "PUBREL" /\ wire[k].id = i
          <5>1. PICK k \in DOMAIN wire : wire[k].type = "PUBREL" /\ wire[k].id = i BY <4>3
          <5>2. wire[1] = p BY DEF p
          <5>3. k # 1 BY <3>1, <5>1, <5>2
          <5>4. k - 1 \in DOMAIN wire' /\ wire'[k - 1] = wire[k] BY <1>1, <5>3, OneRead
          <5> QED BY <5>1, <5>4
        <4> QED BY <4>1, <4>2, <4>3
      <3>2. CASE i = p.id /\ p.id \in Id /\ acks' = Append(acks, Ack("PUBREC", p.id))
        <4>1. Ack("PUBREC", i) \in ToBroker /\ Ack("PUBREC", i).type = "PUBREC" /\ Ack("PUBREC", i).id = i
          BY Made
        <4>2. Len(acks) + 1 \in DOMAIN acks' /\ acks'[Len(acks) + 1] = Ack("PUBREC", i)
          BY <1>2, <3>2, <4>1, AppendProperties, LenProperties DEF NetOK
        <4> QED BY <4>1, <4>2
      <3> QED BY <1>3, <2>1, <3>1, <3>2
    <2> QED BY <1>1, <1>3, <2>1 DEF PendingOK
  <1> QED BY <1>8, <1>10, <1>11, <1>12, <1>14, <1>15, <1>16, <1>17 DEF IInv

\* What the ack queue is made into.
LEMMA UnAckIs ==
  ASSUME TypeOK, NetOK, NEW u \in UnAckPackets
  PROVE  u \in Seq(UnAcked) /\ \A m \in QoS12 : Count(u, For(m)) = InHand(m)
  <1>1. PICK o \in SetToSeqs(Open) :
          u = [k \in DOMAIN o |-> IF pubOut[o[k]] = Pubrel THEN Rel(o[k]) ELSE Publish(pubOut[o[k]], o[k])]
    BY DEF UnAckPackets, Open
  <1>2. IsFiniteSet(Open) /\ Cardinality(Open) \in Nat BY NumbersAre
  <1> DEFINE D == 1 .. Cardinality(Open)
  <1>3. /\ o \in [D -> Open] /\ \A i, j \in D : i # j => o[i] # o[j] BY <1>1 DEF SetToSeqs
  <1>4. \A i \in Open : \E k \in D : o[k] = i
    <2>1. o \in Injection(D, Open) BY <1>3 DEF Injection, IsInjective
    <2>2. IsFiniteSet(D) /\ Cardinality(D) = Cardinality(Open) BY <1>2, FS_Interval
    <2>3. o \in Surjection(D, Open) BY <1>2, <2>1, <2>2, FS_Injection
    <2> QED BY <2>3 DEF Surjection
  <1>5. u = [k \in D |-> IF pubOut[o[k]] = Pubrel THEN Rel(o[k]) ELSE Publish(pubOut[o[k]], o[k])]
    BY <1>1, <1>3
  <1>6. \A i \in Open : i \in Id /\ pubOut[i] \in QoS12 \cup {Pubrel} /\ pubOut[i] # None
    BY DEF Open, TypeOK, QoS12
  <1>7. ASSUME NEW k \in D
        PROVE  /\ u[k] \in UnAcked /\ u[k] \in Packets
               /\ \A m \in QoS12 : u[k].msg = m <=> pubOut[o[k]] = m
    <2>1. o[k] \in Open /\ o[k] \in Id BY <1>3, <1>6
    <2>2. CASE pubOut[o[k]] = Pubrel
      <3>1. u[k] = Rel(o[k]) BY <1>5, <2>2
      <3>2. Rel(o[k]) \in UnAcked /\ Rel(o[k]).msg = None BY <2>1, Made
      <3>3. u[k] \in UnAcked /\ u[k].msg = None BY <3>1, <3>2
      <3>4. \A m \in QoS12 : m # None /\ m # Pubrel BY PacketsAre
      <3> QED BY <2>2, <3>3, <3>4, PacketsAre
    <2>3. CASE pubOut[o[k]] # Pubrel
      <3>1. u[k] = Publish(pubOut[o[k]], o[k]) /\ pubOut[o[k]] \in QoS12 BY <1>5, <1>6, <2>1, <2>3
      <3>2. Publish(pubOut[o[k]], o[k]) \in UnAcked /\ Publish(pubOut[o[k]], o[k]).msg = pubOut[o[k]]
        BY <2>1, <3>1, Made
      <3>3. u[k] \in UnAcked /\ u[k].msg = pubOut[o[k]] BY <3>1, <3>2
      <3> QED BY <3>3, PacketsAre
    <2> QED BY <2>2, <2>3
  <1>8. DOMAIN u = D BY <1>5
  <1>9. u \in Seq(UnAcked) /\ u \in Seq(Packets)
    <2>1. u = [k \in D |-> u[k]] BY <1>5
    <2>2. u \in [D -> UnAcked] /\ u \in [D -> Packets] BY <1>7, <2>1
    <2> HIDE DEF D
    <2>3. \A S : u \in [1 .. Cardinality(Open) -> S] => u \in Seq(S) BY <1>2, SeqDef
    <2> QED BY <2>2, <2>3 DEF D
  <1>10. ASSUME NEW m \in QoS12 PROVE Count(u, For(m)) = InHand(m)
    <2> DEFINE A == At(u, For(m))
               f == [k \in A |-> o[k]]
    <2>1. \A k \in D : u[k] \in For(m) <=> pubOut[o[k]] = m BY <1>7, <1>10, Sorted
    <2>2. A = {k \in D : pubOut[o[k]] = m} BY <1>8, <2>1 DEF At
    <2>3. IsFiniteSet(A) /\ Count(u, For(m)) = Cardinality(A) BY <1>9, CountIs
    <2>4. \A k \in A : k \in D /\ f[k] = o[k] /\ o[k] \in Under(m) BY <1>3, <1>6, <2>2 DEF Under
    <2>5. f \in [A -> Under(m)] BY <2>4
    <2>6. \A x, y \in A : f[x] = f[y] => x = y BY <1>3, <2>4
    <2>7. \A z \in Under(m) : \E x \in A : f[x] = z
      <3> TAKE z \in Under(m)
      <3>1. z \in Open /\ pubOut[z] = m BY <1>10, PacketsAre DEF Under, Open
      <3>2. PICK k \in D : o[k] = z BY <1>4, <3>1
      <3>3. k \in A BY <2>2, <3>1, <3>2
      <3> QED BY <2>4, <3>2, <3>3
    <2> HIDE DEF f, A
    <2>8. Cardinality(Under(m)) = Cardinality(A) BY <2>3, <2>5, <2>6, <2>7, SameSize
    <2> QED BY <2>3, <2>8 DEF InHand
  <1> QED BY <1>9, <1>10

\* The encoding keeps the publishes.
LEMMA EncodedIs ==
  ASSUME NEW q \in Seq(Queued)
  PROVE  Encoded(q) \in Seq(Queued \cup {Nothing}) /\ \A m \in QoS12 : Count(Encoded(q), For(m)) = Count(q, For(m))
  <1>1. Len(q) \in Nat /\ DOMAIN q = 1 .. Len(q) /\ \A k \in DOMAIN q : q[k] \in Queued
    BY LenProperties, ElementOfSeq
  <1>2. DOMAIN Encoded(q) = DOMAIN q BY DEF Encoded
  <1>3. ASSUME NEW k \in DOMAIN q
        PROVE  Encoded(q)[k] \in Queued \cup {Nothing} /\ \A m \in QoS12 : Encoded(q)[k].msg = m <=> q[k].msg = m
    <2>1. q[k] \in Queued BY <1>1
    <2>2. CASE q[k].type = "PUBLISH"
      <3>1. Encoded(q)[k] = [q[k] EXCEPT !.id = 0] BY <2>2 DEF Encoded
      <3>2. q[k] \in Entries({"PUBLISH"}, QoS1 \cup QoS2, Id \cup {0}) BY <2>1, <2>2 DEF Queued, Entries
      <3>3. /\ [q[k] EXCEPT !.id = 0] \in Entries({"PUBLISH"}, QoS1 \cup QoS2, Id \cup {0})
            /\ [q[k] EXCEPT !.id = 0].msg = q[k].msg
        BY <3>2 DEF Entries
      <3> QED BY <3>1, <3>3 DEF Queued
    <2>3. CASE q[k].type # "PUBLISH"
      <3>1. Encoded(q)[k] = Nothing BY <2>3 DEF Encoded
      <3>2. q[k].msg = None /\ Nothing.msg = None BY <2>1, <2>3, Fields
      <3> QED BY <3>1, <3>2, PacketsAre
    <2> QED BY <2>2, <2>3
  <1>4. Encoded(q) \in Seq(Queued \cup {Nothing})
    <2>1. Encoded(q) = [k \in 1 .. Len(q) |-> Encoded(q)[k]] BY <1>1 DEF Encoded
    <2>2. Encoded(q) \in [1 .. Len(q) -> Queued \cup {Nothing}] BY <1>1, <1>3, <2>1
    <2> QED BY <1>1, <2>2, SeqDef
  <1>5. ASSUME NEW m \in QoS12 PROVE Count(Encoded(q), For(m)) = Count(q, For(m))
    <2>1. \A k \in DOMAIN q : Encoded(q)[k] \in Packets /\ q[k] \in Packets BY <1>1, <1>3, PacketsAre
    <2>2. \A k \in DOMAIN q : Encoded(q)[k] \in For(m) <=> q[k] \in For(m) BY <1>3, <1>5, <2>1, Sorted
    <2> QED BY <1>2, <2>2, CountSame
  <1> QED BY <1>4, <1>5

\* What the connection holds goes to the store.
LEMMA StoreInv == ASSUME IInv, Store PROVE IInv'
  <1> USE DEF connVars, queueVars, flowVars, clientVars, netVars
  <1>1. PICK u \in UnAckPackets :
          store' = [qos0  |-> store.qos0 \o (IF OfflineQoS0 THEN qos0Messages ELSE <<>>),
                    qos12 |-> store.qos12 \o Encoded(qos12Messages),
                    unAck |-> store.unAck \o u]
    BY DEF Store
  <1>2. /\ link = "closing" /\ link' = "off" /\ qos0Messages' = <<>> /\ qos12Messages' = <<>>
        /\ pubOut' = [i \in Id |-> None] /\ wire' = <<>> /\ acks' = <<>>
        /\ UNCHANGED <<online, started, connections, quota, counter, inUse, pending, received, mistaken,
                       published, panicked>>
    BY DEF Store
  <1> DEFINE s0 == IF OfflineQoS0 THEN qos0Messages ELSE <<>>
             e == Encoded(qos12Messages)
  <1>3. TypeOK /\ NetOK BY DEF IInv
  <1>4. /\ qos0Messages \in Seq(QoS0) /\ qos12Messages \in Seq(Queued) /\ store.qos0 \in Seq(QoS0)
        /\ store.qos12 \in Seq(Queued \cup {Nothing}) /\ store.unAck \in Seq(UnAcked)
    BY <1>3 DEF TypeOK, NetOK
  <1>5. u \in Seq(UnAcked) /\ \A m \in QoS12 : Count(u, For(m)) = InHand(m) BY <1>3, UnAckIs
  <1>6. e \in Seq(Queued \cup {Nothing}) /\ \A m \in QoS12 : Count(e, For(m)) = Count(qos12Messages, For(m))
    BY <1>4, EncodedIs
  <1>7. s0 \in Seq(QoS0) BY <1>4, EmptySeq
  <1>8. store'.qos0 = store.qos0 \o s0 /\ store'.qos12 = store.qos12 \o e /\ store'.unAck = store.unAck \o u
    BY <1>1
  <1>21. \A m : Count(s0, {m}) = Count(qos0Messages, {m}) \/ Count(s0, {m}) = 0 BY CountEmpty
  <1> HIDE DEF e, s0
  <1>9. /\ store'.qos0 \in Seq(QoS0) /\ store'.qos12 \in Seq(Queued \cup {Nothing}) /\ store'.unAck \in Seq(UnAcked)
        /\ store'.unAck \in Seq(Queued)
    <2>1. store'.qos0 \in Seq(QoS0) BY <1>4, <1>7, <1>8, ConcatProperties
    <2>2. store'.qos12 \in Seq(Queued \cup {Nothing}) BY <1>4, <1>6, <1>8, ConcatProperties
    <2>3. store'.unAck \in Seq(UnAcked) BY <1>4, <1>5, <1>8, ConcatProperties
    <2> QED BY <2>1, <2>2, <2>3, PacketsAre, SeqMonotonic
  <1>10. \A m \in QoS12 : /\ Count(store'.qos12, For(m)) = Count(store.qos12, For(m)) + Count(qos12Messages, For(m))
                          /\ Count(store'.unAck, For(m)) = Count(store.unAck, For(m)) + InHand(m)
    <2> TAKE m \in QoS12
    <2>1. Count(store.qos12 \o e, For(m)) = Count(store.qos12, For(m)) + Count(e, For(m))
      BY <1>4, <1>6, CountConcat
    <2>2. Count(store.unAck \o u, For(m)) = Count(store.unAck, For(m)) + Count(u, For(m))
      BY <1>4, <1>5, CountConcat
    <2> QED BY <1>5, <1>6, <1>8, <2>1, <2>2
  <1>11. \A K : Count(<<>>, K) = 0 BY CountEmpty
  <1>12. \A m \in QoS12 : Under(m)' = {} /\ InHand(m)' = 0
    <2> TAKE m \in QoS12
    <2>1. Under(m)' = {} BY <1>2, PacketsAre DEF Under
    <2> QED BY <2>1, FS_EmptySet DEF InHand
  <1>13. TypeOK' BY <1>2, <1>3, <1>9, EmptySeq DEF TypeOK
  <1>14. NetOK' BY <1>2, <1>9, EmptySeq DEF NetOK
  <1>15. LinkOK' BY <1>2 DEF IInv, LinkOK
  <1>16. WindowOK'
    <2>1. Open' = {} BY <1>2 DEF Open
    <2>2. Cardinality(Open') = 0 BY <2>1, FS_EmptySet
    <2>3. quota \in Int /\ quota <= Quota /\ Quota \in Nat BY <1>3, DeliveryAssumption DEF TypeOK, DeliveryAssumption
    <2> QED BY <1>2, <2>1, <2>2, <2>3 DEF WindowOK
  <1>17. ExchangeOK'
    <2>1. \A i \in Id : Count(wire', With(i)) + Count(acks', With(i)) <= 1 BY <1>2, <1>11
    <2> QED BY <1>2, <2>1 DEF ExchangeOK
  <1>18. PlacesOK'
    <2> SUFFICES ASSUME NEW m \in QoS12
                 PROVE  /\ m \in published => Waiting(m)' + InHand(m)' <= 1
                        /\ m \in published /\ Waiting(m)' + InHand(m)' = 0 => Had(m)
                        /\ m \notin published => Waiting(m)' + InHand(m)' = 0 /\ received[m] = 0
      BY <1>2 DEF PlacesOK, Had
    <2>1. /\ Count(qos12Messages, For(m)) \in Nat /\ Count(store.qos12, For(m)) \in Nat
          /\ Count(store.unAck, For(m)) \in Nat /\ InHand(m) \in Nat
      BY <1>3, CountsAre
    <2>2. Waiting(m)' = Count(qos12Messages', For(m)) + Count(store'.qos12, For(m)) + Count(store'.unAck, For(m))
      BY DEF Waiting
    <2>3. Count(qos12Messages', For(m)) = 0 BY <1>2, <1>11
    <2>4. Waiting(m) = Count(qos12Messages, For(m)) + Count(store.qos12, For(m)) + Count(store.unAck, For(m))
      BY DEF Waiting
    <2>5. Waiting(m)' + InHand(m)' = Waiting(m) + InHand(m)
      <3>1. /\ Count(store'.qos12, For(m)) = Count(store.qos12, For(m)) + Count(qos12Messages, For(m))
            /\ Count(store'.unAck, For(m)) = Count(store.unAck, For(m)) + InHand(m)
            /\ InHand(m)' = 0
        BY <1>10, <1>12
      <3> QED BY <2>1, <2>2, <2>3, <2>4, <3>1
    <2> QED BY <2>5 DEF IInv, PlacesOK
  <1>19. ReadOK' BY <1>2 DEF IInv, ReadOK
  <1>20. QoS0OK'
    <2> SUFFICES ASSUME NEW m \in QoS0
                 PROVE  OnceOnly(m)' <= 1 /\ (m \notin published => OnceOnly(m)' = 0)
      BY <1>2 DEF QoS0OK
    <2>1. /\ Count(qos0Messages, {m}) \in Nat /\ Count(store.qos0, {m}) \in Nat
          /\ Count(wire, For(m)) \in Nat /\ received[m] \in Nat /\ OnceOnly(m) \in Nat
      BY <1>3, CountsAre, NumbersAre, PacketsAre
    <2>2. Count(store.qos0 \o s0, {m}) = Count(store.qos0, {m}) + Count(s0, {m}) BY <1>4, <1>7, CountConcat
    <2>3. Count(s0, {m}) = Count(qos0Messages, {m}) \/ Count(s0, {m}) = 0 BY <1>21
    <2>4. Count(qos0Messages', {m}) = 0 /\ Count(wire', For(m)) = 0 BY <1>2, <1>11
    <2>5. OnceOnly(m)' = Count(qos0Messages', {m}) + Count(store'.qos0, {m}) + Count(wire', For(m)) + received[m]
      BY <1>2 DEF OnceOnly
    <2>6. OnceOnly(m) = Count(qos0Messages, {m}) + Count(store.qos0, {m}) + Count(wire, For(m)) + received[m]
      BY DEF OnceOnly
    <2>7. OnceOnly(m)' <= OnceOnly(m) /\ OnceOnly(m)' \in Nat BY <1>8, <2>1, <2>2, <2>3, <2>4, <2>5, <2>6
    <2> QED BY <2>1, <2>7 DEF IInv, QoS0OK
  <1>22. PendingOK' BY <1>2 DEF IInv, PendingOK
  <1> QED BY <1>13, <1>14, <1>15, <1>16, <1>17, <1>18, <1>19, <1>20, <1>22 DEF IInv

\* What was persisted comes back into the queues.
LEMMA StartInv == ASSUME IInv, Start PROVE IInv'
  <1> USE DEF connVars, queueVars, flowVars, clientVars, netVars
  <1> DEFINE l == Len(store.unAck)
             again == Newest(store.unAck, l)
             queued == qos12Messages \o again
             n12 == IF queued = <<>> THEN 0 ELSE HandedOut(store.qos12, Len(queued))
             n0 == HandedOut(store.qos0, Len(qos0Messages))
  <1>1. PICK n \in 0 .. n12 :
          /\ \A k \in 1 .. n : Newest(store.qos12, n12)[k] # Nothing
          /\ panicked' = (n < n12)
          /\ quota' = quota - l
          /\ inUse' = inUse \cup ReAcquired(again)
          /\ qos12Messages' = queued \o Newest(store.qos12, n)
          /\ IF n < n12
             THEN /\ store' = [store EXCEPT !.unAck = <<>>, !.qos12 = Others(@, n)]
                  /\ UNCHANGED qos0Messages
             ELSE /\ store' = [qos0  |-> Others(store.qos0, n0),
                               qos12 |-> Others(store.qos12, n),
                               unAck |-> <<>>]
                  /\ qos0Messages' = qos0Messages \o Newest(store.qos0, n0)
    BY DEF Start
  <1>2. /\ link # "off" /\ started' = TRUE
        /\ UNCHANGED <<link, online, connections, counter, pubOut, wire, acks, pending, received, mistaken, published>>
    BY DEF Start
  <1>3. TypeOK /\ NetOK BY DEF IInv
  <1>4. /\ qos0Messages \in Seq(QoS0) /\ qos12Messages \in Seq(Queued) /\ store.qos0 \in Seq(QoS0)
        /\ store.qos12 \in Seq(Queued \cup {Nothing}) /\ store.unAck \in Seq(UnAcked) /\ store.unAck \in Seq(Queued)
    BY <1>3 DEF TypeOK, NetOK
  <1>5. l \in 0 .. l /\ l \in Nat BY <1>4, LenProperties
  <1>6. /\ again \in Seq(UnAcked) /\ again \in Seq(Queued)
        /\ \A K : Count(again, K) = Count(store.unAck, K)
    <2>1. again \in Seq(UnAcked) /\ again \in Seq(Queued) BY <1>4, <1>5, NewestIs
    <2>2. ASSUME NEW K PROVE Count(again, K) = Count(store.unAck, K)
      <3>1. Count(store.unAck, K) = Count(again, K) + Count(Others(store.unAck, l), K)
        BY <1>4, <1>5, CountNewest
      <3>2. Others(store.unAck, l) = <<>>
        <4>1. Others(store.unAck, l) = SubSeq(store.unAck, 1, 0) BY <1>5 DEF Others
        <4>2. SubSeq(store.unAck, 1, 0) \in Seq(Queued) /\ Len(SubSeq(store.unAck, 1, 0)) = 0
          BY <1>4, <1>5, PrefixIs
        <4> QED BY <4>1, <4>2, EmptySeq
      <3>3. Count(again, K) \in Nat BY <2>1, CountIs
      <3> QED BY <3>1, <3>2, <3>3, CountEmpty
    <2> QED BY <2>1, <2>2
  <1> HIDE DEF again
  <1>7. queued \in Seq(Queued) /\ Len(queued) \in Nat BY <1>4, <1>6, ConcatProperties, LenProperties
  <1>8. n0 \in 0 .. Len(store.qos0)
    <2>1. Len(store.qos0) \in Nat /\ Len(qos0Messages) \in Nat BY <1>4, LenProperties
    <2> QED BY <2>1 DEF HandedOut
  <1>9. n12 \in 0 .. Len(store.qos12) /\ n \in 0 .. Len(store.qos12) /\ n \in 0 .. n12 /\ n12 \in Nat
    <2>1. Len(store.qos12) \in Nat BY <1>4, LenProperties
    <2> HIDE DEF queued
    <2>2. n12 \in 0 .. Len(store.qos12) BY <1>7, <2>1 DEF HandedOut
    <2> HIDE DEF n12
    <2>3. n \in 0 .. n12 OBVIOUS
    <2> QED BY <2>1, <2>2, <2>3
  <1> HIDE DEF n12, n0
  <1> DEFINE t == Newest(store.qos12, n)
  <1>10. t \in Seq(Queued) /\ t \in Seq(Queued \cup {Nothing})
    <2>1. t \in Seq(Queued \cup {Nothing}) /\ Len(t) = n /\ \A k \in 1 .. n : t[k] = store.qos12[Len(store.qos12) - k + 1]
      BY <1>4, <1>9, NewestIs
    <2>2. \A k \in 1 .. n12 : Newest(store.qos12, n12)[k] = store.qos12[Len(store.qos12) - k + 1]
      <3>1. ASSUME NEW j \in 0 .. Len(store.qos12)
            PROVE  \A k \in 1 .. j : Newest(store.qos12, j)[k] = store.qos12[Len(store.qos12) - k + 1]
        <4>1. store.qos12 \in Seq(Queued \cup {Nothing}) BY <1>4
        <4> QED BY <4>1, NewestIs
      <3> QED BY <1>9, <3>1
    <2>3. \A k \in 1 .. n : t[k] \in Queued
      <3> TAKE k \in 1 .. n
      <3>1. k \in 1 .. n12 BY <1>9
      <3>2. t[k] = Newest(store.qos12, n12)[k] BY <2>1, <2>2, <3>1
      <3>3. t[k] # Nothing BY <1>1, <3>2
      <3>4. t[k] \in Queued \cup {Nothing} BY <2>1, ElementOfSeq
      <3> QED BY <3>3, <3>4
    <2> HIDE DEF t
    <2>4. t = [k \in 1 .. n |-> t[k]] /\ n \in Nat BY <1>9, <2>1, LenProperties
    <2>5. t \in [1 .. n -> Queued] BY <2>3, <2>4
    <2> QED BY <2>1, <2>4, <2>5, SeqDef
  <1>11. Others(store.qos12, n) \in Seq(Queued \cup {Nothing}) BY <1>4, <1>9, NewestIs
  <1>12. \A K : Count(store.qos12, K) = Count(t, K) + Count(Others(store.qos12, n), K) BY <1>4, <1>9, CountNewest
  <1> HIDE DEF t
  <1>13. qos12Messages' \in Seq(Queued)
         /\ \A K : Count(qos12Messages', K) = Count(qos12Messages, K) + Count(store.unAck, K) + Count(t, K)
    <2>1. qos12Messages' = queued \o t BY <1>1 DEF t
    <2>2. \A K : Count(queued, K) = Count(qos12Messages, K) + Count(again, K) BY <1>4, <1>6, CountConcat
    <2> HIDE DEF queued
    <2>3. \A K : Count(queued \o t, K) = Count(queued, K) + Count(t, K) BY <1>7, <1>10, CountConcat
    <2>4. queued \o t \in Seq(Queued) BY <1>7, <1>10, ConcatProperties
    <2> QED BY <1>6, <2>1, <2>2, <2>3, <2>4
  <1>14. store'.unAck = <<>> /\ store'.qos12 = Others(store.qos12, n)
    <2>1. CASE n < n12
      <3>1. store' = [store EXCEPT !.unAck = <<>>, !.qos12 = Others(@, n)] BY <1>1, <2>1
      <3> QED BY <3>1
    <2>2. CASE ~(n < n12) BY <1>1, <2>2
    <2> QED BY <2>1, <2>2
  <1>15. /\ store'.qos0 \in Seq(QoS0) /\ qos0Messages' \in Seq(QoS0)
         /\ \A K : Count(qos0Messages', K) + Count(store'.qos0, K) = Count(qos0Messages, K) + Count(store.qos0, K)
    <2>1. CASE n < n12
      <3>1. store' = [store EXCEPT !.unAck = <<>>, !.qos12 = Others(@, n)] /\ UNCHANGED qos0Messages
        BY <1>1, <2>1
      <3>2. store'.qos0 = store.qos0 /\ qos0Messages' = qos0Messages BY <3>1
      <3> QED BY <1>4, <3>2
    <2>2. CASE ~(n < n12)
      <3> DEFINE z == Newest(store.qos0, n0)
      <3>1. store'.qos0 = Others(store.qos0, n0) /\ qos0Messages' = qos0Messages \o z BY <1>1, <2>2
      <3>2. Others(store.qos0, n0) \in Seq(QoS0) /\ z \in Seq(QoS0) BY <1>4, <1>8, NewestIs
      <3>3. \A K : Count(store.qos0, K) = Count(z, K) + Count(Others(store.qos0, n0), K) BY <1>4, <1>8, CountNewest
      <3> HIDE DEF z
      <3>4. \A K : Count(qos0Messages \o z, K) = Count(qos0Messages, K) + Count(z, K) BY <1>4, <3>2, CountConcat
      <3>5. qos0Messages \o z \in Seq(QoS0) BY <1>4, <3>2, ConcatProperties
      <3>6. \A K : Count(qos0Messages, K) \in Nat /\ Count(z, K) \in Nat /\ Count(Others(store.qos0, n0), K) \in Nat
        BY <1>4, <3>2, CountIs
      <3>7. ASSUME NEW K
            PROVE  Count(qos0Messages', K) + Count(store'.qos0, K) = Count(qos0Messages, K) + Count(store.qos0, K)
        <4>1. /\ Count(qos0Messages, K) \in Nat /\ Count(z, K) \in Nat /\ Count(Others(store.qos0, n0), K) \in Nat
              /\ Count(store.qos0, K) = Count(z, K) + Count(Others(store.qos0, n0), K)
              /\ Count(qos0Messages', K) = Count(qos0Messages, K) + Count(z, K)
              /\ Count(store'.qos0, K) = Count(Others(store.qos0, n0), K)
          BY <3>1, <3>3, <3>4, <3>6
        <4> QED BY <4>1
      <3> QED BY <3>1, <3>2, <3>5, <3>7
    <2> QED BY <2>1, <2>2
  <1>16. \A m : Waiting(m)' = Waiting(m) /\ InHand(m)' = InHand(m)
    <2> TAKE m
    <2>1. InHand(m)' = InHand(m) BY <1>2 DEF InHand, Under
    <2>2. /\ Count(qos12Messages, For(m)) \in Nat /\ Count(store.qos12, For(m)) \in Nat
          /\ Count(store.unAck, For(m)) \in Nat
      BY <1>3, CountsAre
    <2>3. Count(t, For(m)) \in Nat /\ Count(Others(store.qos12, n), For(m)) \in Nat BY <1>10, <1>11, CountIs
    <2>4. Waiting(m)' = Count(qos12Messages', For(m)) + Count(store'.qos12, For(m)) + Count(store'.unAck, For(m))
      BY DEF Waiting
    <2>5. Waiting(m) = Count(qos12Messages, For(m)) + Count(store.qos12, For(m)) + Count(store.unAck, For(m))
      BY DEF Waiting
    <2>6. /\ Count(store'.unAck, For(m)) = 0 /\ Count(store'.qos12, For(m)) = Count(Others(store.qos12, n), For(m))
          /\ Count(qos12Messages', For(m))
               = Count(qos12Messages, For(m)) + Count(store.unAck, For(m)) + Count(t, For(m))
          /\ Count(store.qos12, For(m)) = Count(t, For(m)) + Count(Others(store.qos12, n), For(m))
      BY <1>12, <1>13, <1>14, CountEmpty
    <2> QED BY <2>1, <2>2, <2>3, <2>4, <2>5, <2>6
  <1>17. inUse' \subseteq Id /\ inUse \subseteq inUse'
    <2>1. \A k \in DOMAIN again : again[k].id \in Id
      <3> TAKE k \in DOMAIN again
      <3>1. again[k] \in UnAcked BY <1>6, ElementOfSeq, LenProperties
      <3> QED BY <3>1, Fields
    <2>2. ReAcquired(again) \subseteq Id BY <2>1 DEF ReAcquired
    <2> QED BY <1>1, <1>3, <2>2 DEF TypeOK
  <1>18. quota' \in Int /\ quota' <= quota /\ quota \in Int /\ quota <= Quota /\ Quota \in Nat
    <2>1. quota' = quota - l /\ quota \in Int /\ quota <= Quota BY <1>1, <1>3 DEF TypeOK
    <2> HIDE DEF l
    <2> QED BY <1>5, <2>1, DeliveryAssumption DEF DeliveryAssumption
  <1>19. panicked' \in BOOLEAN BY <1>1
  <1>20. TypeOK'
    <2>1. quota' <= Quota BY <1>18
    <2>2. store'.unAck \in Seq(Queued) BY <1>14, EmptySeq
    <2> QED BY <1>2, <1>3, <1>11, <1>13, <1>14, <1>15, <1>17, <1>18, <1>19, <2>1, <2>2 DEF TypeOK
  <1>21. NetOK' BY <1>2, <1>3, <1>14, EmptySeq DEF NetOK
  <1>22. LinkOK' BY <1>2 DEF IInv, LinkOK
  <1>23. WindowOK'
    <2>1. Open' = Open BY <1>2 DEF Open
    <2>2. quota + Cardinality(Open) <= Quota /\ Cardinality(Open) <= Quota /\ Open \subseteq inUse
      BY DEF IInv, WindowOK
    <2>3. Cardinality(Open) \in Nat BY <1>3, NumbersAre
    <2>4. quota' + Cardinality(Open) <= Quota BY <1>18, <2>2, <2>3
    <2> QED BY <1>17, <2>1, <2>2, <2>4 DEF WindowOK
  <1>24. ExchangeOK' BY <1>2 DEF IInv, ExchangeOK, Had
  <1>25. PlacesOK' BY <1>2, <1>16 DEF IInv, PlacesOK, Had
  <1>26. ReadOK' BY <1>2, <1>16 DEF IInv, ReadOK, OnWire
  <1>27. QoS0OK'
    <2> SUFFICES ASSUME NEW m \in QoS0 PROVE OnceOnly(m)' = OnceOnly(m)
      BY <1>2 DEF IInv, QoS0OK
    <2>1. /\ Count(qos0Messages, {m}) \in Nat /\ Count(store.qos0, {m}) \in Nat
          /\ Count(wire, For(m)) \in Nat /\ received[m] \in Nat
      BY <1>3, CountsAre, NumbersAre, PacketsAre
    <2>2. Count(qos0Messages', {m}) + Count(store'.qos0, {m}) = Count(qos0Messages, {m}) + Count(store.qos0, {m})
          /\ Count(qos0Messages', {m}) \in Nat /\ Count(store'.qos0, {m}) \in Nat
      BY <1>15, CountIs
    <2>3. OnceOnly(m)' = Count(qos0Messages', {m}) + Count(store'.qos0, {m}) + Count(wire, For(m)) + received[m]
      BY <1>2 DEF OnceOnly
    <2>4. OnceOnly(m) = Count(qos0Messages, {m}) + Count(store.qos0, {m}) + Count(wire, For(m)) + received[m]
      BY DEF OnceOnly
    <2> QED BY <2>1, <2>2, <2>3, <2>4
  <1>28. PendingOK' BY <1>2 DEF IInv, PendingOK
  <1> QED BY <1>20, <1>21, <1>22, <1>23, <1>24, <1>25, <1>26, <1>27, <1>28 DEF IInv

-----------------------------------------------------------------------------
(* Together *)

\* Every step keeps the invariant.
LEMMA NextInv == IInv /\ [Next]_vars => IInv'
  <1> SUFFICES ASSUME IInv, [Next]_vars PROVE IInv' OBVIOUS
  <1>1. ASSUME NEW n \in Pub, Forward(n) PROVE IInv' BY <1>1, ForwardInv
  <1>2. ASSUME NEW n \in Pub, PersistPublish(n) PROVE IInv' BY <1>2, PersistInv
  <1>3. CASE Session BY <1>3, ConnectInv, StartInv, OfflineInv, StoreInv DEF Session
  <1>4. CASE Sending BY <1>4, SendQoS12Inv, UnexpectedInv, SendQoS0Inv DEF Sending
  <1>5. CASE ClientReads BY <1>5, ClientReadsInv
  <1>6. CASE Acking BY <1>6, AcknowledgedInv, PubrecInv DEF Acking
  <1>7. CASE Over \/ UNCHANGED vars BY <1>7, StutterInv DEF Over
  <1> QED BY <1>1, <1>2, <1>3, <1>4, <1>5, <1>6, <1>7 DEF Next

\* It holds in every reachable state.
LEMMA Invariant == Spec => []IInv
  <1> QED BY InitInv, NextInv, PTL DEF Spec

\* Through all disconnects a QoS 1 or 2 publish for a durable session is in one
\* place until the client has it, or takes it for another; none is given to the
\* client more than once per connection, and a QoS 0 publish only once; and no
\* more is in flight than the client takes (persist and reload: writer.go
\* packetLoader, flowControl.go).
THEOREM ConservedCorrect == Spec => []Conserved
  <1>1. IInv => Conserved BY InvConserved
  <1> QED BY <1>1, Invariant, PTL
=============================================================================

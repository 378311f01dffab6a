---------------------------- MODULE TypesProofs ----------------------------
(***************************************************************************)
(* Proofs about package types. The ring buffer is a queue, for every set   *)
(* of elements, every smallest capacity and every bound on the length;     *)
(* what the methods do to the ring is stated of its five fields, b for the *)
(* slots, n for their number, h for head, t for tail and c for count,      *)
(* before and after. Its capacity is the smallest one times a power of     *)
(* two, which the bit trick of the index rests on. And however many        *)
(* callers race for a once object, f is called once, and a OnceWait lets   *)
(* nobody return before that call has ended, whether f panics or not.      *)
(***************************************************************************)
EXTENDS Queue, Once, SequenceTheorems, WellFoundedInduction, TLAPS

-----------------------------------------------------------------------------
(* The queue *)

\* The element k places behind the oldest one.
Item(b, n, h, k) == b[Wrap(h + k, n)]

\* The ring from head on: c elements, then free slots only.
Ring(b, n, h, t, c) ==
  /\ n \in Nat \ {0}
  /\ b \in [0 .. n - 1 -> Elem \cup {Nil}]
  /\ h \in 0 .. n - 1 /\ t \in 0 .. n - 1 /\ c \in 0 .. n
  /\ t = Wrap(h + c, n)
  /\ \A k \in 0 .. c - 1 : Item(b, n, h, k) \in Elem
  /\ \A k \in c .. n - 1 : Item(b, n, h, k) = Nil

\* The inductive invariant.
IInv == Ring(buf, cap, head, tail, count) /\ ret \in Elem \cup {Nil}

\* No two places share a slot, and every slot has a place.
LEMMA Places ==
  ASSUME NEW n \in Nat \ {0}, NEW h \in 0 .. n - 1
  PROVE  /\ \A k \in 0 .. n - 1 : Wrap(h + k, n) \in 0 .. n - 1
         /\ \A j, k \in 0 .. n - 1 : Wrap(h + j, n) = Wrap(h + k, n) => j = k
         /\ \A i \in 0 .. n - 1 : \E k \in 0 .. n - 1 : i = Wrap(h + k, n)
  <1>1. ASSUME NEW i \in 0 .. n - 1
        PROVE  \E k \in 0 .. n - 1 : i = Wrap(h + k, n)
    <2>1. CASE i >= h
      <3>1. i - h \in 0 .. n - 1 /\ i = Wrap(h + (i - h), n)
        BY <2>1 DEF Wrap
      <3>2. QED BY <3>1
    <2>2. CASE i < h
      <3>1. i - h + n \in 0 .. n - 1 /\ i = Wrap(h + (i - h + n), n)
        BY <2>2 DEF Wrap
      <3>2. QED BY <3>1
    <2>3. QED BY <2>1, <2>2
  <1>2. QED BY <1>1 DEF Wrap

\* A ring with a free slot takes one more element.
LEMMA RingAdd ==
  ASSUME NEW b, NEW n, NEW h, NEW t, NEW c \in Nat, NEW e \in Elem,
         Ring(b, n, h, t, c), c # n
  PROVE  LET b2 == Put(b, t, e)
         IN /\ Ring(b2, n, h, Wrap(t + 1, n), c + 1)
            /\ \A k \in 0 .. c - 1 : Item(b2, n, h, k) = Item(b, n, h, k)
            /\ Item(b2, n, h, c) = e
  <1> DEFINE b2 == Put(b, t, e)
  <1>1. /\ n \in Nat \ {0} /\ h \in 0 .. n - 1 /\ c \in 0 .. n - 1
        /\ t \in 0 .. n - 1 /\ t = Wrap(h + c, n)
        /\ b \in [0 .. n - 1 -> Elem \cup {Nil}]
    BY DEF Ring
  <1>2. \A k \in 0 .. n - 1 : Item(b2, n, h, k) = IF k = c THEN e ELSE Item(b, n, h, k)
    BY <1>1, Places DEF Item, Put
  <1>3. Wrap(t + 1, n) = Wrap(h + (c + 1), n) /\ Wrap(t + 1, n) \in 0 .. n - 1
    BY <1>1 DEF Wrap
  <1>4. b2 \in [0 .. n - 1 -> Elem \cup {Nil}]
    BY <1>1 DEF Put
  <1>5. \A k \in 0 .. (c + 1) - 1 : Item(b2, n, h, k) \in Elem
    BY <1>1, <1>2 DEF Ring
  <1>6. \A k \in c + 1 .. n - 1 : Item(b2, n, h, k) = Nil
    BY <1>1, <1>2 DEF Ring
  <1>7. Ring(b2, n, h, Wrap(t + 1, n), c + 1)
    BY <1>1, <1>3, <1>4, <1>5, <1>6 DEF Ring
  <1>8. QED BY <1>1, <1>2, <1>7

\* A ring that is not empty gives its oldest element up.
LEMMA RingRemove ==
  ASSUME NEW b, NEW n, NEW h, NEW t, NEW c, Ring(b, n, h, t, c), c > 0
  PROVE  LET b2 == Freed(b, h)
             h2 == Wrap(h + 1, n)
         IN /\ Ring(b2, n, h2, t, c - 1)
            /\ \A k \in 0 .. c - 2 : Item(b2, n, h2, k) = Item(b, n, h, k + 1)
            /\ b[h] = Item(b, n, h, 0)
  <1> DEFINE b2 == Freed(b, h)
             h2 == Wrap(h + 1, n)
  <1>1. /\ n \in Nat \ {0} /\ h \in 0 .. n - 1 /\ c \in 1 .. n
        /\ t \in 0 .. n - 1 /\ t = Wrap(h + c, n)
        /\ b \in [0 .. n - 1 -> Elem \cup {Nil}]
    BY DEF Ring
  <1>2. h2 \in 0 .. n - 1 /\ t = Wrap(h2 + (c - 1), n)
    BY <1>1 DEF Wrap
  <1>3. \A k \in 0 .. n - 2 : Wrap(h2 + k, n) = Wrap(h + (k + 1), n)
    BY <1>1 DEF Wrap
  <1>4. Wrap(h + 0, n) = h /\ Wrap(h2 + (n - 1), n) = h
    BY <1>1 DEF Wrap
  <1>5. \A k \in 0 .. n - 2 : Wrap(h + (k + 1), n) \in 0 .. n - 1 /\ Wrap(h + (k + 1), n) # h
    BY <1>1 DEF Wrap
  <1>6. \A k \in 0 .. n - 2 : Item(b2, n, h2, k) = Item(b, n, h, k + 1)
    BY <1>1, <1>3, <1>5 DEF Item, Freed
  <1>7. Item(b2, n, h2, n - 1) = Nil
    BY <1>1, <1>4 DEF Item, Freed
  <1>8. b2 \in [0 .. n - 1 -> Elem \cup {Nil}]
    BY <1>1 DEF Freed
  <1>9. \A k \in 0 .. (c - 1) - 1 : Item(b2, n, h2, k) \in Elem
    BY <1>1, <1>6 DEF Ring
  <1>10. \A k \in c - 1 .. n - 1 : Item(b2, n, h2, k) = Nil
    <2>1. ASSUME NEW k \in c - 1 .. n - 1
          PROVE  Item(b2, n, h2, k) = Nil
      <3>1. CASE k = n - 1
        BY <3>1, <1>7
      <3>2. CASE k # n - 1
        <4>1. k \in 0 .. n - 2 /\ k + 1 \in c .. n - 1
          BY <1>1, <3>2
        <4>2. QED BY <4>1, <1>6 DEF Ring
      <3>3. QED BY <3>1, <3>2
    <2>2. QED BY <2>1
  <1>11. Ring(b2, n, h2, t, c - 1)
    BY <1>1, <1>2, <1>8, <1>9, <1>10 DEF Ring
  <1>12. QED BY <1>1, <1>4, <1>6, <1>11 DEF Item

\* resize keeps the elements in their order, at the front of a buffer with as
\* many free slots behind them.
LEMMA RingResize ==
  ASSUME NEW b, NEW n, NEW h, NEW t, NEW c, Ring(b, n, h, t, c), c > 0
  PROVE  LET b2 == Resized(b, n, h, t, c)
         IN /\ Ring(b2, NewCap(c), 0, c, c)
            /\ \A k \in 0 .. c - 1 : Item(b2, NewCap(c), 0, k) = Item(b, n, h, k)
  <1> DEFINE b2 == Resized(b, n, h, t, c)
  <1>1. /\ n \in Nat \ {0} /\ h \in 0 .. n - 1 /\ c \in 1 .. n
        /\ t \in 0 .. n - 1 /\ t = Wrap(h + c, n)
        /\ b \in [0 .. n - 1 -> Elem \cup {Nil}]
    BY DEF Ring
  <1>2. b2 = [i \in 0 .. c * 2 - 1 |-> IF i < c THEN Item(b, n, h, i) ELSE Nil]
    <2>1. ASSUME NEW i \in 0 .. c * 2 - 1
          PROVE  (IF t > h
                  THEN IF i < t - h THEN b[h + i] ELSE Nil
                  ELSE IF i < n - h THEN b[h + i]
                       ELSE IF i < (n - h) + t THEN b[i - (n - h)] ELSE Nil)
                 = (IF i < c THEN Item(b, n, h, i) ELSE Nil)
      <3>1. CASE t > h
        <4>1. c = t - h /\ (i < c => Wrap(h + i, n) = h + i)
          BY <1>1, <3>1 DEF Wrap
        <4>2. QED BY <4>1, <3>1 DEF Item
      <3>2. CASE ~(t > h)
        <4>1. c = (n - h) + t
          BY <1>1, <3>2 DEF Wrap
        <4>2. i < n - h => Wrap(h + i, n) = h + i
          BY <1>1 DEF Wrap
        <4>3. ~(i < n - h) => Wrap(h + i, n) = i - (n - h)
          BY <1>1 DEF Wrap
        <4>4. i < n - h => i < c
          BY <1>1, <4>1
        <4>5. QED BY <3>2, <4>1, <4>2, <4>3, <4>4 DEF Item
      <3>3. QED BY <3>1, <3>2
    <2>2. QED BY <2>1 DEF Resized, NewCap
  <1>3. \A k \in 0 .. c * 2 - 1 : Wrap(0 + k, NewCap(c)) = k
    BY <1>1 DEF Wrap, NewCap
  <1>4. \A k \in 0 .. c * 2 - 1 :
          Item(b2, NewCap(c), 0, k) = IF k < c THEN Item(b, n, h, k) ELSE Nil
    BY <1>2, <1>3 DEF Item
  <1>5. NewCap(c) = c * 2 /\ NewCap(c) \in Nat \ {0} /\ c \in 0 .. NewCap(c) - 1
    BY <1>1 DEF NewCap
  <1>6. \A k \in 0 .. c - 1 : Item(b2, NewCap(c), 0, k) = Item(b, n, h, k)
    BY <1>1, <1>4
  <1>7. b2 \in [0 .. NewCap(c) - 1 -> Elem \cup {Nil}]
    <2>1. \A i \in 0 .. c * 2 - 1 : (IF i < c THEN Item(b, n, h, i) ELSE Nil) \in Elem \cup {Nil}
      BY <1>1 DEF Ring
    <2>2. QED BY <1>2, <1>5, <2>1
  <1>8. \A k \in 0 .. c - 1 : Item(b2, NewCap(c), 0, k) \in Elem
    BY <1>6 DEF Ring
  <1>9. \A k \in c .. NewCap(c) - 1 : Item(b2, NewCap(c), 0, k) = Nil
    BY <1>1, <1>4, <1>5
  <1>10. c = Wrap(0 + c, NewCap(c)) /\ 0 \in 0 .. NewCap(c) - 1 /\ c \in 0 .. NewCap(c)
    BY <1>1, <1>5 DEF Wrap
  <1>11. Ring(b2, NewCap(c), 0, c, c)
    BY <1>5, <1>7, <1>8, <1>9, <1>10 DEF Ring
  <1>12. QED BY <1>6, <1>11

\* The initial ring is empty.
LEMMA InitIInv == Init => IInv
  BY QueueAssumption DEF Init, IInv, Ring, Item, Wrap

\* What Add does to the elements.
LEMMA AddStep ==
  ASSUME IInv, NEW e \in Elem, Add(e)
  PROVE  /\ IInv'
         /\ count' = count + 1 /\ ret' = Nil
         /\ \A k \in 0 .. count - 1 :
              Item(buf', cap', head', k) = Item(buf, cap, head, k)
         /\ Item(buf', cap', head', count) = e
  <1>1. count \in Nat /\ count' = count + 1 /\ ret' = Nil /\ cap \in Nat \ {0}
    BY DEF IInv, Ring, Add
  <1>2. CASE count # cap
    <2>1. /\ buf' = Put(buf, tail, e) /\ cap' = cap /\ head' = head
          /\ tail' = Wrap(tail + 1, cap)
      BY <1>2 DEF Add
    <2>2. Ring(buf, cap, head, tail, count)
      BY DEF IInv
    <2>3. QED BY <1>1, <1>2, <2>1, <2>2, RingAdd DEF IInv
  <1>3. CASE count = cap
    <2> DEFINE front == Resized(buf, cap, head, tail, count)
    <2>1. /\ buf' = Put(front, count, e) /\ cap' = NewCap(count) /\ head' = 0
          /\ tail' = Wrap(count + 1, NewCap(count))
      BY <1>3 DEF Add
    <2>2. /\ Ring(front, NewCap(count), 0, count, count)
          /\ \A k \in 0 .. count - 1 :
               Item(front, NewCap(count), 0, k) = Item(buf, cap, head, k)
      BY <1>1, <1>3, RingResize DEF IInv
    <2> HIDE DEF front
    <2>3. count # NewCap(count)
      BY <1>1, <1>3 DEF NewCap
    <2>4. /\ Ring(Put(front, count, e), NewCap(count), 0, Wrap(count + 1, NewCap(count)), count + 1)
          /\ \A k \in 0 .. count - 1 :
               Item(Put(front, count, e), NewCap(count), 0, k) = Item(front, NewCap(count), 0, k)
          /\ Item(Put(front, count, e), NewCap(count), 0, count) = e
      BY <1>1, <2>2, <2>3, RingAdd
    <2>5. /\ Ring(buf', cap', head', tail', count')
          /\ \A k \in 0 .. count - 1 : Item(buf', cap', head', k) = Item(buf, cap, head, k)
          /\ Item(buf', cap', head', count) = e
      BY <1>1, <2>1, <2>2, <2>4
    <2>6. QED BY <1>1, <2>5 DEF IInv
  <1>4. QED BY <1>2, <1>3

\* What Remove of a non-empty queue does to the elements.
LEMMA RemoveStep ==
  ASSUME IInv, Remove
  PROVE  /\ IInv'
         /\ count > 0 /\ count' = count - 1
         /\ ret' = Item(buf, cap, head, 0)
         /\ \A k \in 0 .. count - 2 :
              Item(buf', cap', head', k) = Item(buf, cap, head, k + 1)
  <1> DEFINE b2 == Freed(buf, head)
             h2 == Wrap(head + 1, cap)
  <1>1. count \in Nat \ {0} /\ count' = count - 1 /\ ret' = buf[head] /\ cap \in Nat \ {0}
    BY DEF IInv, Ring, Remove
  <1>2. /\ Ring(b2, cap, h2, tail, count - 1)
        /\ \A k \in 0 .. count - 2 : Item(b2, cap, h2, k) = Item(buf, cap, head, k + 1)
        /\ buf[head] = Item(buf, cap, head, 0)
    <2>1. Ring(buf, cap, head, tail, count) /\ count > 0
      BY <1>1 DEF IInv
    <2>2. QED BY <2>1, RingRemove
  <1>3. ret' \in Elem /\ ret' = Item(buf, cap, head, 0)
    BY <1>1, <1>2 DEF IInv, Ring
  <1>4. CASE ~Shrinks(count - 1, cap)
    <2>1. buf' = b2 /\ cap' = cap /\ head' = h2 /\ tail' = tail
      BY <1>4 DEF Remove
    <2> HIDE DEF b2, h2
    <2>2. QED BY <1>1, <1>2, <1>3, <2>1 DEF IInv
  <1>5. CASE Shrinks(count - 1, cap)
    <2> DEFINE b3 == Resized(b2, cap, h2, tail, count - 1)
    <2>1. /\ buf' = b3 /\ cap' = NewCap(count - 1) /\ head' = 0
          /\ tail' = count - 1
      BY <1>5 DEF Remove
    <2> HIDE DEF b2, h2
    <2>2. count - 1 > 0
      BY <1>1, <1>5, QueueAssumption DEF Shrinks
    <2>3. /\ Ring(b3, NewCap(count - 1), 0, count - 1, count - 1)
          /\ \A k \in 0 .. (count - 1) - 1 :
               Item(b3, NewCap(count - 1), 0, k) = Item(b2, cap, h2, k)
      BY <1>2, <2>2, RingResize
    <2> HIDE DEF b3
    <2>4. \A k \in 0 .. count - 2 :
            Item(b3, NewCap(count - 1), 0, k) = Item(buf, cap, head, k + 1)
      BY <1>1, <1>2, <2>3
    <2>5. QED BY <1>1, <1>3, <2>1, <2>3, <2>4 DEF IInv
  <1>6. QED BY <1>4, <1>5

\* Get answers an element and changes nothing.
LEMMA GetStep ==
  ASSUME IInv, NEW i \in Int, Get(i)
  PROVE  /\ IInv'
         /\ i \in -count .. count - 1
         /\ ret' = Item(buf, cap, head, IF i < 0 THEN i + count ELSE i)
         /\ UNCHANGED <<buf, cap, head, tail, count>>
  <1>1. i \in -count .. count - 1 /\ count \in Nat
    BY DEF IInv, Ring, Get
  <1>2. (IF i < 0 THEN i + count ELSE i) \in 0 .. count - 1
    BY <1>1
  <1>3. ret' = Item(buf, cap, head, IF i < 0 THEN i + count ELSE i)
    BY DEF Get, Item
  <1>4. ret' \in Elem
    BY <1>2, <1>3 DEF IInv, Ring
  <1>5. UNCHANGED <<buf, cap, head, tail, count>>
    BY DEF Get
  <1>6. QED BY <1>1, <1>3, <1>4, <1>5 DEF IInv

LEMMA NextIInv == IInv /\ [Next]_vars => IInv'
  <1> SUFFICES ASSUME IInv, [Next]_vars PROVE IInv'
    OBVIOUS
  <1>1. ASSUME NEW e \in Elem, Add(e) PROVE IInv'
    BY <1>1, AddStep
  <1>2. CASE Empty
    BY <1>2 DEF Empty, IInv
  <1>3. CASE Remove
    BY <1>3, RemoveStep
  <1>4. ASSUME NEW i \in -MaxLength .. MaxLength - 1, Get(i) PROVE IInv'
    <2>1. i \in Int
      BY QueueAssumption
    <2>2. QED BY <1>4, <2>1, GetStep
  <1>5. CASE UNCHANGED vars
    BY <1>5 DEF vars, IInv
  <1>6. QED BY <1>1, <1>2, <1>3, <1>4, <1>5 DEF Next

\* IInv implies the two invariants the run checks.
LEMMA IInvTypeOK == IInv => TypeOK
  BY DEF IInv, Ring, TypeOK

LEMMA IInvRingOK == IInv => RingOK
  <1> SUFFICES ASSUME IInv PROVE RingOK
    OBVIOUS
  <1>1. /\ cap \in Nat \ {0} /\ head \in 0 .. cap - 1 /\ count \in 0 .. cap
        /\ tail = Wrap(head + count, cap)
    BY DEF IInv, Ring
  <1>2. ASSUME NEW i \in 0 .. cap - 1
        PROVE  (buf[i] # Nil) <=> (\E k \in 0 .. count - 1 : i = Wrap(head + k, cap))
    <2>1. PICK k \in 0 .. cap - 1 : i = Wrap(head + k, cap)
      <3>1. cap \in Nat \ {0} /\ head \in 0 .. cap - 1
        BY <1>1
      <3>2. \A j \in 0 .. cap - 1 : \E l \in 0 .. cap - 1 : j = Wrap(head + l, cap)
        BY <3>1, Places, Zenon
      <3>3. QED BY <3>2
    <2>2. \A j \in 0 .. count - 1 : i = Wrap(head + j, cap) => j = k
      BY <1>1, <2>1, Places
    <2>3. buf[i] = Item(buf, cap, head, k)
      BY <2>1 DEF Item
    <2>4. CASE k \in 0 .. count - 1
      BY <2>1, <2>3, <2>4, QueueAssumption DEF IInv, Ring
    <2>5. CASE k \in count .. cap - 1
      <3>1. buf[i] = Nil
        BY <2>3, <2>5 DEF IInv, Ring
      <3>2. ~ \E j \in 0 .. count - 1 : i = Wrap(head + j, cap)
        BY <1>1, <2>2, <2>5
      <3>3. QED BY <3>1, <3>2
    <2>6. QED BY <1>1, <2>4, <2>5
  <1>3. QED BY <1>1, <1>2 DEF RingOK

\* Whatever grows, wraps and shrinks, the fields of the ring stay what resize,
\* Add and Remove rely on (queue.go).
THEOREM TypeCorrect == Spec => []TypeOK
  <1>1. Spec => []IInv
    BY InitIInv, NextIInv, PTL DEF Spec
  <1>2. QED BY <1>1, IInvTypeOK, PTL

\* Exactly the slots from head on are occupied and tail is the next one, after
\* any sequence of calls: Add never overwrites, Remove never keeps (queue.go).
THEOREM RingCorrect == Spec => []RingOK
  <1>1. Spec => []IInv
    BY InitIInv, NextIInv, PTL DEF Spec
  <1>2. QED BY <1>1, IInvRingOK, PTL

-----------------------------------------------------------------------------
(* The capacity *)

LEMMA LeastOf ==
  ASSUME NEW T, T \subseteq Nat, T # {}
  PROVE  \E x \in T : \A y \in T : x <= y
  <1>1. PICK R : R = OpToRel(<, Nat) OBVIOUS
  <1>2. IsWellFoundedOn(R, Nat) BY <1>1, NatLessThanWellFounded
  <1>3. PICK x \in T : \A y \in T : <<y, x>> \notin R BY <1>2, WFMin
  <1>4. ASSUME NEW y \in T PROVE x <= y
    <2>1. ~(y < x) BY <1>1, <1>3 DEF OpToRel
    <2>2. QED BY <2>1
  <1>5. QED BY <1>4

\* The capacities can be listed.
LEMMA DoubledExists ==
  ASSUME NEW n \in Nat
  PROVE  \E g : g = [i \in 0 .. n |-> IF i = 0 THEN MinQueueLen ELSE 2 * g[i - 1]]
  <1> DEFINE list(m) == \E g : g = [i \in 0 .. m |-> IF i = 0 THEN MinQueueLen ELSE 2 * g[i - 1]]
             T == {m \in Nat : ~list(m)}
  <1>1. list(0)
    <2>1. PICK g : g = [i \in 0 .. 0 |-> MinQueueLen] OBVIOUS
    <2>2. g = [i \in 0 .. 0 |-> IF i = 0 THEN MinQueueLen ELSE 2 * g[i - 1]] BY <2>1
    <2>3. QED BY <2>2
  <1>2. ASSUME NEW m \in Nat \ {0}, list(m - 1) PROVE list(m)
    <2>1. PICK g : g = [i \in 0 .. m - 1 |-> IF i = 0 THEN MinQueueLen ELSE 2 * g[i - 1]] BY <1>2
    <2>2. PICK h : h = [i \in 0 .. m |-> IF i = m THEN 2 * g[m - 1] ELSE g[i]] OBVIOUS
    <2>3. \A i \in 0 .. m : i # 0 => h[i - 1] = g[i - 1] BY <2>2
    <2>4. \A i \in 0 .. m : h[i] = IF i = 0 THEN MinQueueLen ELSE 2 * h[i - 1] BY <2>1, <2>2, <2>3
    <2>5. h = [i \in 0 .. m |-> h[i]] BY <2>2
    <2>6. h = [i \in 0 .. m |-> IF i = 0 THEN MinQueueLen ELSE 2 * h[i - 1]] BY <2>4, <2>5
    <2>7. QED BY <2>6
  <1> HIDE DEF list
  <1>3. T = {}
    <2> SUFFICES ASSUME T # {} PROVE FALSE OBVIOUS
    <2>1. PICK x : x \in T /\ \A y \in T : x <= y
      <3>1. T \subseteq Nat OBVIOUS
      <3> HIDE DEF T
      <3>2. QED BY <3>1, LeastOf
    <2>2. x \in Nat /\ ~list(x) BY <2>1
    <2>3. x # 0 BY <1>1, <2>2
    <2>4. x - 1 \in Nat /\ ~(x <= x - 1) BY <2>2, <2>3
    <2>5. list(x - 1) BY <2>1, <2>4
    <2>6. QED BY <1>2, <2>2, <2>3, <2>5
  <1>4. list(n) BY <1>3
  <1>5. QED BY <1>4 DEF list

LEMMA DoubledIs ==
  \A k \in 0 .. MaxLength : Doubled[k] = IF k = 0 THEN MinQueueLen ELSE 2 * Doubled[k - 1]
  <1>1. PICK g : g = [i \in 0 .. MaxLength |-> IF i = 0 THEN MinQueueLen ELSE 2 * g[i - 1]]
    BY DoubledExists, QueueAssumption
  <1>2. Doubled = [i \in 0 .. MaxLength |-> IF i = 0 THEN MinQueueLen ELSE 2 * Doubled[i - 1]]
    BY <1>1, Zenon DEF Doubled
  <1>3. QED BY <1>2

LEMMA DoubledGrows == \A k \in 0 .. MaxLength : Doubled[k] \in Nat /\ k < Doubled[k]
  <1> DEFINE grows(k) == Doubled[k] \in Nat /\ k < Doubled[k]
             T == {k \in 0 .. MaxLength : ~grows(k)}
  <1>1. ASSUME T # {} PROVE FALSE
    <2>1. PICK x : x \in T /\ \A y \in T : x <= y
      <3>1. T \subseteq Nat BY QueueAssumption
      <3> HIDE DEF T
      <3>2. QED BY <1>1, <3>1, LeastOf
    <2>2. x \in 0 .. MaxLength /\ x \in Nat /\ ~grows(x) BY <2>1, QueueAssumption
    <2>3. x # 0 BY <2>2, DoubledIs, QueueAssumption
    <2>4. x - 1 \in 0 .. MaxLength /\ ~(x <= x - 1) BY <2>2, <2>3, QueueAssumption
    <2>5. grows(x - 1) BY <2>1, <2>4
    <2>6. Doubled[x] = 2 * Doubled[x - 1] BY <2>2, <2>3, DoubledIs
    <2>7. QED BY <2>2, <2>4, <2>5, <2>6
  <1>2. QED BY <1>1

LEMMA NextCapacity == IInv /\ CapacityOK /\ [Next]_vars => CapacityOK'
  <1> SUFFICES ASSUME IInv, CapacityOK, [Next]_vars PROVE CapacityOK'
    OBVIOUS
  <1>1. PICK k \in 0 .. MaxLength : cap = Doubled[k] BY DEF CapacityOK
  <1>2. /\ cap \in Nat \ {0} /\ count \in 0 .. cap /\ k < cap
        /\ MaxLength \in Nat /\ MinQueueLen \in Nat \ {0}
    BY <1>1, DoubledGrows, QueueAssumption DEF IInv, Ring
  <1>3. ASSUME NEW e \in Elem, Add(e) PROVE CapacityOK'
    <2>1. CASE cap' = cap BY <1>1, <2>1 DEF CapacityOK
    <2>2. CASE count = cap /\ cap' = 2 * cap
      <3>1. k + 1 \in 0 .. MaxLength BY <1>2, <1>3, <2>2 DEF Add
      <3>2. Doubled[k + 1] = 2 * cap BY <1>1, <1>2, <3>1, DoubledIs
      <3>3. QED BY <2>2, <3>1, <3>2 DEF CapacityOK
    <2>3. cap' = cap \/ (count = cap /\ cap' = 2 * cap) BY <1>2, <1>3 DEF Add, NewCap
    <2>4. QED BY <2>1, <2>2, <2>3
  <1>4. CASE Remove
    <2>1. CASE cap' = cap BY <1>1, <2>1 DEF CapacityOK
    <2>2. CASE cap > MinQueueLen /\ cap = 2 * cap'
      <3>1. k # 0
        <4>1. 0 \in 0 .. MaxLength BY <1>2
        <4>2. Doubled[0] = MinQueueLen BY <4>1, DoubledIs
        <4>3. k = 0 => cap = MinQueueLen BY <1>1, <4>2, Zenon
        <4>4. cap # MinQueueLen BY <1>2, <2>2
        <4>5. QED BY <4>3, <4>4, Zenon
      <3>2. k - 1 \in 0 .. MaxLength BY <1>2, <3>1
      <3>3. cap = 2 * Doubled[k - 1] /\ Doubled[k - 1] \in Nat BY <1>1, <3>1, <3>2, DoubledIs, DoubledGrows
      <3>4. cap' \in Int BY <1>2, <1>4 DEF Remove, NewCap
      <3>5. QED BY <2>2, <3>2, <3>3, <3>4 DEF CapacityOK
    <2>3. cap' = cap \/ (cap > MinQueueLen /\ cap = 2 * cap')
      BY <1>2, <1>4 DEF Remove, NewCap, Shrinks
    <2>4. QED BY <2>1, <2>2, <2>3
  <1>5. CASE UNCHANGED cap BY <1>1, <1>5 DEF CapacityOK
  <1>6. QED BY <1>3, <1>4, <1>5 DEF Next, Empty, Get, vars

\* The capacity stays MinQueueLen times a power of two, so that "& (len - 1)" is
\* the remainder, after any sequence of growing and shrinking (queue.go:37-66).
THEOREM CapacityCorrect == Spec => []CapacityOK
  <1>1. Init => CapacityOK
    BY DoubledIs, QueueAssumption DEF Init, CapacityOK
  <1>2. Spec => []IInv
    BY InitIInv, NextIInv, PTL DEF Spec
  <1>3. QED BY <1>1, <1>2, NextCapacity, PTL DEF Spec

-----------------------------------------------------------------------------
(* The ring buffer implements the queue of Fifo.                           *)

\* The elements from head on, as a sequence.
Items(b, n, h, c) == [k \in 1 .. c |-> b[Wrap(h + k - 1, n)]]

LEMMA ItemsSeq ==
  ASSUME NEW b, NEW n, NEW h, NEW t, NEW c, Ring(b, n, h, t, c)
  PROVE  /\ Items(b, n, h, c) \in Seq(Elem)
         /\ Len(Items(b, n, h, c)) = c /\ c \in Nat
         /\ \A k \in 1 .. c : Items(b, n, h, c)[k] = Item(b, n, h, k - 1)
  <1>1. c \in Nat /\ h \in Nat
    BY DEF Ring
  <1>2. \A k \in 1 .. c : k - 1 \in 0 .. c - 1 /\ h + k - 1 = h + (k - 1)
    BY <1>1
  <1>3. \A k \in 1 .. c : b[Wrap(h + k - 1, n)] = Item(b, n, h, k - 1)
    BY <1>2 DEF Item
  <1>4. \A k \in 1 .. c : b[Wrap(h + k - 1, n)] \in Elem
    BY <1>1, <1>2, <1>3 DEF Ring
  <1>5. Items(b, n, h, c) \in [1 .. c -> Elem]
    BY <1>4 DEF Items
  <1>6. Items(b, n, h, c) \in Seq(Elem) /\ Len(Items(b, n, h, c)) = c
    BY <1>1, <1>5
  <1>7. QED BY <1>1, <1>3, <1>6 DEF Items

LEMMA ContentSeq ==
  ASSUME IInv
  PROVE  /\ Content \in Seq(Elem)
         /\ Len(Content) = count /\ count \in Nat
         /\ \A k \in 1 .. count : Content[k] = Item(buf, cap, head, k - 1)
  BY ItemsSeq DEF IInv, Content, Items

LEMMA ContentSeqNext ==
  ASSUME IInv'
  PROVE  /\ Content' \in Seq(Elem)
         /\ Len(Content') = count' /\ count' \in Nat
         /\ \A k \in 1 .. count' : Content'[k] = Item(buf', cap', head', k - 1)
  BY ItemsSeq DEF IInv, Content, Items

LEMMA AddRefines ==
  ASSUME IInv, NEW e \in Elem, Add(e)
  PROVE  F!Add(e)
  <1>1. /\ IInv' /\ count' = count + 1 /\ ret' = Nil
        /\ \A k \in 0 .. count - 1 : Item(buf', cap', head', k) = Item(buf, cap, head, k)
        /\ Item(buf', cap', head', count) = e
    BY AddStep
  <1>2. Content' = Append(Content, e)
    <2>1. Append(Content, e) \in Seq(Elem) /\ Len(Append(Content, e)) = Len(Content')
      BY <1>1, ContentSeq, ContentSeqNext, AppendProperties
    <2>2. ASSUME NEW i \in 1 .. Len(Content')
          PROVE  Content'[i] = Append(Content, e)[i]
      <3>1. i \in 1 .. count + 1 /\ count \in Nat
        BY <1>1, ContentSeq, ContentSeqNext
      <3>2. Content'[i] = Item(buf', cap', head', i - 1)
        BY <1>1, <3>1, ContentSeqNext
      <3>3. CASE i = count + 1
        <4>1. Append(Content, e)[i] = e
          BY <3>3, ContentSeq, AppendProperties
        <4>2. i - 1 = count
          BY <3>1, <3>3
        <4>3. QED BY <1>1, <3>2, <4>1, <4>2
      <3>4. CASE i \in 1 .. count
        <4>1. Append(Content, e)[i] = Item(buf, cap, head, i - 1)
          BY <3>4, ContentSeq, AppendProperties
        <4>2. i - 1 \in 0 .. count - 1
          BY <3>1, <3>4
        <4>3. QED BY <1>1, <3>2, <4>1, <4>2
      <3>5. i = count + 1 \/ i \in 1 .. count
        BY <3>1
      <3>6. QED BY <3>3, <3>4, <3>5
    <2>3. QED BY <1>1, <2>1, <2>2, ContentSeqNext, SeqEqual
  <1>3. Len(Content) < MaxLength
    BY ContentSeq DEF Add
  <1>4. QED BY <1>1, <1>2, <1>3 DEF F!Add

LEMMA RemoveRefines ==
  ASSUME IInv, Remove
  PROVE  F!Remove
  <1>1. /\ IInv' /\ count > 0 /\ count' = count - 1
        /\ ret' = Item(buf, cap, head, 0)
        /\ \A k \in 0 .. count - 2 :
             Item(buf', cap', head', k) = Item(buf, cap, head, k + 1)
    BY RemoveStep
  <1>2. Content # <<>>
    BY <1>1, ContentSeq
  <1>3. ret' = Head(Content)
    BY <1>1, <1>2, ContentSeq
  <1>4. Content' = Tail(Content)
    <2>1. /\ Tail(Content) \in Seq(Elem) /\ Len(Tail(Content)) = Len(Content')
          /\ \A i \in 1 .. Len(Tail(Content)) : Tail(Content)[i] = Content[i + 1]
      BY <1>1, <1>2, ContentSeq, ContentSeqNext, HeadTailProperties
    <2>2. ASSUME NEW i \in 1 .. Len(Content')
          PROVE  Content'[i] = Tail(Content)[i]
      <3>1. i \in 1 .. count - 1 /\ count \in Nat /\ i - 1 \in 0 .. count - 2
            /\ i + 1 \in 1 .. count /\ (i + 1) - 1 = (i - 1) + 1
        BY <1>1, ContentSeq, ContentSeqNext
      <3>2. Content'[i] = Item(buf', cap', head', i - 1)
        BY <1>1, ContentSeqNext
      <3>3. Tail(Content)[i] = Item(buf, cap, head, (i + 1) - 1)
        BY <2>1, <3>1, ContentSeq
      <3>4. Item(buf', cap', head', i - 1) = Item(buf, cap, head, (i - 1) + 1)
        BY <1>1, <3>1
      <3>5. QED BY <3>1, <3>2, <3>3, <3>4
    <2>3. QED BY <1>1, <2>1, <2>2, ContentSeqNext, SeqEqual
  <1>5. QED BY <1>2, <1>3, <1>4 DEF F!Remove

LEMMA GetRefines ==
  ASSUME IInv, NEW i \in Int, Get(i)
  PROVE  F!Get(i)
  <1> DEFINE k == IF i < 0 THEN i + count ELSE i
             j == IF i < 0 THEN Len(Content) + i + 1 ELSE i + 1
  <1>1. /\ i \in -count .. count - 1
        /\ ret' = Item(buf, cap, head, k)
        /\ UNCHANGED <<buf, cap, head, tail, count>>
    BY GetStep
  <1>2. Content' = Content
    BY <1>1 DEF Content
  <1>3. j \in 1 .. count /\ j - 1 = k
    BY <1>1, ContentSeq
  <1>4. Content[j] = Item(buf, cap, head, k)
    BY <1>3, ContentSeq
  <1>5. i \in -Len(Content) .. Len(Content) - 1
    BY <1>1, ContentSeq
  <1>6. QED BY <1>1, <1>2, <1>4, <1>5 DEF F!Get

\* The ring buffer is a first-in first-out queue whatever wraps, grows and
\* shrinks (queue.go Add, Remove, Peek, Get): its initial state maps to the
\* empty queue, each of its steps to the queue's step of that name.
THEOREM QueueImplementsFifo == Spec => FifoSpec
  <1>1. Init => F!Init
    <2> SUFFICES ASSUME Init PROVE F!Init
      OBVIOUS
    <2>1. IInv
      BY InitIInv
    <2>2. Content = <<>>
      BY <2>1, ContentSeq DEF Init
    <2>3. QED BY <2>2 DEF Init, F!Init
  <1>2. IInv /\ [Next]_vars => [F!Next]_<<Content, ret>>
    <2> SUFFICES ASSUME IInv, [Next]_vars PROVE [F!Next]_<<Content, ret>>
      OBVIOUS
    <2>1. ASSUME NEW e \in Elem, Add(e) PROVE F!Next
      BY <2>1, AddRefines DEF F!Next
    <2>2. CASE Empty
      <3>1. Content = <<>> /\ Content' = Content /\ ret' = Nil
        BY <2>2, ContentSeq DEF Empty, Content
      <3>2. QED BY <3>1 DEF F!Next, F!Remove
    <2>3. CASE Remove
      BY <2>3, RemoveRefines DEF F!Next
    <2>4. ASSUME NEW i \in -MaxLength .. MaxLength - 1, Get(i) PROVE F!Next
      <3>1. i \in Int
        BY QueueAssumption
      <3>2. QED BY <2>4, <3>1, GetRefines DEF F!Next
    <2>5. CASE UNCHANGED vars
      BY <2>5 DEF vars, Content
    <2>6. QED BY <2>1, <2>2, <2>3, <2>4, <2>5 DEF Next
  <1>3. Spec => []IInv
    BY InitIInv, NextIInv, PTL DEF Spec
  <1>4. QED BY <1>1, <1>2, <1>3, PTL DEF Spec, FifoSpec, F!Spec

-----------------------------------------------------------------------------
(* The once types *)

Deciding == {"swap", "add", "unlock"}
Ahead    == {"add", "unlock", "call"}

Winner(c) == res[c] /\ pc[c] \in {"add", "unlock", "call", "run", "done"}

\* Who decides holds the lock, so that nobody sees val set and wait not yet
\* raised: this is what the lock is for.
LockOK == Waits => \A c \in Caller : pc[c] \in Deciding => lock = c

\* One caller won the compare-and-swap, and only the winner goes on to f.
WinnerOK ==
  /\ \A c \in Caller : pc[c] \in {"add", "call", "run", "done"} => res[c]
  /\ \A c, d \in Caller : Winner(c) /\ Winner(d) => c = d
  /\ \A c \in Caller : Winner(c) => val
  /\ \A c \in Caller : pc[c] \in {"lock", "add", "unlock", "done", "wait"} => Waits

\* How far the winner is, told by the shared variables.
ProgressOK ==
  /\ ~val => calls = 0 /\ wait = 0
  /\ \A c \in Caller : Winner(c) /\ pc[c] \in Ahead => calls = 0
  /\ \A c \in Caller : pc[c] = "run" => calls = 1 /\ outcome = "none"
  /\ \A c \in Caller : pc[c] = "done" => outcome # "none"
  /\ outcome # "none" => calls = 1
  /\ calls = 0 /\ val => \E c \in Caller : Winner(c) /\ pc[c] \in Ahead
  /\ calls = 1 /\ outcome = "none" => \E c \in Caller : pc[c] = "run"

\* The wait group is raised before anybody can wait, and lowered after f.
WaitOK ==
  /\ \A c \in Caller : pc[c] = "add" => wait = 0
  /\ Waits => \A c \in Caller : Winner(c) /\ pc[c] # "add" => wait = 1
  /\ \A c \in Caller : pc[c] = "wait" => val /\ \A d \in Caller : pc[d] # "add"
  /\ \A c \in Caller : pc[c] = "unlock" => val

EarlyOK == Waits => ReturnsAfterCall

\* The inductive invariant.
OnceInv == OnceTypeOK /\ LockOK /\ WinnerOK /\ ProgressOK /\ WaitOK /\ EarlyOK

-----------------------------------------------------------------------------

\* The invariant holds initially.
LEMMA OnceInitInv == OnceInit => OnceInv
<1> SUFFICES ASSUME OnceInit PROVE OnceInv
  OBVIOUS
<1>1. OnceTypeOK
  BY DEF OnceInit, OnceTypeOK, Steps
<1>2. \A c \in Caller : pc[c] = "idle" /\ ~res[c]
  BY DEF OnceInit
<1>3. ~val /\ wait = 0 /\ calls = 0 /\ outcome = "none"
  BY DEF OnceInit
<1> QED BY <1>1, <1>2, <1>3 DEF OnceInv, LockOK, WinnerOK, Winner, ProgressOK, WaitOK, EarlyOK,
     ReturnsAfterCall, Deciding, Ahead

\* Call keeps the invariant.
LEMMA CallInv == ASSUME OnceInv, NEW c \in Caller, Call(c) PROVE OnceInv'
<1>1. OnceTypeOK'
  BY OnceAssumption DEF OnceInv, OnceTypeOK, ProgressOK, WaitOK, WinnerOK, Winner, Deciding, Ahead, Steps, Call, Goto
<1>2. LockOK'
  BY OnceAssumption DEF OnceInv, OnceTypeOK, LockOK, WinnerOK, Winner, Deciding, Ahead, Steps, Call, Goto
<1>3. WinnerOK'
  BY OnceAssumption DEF OnceInv, OnceTypeOK, LockOK, WinnerOK, Winner, Deciding, Ahead, Steps, Call, Goto
<1>4. ProgressOK'
  BY OnceAssumption DEF OnceInv, OnceTypeOK, LockOK, WinnerOK, ProgressOK, WaitOK, Winner, Deciding, Ahead, Steps, Call, Goto
<1>5. WaitOK'
  BY OnceAssumption DEF OnceInv, OnceTypeOK, LockOK, WinnerOK, ProgressOK, WaitOK, Winner, Deciding, Ahead, Steps, Call, Goto
<1>6. EarlyOK'
  BY OnceAssumption DEF OnceInv, OnceTypeOK, LockOK, WinnerOK, ProgressOK, WaitOK, EarlyOK, ReturnsAfterCall, Winner, Deciding, Ahead, Steps, Call, Goto
<1> QED BY <1>1, <1>2, <1>3, <1>4, <1>5, <1>6 DEF OnceInv

\* Lock keeps the invariant.
LEMMA LockInv == ASSUME OnceInv, NEW c \in Caller, Lock(c) PROVE OnceInv'
<1>1. OnceTypeOK'
  BY OnceAssumption DEF OnceInv, OnceTypeOK, ProgressOK, WaitOK, WinnerOK, Winner, Deciding, Ahead, Steps, Lock, Goto, Free
<1>2. LockOK'
  BY OnceAssumption DEF OnceInv, OnceTypeOK, LockOK, WinnerOK, Winner, Deciding, Ahead, Steps, Lock, Goto, Free
<1>3. WinnerOK'
  BY OnceAssumption DEF OnceInv, OnceTypeOK, LockOK, WinnerOK, Winner, Deciding, Ahead, Steps, Lock, Goto, Free
<1>4. ProgressOK'
  BY OnceAssumption DEF OnceInv, OnceTypeOK, LockOK, WinnerOK, ProgressOK, WaitOK, Winner, Deciding, Ahead, Steps, Lock, Goto, Free
<1>5. WaitOK'
  BY OnceAssumption DEF OnceInv, OnceTypeOK, LockOK, WinnerOK, ProgressOK, WaitOK, Winner, Deciding, Ahead, Steps, Lock, Goto, Free
<1>6. EarlyOK'
  BY OnceAssumption DEF OnceInv, OnceTypeOK, LockOK, WinnerOK, ProgressOK, WaitOK, EarlyOK, ReturnsAfterCall, Winner, Deciding, Ahead, Steps, Lock, Goto, Free
<1> QED BY <1>1, <1>2, <1>3, <1>4, <1>5, <1>6 DEF OnceInv

\* Swap keeps the invariant.
LEMMA SwapInv == ASSUME OnceInv, NEW c \in Caller, Swap(c) PROVE OnceInv'
<1>1. OnceTypeOK'
  BY OnceAssumption DEF OnceInv, OnceTypeOK, ProgressOK, WaitOK, WinnerOK, Winner, Deciding, Ahead, Steps, Swap, AfterSwap, Goto, First
<1>2. LockOK'
  BY OnceAssumption DEF OnceInv, OnceTypeOK, LockOK, WinnerOK, Winner, Deciding, Ahead, Steps, Swap, AfterSwap, Goto, First
<1>3. WinnerOK'
  BY OnceAssumption DEF OnceInv, OnceTypeOK, LockOK, WinnerOK, Winner, Deciding, Ahead, Steps, Swap, AfterSwap, Goto, First
<1>4. ProgressOK'
  BY OnceAssumption DEF OnceInv, OnceTypeOK, LockOK, WinnerOK, ProgressOK, WaitOK, Winner, Deciding, Ahead, Steps, Swap, AfterSwap, Goto, First
<1>5. WaitOK'
  BY OnceAssumption DEF OnceInv, OnceTypeOK, LockOK, WinnerOK, ProgressOK, WaitOK, Winner, Deciding, Ahead, Steps, Swap, AfterSwap, Goto, First
<1>6. EarlyOK'
  BY OnceAssumption DEF OnceInv, OnceTypeOK, LockOK, WinnerOK, ProgressOK, WaitOK, EarlyOK, ReturnsAfterCall, Winner, Deciding, Ahead, Steps, Swap, AfterSwap, Goto, First
<1> QED BY <1>1, <1>2, <1>3, <1>4, <1>5, <1>6 DEF OnceInv

\* Raise keeps the invariant.
LEMMA RaiseInv == ASSUME OnceInv, NEW c \in Caller, Raise(c) PROVE OnceInv'
<1>1. OnceTypeOK'
  BY OnceAssumption DEF OnceInv, OnceTypeOK, ProgressOK, WaitOK, WinnerOK, Winner, Deciding, Ahead, Steps, Raise, Goto
<1>2. LockOK'
  BY OnceAssumption DEF OnceInv, OnceTypeOK, LockOK, WinnerOK, Winner, Deciding, Ahead, Steps, Raise, Goto
<1>3. WinnerOK'
  BY OnceAssumption DEF OnceInv, OnceTypeOK, LockOK, WinnerOK, Winner, Deciding, Ahead, Steps, Raise, Goto
<1>4. ProgressOK'
  BY OnceAssumption DEF OnceInv, OnceTypeOK, LockOK, WinnerOK, ProgressOK, WaitOK, Winner, Deciding, Ahead, Steps, Raise, Goto
<1>5. WaitOK'
  BY OnceAssumption DEF OnceInv, OnceTypeOK, LockOK, WinnerOK, ProgressOK, WaitOK, Winner, Deciding, Ahead, Steps, Raise, Goto
<1>6. EarlyOK'
  BY OnceAssumption DEF OnceInv, OnceTypeOK, LockOK, WinnerOK, ProgressOK, WaitOK, EarlyOK, ReturnsAfterCall, Winner, Deciding, Ahead, Steps, Raise, Goto
<1> QED BY <1>1, <1>2, <1>3, <1>4, <1>5, <1>6 DEF OnceInv

\* Unlock keeps the invariant.
LEMMA UnlockInv == ASSUME OnceInv, NEW c \in Caller, Unlock(c) PROVE OnceInv'
<1>1. OnceTypeOK'
  BY OnceAssumption DEF OnceInv, OnceTypeOK, ProgressOK, WaitOK, WinnerOK, Winner, Deciding, Ahead, Steps, Unlock, Goto
<1>2. LockOK'
  BY OnceAssumption DEF OnceInv, OnceTypeOK, LockOK, WinnerOK, Winner, Deciding, Ahead, Steps, Unlock, Goto
<1>3. WinnerOK'
  BY OnceAssumption DEF OnceInv, OnceTypeOK, LockOK, WinnerOK, Winner, Deciding, Ahead, Steps, Unlock, Goto
<1>4. ProgressOK'
  BY OnceAssumption DEF OnceInv, OnceTypeOK, LockOK, WinnerOK, ProgressOK, WaitOK, Winner, Deciding, Ahead, Steps, Unlock, Goto
<1>5. WaitOK'
  BY OnceAssumption DEF OnceInv, OnceTypeOK, LockOK, WinnerOK, ProgressOK, WaitOK, Winner, Deciding, Ahead, Steps, Unlock, Goto
<1>6. EarlyOK'
  BY OnceAssumption DEF OnceInv, OnceTypeOK, LockOK, WinnerOK, ProgressOK, WaitOK, EarlyOK, ReturnsAfterCall, Winner, Deciding, Ahead, Steps, Unlock, Goto
<1> QED BY <1>1, <1>2, <1>3, <1>4, <1>5, <1>6 DEF OnceInv

\* CallF keeps the invariant.
LEMMA CallFInv == ASSUME OnceInv, NEW c \in Caller, CallF(c) PROVE OnceInv'
<1>1. OnceTypeOK'
  BY OnceAssumption DEF OnceInv, OnceTypeOK, ProgressOK, WaitOK, WinnerOK, Winner, Deciding, Ahead, Steps, CallF, Goto
<1>2. LockOK'
  BY OnceAssumption DEF OnceInv, OnceTypeOK, LockOK, WinnerOK, Winner, Deciding, Ahead, Steps, CallF, Goto
<1>3. WinnerOK'
  BY OnceAssumption DEF OnceInv, OnceTypeOK, LockOK, WinnerOK, Winner, Deciding, Ahead, Steps, CallF, Goto
<1>4. ProgressOK'
  BY OnceAssumption DEF OnceInv, OnceTypeOK, LockOK, WinnerOK, ProgressOK, WaitOK, Winner, Deciding, Ahead, Steps, CallF, Goto
<1>5. WaitOK'
  BY OnceAssumption DEF OnceInv, OnceTypeOK, LockOK, WinnerOK, ProgressOK, WaitOK, Winner, Deciding, Ahead, Steps, CallF, Goto
<1>6. EarlyOK'
  BY OnceAssumption DEF OnceInv, OnceTypeOK, LockOK, WinnerOK, ProgressOK, WaitOK, EarlyOK, ReturnsAfterCall, Winner, Deciding, Ahead, Steps, CallF, Goto
<1> QED BY <1>1, <1>2, <1>3, <1>4, <1>5, <1>6 DEF OnceInv

\* Return keeps the invariant.
LEMMA ReturnInv == ASSUME OnceInv, NEW c \in Caller, Return(c) PROVE OnceInv'
<1>1. OnceTypeOK'
  BY OnceAssumption DEF OnceInv, OnceTypeOK, ProgressOK, WaitOK, WinnerOK, Winner, Deciding, Ahead, Steps, Return, Goto
<1>2. LockOK'
  BY OnceAssumption DEF OnceInv, OnceTypeOK, LockOK, WinnerOK, Winner, Deciding, Ahead, Steps, Return, Goto
<1>3. WinnerOK'
  BY OnceAssumption DEF OnceInv, OnceTypeOK, LockOK, WinnerOK, Winner, Deciding, Ahead, Steps, Return, Goto
<1>4. ProgressOK'
  BY OnceAssumption DEF OnceInv, OnceTypeOK, LockOK, WinnerOK, ProgressOK, WaitOK, Winner, Deciding, Ahead, Steps, Return, Goto
<1>5. WaitOK'
  BY OnceAssumption DEF OnceInv, OnceTypeOK, LockOK, WinnerOK, ProgressOK, WaitOK, Winner, Deciding, Ahead, Steps, Return, Goto
<1>6. EarlyOK'
  BY OnceAssumption DEF OnceInv, OnceTypeOK, LockOK, WinnerOK, ProgressOK, WaitOK, EarlyOK, ReturnsAfterCall, Winner, Deciding, Ahead, Steps, Return, Goto
<1> QED BY <1>1, <1>2, <1>3, <1>4, <1>5, <1>6 DEF OnceInv

\* Panic keeps the invariant.
LEMMA PanicInv == ASSUME OnceInv, NEW c \in Caller, Panic(c) PROVE OnceInv'
<1>1. OnceTypeOK'
  BY OnceAssumption DEF OnceInv, OnceTypeOK, ProgressOK, WaitOK, WinnerOK, Winner, Deciding, Ahead, Steps, Panic, Goto
<1>2. LockOK'
  BY OnceAssumption DEF OnceInv, OnceTypeOK, LockOK, WinnerOK, Winner, Deciding, Ahead, Steps, Panic, Goto
<1>3. WinnerOK'
  BY OnceAssumption DEF OnceInv, OnceTypeOK, LockOK, WinnerOK, Winner, Deciding, Ahead, Steps, Panic, Goto
<1>4. ProgressOK'
  BY OnceAssumption DEF OnceInv, OnceTypeOK, LockOK, WinnerOK, ProgressOK, WaitOK, Winner, Deciding, Ahead, Steps, Panic, Goto
<1>5. WaitOK'
  BY OnceAssumption DEF OnceInv, OnceTypeOK, LockOK, WinnerOK, ProgressOK, WaitOK, Winner, Deciding, Ahead, Steps, Panic, Goto
<1>6. EarlyOK'
  BY OnceAssumption DEF OnceInv, OnceTypeOK, LockOK, WinnerOK, ProgressOK, WaitOK, EarlyOK, ReturnsAfterCall, Winner, Deciding, Ahead, Steps, Panic, Goto
<1> QED BY <1>1, <1>2, <1>3, <1>4, <1>5, <1>6 DEF OnceInv

\* Done keeps the invariant.
LEMMA DoneInv == ASSUME OnceInv, NEW c \in Caller, Done(c) PROVE OnceInv'
<1>1. OnceTypeOK'
  BY OnceAssumption DEF OnceInv, OnceTypeOK, ProgressOK, WaitOK, WinnerOK, Winner, Deciding, Ahead, Steps, Done, Goto, Lowered
<1>2. LockOK'
  BY OnceAssumption DEF OnceInv, OnceTypeOK, LockOK, WinnerOK, Winner, Deciding, Ahead, Steps, Done, Goto, Lowered
<1>3. WinnerOK'
  BY OnceAssumption DEF OnceInv, OnceTypeOK, LockOK, WinnerOK, Winner, Deciding, Ahead, Steps, Done, Goto, Lowered
<1>4. ProgressOK'
  BY OnceAssumption DEF OnceInv, OnceTypeOK, LockOK, WinnerOK, ProgressOK, WaitOK, Winner, Deciding, Ahead, Steps, Done, Goto, Lowered
<1>5. WaitOK'
  BY OnceAssumption DEF OnceInv, OnceTypeOK, LockOK, WinnerOK, ProgressOK, WaitOK, Winner, Deciding, Ahead, Steps, Done, Goto, Lowered
<1>6. EarlyOK'
  BY OnceAssumption DEF OnceInv, OnceTypeOK, LockOK, WinnerOK, ProgressOK, WaitOK, EarlyOK, ReturnsAfterCall, Winner, Deciding, Ahead, Steps, Done, Goto, Lowered
<1> QED BY <1>1, <1>2, <1>3, <1>4, <1>5, <1>6 DEF OnceInv

\* Wait keeps the invariant.
LEMMA WaitInv == ASSUME OnceInv, NEW c \in Caller, Wait(c) PROVE OnceInv'
<1>1. OnceTypeOK'
  BY OnceAssumption DEF OnceInv, OnceTypeOK, ProgressOK, WaitOK, WinnerOK, Winner, Deciding, Ahead, Steps, Wait, Goto
<1>2. LockOK'
  BY OnceAssumption DEF OnceInv, OnceTypeOK, LockOK, WinnerOK, Winner, Deciding, Ahead, Steps, Wait, Goto
<1>3. WinnerOK'
  BY OnceAssumption DEF OnceInv, OnceTypeOK, LockOK, WinnerOK, Winner, Deciding, Ahead, Steps, Wait, Goto
<1>4. ProgressOK'
  BY OnceAssumption DEF OnceInv, OnceTypeOK, LockOK, WinnerOK, ProgressOK, WaitOK, Winner, Deciding, Ahead, Steps, Wait, Goto
<1>5. WaitOK'
  BY OnceAssumption DEF OnceInv, OnceTypeOK, LockOK, WinnerOK, ProgressOK, WaitOK, Winner, Deciding, Ahead, Steps, Wait, Goto
<1>6. EarlyOK'
  BY OnceAssumption DEF OnceInv, OnceTypeOK, LockOK, WinnerOK, ProgressOK, WaitOK, EarlyOK, ReturnsAfterCall, Winner, Deciding, Ahead, Steps, Wait, Goto
<1> QED BY <1>1, <1>2, <1>3, <1>4, <1>5, <1>6 DEF OnceInv

\* Every step keeps it.
LEMMA OnceNextInv == OnceInv /\ [OnceNext]_onceVars => OnceInv'
<1> SUFFICES ASSUME OnceInv, [OnceNext]_onceVars PROVE OnceInv'
  OBVIOUS
<1>1. CASE UNCHANGED onceVars
  BY <1>1 DEF onceVars, OnceInv, OnceTypeOK, LockOK, WinnerOK, Winner, ProgressOK, WaitOK, EarlyOK,
     ReturnsAfterCall
<1>2. ASSUME NEW c \in Caller, Call(c) \/ Do(c) PROVE OnceInv'
  BY <1>2, CallInv, LockInv, SwapInv, RaiseInv, UnlockInv, CallFInv, ReturnInv, PanicInv, DoneInv,
     WaitInv DEF Do
<1> QED BY <1>1, <1>2 DEF OnceNext

LEMMA OnceInvariant == OnceSpec => []OnceInv
  BY OnceInitInv, OnceNextInv, PTL DEF OnceSpec

-----------------------------------------------------------------------------

\* The object stays in its states; in particular f is called at most once and
\* the wait group is never raised twice.
THEOREM OnceTypeCorrect == OnceSpec => []OnceTypeOK
<1>1. OnceInv => OnceTypeOK
  BY DEF OnceInv
<1> QED BY <1>1, OnceInvariant, PTL

\* f is called if and only if Do is called.
THEOREM CalledOnceCorrect == OnceSpec => []CalledOnce
<1>1. OnceInv => CalledOnce
  BY DEF OnceInv, OnceTypeOK, WinnerOK, ProgressOK, Winner, Ahead, CalledOnce
<1> QED BY <1>1, OnceInvariant, PTL

\* A OnceWait lets nobody return before f has ended.
THEOREM WaitsForCall == Waits => (OnceSpec => []ReturnsAfterCall)
<1> SUFFICES ASSUME Waits PROVE OnceSpec => []ReturnsAfterCall
  OBVIOUS
<1>1. OnceInv => ReturnsAfterCall
  BY DEF OnceInv, EarlyOK
<1> QED BY <1>1, OnceInvariant, PTL
=============================================================================

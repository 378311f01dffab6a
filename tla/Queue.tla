-------------------------------- MODULE Queue -------------------------------
(***************************************************************************)
(* The ring buffer of types/queue.go. Every method holds q.lock for its    *)
(* whole body, so a method is one action. `ret' is the value the method    *)
(* returns (Nil for Add, which returns nothing).                           *)
(*                                                                         *)
(* The code indexes with "& (len(buf) - 1)", which is the remainder only   *)
(* while the capacity is a power of two: Wrap is that remainder for an     *)
(* index below twice the capacity, CapacityOK is what entitles the code to *)
(* the bit trick.                                                          *)
(***************************************************************************)
EXTENDS Integers, Sequences

CONSTANTS Elem,         \* what can be queued
          Nil,          \* Go's nil, stored in a free slot
          MinQueueLen,  \* minQueueLen, 16 in the code
          MaxLength     \* bound on the number of queued elements

ASSUME QueueAssumption ==
  /\ MinQueueLen \in Nat \ {0}
  /\ MaxLength \in Nat
  /\ Nil \notin Elem

VARIABLES buf,    \* the slots, a function on 0 .. cap - 1
          cap,    \* len(q.buf)
          head,   \* index of the oldest element
          tail,   \* index of the next free slot
          count,  \* number of queued elements
          ret     \* the value returned by the last call

vars == <<buf, cap, head, tail, count, ret>>

\* The index i of a ring of n slots.
Wrap(i, n) == IF i < n THEN i ELSE i - n

Init ==
  /\ cap = MinQueueLen
  /\ buf = [i \in 0 .. cap - 1 |-> Nil]
  /\ head = 0 /\ tail = 0 /\ count = 0
  /\ ret = Nil

\* resize() makes room for twice what it holds. The variant NewCapTight, for
\* testing CapacityOK, makes room for one more element only.
NewCapTight(c) == c + 1
NewCap(c) == c * 2

\* When Remove shrinks the buffer: c elements left in n slots.
Shrinks(c, n) == n > MinQueueLen /\ c * 4 = n

\* The slots after resize() of a buffer b of n slots holding c elements from
\* slot h on, t being its tail: the elements moved to the front. The two copies
\* of the wrapped case meet at n - h. The variant ResizedOnce, for testing
\* FifoSpec, copies the slots as they lie.
ResizedOnce(b, n, h, t, c) ==
  [i \in 0 .. NewCap(c) - 1 |-> IF i < c THEN b[i] ELSE Nil]

Resized(b, n, h, t, c) ==
  [i \in 0 .. NewCap(c) - 1 |->
     IF t > h
     THEN IF i < t - h THEN b[h + i] ELSE Nil
     ELSE IF i < n - h THEN b[h + i]
          ELSE IF i < (n - h) + t THEN b[i - (n - h)] ELSE Nil]

\* The slots once the element in slot h is taken out.
Freed(b, h) == [b EXCEPT ![h] = Nil]

Put(b, t, e) == [b EXCEPT ![t] = e]

Add(e) ==
  /\ count < MaxLength
  /\ ret' = Nil
  /\ count' = count + 1
  /\ \/ /\ count # cap
        /\ buf' = Put(buf, tail, e)
        /\ tail' = Wrap(tail + 1, cap)
        /\ UNCHANGED <<cap, head>>
     \/ /\ count = cap
        /\ cap' = NewCap(count)
        /\ buf' = Put(Resized(buf, cap, head, tail, count), count, e)
        /\ head' = 0
        /\ tail' = Wrap(count + 1, cap')

\* Remove and Peek of an empty queue answer nil.
Empty ==
  /\ count = 0
  /\ ret' = Nil
  /\ UNCHANGED <<buf, cap, head, tail, count>>

\* Remove of a non-empty queue.
Remove ==
  /\ count > 0
  /\ ret' = buf[head]
  /\ count' = count - 1
  /\ LET freed == Freed(buf, head)
         next  == Wrap(head + 1, cap)
     IN \/ /\ Shrinks(count - 1, cap)
           /\ buf' = Resized(freed, cap, next, tail, count - 1)
           /\ cap' = NewCap(count - 1)
           /\ head' = 0
           /\ tail' = count - 1
        \/ /\ ~Shrinks(count - 1, cap)
           /\ buf' = freed
           /\ head' = next
           /\ UNCHANGED <<cap, tail>>

\* Get(i), a negative i counting from the back (Get panics on any other index);
\* Peek of a non-empty queue is Get(0).
Get(i) ==
  /\ i \in -count .. count - 1
  /\ ret' = buf[Wrap(head + (IF i < 0 THEN i + count ELSE i), cap)]
  /\ UNCHANGED <<buf, cap, head, tail, count>>

Next == \/ \E e \in Elem : Add(e)
        \/ Empty
        \/ Remove
        \/ \E i \in -MaxLength .. MaxLength - 1 : Get(i)

Spec == Init /\ [][Next]_vars
-----------------------------------------------------------------------------
TypeOK ==
  /\ cap \in Nat \ {0}
  /\ buf \in [0 .. cap - 1 -> Elem \cup {Nil}]
  /\ head \in 0 .. cap - 1
  /\ tail \in 0 .. cap - 1
  /\ count \in 0 .. cap
  /\ ret \in Elem \cup {Nil}

\* The occupied part of the ring: exactly the count slots from head on hold an
\* element and tail is the slot after them, so that nothing removed is kept
\* alive by the buffer and nothing queued is overwritten (queue.go Add, Remove).
RingOK ==
  /\ tail = Wrap(head + count, cap)
  /\ \A i \in 0 .. cap - 1 :
       (buf[i] # Nil) <=> (\E k \in 0 .. count - 1 : i = Wrap(head + k, cap))

\* MinQueueLen times two to the power of k.
Doubled[k \in 0 .. MaxLength] == IF k = 0 THEN MinQueueLen ELSE 2 * Doubled[k - 1]

\* "Must be power of 2 for bitwise modulus": the capacity is MinQueueLen times
\* a power of two whatever sequence of growing and shrinking led here.
CapacityOK == \E k \in 0 .. MaxLength : cap = Doubled[k]

\* The abstract content: the elements from head on.
Content == [k \in 1 .. count |-> buf[Wrap(head + k - 1, cap)]]

F == INSTANCE Fifo WITH items <- Content

\* The ring buffer is a first-in first-out queue.
FifoSpec == F!Spec
=============================================================================

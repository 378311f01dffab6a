-------------------------------- MODULE Fifo --------------------------------
(***************************************************************************)
(* What a queue promises its users: elements come back in the order they   *)
(* were added, each exactly once, and an empty queue answers Nil.          *)
(***************************************************************************)
EXTENDS Integers, Sequences

CONSTANTS Elem,      \* what can be queued
          Nil,       \* the answer of an empty queue
          MaxLength  \* bound on the number of queued elements

VARIABLES items,     \* the queued elements, oldest first
          ret        \* the answer of the last call

Init == items = <<>> /\ ret = Nil

Add(e) ==
  /\ Len(items) < MaxLength
  /\ items' = Append(items, e)
  /\ ret' = Nil

Remove ==
  \/ /\ items = <<>>
     /\ ret' = Nil
     /\ UNCHANGED items
  \/ /\ items # <<>>
     /\ ret' = Head(items)
     /\ items' = Tail(items)

\* The element i places behind the oldest one, or i places from the end, left
\* in the queue.
Get(i) ==
  /\ i \in -Len(items) .. Len(items) - 1
  /\ ret' = items[IF i < 0 THEN Len(items) + i + 1 ELSE i + 1]
  /\ UNCHANGED items

Next == \/ \E e \in Elem : Add(e)
        \/ Remove
        \/ \E i \in -MaxLength .. MaxLength - 1 : Get(i)

Spec == Init /\ [][Next]_<<items, ret>>
=============================================================================

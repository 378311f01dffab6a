------------------------------- MODULE MCQueue ------------------------------
(* The ring buffer on two elements, a smallest buffer of two slots and at    *)
(* most five elements: the buffer grows twice, wraps at every size and       *)
(* shrinks back twice.                                                       *)
EXTENDS Queue
=============================================================================

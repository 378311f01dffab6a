------------------------------ MODULE MCWriter ------------------------------
(* The writer with a few publishes. The goroutines are alike, and so are the *)
(* QoS 1 publishes.                                                          *)
EXTENDS Writer, TLC

Names == Permutations(Routine) \cup Permutations(QoS1)
=============================================================================

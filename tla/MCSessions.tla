----------------------------- MODULE MCSessions -----------------------------
(* The clients manager on a few connections. *)
EXTENDS Sessions

\* Connections and client ids have numbers, and are numbered in the order in
\* which they are first seen. This is about names only: who comes is not in the
\* fairness, and every behaviour has one that differs in the names and is
\* numbered so.
NumberedAsTheyCome ==
  \A c \in Conn : pc[c] = "idle" /\ pc'[c] # "idle" =>
    /\ \A d \in Conn : d < c => pc[d] # "idle"
    /\ \A i \in ClientId : i < id'[c] => \E d \in Conn : id[d] = i
=============================================================================

----------------------------- MODULE MCInbound -----------------------------
(* A client with three publishes, over two connections, that repeats a packet. *)
EXTENDS Inbound

CONSTANTS a, b, c

\* The two QoS 2 publishes are alike, and so are the packet ids while none has
\* been used: a is sent before b, and the first publish gets id 1.
NumberedAsTheyCome ==
  /\ state'[a] = "new" => state'[b] = "new"
  /\ (\A m \in Msg : state[m] = "new") => \A m \in Msg : idOf'[m] \in {0, 1}
=============================================================================

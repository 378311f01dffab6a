----------------------------- MODULE Ownership -----------------------------
(***************************************************************************)
(* What the clients manager promises: a client id belongs to one           *)
(* connection at a time, from CONNACK until its close has ended; the next  *)
(* one gets it when it is free, never by taking it away. The promise is    *)
(* given up for good once a lock has been lost.                            *)
(***************************************************************************)
CONSTANTS Conn, ClientId

VARIABLES
  owners,  \* the connections an id belongs to
  lost     \* the promise has been given up

Init == owners = [i \in ClientId |-> {}] /\ lost = FALSE

Take(i, c) ==
  /\ ~lost /\ lost' = FALSE
  /\ owners[i] = {}
  /\ owners' = [owners EXCEPT ![i] = {c}]

Release(i, c) ==
  /\ ~lost /\ lost' \in BOOLEAN
  /\ owners[i] = {c}
  /\ owners' = [owners EXCEPT ![i] = {}]

\* From now on an id belongs to anybody.
Unkept ==
  /\ lost /\ lost' = TRUE
  /\ owners' \in [ClientId -> SUBSET Conn]

Next == (\E i \in ClientId, c \in Conn : Take(i, c) \/ Release(i, c)) \/ Unkept

Spec == Init /\ [][Next]_<<owners, lost>>
=============================================================================

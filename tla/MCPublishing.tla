---------------------------- MODULE MCPublishing ----------------------------
(* A clean and a durable subscriber, two publishes, and the two publishers. *)
EXTENDS Publishing
=============================================================================

------------------------------- MODULE MCOnce -------------------------------
(* OnceWait with a few callers and a function that may panic.                *)
EXTENDS Once

=============================================================================

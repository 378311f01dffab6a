------------------------------ MODULE MCServer ------------------------------
(* Two listeners, two clients with one id, and a pool that may grow by one     *)
(* goroutine.                                                                 *)
EXTENDS Server

CONSTANTS l1, l2, a

\* Listeners differ in nothing: l2 is the one added last.
NumberedAsTheyCome == listener'[l2] # "off" => listener'[l1] # "off"

\* Bound: only one of the clients changes between the listeners.
OneChanges == \A i \in DOMAIN dials'[l2] : dials'[l2][i] # a

\* Bound: the timer of the updater goes off late. Nothing looks at the updater
\* before the sessions have been stopped.
GoesOffLate == updater' = "publishes" => shutdown' \in {"sessions", "updater"}
=============================================================================

-------------------------------- MODULE Once --------------------------------
(***************************************************************************)
(* The once types of types/types.go. OnceWait guards the close of a        *)
(* connection, which the reader, the writer, a takeover and the shutdown   *)
(* may all start; Once guards what need not be waited for. A caller calls  *)
(* Do as often as it likes. With Waits the object is a OnceWait, without   *)
(* it a Once; with Panics the function may panic. The names tell it from   *)
(* Queue, the other part of the package, as TypesProofs is about both.     *)
(***************************************************************************)
EXTENDS Integers

CONSTANTS Caller, Nobody, Waits, Panics

ASSUME OnceAssumption ==
  /\ Nobody \notin Caller
  /\ Waits \in BOOLEAN
  /\ Panics \in BOOLEAN

VARIABLES
  pc,        \* the next step of each caller
  res,       \* its compare-and-swap succeeded
  val,       \* Do has been called
  lock,      \* the caller that holds lock, or Nobody
  wait,      \* the counter of the wait group
  calls,     \* how often f has been called
  outcome    \* the call of f: "none" before its end, "returned" or "panicked"

onceVars == <<pc, res, val, lock, wait, calls, outcome>>

Steps == {"idle", "lock", "swap", "add", "unlock", "call", "run", "done", "wait", "returned"}

OnceInit ==
  /\ pc = [c \in Caller |-> "idle"]
  /\ res = [c \in Caller |-> FALSE]
  /\ val = FALSE
  /\ lock = Nobody
  /\ wait = 0
  /\ calls = 0
  /\ outcome = "none"

Goto(c, step) == pc' = [pc EXCEPT ![c] = step]

Call(c) ==
  /\ pc[c] \in {"idle", "returned"}
  /\ Goto(c, IF Waits THEN "lock" ELSE "swap")
  /\ UNCHANGED <<res, val, lock, wait, calls, outcome>>

Ignored == TRUE
Free == lock = Nobody

Lock(c) ==
  /\ pc[c] = "lock"
  /\ Free
  /\ lock' = c
  /\ Goto(c, "swap")
  /\ UNCHANGED <<res, val, wait, calls, outcome>>

Sometimes == val \in BOOLEAN
First == ~val

AfterSwap == CASE Waits /\ First  -> "add"
               [] Waits /\ ~First -> "unlock"
               [] ~Waits /\ First -> "call"
               [] OTHER           -> "returned"

\* atomic.CompareAndSwapUintptr(&o.val, 0, 1)
Swap(c) ==
  /\ pc[c] = "swap"
  /\ res' = [res EXCEPT ![c] = First]
  /\ val' = TRUE
  /\ Goto(c, AfterSwap)
  /\ UNCHANGED <<lock, wait, calls, outcome>>

Raise(c) ==
  /\ pc[c] = "add"
  /\ wait' = wait + 1
  /\ Goto(c, "unlock")
  /\ UNCHANGED <<res, val, lock, calls, outcome>>

Unlock(c) ==
  /\ pc[c] = "unlock"
  /\ lock' = Nobody
  /\ Goto(c, IF res[c] THEN "call" ELSE "wait")
  /\ UNCHANGED <<res, val, wait, calls, outcome>>

CallF(c) ==
  /\ pc[c] = "call"
  /\ calls' = calls + 1
  /\ Goto(c, "run")
  /\ UNCHANGED <<res, val, lock, wait, outcome>>

Return(c) ==
  /\ pc[c] = "run"
  /\ outcome' = "returned"
  /\ Goto(c, IF Waits THEN "done" ELSE "returned")
  /\ UNCHANGED <<res, val, lock, wait, calls>>

\* wait.Done is not deferred: a panic passes it by.
Panic(c) ==
  /\ pc[c] = "run"
  /\ Panics
  /\ outcome' = "panicked"
  /\ Goto(c, "returned")
  /\ UNCHANGED <<res, val, lock, wait, calls>>

NotDone == wait
Lowered == wait - 1

Done(c) ==
  /\ pc[c] = "done"
  /\ wait' = Lowered
  /\ Goto(c, "returned")
  /\ UNCHANGED <<res, val, lock, calls, outcome>>

Wait(c) ==
  /\ pc[c] = "wait"
  /\ wait = 0
  /\ Goto(c, "returned")
  /\ UNCHANGED <<res, val, lock, wait, calls, outcome>>

Do(c) == Lock(c) \/ Swap(c) \/ Raise(c) \/ Unlock(c) \/ CallF(c) \/ Return(c)
           \/ Panic(c) \/ Done(c) \/ Wait(c)

OnceNext == \E c \in Caller : Call(c) \/ Do(c)

OnceSpec == OnceInit /\ [][OnceNext]_onceVars

\* A goroutine inside Do goes on, f ends, and a lock that is free again and
\* again is got in the end.
FairSpec == OnceSpec /\ \A c \in Caller : WF_onceVars(Do(c)) /\ SF_onceVars(Lock(c))

OnceTypeOK ==
  /\ pc \in [Caller -> Steps]
  /\ res \in [Caller -> BOOLEAN]
  /\ val \in BOOLEAN
  /\ lock \in Caller \cup {Nobody}
  /\ wait \in {0, 1}
  /\ calls \in {0, 1}
  /\ outcome \in {"none", "returned", "panicked"}

\* "Do calls the function f if and only if Do is being called for the first
\* time": however many callers race, f is called once, and by the time any of
\* them is past the compare-and-swap somebody is about to call it or has.
CalledOnce ==
  val = (calls = 1 \/ \E c \in Caller : res[c] /\ pc[c] \in {"add", "unlock", "call"})

\* "no call to Do returns until the one call to f returns": what a takeover
\* relies on when it waits for the close of the connection it replaces.
ReturnsAfterCall == \A c \in Caller : pc[c] = "returned" => outcome # "none"

\* Every call of Do returns, unless f has panicked: a takeover that waits for a
\* close gets on when the close has ended.
AlwaysReturns == \A c \in Caller : pc[c] # "idle" ~> (pc[c] = "returned" \/ outcome = "panicked")
=============================================================================

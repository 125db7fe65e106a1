------------------------------ MODULE SyncWait ------------------------------
(***************************************************************************)
(* syncWait(scope.join()): the main thread blocks on a futex until the     *)
(* coroutine that joins the scope has ended (sync.hpp, sync.cpp).  The     *)
(* coroutine starts on the main thread and may end on the thread of the    *)
(* work that resumes it; its final_suspend sets the event.                 *)
(***************************************************************************)
EXTENDS AsyncScope

VARIABLES value,   \* _value of lightweight_manual_reset_event
          spc,     \* set() by the coroutine: "no", "stored", "woken"
          mpc      \* the main thread in syncWait

syncVars == <<count, continuation, jpc, work, resumer, value, spc, mpc>>

SyncInit ==
    /\ ScopeInit
    /\ value = 0
    /\ spc = "no"
    /\ mpc = "start"

\* The scope, and the coroutine up to its end.
Inner == ScopeNext /\ UNCHANGED <<value, spc, mpc>>

\* completion_notifier: set() stores, then wakes whoever sleeps.
SetStore ==
    /\ jpc = "joined" /\ spc = "no"
    /\ value' = 1
    /\ spc' = "stored"
    /\ UNCHANGED <<scopeVars, mpc>>
SetWake ==
    /\ spc = "stored"
    /\ spc' = "woken"
    /\ mpc' = IF mpc = "asleep" THEN "load" ELSE mpc
    /\ UNCHANGED <<scopeVars, value>>

\* start() returns when the coroutine suspends, or has ended on this thread.
StartReturns ==
    /\ mpc = "start"
    /\ \/ jpc = "suspended"
       \/ jpc = "joined" /\ (resumer # Nobody \/ spc = "woken")
    /\ mpc' = "load"
    /\ UNCHANGED <<scopeVars, value, spc>>

\* wait(): read the value; sleep if the kernel finds it still 0, and
\* return at EAGAIN; a signal or a spurious wake reads it again.
WaitLoad ==
    /\ mpc = "load"
    /\ mpc' = IF value = 0 THEN "futex" ELSE "returned"
    /\ UNCHANGED <<scopeVars, value, spc>>
FutexSleeps ==   \* mutant: the word is not compared by the kernel
    /\ mpc = "futex"
    /\ mpc' = "asleep"
    /\ UNCHANGED <<scopeVars, value, spc>>
FutexWait ==
    /\ mpc = "futex"
    /\ mpc' = IF value = 0 THEN "asleep" ELSE "returned"
    /\ UNCHANGED <<scopeVars, value, spc>>
SpuriousWake ==
    /\ mpc = "asleep"
    /\ mpc' = "load"
    /\ UNCHANGED <<scopeVars, value, spc>>

MainStep == StartReturns \/ WaitLoad \/ FutexWait

SyncNext == Inner \/ SetStore \/ SetWake \/ MainStep \/ SpuriousWake
-----------------------------------------------------------------------------
\* syncWait() returns once the work that the scope has goes on, with all of it
\* over: the wake cannot fall between the load of the value and the sleep.
SyncWaitReturns ==
    jpc \in {"suspended", "joined"} ~> mpc = "returned" /\ Live = {}
=============================================================================

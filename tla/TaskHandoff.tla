---------------------------- MODULE TaskHandoff -----------------------------
(***************************************************************************)
(* co_await of a Task (task.hpp, detail/promise.hpp) whose coroutine ends  *)
(* on another thread.  A child coroutine starts at once and may come to    *)
(* its end at any time; the awaiter asks done(), installs itself as the    *)
(* continuation, and the two exchanges of promise.flag decide who goes on. *)
(* done() holds as soon as the child is suspended at its final suspend     *)
(* point, before the final awaiter runs; it is a plain read, which may     *)
(* still miss that.                                                        *)
(***************************************************************************)
EXTENDS Naturals

CONSTANTS Tasks    \* each with a child and the coroutine that awaits it

VARIABLES kpc,       \* the child: "running", "final", "ended"
          apc,       \* the coroutine that awaits it
          flag,      \* promise.flag
          next,      \* promise.continuation is the awaiter
          polled,    \* await_ready() held
          resumed    \* how often the awaiter was resumed

taskVars == <<kpc, apc, flag, next, polled, resumed>>

TaskInit ==
    /\ kpc = [t \in Tasks |-> "running"]
    /\ apc = [t \in Tasks |-> "ready"]
    /\ flag = [t \in Tasks |-> FALSE]
    /\ next = [t \in Tasks |-> FALSE]
    /\ polled = [t \in Tasks |-> FALSE]
    /\ resumed = [t \in Tasks |-> 0]

\* return_value, then the child suspends at its final suspend point.
ChildReturns(t) ==
    /\ kpc[t] = "running"
    /\ kpc' = [kpc EXCEPT ![t] = "final"]
    /\ UNCHANGED <<apc, flag, next, polled, resumed>>

\* The final awaiter: second at the flag, it resumes the continuation.
FinalSuspendAlways(t) ==   \* mutant: resumes a continuation it sees, first or not
    /\ kpc[t] = "final"
    /\ kpc' = [kpc EXCEPT ![t] = "ended"]
    /\ flag' = [flag EXCEPT ![t] = TRUE]
    /\ apc' = [apc EXCEPT ![t] = IF @ = "suspended" THEN "resumed" ELSE @]
    /\ resumed' = [resumed EXCEPT ![t] = IF next[t] THEN @ + 1 ELSE @]
    /\ UNCHANGED <<next, polled>>
FinalSuspend(t) ==
    LET go == flag[t] /\ next[t] IN
    /\ kpc[t] = "final"
    /\ kpc' = [kpc EXCEPT ![t] = "ended"]
    /\ flag' = [flag EXCEPT ![t] = TRUE]
    /\ apc' = [apc EXCEPT ![t] = IF go THEN "resumed" ELSE @]
    /\ resumed' = [resumed EXCEPT ![t] = IF go THEN @ + 1 ELSE @]
    /\ UNCHANGED <<next, polled>>

\* await_ready().
TaskReady(t) ==
    /\ apc[t] = "ready"
    /\ \E done \in BOOLEAN :
          /\ done => kpc[t] # "running"
          /\ ~done => kpc[t] # "ended"
          /\ polled' = [polled EXCEPT ![t] = done]
          /\ apc' = [apc EXCEPT ![t] = IF done THEN "resumed" ELSE "install"]
    /\ UNCHANGED <<kpc, flag, next, resumed>>

\* await_suspend(): the continuation, then the flag; second at the flag, the
\* awaiter goes on by itself.
Install(t) ==
    /\ apc[t] = "install"
    /\ next' = [next EXCEPT ![t] = TRUE]
    /\ apc' = [apc EXCEPT ![t] = "exchange"]
    /\ UNCHANGED <<kpc, flag, polled, resumed>>
ExchangeSuspends(t) ==   \* mutant: the awaiter suspends whatever the flag says
    /\ apc[t] = "exchange"
    /\ flag' = [flag EXCEPT ![t] = TRUE]
    /\ apc' = [apc EXCEPT ![t] = "suspended"]
    /\ UNCHANGED <<kpc, next, polled, resumed>>
Exchange(t) ==
    /\ apc[t] = "exchange"
    /\ flag' = [flag EXCEPT ![t] = TRUE]
    /\ apc' = [apc EXCEPT ![t] = IF flag[t] THEN "resumed" ELSE "suspended"]
    /\ resumed' = [resumed EXCEPT ![t] = IF flag[t] THEN @ + 1 ELSE @]
    /\ UNCHANGED <<kpc, next, polled>>

\* The awaiter has the result; ~task() destroys the frame of the child.
DestroyTask(t) ==
    /\ apc[t] = "resumed"
    /\ apc' = [apc EXCEPT ![t] = "destroyed"]
    /\ UNCHANGED <<kpc, flag, next, polled, resumed>>

TaskStep(t) ==
    \/ ChildReturns(t) \/ FinalSuspend(t)
    \/ TaskReady(t) \/ Install(t) \/ Exchange(t) \/ DestroyTask(t)

TaskNext == \E t \in Tasks : TaskStep(t)

TaskSpec == TaskInit /\ [][TaskNext]_taskVars
-----------------------------------------------------------------------------
\* The awaiter is resumed once at most, with the result there; and if it came
\* by the flag, the final awaiter is done with the frame when it is destroyed.
\* (An awaiter for whom await_ready() held has no such promise.)
ResumedOnce ==
    \A t \in Tasks :
        /\ resumed[t] <= 1
        /\ apc[t] \in {"resumed", "destroyed"} => kpc[t] # "running"
        /\ apc[t] \in {"resumed", "destroyed"} /\ ~polled[t] => kpc[t] = "ended"

\* Of two exchanges one is second: the awaiter does not stay suspended.
AwaiterGoesOn == \A t \in Tasks : apc[t] = "suspended" ~> apc[t] = "resumed"
=============================================================================

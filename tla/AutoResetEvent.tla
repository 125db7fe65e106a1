--------------------------- MODULE AutoResetEvent ---------------------------
(***************************************************************************)
(* suil::AutoResetEvent (event.cpp) as its callers can use it: set(),      *)
(* reset() and co_await.  operator co_await returns an empty operation on  *)
(* all paths, so its await_ready() holds, nobody is ever enqueued, and     *)
(* resumeWaiters() must be out of reach: it would go through a null        *)
(* pointer.  _state counts sets in its low half and waiters in its high    *)
(* half, Half being 2^32.                                                  *)
(***************************************************************************)
EXTENDS Naturals

CONSTANTS Users,     \* the threads that use the event
          Half,      \* 2^32: the weight of WAITER_INCREMENT
          MaxCalls   \* bound: calls of a thread

ASSUME AutoAssumption == Half \in Nat /\ Half > 1 /\ MaxCalls \in Nat

VARIABLES word,      \* _state
          seen,      \* oldState of each thread
          upc,       \* the call a thread is in, or "idle"
          calls,     \* calls left
          given, taken   \* history: sets that counted, sets used up

autoVars == <<word, seen, upc, calls, given, taken>>

get_set_count(s) == s % Half
get_waiter_count(s) == s \div Half

AutoInit ==
    /\ word \in {0, 1}
    /\ given = word
    /\ taken = 0
    /\ seen = [u \in Users |-> 0]
    /\ upc = [u \in Users |-> "idle"]
    /\ calls = [u \in Users |-> MaxCalls]

\* A call begins with a relaxed load of _state.
Call(u, op) ==
    /\ upc[u] = "idle" /\ calls[u] > 0
    /\ calls' = [calls EXCEPT ![u] = @ - 1]
    /\ seen' = [seen EXCEPT ![u] = word]
    /\ upc' = [upc EXCEPT ![u] = op]
    /\ UNCHANGED <<word, given, taken>>

\* set() returns if the event is set already, reset() and co_await if it is not.
NothingToDo(u) ==
    LET more == get_set_count(seen[u]) > get_waiter_count(seen[u]) IN
    /\ \/ upc[u] = "set" /\ more
       \/ upc[u] \in {"reset", "await"} /\ ~more
    /\ upc' = [upc EXCEPT ![u] = "idle"]
    /\ UNCHANGED <<word, seen, calls, given, taken>>

\* A compare-exchange that fails: set() and reset() try again with what they
\* saw, operator co_await gives up.
CasFails(u) ==
    /\ upc[u] \in {"set", "reset", "await"}
    /\ word # seen[u]
    /\ seen' = [seen EXCEPT ![u] = word]
    /\ upc' = [upc EXCEPT ![u] = IF @ = "await" THEN "idle" ELSE @]
    /\ UNCHANGED <<word, calls, given, taken>>

\* set(): one more set; a caller that finds waiters only goes to resume them.
SetCas(u) ==
    /\ upc[u] = "set"
    /\ get_set_count(seen[u]) <= get_waiter_count(seen[u])
    /\ word = seen[u]
    /\ word' = (word + 1) % (Half * Half)
    /\ given' = given + 1
    /\ upc' = [upc EXCEPT ![u] =
                 IF seen[u] # 0 /\ get_set_count(seen[u]) = 0
                 THEN "resumeWaiters" ELSE "idle"]
    /\ UNCHANGED <<seen, calls, taken>>

\* reset() and a synchronous acquisition take one set.
TakeBlind(u) ==   \* mutant: _state is decremented without a comparison
    /\ upc[u] \in {"reset", "await"}
    /\ get_set_count(seen[u]) > get_waiter_count(seen[u])
    /\ word' = (word + Half * Half - 1) % (Half * Half)
    /\ taken' = taken + 1
    /\ upc' = [upc EXCEPT ![u] = "idle"]
    /\ UNCHANGED <<seen, calls, given>>
TakeCas(u) ==
    /\ upc[u] \in {"reset", "await"}
    /\ get_set_count(seen[u]) > get_waiter_count(seen[u])
    /\ word = seen[u]
    /\ word' = (word + Half * Half - 1) % (Half * Half)
    /\ taken' = taken + 1
    /\ upc' = [upc EXCEPT ![u] = "idle"]
    /\ UNCHANGED <<seen, calls, given>>

AutoNext == \E u \in Users :
    \/ \E op \in {"set", "reset", "await"} : Call(u, op)
    \/ NothingToDo(u) \/ CasFails(u) \/ SetCas(u) \/ TakeCas(u)

AutoSpec == AutoInit /\ [][AutoNext]_autoVars
-----------------------------------------------------------------------------
\* A set is used up once, by an acquisition or a reset, and the halves of the
\* word do not run into each other: no thread sees waiters that are not there
\* and goes to resume them.
SetsConserved ==
    /\ word \in {0, 1}
    /\ given = taken + word
    /\ \A u \in Users : upc[u] # "resumeWaiters"
=============================================================================

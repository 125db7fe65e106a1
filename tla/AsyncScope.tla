----------------------------- MODULE AsyncScope -----------------------------
(***************************************************************************)
(* suil::AsyncScope (scope.hpp): work is spawned, by the owner of the      *)
(* scope or by work of the scope, ends on any thread, and the owner joins. *)
(* A step is one access to _count or _continuation.                        *)
(***************************************************************************)
EXTENDS Naturals, FiniteSets

CONSTANTS Works,     \* the awaitables that may be spawned
          Nobody     \* no work

ASSUME ScopeAssumption == IsFiniteSet(Works) /\ Nobody \notin Works

VARIABLES count,         \* _count
          continuation,  \* _continuation is not null
          jpc,           \* where the owner of the scope is
          work,          \* the state of each oneway_task
          resumer        \* the work that resumed the owner, or Nobody

scopeVars == <<count, continuation, jpc, work, resumer>>

\* Every variable has a value of its type.
ScopeTypeOK ==
    /\ count \in Nat
    /\ continuation \in BOOLEAN
    /\ jpc \in {"open", "joining", "stored", "suspended", "joined"}
    /\ work \in [Works -> {"none", "live", "last", "over"}]
    /\ resumer \in Works \cup {Nobody}

ScopeInit ==
    /\ count = 1
    /\ continuation = FALSE
    /\ jpc = "open"
    /\ work = [w \in Works |-> "none"]
    /\ resumer = Nobody

\* spawn() by the owner or by work that is not over: on_work_started(), then
\* the awaitable runs to its first suspension.
Spawn(w) ==
    /\ work[w] = "none"
    /\ jpc = "open" \/ \E v \in Works : work[v] = "live"
    /\ count' = count + 1
    /\ work' = [work EXCEPT ![w] = "live"]
    /\ UNCHANGED <<continuation, jpc, resumer>>

\* on_work_finished(): the last one out of the scope resumes the owner.
WorkFinished(w) ==
    /\ work[w] = "live"
    /\ count' = count - 1
    /\ work' = [work EXCEPT ![w] = IF count = 1 THEN "last" ELSE "over"]
    /\ UNCHANGED <<continuation, jpc, resumer>>

ResumeOwner(w) ==
    /\ work[w] = "last"
    /\ continuation
    /\ work' = [work EXCEPT ![w] = "over"]
    /\ jpc' = "joined"
    /\ resumer' = w
    /\ UNCHANGED <<count, continuation>>

\* join(): await_ready() ...
JoinReady ==
    /\ jpc = "open"
    /\ jpc' = IF count = 0 THEN "joined" ELSE "joining"
    /\ UNCHANGED <<count, continuation, work, resumer>>

\* ... and await_suspend(), which stores the continuation ...
JoinStore ==
    /\ jpc = "joining"
    /\ continuation' = TRUE
    /\ jpc' = "stored"
    /\ UNCHANGED <<count, work, resumer>>

\* ... and suspends unless no work is left.
JoinCountFirst ==   \* mutant: counts down before the continuation is stored
    /\ jpc = "joining"
    /\ count' = count - 1
    /\ jpc' = IF count > 1 THEN "suspended" ELSE "joined"
    /\ UNCHANGED <<continuation, work, resumer>>
JoinCount ==
    /\ jpc = "stored"
    /\ count' = count - 1
    /\ jpc' = IF count > 1 THEN "suspended" ELSE "joined"
    /\ UNCHANGED <<continuation, work, resumer>>

JoinStep == JoinReady \/ JoinStore \/ JoinCount

ScopeNext ==
    \/ JoinStep
    \/ \E w \in Works : Spawn(w) \/ WorkFinished(w) \/ ResumeOwner(w)

ScopeSpec == ScopeInit /\ [][ScopeNext]_scopeVars
-----------------------------------------------------------------------------
Live == {w \in Works : work[w] = "live"}

\* The owner goes on after all work has ended; the last work out has an owner
\* to resume, stored and suspended, and is alone with that (scope.hpp:192);
\* and whoever may spawn finds the count above zero (scope.hpp:198).
JoinedAfterWork ==
    /\ jpc = "joined" => Live = {} /\ \A w \in Works : work[w] # "last"
    /\ \A w \in Works : work[w] = "last" =>
          /\ continuation /\ jpc = "suspended"
          /\ \A v \in Works : work[v] = "last" => v = w
    /\ jpc = "open" \/ Live # {} => count > 0
=============================================================================

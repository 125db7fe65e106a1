-------------------------- MODULE ManualResetEvent --------------------------
(***************************************************************************)
(* suil::ManualResetEvent (event.hpp, event.cpp): coroutines co_await the  *)
(* event while threads set and reset it.  _state is the event itself (set),*)
(* null, or the newest manual_reset_event_operation of a chain; the chain  *)
(* is a sequence, newest first, and a compare-exchange sees its head only. *)
(***************************************************************************)
EXTENDS Naturals, SequencesExt

CONSTANTS Waiters,    \* coroutines, each with one operation in its frame
          Setters,    \* threads that call set()
          NoOne,      \* null
          MaxWaits,   \* bound: co_awaits of a coroutine
          MaxSets     \* bound: calls of set() of a thread

ASSUME EventAssumption ==
    NoOne \notin Waiters /\ MaxWaits \in Nat /\ MaxSets \in Nat

VARIABLES
    isSet,    \* _state is the event's own address
    chain,    \* otherwise the operations _state leads to
    wpc,      \* what each coroutine does next
    head,     \* oldState in await_suspend
    walk,     \* what current still leads to in the loop of set()
    runs,     \* the coroutine that set() has resumed, until it suspends
    waits, sets   \* what is left of the bounds

eventVars == <<isSet, chain, wpc, head, walk, runs, waits, sets>>

SETSTATE == "set"

EventState ==
    IF isSet THEN SETSTATE ELSE IF chain = <<>> THEN NoOne ELSE Head(chain)

\* Every variable has a value of its type.
EventTypeOK ==
    /\ isSet \in BOOLEAN
    /\ chain \in Seq(Waiters)
    /\ wpc \in [Waiters -> {"out", "load", "cas", "waiting"}]
    /\ head \in [Waiters -> Waiters \cup {NoOne, SETSTATE}]
    /\ walk \in [Setters -> Seq(Waiters)]
    /\ runs \in [Setters -> Waiters \cup {NoOne}]
    /\ waits \in [Waiters -> 0 .. MaxWaits]
    /\ sets \in [Setters -> 0 .. MaxSets]

EventInit ==
    /\ isSet \in BOOLEAN
    /\ chain = <<>>
    /\ wpc = [w \in Waiters |-> "out"]
    /\ head = [w \in Waiters |-> NoOne]
    /\ walk = [s \in Setters |-> <<>>]
    /\ runs = [s \in Setters |-> NoOne]
    /\ waits = [w \in Waiters |-> MaxWaits]
    /\ sets = [s \in Setters |-> MaxSets]

\* resume() returns to the loop of set() when the coroutine suspends or ends.
Suspends(w) ==
    runs' = [s \in Setters |-> IF runs[s] = w THEN NoOne ELSE runs[s]]

\* await_ready(): the coroutine goes on if the event is set.
AwaitReady(w) ==
    /\ wpc[w] = "out" /\ waits[w] > 0
    /\ waits' = [waits EXCEPT ![w] = @ - 1]
    /\ wpc' = [wpc EXCEPT ![w] = IF isSet THEN "out" ELSE "load"]
    /\ UNCHANGED <<isSet, chain, head, walk, runs, sets>>

\* await_suspend() reads _state, at first or by a compare-exchange that
\* fails; it does not suspend if the event is set by now.
Observe(w) ==
    /\ \/ wpc[w] = "load"
       \/ wpc[w] = "cas" /\ EventState # head[w]
    /\ head' = [head EXCEPT ![w] = EventState]
    /\ wpc' = [wpc EXCEPT ![w] = IF isSet THEN "out" ELSE "cas"]
    /\ UNCHANGED <<isSet, chain, walk, runs, waits, sets>>

\* The compare-exchange succeeds: the operation heads the chain.
EnqueueBlind(w) ==   \* mutant: _state is stored, not compared
    /\ wpc[w] = "cas"
    /\ isSet' = FALSE
    /\ chain' = IF head[w] = NoOne THEN <<w>> ELSE <<w>> \o chain
    /\ wpc' = [wpc EXCEPT ![w] = "waiting"]
    /\ Suspends(w)
    /\ UNCHANGED <<head, walk, waits, sets>>
Enqueue(w) ==
    /\ wpc[w] = "cas"
    /\ EventState = head[w]
    /\ chain' = <<w>> \o chain
    /\ wpc' = [wpc EXCEPT ![w] = "waiting"]
    /\ Suspends(w)
    /\ UNCHANGED <<isSet, head, walk, waits, sets>>

\* A resumed coroutine suspends in something else, or ends.
Leave(w) ==
    /\ wpc[w] = "out"
    /\ \E s \in Setters : runs[s] = w
    /\ Suspends(w)
    /\ UNCHANGED <<isSet, chain, wpc, head, walk, waits, sets>>

\* set() exchanges _state and takes the chain, if there was one.
Set(s) ==
    /\ walk[s] = <<>> /\ runs[s] = NoOne /\ sets[s] > 0
    /\ sets' = [sets EXCEPT ![s] = @ - 1]
    /\ isSet' = TRUE
    /\ chain' = <<>>
    /\ walk' = [walk EXCEPT ![s] = chain]
    /\ UNCHANGED <<wpc, head, runs, waits>>

\* The loop of set(): _next is read, then the coroutine is resumed.
ResumeThenNext(s) ==   \* mutant: _next is read when resume() has returned
    LET w == Head(walk[s]) IN
    /\ walk[s] # <<>> /\ runs[s] = NoOne
    /\ wpc' = [wpc EXCEPT ![w] = "out"]
    /\ runs' = [runs EXCEPT ![s] = w]
    /\ walk' = [walk EXCEPT ![s] = <<>>]
    /\ UNCHANGED <<isSet, chain, head, waits, sets>>
ResumeCurrent(s) ==
    LET w == Head(walk[s]) IN
    /\ walk[s] # <<>> /\ runs[s] = NoOne
    /\ wpc' = [wpc EXCEPT ![w] = "out"]
    /\ runs' = [runs EXCEPT ![s] = w]
    /\ walk' = [walk EXCEPT ![s] = Tail(walk[s])]
    /\ UNCHANGED <<isSet, chain, head, waits, sets>>

\* reset() by anybody, a resumed coroutine too; it may fail spuriously.
Reset ==
    /\ isSet
    /\ isSet' = FALSE
    /\ UNCHANGED <<chain, wpc, head, walk, runs, waits, sets>>

WaiterStep(w) == Observe(w) \/ Enqueue(w) \/ Leave(w)

EventNext ==
    \/ \E w \in Waiters : AwaitReady(w) \/ WaiterStep(w)
    \/ \E s \in Setters : Set(s) \/ ResumeCurrent(s)
    \/ Reset

EventSpec == EventInit /\ [][EventNext]_eventVars
-----------------------------------------------------------------------------
\* Every suspended coroutine is on the chain or on what one call of set() has
\* still to resume, and there once, and nobody else is: set(), reset() and new
\* waiters lose none and resume none twice.
WaitersAccounted ==
    /\ \A w \in Waiters : wpc[w] = "waiting" <=>
          w \in ToSet(chain) \/ \E s \in Setters : w \in ToSet(walk[s])
    /\ \A w \in ToSet(chain) : \A s \in Setters : w \notin ToSet(walk[s])
    /\ \A s, t \in Setters : s # t => ToSet(walk[s]) \cap ToSet(walk[t]) = {}
    /\ IsInjective(chain)
    /\ \A s \in Setters : IsInjective(walk[s])

\* Whoever waits when the event is set is resumed, also if it is reset at once.
SetReleasesAll ==
    \A w \in Waiters : (wpc[w] = "waiting" /\ isSet) ~> wpc[w] # "waiting"
=============================================================================

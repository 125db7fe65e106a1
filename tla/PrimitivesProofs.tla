-------------------------- MODULE PrimitivesProofs --------------------------
(***************************************************************************)
(* The synchronisation primitives, one after the other, for any number of  *)
(* coroutines, threads and pieces of work.                                 *)
(***************************************************************************)
EXTENDS AsyncScope, TaskHandoff, AutoResetEvent, ManualResetEvent,
        SchedulerStart, AsyncMutex, SequenceLemmas, FiniteSetTheorems, TLAPS

(***************************************************************************)
(* AsyncScope: the owner goes on once, after all of the work.              *)
(* JoinedAfterWork is not inductive, because the decision falls on the     *)
(* count: ScopeInv adds what the count counts (the live work, and the      *)
(* owner until its await_suspend() has counted down), and that the work    *)
(* which brought it to zero leaves no live work behind.                    *)
(***************************************************************************)
Inside == jpc \in {"open", "joining", "stored"}
Counted == count = Cardinality(Live) + (IF Inside THEN 1 ELSE 0)
LastAlone ==
    /\ jpc \in {"stored", "suspended"} => continuation
    /\ \A w \in Works : work[w] = "last" => jpc = "suspended" /\ Live = {}
    /\ \A v, w \in Works : work[v] = "last" /\ work[w] = "last" => v = w
    /\ jpc = "joined" => Live = {} /\ \A w \in Works : work[w] # "last"
ScopeInv == ScopeTypeOK /\ Counted /\ LastAlone

\* The live work is a finite set, also after work has begun or ended.
LEMMA LiveFinite == IsFiniteSet(Live) /\ Cardinality(Live) \in Nat
<1>1. IsFiniteSet(Works)
    BY ScopeAssumption
<1>2. Live \subseteq Works
    BY DEF Live
<1> QED
    BY <1>1, <1>2, FS_Subset, FS_CardinalityType

\* spawn() makes one more piece of work live.
LEMMA OneMore ==
    ASSUME ScopeTypeOK, NEW w \in Works, Spawn(w)
    PROVE  Live' = Live \cup {w} /\ Cardinality(Live') = Cardinality(Live) + 1
<1>1. Live' = Live \cup {w}
    BY DEF Live, Spawn, ScopeTypeOK
<1>2. w \notin Live
    BY DEF Live, Spawn
<1> QED
    BY <1>1, <1>2, LiveFinite, FS_AddElement

\* The end of work takes it from the live work.
LEMMA OneLess ==
    ASSUME ScopeTypeOK, NEW w \in Works, WorkFinished(w)
    PROVE  /\ Live' = Live \ {w} /\ w \in Live
           /\ Cardinality(Live) \in Nat \ {0}
           /\ Cardinality(Live') = Cardinality(Live) - 1
<1>1. Live' = Live \ {w}
    BY DEF Live, WorkFinished, ScopeTypeOK
<1>2. w \in Live
    BY DEF Live, WorkFinished
<1>3. Cardinality(Live \ {w}) = Cardinality(Live) - 1
    BY <1>2, LiveFinite, FS_RemoveElement
<1>4. Cardinality(Live) # 0
    BY <1>2, LiveFinite, FS_EmptySet
<1> QED
    BY <1>1, <1>2, <1>3, <1>4, LiveFinite

\* At first the owner alone is counted.
LEMMA ScopeInitInv == ScopeInit => ScopeInv
<1> SUFFICES ASSUME ScopeInit PROVE ScopeInv
    OBVIOUS
<1>1. ScopeTypeOK
    BY DEF ScopeInit, ScopeTypeOK
<1>2. Live = {}
    BY DEF ScopeInit, Live
<1>3. Counted
    BY <1>2, FS_EmptySet DEF ScopeInit, Counted, Inside
<1>4. LastAlone
    BY <1>2 DEF ScopeInit, LastAlone
<1> QED
    BY <1>1, <1>3, <1>4 DEF ScopeInv

\* A step of the owner keeps the live work; join() goes on by itself only if
\* there is none.
LEMMA JoinKeeps == ScopeInv /\ JoinStep => ScopeInv'
<1> SUFFICES ASSUME ScopeInv, JoinStep PROVE ScopeInv'
    OBVIOUS
<1> USE DEF ScopeInv
<1>1. Live' = Live
    BY DEF JoinStep, JoinReady, JoinStore, JoinCount, Live
<1>2. Cardinality(Live') = Cardinality(Live) /\ Cardinality(Live) \in Nat
    BY <1>1, LiveFinite
<1>3. Cardinality(Live) = 0 => Live = {}
    BY LiveFinite, FS_EmptySet
<1>4. CASE JoinReady
  <2>1. ScopeTypeOK'
      BY <1>4 DEF JoinReady, ScopeTypeOK
  <2>2. jpc = "open" /\ jpc' = "joining"
      BY <1>2, <1>4 DEF JoinReady, Counted, Inside
  <2>3. Counted'
      BY <1>2, <1>4, <2>2 DEF JoinReady, Counted, Inside
  <2>4. LastAlone'
      BY <1>1, <1>4, <2>2 DEF JoinReady, LastAlone
  <2> QED
      BY <2>1, <2>3, <2>4
<1>5. CASE JoinStore
  <2>1. ScopeTypeOK'
      BY <1>5 DEF JoinStore, ScopeTypeOK
  <2>2. Counted'
      BY <1>2, <1>5 DEF JoinStore, Counted, Inside
  <2>3. LastAlone'
      BY <1>1, <1>5 DEF JoinStore, LastAlone
  <2> QED
      BY <2>1, <2>2, <2>3
<1>6. CASE JoinCount
  <2>1. count = Cardinality(Live) + 1
      BY <1>6 DEF JoinCount, Counted, Inside
  <2>2. ScopeTypeOK'
      BY <1>2, <1>6, <2>1 DEF JoinCount, ScopeTypeOK
  <2>3. Counted'
      BY <1>2, <1>6, <2>1 DEF JoinCount, Counted, Inside
  <2>4. jpc' = "joined" => Live' = {}
      BY <1>1, <1>2, <1>3, <1>6, <2>1 DEF JoinCount
  <2>5. \A w \in Works : work[w] # "last"
      BY <1>6 DEF JoinCount, LastAlone
  <2>6. LastAlone'
      BY <1>6, <2>4, <2>5 DEF JoinCount, LastAlone
  <2> QED
      BY <2>2, <2>3, <2>6
<1> QED
    BY <1>4, <1>5, <1>6 DEF JoinStep

\* Whoever spawns is counted, so nobody is last and the owner has not gone on.
LEMMA SpawnKeeps == ASSUME ScopeInv, NEW w \in Works, Spawn(w) PROVE ScopeInv'
<1> USE DEF ScopeInv
<1>1. ScopeTypeOK'
    BY DEF Spawn, ScopeTypeOK
<1>0. Cardinality(Live') = Cardinality(Live) + 1
    BY OneMore
<1>2. Counted'
    BY <1>0, LiveFinite DEF Spawn, Counted, Inside
<1>3. jpc # "joined" /\ \A v \in Works : work[v] # "last"
    BY DEF Spawn, LastAlone, Live
<1>4. \A v \in Works : work'[v] # "last"
    BY <1>3 DEF Spawn, ScopeTypeOK
<1>5. LastAlone'
    BY <1>3, <1>4 DEF Spawn, LastAlone
<1> QED
    BY <1>1, <1>2, <1>5

\* Work that brings the count to zero was the only live work, and the owner has
\* counted down before it: it is suspended, with its continuation stored.
LEMMA FinishKeeps == ASSUME ScopeInv, NEW w \in Works, WorkFinished(w) PROVE ScopeInv'
<1> USE DEF ScopeInv
<1>1. /\ Live' = Live \ {w} /\ w \in Live /\ Cardinality(Live) \in Nat \ {0}
      /\ Cardinality(Live') = Cardinality(Live) - 1
    BY OneLess
<1>0. count' \in Nat
    BY <1>1 DEF WorkFinished, Counted, Inside
<1>2. ScopeTypeOK'
    BY <1>0 DEF WorkFinished, ScopeTypeOK
<1>3. Counted'
    BY <1>1 DEF WorkFinished, Counted, Inside
<1>4. jpc # "joined" /\ \A v \in Works : work[v] # "last"
    BY <1>1 DEF LastAlone
<1>5. CASE count = 1
  <2>1. ~Inside /\ Cardinality(Live) = 1
      BY <1>1, <1>5 DEF Counted
  <2>2. jpc = "suspended"
      BY <1>4, <2>1 DEF Inside, ScopeTypeOK
  <2>3. Cardinality(Live') = 0 /\ IsFiniteSet(Live \ {w})
      BY <1>1, <2>1, LiveFinite, FS_RemoveElement
  <2>4. Live' = {}
      BY <1>1, <2>3, FS_EmptySet
  <2>5. \A v \in Works : work'[v] = "last" => v = w
      BY <1>4 DEF WorkFinished, ScopeTypeOK
  <2>6. LastAlone'
      BY <1>4, <2>2, <2>4, <2>5 DEF WorkFinished, LastAlone
  <2> QED
      BY <1>2, <1>3, <2>6
<1>6. CASE count # 1
  <2>1. \A v \in Works : work'[v] # "last"
      BY <1>4, <1>6 DEF WorkFinished, ScopeTypeOK
  <2>2. LastAlone'
      BY <1>4, <2>1 DEF WorkFinished, LastAlone
  <2> QED
      BY <1>2, <1>3, <2>2
<1> QED
    BY <1>5, <1>6

\* The last work out is alone when it resumes the owner.
LEMMA ResumeKeeps == ASSUME ScopeInv, NEW w \in Works, ResumeOwner(w) PROVE ScopeInv'
<1> USE DEF ScopeInv
<1>1. Live = {} /\ jpc = "suspended"
    BY DEF ResumeOwner, LastAlone
<1>2. Live' = {}
    BY <1>1 DEF ResumeOwner, Live, ScopeTypeOK
<1>3. ScopeTypeOK'
    BY DEF ResumeOwner, ScopeTypeOK
<1>4. Counted'
    BY <1>1, <1>2 DEF ResumeOwner, Counted, Inside
<1>5. \A v \in Works : work'[v] # "last"
    BY DEF ResumeOwner, LastAlone, ScopeTypeOK
<1>6. LastAlone'
    BY <1>2, <1>5 DEF ResumeOwner, LastAlone
<1> QED
    BY <1>3, <1>4, <1>6

\* The invariant gives the property: live work, or an open scope, is counted.
LEMMA InvJoins == ScopeInv => JoinedAfterWork
<1> SUFFICES ASSUME ScopeInv PROVE JoinedAfterWork
    OBVIOUS
<1>1. Live # {} => Cardinality(Live) # 0
    BY LiveFinite, FS_EmptySet
<1>2. jpc = "open" \/ Live # {} => count > 0
    BY <1>1, LiveFinite DEF ScopeInv, Counted, Inside
<1> QED
    BY <1>2 DEF ScopeInv, LastAlone, JoinedAfterWork

\* Whatever work is spawned, by whomever, and in whatever order it ends against
\* join() (scope.hpp), the owner is resumed after all of it and by one alone, and
\* nobody spawns into a scope whose count has come to zero.
THEOREM JoinsAfterAll == ScopeSpec => []JoinedAfterWork
<1>1. ScopeInv /\ [ScopeNext]_scopeVars => ScopeInv'
  <2> SUFFICES ASSUME ScopeInv, [ScopeNext]_scopeVars PROVE ScopeInv'
      OBVIOUS
  <2>1. CASE JoinStep
      BY <2>1, JoinKeeps
  <2>2. ASSUME NEW w \in Works, Spawn(w) \/ WorkFinished(w) \/ ResumeOwner(w)
        PROVE  ScopeInv'
      BY <2>2, SpawnKeeps, FinishKeeps, ResumeKeeps
  <2>3. CASE UNCHANGED scopeVars
    <3>1. Live' = Live
        BY <2>3 DEF scopeVars, Live
    <3> QED
        BY <2>3, <3>1 DEF scopeVars, ScopeInv, ScopeTypeOK, Counted, Inside, LastAlone
  <2> QED
      BY <2>1, <2>2, <2>3 DEF ScopeNext
<1> QED
    BY <1>1, ScopeInitInv, InvJoins, PTL DEF ScopeSpec
-----------------------------------------------------------------------------
(***************************************************************************)
(* The handshake of a task and the coroutine that awaits it.  What         *)
(* ResumedOnce lacks is what the flag means: until the awaiter's exchange  *)
(* it is set only by the child's, so that each side can tell from it       *)
(* whether the other has been there (FlagMeans).                           *)
(***************************************************************************)
TaskTypeOK ==
    /\ kpc \in [Tasks -> {"running", "final", "ended"}]
    /\ apc \in [Tasks -> {"ready", "install", "exchange", "suspended", "resumed", "destroyed"}]
    /\ flag \in [Tasks -> BOOLEAN] /\ next \in [Tasks -> BOOLEAN]
    /\ polled \in [Tasks -> BOOLEAN] /\ resumed \in [Tasks -> {0, 1}]

Through(t) == apc[t] \in {"resumed", "destroyed"}

\* Before the awaiter's exchange the flag is the child's.
FlagMeans(t) ==
    apc[t] \in {"ready", "install", "exchange"} \/ polled[t] => (flag[t] <=> kpc[t] = "ended")
\* The awaiter is installed exactly when it has come that far.
NextMeans(t) ==
    next[t] <=> apc[t] \in {"exchange", "suspended"} \/ (Through(t) /\ ~polled[t])
\* An awaiter that suspended was first, and the child will see the flag.
Suspended(t) == apc[t] = "suspended" => flag[t] /\ kpc[t] # "ended"
\* Whoever has gone on did so by await_ready() or by one of the two exchanges.
GoneOn(t) ==
    /\ polled[t] => Through(t) /\ kpc[t] # "running"
    /\ Through(t) /\ ~polled[t] => kpc[t] = "ended"
    /\ resumed[t] = 1 <=> Through(t) /\ ~polled[t]
Handed(t) == FlagMeans(t) /\ NextMeans(t) /\ Suspended(t) /\ GoneOn(t)
TaskInv == TaskTypeOK /\ \A t \in Tasks : Handed(t)

\* Nothing has been installed or raised at first.
LEMMA TaskInitInv == TaskInit => TaskInv
    BY DEF TaskInit, TaskInv, TaskTypeOK, Handed, FlagMeans, NextMeans, Suspended, GoneOn, Through

\* A step of one task is none of another.
LEMMA OtherTasks ==
    ASSUME TaskInv, NEW t \in Tasks, TaskStep(t), NEW u \in Tasks, u # t
    PROVE  Handed(u)'
<1>1. /\ kpc'[u] = kpc[u] /\ apc'[u] = apc[u] /\ flag'[u] = flag[u] /\ next'[u] = next[u]
      /\ polled'[u] = polled[u] /\ resumed'[u] = resumed[u]
    BY DEF TaskStep, ChildReturns, FinalSuspend, TaskReady, Install, Exchange, DestroyTask,
           TaskInv, TaskTypeOK
<1>2. Handed(u)
    BY DEF TaskInv
<1> QED
    BY <1>1, <1>2 DEF Handed, FlagMeans, NextMeans, Suspended, GoneOn, Through

\* Each step keeps the types and the handshake of its own task.
LEMMA OwnTask ==
    ASSUME TaskInv, NEW t \in Tasks, TaskStep(t)
    PROVE  TaskTypeOK' /\ Handed(t)'
<1> USE DEF TaskInv, TaskTypeOK, Handed, FlagMeans, NextMeans, Suspended, GoneOn, Through
<1>1. CASE ChildReturns(t)
    BY <1>1 DEF ChildReturns
<1>2. CASE FinalSuspend(t)
  <2>1. resumed[t] = 0 \/ ~(flag[t] /\ next[t])
      BY <1>2 DEF FinalSuspend
  <2>2. CASE flag[t] /\ next[t]
      BY <1>2, <2>1, <2>2 DEF FinalSuspend
  <2>3. CASE ~(flag[t] /\ next[t])
      BY <1>2, <2>3 DEF FinalSuspend
  <2> QED
      BY <2>2, <2>3
<1>3. CASE TaskReady(t)
    BY <1>3 DEF TaskReady
<1>4. CASE Install(t)
    BY <1>4 DEF Install
<1>5. CASE Exchange(t)
  <2>1. resumed[t] = 0
      BY <1>5 DEF Exchange
  <2>2. CASE flag[t]
      BY <1>5, <2>1, <2>2 DEF Exchange
  <2>3. CASE ~flag[t]
      BY <1>5, <2>3 DEF Exchange
  <2> QED
      BY <2>2, <2>3
<1>6. CASE DestroyTask(t)
    BY <1>6 DEF DestroyTask
<1> QED
    BY <1>1, <1>2, <1>3, <1>4, <1>5, <1>6 DEF TaskStep

\* However a task's end on one thread meets the co_await on another (task.hpp,
\* detail/promise.hpp), the awaiter is resumed once at most, with the result there,
\* and by the flag only when the final awaiter is done with the frame.
THEOREM HandedOverOnce == TaskSpec => []ResumedOnce
<1>1. TaskInv /\ [TaskNext]_taskVars => TaskInv'
  <2> SUFFICES ASSUME TaskInv, [TaskNext]_taskVars PROVE TaskInv'
      OBVIOUS
  <2>1. ASSUME NEW t \in Tasks, TaskStep(t) PROVE TaskInv'
    <3>1. TaskTypeOK' /\ Handed(t)'
        BY <2>1, OwnTask
    <3>2. \A u \in Tasks : u # t => Handed(u)'
        BY <2>1, OtherTasks
    <3> QED
        BY <3>1, <3>2 DEF TaskInv
  <2>2. CASE UNCHANGED taskVars
      BY <2>2 DEF taskVars, TaskInv, TaskTypeOK, Handed, FlagMeans, NextMeans, Suspended, GoneOn,
                  Through
  <2> QED
      BY <2>1, <2>2 DEF TaskNext
<1>2. TaskInv => ResumedOnce
  <2> SUFFICES ASSUME TaskInv, NEW t \in Tasks
               PROVE  /\ resumed[t] <= 1
                      /\ apc[t] \in {"resumed", "destroyed"} => kpc[t] # "running"
                      /\ apc[t] \in {"resumed", "destroyed"} /\ ~polled[t] => kpc[t] = "ended"
      BY Zenon DEF ResumedOnce
  <2>1. resumed[t] \in {0, 1}
      BY Zenon DEF TaskInv, TaskTypeOK
  <2>2. resumed[t] <= 1
      BY <2>1
  <2>3. Handed(t)
      BY Zenon DEF TaskInv
  <2>4. polled[t] \/ ~polled[t]
      OBVIOUS
  <2>5. Through(t) => kpc[t] # "running"
      BY <2>3, <2>4 DEF Handed, GoneOn
  <2> QED
      BY <2>2, <2>3, <2>5 DEF Handed, GoneOn, Through
<1> QED
    BY <1>1, <1>2, TaskInitInv, PTL DEF TaskSpec
-----------------------------------------------------------------------------
(***************************************************************************)
(* AutoResetEvent.  SetsConserved lacks what a thread has seen: a value    *)
(* that _state can have, so that a comparison with it says what the halves *)
(* of the word are.                                                        *)
(***************************************************************************)
AutoInv ==
    /\ SetsConserved
    /\ given \in Nat /\ taken \in Nat
    /\ seen \in [Users -> {0, 1}]
    /\ upc \in [Users -> {"idle", "set", "reset", "await", "resumeWaiters"}]

\* The halves of 0 and of 1, and one step up and down, at any width.
LEMMA Halves ==
    /\ get_set_count(0) = 0 /\ get_waiter_count(0) = 0
    /\ get_set_count(1) = 1 /\ get_waiter_count(1) = 0
    /\ (0 + 1) % (Half * Half) = 1
    /\ (1 + Half * Half - 1) % (Half * Half) = 0
<1>1. Half \in Nat /\ Half > 1
    BY AutoAssumption
<1>2. Half * Half \in Nat /\ Half * Half > 1
    BY <1>1
<1>3. \A m \in Nat : m > 1 => 0 % m = 0 /\ 1 % m = 1 /\ 0 \div m = 0 /\ 1 \div m = 0 /\ m % m = 0
    OBVIOUS
<1>4. 1 + Half * Half - 1 = Half * Half /\ 0 + 1 = 1
    BY <1>2
<1> QED
    BY <1>1, <1>2, <1>3, <1>4 DEF get_set_count, get_waiter_count

\* A thread that sets has seen no set, one that takes has seen one.
LEMMA AutoStep ==
    ASSUME AutoInv, NEW u \in Users,
           \/ \E op \in {"set", "reset", "await"} : Call(u, op)
           \/ NothingToDo(u) \/ CasFails(u) \/ SetCas(u) \/ TakeCas(u)
    PROVE  AutoInv'
<1> USE DEF AutoInv, SetsConserved
<1>1. CASE \E op \in {"set", "reset", "await"} : Call(u, op)
    BY <1>1 DEF Call
<1>2. CASE NothingToDo(u)
    BY <1>2 DEF NothingToDo
<1>3. CASE CasFails(u)
    BY <1>3 DEF CasFails
<1>4. CASE SetCas(u)
  <2>1. seen[u] = 0 /\ word = 0
      BY <1>4, Halves DEF SetCas
  <2>2. word' = 1
      BY <1>4, <2>1, Halves DEF SetCas
  <2>3. upc' = [upc EXCEPT ![u] = "idle"]
      BY <1>4, <2>1 DEF SetCas
  <2> QED
      BY <1>4, <2>1, <2>2, <2>3 DEF SetCas
<1>5. CASE TakeCas(u)
  <2>1. seen[u] = 1 /\ word = 1
      BY <1>5, Halves DEF TakeCas
  <2>2. word' = 0
      BY <1>5, <2>1, Halves DEF TakeCas
  <2> QED
      BY <1>5, <2>1, <2>2 DEF TakeCas
<1> QED
    BY <1>1, <1>2, <1>3, <1>4, <1>5

\* At any width of the halves and for any number of threads, a set is used up
\* once, and no thread ever goes to resume waiters that are not there
\* (AutoResetEvent::set, reset and operator co_await of event.cpp).
THEOREM SetsUsedOnce == AutoSpec => []SetsConserved
<1>1. AutoInit => AutoInv
    BY DEF AutoInit, AutoInv, SetsConserved
<1>2. AutoInv /\ [AutoNext]_autoVars => AutoInv'
  <2> SUFFICES ASSUME AutoInv, [AutoNext]_autoVars PROVE AutoInv'
      OBVIOUS
  <2>1. CASE AutoNext
      BY <2>1, AutoStep DEF AutoNext
  <2>2. CASE UNCHANGED autoVars
      BY <2>2 DEF autoVars, AutoInv, SetsConserved
  <2> QED
      BY <2>1, <2>2
<1>3. AutoInv => SetsConserved
    BY DEF AutoInv
<1> QED
    BY <1>1, <1>2, <1>3, PTL DEF AutoSpec
-----------------------------------------------------------------------------
(***************************************************************************)
(* ManualResetEvent.  With the types, WaitersAccounted is inductive.       *)
(***************************************************************************)
EventInv == EventTypeOK /\ WaitersAccounted

\* The event starts without waiters.
LEMMA EventInitInv == EventInit => EventInv
<1> SUFFICES ASSUME EventInit PROVE EventInv
    OBVIOUS
<1>1. EventTypeOK
    BY EventAssumption DEF EventInit, EventTypeOK
<1>2. chain = <<>> /\ \A s \in Setters : walk[s] = <<>>
    BY DEF EventInit
<1>3. WaitersAccounted
    BY <1>2, EmptyOnce, Zenon DEF WaitersAccounted, EventInit
<1> QED
    BY <1>1, <1>3 DEF EventInv

\* What a setter runs ends without touching chains.
LEMMA SuspendsType ==
    ASSUME EventTypeOK, NEW w \in Waiters, Suspends(w)
    PROVE  runs' \in [Setters -> Waiters \cup {NoOne}]
    BY DEF EventTypeOK, Suspends

\* Every step keeps the types.
LEMMA EventTypes == EventInv /\ EventNext => EventTypeOK'
<1> SUFFICES ASSUME EventInv, EventNext PROVE EventTypeOK'
    OBVIOUS
<1> USE DEF EventInv, EventTypeOK
<1>1. ASSUME NEW w \in Waiters, AwaitReady(w) PROVE EventTypeOK'
  <2>1. waits[w] \in 0 .. MaxWaits /\ waits[w] > 0 /\ MaxWaits \in Nat
      BY <1>1, EventAssumption DEF AwaitReady
  <2>2. waits[w] - 1 \in 0 .. MaxWaits
      BY <2>1
  <2>3. waits' \in [Waiters -> 0 .. MaxWaits]
      BY <1>1, <2>2 DEF AwaitReady
  <2> QED
      BY <1>1, <2>3 DEF AwaitReady
<1>2. ASSUME NEW w \in Waiters, Observe(w) PROVE EventTypeOK'
  <2>1. EventState \in Waiters \cup {NoOne, SETSTATE}
      BY DEF EventState
  <2> QED
      BY <1>2, <2>1 DEF Observe
<1>3. ASSUME NEW w \in Waiters, Enqueue(w) PROVE EventTypeOK'
  <2>1. runs' \in [Setters -> Waiters \cup {NoOne}]
      BY <1>3, SuspendsType DEF Enqueue
  <2> QED
      BY <1>3, <2>1 DEF Enqueue
<1>4. ASSUME NEW w \in Waiters, Leave(w) PROVE EventTypeOK'
  <2>1. runs' \in [Setters -> Waiters \cup {NoOne}]
      BY <1>4, SuspendsType DEF Leave
  <2> QED
      BY <1>4, <2>1 DEF Leave
<1>5. ASSUME NEW s \in Setters, Set(s) PROVE EventTypeOK'
  <2>1. sets[s] \in 0 .. MaxSets /\ sets[s] > 0 /\ MaxSets \in Nat
      BY <1>5, EventAssumption DEF Set
  <2>2. sets[s] - 1 \in 0 .. MaxSets
      BY <2>1
  <2>3. sets' \in [Setters -> 0 .. MaxSets]
      BY <1>5, <2>2 DEF Set
  <2> QED
      BY <1>5, <2>3 DEF Set
<1>6. ASSUME NEW s \in Setters, ResumeCurrent(s) PROVE EventTypeOK'
  <2>1. walk[s] \in Seq(Waiters) /\ walk[s] # <<>>
      BY <1>6 DEF ResumeCurrent
  <2>2. Head(walk[s]) \in Waiters /\ Tail(walk[s]) \in Seq(Waiters)
      BY <2>1
  <2> QED
      BY <1>6, <2>2 DEF ResumeCurrent
<1>7. CASE Reset
    BY <1>7 DEF Reset
<1> QED
    BY <1>1, <1>2, <1>3, <1>4, <1>5, <1>6, <1>7 DEF EventNext, WaiterStep

\* Only who is neither on the chain nor on a walk can be pushed, and only the
\* head of a walk leaves it.
LEMMA EventAccounts == EventInv /\ EventNext => WaitersAccounted'
<1> SUFFICES ASSUME EventInv, EventNext PROVE WaitersAccounted'
    OBVIOUS
<1>0. /\ WaitersAccounted /\ chain \in Seq(Waiters)
      /\ \A s \in Setters : walk[s] \in Seq(Waiters)
      /\ wpc \in [Waiters -> {"out", "load", "cas", "waiting"}]
      /\ walk \in [Setters -> Seq(Waiters)]
    BY DEF EventInv, EventTypeOK
<1>1. ASSUME UNCHANGED <<chain, walk>>, \A w \in Waiters : wpc'[w] = "waiting" <=> wpc[w] = "waiting"
      PROVE  WaitersAccounted'
    BY <1>0, <1>1 DEF WaitersAccounted
<1>2. ASSUME NEW w \in Waiters, AwaitReady(w) \/ Observe(w) \/ Leave(w) PROVE WaitersAccounted'
  <2>1. /\ UNCHANGED <<chain, walk>>
        /\ \A v \in Waiters : wpc'[v] = "waiting" <=> wpc[v] = "waiting"
      BY <1>0, <1>2 DEF AwaitReady, Observe, Leave
  <2> QED
      BY <1>1, <2>1
<1>3. ASSUME NEW w \in Waiters, Enqueue(w) PROVE WaitersAccounted'
  <2>1. w \notin ToSet(chain) /\ \A s \in Setters : w \notin ToSet(walk[s])
      BY <1>0, <1>3, Zenon DEF Enqueue, WaitersAccounted
  <2>2. ToSet(chain') = ToSet(chain) \cup {w} /\ IsInjective(chain')
      BY <1>0, <1>3, <2>1, PushOnce DEF Enqueue, WaitersAccounted
  <2>3. walk' = walk
      BY <1>3 DEF Enqueue
  <2>4. \A v \in Waiters : wpc'[v] = IF v = w THEN "waiting" ELSE wpc[v]
      BY <1>0, <1>3 DEF Enqueue
  <2> QED
      BY <1>0, <2>1, <2>2, <2>3, <2>4 DEF WaitersAccounted
<1>4. ASSUME NEW s \in Setters, Set(s) PROVE WaitersAccounted'
  <2>1. chain' = <<>> /\ wpc' = wpc
      BY <1>4 DEF Set
  <2>2. \A t \in Setters : walk'[t] = IF t = s THEN chain ELSE walk[t]
      BY <1>0, <1>4 DEF Set
  <2>3. walk[s] = <<>>
      BY <1>4 DEF Set
  <2>4. ToSet(chain') = {} /\ IsInjective(chain') /\ ToSet(walk[s]) = {}
      BY <2>1, <2>3, EmptyOnce
  <2>5. /\ \A w \in ToSet(chain) : \A t \in Setters : w \notin ToSet(walk[t])
        /\ \A t, u \in Setters : t # u => ToSet(walk[t]) \cap ToSet(walk[u]) = {}
        /\ IsInjective(chain) /\ \A t \in Setters : IsInjective(walk[t])
        /\ \A w \in Waiters : wpc[w] = "waiting" <=>
              w \in ToSet(chain) \/ \E t \in Setters : w \in ToSet(walk[t])
      BY <1>0 DEF WaitersAccounted
  <2>6. \A w \in Waiters : (\E t \in Setters : w \in ToSet(walk'[t])) <=>
              w \in ToSet(chain) \/ \E t \in Setters : w \in ToSet(walk[t])
      BY <2>2, <2>4
  <2>7. \A t, u \in Setters : t # u => ToSet(walk'[t]) \cap ToSet(walk'[u]) = {}
      BY <2>2, <2>5
  <2>8. \A t \in Setters : IsInjective(walk'[t])
      BY <2>2, <2>5
  <2> QED
      BY <2>1, <2>4, <2>5, <2>6, <2>7, <2>8 DEF WaitersAccounted
<1>5. ASSUME NEW s \in Setters, ResumeCurrent(s) PROVE WaitersAccounted'
  <2> DEFINE w == Head(walk[s])
  <2>1. walk[s] # <<>> /\ walk[s] \in Seq(Waiters) /\ IsInjective(walk[s])
      BY <1>0, <1>5 DEF ResumeCurrent, WaitersAccounted
  <2>2. w \in ToSet(walk[s]) /\ w \in Waiters
      BY <2>1 DEF ToSet
  <2>3. ToSet(Tail(walk[s])) = ToSet(walk[s]) \ {w} /\ IsInjective(Tail(walk[s]))
      BY <2>1, TailOnce
  <2>4. \A t \in Setters : walk'[t] = IF t = s THEN Tail(walk[s]) ELSE walk[t]
      BY <1>0, <1>5 DEF ResumeCurrent
  <2>5. \A v \in Waiters : wpc'[v] = IF v = w THEN "out" ELSE wpc[v]
      BY <1>0, <1>5 DEF ResumeCurrent
  <2>6. chain' = chain
      BY <1>5 DEF ResumeCurrent
  <2> HIDE DEF w
  <2>7. /\ \A v \in ToSet(chain) : \A t \in Setters : v \notin ToSet(walk[t])
        /\ \A t, u \in Setters : t # u => ToSet(walk[t]) \cap ToSet(walk[u]) = {}
        /\ IsInjective(chain) /\ \A t \in Setters : IsInjective(walk[t])
        /\ \A v \in Waiters : wpc[v] = "waiting" <=>
              v \in ToSet(chain) \/ \E t \in Setters : v \in ToSet(walk[t])
      BY <1>0 DEF WaitersAccounted
  <2>8. \A t \in Setters : ToSet(walk'[t]) = ToSet(walk[t]) \ {w} /\ IsInjective(walk'[t])
    <3> SUFFICES ASSUME NEW t \in Setters
                 PROVE  ToSet(walk'[t]) = ToSet(walk[t]) \ {w} /\ IsInjective(walk'[t])
        OBVIOUS
    <3>1. CASE t = s
        BY <2>3, <2>4, <3>1
    <3>2. CASE t # s
      <4>1. w \notin ToSet(walk[t])
          BY <2>2, <2>7, <3>2
      <4> QED
          BY <2>4, <2>7, <3>2, <4>1
    <3> QED
        BY <3>1, <3>2
  <2>9. w \notin ToSet(chain)
      BY <2>2, <2>7
  <2>10. \A v \in Waiters : wpc'[v] = "waiting" <=>
              v \in ToSet(chain') \/ \E t \in Setters : v \in ToSet(walk'[t])
      BY <2>5, <2>6, <2>7, <2>8, <2>9
  <2> QED
      BY <2>6, <2>7, <2>8, <2>10 DEF WaitersAccounted
<1>6. CASE Reset
    BY <1>1, <1>6 DEF Reset
<1> QED
    BY <1>2, <1>3, <1>4, <1>5, <1>6 DEF EventNext, WaiterStep

\* For any number of coroutines and setters (ManualResetEvent of event.cpp),
\* set(), reset() and new waiters lose nobody who waits and resume nobody twice.
THEOREM WaitersKept == EventSpec => []WaitersAccounted
<1>1. EventInv /\ [EventNext]_eventVars => EventInv'
  <2> SUFFICES ASSUME EventInv, [EventNext]_eventVars PROVE EventInv'
      OBVIOUS
  <2>1. CASE EventNext
      BY <2>1, EventTypes, EventAccounts DEF EventInv
  <2>2. CASE UNCHANGED eventVars
    <3>1. EventTypeOK'
        BY <2>2 DEF eventVars, EventInv, EventTypeOK
    <3>2. WaitersAccounted'
        BY <2>2 DEF eventVars, EventInv, WaitersAccounted
    <3> QED
        BY <3>1, <3>2 DEF EventInv
  <2> QED
      BY <2>1, <2>2
<1>2. EventInv => WaitersAccounted
    BY DEF EventInv
<1> QED
    BY <1>1, <1>2, EventInitInv, PTL DEF EventSpec
-----------------------------------------------------------------------------
(***************************************************************************)
(* The start of the scheduler.  What StartedOnce lacks is that one caller  *)
(* at most is in run(), and how far it is there; that nobody chooses a     *)
(* Thread before run() has returned; and what minLoad and tid stand for in *)
(* the middle of minLoadSchedule.                                          *)
(***************************************************************************)
StartTypeOK ==
    /\ initialized \in BOOLEAN
    /\ threadCount \in 0 .. Concurrency
    /\ threads \in [Ids -> {"none", "made", "active"}]
    /\ made \in [Ids -> Nat]
    /\ load \in [Ids -> 0 .. MaxLoad]
    /\ ipc \in [Callers -> {"init", "returned", "make", "await", "ran", "choose", "chosen"}]
    /\ at \in [Callers -> Nat] /\ low \in [Callers -> Nat] /\ choice \in [Callers -> Nat]
    /\ looked \in [Callers -> SUBSET (Nat \X Nat)]

Busy(c) == ipc[c] \in {"make", "await"}
Ran(c) == ipc[c] \in {"ran", "choose", "chosen"}
FirstCall ==
    /\ ~initialized => (\A c \in Callers : ipc[c] = "init") /\ \A i \in Ids : made[i] = 0
    /\ initialized => threadCount \in 1 .. Cap
    /\ \A i \in Ids : made[i] <= 1
OneRun == \A c, d \in Callers : Busy(c) /\ (Busy(d) \/ Ran(d)) => c = d
InRun(c) ==
    /\ ipc[c] = "init" => at[c] = 0
    /\ ipc[c] = "make" => at[c] <= threadCount /\ \A i \in Ids : i >= at[c] => made[i] = 0
    /\ ipc[c] = "await" => /\ at[c] <= threadCount
                           /\ \A i \in Ids : i < at[c] => threads[i] = "active"
    /\ Ran(c) => \A i \in Ids : i < threadCount => threads[i] = "active"
InChoice(c) ==
    /\ ipc[c] \notin {"choose", "chosen"} => looked[c] = {} /\ low[c] = MaxLoad + 1
    /\ ipc[c] = "choose" => /\ at[c] <= threadCount
                            /\ at[c] = 0 => looked[c] = {} /\ low[c] = MaxLoad + 1
    /\ ipc[c] = "chosen" \/ (ipc[c] = "choose" /\ at[c] > 0) =>
          choice[c] < threadCount /\ <<choice[c], low[c]>> \in looked[c]
    /\ \A l \in looked[c] : low[c] <= l[2]
StartInv ==
    /\ StartTypeOK /\ FirstCall /\ OneRun
    /\ \A c \in Callers : InRun(c) /\ InChoice(c)

\* Nobody has called init() yet.
LEMMA StartInitInv == StartInit => StartInv
<1> SUFFICES ASSUME StartInit PROVE StartInv
    OBVIOUS
<1>1. StartTypeOK
  <2>1. 0 \in 0 .. Concurrency /\ 0 \in 0 .. MaxLoad /\ MaxLoad + 1 \in Nat
      BY StartAssumption
  <2> QED
      BY <2>1 DEF StartInit, StartTypeOK
<1>2. FirstCall
    BY DEF StartInit, FirstCall
<1>3. OneRun
    BY DEF StartInit, OneRun, Busy
<1>4. \A c \in Callers : InRun(c) /\ InChoice(c)
    BY DEF StartInit, InRun, InChoice, Ran
<1> QED
    BY <1>1, <1>2, <1>3, <1>4 DEF StartInv

\* run() makes at least one Thread, and no more than there are places.
LEMMA ThreadsAsked ==
    ASSUME NEW c \in Callers
    PROVE  NumThreads(Asked[c]) \in 1 .. Cap /\ NumThreads(Asked[c]) <= Concurrency
<1>1. Asked[c] \in 0 .. Concurrency /\ Concurrency \in Nat \ {0} /\ Cap \in Nat \ {0}
    BY StartAssumption
<1> QED
    BY <1>1 DEF NumThreads

\* init(): the first caller goes to run(), any other returns.
LEMMA InitKeeps == ASSUME StartInv, NEW c \in Callers, InitCall(c) PROVE StartInv'
<1> USE DEF StartInv
<1>1. /\ ipc[c] = "init" /\ UNCHANGED <<threads, made, load, at, low, choice, looked>>
      /\ initialized' = TRUE
      /\ \A d \in Callers : d # c => ipc'[d] = ipc[d]
    BY DEF InitCall, StartTypeOK
<1>2. CASE initialized
  <2>1. threadCount' = threadCount /\ ipc' = [ipc EXCEPT ![c] = "returned"]
      BY <1>2 DEF InitCall
  <2>2. StartTypeOK'
      BY <1>1, <2>1 DEF StartTypeOK
  <2>3. ipc'[c] = "returned"
      BY <2>1 DEF StartTypeOK
  <2>4. FirstCall'
      BY <1>1, <1>2, <2>1 DEF FirstCall
  <2>5. OneRun'
      BY <1>1, <2>3 DEF OneRun, Busy, Ran
  <2>6. \A d \in Callers : InRun(d)'
      BY <1>1, <2>1, <2>3 DEF InRun, Ran
  <2>7. \A d \in Callers : InChoice(d)'
      BY <1>1, <2>1, <2>3 DEF InChoice
  <2> QED
      BY <2>2, <2>4, <2>5, <2>6, <2>7
<1>3. CASE ~initialized
  <2>1. threadCount' = NumThreads(Asked[c]) /\ ipc' = [ipc EXCEPT ![c] = "make"]
      BY <1>3 DEF InitCall
  <2>2. /\ threadCount' \in 1 .. Cap /\ threadCount' \in 0 .. Concurrency
        /\ threadCount' \in Nat
      BY <2>1, ThreadsAsked, StartAssumption
  <2>3. StartTypeOK'
      BY <1>1, <2>1, <2>2 DEF StartTypeOK
  <2>4. ipc'[c] = "make" /\ \A d \in Callers : d # c => ipc'[d] = "init"
      BY <1>1, <1>3, <2>1 DEF StartTypeOK, FirstCall
  <2>5. \A i \in Ids : made'[i] = 0
      BY <1>1, <1>3 DEF FirstCall
  <2>6. FirstCall'
      BY <1>1, <2>2, <2>5 DEF FirstCall
  <2>7. OneRun'
      BY <2>4 DEF OneRun, Busy, Ran
  <2>8. at'[c] = 0
      BY <1>1 DEF InRun
  <2>9. \A d \in Callers : InRun(d)'
      BY <1>1, <1>3, <2>2, <2>4, <2>5, <2>8 DEF InRun, Ran, FirstCall
  <2>10. \A d \in Callers : InChoice(d)'
      BY <1>1, <1>3, <2>4 DEF InChoice, FirstCall
  <2> QED
      BY <2>3, <2>6, <2>7, <2>9, <2>10
<1> QED
    BY <1>2, <1>3

\* A Thread is made at a place where there was none, while nobody relies on it.
LEMMA MakeKeeps == ASSUME StartInv, NEW c \in Callers, MakeThread(c) PROVE StartInv'
<1> USE DEF StartInv
<1>1. /\ ipc[c] = "make" /\ at[c] < threadCount
      /\ UNCHANGED <<initialized, threadCount, load, ipc, low, choice, looked>>
    BY DEF MakeThread
<1>2. at[c] \in Ids
    BY <1>1, StartAssumption DEF StartTypeOK, Ids
<1>3. \A i \in Ids : threads'[i] = IF i = at[c] THEN "made" ELSE threads[i]
    BY <1>2 DEF MakeThread, StartTypeOK
<1>4. \A i \in Ids : made'[i] = IF i = at[c] THEN made[i] + 1 ELSE made[i]
    BY <1>2 DEF MakeThread, StartTypeOK
<1>5. \A d \in Callers : at'[d] = IF d = c THEN at[d] + 1 ELSE at[d]
    BY DEF MakeThread, StartTypeOK
<1>6. StartTypeOK'
    BY <1>1, <1>2 DEF MakeThread, StartTypeOK
<1>7. made[at[c]] = 0 /\ initialized
    BY <1>1, <1>2 DEF InRun, FirstCall, StartTypeOK
<1>8. FirstCall'
    BY <1>1, <1>2, <1>4, <1>7 DEF FirstCall
<1>9. \A d \in Callers : ~Ran(d) /\ (d # c => ~Busy(d))
    BY <1>1 DEF OneRun, Busy, Ran
<1>10. OneRun'
    BY <1>1 DEF OneRun, Busy, Ran
<1>11. InRun(c)'
  <2>1. at'[c] <= threadCount' /\ ipc'[c] = "make"
      BY <1>1, <1>5 DEF StartTypeOK
  <2>2. ASSUME NEW i \in Ids, i >= at'[c] PROVE made'[i] = 0
    <3>1. i # at[c] /\ i >= at[c]
        BY <1>2, <1>5, <2>2 DEF StartTypeOK, Ids
    <3> QED
        BY <1>1, <1>4, <3>1 DEF InRun
  <2> QED
      BY <2>1, <2>2 DEF InRun, Ran
<1>12. \A d \in Callers : d # c => InRun(d)'
    BY <1>1, <1>5, <1>9 DEF InRun, Busy, Ran
<1>13. \A d \in Callers : InChoice(d)'
    BY <1>1, <1>9 DEF InChoice, Ran
<1> QED
    BY <1>6, <1>8, <1>10, <1>11, <1>12, <1>13

\* run() goes on to wait for them, and then returns.
LEMMA RunKeeps ==
    ASSUME StartInv, NEW c \in Callers, MadeAll(c) \/ AwaitActive(c) \/ RunReturns(c)
    PROVE  StartInv'
<1> USE DEF StartInv
<1>1. /\ UNCHANGED <<initialized, threadCount, threads, made, load, low, choice, looked>>
      /\ Busy(c) /\ ipc'[c] \in {"await", "ran"}
      /\ \A d \in Callers : d # c => ipc'[d] = ipc[d] /\ at'[d] = at[d]
    BY DEF MadeAll, AwaitActive, RunReturns, StartTypeOK, Busy
<1>2. StartTypeOK'
    BY DEF MadeAll, AwaitActive, RunReturns, StartTypeOK
<1>3. initialized
    BY <1>1 DEF FirstCall, Busy
<1>4. FirstCall'
    BY <1>1, <1>3 DEF FirstCall
<1>5. \A d \in Callers : ~Ran(d) /\ (d # c => ~Busy(d))
    BY <1>1 DEF OneRun, Busy, Ran
<1>6. OneRun'
    BY <1>1, <1>5 DEF OneRun, Busy, Ran
<1>7. InRun(c)'
  <2>1. CASE MadeAll(c)
    <3>1. ipc'[c] = "await" /\ at'[c] = 0
        BY <2>1 DEF MadeAll, StartTypeOK
    <3>2. 0 <= threadCount' /\ \A i \in Ids : ~(i < 0)
        BY <1>2 DEF StartTypeOK, Ids
    <3> QED
        BY <3>1, <3>2 DEF InRun, Ran
  <2>2. CASE AwaitActive(c)
    <3>1. /\ ipc'[c] = "await" /\ at'[c] = at[c] + 1 /\ at[c] < threadCount
          /\ threads[at[c]] = "active" /\ at[c] \in Nat /\ threadCount \in Nat
        BY <2>2 DEF AwaitActive, StartTypeOK
    <3>2. \A i \in Ids : i < at[c] => threads[i] = "active"
        BY <2>2 DEF AwaitActive, InRun
    <3>3. \A i \in Ids : i < at[c] + 1 => i = at[c] \/ i < at[c]
        BY <3>1 DEF Ids
    <3> QED
        BY <1>1, <3>1, <3>2, <3>3 DEF InRun, Ran
  <2>3. CASE RunReturns(c)
    <3>1. ipc'[c] = "ran" /\ at[c] = threadCount
        BY <2>3 DEF RunReturns, StartTypeOK
    <3>2. \A i \in Ids : i < at[c] => threads[i] = "active"
        BY <2>3 DEF RunReturns, InRun
    <3> QED
        BY <1>1, <3>1, <3>2 DEF InRun, Ran
  <2> QED
      BY <2>1, <2>2, <2>3
<1>8. \A d \in Callers : d # c => InRun(d)'
    BY <1>1 DEF InRun, Ran
<1>9. \A d \in Callers : InChoice(d)'
    BY <1>1, <1>5 DEF InChoice, Ran, Busy
<1> QED
    BY <1>2, <1>4, <1>6, <1>7, <1>8, <1>9

\* Whoever schedules does so after run(), and begins at the first Thread.
LEMMA ScheduleKeeps == ASSUME StartInv, NEW c \in Callers, Schedule(c) PROVE StartInv'
<1> USE DEF StartInv
<1>1. /\ UNCHANGED <<initialized, threadCount, threads, made, load, low, choice, looked>>
      /\ ipc[c] \in {"ran", "returned"} /\ ipc'[c] = "choose" /\ at'[c] = 0
      /\ \A d \in Callers : d # c => ipc'[d] = ipc[d] /\ at'[d] = at[d]
    BY DEF Schedule, StartTypeOK
<1>2. PICK d \in Callers : Ran(d)
    BY DEF Schedule, Ran
<1>3. StartTypeOK'
    BY DEF Schedule, StartTypeOK
<1>4. FirstCall'
    BY <1>1 DEF FirstCall
<1>5. \A e \in Callers : ~Busy(e)
    BY <1>2 DEF OneRun, Busy, Ran
<1>6. OneRun'
    BY <1>1, <1>5 DEF OneRun, Busy
<1>7. \A i \in Ids : i < threadCount => threads[i] = "active"
    BY <1>2 DEF InRun
<1>8. \A e \in Callers : InRun(e)'
    BY <1>1, <1>7 DEF InRun, Ran
<1>9. InChoice(c)'
  <2>1. 0 <= threadCount /\ ~(0 > 0)
      BY DEF StartTypeOK
  <2>2. looked[c] = {} /\ low[c] = MaxLoad + 1
      BY <1>1 DEF InChoice
  <2> QED
      BY <1>1, <2>1, <2>2 DEF InChoice
<1>10. \A e \in Callers : e # c => InChoice(e)'
    BY <1>1 DEF InChoice
<1> QED
    BY <1>3, <1>4, <1>6, <1>8, <1>9, <1>10

\* minLoadSchedule has the least of the loads it has read, and where it was.
LEMMA LookKeeps == ASSUME StartInv, NEW c \in Callers, LookAtLoad(c) PROVE StartInv'
<1> USE DEF StartInv
<1> DEFINE l == load[at[c]]
<1>1. /\ UNCHANGED <<initialized, threadCount, threads, made, load>>
      /\ ipc[c] = "choose" /\ ipc'[c] = IF l = 0 THEN "chosen" ELSE "choose"
      /\ at'[c] = at[c] + 1 /\ at[c] < threadCount
      /\ low'[c] = IF l < low[c] THEN l ELSE low[c]
      /\ choice'[c] = IF l < low[c] THEN at[c] ELSE choice[c]
      /\ looked'[c] = looked[c] \cup {<<at[c], l>>}
      /\ \A d \in Callers : d # c => /\ ipc'[d] = ipc[d] /\ at'[d] = at[d] /\ low'[d] = low[d]
                                    /\ choice'[d] = choice[d] /\ looked'[d] = looked[d]
    BY DEF LookAtLoad, StartTypeOK
<1>2. at[c] \in Ids /\ at[c] \in Nat /\ threadCount \in Nat
    BY <1>1, StartAssumption DEF StartTypeOK, Ids
<1>3. l \in 0 .. MaxLoad /\ l \in Nat /\ low[c] \in Nat /\ MaxLoad \in Nat
    BY <1>2, StartAssumption DEF StartTypeOK
<1>4. StartTypeOK'
    BY <1>2, <1>3 DEF LookAtLoad, StartTypeOK
<1> HIDE DEF l
<1>5. FirstCall'
  <2>1. initialized
      BY <1>1 DEF FirstCall
  <2> QED
      BY <1>1, <2>1 DEF FirstCall
<1>6. OneRun'
    BY <1>1 DEF OneRun, Busy, Ran
<1>7. \A d \in Callers : InRun(d)'
    BY <1>1 DEF InRun, Ran
<1>8. InChoice(c)'
  <2>0. InChoice(c)
      OBVIOUS
  <2>1. \A k \in looked[c] : k[2] \in Nat /\ low[c] <= k[2]
    <3>1. looked[c] \subseteq Nat \X Nat
        BY DEF StartTypeOK
    <3>2. \A k \in looked[c] : low[c] <= k[2]
        BY <2>0, Zenon DEF InChoice
    <3> QED
        BY <3>1, <3>2
  <2>2. \A k \in looked'[c] : low'[c] <= k[2]
      BY <1>1, <1>3, <2>1
  <2>3. at[c] = 0 => l < low[c]
    <3>1. at[c] = 0 => low[c] = MaxLoad + 1
        BY <1>1, <2>0, Zenon DEF InChoice
    <3> QED
        BY <1>3, <3>1
  <2>4. choice'[c] < threadCount /\ <<choice'[c], low'[c]>> \in looked'[c]
    <3>1. CASE l < low[c]
        BY <1>1, <3>1
    <3>2. CASE ~(l < low[c])
      <4>1. at[c] > 0
          BY <1>2, <2>3, <3>2
      <4>2. choice[c] < threadCount /\ <<choice[c], low[c]>> \in looked[c]
          BY <1>1, <4>1 DEF InChoice
      <4> QED
          BY <1>1, <3>2, <4>2
    <3> QED
        BY <3>1, <3>2
  <2>5. at'[c] <= threadCount /\ at'[c] # 0
      BY <1>1, <1>2
  <2> QED
      BY <1>1, <2>2, <2>4, <2>5 DEF InChoice
<1>9. \A d \in Callers : d # c => InChoice(d)'
    BY <1>1 DEF InChoice
<1> QED
    BY <1>4, <1>5, <1>6, <1>7, <1>8, <1>9

\* With all Threads seen, at least one, the choice is made.
LEMMA ChosenKeeps == ASSUME StartInv, NEW c \in Callers, Chosen(c) PROVE StartInv'
<1> USE DEF StartInv
<1>1. /\ UNCHANGED <<initialized, threadCount, threads, made, load, at, low, choice, looked>>
      /\ ipc[c] = "choose" /\ ipc'[c] = "chosen" /\ at[c] = threadCount
      /\ \A d \in Callers : d # c => ipc'[d] = ipc[d]
    BY DEF Chosen, StartTypeOK
<1>2. StartTypeOK'
    BY DEF Chosen, StartTypeOK
<1>3. initialized /\ threadCount \in 1 .. Cap
    BY <1>1 DEF FirstCall
<1>4. FirstCall'
    BY <1>1, <1>3 DEF FirstCall
<1>5. OneRun'
    BY <1>1 DEF OneRun, Busy, Ran
<1>6. \A d \in Callers : InRun(d)'
    BY <1>1 DEF InRun, Ran
<1>7. at[c] > 0
    BY <1>1, <1>3
<1>8. InChoice(c)'
    BY <1>1, <1>7 DEF InChoice
<1>9. \A d \in Callers : d # c => InChoice(d)'
    BY <1>1 DEF InChoice
<1> QED
    BY <1>2, <1>4, <1>5, <1>6, <1>8, <1>9

\* A Thread that becomes active stays so, and loads are not relied on.
LEMMA ThreadKeeps ==
    ASSUME StartInv, NEW i \in Ids, Activate(i) \/ LoadChanges(i) PROVE StartInv'
<1> USE DEF StartInv
<1>1. /\ UNCHANGED <<initialized, threadCount, made, ipc, at, low, choice, looked>>
      /\ \A j \in Ids : threads[j] = "active" => threads'[j] = "active"
    BY DEF Activate, LoadChanges, StartTypeOK
<1>2. StartTypeOK'
    BY DEF Activate, LoadChanges, StartTypeOK
<1>3. FirstCall' /\ OneRun'
    BY <1>1 DEF FirstCall, OneRun, Busy, Ran
<1>4. \A d \in Callers : InRun(d)'
    BY <1>1 DEF InRun, Ran
<1>5. \A d \in Callers : InChoice(d)'
    BY <1>1 DEF InChoice
<1> QED
    BY <1>2, <1>3, <1>4, <1>5

\* For any number of callers, processors and loads (scheduler.cpp): Threads are
\* constructed once, all are active when run() has returned, and minLoadSchedule
\* names an active one that had the least of the loads it read.
THEOREM StartsOnce == StartSpec => []StartedOnce
<1>1. StartInv /\ [StartNext]_startVars => StartInv'
  <2> SUFFICES ASSUME StartInv, [StartNext]_startVars PROVE StartInv'
      OBVIOUS
  <2>1. CASE StartNext
    <3>1. ASSUME NEW c \in Callers,
                 \/ InitCall(c) \/ MakeThread(c) \/ MadeAll(c) \/ AwaitActive(c)
                 \/ RunReturns(c) \/ Schedule(c) \/ LookAtLoad(c) \/ Chosen(c)
          PROVE  StartInv'
        BY <3>1, InitKeeps, MakeKeeps, RunKeeps, ScheduleKeeps, LookKeeps, ChosenKeeps
    <3>2. ASSUME NEW i \in Ids, Activate(i) \/ LoadChanges(i) PROVE StartInv'
        BY <3>2, ThreadKeeps
    <3> QED
        BY <2>1, <3>1, <3>2, Zenon DEF StartNext
  <2>2. CASE UNCHANGED startVars
    <3>1. StartTypeOK' /\ FirstCall' /\ OneRun'
        BY <2>2 DEF startVars, StartInv, StartTypeOK, FirstCall, OneRun, Busy, Ran
    <3>2. \A c \in Callers : InRun(c)' /\ InChoice(c)'
        BY <2>2 DEF startVars, StartInv, InRun, InChoice, Ran
    <3> QED
        BY <3>1, <3>2 DEF StartInv
  <2> QED
      BY <2>1, <2>2
<1>2. StartInv => StartedOnce
  <2> SUFFICES ASSUME StartInv PROVE StartedOnce
      OBVIOUS
  <2> USE DEF StartInv
  <2>1. \A i \in Ids : made[i] <= 1
      BY DEF FirstCall
  <2>2. ASSUME NEW c \in Callers, Ran(c)
        PROVE  threadCount \in 1 .. Cap /\ \A i \in 0 .. threadCount - 1 : threads[i] = "active"
    <3>1. threadCount \in 1 .. Cap
        BY <2>2 DEF FirstCall, Ran
    <3>2. ASSUME NEW i \in 0 .. threadCount - 1 PROVE i \in Ids /\ i < threadCount
        BY <3>1, <3>2, StartAssumption DEF Ids, StartTypeOK
    <3> QED
        BY <2>2, <3>1, <3>2 DEF InRun
  <2>3. ASSUME NEW c \in Callers, ipc[c] = "chosen"
        PROVE  /\ threads[choice[c]] = "active"
               /\ <<choice[c], low[c]>> \in looked[c]
               /\ \A l \in looked[c] : low[c] <= l[2]
    <3>1. choice[c] < threadCount /\ choice[c] \in Nat /\ <<choice[c], low[c]>> \in looked[c]
        BY <2>3 DEF InChoice, StartTypeOK
    <3>2. choice[c] \in 0 .. threadCount - 1
        BY <3>1 DEF StartTypeOK
    <3> QED
        BY <2>2, <2>3, <3>1, <3>2 DEF InChoice, Ran
  <2> QED
      BY <2>1, <2>2, <2>3 DEF StartedOnce, Ran
<1> QED
    BY <1>1, <1>2, StartInitInv, PTL DEF StartSpec

(***************************************************************************)
(* AsyncMutex excludes, and implements FifoLock, for every set of          *)
(* coroutines.  The invariant says what the steps of unlock() know of the  *)
(* list and the chain; that only the owner is inside unlock() makes it     *)
(* inductive.                                                              *)
(***************************************************************************)
\* Nobody waits for a lock that is free; the owner that is about to release it
\* has found _waiters empty, to take the chain has found it not empty, and to
\* resume a waiter has one.
UnlockInv ==
    /\ ~locked => stack = <<>> /\ waiters = <<>>
    /\ \A c \in Coros :
          /\ pc[c] \in {"release", "take"} => waiters = <<>>
          /\ pc[c] = "take" => stack # <<>>
          /\ pc[c] = "grant" => header[c] # <<>>

MutexInv == TypeOK /\ MutualExclusion /\ UnlockInv

\* Every step keeps every variable in its type.
LEMMA TypeStep == MutexInv /\ [Next]_vars => TypeOK'
<1> SUFFICES ASSUME MutexInv, [Next]_vars PROVE TypeOK'
  OBVIOUS
<1> USE DEF MutexInv, TypeOK
<1>0. State \in Coros \cup {None, NOT_LOCKED}
  BY DEF State
<1>1. ASSUME NEW c \in Coros, TryLock(c) PROVE TypeOK'
  BY <1>1, MutexAssumption DEF TryLock, Wants, Goto
<1>2. ASSUME NEW c \in Coros, LockLoad(c) PROVE TypeOK'
  BY <1>0, <1>2, MutexAssumption DEF LockLoad, Wants, Goto
<1>3. ASSUME NEW c \in Coros, LockAcquire(c) PROVE TypeOK'
  BY <1>3 DEF LockAcquire, Goto
<1>4. ASSUME NEW c \in Coros, LockWait(c) PROVE TypeOK'
  BY <1>4 DEF LockWait, Goto, Suspend
<1>5. ASSUME NEW c \in Coros, LockRetry(c) PROVE TypeOK'
  BY <1>0, <1>5 DEF LockRetry
<1>6. ASSUME NEW c \in Coros, Unlock(c) PROVE TypeOK'
  BY <1>6 DEF Unlock, Goto
<1>7. ASSUME NEW c \in Coros, Release(c) PROVE TypeOK'
  BY <1>7 DEF Release, Goto
<1>8. ASSUME NEW c \in Coros, Take(c) PROVE TypeOK'
  <2>1. Reverse(stack) \in Seq(Coros)
    BY ReverseType
  <2> QED
    BY <1>8, <2>1 DEF Take, Goto
<1>9. ASSUME NEW c \in Coros, Grant(c) PROVE TypeOK'
  <2>1. header[c] \in Seq(Coros) /\ header[c] # <<>>
    BY <1>9 DEF Grant, UnlockInv
  <2>2. Head(header[c]) \in Coros /\ Tail(header[c]) \in Seq(Coros)
    BY <2>1
  <2> QED
    BY <1>9, <2>2 DEF Grant
<1>10. ASSUME NEW c \in Coros, UnlockReturns(c) PROVE TypeOK'
  BY <1>10 DEF UnlockReturns, Goto
<1>11. ASSUME NEW c \in Coros, Yield(c) PROVE TypeOK'
  BY <1>11 DEF Yield, Suspend
<1>12. CASE UNCHANGED vars
  BY <1>12 DEF vars
<1> QED
  BY <1>1, <1>2, <1>3, <1>4, <1>5, <1>6, <1>7, <1>8, <1>9, <1>10, <1>11, <1>12
     DEF Next, Step

\* Every step keeps the mutex exclusive, and what unlock() knows.
LEMMA ExclusionStep ==
    MutexInv /\ [Next]_vars => MutualExclusion' /\ UnlockInv'
<1> SUFFICES ASSUME MutexInv, [Next]_vars PROVE MutualExclusion' /\ UnlockInv'
  OBVIOUS
<1>0. TypeOK /\ MutualExclusion /\ UnlockInv
  BY DEF MutexInv
<1> USE <1>0 DEF TypeOK, MutualExclusion, Owns, UnlockInv
<1>1. ASSUME NEW c \in Coros, TryLock(c)
      PROVE  MutualExclusion' /\ UnlockInv'
  BY <1>1 DEF TryLock, Goto
<1>2. ASSUME NEW c \in Coros, LockLoad(c)
      PROVE  MutualExclusion' /\ UnlockInv'
  BY <1>2 DEF LockLoad, Wants, Goto
<1>3. ASSUME NEW c \in Coros, LockAcquire(c)
      PROVE  MutualExclusion' /\ UnlockInv'
  BY <1>3 DEF LockAcquire, Goto
<1>4. ASSUME NEW c \in Coros, LockWait(c)
      PROVE  MutualExclusion' /\ UnlockInv'
  BY <1>4 DEF LockWait, Goto
<1>5. ASSUME NEW c \in Coros, LockRetry(c)
      PROVE  MutualExclusion' /\ UnlockInv'
  BY <1>5 DEF LockRetry
<1>6. ASSUME NEW c \in Coros, Unlock(c)
      PROVE  MutualExclusion' /\ UnlockInv'
  BY <1>6 DEF Unlock, Goto
<1>7. ASSUME NEW c \in Coros, Release(c)
      PROVE  MutualExclusion' /\ UnlockInv'
  BY <1>7 DEF Release, Goto
<1>8. ASSUME NEW c \in Coros, Take(c)
      PROVE  MutualExclusion' /\ UnlockInv'
  <2>1. Reverse(stack) # <<>>
    BY <1>8, ReverseType DEF Take
  <2> QED
    BY <1>8, <2>1 DEF Take, Goto
<1>9. ASSUME NEW c \in Coros, Grant(c)
      PROVE  MutualExclusion' /\ UnlockInv'
  <2> DEFINE w == Head(header[c])
  <2>1. w \in Coros
    BY <1>9 DEF Grant
  <2>2. pc' = [pc EXCEPT ![c] = "resume", ![w] = "in"] /\ pc[c] = "grant"
    BY <1>9 DEF Grant
  <2>3. UNCHANGED <<locked, stack, header>>
    BY <1>9 DEF Grant
  <2> HIDE DEF w
  <2>4. \A d \in Coros : Owns(d)' <=> d = w
    BY <2>1, <2>2
  <2> QED
    BY <2>1, <2>2, <2>3, <2>4
<1>10. ASSUME NEW c \in Coros, UnlockReturns(c)
      PROVE  MutualExclusion' /\ UnlockInv'
  BY <1>10 DEF UnlockReturns, Goto
<1>11. ASSUME NEW c \in Coros, Yield(c)
      PROVE  MutualExclusion' /\ UnlockInv'
  BY <1>11 DEF Yield
<1>12. CASE UNCHANGED vars
  BY <1>12 DEF vars
<1> QED
  BY <1>1, <1>2, <1>3, <1>4, <1>5, <1>6, <1>7, <1>8, <1>9, <1>10, <1>11, <1>12
     DEF Next, Step

\* The mutex starts free, with nobody waiting.
LEMMA MutexInit == Init => MutexInv
<1> SUFFICES ASSUME Init PROVE MutexInv
  OBVIOUS
<1>1. TypeOK
  <2>1. <<>> \in Seq(Coros)
    OBVIOUS
  <2>2. stack \in Seq(Coros) /\ waiters \in Seq(Coros)
    BY <2>1 DEF Init
  <2>3. header \in [Coros -> Seq(Coros)]
    BY <2>1 DEF Init
  <2>4. left \in [Coros -> 0 .. MaxLocks]
    BY MutexAssumption DEF Init
  <2>5. old \in [Coros -> Coros \cup {None, NOT_LOCKED}]
    BY DEF Init
  <2> QED
    BY <2>2, <2>3, <2>4, <2>5 DEF Init, TypeOK
<1>2. MutualExclusion /\ UnlockInv
  BY DEF Init, MutualExclusion, Owns, UnlockInv
<1> QED
  BY <1>1, <1>2 DEF MutexInv

\* The invariant holds in every behaviour.
THEOREM MutexInvariant == Spec => []MutexInv
<1>1. MutexInv /\ [Next]_vars => MutexInv'
  BY TypeStep, ExclusionStep DEF MutexInv
<1> QED
  BY <1>1, MutexInit, PTL DEF Spec

\* At most one coroutine is between lockAsync() and the end of unlock(), for
\* any number of coroutines and threads: what makes it sound that _waiters is
\* not atomic.
THEOREM Excludes == Spec => []MutualExclusion
<1>1. MutexInv => MutualExclusion
  BY DEF MutexInv
<1> QED
  BY <1>1, MutexInvariant, PTL

-----------------------------------------------------------------------------
\* The owner, and the line, of the lock that the mutex implements: the list of
\* the coroutine inside unlock(), and else _waiters, before the chain.
OwnerAndLine ==
    /\ \A c \in Coros : Owns(c) => Owner = c
    /\ (\A c \in Coros : ~Owns(c)) => Owner = None
    /\ \A c \in Coros : pc[c] = "grant" =>
          Line = header[c] \o Reverse(stack)
    /\ (\A c \in Coros : pc[c] # "grant") =>
          Line = waiters \o Reverse(stack)

\* With one owner the choices in the refinement mapping are determined.
LEMMA Mapped == MutualExclusion => OwnerAndLine
<1> SUFFICES ASSUME MutualExclusion PROVE OwnerAndLine
  OBVIOUS
<1>1. ASSUME NEW c \in Coros, Owns(c) PROVE Owner = c
  BY <1>1 DEF MutualExclusion, Owner
<1>2. ASSUME \A c \in Coros : ~Owns(c) PROVE Owner = None
  BY <1>2 DEF Owner
<1>3. ASSUME NEW c \in Coros, pc[c] = "grant"
      PROVE  Line = header[c] \o Reverse(stack)
  <2>1. \A d \in Coros : pc[d] = "grant" => d = c
    BY <1>3 DEF MutualExclusion, Owns
  <2>2. (CHOOSE d \in Coros : pc[d] = "grant") = c
    BY <1>3, <2>1
  <2> QED
    BY <1>3, <2>2 DEF Line
<1>4. ASSUME \A c \in Coros : pc[c] # "grant"
      PROVE  Line = waiters \o Reverse(stack)
  BY <1>4 DEF Line
<1> QED
  BY <1>1, <1>2, <1>3, <1>4 DEF OwnerAndLine

\* The same of the next state.
LEMMA MappedNext == MutualExclusion' => OwnerAndLine'
  BY Mapped, PTL

\* The suspended coroutines, and what a step does to them, to the owner and to
\* the line: nothing, or the lock is taken or released with nobody waiting; or
\* one begins to wait, at the end of the line; or the first gets the lock.
Waiting == {c \in Coros : pc[c] = "waiting"}
Stays ==
    /\ Line' = Line /\ Waiting' = Waiting
    /\ \/ Owner' = Owner
       \/ Owner = None /\ Owner' \in Coros
       \/ Owner # None /\ Owner' = None /\ Line = <<>>
Arrives(c) ==
    /\ Owner # None /\ Owner' = Owner
    /\ Line' = Append(Line, c)
    /\ c \notin Waiting /\ Waiting' = Waiting \cup {c}
FirstGoes ==
    /\ Owner # None /\ Line # <<>> /\ Owner' = Head(Line)
    /\ Line' = Tail(Line)
    /\ Waiting' = Waiting \ {Head(Line)}

\* Every step of the mutex is one of these.
LEMMA LineStep ==
    MutexInv /\ MutexInv' /\ [Next]_vars =>
        Stays \/ (\E c \in Coros : Arrives(c)) \/ FirstGoes
<1> SUFFICES ASSUME MutexInv, MutexInv', [Next]_vars
             PROVE  Stays \/ (\E c \in Coros : Arrives(c)) \/ FirstGoes
  OBVIOUS
<1> USE DEF OwnerAndLine
<1>m. OwnerAndLine
  BY Mapped DEF MutexInv
<1>n. OwnerAndLine'
  BY MappedNext DEF MutexInv
<1>i. TypeOK /\ MutualExclusion /\ UnlockInv
  BY DEF MutexInv
<1>g. \A c \in Coros : pc[c] = "grant" => Owns(c)
  BY DEF Owns
<1>f. \A c \in Coros : (~locked \/ pc[c] \in {"in", "release", "take"}) =>
         \A d \in Coros : pc[d] # "grant"
  BY <1>i DEF MutualExclusion, Owns, TypeOK
<1>1. ASSUME NEW c \in Coros, TryLock(c) \/ LockAcquire(c)
      PROVE  Stays
  <2>1. /\ ~locked /\ pc' = [pc EXCEPT ![c] = "in"]
        /\ UNCHANGED <<stack, waiters, header>>
    BY <1>1 DEF TryLock, LockAcquire, Goto
  <2>2. Owner = None /\ Owner' = c
    BY <1>m, <1>n, <1>i, <2>1 DEF MutualExclusion, Owns, TypeOK
  <2>3. Line' = Line
    BY <1>m, <1>n, <1>f, <2>1, <1>i DEF TypeOK
  <2>4. Waiting' = Waiting
    BY <1>1, <1>i DEF TryLock, LockAcquire, Wants, Goto, Waiting, TypeOK
  <2> QED
    BY <2>2, <2>3, <2>4 DEF Stays
<1>2. ASSUME NEW c \in Coros,
             LockLoad(c) \/ LockRetry(c) \/ UnlockReturns(c) \/ Yield(c)
      PROVE  Stays
  <2>1. /\ UNCHANGED <<stack, waiters, header>>
        /\ \A d \in Coros : Owns(d)' <=> Owns(d)
        /\ \A d \in Coros : pc'[d] = "grant" <=> pc[d] = "grant"
    BY <1>2, <1>i
       DEF LockLoad, LockRetry, UnlockReturns, Yield, Wants, Goto, Owns, TypeOK
  <2>2. Owner' = Owner
    BY <1>m, <1>n, <2>1
  <2>3. Line' = Line
    BY <1>m, <1>n, <2>1
  <2>4. Waiting' = Waiting
    BY <1>2, <1>i
       DEF LockLoad, LockRetry, UnlockReturns, Yield, Wants, Goto, Waiting, TypeOK
  <2> QED
    BY <2>2, <2>3, <2>4 DEF Stays
<1>3. ASSUME NEW c \in Coros, LockWait(c)
      PROVE  Arrives(c)
  <2>1. /\ locked /\ stack' = <<c>> \o stack
        /\ UNCHANGED <<waiters, header>>
        /\ \A d \in Coros : Owns(d)' <=> Owns(d)
        /\ \A d \in Coros : pc'[d] = "grant" <=> pc[d] = "grant"
    BY <1>3, <1>i DEF LockWait, Goto, Owns, TypeOK
  <2>2. Owner \in Coros /\ Owner' = Owner
    BY <1>m, <1>n, <1>i, <2>1 DEF MutualExclusion
  <2>3. Reverse(stack') = Append(Reverse(stack), c)
    BY <1>i, <2>1, ReversePush DEF TypeOK
  <2>4. Reverse(stack) \in Seq(Coros)
    BY <1>i, ReverseType DEF TypeOK
  <2>5. \A s \in Seq(Coros) :
           s \o Append(Reverse(stack), c) = Append(s \o Reverse(stack), c)
    BY <2>4
  <2>6. Line' = Append(Line, c)
    <3>1. CASE \E d \in Coros : pc[d] = "grant"
      <4>1. PICK d \in Coros : pc[d] = "grant"
        BY <3>1
      <4>2. header[d] \in Seq(Coros)
        BY <1>i DEF TypeOK
      <4> QED
        BY <1>m, <1>n, <2>1, <2>3, <2>5, <4>1, <4>2
    <3>2. CASE \A d \in Coros : pc[d] # "grant"
      <4>1. waiters \in Seq(Coros)
        BY <1>i DEF TypeOK
      <4> QED
        BY <1>m, <1>n, <2>1, <2>3, <2>5, <3>2, <4>1
    <3> QED
      BY <3>1, <3>2
  <2>7. c \notin Waiting /\ Waiting' = Waiting \cup {c}
    BY <1>3, <1>i DEF LockWait, Goto, Waiting, TypeOK
  <2> QED
    BY <2>2, <2>6, <2>7, MutexAssumption DEF Arrives
<1>4. ASSUME NEW c \in Coros, Unlock(c)
      PROVE  Stays
  <2>1. /\ pc[c] = "in" /\ UNCHANGED <<stack, waiters>> /\ header'[c] = waiters
        /\ pc' = [pc EXCEPT ![c] =
                     IF waiters = <<>> THEN "release" ELSE "grant"]
    BY <1>4, <1>i DEF Unlock, Goto, TypeOK
  <2>2. Owner = c /\ Owner' = c
    BY <1>m, <1>n, <1>i, <2>1 DEF Owns, TypeOK
  <2>3. Line' = Line
    BY <1>m, <1>n, <1>f, <1>i, <2>1 DEF TypeOK
  <2>4. Waiting' = Waiting
    BY <1>i, <2>1 DEF Waiting, TypeOK
  <2> QED
    BY <2>2, <2>3, <2>4 DEF Stays
<1>5. ASSUME NEW c \in Coros, Release(c)
      PROVE  Stays
  <2>1. /\ pc[c] = "release" /\ waiters = <<>>
        /\ UNCHANGED <<stack, waiters, header>>
    BY <1>5, <1>i DEF Release, UnlockInv
  <2>2. Owner = c /\ Line = waiters \o Reverse(stack)
    BY <1>m, <1>f, <2>1 DEF Owns
  <2>3. CASE stack = <<>>
    <3>1. pc' = [pc EXCEPT ![c] = "out"]
      BY <1>5, <2>3 DEF Release, Goto
    <3>2. \A d \in Coros : ~Owns(d)'
      BY <1>i, <2>1, <3>1 DEF MutualExclusion, Owns, TypeOK
    <3>3. Owner' = None
      BY <1>n, <3>2
    <3>4. Line' = Line
      BY <1>n, <2>1, <2>2, <3>2 DEF Owns
    <3>5. Reverse(stack) = <<>>
      BY <1>i, <2>3, ReverseType DEF TypeOK
    <3>6. Line = <<>>
      BY <2>1, <2>2, <3>5
    <3>7. Waiting' = Waiting
      BY <1>i, <2>1, <3>1 DEF Waiting, TypeOK
    <3> QED
      BY <2>2, <3>3, <3>4, <3>6, <3>7, MutexAssumption DEF Stays
  <2>4. CASE stack # <<>>
    <3>1. pc' = [pc EXCEPT ![c] = "take"]
      BY <1>5, <2>4 DEF Release, Goto
    <3>2. Owner' = c
      BY <1>n, <1>i, <3>1 DEF Owns, TypeOK
    <3>3. Line' = Line
      BY <1>n, <1>f, <1>i, <2>1, <2>2, <3>1 DEF TypeOK
    <3>4. Waiting' = Waiting
      BY <1>i, <2>1, <3>1 DEF Waiting, TypeOK
    <3> QED
      BY <2>2, <3>2, <3>3, <3>4 DEF Stays
  <2> QED
    BY <2>3, <2>4
<1>6. ASSUME NEW c \in Coros, Take(c)
      PROVE  Stays
  <2>1. /\ pc[c] = "take" /\ waiters = <<>>
        /\ stack' = <<>> /\ header'[c] = Reverse(stack)
        /\ pc' = [pc EXCEPT ![c] = "grant"] /\ pc'[c] = "grant"
    BY <1>6, <1>i DEF Take, Goto, UnlockInv, TypeOK
  <2>2. Owner = c /\ Owner' = c
    BY <1>m, <1>n, <2>1 DEF Owns
  <2>3. Line = waiters \o Reverse(stack)
    BY <1>m, <1>f, <2>1
  <2>4. Line' = Reverse(stack) \o Reverse(stack')
    BY <1>n, <2>1
  <2>5. Reverse(stack') = <<>> /\ Reverse(stack) \in Seq(Coros)
    BY <2>1, <1>i, ReverseType DEF TypeOK
  <2>6. Line' = Line
    BY <2>1, <2>3, <2>4, <2>5
  <2>7. Waiting' = Waiting
    BY <1>i, <2>1 DEF Waiting, TypeOK
  <2> QED
    BY <2>2, <2>6, <2>7 DEF Stays
<1>7. ASSUME NEW c \in Coros, Grant(c)
      PROVE  FirstGoes
  <2> DEFINE h == header[c]
             w == Head(h)
             r == Reverse(stack)
  <2>1. /\ pc[c] = "grant" /\ waiters' = Tail(h) /\ UNCHANGED stack
        /\ pc' = [pc EXCEPT ![c] = "resume", ![w] = "in"]
    BY <1>7 DEF Grant
  <2>2. h \in Seq(Coros) /\ h # <<>> /\ r \in Seq(Coros)
    BY <1>i, <2>1, ReverseType DEF TypeOK, UnlockInv
  <2>3. w \in Coros
    BY <2>2
  <2>4. Owner = c /\ Line = h \o r
    BY <1>m, <1>g, <2>1
  <2>5. \A d \in Coros : Owns(d)' <=> d = w
    BY <1>i, <2>1, <2>3 DEF MutualExclusion, Owns, TypeOK
  <2>6. \A d \in Coros : pc'[d] # "grant"
    BY <1>i, <2>1, <2>3 DEF MutualExclusion, Owns, TypeOK
  <2>7. Owner' = w /\ Line' = Tail(h) \o r
    BY <1>n, <2>1, <2>3, <2>5, <2>6
  <2> HIDE DEF h, r
  <2>8. h \o r # <<>> /\ Head(h \o r) = w /\ Tail(h \o r) = Tail(h) \o r
    BY <2>2
  <2>9. Waiting' = Waiting \ {w}
    BY <1>i, <2>1, <2>3 DEF Waiting, TypeOK
  <2> QED
    BY <2>4, <2>7, <2>8, <2>9, MutexAssumption DEF FirstGoes
<1>8. CASE UNCHANGED vars
  BY <1>8 DEF vars, Owner, Line, Owns, Waiting, Stays
<1> QED
  BY <1>1, <1>2, <1>3, <1>4, <1>5, <1>6, <1>7, <1>8 DEF Next, Step

\* Each of them is a step of the lock, or none.
LEMMA FifoStep ==
    MutexInv /\ MutexInv' /\ [Next]_vars => [Fifo!Next]_<<Owner, Line>>
<1> SUFFICES ASSUME MutexInv, MutexInv', [Next]_vars
             PROVE  Fifo!Next \/ UNCHANGED <<Owner, Line>>
  OBVIOUS
<1>1. CASE Stays
  BY <1>1 DEF Stays, Fifo!Next, Fifo!Acquire, Fifo!Release
<1>2. ASSUME NEW c \in Coros, Arrives(c) PROVE Fifo!Next
  BY <1>2 DEF Arrives, Fifo!Next, Fifo!Wait
<1>3. CASE FirstGoes
  BY <1>3 DEF FirstGoes, Fifo!Next, Fifo!Release
<1> QED
  BY <1>1, <1>2, <1>3, LineStep

\* For any number of coroutines, the mutex implements the lock that is handed
\* on in the order of arrival: neither tryLock nor a late lockAsync passes a
\* coroutine that waits, and unlock() wakes the one that has waited longest.
THEOREM ImplementsFifo == Spec => IsFifo
<1>1. Init => Fifo!Init
  <2> SUFFICES ASSUME Init PROVE Fifo!Init
    OBVIOUS
  <2>1. Owner = None
    BY DEF Init, Owner, Owns
  <2>2. Reverse(stack) = <<>>
    BY MutexInit, ReverseType DEF Init, MutexInv, TypeOK
  <2>3. Line = <<>>
    BY <2>2 DEF Init, Line
  <2> QED
    BY <2>1, <2>3 DEF Fifo!Init
<1>2. MutexInv /\ MutexInv' /\ [Next]_vars => [Fifo!Next]_<<Owner, Line>>
  BY FifoStep
<1> QED
  BY <1>1, <1>2, MutexInvariant, PTL DEF Spec, IsFifo, Fifo!Spec

\* The line is one of coroutines, whoever holds it.
LEMMA LineType == MutexInv => Line \in Seq(Coros)
<1> SUFFICES ASSUME MutexInv PROVE Line \in Seq(Coros)
  OBVIOUS
<1>1. OwnerAndLine
  BY Mapped DEF MutexInv
<1>2. Reverse(stack) \in Seq(Coros) /\ waiters \in Seq(Coros)
  BY ReverseType DEF MutexInv, TypeOK
<1>3. CASE \E c \in Coros : pc[c] = "grant"
  <2>1. PICK c \in Coros : pc[c] = "grant"
    BY <1>3
  <2>2. Line = header[c] \o Reverse(stack)
    BY <1>1, <2>1, Zenon DEF OwnerAndLine
  <2>3. header[c] \in Seq(Coros)
    BY DEF MutexInv, TypeOK
  <2> QED
    BY <1>2, <2>2, <2>3
<1>4. CASE \A c \in Coros : pc[c] # "grant"
  <2>1. Line = waiters \o Reverse(stack)
    BY <1>1, <1>4, Zenon DEF OwnerAndLine
  <2> QED
    BY <1>2, <2>1
<1> QED
  BY <1>3, <1>4

\* For any number of coroutines, a suspended one is in the line, and there once:
\* unlock() forgets none of the chain it takes and resumes none twice.
THEOREM KeepsWaiters == Spec => []NoWaiterLost
<1>1. Init => NoWaiterLost
  <2> SUFFICES ASSUME Init PROVE NoWaiterLost
    OBVIOUS
  <2>1. Reverse(stack) = <<>>
    BY MutexInit, ReverseType DEF Init, MutexInv, TypeOK
  <2>2. Line = <<>>
    BY <2>1 DEF Init, Line
  <2>3. {c \in Coros : pc[c] = "waiting"} = {}
    BY DEF Init
  <2> QED
    BY <2>2, <2>3, EmptyOnce DEF NoWaiterLost
<1>2. NoWaiterLost /\ MutexInv /\ MutexInv' /\ [Next]_vars => NoWaiterLost'
  <2> SUFFICES ASSUME NoWaiterLost, MutexInv, MutexInv', [Next]_vars
               PROVE  Waiting' = ToSet(Line') /\ IsInjective(Line')
    BY DEF NoWaiterLost, Waiting
  <2>1. Waiting = ToSet(Line) /\ IsInjective(Line) /\ Line \in Seq(Coros)
    BY LineType DEF NoWaiterLost, Waiting
  <2>2. CASE Stays
    BY <2>1, <2>2 DEF Stays
  <2>3. ASSUME NEW c \in Coros, Arrives(c)
        PROVE  Waiting' = ToSet(Line') /\ IsInjective(Line')
    BY <2>1, <2>3, AppendOnce DEF Arrives
  <2>4. CASE FirstGoes
    BY <2>1, <2>4, TailOnce DEF FirstGoes
  <2> QED
    BY <2>2, <2>3, <2>4, LineStep
<1> QED
  BY <1>1, <1>2, MutexInvariant, PTL DEF Spec
=============================================================================

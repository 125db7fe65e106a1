--------------------------- MODULE SchedulerStart ---------------------------
(***************************************************************************)
(* The start of the scheduler (scheduler.cpp): Scheduler::init by several  *)
(* callers, run(), which makes the Threads and waits until each is active, *)
(* and the choice of minLoadSchedule while the loads change.  Callers      *)
(* other than the one that runs run() return from init at once; they are   *)
(* taken to schedule only when that one has returned, which init itself    *)
(* does not ensure.                                                        *)
(***************************************************************************)
EXTENDS Naturals

CONSTANTS Callers, Asked,   \* threadCount of each call of init: Asked[c]
          Concurrency,      \* hardware_concurrency()
          Cap,              \* SUIL_ASYNC_MAXIMUM_CONCURRENCY
          MaxLoad           \* bound: loads are 0 .. MaxLoad

\* run() asserts that no more are asked for than there are processors; that
\* hardware_concurrency() can tell how many there are, it takes for granted.
ASSUME StartAssumption ==
    /\ Concurrency \in Nat \ {0} /\ Cap \in Nat \ {0} /\ MaxLoad \in Nat
    /\ Asked \in [Callers -> 0 .. Concurrency]

VARIABLES initialized,   \* _initialized
          threadCount,   \* _threadCount
          threads,       \* what is at _threads: "none", "made", "active"
          made,          \* history: Threads constructed at each place
          load,          \* the load of each Thread
          ipc, at, low, choice,  \* of each caller: place, i, minLoad, tid
          looked         \* history: the loads it has read

startVars == <<initialized, threadCount, threads, made, load,
               ipc, at, low, choice, looked>>

Ids == 0 .. Concurrency - 1

StartInit ==
    /\ initialized = FALSE
    /\ threadCount = 0
    /\ threads = [i \in Ids |-> "none"]
    /\ made = [i \in Ids |-> 0]
    /\ load = [i \in Ids |-> 0]
    /\ ipc = [c \in Callers |-> "init"]
    /\ at = [c \in Callers |-> 0]
    /\ low = [c \in Callers |-> MaxLoad + 1]   \* UINT64_MAX
    /\ choice = [c \in Callers |-> 0]
    /\ looked = [c \in Callers |-> {}]

\* run(): as many threads as asked for, by default one for each processor.
NumThreads(n) ==
    LET wanted == IF n = 0 THEN Concurrency ELSE n
    IN  IF wanted > Cap THEN Cap ELSE wanted

\* init(): the compare-exchange; run() begins with the number of threads.
InitTwice(c) ==   \* mutant: _initialized is not tested
    /\ ipc[c] = "init"
    /\ initialized' = TRUE
    /\ threadCount' = NumThreads(Asked[c])
    /\ ipc' = [ipc EXCEPT ![c] = "make"]
    /\ UNCHANGED <<threads, made, load, at, low, choice,
                   looked>>
InitCall(c) ==
    /\ ipc[c] = "init"
    /\ initialized' = TRUE
    /\ threadCount' = IF initialized THEN threadCount ELSE NumThreads(Asked[c])
    /\ ipc' = [ipc EXCEPT ![c] = IF initialized THEN "returned" ELSE "make"]
    /\ UNCHANGED <<threads, made, load, at, low, choice,
                   looked>>

\* run(): construct and start a Thread.
MakeThread(c) ==
    /\ ipc[c] = "make" /\ at[c] < threadCount
    /\ threads' = [threads EXCEPT ![at[c]] = "made"]
    /\ made' = [made EXCEPT ![at[c]] = @ + 1]
    /\ at' = [at EXCEPT ![c] = @ + 1]
    /\ UNCHANGED <<initialized, threadCount, load, ipc, low, choice,
                   looked>>
MadeAll(c) ==
    /\ ipc[c] = "make" /\ at[c] = threadCount
    /\ ipc' = [ipc EXCEPT ![c] = "await"]
    /\ at' = [at EXCEPT ![c] = 0]
    /\ UNCHANGED <<initialized, threadCount, threads, made, load, low, choice,
                   looked>>

\* A Thread makes its descriptors and says that it is active.
Activate(i) ==
    /\ threads[i] = "made"
    /\ threads' = [threads EXCEPT ![i] = "active"]
    /\ UNCHANGED <<initialized, threadCount, made, load, ipc, at, low, choice,
                   looked>>

\* run(): wait for each Thread in turn; the deadline of 60 s is not reached.
AwaitActive(c) ==
    /\ ipc[c] = "await" /\ at[c] < threadCount
    /\ threads[at[c]] = "active"
    /\ at' = [at EXCEPT ![c] = @ + 1]
    /\ UNCHANGED <<initialized, threadCount, threads, made, load, ipc, low, choice,
                   looked>>
RunReturns(c) ==
    /\ ipc[c] = "await" /\ at[c] = threadCount
    /\ ipc' = [ipc EXCEPT ![c] = "ran"]
    /\ UNCHANGED <<initialized, threadCount, threads, made, load, at, low, choice,
                   looked>>

\* schedule() with THREAD_ID_ANY: minLoadSchedule reads one load after another.
Schedule(c) ==
    /\ ipc[c] \in {"ran", "returned"}
    /\ \E d \in Callers : ipc[d] \in {"ran", "choose", "chosen"}   \* run() has returned
    /\ ipc' = [ipc EXCEPT ![c] = "choose"]
    /\ at' = [at EXCEPT ![c] = 0]
    /\ UNCHANGED <<initialized, threadCount, threads, made, load, low, choice,
                   looked>>
LookAtLoad(c) ==
    LET l == load[at[c]] IN
    /\ ipc[c] = "choose" /\ at[c] < threadCount
    /\ at' = [at EXCEPT ![c] = @ + 1]
    /\ low' = [low EXCEPT ![c] = IF l < low[c] THEN l ELSE @]
    /\ choice' = [choice EXCEPT ![c] = IF l < low[c] THEN at[c] ELSE @]
    /\ ipc' = [ipc EXCEPT ![c] = IF l = 0 THEN "chosen" ELSE @]
    /\ looked' = [looked EXCEPT ![c] = @ \cup {<<at[c], l>>}]
    /\ UNCHANGED <<initialized, threadCount, threads, made, load>>
Chosen(c) ==
    /\ ipc[c] = "choose" /\ at[c] = threadCount
    /\ ipc' = [ipc EXCEPT ![c] = "chosen"]
    /\ UNCHANGED <<initialized, threadCount, threads, made, load, at, low, choice,
                   looked>>

\* Work comes and goes meanwhile.
LoadChanges(i) ==
    /\ threads[i] = "active"
    /\ \E l \in 0 .. MaxLoad : load' = [load EXCEPT ![i] = l]
    /\ UNCHANGED <<initialized, threadCount, threads, made, ipc, at, low, choice,
                   looked>>

StartNext ==
    \/ \E c \in Callers :
          \/ InitCall(c) \/ MakeThread(c) \/ MadeAll(c) \/ AwaitActive(c)
          \/ RunReturns(c) \/ Schedule(c) \/ LookAtLoad(c) \/ Chosen(c)
    \/ \E i \in Ids : Activate(i) \/ LoadChanges(i)

StartSpec == StartInit /\ [][StartNext]_startVars
-----------------------------------------------------------------------------
\* However many call init(), a Thread is constructed once, and when run() has
\* returned all of them are active; and minLoadSchedule names an active Thread
\* with the least of the loads it has read, although none need be so any more.
StartedOnce ==
    /\ \A i \in Ids : made[i] <= 1
    /\ \A c \in Callers : ipc[c] = "ran" =>
          /\ threadCount \in 1 .. Cap
          /\ \A i \in 0 .. threadCount - 1 : threads[i] = "active"
    /\ \A c \in Callers : ipc[c] = "chosen" =>
          /\ threads[choice[c]] = "active"
          /\ <<choice[c], low[c]>> \in looked[c]
          /\ \A l \in looked[c] : low[c] <= l[2]
=============================================================================

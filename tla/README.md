# A TLA+ model of the asynchronous runtime of spark-xy

spark-xy (SCF) is a C++20 framework in three libraries. Its own logic is in
`libs/async`: coroutines that wait for descriptors, for time and for each
other, served by a fixed set of event loop threads, on top of a DNS resolver
and a lock-free queue that are kept in the repository. This project models that
runtime and the parts below it, and the text and argument handling of
`libs/utils`; it checks them with TLC and proves, with TLAPS, the safety
properties of everything in it that runs concurrently or over time: the event
loop, the synchronization primitives, sockets, the resolver and the schedule
queue.

Paths below are relative to `src/libs/async/` unless they start with `libs/`.

## The system

| Part | State | Operations | Talks to |
|---|---|---|---|
| `Thread` (`src/thread.cpp`) | `_active`, `_signaling`, eventfd, epoll set, `_scheduleQ`, `_timers`, `_stats.inflight` | the loop of `start`; `schedule`, `add(Event*)`, `add(Delay*)`, `signal`, `abort` | resumes coroutines; is called by every thread |
| `Scheduler` (`src/scheduler.cpp`) | the array of threads | `init`/`run`, `schedule` (3), `minLoadSchedule`, destructor | `Thread` |
| `Event` (`src/fdwait.cpp`) | `Handle`: fd, state, timer, coroutine | `co_await`, `await_resume` | `Scheduler::schedule`; its address is in the epoll set and in `_timers` |
| `Delay` (`src/delay.cpp`) | state, timer, coroutine | the same | the same |
| `mill_list` (`src/list.cpp`) | first, last; next, prev | init, insert, erase, walk | `Thread::_timers` |
| `AsyncMutex` (`src/mutex.cpp`) | `_state`, `_waiters`, chain of `lock_operation` | `tryLock`, `lockAsync`, `scopedLockAsync`, `unlock` | resumes waiters inside `unlock` |
| `AutoResetEvent`, `ManualResetEvent` (`src/event.cpp`) | state word or chain, waiters | `set`, `reset`, `co_await` | resume waiters |
| `AsyncScope` (`scope.hpp`) | `_count`, `_continuation` | `spawn`, `join` | resumes the joiner |
| `task`, promises (`task.hpp`, `detail/promise.hpp`) | `continuation`, `flag`, `join_sem` | final suspend, `co_await`, `join` | resume the awaiting coroutine |
| `syncWait` (`src/sync.cpp`, `sync.hpp`) | a futex word | `set`, `wait` | blocks a thread for a coroutine |
| `Socket`, `TcpSocket`, `TcpListener`, `fdops` | a descriptor, an error | connect, accept, listen, send, receive, read, write, close, detach, moves | wait with `Event` |
| `SocketAddress` (`src/addr.cpp`) | three global pointers to the resolver's configuration | `local`, `any`, `remote` | the resolver; waits with `Event` |
| the DNS socket (`dns_so_*`, `src/dns/dns.c`) | UDP and TCP descriptors, state, query, answer, descriptors put aside | submit, check, fetch, clear | the kernel |
| the resolver (`dns_res_*`) | a stack of frames, search position, nodata answer | submit, check, fetch | the DNS socket, hosts, hints, configuration |
| packets (`dns_p_*`, `dns_d_*`, `dns_rr_*`) | octets, dictionary of names, memo of sections | push, parse, iterate, copy, merge | everything in `dns.c` |
| hosts, `resolv.conf`, `nsswitch.conf`, hints, query ids | lists, tables, the permutor | load, query, search, grep, step | the resolver |
| `ConcurrentQueue` (`detail/concurrentqueue.h`) | blocks, free list, sub-queues with their indices, a table of producers | `enqueue`, `try_dequeue` | `Thread::_scheduleQ` |
| `libs/utils` | the parser of arguments; else none | base64, url, splitting, arguments, logging, ... | - |

What is hard here: every thread may call every loop while it runs; the address
of an awaiter lives in the kernel, in a batch of events and in a linked list
while the frame it points into may be resumed and reused by another thread; a
wait can end in two ways at once; a sleeping loop depends on a wake that is
suppressed when another one is thought to be under way; and the scheduler is
torn down while coroutines still use it. Below that, answers arrive late or
twice, descriptor numbers come back with another meaning, a push into a packet
fails half-way, configuration is loaded by whoever comes first, and the queue is
lock-free. The complete list is `hazards` in `PROJECT.json`.

What makes each part correct: a suspended coroutine is resumed once and not by
two threads; what the kernel and the lists point to is alive; a timer list is
sorted and complete; a wait that can end does end; a coroutine that is queued
runs; the load counters add up; a lock has one owner, serves its waiters in
order and forgets none; whoever waits for an event, a task or a scope goes on
once, after it; bytes are counted once; a socket has the descriptor it was made
with; an answer is for the question; what is pushed, read or encoded comes back
as it was; what is enqueued comes out once.

## Modules

| Module | What it is |
|---|---|
| `MillList` | the list of `list.cpp` as operators on pointers, total, so that they say what happens to an item that is on no list |
| `EventLoop` | `Thread`, the calls of `Scheduler`, `Event` and `Delay`; the specifications `Spec` and `FairSpec` and all properties |
| `EventLoopInv` | the inductive invariant `IndInv` |
| `MCEventLoop` | symmetry for model checking |
| `EventLoopProofs` | theorems `Ownership`, `TypeCorrect`, `OneResumption`, `StaysRegistered`; of the timers `Guarded`, `NoDangling`, `TimersLive`, `LoadCounts`, `ListsIntact` |
| `FifoLock` | what a fair lock promises, the abstract specification |
| `AsyncMutex` | `mutex.cpp`; its refinement of `FifoLock` is the property `IsFifo` |
| `ManualResetEvent`, `AutoResetEvent` | `event.cpp`, `event.hpp` |
| `AsyncScope` | `scope.hpp` |
| `SyncWait` | `sync.cpp`, `sync.hpp`, composed with `AsyncScope`: `syncWait(scope.join())` |
| `TaskHandoff` | `task.hpp`, `detail/promise.hpp`: who goes on when a task ends |
| `SchedulerStart` | `Scheduler::init`, `run`, `minLoadSchedule` |
| `PrimitivesProofs` | theorems `MutexInvariant`, `Excludes`, `ImplementsFifo`, `KeepsWaiters` of the mutex, and `JoinsAfterAll`, `HandedOverOnce`, `SetsUsedOnce`, `WaitersKept`, `StartsOnce` |
| `MCPrimitives` | the mutex, the events, `SyncWait` with its scope, tasks and the start, one of them per behaviour |
| `SocketIO` | the transfer loops of `socket.cpp` and `fdops.cpp` |
| `Sockets` | `tcp.cpp`, `socket.cpp`: who owns a descriptor |
| `DnsSocket` | `dns_so_*` |
| `Resolver` | `dns_res_*`: the frames and the states of `dns_res_exec` |
| `RemoteAddress` | `SocketAddress::remote` and `dns_ai_*` |
| `LocalAddress` | `SocketAddress::local`, `any`, literals |
| `Addresses` | the last two together |
| `NetworkProofs` | theorems `CountsBytes`, `OwnsDescriptors`, `AnswersLastQuery`, `OneMeaningEach`, `SharedObjectsStay`, `LocalAnswers`, `AddressesStay` |
| `ResolverProofs` | theorems `AnswersWhatWasAsked`, `HostsFound`, `ServersOffered` |
| `DnsNames`, `DnsRecords`, `DnsPacket` | names and their compression, the types of records, packets; each extends the one before |
| `MCNetwork` | `SocketIO`, `Sockets`, `DnsSocket`, `Resolver`, `RemoteAddress`, `LocalAddress` and `DnsPacket`, one per behaviour |
| `Permutor` | `dns_k_permutor_*`, `dns_k_shuffle16` |
| `DnsHosts`, `DnsConf`, `DnsHints` | `dns_hosts_*`; `dns_resconf_*` and `dns_nssconf_*`; `dns_hints_*` |
| `CommandLine` | `libs/utils/src/args.cpp` |
| `CommandLineProofs` | theorem `WordsUsed` |
| `Text` | `b64.cpp`, `url.cpp`, and hexadecimal digits, trimming and splitting of `utils.cpp` |
| `FreeList`, `SubQueue`, `ProducerHash`, `QueueFront` | `detail/concurrentqueue.h`, from the blocks up to `try_dequeue` |
| `QueueProofs` | theorems `OneOwner`, `MissesNothing`, `LoneMissesNothing`, `OneEach` |
| `SubQueueProofs` | theorems `SubQueueFits`, `SubQueueOnce` |
| `SequenceLemmas` | what appending, taking, erasing and reversing do to a sequence without repetitions, for the proofs |
| `MCData` | the modules from `Permutor` on, but for the proofs, one per behaviour |

### EventLoop and the code

A thread is a loop or `Main`. `pc[t]` says where thread `t` is, `run[t]` is the
coroutine it holds, `tgt[t]` the loop it calls and `ret[t]` where a loop goes on
once the coroutine it resumed suspends. Calls of `Thread` are made by the
coroutine that suspends and so run on whatever thread it is on; their steps are:

| Code | Actions |
|---|---|
| `schedule(coro)` | `AwaitHop` (enqueue), `Record`, `SignalCas`, `SignalWrite`, `SignalReset` |
| `add(Delay*)` | `AwaitDelay` (state, timer on the list), signal, `Record` |
| `add(Event*)` | `AwaitFd` (`EPOLL_CTL_ADD`), `EpollMod`, `AddEventTimer`, signal, `SetScheduled`, `Record` |
| `while (_active)`, `computeWaitTimeout`, leaving | `LoopTop` |
| `epoll_wait` | `EpollWait`, `Interrupted` (EINTR) |
| draining `_scheduleQ` | `ResumeScheduled`, `DrainEnd` |
| the batch | `HandleThreadEvent`, `HandleEvent`, `SkipEvent`, `EventsEnd` |
| `fireExpiredTimers` | `TakeExpiredTimer`, `FireTimer`, `DropTimer`, `TimersEnd` |
| `abort`, `~Thread`, `~Scheduler` | `Abort`, signal, `Join` |

One step is one access to state that threads share. Two groupings go beyond
that. `HandleEvent` and `FireTimer` join the compare-exchange on the state with
the cancelling of the timer, `EPOLL_CTL_DEL`, the decrement of the load and
`await_resume`, the first thing the resumed coroutine does. Once the compare-exchange
has succeeded, no other thread touches that awaiter, and what follows concerns
its own registration, its own timer and a counter: another thread's add for the
*same* descriptor is the one step that does not commute with the deletion, and
it is modelled in both orders, before and after. `AwaitDelay` sets the state
before the timer can be seen, so the two are one step.

The awaiter is in the frame of the coroutine, therefore `st`, `at`, `fd`, `dd`,
`armed` and `links` are indexed by coroutine; `at[c]` is the loop that serves
the wait and is `None` outside a wait. esFIRED, esERROR and esTIMEOUT are one
outcome. Statistics other than `inflight` are left out; `inflight` keeps its
width as `Modulus`. The concurrent queue is a set. `minLoadSchedule` is a choice
of any loop: a thread compares loads that change under it, and a pinned wait
names its loop. A compare-exchange is assumed not to fail spuriously in `signal`
and on the state of an awaiter (it does not on x86; elsewhere
`compare_exchange_weak` without a loop would be one more way to lose a signal).

The system begins when `Scheduler::run` has seen all loops active. `Start` is a
call of a coroutine by `Main`, which runs it to its first suspension. When the
assertion of `signal` fails the process ends; in the model the thread stays
where it is, and `SignalReachesLoop` is the statement that it never does.

### AsyncMutex and the code

A step is one access to `_state`, or the owner's access to `_waiters`. The chain
of `_next` links that `_state` heads is a sequence, newest first; a
compare-exchange compares heads only, as the code compares addresses, so a
chain that was taken and begun anew with the same head is not told apart.
`LockRetry` is a failed compare-exchange; a spurious failure changes nothing.
`unlock` resumes the next owner inside itself (`callee`), and returns only when
that coroutine suspends or ends. A failing `tryLock` changes nothing and is no
action.

### Events, scopes, tasks and the start

In all of them a step is one access to an atomic. `ManualResetEvent` has its
chain as the mutex has: a compare-exchange in `await_suspend` sees the head
only. `set` takes the chain and resumes what it took one by one, each inside
`set`, while others wait, set and reset. `AutoResetEvent`: `operator co_await`
returns an empty operation on all paths, so nobody ever waits; the module has
the word as the code has it, with sets in its low and waiters in its high half,
and shows that the half for waiters stays zero.

`AsyncScope`: the owner and live work may spawn; `join` stores the continuation
and gives up the owner's count; the work that brings it to zero resumes the
owner. `SyncWait` puts the owner into `syncWait`: the main thread sleeps on the
futex that the coroutine sets when it has ended, possibly on a thread of the
work.

`TaskHandoff`: `done` holds when the child is suspended at its final suspend
point, which is before the final awaiter's exchange; an awaiter for which
`await_ready` held does not wait for that exchange, and `ResumedOnce` promises
nothing about the frame to it. A task is awaited by one coroutine.

`SchedulerStart`: a caller of `init` that finds `_initialized` set returns at
once. It is taken to schedule only when the first caller's `run` has returned;
`init` does not ensure that. The wait for a thread to become active has a
deadline of a minute, which is not reached.

### Sockets and addresses

`SocketIO` has one coroutine that calls the loops with a buffer of up to
`MaxSize` bytes; a pass is a step, with any answer of the kernel. `errno`
belongs to a thread: after a wait it is any value. `Sockets` has the table of
descriptors of the process, in which the lowest free number is the next, and a
`ticket` for each opening, so that a number that was closed and opened again is
told apart. `connect` closes a descriptor on an error and returns a socket that
still has it: such sockets are in `stale`, what they close later is in
`wronged`, and `OwnsWhatItHas` is claimed for everything else.

`LocalAddress` is one call with its `errno`; the walk over the interfaces takes
one of them per step. `RemoteAddress` has several
coroutines that call `remote`: each finds the global pointers set or loads them,
opens a resolver, which takes references, and asks it until it has an answer. A
racer that finds the pointers half set fails an assertion; in the model its
call ends there.

### The resolver

`DnsSocket` is one question at a time, with datagrams of earlier queries still
under way, in any order and twice, with partial sends and receives on the TCP
connection, which is kept, and with descriptors put aside until `dns_so_clear`.
Query ids are distinct here; `Permutor` is about that. `Resolver` is
`dns_res_exec` state by state, with the stack of frames. What hosts, hints and
servers answer is a choice among the answers the code tells apart: records,
none, an alias, a referral with and without addresses, SERVFAIL, silence. Names
are the two candidates of the search list and the names an answer gives.

`DnsNames` to `DnsPacket` work on octets: the point is compression, pointers
into what was written before, and pushes that fail when the packet is full. A
push that fails puts the end of the packet back, but neither the octets behind it
nor the dictionary: `past` has those octets, and a later push that only leaves
room (for RDLENGTH) finds them there. What a fresh buffer has in it is
`FreshOctets`; the run has one value, 193, the first octet of a pointer.
`dns_p_grow` computes the new size from the offset of the data in the struct
(`DataOffset`).
`DnsHosts` and `DnsConf` read files as sequences of words. `Permutor` has TEA as
any function of round and half block, and the s-box as any permutation.

### The schedule queue

The queue is modelled in four layers, each of which has the one below it as an
abstraction: `FreeList` hands out blocks; `SubQueue`, one producer's stream of
items, takes them from a set; `ProducerHash` finds a thread's sub-queue;
`QueueFront` scans the list of sub-queues. The table doubles its capacity
step by step as the loop in the code does, while other threads go on counting
themselves. In `QueueFront` a sub-queue is its four counts: `tailIndex`,
`headIndex`, `dequeueOptimisticCount` and `dequeueOvercommit`. An attempt at it
is as optimistic as in the code, one load, increment or check per step, and so
it may fail while there are items, because somebody else has counted itself and
not repaid. Which item goes to whom, and the width of the counts, are in
`SubQueue`.
`EventLoop` has the whole as a set. Memory is sequentially consistent; the
weaker orders the code asks for are not modelled. Compiled for this program, an
item's copy does not throw, so the branches for one that does are not there, and
thread-local support is off (`concurrentqueue.h:333`), so producers are not
recycled at the exit of a thread. A schedule queue has one consumer, its loop;
the modules have any number, and what they promise a single one is stated apart
(`LoneMissesNothing`). The offset of a block in the ring of an index is computed
with an unsigned division, although the comment at 4150 says signed; for
capacities that are powers of two the result is the same.

### Text and arguments

`CommandLine` declares global arguments and commands, to which the globals are
copied one by one, and reads one command line word by word. A cluster of short
flags is one step: what its letters do is said by the first that ends the
cluster, if there is one. `Text` builds a text byte by byte, and its operators are the
conversions.

## Runs

The largest runs, `data` and `network`, take two to four minutes with two workers,
the others about one. Deadlock is not an error in them: the coroutines end, a scheduler
without work sleeps, and the inputs of a parser come to an end. Loops, coroutines and
descriptors in the safety runs of the event loop are symmetric: nothing chooses
among them.

| Run | Instance | Shows |
|---|---|---|
| `loop_general` | 2 loops, 2 coroutines, 1 shared descriptor, hops, delays, deadlines, any loop, shutdown | `TypeOK`, `ExclusiveResume`, `LoadAccounting` in full generality |
| `loop_anywhere` | 2 loops, 2 coroutines, 2 waits each, shared descriptor, delays, any loop | `NoDanglingEvent`, `NoDanglingTimer` |
| `loop_pinned` | 1 loop, 3 coroutines, 2 waits each, deadlines 1 and 2, hops, `Main` as a second caller | `TimerListIntact`, `IndInv` |
| `loop_timeouts` | 1 loop, 2 coroutines, fairness | `TimedWaitsEnd` |
| `fd_waits` | 2 loops, 2 coroutines, 2 descriptors, any loop, fairness | `ScheduledIsRegistered`, `ReadyWaitsEnd` |
| `primitives` | mutex: 3 coroutines, 2 locks each | `MutualExclusion`, `NoWaiterLost`, `IsFifo` (the refinement), `WaitersServed` |
| | manual reset event: 2 coroutines, 2 threads, 2 calls each | `WaitersAccounted`, `SetReleasesAll` |
| | auto reset event: 3 threads, 2 calls each | `SetsConserved` |
| | scope and `syncWait`: 3 pieces of work | `JoinedAfterWork`, `SyncWaitReturns` |
| | 2 tasks | `ResumedOnce`, `AwaiterGoesOn` |
| | 2 callers of `init`, 2 threads, loads 0 to 2 | `StartedOnce` |
| `network` | 2 calls of a transfer loop, up to 3 bytes | `BytesAccounted` |
| | 2 sockets, a listener, 3 descriptors, 3 openings | `OwnsWhatItHas` |
| | DNS socket: 2 servers, 3 submissions, 4 numbers | `AnswerIsForQuery`, `PollfdUnambiguous` |
| | resolver: 3 frames, 2 attempts, 2 candidates, stub and recursive, two lookup orders | `AnswersItsQuestion`, `ResolverEnds` |
| | 2 lookups of up to 2 addresses; 6 names, 5 ports, 5 modes, 4 lists of interfaces | `AddressesHold` |
| | packets: 4 pushes out of 7 records with names or 8 of all kinds, 50 octets and growth | `PacketKeepsRecords` |
| `data` | query ids: 3 ranges, every round function; every small s-box | `IdsNeverRepeat` |
| | hosts, configuration, hints: all files of up to 4, 3, 3 lines, 2 slots and their orders | `HostsAgree`, `ConfAsWritten`, `ServersByPriority` |
| | texts of up to 4 of 6 bytes | `TextSurvives` |
| | command lines: 2 declarations, up to 4 of 12 words after the command | `WordsUsedOnce` |
| | free list: 3 threads, 2 blocks | `BlocksHaveOneOwner` |
| | sub-queue: 2 dequeuers, 5 items in blocks of 2, modulus 16 | `EachItemOnce` |
| | table: 3 colliding threads, 4 calls, a failing allocation | `OneProducerEach` |
| | scan: 2 dequeuers, 3 sub-queues, 2 items, 3 calls of `try_dequeue` | `NothingMissed` |
| `lost_wakeup`, `lost_signal`, `erase_member`, `shutdown_signal` | see Findings | the code disagrees with what it says |

What the newer properties say, beyond their names: `AnswerIsForQuery` that a
late or repeated datagram, or one left on a kept connection, is not taken for
the answer to a later query; `PollfdUnambiguous` that a number the caller polls
has had one meaning since the last clear; `PacketKeepsRecords` that failed
pushes and compression leave every record as it was pushed, the memo equal to
what a study of the octets finds, merges complete, and sorted iterations visit
each record once, with the exception of the
names in the value of a `torn` record, one written over a name that a failed
push has left in the dictionary: these may read as others (see Observations),
while its other fields, and all other records, are intact; `HostsAgree` that forward
and reverse lookups agree; `ServersByPriority` that a query offers each server
once that was given for a zone the name is in and not replaced since, nearer
zones and better priorities first, whatever the seeds, and that the port asked
at is one the address was given with; `WordsUsedOnce` what becomes of each word
of an accepted command line: the words that are neither flags nor values are the
positionals in their order, every flag is one of the command's, every argument
has the value that the first of its flags gives it (the word after it; after `=`
the empty string; for an option 1), later flags for it stand in clusters of
short flags and change nothing, and without a flag it has a value only if it is
required, from the prompt; `EachItemOnce` that a dequeuer which has an index finds the
block and the item of that index, whatever became of the ring since it read its
tail; `OneProducerEach` that a thread has one sub-queue however the table
grows; `NothingMissed` that every item which was there when a `try_dequeue`
began that finds nothing has been taken by another dequeuer, or is about to be
by one that has counted itself, except in a sub-queue of which another had
counted itself beyond what was there and not repaid at some moment of the call.
The exception is what the code does; without a second dequeuer it is void.
`TextSurvives` is about text that is not empty.

The bounds are `MaxAwaits` (suspensions per coroutine), `MaxTime` (the clock),
`MaxLocks`, `MaxWaits`, `MaxSets`, `MaxCalls`, `MaxLoad`, `MaxSize`, `MaxOps`,
`MaxTickets`, `MaxSubmits`, `MaxQids`, `MaxReferrals`, `MaxAddrs`, `MaxRecords`,
`MaxIds`, `MaxHostLines`, `MaxResLines`, `MaxClauses`, `MaxInserts`, `MaxDecls`,
`MaxCmdWords`, `MaxText`, `BlockCount`, `MaxTakes`, `SubBlocks`, `MaxItems`,
`MaxRepaid`, `MaxSent`, `MaxFailures`, `MaxProducers`, `MaxPosted` and
`MaxTries`. Limits of the code are small too, so that they are reached: tables
of 2 servers and 2 search domains, a dictionary of 3 names, chunks of 2 octets,
2 slots of hints, a depth of 3 frames, blocks of 2 items, a table that begins
with 2 slots, a scan that is content with 2 sub-queues that have items (the code
with 3), widths of 4, 8 and 16 for 2^32, 2^16 and 2^64.

Two waits per coroutine are what it takes for a frame to be used again while
something of its last wait is still under way; three timers for one to be in the
middle of the list; two loops for a call to race with its target and with a
third thread; three coroutines at a mutex for an order among two waiters; two
setters for a chain to be taken while another is being resumed; three openings
for a number to come back to somebody else; three submissions, of two
queries, for a late answer, a query sent again and a change of server to come
together; four pushes for a name to be compressed against a failed
one; three threads at the free list for a block to be taken and put back between
a read and an exchange; five items in blocks of two for a block to be used again
and the ring of the index to wrap. Modulus 16 is more than the number of
coroutines, and of items, so a wrap differs from every real value.

Constants other than bounds select how the API is used: `Hops` (the queue),
`SharedFds` (two waiters for one descriptor), `Pinned` (an affinity that names
the loop the coroutine is on), `Shutdown`. They restrict a run to the use for
which a property is claimed, and the proofs carry the same conditions:
`TimersGuarded` says that an `Event` with a deadline is pinned. Without it
`NoDanglingTimer` is false (see `erase_member`; TLC needs 49 steps and three
coroutines).

Fairness: `FairSpec` of `EventLoop` has weak fairness of each thread's steps
(the operating system schedules threads; `_timersLock` and the queue do not
starve) and of the clock. Nothing is assumed of the descriptors, of EINTR, of
`Main` starting coroutines or destroying the scheduler. A coroutine that runs
does suspend or end: a loop that is kept by one serves nobody, by design.
For the primitives (`PrimFairness`), a coroutine or thread that runs gets on: it
ends its critical section, resumes what it took, finishes the work it was
spawned for. Nobody is made to lock, to wait, to set, to reset or to spawn. For
the network (`NetFairness`), the caller goes on calling `dns_res_check`, as
`remote` does; no server, datagram or deadline is made to come, and servers are
silent as often as they like: `ResolverEnds` rests on the attempts, the depth
limit and the search list. A server may refer `MaxReferrals` times: the code has
no limit of its own, and referrals without end never end.

## Findings

Each is a run of its own in which TLC finds what the code does.

* `lost_wakeup`: the loop drains its queue before it reads the eventfd. A
  coroutine enqueued in between is left in the queue with its wake consumed,
  until something else wakes the loop (`src/thread.cpp:73`, `:84`).
* `lost_signal`: `signal` is skipped while `_signaling` is set, also after the
  loop has read what the other thread wrote. A timer added then is not noticed
  by a loop that sleeps without a timeout (`src/thread.cpp:146`).
* `erase_member`: the timer of an `Event` is on the list before the `Event` is
  scheduled. It may expire and be dropped; later `mill_list_erase` is called for
  a timer on no list, which empties the list (`src/thread.cpp:173`, `:266`).
* `shutdown_signal`: `abort` stops the loop before it signals; the loop may have
  closed the eventfd, and the assertion of `signal` fails (`src/thread.cpp:338`).

The passing liveness runs are instances in which these cannot happen: with waits
pinned, a timer is only ever added by the loop itself, which looks at its list
before it sleeps, so `TimedWaitsEnd` holds without any signal.

## Proofs

TLAPS proves the following for every value of the constants that satisfies the
named assumptions in the modules that declare them: sets that are counted are
finite (`FiniteAssumption`, `ScopeAssumption`, `LookersAssumption`,
`HashAssumption`, `FreeListAssumption`, `FrontAssumption`), special values are not members of the
sets they are told apart from (`LoopAssumption`, `MutexAssumption`,
`EventAssumption`), interfaces, words of a hosts file and name servers have the fields they
have (`LocalAssumption`, `HostsAssumption`, `HintsAssumption`), every flag has a long name and a
cluster has letters (`ArgsAssumption`: `Command` and `isValid` insist on these,
`Parser::add` takes the name of a global flag as the application gives it),
bounds, sizes and timeouts are natural numbers, and there is
room for at least one thread, frame, search candidate, set and server of a zone
(`StartAssumption`, `ResAssumption`, `AutoAssumption`, `HintsAssumption`). `SubQueueAssumption` says
more. Blocks and block indexes have sizes above 1, as the `static_assert`s of
`concurrentqueue.h` demand; the width is a power of two, stated by the divisors
such a number has, and the sizes divide it. And no sub-queue lives to see half
the range of an index: the items enqueued, the announcements repaid and the
dequeuers together stay within half of it. An index is a `size_t`, of 64 bits, so this
takes longer than a process lives; but an index that wraps is outside the
theorem, and outside the run. The offsets in the ring do wrap, in both. Two
conditions are named in the theorems that need them: `TimersGuarded` and
`~SharedFds`, see Runs.

### The event loop

`OneResumption` (`Spec => []ExclusiveResume`) and `TypeCorrect`. ExclusiveResume
is not inductive: that a coroutine which an event or a timer claims is not also
held by a thread needs to know which program counters hold a coroutine
(`CallInv`), and that a coroutine in a wait says where it waits while a queued
or running one does not (`OwnerInv`). With these, every action that hands over a
coroutine takes it from exactly one place. There is no condition on the use of
the API.

`StaysRegistered` (`~SharedFds` implies `Spec => []ScheduledIsRegistered`). With
one waiter per descriptor, a deletion from the epoll set is the deleter's own
(`RegInv`), and between `epoll_ctl` and `setScheduled` nobody else touches the
entry.

`Guarded`, `NoDangling` and `TimersLive` (under `TimersGuarded`). The timers are
reached through pointers, and erasing one timer keeps the others reachable only
if the links are inverse to each other and a timer without a neighbour is an end
of the list (`LinkInv`). `LinkInv` speaks of single links, not of what a walk
reaches: `WalkedServed` derives the latter from the least-set definition of
`Walked` by instantiating it once. `GuardInv` says that a timer on a list is of
a scheduled wait or of one this very loop is adding, which is where
`TimersGuarded` is used; `OffList` and `ExpiredInv` say that the timer the loop
is about to fire is off the list, due, and alive. The conjunction `IndInv` is an
invariant of the run `loop_pinned`.

`ListsIntact` adds to it that every timer of a loop's waits is reached by a walk
of its list, but for the one that is about to fire, and that neighbours are in
the order of their deadlines (`ListInv`): an insertion stops in front of the
first later deadline, so it splits one link and nothing else.

`LoadCounts` counts the coroutines in the queue and in the waits of a loop: every
step moves at most one of them, and each that does moves the counter, or a
thread that has yet to move it (`Uncounted`, `OpInv`). It needs
`TimersGuarded`: on a list that a wrong erase has corrupted (`erase_member`) a
timer of a wait that is over can fire, and the counter is decremented for it.
`loop_general` checks `LoadAccounting` without the condition, but only where
each coroutine waits once.

### The primitives

`Excludes` and `ImplementsFifo` for the mutex. `MutexInv` adds to mutual
exclusion what the owner knows at each place of `unlock` (`_waiters` is empty
once it goes on to release, the chain it took is not empty). The refinement maps
the owner to `owner` and the waiters not yet resumed, oldest first, to `line`;
pushing on the chain appends to the line, taking and reversing it is a stutter,
and `Grant` or `Release` is the abstract `Release`. `KeepsWaiters` is about the
same line: every step leaves it, appends one that begins to wait or removes its
first (`LineStep`), so it has the waiting coroutines once each.

`SetsUsedOnce`: what a thread has seen is a value the word can have, so that a
compare-exchange which succeeds says what both halves are. `WaitersKept`:
`WaitersAccounted` is inductive once types are added; the work is in showing that
pushing and taking a chain keeps it without repetitions. `StartsOnce`: one caller
is in `run()`, how far it has come says which threads are made and active
(`InRun`), and `low`, `choice` stand for the least of what was looked at
(`InChoice`).

`JoinsAfterAll` (`ScopeSpec => []JoinedAfterWork`). The decision who resumes the
owner falls on the count, so the invariant says what it counts: the live work,
and the owner until its `await_suspend` has counted down (`Counted`, a
cardinality). Work that brings it to zero was then the only live work, with the
owner suspended and its continuation stored (`LastAlone`); nobody is left who
could spawn.

`HandedOverOnce` (`TaskSpec => []ResumedOnce`). What the property lacks is the
meaning of the flag: before the awaiter's exchange only the child's sets it
(`FlagMeans`), and the continuation is there exactly from `Install` on
(`NextMeans`). So whoever comes second at the flag knows that the other has been
there.

### Sockets, lookups, the resolver

`CountsBytes` needs what each place of a transfer loop knows of its counters.
`OwnsDescriptors`: what is held was made with different tickets, none of them 0
or still to come (`Tickets`, `Apart`), so that closing a number takes away
nobody else's; a socket has no descriptor while a `connect` for it is under way
(`Stages`). `AnswersLastQuery`: a check that returned 0 speaks of the answer that
is there until it is fetched or another query is submitted. `OneMeaningEach`: a
number with a meaning is still open, so that it is not handed out again
(`PollInv`). `SharedObjectsStay`: there is one object per load, and its count is
that of the globals and of the lookups that hold it (`RefInv`).
`LocalAnswers` (`LocalSpec => []LocalAsAsked`) has the invariant of the walk:
what was seen of a family is the one interface of that name before the place it
is at, or there is none (`SeenInv`), and the name is no literal. A literal that
is also the name of an interface stays a literal. `AddressesStay` is the two
together.

`AnswersWhatWasAsked` is an invariant per frame of the stack (`FrameInv`): what
its query and its answer may be for, in each state. Pushed frames ask what they
were pushed for, but a stub may search in a pushed frame too and replace the
question there (the XXX at `dns.c:6783`). That this never shows is the one
argument that spans frames: a stub asks only servers whose addresses it has
(`Knows`), so it pushes no frame for a name server, and a frame it has suspended
already has its answer; and an unsatisfactory answer kept in a pushed frame
(`NodataInv`) is not one that frame 0 comes to use.

`HostsFound` (`HostsSpec => []HostsAgree`) relates the list of entries to the
file it was read from (`HostsInv`): an entry is of a line that mentions its name
with its address; whatever a line mentions has an entry; and of the entries that
are no aliases there are, for each address, as many as there are lines that give
it a name. The last one is why reverse lookups need to count.

`ServersOffered` (`HintsSpec => []ServersByPriority`). A slot holds what was
inserted last of what went to it (`StoreInv`); slots and insertions are related
by how many insertions there were for the zone, which is why the proof counts
them. A turn of a scan keeps the least slot so far after the one offered last
(`ScanInv`), so what has been offered of a zone is always that one and all slots
before it (`OfferedInv`), and the scan comes to an end only when that is all of
them. It rests on `dns_hints_i_cmp` being a strict order without ties
(`OrderIs`): priorities may be equal, places in the shuffle may not. The answer
is the list of servers; that they fit into its packet of 512 octets, without
which `dns_hints_query` returns an error, is not in the model. TLC checked the
invariant on the instance of the run `data`.

### The command line: proofs

`WordsUsed` (`ArgsSpec => []WordsUsedOnce`). Which words are values follows from
the words alone: a word is one if the word before it takes a value and is none
itself. The invariant (`ArgsInv`) has such an assignment for the words read so
far and says that the loop agrees: it wants the value of an argument exactly
when the last word takes one and is no value (`WantInv`); the positionals are
the other words that look like one, in their order, and the flags are the
command's (`WordsKnown`); and the first flag of each argument has given it its
value, or is the last word and is about to (`ArgRead`). A word that is read adds
what its letters say and changes nothing that is there (`Effect`, `Adds`). That
a letter means one argument and no other needs what `Command` refuses and what a
copy of the globals leaves out (`CommandsOK`): no two arguments of a command
have a long name or a letter in common. TLC checked `ArgsInv` on the instance of
the run `data`.

### The schedule queue: proofs

`OneOwner` (`FreeListSpec => []BlocksHaveOneOwner`). The code says nowhere where
a block is; the invariant (`FreeInv`) says that there is an assignment of places
to blocks (pool, in use, on the list, waiting for the last holder, in the hands
of one thread) of which the counts are a consequence: the count of a block is
the number of threads that hold a reference to it, plus the unit of its place
(`BlockIn`). The property follows the pointers from the head, so the list is
described by single links (`Line`): no two blocks have the same successor, none
points to the head, and every set that is closed under the links and has the
head contains the blocks on the list. Two facts make the exchanges of the head
right although they compare addresses only: a next pointer is written only while
nobody holds the block (`InHandKeeps`), so what a holder has read is still so
when its exchange succeeds; and a reference is taken only to a block whose count
is neither 0 nor SHOULD_BE_ON_FREELIST alone. TLC checked `FreeInv` with 3
threads, 3 blocks and 5 calls. That the number of threads stays below the high
bit is `FreeListAssumption`.

`MissesNothing`: a receiver which has seen nothing so far has passed no
sub-queue with items of when its call began that nobody else has spoken for
(`Passed`, `Covered`). Spoken for is what has been taken, together with what
others have counted themselves for and will find; that sum never shrinks. An
attempt fails when the count, less what was repaid, has reached the tail it
loaded; the count is what was taken, what was repaid and who is under way
(`CountsInv`), and where nobody has counted beyond what is there, all who are
under way will find something (`MineInv`, `OverInv`). The invariant has `excused`
for the sub-queues where somebody had. `LoneMissesNothing`: a receiver that is
alone is never excused (`StaysUnrivalled`), and there is nobody to have spoken
for anything, so all that was there has been taken.

`OneEach`: the property needs that a probe of a table ends, and finds the entry
of a thread that has one. The count of producers is the number of threads that
have a sub-queue or have counted themselves, so of those that drew at most `k`,
and those that settled in a table on that strength, there are at most `k`
(`Uncrowded`). A table is entered by a thread that drew less than three quarters
of its slots, or that has a slot in a smaller table; so it is never full, by
counting its entries (`FreeSlot`). The flag for resizing is held by one thread,
which makes a larger table (`ResizeInv`). Nothing is assumed of the hash, of how
many threads collide, or of the initial size beyond 1. TLC checked `HashInv` for
initial sizes of 2, 3 and 4.

`SubQueueOnce` (`SubSpec => []EachItemOnce`) rests on `SubQueueFits`, the
inductive invariant `SubInv`, whose parts are proved one after the other:

* The counters (`CountsInv`). `dequeueOptimisticCount` counts the items taken,
  those that are to take an index, those that have announced themselves and those
  that are to repay, and what was repaid. What makes the check right is `Served`:
  of those that wait with an announcement no larger than one's own, with those
  that were let through before, there are not more than there are items; or
  there were none to spare when one read the counters, and then the check fails.
* The ring (`RingInv`). Blocks are numbered in the order of their first index.
  The tail is at the entry of the newest number and the entry n places before it
  is that of the number n before, if its block is still in use; an older entry
  has an older key, or none. So an entry is reused only when its block has gone,
  and the copy into a larger ring keeps every number at its place. One entry is
  an exception: an insertion for which there was no block puts the tail back and
  leaves the key, in the entry that the next one will use.
* The blocks (`BlocksInv`). An index is open until its item has been taken. A block
  in use holds all open items that were put into it; the dequeues it has
  counted, those that have taken an item and not counted it, and its open indexes
  are `BLOCK_SIZE`. Every block is free, in use, or in the hands of one dequeuer
  about to free it.
* The dequeuers (`EatersInv`). The ring and the tail that a dequeuer has read may
  be old, but lead to its entry (`SeesInv`): the difference of the keys is the
  distance from the entry they name, because that one comes after the entry of
  the dequeuer's own block, which would have to be reused first and is still in
  use. No two dequeuers have the same index.
* `EatenInv`: what came out is what is no longer open. `GoneInv`: after the
  destructor every block is free.

TLC checked the invariant on the instance of the run `data` (72,653 states) and
on a larger one (3.6 million) before it was proved.

### Only model-checked

* Liveness (`TimedWaitsEnd`, `ReadyWaitsEnd`, `WaitersServed`, `SetReleasesAll`,
  `SyncWaitReturns`, `AwaiterGoesOn`, `ResolverEnds`): beyond this prover.
* What is computed by recursion or folds over data, which would need induction
  with an operator parameter: `PacketKeepsRecords`,
  `ConfAsWritten`, `TextSurvives`; and `IdsNeverRepeat`,
  which needs `Bitwise` besides.

## Observations

Seen while modelling; the models do what the code does, and the properties are
stated around these. None is a run of its own.

* `AutoResetEvent`: `co_await` never suspends (`src/event.cpp:70`).
* `task`: `await_ready` can hold before the final awaiter has run; the final
  awaiter of a joinable task destroys the frame that `join` uses, and a
  `co_await` of a joinable task is never resumed (`detail/promise.hpp:79`).
* `syncWait`: `set` may wake a futex word whose frame is gone (`src/sync.cpp`).
* `Scheduler::init`: a second caller returns before the threads are there.
* `Thread::schedule` ignores the result of `enqueue`: without memory a
  coroutine is counted and signalled but lost (`src/thread.cpp:200`).
* Sockets: the error given to the constructor is ignored; `_error` is never
  cleared; `sendAll` of nothing reports ECONNRESET; the error path of `listen`
  closes `rc` instead of `s`; a listener's `close` only shuts down; assigning to
  an open socket leaks its descriptor; `connect` returns a socket with a closed
  one.
* `local`: an interface with two addresses of a family fails an assertion,
  although the comment at `src/addr.cpp:184` speaks of the first one; a port
  beyond 16 bits wraps when the name is an interface. `remote`: it leaks its
  lookup when a wait fails, asks for A records only, so IPv6 is never found, and
  asks for ever when a name does not exist.
* DNS: a TCP send that is entered again after a partial one goes on from twice
  the offset; a stub search replaces the question of a pushed frame (the XXX at
  `dns.c:6783`); the seventeenth hint and later ones all go to slot 0; TXT
  records compare as less than themselves; OPT records get no length; a push of
  a name leaves the octets of RDLENGTH as they were until the name is compressed
  (`src/dns/dns.c:2660`, `:2730`, `:2846`, `:2989`), and the dictionary may name
  them as the place of a name of a failed push: the pointer written then points to
  its own RDLENGTH, and the name reads as another; criteria
  in `nsswitch.conf` are read as sources in one place; `lookup` overwrites only
  the beginning of the default.
* Arguments: `--arg=val` gives the argument the empty string, because the parser
  makes the `=` a terminator and takes what begins there as the value
  (`libs/utils/src/args.cpp:127`, `:166`; the comment at `:126` says what was
  meant); a short flag with a value can be repeated, and the later values are
  dropped in silence (`libs/utils/src/args.cpp:203` has no check like the one for
  long flags at `:153`); a positional ends at its first `=`; any argument with the letter h
  is help; a global flag is dropped where a command has its letter.
* base64: decoding no text writes three bytes, and so does a last quantum of one
  character, whose size wraps (`libs/utils/src/b64.cpp:119`); unpadded text is
  read one byte too far. `split` at an empty delimiter does not end.

## Not modelled

* `Thread::remove` has no caller; use of `Thread` objects after their
  destruction; the depth of the stack under nested `unlock`.
* Weak memory: `_evfd` is a plain int that one thread writes and others read,
  and the queue's acquire and release orders are taken as sequentially
  consistent.
* Failures of `epoll_ctl` other than EEXIST when an `Event` is added
  (`src/thread.cpp:179`), and ENOENT of the `EPOLL_CTL_MOD` after it: `add`
  returns false, `src/scheduler.cpp:84` ignores it, and the coroutine is never
  resumed. The assertion in `remote` on a port that is out of
  range (`src/addr.cpp:272`).
* The 32-bit timeout of `epoll_wait`: the clock of a model is far from it.
* `join` of a joinable task: the frame is destroyed under it in every order.
* The queue's explicit producers, tokens, bulk operations, moves and swaps: no
  caller. Failing copies and the exit of threads: not compiled here.
* Of `dns.c`: printing, tracing, the cache (suil opens none), the random
  sources, and the `main` of its test program.
* The help text and typed values of arguments; the other helpers of
  `libs/utils`, which wrap the standard library: buffers, exceptions, dates,
  uuid, logging, console. Coroutine traits and the generator are types and one
  thread. `poll.cpp` is not part of the build, `meta` a stub.

## Plan

Every safety and action property the runs check of the event loop, the
primitives, the network and the schedule queue is a theorem, and so are those of
the hosts file, the hints and the command line. What is left is under Only
model-checked, with the reason. A model of the queue under the memory orders the
code asks for, rather than sequential consistency, would be the next thing worth
having.

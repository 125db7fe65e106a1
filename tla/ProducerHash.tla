---------------------------- MODULE ProducerHash ----------------------------
(***************************************************************************)
(* How a thread that schedules finds its own sub-queue of a schedule queue *)
(* (get_or_add_implicit_producer() of concurrentqueue.h): in a hash table  *)
(* that grows while others use it.  A larger table is chained in front of  *)
(* the older ones, and a thread copies its own entry when it next comes by.*)
(* A slot, once taken, stays taken, so that finding one's own key, or the  *)
(* first free slot, is one step.                                           *)
(***************************************************************************)
EXTENDS Naturals, Sequences, FiniteSets, SequencesExt

CONSTANTS
    Senders,         \* threads that enqueue
    Hash,            \* hash_thread_id() of each sender
    HashSize,        \* INITIAL_IMPLICIT_PRODUCER_HASH_SIZE
    MaxSent,         \* bound: calls of enqueue()
    MaxFailures      \* bound: allocations that fail

ASSUME HashAssumption ==
    /\ HashSize \in Nat /\ HashSize > 1 /\ Hash \in [Senders -> Nat]
    /\ IsFiniteSet(Senders) /\ "free" \notin Senders

VARIABLES
    tables,          \* hash tables, each a function from slots to entries
    hashCount,       \* implicitProducerHashCount
    resizing,        \* implicitProducerHashResizeInProgress
    producers,       \* the list of sub-queues, the latest first
    send,            \* each sender: pc, mainHash, newCount, newCapacity,
                     \* and its sub-queue
    requests, failures,
    used             \* history: the sub-queues each thread has enqueued to

hashVars == <<tables, hashCount, resizing, producers, send, requests, failures, used>>

\* a sub-queue is named after its thread and its number among those it made
NoName == <<"none", 0>>
Free == [key |-> "free", value |-> NoName]
EmptyTable(n) == [i \in 0..(n - 1) |-> Free]
Size(h) == Cardinality(DOMAIN h)
NotSending == [pc |-> "idle", main |-> 0, count |-> 0, cap |-> 0, own |-> NoName]

\* populate_initial_implicit_producer_hash()
HashInit ==
    /\ tables = <<EmptyTable(HashSize)>> /\ hashCount = 0 /\ resizing = FALSE
    /\ producers = <<>> /\ send = [t \in Senders |-> NotSending]
    /\ requests = 0 /\ failures = 0 /\ used = [t \in Senders |-> {}]
-----------------------------------------------------------------------------
\* get_or_add_implicit_producer()

Is(t, p) == send[t].pc = p
To(t, p) == send' = [send EXCEPT ![t].pc = p]
Slots(t, h) == {i \in DOMAIN h : h[i].key = t}
Own(t) == {n \in 1..Len(tables) : Slots(t, tables[n]) # {}}
KnownAs(t) == LET h == tables[CHOOSE n \in Own(t) : \A m \in Own(t) : m <= n]
            IN h[CHOOSE i \in Slots(t, h) : TRUE].value

\* the first free slot from the thread's hash on, cyclically
Distance(t, h, i) == (i + Size(h) - (Hash[t] % Size(h))) % Size(h)
Vacant(t, h) == CHOOSE i \in DOMAIN h : h[i] = Free /\
    \A j \in DOMAIN h : h[j] = Free => Distance(t, h, i) <= Distance(t, h, j)
Enter(t) ==
    LET n == send[t].main
    IN tables' = [tables EXCEPT ![n][Vacant(t, tables[n])] =
                     [key |-> t, value |-> send[t].own]]

Begin(t, p, own) ==
    /\ Is(t, "idle") /\ requests < MaxSent /\ requests' = requests + 1
    /\ send' = [send EXCEPT ![t] = [pc |-> p, main |-> Len(tables),
                                    count |-> 0, cap |-> 0, own |-> own]]
    /\ UNCHANGED <<tables, hashCount, resizing, producers, failures, used>>

FindProducer_main(t) ==
    \/ Len(tables) \in Own(t) /\ Begin(t, "enqueue", KnownAs(t))
    \/ Len(tables) \notin Own(t) /\ Begin(t, "add", NoName)

\* the main table, then the older ones
FindProducer(t) ==
    \/ Len(tables) \in Own(t) /\ Begin(t, "enqueue", KnownAs(t))
    \/ Len(tables) \notin Own(t) /\ Own(t) # {} /\ Begin(t, "enter", KnownAs(t))
    \/ Own(t) = {} /\ Begin(t, "add", NoName)

\* the key of a new producer, or of one found in an older table
EnterKey(t) ==
    /\ Is(t, "enter") /\ Enter(t) /\ To(t, "enqueue")
    /\ UNCHANGED <<hashCount, resizing, producers, requests, failures, used>>

CountProducer(t) ==
    /\ Is(t, "add")
    /\ hashCount' = hashCount + 1
    /\ send' = [send EXCEPT ![t].count = hashCount + 1, ![t].pc = "grow"]
    /\ UNCHANGED <<tables, resizing, producers, requests, failures, used>>

\* half full: whoever sets the flag makes a larger table
HalfFull(t, n) == send[t].count >= Size(tables[n]) \div 2
TryResize(t) ==
    /\ Is(t, "grow")
    /\ IF HalfFull(t, send[t].main) /\ ~resizing
       THEN resizing' = TRUE /\ To(t, "resize")
       ELSE To(t, "place") /\ UNCHANGED resizing
    /\ UNCHANGED <<tables, hashCount, producers, requests, failures, used>>

\* with the flag set, the main table is read again
Resize(t) ==
    /\ Is(t, "resize")
    /\ LET c == Size(Last(tables))
       IN send' = [send EXCEPT
             ![t].main = Len(tables),
             ![t].cap = IF HalfFull(t, Len(tables)) THEN c * 2 ELSE @,
             ![t].pc = IF HalfFull(t, Len(tables)) THEN "double" ELSE "clear"]
    /\ UNCHANGED <<tables, hashCount, resizing, producers, requests, failures, used>>

\* the capacity is doubled until the new table is less than half full
LargeEnough(t) == send[t].count < send[t].cap \div 2
DoubleCapacity(t) ==
    /\ Is(t, "double") /\ ~LargeEnough(t)
    /\ send' = [send EXCEPT ![t].cap = @ * 2]
    /\ UNCHANGED <<tables, hashCount, resizing, producers, requests, failures, used>>

NewTable(t) ==
    /\ Is(t, "double") /\ LargeEnough(t)
    /\ tables' = Append(tables, EmptyTable(send[t].cap))
    /\ send' = [send EXCEPT ![t].main = Len(tables) + 1, ![t].pc = "clear"]
    /\ UNCHANGED <<hashCount, resizing, producers, requests, failures, used>>

ResizeDone(t) ==
    /\ Is(t, "clear") /\ resizing' = FALSE /\ To(t, "place")
    /\ UNCHANGED <<tables, hashCount, producers, requests, failures, used>>

\* no memory: the count is taken back, then the flag, and enqueue() is false
Fails(t, p) ==
    /\ failures < MaxFailures /\ failures' = failures + 1
    /\ hashCount' = hashCount - 1
    /\ send' = [send EXCEPT ![t] = [NotSending EXCEPT !.pc = p]]
    /\ UNCHANGED <<tables, resizing, producers, requests, used>>

NoTable(t) == Is(t, "double") /\ LargeEnough(t) /\ Fails(t, "abandon")

Abandon(t) ==
    /\ Is(t, "abandon") /\ resizing' = FALSE /\ To(t, "idle")
    /\ UNCHANGED <<tables, hashCount, producers, requests, failures, used>>

\* less than three quarters full: recycle_or_create_producer(), where nothing
\* is ever inactive, and add_producer(), which puts it in front of the list
Roomy(t) == LET c == Size(tables[send[t].main])
            IN send[t].count < (c \div 2) + (c \div 4)
MadeBy(t) == Cardinality({p \in ToSet(producers) : p[1] = t})
AddProducer(t) ==
    /\ Is(t, "place") /\ Roomy(t)
    /\ send' = [send EXCEPT ![t].own = <<t, MadeBy(t) + 1>>, ![t].pc = "enter"]
    /\ producers' = <<<<t, MadeBy(t) + 1>>>> \o producers
    /\ UNCHANGED <<tables, hashCount, resizing, requests, failures, used>>

NoProducer(t) == Is(t, "place") /\ Roomy(t) /\ Fails(t, "idle")

\* too full, and somebody else is about to change that
WaitForTable(t) ==
    /\ Is(t, "place") /\ ~Roomy(t)
    /\ send' = [send EXCEPT ![t].main = Len(tables), ![t].pc = "grow"]
    /\ UNCHANGED <<tables, hashCount, resizing, producers, requests, failures, used>>

\* inner_enqueue(): into the sub-queue that was found
PutItem(t) ==
    /\ Is(t, "enqueue")
    /\ used' = [used EXCEPT ![t] = @ \cup {send[t].own}]
    /\ send' = [send EXCEPT ![t] = NotSending]
    /\ UNCHANGED <<tables, hashCount, resizing, producers, requests, failures>>

SenderStep(t) ==
    \/ FindProducer(t) \/ EnterKey(t) \/ CountProducer(t) \/ TryResize(t)
    \/ Resize(t) \/ DoubleCapacity(t) \/ NewTable(t) \/ NoTable(t) \/ ResizeDone(t) \/ Abandon(t)
    \/ AddProducer(t) \/ NoProducer(t) \/ WaitForTable(t) \/ PutItem(t)

HashNext == \E t \in Senders : SenderStep(t)
HashSpec == HashInit /\ [][HashNext]_hashVars
-----------------------------------------------------------------------------
(***************************************************************************)
(* Every thread has one sub-queue, its own, and there is no other, however *)
(* the table grows and whatever allocation fails; and every table keeps a  *)
(* free slot, without which the probing loops would not end                *)
(* (get_or_add_implicit_producer).                                         *)
(***************************************************************************)
OneProducerEach ==
    /\ \A t \in Senders : Cardinality(used[t]) <= 1
    /\ \A t, u \in Senders : t # u => used[t] \cap used[u] = {}
    /\ Cardinality(ToSet(producers)) = Len(producers)
    /\ Len(producers) <= Cardinality(Senders)
    /\ \A n \in 1..Len(tables) : \E i \in DOMAIN tables[n] : tables[n][i] = Free
=============================================================================

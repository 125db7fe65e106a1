------------------------------ MODULE SubQueue ------------------------------
(***************************************************************************)
(* One producer's part of the schedule queue (ImplicitProducer of          *)
(* concurrentqueue.h): a stream of items in blocks, a ring that finds the  *)
(* block of an index, one thread that enqueues and any number of threads   *)
(* that dequeue.  A dequeuer first announces itself in                     *)
(* dequeueOptimisticCount and takes an index only when there is an item    *)
(* for it; otherwise it repays in dequeueOvercommit.                       *)
(*                                                                         *)
(* Index arithmetic is modulo 2^w.  The items are handles, whose copies do *)
(* not throw.  Blocks come from and go to a set: that the free list never  *)
(* hands one out twice is FreeList's matter.  One action is one access to  *)
(* memory that another thread may change in between.                       *)
(***************************************************************************)
EXTENDS Naturals, Sequences, FiniteSets

CONSTANTS
    Eaters,          \* the threads that dequeue
    Modulus,         \* 2^w for the width w of index_t
    BLOCK_SIZE,
    IndexSize,       \* IMPLICIT_INITIAL_INDEX_SIZE
    SubBlocks,       \* bound: blocks there are
    MaxItems,        \* bound: items enqueued
    MaxRepaid        \* bound: dequeues that announced themselves for nothing

\* The sizes are powers of two (static_assert), an index is a size_t, and no
\* sub-queue lives to see half of its range.
ASSUME SubQueueAssumption ==
    /\ BLOCK_SIZE \in Nat /\ BLOCK_SIZE > 1
    /\ IndexSize \in Nat /\ IndexSize > 1
    /\ Modulus \in Nat \ {0} /\ Modulus % (IndexSize * BLOCK_SIZE) = 0
    /\ \A n \in 1..(Modulus - 1) : Modulus % n = 0 => Modulus % (2 * n) = 0
    /\ IsFiniteSet(Eaters) /\ MaxItems \in Nat /\ MaxRepaid \in Nat
    /\ MaxItems + MaxRepaid + Cardinality(Eaters) <= Modulus \div 2
    /\ SubBlocks \in Nat

VARIABLES
    tailIndex, headIndex, dequeueOptimisticCount, dequeueOvercommit,
    headers,             \* block indexes: [tail, index], the last is current
    entries,             \* entry of a block index: [key, value]
    content,             \* item in each slot of each block, 0 if none
    emptied,             \* elementsCompletelyDequeued of each block
    freeBlocks, tailBlock,
    ppc, idxEntry,       \* the producer
    items,               \* items enqueued so far: item n has index n - 1
    epc, eat,            \* the dequeuers: where they are, and their locals
    eaten,               \* how often each item came out
    gone                 \* the destructor has run

ringVars == <<tailIndex, headers, entries, content, emptied, freeBlocks, tailBlock>>
countVars == <<headIndex, dequeueOptimisticCount, dequeueOvercommit>>
producerVars == <<ppc, idxEntry, items>>
eaterVars == <<epc, eat, eaten>>
subVars == <<ringVars, countVars, producerVars, eaterVars, gone>>

NoKey == 1    \* INVALID_BLOCK_BASE: no multiple of the block size
Plus(a, b) == (a + b) % Modulus
Minus(a, b) == (a + Modulus - b) % Modulus
circular_less_than(a, b) == Minus(a, b) > Modulus \div 2
Base(i) == i - (i % BLOCK_SIZE)
NoBlock == 0
Rest == [tail |-> 0, over |-> 0, mine |-> 0, index |-> 0, header |-> 0,
         at |-> 0, entry |-> 0, block |-> 0]

\* new_block_index() in the constructor: an index with free entries only
SubInit ==
    /\ tailIndex = 0 /\ headIndex = 0
    /\ dequeueOptimisticCount = 0 /\ dequeueOvercommit = 0
    /\ entries = [n \in 1..IndexSize |-> [key |-> NoKey, value |-> NoBlock]]
    /\ headers = <<[tail |-> IndexSize - 1, index |-> [n \in 1..IndexSize |-> n]]>>
    /\ content = [b \in 1..SubBlocks |-> [s \in 0..(BLOCK_SIZE - 1) |-> 0]]
    /\ emptied = [b \in 1..SubBlocks |-> 0]
    /\ freeBlocks = 1..SubBlocks /\ tailBlock = NoBlock
    /\ ppc = "idle" /\ idxEntry = 0 /\ items = 0
    /\ epc = [d \in Eaters |-> "idle"] /\ eat = [d \in Eaters |-> Rest]
    /\ eaten = [n \in 1..MaxItems |-> 0]
    /\ gone = FALSE
-----------------------------------------------------------------------------
\* Enqueueing: ImplicitProducer::enqueue()

Header == headers[Len(headers)]
Capacity(h) == Len(h.index)
Wrapped(h, n) == (n % Capacity(h)) + 1
NextEntry(h) == h.index[Wrapped(h, h.tail + 1)]

\* the rest of a block is filled without looking at anything else
Construct ==
    /\ content' = [content EXCEPT ![tailBlock][tailIndex % BLOCK_SIZE] = items + 1]
    /\ ppc' = "publish"

EnqueueInBlock ==
    /\ ppc = "idle" /\ items < MaxItems /\ ~gone
    /\ tailIndex % BLOCK_SIZE # 0 /\ Construct
    /\ UNCHANGED <<tailIndex, headers, entries, emptied, freeBlocks,
                   tailBlock, countVars, idxEntry, items, eaterVars, gone>>

\* half the index range is the limit of a sub-queue
EnqueueNewBlock ==
    /\ ppc = "idle" /\ items < MaxItems /\ ~gone
    /\ tailIndex % BLOCK_SIZE = 0
    /\ circular_less_than(headIndex, Plus(tailIndex, BLOCK_SIZE))
    /\ ppc' = "insert"
    /\ UNCHANGED <<ringVars, countVars, idxEntry, items, eaterVars, gone>>

\* new_block_index(): the old entries from the oldest on, then as many new ones
Grown(h) == [tail |-> Capacity(h) - 1,
             index |-> [n \in 1..(2 * Capacity(h)) |->
                 IF n <= Capacity(h) THEN h.index[Wrapped(h, h.tail + n)]
                 ELSE Len(entries) + n - Capacity(h)]]
Unused(h) == [n \in 1..Capacity(h) |-> [key |-> NoKey, value |-> NoBlock]]

\* insert_block_index_entry(): the key, then the tail that makes it visible
KeyInto(e) ==
    /\ idxEntry' = e
    /\ ppc' = "advance"

InsertEntry ==
    /\ ppc = "insert"
    /\ LET e == NextEntry(Header)
       IN \/ /\ entries[e].key = NoKey \/ entries[e].value = NoBlock
             /\ entries' = [entries EXCEPT ![e].key = tailIndex]
             /\ KeyInto(e) /\ UNCHANGED headers
          \/ /\ entries[e].key # NoKey /\ entries[e].value # NoBlock
             /\ headers' = Append(headers, Grown(Header))
             /\ entries' = [entries \o Unused(Header)
                            EXCEPT ![Len(entries) + 1].key = tailIndex]
             /\ KeyInto(Len(entries) + 1)
          \/ /\ entries[e].key # NoKey /\ entries[e].value # NoBlock
             /\ ppc' = "idle"        \* no memory: enqueue() returns false
             /\ UNCHANGED <<headers, entries, idxEntry>>
    /\ UNCHANGED <<tailIndex, content, emptied, freeBlocks, tailBlock,
                   countVars, items, eaterVars, gone>>

MoveTail(n) == headers' = [headers EXCEPT ![Len(headers)].tail =
                              (@ + n) % Capacity(Header)]

AdvanceTail ==
    /\ ppc = "advance" /\ MoveTail(1) /\ ppc' = "block"
    /\ UNCHANGED <<tailIndex, entries, content, emptied, freeBlocks,
                   tailBlock, countVars, idxEntry, items, eaterVars, gone>>

\* requisition_block(), reset_empty(): which block it is makes no difference
GetBlock ==
    /\ ppc = "block" /\ freeBlocks # {}
    /\ LET b == CHOOSE x \in freeBlocks : \A y \in freeBlocks : x <= y
       IN /\ freeBlocks' = freeBlocks \ {b}
          /\ emptied' = [emptied EXCEPT ![b] = 0]
          /\ entries' = [entries EXCEPT ![idxEntry].value = b]
          /\ tailBlock' = b
    /\ idxEntry' = 0 /\ ppc' = "construct"
    /\ UNCHANGED <<tailIndex, headers, content, countVars, items, eaterVars, gone>>

\* none was given back and there is no memory: rewind_block_index_tail(), and
\* enqueue() returns false
NoNewBlock ==
    /\ ppc = "block" /\ \A b \in freeBlocks : emptied[b] = 0
    /\ MoveTail(Capacity(Header) - 1)
    /\ entries' = [entries EXCEPT ![idxEntry].value = NoBlock]
    /\ idxEntry' = 0 /\ ppc' = "idle"
    /\ UNCHANGED <<tailIndex, content, emptied, freeBlocks, tailBlock,
                   countVars, items, eaterVars, gone>>

ConstructFirst ==
    /\ ppc = "construct" /\ Construct
    /\ UNCHANGED <<tailIndex, headers, entries, emptied, freeBlocks,
                   tailBlock, countVars, idxEntry, items, eaterVars, gone>>

Publish ==
    /\ ppc = "publish"
    /\ tailIndex' = Plus(tailIndex, 1) /\ items' = items + 1 /\ ppc' = "idle"
    /\ UNCHANGED <<headers, entries, content, emptied, freeBlocks,
                   tailBlock, countVars, idxEntry, eaterVars, gone>>
-----------------------------------------------------------------------------
\* Dequeueing: ImplicitProducer::dequeue()

Eat(d, p, l) == epc' = [epc EXCEPT ![d] = p] /\ eat' = [eat EXCEPT ![d] = l]

LoadTail(d) ==
    /\ epc[d] = "idle" /\ ~gone /\ dequeueOvercommit < MaxRepaid
    /\ Eat(d, "over", [Rest EXCEPT !.tail = tailIndex])
    /\ UNCHANGED <<ringVars, countVars, producerVars, eaten, gone>>

LoadOvercommit(d) ==
    /\ epc[d] = "over"
    /\ Eat(d, "peek", [eat[d] EXCEPT !.over = dequeueOvercommit])
    /\ UNCHANGED <<ringVars, countVars, producerVars, eaten, gone>>

\* the cheap test that nothing is there
Peek(d) ==
    /\ epc[d] = "peek"
    /\ IF circular_less_than(Minus(dequeueOptimisticCount, eat[d].over), eat[d].tail)
       THEN Eat(d, "count", [eat[d] EXCEPT !.tail = 0])
       ELSE Eat(d, "idle", Rest)
    /\ UNCHANGED <<ringVars, countVars, producerVars, eaten, gone>>

CountMe(d) ==
    /\ epc[d] = "count"
    /\ dequeueOptimisticCount' = Plus(dequeueOptimisticCount, 1)
    /\ Eat(d, "check", [eat[d] EXCEPT !.mine = dequeueOptimisticCount])
    /\ UNCHANGED <<ringVars, headIndex, dequeueOvercommit,
                   producerVars, eaten, gone>>

CheckTail_without(d) ==
    /\ epc[d] = "check" /\ Eat(d, "head", Rest)
    /\ UNCHANGED <<ringVars, countVars, producerVars, eaten, gone>>

\* is there an item for as many as have announced themselves?
CheckTail(d) ==
    /\ epc[d] = "check"
    /\ Eat(d, IF circular_less_than(Minus(eat[d].mine, eat[d].over), tailIndex)
              THEN "head" ELSE "repay", Rest)
    /\ UNCHANGED <<ringVars, countVars, producerVars, eaten, gone>>

Repay(d) ==
    /\ epc[d] = "repay"
    /\ dequeueOvercommit' = Plus(dequeueOvercommit, 1) /\ Eat(d, "idle", Rest)
    /\ UNCHANGED <<ringVars, headIndex, dequeueOptimisticCount,
                   producerVars, eaten, gone>>

TakeIndex(d) ==
    /\ epc[d] = "head"
    /\ headIndex' = Plus(headIndex, 1)
    /\ Eat(d, "header", [Rest EXCEPT !.index = headIndex])
    /\ UNCHANGED <<ringVars, dequeueOptimisticCount, dequeueOvercommit,
                   producerVars, eaten, gone>>

\* get_block_index_index_for_index(): the index, its tail, the tail's key; the
\* offset is divided as an unsigned number
LoadHeader(d) ==
    /\ epc[d] = "header"
    /\ Eat(d, "slot", [eat[d] EXCEPT !.header = Len(headers)])
    /\ UNCHANGED <<ringVars, countVars, producerVars, eaten, gone>>

LoadSlot(d) ==
    /\ epc[d] = "slot"
    /\ Eat(d, "find", [eat[d] EXCEPT !.at = headers[eat[d].header].tail])
    /\ UNCHANGED <<ringVars, countVars, producerVars, eaten, gone>>

FindEntry(d) ==
    /\ epc[d] = "find"
    /\ LET h == headers[eat[d].header]
           tailBase == entries[h.index[eat[d].at + 1]].key
           offset == Minus(Base(eat[d].index), tailBase) \div BLOCK_SIZE
       IN Eat(d, "take", [eat[d] EXCEPT
                 !.entry = h.index[Wrapped(h, eat[d].at + offset)],
                 !.header = 0, !.at = 0])
    /\ UNCHANGED <<ringVars, countVars, producerVars, eaten, gone>>

\* the item is moved out and destroyed
TakeItem(d) ==
    /\ epc[d] = "take"
    /\ LET b == entries[eat[d].entry].value
           s == eat[d].index % BLOCK_SIZE
       IN /\ eaten' = [eaten EXCEPT ![content[b][s]] = @ + 1]
          /\ content' = [content EXCEPT ![b][s] = 0]
          /\ Eat(d, "empty", [eat[d] EXCEPT !.block = b, !.index = 0])
    /\ UNCHANGED <<tailIndex, headers, entries, emptied, freeBlocks,
                   tailBlock, countVars, producerVars, gone>>

\* set_empty(): whoever empties the last slot gives the block back
SetEmpty(d) ==
    /\ epc[d] = "empty"
    /\ emptied' = [emptied EXCEPT ![eat[d].block] = @ + 1]
    /\ IF emptied[eat[d].block] = BLOCK_SIZE - 1
       THEN Eat(d, "clear", eat[d]) ELSE Eat(d, "idle", Rest)
    /\ UNCHANGED <<tailIndex, headers, entries, content, freeBlocks,
                   tailBlock, countVars, producerVars, eaten, gone>>

ClearEntry(d) ==
    /\ epc[d] = "clear"
    /\ entries' = [entries EXCEPT ![eat[d].entry].value = NoBlock]
    /\ Eat(d, "free", [eat[d] EXCEPT !.entry = 0])
    /\ UNCHANGED <<tailIndex, headers, content, emptied, freeBlocks,
                   tailBlock, countVars, producerVars, eaten, gone>>

FreeBlock(d) ==
    /\ epc[d] = "free"
    /\ freeBlocks' = freeBlocks \cup {eat[d].block} /\ Eat(d, "idle", Rest)
    /\ UNCHANGED <<tailIndex, headers, entries, content, emptied,
                   tailBlock, countVars, producerVars, eaten, gone>>
-----------------------------------------------------------------------------
\* ~ImplicitProducer(): nobody is inside any more.  The blocks the loop passes
\* are freed, all but the last; the tail block goes by itself.
Resting == ppc = "idle" /\ \A d \in Eaters : epc[d] = "idle"
BlockOf(i) ==
    LET offset == Minus(Base(i), entries[Header.index[Header.tail + 1]].key)
                     \div BLOCK_SIZE
    IN entries[Header.index[Wrapped(Header, Header.tail + offset)]].value
Left == Minus(tailIndex, headIndex)
\* the block the loop had before it went on to the next
PassedBlocks == {BlockOf(Minus(Plus(headIndex, m), 1)) : m \in {k \in 1..Left :
              k < Left /\ Plus(headIndex, k) % BLOCK_SIZE = 0}}
LastBlock == IF tailBlock # NoBlock /\ (Left # 0 \/ tailIndex % BLOCK_SIZE # 0)
             THEN {tailBlock} ELSE {}

Destroy ==
    /\ Resting /\ ~gone
    /\ freeBlocks' = freeBlocks \cup PassedBlocks \cup LastBlock
    /\ gone' = TRUE
    /\ UNCHANGED <<tailIndex, headers, entries, content, emptied,
                   tailBlock, countVars, producerVars, eaterVars>>

Produce == \/ EnqueueInBlock \/ EnqueueNewBlock \/ InsertEntry \/ AdvanceTail
           \/ GetBlock \/ NoNewBlock \/ ConstructFirst \/ Publish
Consume(d) == \/ LoadTail(d) \/ LoadOvercommit(d) \/ Peek(d) \/ CountMe(d)
              \/ CheckTail(d) \/ Repay(d) \/ TakeIndex(d) \/ LoadHeader(d)
              \/ LoadSlot(d) \/ FindEntry(d) \/ TakeItem(d) \/ SetEmpty(d)
              \/ ClearEntry(d) \/ FreeBlock(d)

SubNext == Produce \/ Destroy \/ \E d \in Eaters : Consume(d)

SubSpec == SubInit /\ [][SubNext]_subVars
-----------------------------------------------------------------------------
\* the item a dequeuer that has found its entry is about to take
Found(d) == content[entries[eat[d].entry].value][eat[d].index % BLOCK_SIZE]

(***************************************************************************)
(* What is enqueued comes out once, in order, and none is left behind      *)
(* (ImplicitProducer::enqueue, dequeue, ~ImplicitProducer).  A dequeuer    *)
(* that has an index finds the block of that index, with the item that was *)
(* enqueued at that index still in it, whatever became of the block index  *)
(* since it read its tail; no item comes out twice; a block that is given  *)
(* back is not there already.  When nobody is inside, the announcements    *)
(* and their repayments agree with the head, so that the next dequeue      *)
(* finds what is there; and the destructor gives every block back.         *)
(***************************************************************************)
EachItemOnce ==
    /\ \A d \in Eaters :
          /\ epc[d] = "take" =>
                /\ entries[eat[d].entry].key = Base(eat[d].index)
                /\ entries[eat[d].entry].value # NoBlock
                /\ Found(d) # 0 /\ (Found(d) - 1) % Modulus = eat[d].index
          /\ epc[d] = "free" => eat[d].block \notin freeBlocks
    /\ \A n \in 1..MaxItems : eaten[n] <= 1
    /\ Resting =>
          /\ Minus(dequeueOptimisticCount, dequeueOvercommit) = headIndex
          /\ \A n \in 1..items : eaten[n] = (IF n <= items - Left THEN 1 ELSE 0)
    /\ gone => /\ freeBlocks = 1..SubBlocks
               /\ PassedBlocks \cap LastBlock = {}
=============================================================================

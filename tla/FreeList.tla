------------------------------ MODULE FreeList ------------------------------
(***************************************************************************)
(* Where the schedule queue gets its blocks (concurrentqueue.h): a pool    *)
(* made with the queue, then the lock-free free list, then the allocator.  *)
(*                                                                         *)
(* The list is a stack of blocks with a reference count per block.  The    *)
(* count has one unit for the list itself, one for every thread about to   *)
(* read the block's next pointer, and a high bit, SHOULD_BE_ON_FREELIST,   *)
(* that leaves the adding to whoever brings the count back to zero.  One   *)
(* action is one access to shared memory.  The accesses are sequentially   *)
(* consistent here; the weaker orders the code asks for are not modelled.  *)
(***************************************************************************)
EXTENDS Naturals, FiniteSets

CONSTANTS
    Takers,        \* threads that take and give back blocks
    PoolSize,      \* initialBlockPoolSize
    BlockCount,    \* bound: blocks there may be, the pool's included
    MaxTakes,      \* bound: calls of requisition_block()
    SHOULD         \* SHOULD_BE_ON_FREELIST, above any reference count

ASSUME FreeListAssumption ==
    /\ PoolSize \in Nat /\ BlockCount \in Nat /\ PoolSize <= BlockCount
    /\ IsFiniteSet(Takers)
    /\ SHOULD \in Nat /\ SHOULD > Cardinality(Takers) + 2

VARIABLES
    freeListHead,  \* 0 or a block
    refs,          \* freeListRefs of each block
    nextFree,      \* freeListNext of each block
    poolIndex,     \* initialBlockPoolIndex
    created,       \* blocks made so far, the pool's included
    users,         \* for each block, how many sub-queues think it is theirs
    fpc, takes,
    cur,           \* head in try_get()
    node,          \* prevHead in try_get(), the block being added
    sawRefs,       \* the reference count last read
    link           \* the next pointer last read, the head to add in front of

freeVars == <<freeListHead, refs, nextFree, poolIndex, created, users, fpc, takes,
              cur, node, sawRefs, link>>
shared == <<freeListHead, refs, nextFree, poolIndex, created, users>>

Blocks == 1..BlockCount
Outside == BlockCount + 1    \* cur of a thread that is not in try_get()

\* populate_initial_block_list(): the pool is one array
FreeListInit ==
    /\ freeListHead = 0
    /\ refs = [b \in Blocks |-> 0] /\ nextFree = [b \in Blocks |-> 0]
    /\ users = [b \in Blocks |-> 0]
    /\ poolIndex = 0 /\ created = PoolSize
    /\ fpc = [t \in Takers |-> "idle"] /\ takes = 0
    /\ cur = [t \in Takers |-> Outside] /\ node = [t \in Takers |-> 0]
    /\ sawRefs = [t \in Takers |-> 0] /\ link = [t \in Takers |-> 0]

Go(t, p) == fpc' = [fpc EXCEPT ![t] = p]
PcIs(t, p) == fpc[t] = p
Use(b) == users' = [users EXCEPT ![b] = @ + 1]

\* requisition_block(): first the initial pool, if it looks as if it had any
TryPool(t) ==
    /\ PcIs(t, "idle") /\ takes < MaxTakes
    /\ takes' = takes + 1
    /\ Go(t, IF poolIndex >= PoolSize THEN "load" ELSE "pool")
    /\ UNCHANGED <<shared, cur, node, sawRefs, link>>

TakeFromPool(t) ==
    /\ PcIs(t, "pool")
    /\ poolIndex' = poolIndex + 1
    /\ \/ poolIndex < PoolSize /\ Use(poolIndex + 1) /\ Go(t, "idle")
       \/ poolIndex >= PoolSize /\ Go(t, "load") /\ UNCHANGED users
    /\ UNCHANGED <<freeListHead, refs, nextFree, created, takes, cur, node, sawRefs, link>>

\* then try_get(), which loads the head
LoadHead(t) ==
    /\ PcIs(t, "load")
    /\ cur' = [cur EXCEPT ![t] = freeListHead]
    /\ Go(t, IF freeListHead = 0 THEN "create" ELSE "refs")
    /\ UNCHANGED <<shared, takes, node, sawRefs, link>>

\* a count without references is a block that somebody takes off or puts on
LoadRefs(t) ==
    /\ PcIs(t, "refs")
    /\ \/ /\ refs[cur[t]] % SHOULD = 0
          /\ Go(t, "load") /\ UNCHANGED sawRefs
       \/ /\ refs[cur[t]] % SHOULD # 0
          /\ sawRefs' = [sawRefs EXCEPT ![t] = refs[cur[t]]] /\ Go(t, "hold")
    /\ UNCHANGED <<shared, takes, cur, node, link>>

HoldHead_blind(t) ==
    /\ PcIs(t, "hold")
    /\ refs' = [refs EXCEPT ![cur[t]] = @ + 1] /\ Go(t, "next")
    /\ sawRefs' = [sawRefs EXCEPT ![t] = 0]
    /\ UNCHANGED <<freeListHead, nextFree, poolIndex, created, users, takes, cur, node, link>>

\* the reference is taken only if the count is still the one that was read
HoldHead(t) ==
    /\ PcIs(t, "hold")
    /\ \/ /\ refs[cur[t]] = sawRefs[t]
          /\ refs' = [refs EXCEPT ![cur[t]] = @ + 1] /\ Go(t, "next")
       \/ refs[cur[t]] # sawRefs[t] /\ Go(t, "load") /\ UNCHANGED refs
    /\ sawRefs' = [sawRefs EXCEPT ![t] = 0]
    /\ UNCHANGED <<freeListHead, nextFree, poolIndex, created, users, takes, cur, node, link>>

LoadNext(t) ==
    /\ PcIs(t, "next")
    /\ link' = [link EXCEPT ![t] = nextFree[cur[t]]] /\ Go(t, "take")
    /\ UNCHANGED <<shared, takes, cur, node, sawRefs>>

\* the exchange of the head; when it fails it leaves the new head in cur
TakeHead(t) ==
    /\ PcIs(t, "take")
    /\ \/ /\ freeListHead = cur[t]
          /\ freeListHead' = link[t] /\ Go(t, "taken")
          /\ UNCHANGED <<cur, node>>
       \/ /\ freeListHead # cur[t]
          /\ node' = [node EXCEPT ![t] = cur[t]]
          /\ cur' = [cur EXCEPT ![t] = freeListHead]
          /\ Go(t, "release") /\ UNCHANGED freeListHead
    /\ link' = [link EXCEPT ![t] = 0]
    /\ UNCHANGED <<refs, nextFree, poolIndex, created, users, takes, sawRefs>>

\* one reference is ours, one was the list's
KeepTaken(t) ==
    /\ PcIs(t, "taken")
    /\ refs' = [refs EXCEPT ![cur[t]] = @ - 2]
    /\ Use(cur[t]) /\ cur' = [cur EXCEPT ![t] = Outside] /\ Go(t, "idle")
    /\ UNCHANGED <<freeListHead, nextFree, poolIndex, created, takes, node, sawRefs, link>>

\* back to add()'s caller, or on in the loop of try_get() with the head it has
Continue(t) ==
    /\ Go(t, CASE cur[t] = Outside -> "idle" [] cur[t] = 0 -> "create"
                 [] OTHER -> "refs")
    /\ node' = [node EXCEPT ![t] = 0] /\ link' = [link EXCEPT ![t] = 0]

ReleaseHead(t) ==
    /\ PcIs(t, "release")
    /\ refs' = [refs EXCEPT ![node[t]] = @ - 1]
    /\ \/ /\ refs[node[t]] = SHOULD + 1
          /\ Go(t, "add") /\ UNCHANGED <<node, link>>
       \/ refs[node[t]] # SHOULD + 1 /\ Continue(t)
    /\ UNCHANGED <<freeListHead, nextFree, poolIndex, created, users, takes, cur, sawRefs>>

\* the list was empty: a new block, unless there is no memory
CreateBlock(t) ==
    /\ PcIs(t, "create") /\ Go(t, "idle")
    /\ \/ /\ created < BlockCount
          /\ created' = created + 1 /\ Use(created + 1)
       \/ UNCHANGED <<created, users>>
    /\ cur' = [cur EXCEPT ![t] = Outside]
    /\ UNCHANGED <<freeListHead, refs, nextFree, poolIndex, takes, node, sawRefs, link>>

\* add_block_to_free_list(), add(): by whoever empties the block
Add(t) == \E b \in Blocks :
    /\ PcIs(t, "idle") /\ users[b] > 0
    /\ users' = [users EXCEPT ![b] = @ - 1]
    /\ refs' = [refs EXCEPT ![b] = @ + SHOULD]
    /\ \/ /\ refs[b] = 0 /\ Go(t, "add")
          /\ node' = [node EXCEPT ![t] = b]
       \/ refs[b] # 0 /\ UNCHANGED <<fpc, node>>
    /\ UNCHANGED <<freeListHead, nextFree, poolIndex, created, takes, cur, sawRefs, link>>

\* add_knowing_refcount_is_zero(): read the head, point to it, become visible
AddLoadHead(t) ==
    /\ PcIs(t, "add")
    /\ link' = [link EXCEPT ![t] = freeListHead] /\ Go(t, "link")
    /\ UNCHANGED <<shared, takes, cur, node, sawRefs>>

AddLink(t) ==
    /\ PcIs(t, "link")
    /\ nextFree' = [nextFree EXCEPT ![node[t]] = link[t]] /\ Go(t, "count")
    /\ UNCHANGED <<freeListHead, refs, poolIndex, created, users, takes, cur, node, sawRefs, link>>

AddCount(t) ==
    /\ PcIs(t, "count")
    /\ refs' = [refs EXCEPT ![node[t]] = 1] /\ Go(t, "push")
    /\ UNCHANGED <<freeListHead, nextFree, poolIndex, created, users, takes, cur, node, sawRefs, link>>

AddPush(t) ==
    /\ PcIs(t, "push")
    /\ \/ freeListHead = link[t] /\ freeListHead' = node[t] /\ Continue(t)
       \/ /\ freeListHead # link[t]
          /\ link' = [link EXCEPT ![t] = freeListHead] /\ Go(t, "back")
          /\ UNCHANGED <<freeListHead, node>>
    /\ UNCHANGED <<refs, nextFree, poolIndex, created, users, takes, cur, sawRefs>>

AddBack(t) ==
    /\ PcIs(t, "back")
    /\ refs' = [refs EXCEPT ![node[t]] = @ + (SHOULD - 1)]
    /\ \/ refs[node[t]] = 1 /\ Go(t, "link") /\ UNCHANGED <<node, link>>
       \/ refs[node[t]] # 1 /\ Continue(t)
    /\ UNCHANGED <<freeListHead, nextFree, poolIndex, created, users, takes, cur, sawRefs>>

TakerStep(t) ==
    \/ TryPool(t) \/ TakeFromPool(t) \/ LoadHead(t) \/ LoadRefs(t)
    \/ HoldHead(t) \/ LoadNext(t) \/ TakeHead(t) \/ KeepTaken(t)
    \/ ReleaseHead(t) \/ CreateBlock(t) \/ Add(t) \/ AddLoadHead(t)
    \/ AddLink(t) \/ AddCount(t) \/ AddPush(t) \/ AddBack(t)

FreeListNext == \E t \in Takers : TakerStep(t)
FreeListSpec == FreeListInit /\ [][FreeListNext]_freeVars
-----------------------------------------------------------------------------
\* the blocks of the list: all that following the pointers from the head on
\* comes to
NextClosed(S) ==
    /\ freeListHead # 0 => freeListHead \in S
    /\ \A b \in S : nextFree[b] # 0 => nextFree[b] \in S
Listed == {b \in Blocks : \A S \in SUBSET Blocks : NextClosed(S) => b \in S}

Quiet == \A t \in Takers : fpc[t] \in {"idle", "create", "pool", "load"}

(***************************************************************************)
(* No block of the schedule queue has two owners, and none gets lost       *)
(* (FreeList::try_get, add): a block is in use by one sub-queue at most,   *)
(* and one in use is not on the list, however the takes and the adds that  *)
(* failed halfway interleave; the assertion in try_get() holds (a block    *)
(* that was on the list is not one that should be put there); and when     *)
(* nobody is between two steps of the list, every block that was made is   *)
(* in the pool, in use or on the list, with a reference count to match.    *)
(***************************************************************************)
BlocksHaveOneOwner ==
    /\ \A b \in Blocks : users[b] <= 1 /\ (b \in Listed => users[b] = 0)
    /\ \A t \in Takers : PcIs(t, "taken") => refs[cur[t]] < SHOULD
    /\ Quiet => \A b \in 1..created :
          b > PoolSize \/ b <= poolIndex =>
             refs[b] = 1 - users[b] /\ (b \in Listed <=> users[b] = 0)
=============================================================================

------------------------------ MODULE MillList ------------------------------
(***************************************************************************)
(* The intrusive doubly linked list of libs/async/src/list.cpp, on which   *)
(* every event loop keeps its timers.  A list is a record of two pointers; *)
(* the links of all items are a record m of two functions next and prev.   *)
(* The operators are total: they say what the code does to the pointers    *)
(* also when the item is not on the list.                                  *)
(***************************************************************************)
CONSTANTS Items,   \* the items that can be linked
          None     \* the NULL pointer, not one of them

Pointers == Items \cup {None}

Lists == [first : Pointers, last : Pointers]

Links == [next : [Items -> Pointers], prev : [Items -> Pointers]]

EmptyList == [first |-> None, last |-> None]

Unlinked == [next |-> [i \in Items |-> None], prev |-> [i \in Items |-> None]]

\* Sets the pointer of item i, if there is an item.
Point(f, i, to) == IF i \in Items THEN [f EXCEPT ![i] = to] ELSE f

\* item->prev and item->next are both NULL: the state of a fresh item.
Fresh(m, i) == [next |-> [m.next EXCEPT ![i] = None],
                prev |-> [m.prev EXCEPT ![i] = None]]

\* mill_list_insert: the links, and then the list, after item went in before
\* it (at the end when it is NULL).
InsertPrev(s, m, it) == IF it \in Items THEN m.prev[it] ELSE s.last

InsertLinks(s, m, item, it) ==
    LET before == InsertPrev(s, m, it) IN
    [next |-> Point([m.next EXCEPT ![item] = it], before, item),
     prev |-> Point([m.prev EXCEPT ![item] = before], it, item)]

InsertListTail(s, item, it) ==   \* mutant: first is not moved
    [first |-> IF s.first = None THEN item ELSE s.first,
     last  |-> IF it = None THEN item ELSE s.last]
InsertList(s, item, it) ==
    [first |-> IF s.first \in {None, it} THEN item ELSE s.first,
     last  |-> IF it = None THEN item ELSE s.last]

\* mill_list_erase: the neighbours of item are linked to each other, and a
\* missing neighbour is taken to mean that item is an end of this list.
EraseLinks(m, item) ==
    LET n == Point(m.next, m.prev[item], m.next[item])
        p == Point(m.prev, m.next[item], m.prev[item]) IN
    [next |-> [n EXCEPT ![item] = None], prev |-> [p EXCEPT ![item] = None]]

EraseList(s, m, item) ==
    [first |-> IF m.prev[item] = None THEN m.next[item] ELSE s.first,
     last  |-> IF m.next[item] = None THEN m.prev[item] ELSE s.last]

\* The items that a walk with mill_list_begin and mill_list_next meets as long
\* as it meets items of the set T: the least set with the first item and the
\* successors of its members.
Walked(s, m, T) ==
    {i \in T : \A S \in SUBSET T :
        /\ s.first \in T => s.first \in S
        /\ \A j \in S : m.next[j] \in T => m.next[j] \in S
        => i \in S}

OnList(s, m) == Walked(s, m, Items)

\* Where that walk stops: at an item outside T, or at NULL behind the last one.
Stops(s, m, T) ==
    ({s.first} \cup {m.next[i] : i \in Walked(s, m, T)}) \ T

\* The list is well formed: links are inverse to each other, and both ends are
\* where the list says.
Intact(s, m) ==
    LET on == OnList(s, m) IN
    /\ s.first \in Items => m.prev[s.first] = None
    /\ \A i \in on : m.next[i] \in Items => m.prev[m.next[i]] = i
    /\ s.last \in {i \in on : m.next[i] = None} \cup {i \in {None} : on = {}}
=============================================================================

---------------------------- MODULE LinkedQueue ----------------------------
(***************************************************************************)
(* class queue of queue.cc: a singly linked list behind a sentinel cell.   *)
(* front is the sentinel, rear the last cell; the queue is empty when they *)
(* are the same.  new NODE returns any cell that is not allocated, so a    *)
(* cell that was deleted comes back with its old next and data fields.     *)
(***************************************************************************)
EXTENDS Naturals, Sequences, FiniteSets

CONSTANTS Cell,     \* the addresses new NODE may return
          Datum,    \* the char* that are queued
          NULL      \* the null pointer

ASSUME NullIsNoCell == NULL \notin Cell \cup Datum
ASSUME MemoryIsFinite == IsFiniteSet(Cell)

VARIABLES
    front, rear,    \* the two pointers of the object
    next, data,     \* the fields of every cell
    allocated,      \* the cells new has returned and delete has not taken back
    ret,            \* what the last call returned
    alive           \* FALSE once the destructor has run

qVars == <<front, rear, next, data, allocated, ret, alive>>

\* The constructor: one cell, both front and rear, its data never written.
Init ==
    /\ front \in Cell
    /\ rear = front
    /\ next \in {[c \in Cell |-> NULL]}
    /\ data \in {[c \in Cell |-> d] : d \in Datum}
    /\ allocated = {front}
    /\ ret = NULL
    /\ alive = TRUE

\* Mutants of Push: the new cell keeps its old link, or goes to the front.
PushStaleNext(e) ==
    \E p \in Cell \ allocated :
        /\ allocated' = allocated \cup {p}
        /\ data' = [data EXCEPT ![p] = e]
        /\ next' = [next EXCEPT ![rear] = p]
        /\ rear' = p
        /\ UNCHANGED <<front, ret, alive>>

PushAtFront(e) ==
    \E p \in Cell \ allocated :
        /\ allocated' = allocated \cup {p}
        /\ data' = [data EXCEPT ![p] = e]
        /\ next' = [next EXCEPT ![p] = next[front], ![front] = p]
        /\ rear' = IF rear = front THEN p ELSE rear
        /\ UNCHANGED <<front, ret, alive>>

Push(e) ==
    \E p \in Cell \ allocated :
        /\ allocated' = allocated \cup {p}
        /\ data' = [data EXCEPT ![p] = e]
        /\ next' = [next EXCEPT ![p] = NULL, ![rear] = p]
        /\ rear' = p
        /\ UNCHANGED <<front, ret, alive>>

PopEmpty ==
    /\ front = rear
    /\ ret' = NULL
    /\ UNCHANGED <<front, rear, next, data, allocated, alive>>

PopFirst ==
    /\ front # rear
    /\ LET p == next[front]
       IN  /\ next' = [next EXCEPT ![front] = next[p]]
           /\ ret' = data[p]
           /\ rear' = IF rear = p THEN front ELSE rear
           /\ allocated' = allocated \ {p}
    /\ UNCHANGED <<front, data, alive>>

FrontElement ==
    /\ ret' = IF front = rear THEN NULL ELSE data[next[front]]
    /\ UNCHANGED <<front, rear, next, data, allocated, alive>>

BackElement ==
    /\ ret' = IF front = rear THEN NULL ELSE data[rear]
    /\ UNCHANGED <<front, rear, next, data, allocated, alive>>

\* The cell k links behind the sentinel, NULL once the list has ended.
CellAt(k) ==
    LET at[i \in 0 .. k] == IF i = 0 THEN front
                            ELSE IF at[i - 1] = NULL THEN NULL ELSE next[at[i - 1]]
    IN  at[k]

\* size() walks from front until it meets rear.
Length ==
    CHOOSE k \in 0 .. Cardinality(Cell) :
        CellAt(k) = rear /\ \A i \in 0 .. k - 1 : CellAt(i) # rear

Size ==
    /\ ret' = <<"size", Length>>
    /\ UNCHANGED <<front, rear, next, data, allocated, alive>>

Empty ==
    /\ ret' = <<"empty", front = rear>>
    /\ UNCHANGED <<front, rear, next, data, allocated, alive>>

\* The destructor deletes the sentinel and the last cell, and nothing between.
Destroy ==
    /\ allocated' = allocated \ {front, rear}
    /\ alive' = FALSE
    /\ UNCHANGED <<front, rear, next, data, ret>>

Next ==
    /\ alive
    /\ \/ \E e \in Datum : Push(e)
       \/ PopEmpty
       \/ PopFirst
       \/ FrontElement
       \/ BackElement
       \/ Size
       \/ Empty
       \/ Destroy

Spec == Init /\ [][Next]_qVars

-----------------------------------------------------------------------------
\* The content of the queue: the data behind the sentinel, in link order.
Items == IF alive THEN [k \in 1 .. Length |-> data[CellAt(k)]] ELSE <<>>

\* While the queue lives, the allocated cells are exactly those of the list:
\* no pop leaks a cell, and no link or pointer dangles, rear included.
NoLeakNoDangle ==
    alive => /\ allocated = {CellAt(k) : k \in 0 .. Length}
             /\ next[rear] = NULL

\* The linked list implements the first-in first-out queue, whatever cells new
\* returns and however calls are mixed.
Fifo == INSTANCE FifoQueue WITH items <- Items
FifoSpec == Fifo!Spec
=============================================================================

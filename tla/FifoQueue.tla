----------------------------- MODULE FifoQueue -----------------------------
(***************************************************************************)
(* What class queue promises its caller: first in, first out.  items is    *)
(* the content and ret what the last call returned (size() and empty()     *)
(* return a number and a Boolean: they are tagged to keep them apart from  *)
(* the pointers).                                                          *)
(***************************************************************************)
EXTENDS Naturals, Sequences

CONSTANTS Datum,    \* the char* that are queued
          NULL      \* the null pointer

VARIABLES items, ret, alive

Init == items = <<>> /\ ret = NULL /\ alive = TRUE

Push(e) == items' = Append(items, e) /\ UNCHANGED ret

Pop == IF items = <<>> THEN ret' = NULL /\ UNCHANGED items
       ELSE ret' = Head(items) /\ items' = Tail(items)

FrontElement ==
    /\ ret' = IF items = <<>> THEN NULL ELSE Head(items)
    /\ UNCHANGED items

BackElement ==
    /\ ret' = IF items = <<>> THEN NULL ELSE items[Len(items)]
    /\ UNCHANGED items

Size == ret' = <<"size", Len(items)>> /\ UNCHANGED items

Empty == ret' = <<"empty", items = << >> >> /\ UNCHANGED items

Destroy == alive' = FALSE /\ items' = <<>> /\ UNCHANGED ret

Next == /\ alive
        /\ \/ Destroy
           \/ /\ \/ \E e \in Datum : Push(e)
                 \/ Pop \/ FrontElement \/ BackElement \/ Size \/ Empty
              /\ UNCHANGED alive

Spec == Init /\ [][Next]_<<items, ret, alive>>
=============================================================================

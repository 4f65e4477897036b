---------------------------- MODULE BoundedFifo -----------------------------
(***************************************************************************)
(* What the queue of queue.rs promises its users, without tasks, wakers or *)
(* permits: values leave in the order they entered, one enters only while  *)
(* the queue is below both its limits, and the end is seen once every      *)
(* producer is gone and everything was taken.                              *)
(***************************************************************************)
EXTENDS Integers, Sequences

CONSTANTS MaxValues, MaxBytes, Sizes

VARIABLES items,      \* what was put and not yet taken, numbered as it was put
          bytes,      \* their size
          put,        \* how many were put
          taken,      \* the number of the last that was taken
          producing,  \* whether a producer is left
          consumer    \* "reading", "ended" once it saw the end, or "gone"

fifo == <<items, bytes, put, taken, producing, consumer>>

Init ==
    /\ items = <<>> /\ bytes = 0 /\ put = 0 /\ taken = 0
    /\ producing = TRUE /\ consumer = "reading"

(* The limits, on whether a value enters: one of any size does, below them. *)
Put(size) ==
    /\ producing /\ consumer = "reading"
    /\ Len(items) < MaxValues /\ bytes < MaxBytes
    /\ items' = Append(items, [id |-> put + 1, size |-> size])
    /\ bytes' = bytes + size
    /\ put' = put + 1
    /\ UNCHANGED <<taken, producing, consumer>>

Take ==
    /\ consumer = "reading" /\ items # <<>>
    /\ items' = Tail(items)
    /\ bytes' = IF bytes > Head(items).size THEN bytes - Head(items).size ELSE 0
    /\ taken' = Head(items).id
    /\ UNCHANGED <<put, producing, consumer>>

(* The last producer leaves. *)
Finish ==
    /\ producing /\ producing' = FALSE
    /\ UNCHANGED <<items, bytes, put, taken, consumer>>

(* The consumer learns that nothing will come. *)
End ==
    /\ consumer = "reading" /\ items = <<>> /\ ~producing
    /\ consumer' = "ended"
    /\ UNCHANGED <<items, bytes, put, taken, producing>>

(* The consumer leaves, and what it did not take is lost. *)
Leave ==
    /\ consumer # "gone" /\ consumer' = "gone"
    /\ items' = <<>> /\ bytes' = 0
    /\ UNCHANGED <<put, taken, producing>>

Next == (\E size \in Sizes : Put(size)) \/ Take \/ Finish \/ End \/ Leave

Spec == Init /\ [][Next]_fifo

=============================================================================

--------------------------- MODULE JournalConsumer ---------------------------
(***************************************************************************)
(* What a Source window consumer promises: the journal grows at its end    *)
(* and the consumer moves over it in order, without a gap and without a    *)
(* second pass, at most Limit positions at a time and never past the end.  *)
(***************************************************************************)
EXTENDS Naturals

CONSTANT Limit

VARIABLES head, done

vars == <<head, done>>

Init == head \in Nat /\ done = 0

Append == head' = head + 1 /\ done' = done

Consume ==
    /\ done < done'
    /\ done' <= head
    /\ done' <= done + Limit
    /\ head' = head

Next == Append \/ Consume

Spec == Init /\ [][Next]_vars
=============================================================================

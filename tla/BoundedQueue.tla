---------------------------- MODULE BoundedQueue ----------------------------
(***************************************************************************)
(* What the key ring of src/ffi/mod.rs promises: a first-in first-out      *)
(* queue of at most Cap events that drops the newest event when it is full.*)
(***************************************************************************)
EXTENDS Naturals, Sequences

CONSTANTS Event, Cap

VARIABLE q

Init == q = <<>>

Push(e) == q' = IF Len(q) < Cap THEN Append(q, e) ELSE q

Pop == q # <<>> /\ q' = Tail(q)

Next == Pop \/ \E e \in Event : Push(e)

Spec == Init /\ [][Next]_q
=============================================================================

-------------------------------- MODULE Fifo --------------------------------
(***************************************************************************)
(* What a ring buffer promises its users: a bounded queue.  A put that     *)
(* finds it full is refused and reported, and is the only thing ever lost. *)
(***************************************************************************)
EXTENDS Integers, Sequences

CONSTANTS Items, Capacity

VARIABLES
  queue,  \* what was put and not yet taken, oldest first
  rc,     \* what the last put returned
  got     \* what the last get or peek returned

vars == <<queue, rc, got>>

Init == queue = <<>> /\ rc = 0 /\ got \in Items

Put(x) ==
  /\ Len(queue) < Capacity
  /\ queue' = Append(queue, x) /\ rc' = 0
  /\ UNCHANGED got

PutRefused ==
  /\ Len(queue) = Capacity
  /\ rc' = -1
  /\ UNCHANGED <<queue, got>>

Get ==
  /\ queue # <<>>
  /\ got' = Head(queue) /\ queue' = Tail(queue)
  /\ UNCHANGED rc

Peek ==
  /\ queue # <<>>
  /\ got' = Head(queue)
  /\ UNCHANGED <<queue, rc>>

Clear == queue' = <<>> /\ UNCHANGED <<rc, got>>

Next == (\E x \in Items : Put(x)) \/ PutRefused \/ Get \/ Peek \/ Clear

Spec == Init /\ [][Next]_vars
=============================================================================

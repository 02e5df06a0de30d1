----------------------------- MODULE FifoQueue -----------------------------
(***************************************************************************)
(* What the queues of the C thread pool and of 3_pool/queue_design-master  *)
(* promise their users: an item that is put is taken by one of them, once, *)
(* after those that were put before.  A user holds one item at a time.     *)
(***************************************************************************)
EXTENDS Naturals, Sequences

CONSTANTS Users, Items, NULL

VARIABLES
  queue,   \* the items put and not taken, oldest first
  out      \* the item each user has taken and still holds

vars == <<queue, out>>

Init == queue = <<>> /\ out = [u \in Users |-> NULL]

Put(i) ==
  /\ \A k \in 1 .. Len(queue) : queue[k] # i
  /\ \A u \in Users : out[u] # i
  /\ queue' = Append(queue, i)
  /\ UNCHANGED out

Take(u) ==
  /\ queue # <<>> /\ out[u] = NULL
  /\ out' = [out EXCEPT ![u] = Head(queue)]
  /\ queue' = Tail(queue)

Drop(u) ==
  /\ out' = [out EXCEPT ![u] = NULL]
  /\ UNCHANGED queue

Next == (\E i \in Items : Put(i)) \/ (\E u \in Users : Take(u) \/ Drop(u))

Spec == Init /\ [][Next]_vars
=============================================================================

------------------------------- MODULE Queue -------------------------------
(***************************************************************************)
(* queue.c: a process queue is an array of at most MAX_QUEUE_SIZE pcb      *)
(* pointers, used in FIFO order.  A queue is a sequence of processes here. *)
(***************************************************************************)
EXTENDS Lists

CONSTANT MAX_QUEUE_SIZE      \* queue.h: 100

ASSUME QueueAssumption == MAX_QUEUE_SIZE \in Nat \ {0}

empty(q) == q = <<>>

\* An enqueue without the capacity test of queue.c:14.
enqueue_unchecked(q, p) == Append(q, p)

\* The capacity test off by one.
enqueue_early(q, p) == IF Len(q) >= MAX_QUEUE_SIZE - 1 THEN q ELSE Append(q, p)

\* A full queue drops the process: the caller is not told.
enqueue(q, p) == IF Len(q) >= MAX_QUEUE_SIZE THEN q ELSE Append(q, p)

\* dequeue() takes the head out and shifts the rest.
dequeue_head(q) == Head(q)
dequeue_rest(q) == Tail(q)

\* remove_from_queue() finds nothing: a wrong comparison of pointers.
remove_nothing(q, p) == q

\* The index of the first entry equal to p.
position(q, p) ==
    CHOOSE k \in 1 .. Len(q) : q[k] = p /\ \A l \in 1 .. k - 1 : q[l] # p

\* remove_from_queue() takes the first entry equal to p out, if there is one,
\* and keeps the order of the others.
remove_from_queue(q, p) ==
    IF InQueue(q, p)
    THEN SubSeq(q, 1, position(q, p) - 1) \o SubSeq(q, position(q, p) + 1, Len(q))
    ELSE q
=============================================================================

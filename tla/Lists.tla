------------------------------- MODULE Lists -------------------------------
(* The arrays and linked lists of the program are sequences in the modules. *)
EXTENDS Naturals, Sequences

InQueue(q, x) == \E k \in 1 .. Len(q) : q[k] = x

NoDuplicates(q) == \A k, l \in 1 .. Len(q) : q[k] = q[l] => k = l
=============================================================================

------------------------------ MODULE PktOrder ------------------------------
(***************************************************************************)
(* The packet queue as a queue: what the steps of PktQueue do to the       *)
(* sequence of packets one reads along next.                               *)
(***************************************************************************)
EXTENDS PktQueue

\* What one finds at each place from front on.
At == LET at[i \in 1 .. (Cardinality(Pkt) + 1)] ==
            LET p == IF i = 1 THEN front ELSE at[i - 1]
            IN IF p = NULL \/ i = 1 THEN p ELSE next[p]
      IN at

\* The packets of the queue in the order of next.
Chain == SelectSeq(At, Used)

\* The packets not yet linked, for the abstract queue.
Pending == IF pc \in {"add_front", "add_prior", "add_link"}
           THEN {pkt_temp} ELSE {}

Added == {p \in Pkt : heap[p] # "unused"} \ Pending

List == INSTANCE PktList WITH queue <- Chain, added <- Added

(***************************************************************************)
(* The pointers implement a queue until a handler comes inside main's      *)
(* steps: a packet joins at the end, once, and any one leaves without      *)
(* disturbing the order of the others.                                     *)
(***************************************************************************)
ListSpec == /\ List!Init
            /\ [][interrupted' \/ List!Next \/ UNCHANGED <<Chain, Added>>]_vars
=============================================================================

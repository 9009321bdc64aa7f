----------------------------- MODULE CollOrder -----------------------------
(***************************************************************************)
(* The lists of collision nodes as queues: what the steps of CollList do   *)
(* to the sequence of nodes one reads along next.                          *)
(***************************************************************************)
EXTENDS CollList

\* The nodes of a list in the order of next.
Found(x) == LET at[k \in 1 .. (Cardinality(Node) + 1)] ==
                  LET n == IF k = 1 THEN front[x] ELSE at[k - 1]
                  IN IF n = NULL \/ k = 1 THEN n ELSE next[n]
            IN at

Chain(x) == SelectSeq(Found(x), Used)

\* The node not yet linked, for the abstract queue.
Pending == IF pc["main"] \in {"add_front", "add_prior", "add_link"}
           THEN {It} ELSE {}

Added(x) == {n \in Node : heap[n] # "unused" /\ key[n] = x} \ Pending

List(x) == INSTANCE PktList WITH Pkt <- Node, queue <- Chain(x),
                                 added <- Added(x)

\* Every list is a queue (PktList): a node joins its own list at the end, once,
\* and any one leaves without disturbing the order of the others.
ListSpec ==
  /\ \A x \in Index : List(x)!Init
  /\ [][\A x \in Index :
          List(x)!Next \/ UNCHANGED <<Chain(x), Added(x)>>]_vars
=============================================================================

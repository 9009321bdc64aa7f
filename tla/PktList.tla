------------------------------ MODULE PktList ------------------------------
(***************************************************************************)
(* What a packet queue promises: packets wait in the order in which they   *)
(* came, each is added once, and any of them may leave.                    *)
(***************************************************************************)
EXTENDS SequencesExt

CONSTANT Pkt

VARIABLES queue, added

Init == queue = <<>> /\ added = {}

Add(p) == /\ p \notin added
          /\ queue' = Append(queue, p) /\ added' = added \cup {p}

Delete(p) == /\ p \in ToSet(queue)
             /\ queue' = Remove(queue, p)
             /\ UNCHANGED added

Next == \E p \in Pkt : Add(p) \/ Delete(p)

Spec == Init /\ [][Next]_<<queue, added>>
=============================================================================

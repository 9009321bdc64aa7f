----------------------------- MODULE MCDelayMap -----------------------------
(***************************************************************************)
(* DelayMap with the constants of dly_map_man.h for a network of three     *)
(* nodes: neighbours next to each other, and neighbours at almost the      *)
(* maximum distance on either side.                                        *)
(***************************************************************************)
EXTENDS DelayMap

\* Delays between nodes 1 and 2, 1 and 3, 2 and 3.
Delays(a, b, c) ==
  [p \in {{1, 2}, {1, 3}, {2, 3}} |->
     IF p = {1, 2} THEN a ELSE IF p = {1, 3} THEN b ELSE c]

MCTopology == {Delays(25, 25, 25), Delays(20, 165, 150), Delays(160, 20, 150)}
MCSteps == {90}
============================================================================

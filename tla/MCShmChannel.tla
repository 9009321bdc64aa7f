---------------------------- MODULE MCShmChannel ----------------------------
(* Values of the constants of ShmChannel for TLC: a control frame fills the *)
(* first word of the cell, a frame with data both.                          *)
EXTENDS ShmChannel

CONSTANTS cfrm, pkt

MCSize == [m \in Msg |-> IF m = cfrm THEN 1 ELSE 2]
=============================================================================

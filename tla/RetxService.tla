---------------------------- MODULE RetxService ----------------------------
(***************************************************************************)
(* What the packet queues of a MAC process promise to the layer above,     *)
(* without handshakes, timers or queues: a packet is tried at most         *)
(* MaxTries times; a try fails or is acknowledged; a packet that was       *)
(* acknowledged is never tried again and leaves; a packet leaves           *)
(* unacknowledged only when all its tries are used up.                     *)
(***************************************************************************)
EXTENDS Naturals

CONSTANTS Packet, MaxTries

VARIABLES phase, tries

serviceVars == <<phase, tries>>

Phase == {"absent", "waiting", "trying", "acked", "gone"}

Init == /\ phase = [p \in Packet |-> "absent"]
        /\ tries = [p \in Packet |-> 0]

Move(p, from, to) == /\ phase[p] = from
                     /\ phase' = [phase EXCEPT ![p] = to]

Accept(p)  == Move(p, "absent", "waiting") /\ UNCHANGED tries
Try(p)     == /\ Move(p, "waiting", "trying")
              /\ tries[p] < MaxTries
              /\ tries' = [tries EXCEPT ![p] = @ + 1]
Fail(p)    == Move(p, "trying", "waiting") /\ UNCHANGED tries
Confirm(p) == Move(p, "trying", "acked") /\ UNCHANGED tries
Leave(p)   == Move(p, "acked", "gone") /\ UNCHANGED tries
GiveUp(p)  == /\ Move(p, "waiting", "gone")
              /\ tries[p] = MaxTries
              /\ UNCHANGED tries

Next == \E p \in Packet : \/ Accept(p) \/ Try(p) \/ Fail(p)
                          \/ Confirm(p) \/ Leave(p) \/ GiveUp(p)

Spec == Init /\ [][Next]_serviceVars
============================================================================

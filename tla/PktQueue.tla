------------------------------ MODULE PktQueue ------------------------------
(***************************************************************************)
(* One packet queue of node_man[] with its pointers: add_pkt, del_pkt and  *)
(* del_node_manager (pktq_man.c), the walk of main over the queue          *)
(* (Mac_layer.c) and the handlers that delete, back off and release        *)
(* packets (axidma_DOTS.c).                                                *)
(*                                                                         *)
(* main runs one assignment per step.  A handler runs as a whole, between  *)
(* any two steps of main; some properties hold only until one comes inside *)
(* a call of add_pkt or the walk (interrupted).  The state vector of a     *)
(* packet is reduced to the state main and the handlers look for           *)
(* (PacketState and DotsMac have the vector).  Memory is never used for a  *)
(* second packet, so that a use of freed memory shows; the program is      *)
(* undefined from there, and the model stops.                              *)
(*                                                                         *)
(* A definition named Op_Suffix is operator Op with a plausible bug; the   *)
(* properties are tried against it.                                        *)
(***************************************************************************)
EXTENDS Integers, FiniteSets, Sequences

CONSTANTS
  Pkt, NULL,
  MAX_RETX_NUM

ASSUME PktAssumption == IsFiniteSet(Pkt)
ASSUME NullAssumption == NULL \notin Pkt
ASSUME RetxAssumption == MAX_RETX_NUM \in Nat \ {0}

VARIABLES
  heap,                     \* [Pkt -> {"unused", "used", "freed"}]
  prior, next, stat, tries, \* the members of a packet
  front, rear, update_stat, \* node_man[i]
  pc, pkt_temp, temp,       \* where main is, its two pointers
  load, job,                \* update_stat as read, what is being counted
  fault,                    \* where freed memory or NULL was used, or "none"
  interrupted               \* a handler has run while main was not idle

ptrVars  == <<prior, next, front, rear>>
pktVars  == <<heap, stat, tries>>
mainVars == <<pkt_temp, temp, load, job>>
vars     == <<ptrVars, pktVars, update_stat, pc, mainVars, fault,
              interrupted>>

Pointer == Pkt \cup {NULL}

Init == /\ heap = [p \in Pkt |-> "unused"]
        /\ prior = [p \in Pkt |-> NULL] /\ next = [p \in Pkt |-> NULL]
        /\ stat = [p \in Pkt |-> "unsent"] /\ tries = [p \in Pkt |-> 0]
        /\ front = NULL /\ rear = NULL /\ update_stat = 0
        /\ pc = "idle" /\ pkt_temp = NULL /\ temp = NULL
        /\ load = 0 /\ job = "none" /\ fault = "none"
        /\ interrupted = FALSE

Used(p) == p \in Pkt /\ heap[p] = "used"

----------------------------------------------------------------------------
(***************************************************************************)
(* add_pkt.                                                                *)
(***************************************************************************)
AddPkt(p) == /\ pc = "idle" /\ heap[p] = "unused"
             /\ heap' = [heap EXCEPT ![p] = "used"]
             /\ pkt_temp' = p /\ job' = "add"
             /\ pc' = IF front = NULL THEN "add_front" ELSE "add_prior"
             /\ UNCHANGED <<ptrVars, stat, tries, update_stat, temp, load>>

SetFront == /\ pc = "add_front" /\ pc' = "add_first"
            /\ front' = pkt_temp
            /\ UNCHANGED <<prior, next, rear, pktVars, update_stat, mainVars>>

SetRearToFront == /\ pc = "add_first" /\ pc' = "load"
                  /\ rear' = front
                  /\ UNCHANGED <<prior, next, front, pktVars, update_stat,
                                 mainVars>>

SetPrior_Forgotten ==
  /\ pc = "add_prior" /\ pc' = "add_link"
  /\ UNCHANGED <<ptrVars, pktVars, update_stat, mainVars>>

SetPrior == /\ pc = "add_prior" /\ pc' = "add_link"
            /\ prior' = [prior EXCEPT ![pkt_temp] = rear]
            /\ UNCHANGED <<next, front, rear, pktVars, update_stat, mainVars>>

LinkRear == /\ pc = "add_link" /\ Used(rear) /\ pc' = "add_rear"
            /\ next' = [next EXCEPT ![rear] = pkt_temp]
            /\ UNCHANGED <<prior, front, rear, pktVars, update_stat, mainVars>>

SetRear_Forgotten ==
  /\ pc = "add_rear" /\ pc' = "load"
  /\ UNCHANGED <<ptrVars, pktVars, update_stat, mainVars>>

SetRear == /\ pc = "add_rear" /\ pc' = "load"
           /\ rear' = pkt_temp
           /\ UNCHANGED <<prior, next, front, pktVars, update_stat, mainVars>>

----------------------------------------------------------------------------
(***************************************************************************)
(* The walk of main over the queue.                                        *)
(***************************************************************************)
StartWalk == /\ pc = "idle" /\ update_stat # 0
             /\ pc' = "walk" /\ pkt_temp' = front
             /\ UNCHANGED <<ptrVars, pktVars, update_stat, temp, load, job>>

EndWalk == /\ pc = "walk" /\ pkt_temp = NULL
           /\ pc' = "idle"
           /\ UNCHANGED <<ptrVars, pktVars, update_stat, mainVars>>

PassPkt == /\ pc = "walk" /\ Used(pkt_temp) /\ stat[pkt_temp] # "unsent"
           /\ pkt_temp' = next[pkt_temp]
           /\ UNCHANGED <<ptrVars, pktVars, update_stat, pc, temp, load, job>>

GiveUp == /\ pc = "walk" /\ Used(pkt_temp) /\ stat[pkt_temp] = "unsent"
          /\ tries[pkt_temp] >= MAX_RETX_NUM
          /\ temp' = next[pkt_temp] /\ job' = "delete"
          /\ pc' = "del"
          /\ UNCHANGED <<ptrVars, pktVars, update_stat, pkt_temp, load>>

\* send_frm, and send_stat = 1.
SendPkt == /\ pc = "walk" /\ Used(pkt_temp) /\ stat[pkt_temp] = "unsent"
           /\ tries[pkt_temp] < MAX_RETX_NUM
           /\ stat' = [stat EXCEPT ![pkt_temp] = "sent"]
           /\ job' = "send"
           /\ pc' = "count"
           /\ UNCHANGED <<ptrVars, heap, tries, update_stat, pkt_temp, temp,
                          load>>

CountTry == /\ pc = "count" /\ Used(pkt_temp) /\ pc' = "load"
            /\ tries' = [tries EXCEPT ![pkt_temp] = @ + 1]
            /\ UNCHANGED <<ptrVars, heap, stat, update_stat, mainVars>>

\* update_stat++ of add_pkt and update_stat-- of main: a read and a write.
LoadStat == /\ pc = "load" /\ pc' = "store"
            /\ load' = update_stat
            /\ UNCHANGED <<ptrVars, pktVars, update_stat, pkt_temp, temp, job>>

StoreStat == /\ pc = "store"
             /\ update_stat' = IF job = "add" THEN load + 1 ELSE load - 1
             /\ \/ job = "add" /\ pc' = "idle" /\ UNCHANGED pkt_temp
                \/ job = "delete" /\ pc' = "walk" /\ pkt_temp' = temp
                \/ job = "send" /\ pc' = "advance" /\ UNCHANGED pkt_temp
             /\ job' = "none"
             /\ UNCHANGED <<ptrVars, pktVars, temp, load>>

Advance == /\ pc = "advance" /\ Used(pkt_temp) /\ pc' = "walk"
           /\ pkt_temp' = next[pkt_temp]
           /\ UNCHANGED <<ptrVars, pktVars, update_stat, temp, load, job>>

----------------------------------------------------------------------------
(***************************************************************************)
(* del_pkt of main: one of four cases, each with two assignments.          *)
(***************************************************************************)
DelFirst ==
  LET p == pkt_temp IN
  /\ pc = "del" /\ Used(p)
  /\ \/ /\ prior[p] = NULL /\ next[p] = NULL
        /\ front' = NULL /\ pc' = "del_only" /\ UNCHANGED <<next, rear>>
     \/ /\ prior[p] # NULL /\ next[p] = NULL
        /\ rear' = prior[p] /\ pc' = "del_last" /\ UNCHANGED <<next, front>>
     \/ /\ prior[p] = NULL /\ next[p] # NULL
        /\ front' = next[p] /\ pc' = "del_head" /\ UNCHANGED <<next, rear>>
     \/ /\ Used(prior[p]) /\ next[p] # NULL
        /\ next' = [next EXCEPT ![prior[p]] = next[p]]
        /\ pc' = "del_middle" /\ UNCHANGED <<front, rear>>
  /\ UNCHANGED <<prior, pktVars, update_stat, mainVars>>

DelSecond ==
  LET p == pkt_temp IN
  /\ \/ pc = "del_only" /\ rear' = NULL /\ UNCHANGED <<prior, next>>
     \/ /\ pc = "del_last" /\ Used(rear)
        /\ next' = [next EXCEPT ![rear] = NULL] /\ UNCHANGED <<prior, rear>>
     \/ /\ pc = "del_head" /\ Used(front)
        /\ prior' = [prior EXCEPT ![front] = NULL] /\ UNCHANGED <<next, rear>>
     \/ /\ pc = "del_middle" /\ Used(next[p])
        /\ prior' = [prior EXCEPT ![next[p]] = prior[p]]
        /\ UNCHANGED <<next, rear>>
  /\ pc' = "free"
  /\ UNCHANGED <<front, pktVars, update_stat, mainVars>>

FreePkt == /\ pc = "free" /\ pc' = "load"
           /\ heap' = [heap EXCEPT ![pkt_temp] = "freed"]
           /\ UNCHANGED <<ptrVars, stat, tries, update_stat, mainVars>>

----------------------------------------------------------------------------
(***************************************************************************)
(* Handlers, and the reception of an ACK.  They look for the first packet  *)
(* in a state, from front on along next.                                   *)
(***************************************************************************)
HoldsNext(S) == \A q \in S : next[q] \in S \cup {NULL}

\* One reaches p from front: p is in every set that has front, and with a packet
\* the next one.
Listed(p) == \A S \in SUBSET Pkt :
               HoldsNext(S) /\ front \in S \cup {NULL} => p \in S

\* A search for state s gets to p: it passes packets in other states only, and
\* freed ones.
Reaches(p, s) ==
  /\ Listed(p)
  /\ \E Passed \in SUBSET Pkt :
       /\ front \in Passed \cup {p}
       /\ \A q \in Passed : /\ next[q] \in Passed \cup {p}
                            /\ Used(q) => stat[q] # s

Finds(p, s) == Used(p) /\ stat[p] = s /\ Reaches(p, s)

\* The packet main is sending has a new timer, which does not expire yet.
Expires(p, s) ==
  /\ pc \notin {"close", "closed"} /\ Finds(p, s)
  /\ p = pkt_temp => pc \notin {"count", "load", "store", "advance"}

RecordACK(p) == /\ pc = "idle" /\ Finds(p, "sent")
                /\ stat' = [stat EXCEPT ![p] = "acked"]
                /\ UNCHANGED <<ptrVars, heap, tries, update_stat, pc, mainVars>>

StartBackOff(p) ==
  /\ Expires(p, "sent")
  /\ stat' = [stat EXCEPT ![p] = "backed_off"]
  /\ UNCHANGED <<ptrVars, heap, tries, update_stat, pc, mainVars>>

EndBackOff_NotCounted(p) ==
  /\ Expires(p, "backed_off")
  /\ stat' = [stat EXCEPT ![p] = "unsent"]
  /\ UNCHANGED <<ptrVars, heap, tries, update_stat, pc, mainVars>>

EndBackOff(p) ==
  /\ Expires(p, "backed_off")
  /\ stat' = [stat EXCEPT ![p] = "unsent"]
  /\ update_stat' = update_stat + 1
  /\ UNCHANGED <<ptrVars, heap, tries, pc, mainVars>>

\* Two neighbours after p was taken out between them.
Relink_KeepsPrior(p) ==
  /\ next' = [q \in Pkt |-> IF q = prior[p] THEN next[p] ELSE next[q]]
  /\ UNCHANGED prior

Relink_CutsTail(p) ==
  /\ next' = [q \in Pkt |-> IF q = prior[p] THEN NULL ELSE next[q]]
  /\ prior' = [q \in Pkt |-> IF q = next[p] THEN prior[p] ELSE prior[q]]

Relink(p) ==
  /\ next' = [q \in Pkt |-> IF q = prior[p] THEN next[p] ELSE next[q]]
  /\ prior' = [q \in Pkt |-> IF q = next[p] THEN prior[p] ELSE prior[q]]

NeighboursUsed(p) == \A q \in {prior[p], next[p]} : q = NULL \/ Used(q)

DelAcked(p) ==
  /\ Expires(p, "acked") /\ NeighboursUsed(p)
  /\ Relink(p)
  /\ front' = IF prior[p] = NULL THEN next[p] ELSE front
  /\ rear' = IF next[p] = NULL THEN prior[p] ELSE rear
  /\ heap' = [heap EXCEPT ![p] = "freed"]
  /\ UNCHANGED <<stat, tries, update_stat, pc, mainVars>>

----------------------------------------------------------------------------
(***************************************************************************)
(* del_node_manager, after the timer has been stopped.                     *)
(***************************************************************************)
Close == /\ pc = "idle" /\ pc' = "close"
         /\ UNCHANGED <<ptrVars, pktVars, update_stat, mainVars>>

FreeFront_OnlyOne ==
  /\ pc = "close" /\ Used(front)
  /\ temp' = next[front]
  /\ heap' = [heap EXCEPT ![front] = "freed"]
  /\ front' = NULL
  /\ UNCHANGED <<prior, next, rear, stat, tries, update_stat, pc, pkt_temp,
                 load, job>>

FreeFront == /\ pc = "close" /\ Used(front)
             /\ temp' = next[front]
             /\ heap' = [heap EXCEPT ![front] = "freed"]
             /\ front' = temp'
             /\ UNCHANGED <<prior, next, rear, stat, tries, update_stat, pc,
                            pkt_temp, load, job>>

Closed == /\ pc = "close" /\ front = NULL /\ pc' = "closed"
          /\ rear' = NULL
          /\ UNCHANGED <<prior, next, front, pktVars, update_stat, mainVars>>

----------------------------------------------------------------------------
(***************************************************************************)
(* Freed memory or NULL in place of a packet: of main, whose next step     *)
(* goes through the pointers of Touched, and of a handler that looks for a *)
(* packet in state s.                                                      *)
(***************************************************************************)
Touched ==
  LET p == pkt_temp IN
  CASE pc = "add_link" -> {rear}
    [] pc = "walk" -> {p} \ {NULL}
    [] pc \in {"count", "advance"} -> {p}
    [] pc = "del" -> {p} \cup (IF next[p] = NULL THEN {} ELSE {prior[p]} \ {NULL})
    [] pc = "del_last" -> {rear}
    [] pc = "del_head" -> {front}
    [] pc = "del_middle" -> {next[p]}
    [] pc = "close" -> {front} \ {NULL}
    [] OTHER -> {}

UseFreed == /\ \E q \in Touched : ~ Used(q)
            /\ fault' = pc
            /\ UNCHANGED <<ptrVars, pktVars, update_stat, pc, mainVars>>

HandlerUsesFreed(s) ==
  /\ pc \notin {"close", "closed"}
  /\ \E q \in Pkt : Used(q) /\ stat[q] = s
  /\ \E p \in Pkt : \/ ~ Used(p) /\ Reaches(p, s)
                    \/ s = "acked" /\ Finds(p, s) /\ ~ NeighboursUsed(p)
  /\ fault' = "handler"
  /\ UNCHANGED <<ptrVars, pktVars, update_stat, pc, mainVars>>

Add == \/ \E p \in Pkt : AddPkt(p)
       \/ SetFront \/ SetRearToFront \/ SetPrior \/ LinkRear \/ SetRear

Walk == \/ StartWalk \/ EndWalk \/ PassPkt \/ GiveUp \/ SendPkt \/ CountTry
        \/ LoadStat \/ StoreStat \/ Advance

Delete == DelFirst \/ DelSecond \/ FreePkt

Main == \/ Add \/ Walk \/ Delete
        \/ \E p \in Pkt : RecordACK(p)
        \/ Close \/ FreeFront \/ Closed

Alarm == \E p \in Pkt : StartBackOff(p) \/ EndBackOff(p) \/ DelAcked(p)

AlarmUsesFreed == \E s \in {"sent", "acked", "backed_off"} : HandlerUsesFreed(s)

Interrupt == interrupted' = (interrupted \/ pc # "idle")

Next == /\ fault = "none"
        /\ \/ Main /\ UNCHANGED <<fault, interrupted>>
           \/ Alarm /\ Interrupt /\ UNCHANGED fault
           \/ UseFreed /\ UNCHANGED interrupted
           \/ AlarmUsesFreed /\ Interrupt

Spec == Init /\ [][Next]_vars

----------------------------------------------------------------------------
\* Types; no packet is sent more often than MAX_RETX_NUM allows.
TypeOK ==
  /\ heap \in [Pkt -> {"unused", "used", "freed"}]
  /\ {prior, next} \subseteq [Pkt -> Pointer]
  /\ stat \in [Pkt -> {"unsent", "sent", "acked", "backed_off"}]
  /\ tries \in [Pkt -> 0 .. MAX_RETX_NUM]
  /\ {front, rear, pkt_temp, temp} \subseteq Pointer
  /\ update_stat \in Int /\ load \in Int
  /\ job \in {"none", "add", "delete", "send"}

\* Until a handler comes inside main's steps no freed memory and no NULL is
\* used: add_pkt, del_pkt of main and of wait_cfrm_fdbk and the walk agree on
\* the pointers.
NoFault == ~ interrupted => fault = "none"

\* Until then the queue is, between two steps of the loop, a doubly linked list
\* of all its packets: prior mirrors next, front and rear are its ends.  del_pkt
\* chooses its case by these pointers.
ListOK ==
  ~ interrupted /\ pc = "idle" =>
    /\ \A p \in {front, rear} : p = NULL \/ Used(p)
    /\ front = NULL <=> rear = NULL
    /\ \A p \in Pkt : Used(p) =>
         /\ Listed(p)
         /\ prior[p] = NULL <=> front = p
         /\ prior[p] # NULL => Used(prior[p]) /\ next[prior[p]] = p
         /\ next[p] = NULL <=> rear = p
         /\ next[p] # NULL => Used(next[p]) /\ prior[next[p]] = p

Unsent == {p \in Pkt : Used(p) /\ stat[p] = "unsent"}

\* update_stat, by which main decides to walk, is the number of packets to be
\* sent, whatever was added, sent, backed off, released and given up.  A handler
\* inside main's update can only lower it: as long as no freed memory was used,
\* main never walks the queue for a packet that is not there.
StatCounted ==
  fault = "none" /\ pc = "idle" =>
    /\ update_stat <= Cardinality(Unsent)
    /\ ~ interrupted => update_stat = Cardinality(Unsent)

\* del_node_manager frees every packet that is left.
NoLeak == ~ interrupted /\ pc = "closed" => \A p \in Pkt : heap[p] # "used"

\* The queue is sound until a handler comes inside main's steps.
QueueOK == TypeOK /\ NoFault /\ ListOK /\ NoLeak

\* As long as no freed memory was used, no packet falls out of the queue, even
\* when handlers come between any two steps of main.
KeptInQueue ==
  fault = "none" /\ pc = "idle" => \A p \in Pkt : Used(p) => Listed(p)
=============================================================================

---------------------------- MODULE PacketState ----------------------------
(***************************************************************************)
(* The state vector of one data packet in a queue of the packet manager    *)
(* (pktq_man.h): send_stat, backoff_stat and the four counters of          *)
(* cfrm_stat, with the conditions by which the protocol (axidma_DOTS.c)    *)
(* recognises the packet a control frame or a timer is about, and the      *)
(* assignments it then makes.  The payload and the list pointers are not   *)
(* part of the vector.                                                     *)
(*                                                                         *)
(* A definition named Op_Suffix is operator Op with a plausible bug; the   *)
(* properties of DotsMac are tried against it.                             *)
(***************************************************************************)
EXTENDS Naturals

\* The flags are C ints that only ever hold 0 or 1; RTS_TX_NUM counts.
Bit == {0, 1}

StateVector == [send_stat      : Bit,
                backoff_stat   : Bit,
                RTS_TX_NUM     : Nat,
                CTS_RX_STAT    : Bit,
                CTS_RX_CK_STAT : Bit,
                ACK_RX_STAT    : Bit]

\* add_pkt clears every field of a new packet.
NewPacket == [send_stat |-> 0, backoff_stat |-> 0, RTS_TX_NUM |-> 0,
              CTS_RX_STAT |-> 0, CTS_RX_CK_STAT |-> 0, ACK_RX_STAT |-> 0]

(***************************************************************************)
(* Conditions of the searches.                                             *)
(***************************************************************************)
\* The scan of main: a packet whose transmission has not been started.
Unsent(s) == s.send_stat = 0 /\ s.backoff_stat = 0

\* A handshake is running; the test shared by every search of the protocol.
InFlight(s) == s.send_stat = 1 /\ s.backoff_stat = 0 /\ s.RTS_TX_NUM # 0

\* {1:0:0:0}: proc_cfrm(CTS), second search of wait_cfrm_fdbk(CTS).
AwaitsCTS_BackedOff(s) == /\ s.send_stat = 1 /\ s.RTS_TX_NUM # 0
                          /\ s.CTS_RX_STAT = 0
                          /\ s.CTS_RX_CK_STAT = 0
AwaitsCTS(s) == /\ InFlight(s)
                /\ s.CTS_RX_STAT = 0
                /\ s.CTS_RX_CK_STAT = 0

\* {1:1:0:0}: first search of wait_cfrm_fdbk(CTS).
HasCTS(s) == /\ InFlight(s)
             /\ s.CTS_RX_STAT = 1
             /\ s.CTS_RX_CK_STAT = 0

\* {1:1:1:*}: send_frm(DATA), which does not look at ACK_RX_STAT.
MaySendData(s) == /\ InFlight(s)
                  /\ s.CTS_RX_STAT = 1
                  /\ s.CTS_RX_CK_STAT = 1

\* {1:1:1:0}: proc_cfrm(ACK), second search of wait_cfrm_fdbk(ACK).
AwaitsACK_BackedOff(s) == /\ s.send_stat = 1 /\ s.CTS_RX_STAT = 1
                          /\ s.CTS_RX_CK_STAT = 1 /\ s.ACK_RX_STAT = 0
AwaitsACK(s) == MaySendData(s) /\ s.ACK_RX_STAT = 0

\* {1:1:1:1}: first search of wait_cfrm_fdbk(ACK).
HasACK_Unchecked(s) == MaySendData(s)
HasACK(s) == MaySendData(s) /\ s.ACK_RX_STAT = 1

\* back_off looks at backoff_stat alone.
BackedOff(s) == s.backoff_stat = 1

(***************************************************************************)
(* Assignments to the packet that was found.                               *)
(***************************************************************************)
StartSending(s) == [s EXCEPT !.send_stat = 1, !.RTS_TX_NUM = @ + 1]
RecordCTS_Checks(s) == [s EXCEPT !.CTS_RX_STAT = 1, !.CTS_RX_CK_STAT = 1]
RecordCTS(s)    == [s EXCEPT !.CTS_RX_STAT = 1]
CheckCTS(s)     == [s EXCEPT !.CTS_RX_CK_STAT = 1]
RecordACK(s)    == [s EXCEPT !.ACK_RX_STAT = 1]
StartBackOff(s) == [s EXCEPT !.backoff_stat = 1]
EndBackOff_KeepsCTS(s) == [s EXCEPT !.send_stat = 0, !.backoff_stat = 0]
EndBackOff_KeepsBackOff(s) == [s EXCEPT !.send_stat = 0, !.CTS_RX_STAT = 0,
                                        !.CTS_RX_CK_STAT = 0, !.ACK_RX_STAT = 0]
EndBackOff(s)   == [s EXCEPT !.send_stat = 0, !.backoff_stat = 0,
                             !.CTS_RX_STAT = 0, !.CTS_RX_CK_STAT = 0,
                             !.ACK_RX_STAT = 0]
============================================================================

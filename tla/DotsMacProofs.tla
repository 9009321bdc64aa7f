--------------------------- MODULE DotsMacProofs ---------------------------
(***************************************************************************)
(* Proofs about DotsMac for every number of nodes, packets and frames.     *)
(***************************************************************************)
EXTENDS DotsMac, FiniteSetTheorems, TLAPS

----------------------------------------------------------------------------
(***************************************************************************)
(* Counting.  Every step of the process changes the state vector of one    *)
(* packet at most, so every count of packets changes by what that packet   *)
(* contributes to it.                                                      *)
(***************************************************************************)
In(x, S) == IF x \in S THEN 1 ELSE 0

\* Two sets that agree but for x: their sizes differ by what x contributes.
LEMMA OneElement ==
  ASSUME NEW S, NEW T, NEW x, IsFiniteSet(S), S \ {x} = T \ {x}
  PROVE  /\ IsFiniteSet(T)
         /\ Cardinality(T) = Cardinality(S) + In(x, T) - In(x, S)
<1>0. Cardinality(S) \in Nat
  BY FS_CardinalityType
<1>1. CASE (x \in S) = (x \in T)
  <2>1. S = T
    BY <1>1
  <2> QED BY <1>0, <2>1 DEF In
<1>2. CASE x \in S /\ x \notin T
  <2>1. T = S \ {x}
    BY <1>2
  <2>2. IsFiniteSet(T) /\ Cardinality(T) = Cardinality(S) - 1
    BY <2>1, <1>2, FS_RemoveElement
  <2> QED BY <1>0, <1>2, <2>2 DEF In
<1>3. CASE x \notin S /\ x \in T
  <2>1. T = S \cup {x}
    BY <1>3
  <2>2. IsFiniteSet(T) /\ Cardinality(T) = Cardinality(S) + 1
    BY <2>1, <1>3, FS_AddElement
  <2> QED BY <1>0, <1>3, <2>2 DEF In
<1> QED BY <1>1, <1>2, <1>3

\* The sets of packets that the invariant counts are finite.
LEMMA QueuesFinite ==
  ASSUME TypeOK
  PROVE  \A d \in Node : /\ IsFiniteSet(UnsentOf(d))
                         /\ IsFiniteSet(BackedOffOf(d))
                         /\ IsFiniteSet(UncheckedOf(d))
                         /\ IsFiniteSet(AnsweredOf(d))
<1>1. IsFiniteSet(1..arrived)
  BY FS_Interval, BoundsAssumption DEF TypeOK
<1>2. IsFiniteSet(live)
  BY <1>1, FS_Subset DEF TypeOK
<1> TAKE d \in Node
<1>3. /\ UnsentOf(d) \subseteq live /\ BackedOffOf(d) \subseteq live
      /\ UncheckedOf(d) \subseteq live /\ AnsweredOf(d) \subseteq live
  BY DEF UnsentOf, BackedOffOf, UncheckedOf, AnsweredOf, StartedOf, Queue
<1> QED BY <1>2, <1>3, FS_Subset

\* A step that leaves all packets but p alone.
OnlyPacket(p) ==
  \A q \in PacketId : q # p =>
    /\ q \in live' <=> q \in live
    /\ dst'[q] = dst[q]
    /\ stat'[q] = stat[q]

\* What such a step does to the counts.
LEMMA PacketStep ==
  ASSUME TypeOK, live' \subseteq PacketId, NEW p \in PacketId, OnlyPacket(p)
  PROVE  \A d \in Node :
           /\ Cardinality(UnsentOf(d)') = Cardinality(UnsentOf(d))
                + In(p, UnsentOf(d)') - In(p, UnsentOf(d))
           /\ Cardinality(BackedOffOf(d)') = Cardinality(BackedOffOf(d))
                + In(p, BackedOffOf(d)') - In(p, BackedOffOf(d))
           /\ Cardinality(UncheckedOf(d)') = Cardinality(UncheckedOf(d))
                + In(p, UncheckedOf(d)') - In(p, UncheckedOf(d))
           /\ Cardinality(AnsweredOf(d)') = Cardinality(AnsweredOf(d))
                + In(p, AnsweredOf(d)') - In(p, AnsweredOf(d))
<1> TAKE d \in Node
<1>0. live \subseteq PacketId
  BY BoundsAssumption DEF TypeOK, PacketId
<1>1. UnsentOf(d) \ {p} = UnsentOf(d)' \ {p}
  BY <1>0 DEF UnsentOf, Queue, OnlyPacket
<1>2. BackedOffOf(d) \ {p} = BackedOffOf(d)' \ {p}
  BY <1>0 DEF BackedOffOf, Queue, OnlyPacket
<1>3. UncheckedOf(d) \ {p} = UncheckedOf(d)' \ {p}
  BY <1>0 DEF UncheckedOf, StartedOf, Queue, OnlyPacket
<1>4. AnsweredOf(d) \ {p} = AnsweredOf(d)' \ {p}
  BY <1>0 DEF AnsweredOf, StartedOf, Queue, OnlyPacket
<1> QED BY <1>1, <1>2, <1>3, <1>4, QueuesFinite, OneElement

\* The counts are natural numbers.
LEMMA CountsNat ==
  ASSUME TypeOK
  PROVE  \A d \in Node : /\ Cardinality(UnsentOf(d)) \in Nat
                         /\ Cardinality(BackedOffOf(d)) \in Nat
                         /\ Cardinality(UncheckedOf(d)) \in Nat
                         /\ Cardinality(AnsweredOf(d)) \in Nat
BY QueuesFinite, FS_CardinalityType

\* A step that leaves the packets alone leaves the sets alone.
LEMMA NoPacketStep ==
  ASSUME live' = live, dst' = dst, stat' = stat
  PROVE  \A d \in Node : /\ UnsentOf(d)' = UnsentOf(d)
                         /\ BackedOffOf(d)' = BackedOffOf(d)
                         /\ UncheckedOf(d)' = UncheckedOf(d)
                         /\ AnsweredOf(d)' = AnsweredOf(d)
BY DEF UnsentOf, BackedOffOf, UncheckedOf, AnsweredOf, StartedOf, Queue

----------------------------------------------------------------------------
(***************************************************************************)
(* The invariant holds initially.                                          *)
(***************************************************************************)
LEMMA InitIInv == Init => IInv
<1> SUFFICES ASSUME Init PROVE IInv
  OBVIOUS
<1>1. TypeOK
  BY NodesAssumption, BoundsAssumption
  DEF Init, TypeOK, Node, StateVector, NewPacket, Bit
<1>2. LoopOK /\ SleepHasTimer /\ StateVectorOK /\ RetxBound
  BY DEF Init, LoopOK, SleepHasTimer, StateVectorOK, RetxBound, Sleeper
<1>3. \A d \in Node : /\ UnsentOf(d) = {} /\ BackedOffOf(d) = {}
                      /\ UncheckedOf(d) = {} /\ AnsweredOf(d) = {}
  BY DEF Init, UnsentOf, BackedOffOf, UncheckedOf, AnsweredOf, StartedOf, Queue
<1>4. \A d \in Node : /\ Cardinality(UnsentOf(d)) = 0
                      /\ Cardinality(BackedOffOf(d)) = 0
                      /\ Cardinality(UncheckedOf(d)) = 0
                      /\ Cardinality(AnsweredOf(d)) = 0
  BY <1>3, FS_EmptySet
<1>5. UpdateStatExact /\ BackOffTimersExact
  BY <1>4 DEF Init, UpdateStatExact, BackOffTimersExact
<1>6. \A d \in Node : /\ wait_tmr["CTS"][d] = 0 /\ send_tmr["RTS"][d] = 0
                      /\ wait_tmr["ACK"][d] = 0 /\ send_tmr["DATA"][d] = 0
  BY DEF Init, CfrmType, Feedback
<1>7. CtsTimersExact /\ AckTimersExact
  BY <1>4, <1>6 DEF CtsTimersExact, AckTimersExact
<1> QED BY <1>1, <1>2, <1>5, <1>7 DEF IInv

----------------------------------------------------------------------------
(***************************************************************************)
(* The parts of the invariant that speak of packets and their timers.      *)
(***************************************************************************)
PacketInv == /\ StateVectorOK /\ RetxBound
             /\ UpdateStatExact /\ BackOffTimersExact
             /\ CtsTimersExact /\ AckTimersExact

\* Steps of main and handlers that touch neither packets nor their timers.
LEMMA QuietStep ==
  ASSUME IInv, UNCHANGED <<queueVars, timerVars>>,
         pc = "exited" => pc' = "exited"
  PROVE  PacketInv'
<1> USE DEF IInv, queueVars, timerVars
<1>1. StateVectorOK' /\ RetxBound'
  BY DEF StateVectorOK, RetxBound
<1>2. UpdateStatExact' /\ BackOffTimersExact'
  BY NoPacketStep DEF UpdateStatExact, BackOffTimersExact
<1>3. CtsTimersExact' /\ AckTimersExact'
  BY NoPacketStep DEF CtsTimersExact, AckTimersExact
<1> QED BY <1>1, <1>2, <1>3 DEF PacketInv

\* The steps of main between which it only moves in its loop.
LEMMA LoopStep ==
  ASSUME IInv,
         CheckNode \/ EndOfScan \/ EndOfQueue \/ NoPacket \/ EndRequest
           \/ DropFrames \/ Overhear
  PROVE  IInv'
<1>1. UNCHANGED <<queueVars, timerVars>> /\ pc # "exited" /\ UNCHANGED sleepVars
  BY DEF CheckNode, EndOfScan, EndOfQueue, NoPacket, EndRequest, DropFrames,
         Overhear
<1>2. PacketInv'
  BY <1>1, QuietStep
<1>3. TypeOK'
  BY <1>1, NodesAssumption, BoundsAssumption
  DEF IInv, TypeOK, LoopOK, CheckNode, EndOfScan, EndOfQueue, NoPacket,
      EndRequest, DropFrames, Overhear, NextIteration, queueVars, timerVars,
      sleepVars, Node
<1>4. LoopOK' /\ SleepHasTimer'
  BY <1>1, NodesAssumption
  DEF IInv, TypeOK, LoopOK, SleepHasTimer, CheckNode, EndOfScan, EndOfQueue,
      NoPacket, EndRequest, DropFrames, Overhear, NextIteration, sleepVars,
      Node, Sleeper
<1> QED BY <1>2, <1>3, <1>4 DEF IInv, PacketInv

\* The steps around the busy-waits.
LEMMA SleepStep ==
  ASSUME IInv, PollPhy \/ ReceiveFrame \/ ReceiveData
  PROVE  IInv'
<1>1. UNCHANGED <<queueVars, timerVars>> /\ pc # "exited"
  BY DEF PollPhy, ReceiveFrame, ReceiveData
<1>2. PacketInv'
  BY <1>1, QuietStep
<1>3. TypeOK'
  BY <1>1, BoundsAssumption
  DEF IInv, TypeOK, PollPhy, ReceiveFrame, ReceiveData, queueVars, timerVars,
      sleepVars, Sleep, Add, Sleeper, Bit
<1>4. LoopOK'
  BY DEF IInv, LoopOK, PollPhy, ReceiveFrame, ReceiveData
<1>5. SleepHasTimer'
  BY DEF IInv, TypeOK, SleepHasTimer, PollPhy, ReceiveFrame, ReceiveData,
         sleepVars, Sleep, Add, Sleeper, Bit
<1> QED BY <1>2, <1>3, <1>4, <1>5 DEF IInv, PacketInv

\* rx_v_sleep and tx_v_sleep.
LEMMA VSleepStep ==
  ASSUME IInv, NEW s \in Sleeper, VSleep(s)
  PROVE  IInv'
<1>1. UNCHANGED <<queueVars, timerVars>> /\ pc' = pc
  BY DEF VSleep, loopVars
<1>2. PacketInv'
  BY <1>1, QuietStep
<1>3. TypeOK' /\ LoopOK'
  BY DEF IInv, TypeOK, LoopOK, VSleep, queueVars, timerVars, loopVars, Del,
         Sleeper, Bit
<1>4. SleepHasTimer'
  BY DEF IInv, TypeOK, SleepHasTimer, VSleep, loopVars, Del, Sleeper, Bit
<1> QED BY <1>2, <1>3, <1>4 DEF IInv, PacketInv

----------------------------------------------------------------------------
(***************************************************************************)
(* The timers that send frames.                                            *)
(***************************************************************************)
\* These handlers change no packet, only which timers are pending.
LEMMA SendTimerStep ==
  ASSUME IInv, NEW d \in Node,
         \/ RetryRTS(d)
         \/ SendReply("CTS", d)
         \/ SendReply("ACK", d)
         \/ SendData(d)
  PROVE  IInv'
<1>1. UNCHANGED <<queueVars, backoff_tmr, sleepVars, loopVars>>
  BY DEF RetryRTS, SendReply, SendData
<1>2. TypeOK'
  <2>1. /\ send_tmr' \in [CfrmType -> [Node -> Nat]]
        /\ wait_tmr' \in [Feedback -> [Node -> Nat]]
    BY DEF IInv, TypeOK, RetryRTS, SendRTS, SendReply, SendData, AddOf, DelOf,
           CfrmType, Feedback
  <2> QED BY <1>1, <2>1 DEF IInv, TypeOK, queueVars, sleepVars, loopVars
<1>3. LoopOK' /\ SleepHasTimer' /\ StateVectorOK' /\ RetxBound'
  BY <1>1 DEF IInv, LoopOK, SleepHasTimer, StateVectorOK, RetxBound,
              queueVars, sleepVars, loopVars
<1>4. UpdateStatExact' /\ BackOffTimersExact'
  BY <1>1, NoPacketStep
  DEF IInv, UpdateStatExact, BackOffTimersExact, queueVars
<1>5. \A e \in Node :
        /\ wait_tmr'["CTS"][e] + send_tmr'["RTS"][e]
             = wait_tmr["CTS"][e] + send_tmr["RTS"][e]
        /\ wait_tmr'["ACK"][e] + send_tmr'["DATA"][e]
             = wait_tmr["ACK"][e] + send_tmr["DATA"][e]
  BY DEF IInv, TypeOK, RetryRTS, SendRTS, SendReply, SendData, AddOf, DelOf,
         CfrmType, Feedback
<1>6. CtsTimersExact' /\ AckTimersExact'
  BY <1>1, <1>5, NoPacketStep
  DEF IInv, CtsTimersExact, AckTimersExact, queueVars, loopVars
<1> QED BY <1>2, <1>3, <1>4, <1>6 DEF IInv

----------------------------------------------------------------------------
(***************************************************************************)
(* The state vector.  WUnsent, WBackedOff, WUnchecked and WAnswered are    *)
(* what a packet with vector s contributes to each of the counts.          *)
(***************************************************************************)
WUnsent(s)    == IF Unsent(s) THEN 1 ELSE 0
WBackedOff(s) == IF BackedOff(s) THEN 1 ELSE 0
WUnchecked(s) == IF InFlight(s) /\ s.CTS_RX_CK_STAT = 0 THEN 1 ELSE 0
WAnswered(s)  == IF InFlight(s) /\ s.CTS_RX_STAT = 1 THEN 1 ELSE 0

\* StateVectorOK and RetxBound of one vector.
VectorOK(s) ==
  /\ s.send_stat = 0 => s.backoff_stat = 0 /\ s.CTS_RX_STAT = 0
  /\ s.send_stat = 1 => s.RTS_TX_NUM # 0
  /\ s.ACK_RX_STAT = 1 => s.CTS_RX_CK_STAT = 1
  /\ s.CTS_RX_CK_STAT = 1 => s.CTS_RX_STAT = 1
  /\ s.backoff_stat = 1 => s.ACK_RX_STAT = 0
  /\ s.RTS_TX_NUM <= MAX_RETX_NUM

\* The invariant says of every live packet that its vector is consistent.
LEMMA VectorsOK ==
  (StateVectorOK /\ RetxBound) <=> \A p \in live : VectorOK(stat[p])
BY DEF StateVectorOK, RetxBound, VectorOK

\* The fields after each assignment.
LEMMA Fields ==
  ASSUME NEW s \in StateVector
  PROVE  /\ s.send_stat \in Bit /\ s.backoff_stat \in Bit
         /\ s.RTS_TX_NUM \in Nat /\ s.CTS_RX_STAT \in Bit
         /\ s.CTS_RX_CK_STAT \in Bit /\ s.ACK_RX_STAT \in Bit
BY DEF StateVector

\* add_pkt: a new packet waits for main and for no timer.
LEMMA NewPacketVector ==
  /\ NewPacket \in StateVector /\ VectorOK(NewPacket)
  /\ WUnsent(NewPacket) = 1 /\ WBackedOff(NewPacket) = 0
  /\ WUnchecked(NewPacket) = 0 /\ WAnswered(NewPacket) = 0
BY RetxAssumption DEF NewPacket, StateVector, Bit, VectorOK, WUnsent,
   WBackedOff, WUnchecked, WAnswered, Unsent, BackedOff, InFlight

\* main sends an unsent packet: it now waits for its CTS.
LEMMA StartSendingVector ==
  ASSUME NEW s \in StateVector, VectorOK(s), Unsent(s),
         s.RTS_TX_NUM < MAX_RETX_NUM
  PROVE  LET t == StartSending(s) IN
         /\ t \in StateVector /\ VectorOK(t)
         /\ WUnsent(s) = 1 /\ WUnsent(t) = 0
         /\ WBackedOff(s) = 0 /\ WBackedOff(t) = 0
         /\ WUnchecked(s) = 0 /\ WUnchecked(t) = 1
         /\ WAnswered(s) = 0 /\ WAnswered(t) = 0
<1> DEFINE t == StartSending(s)
<1>0. s.RTS_TX_NUM + 1 \in Nat
  BY Fields
<1>1. /\ t.send_stat = 1 /\ t.RTS_TX_NUM = s.RTS_TX_NUM + 1
      /\ t.backoff_stat = s.backoff_stat /\ t.CTS_RX_STAT = s.CTS_RX_STAT
      /\ t.CTS_RX_CK_STAT = s.CTS_RX_CK_STAT /\ t.ACK_RX_STAT = s.ACK_RX_STAT
      /\ t \in StateVector
  BY <1>0 DEF StartSending, StateVector, Bit
<1> HIDE DEF t
<1>2. VectorOK(t)
  BY <1>1, Fields, RetxAssumption DEF VectorOK, Unsent, Bit
<1>3. /\ WUnsent(s) = 1 /\ WUnsent(t) = 0
      /\ WBackedOff(s) = 0 /\ WBackedOff(t) = 0
      /\ WUnchecked(s) = 0 /\ WUnchecked(t) = 1
      /\ WAnswered(s) = 0 /\ WAnswered(t) = 0
  BY <1>1, Fields DEF VectorOK, Unsent, WUnsent, WBackedOff, WUnchecked,
     WAnswered, BackedOff, InFlight, Bit
<1> QED BY <1>1, <1>2, <1>3 DEF t

\* proc_cfrm(CTS): the packet is answered, and still unchecked.
LEMMA RecordCTSVector ==
  ASSUME NEW s \in StateVector, VectorOK(s), AwaitsCTS(s)
  PROVE  LET t == RecordCTS(s) IN
         /\ t \in StateVector /\ VectorOK(t)
         /\ WUnsent(s) = 0 /\ WUnsent(t) = 0
         /\ WBackedOff(s) = 0 /\ WBackedOff(t) = 0
         /\ WUnchecked(s) = 1 /\ WUnchecked(t) = 1
         /\ WAnswered(s) = 0 /\ WAnswered(t) = 1
<1> DEFINE t == RecordCTS(s)
<1>1. /\ t.send_stat = s.send_stat /\ t.RTS_TX_NUM = s.RTS_TX_NUM
      /\ t.backoff_stat = s.backoff_stat /\ t.CTS_RX_STAT = 1
      /\ t.CTS_RX_CK_STAT = s.CTS_RX_CK_STAT /\ t.ACK_RX_STAT = s.ACK_RX_STAT
      /\ t \in StateVector
  BY DEF RecordCTS, StateVector, Bit
<1> HIDE DEF t
<1>2. VectorOK(t)
  BY <1>1, Fields DEF VectorOK, AwaitsCTS, InFlight, Bit
<1>3. /\ WUnsent(s) = 0 /\ WUnsent(t) = 0
      /\ WBackedOff(s) = 0 /\ WBackedOff(t) = 0
      /\ WUnchecked(s) = 1 /\ WUnchecked(t) = 1
      /\ WAnswered(s) = 0 /\ WAnswered(t) = 1
  BY <1>1, Fields DEF VectorOK, AwaitsCTS, Unsent, WUnsent, WBackedOff,
     WUnchecked, WAnswered, BackedOff, InFlight, Bit
<1> QED BY <1>1, <1>2, <1>3 DEF t

\* wait_cfrm_fdbk(CTS): the packet stays answered and is checked now.
LEMMA CheckCTSVector ==
  ASSUME NEW s \in StateVector, VectorOK(s), HasCTS(s)
  PROVE  LET t == CheckCTS(s) IN
         /\ t \in StateVector /\ VectorOK(t)
         /\ WUnsent(s) = 0 /\ WUnsent(t) = 0
         /\ WBackedOff(s) = 0 /\ WBackedOff(t) = 0
         /\ WUnchecked(s) = 1 /\ WUnchecked(t) = 0
         /\ WAnswered(s) = 1 /\ WAnswered(t) = 1
<1> DEFINE t == CheckCTS(s)
<1>1. /\ t.send_stat = s.send_stat /\ t.RTS_TX_NUM = s.RTS_TX_NUM
      /\ t.backoff_stat = s.backoff_stat /\ t.CTS_RX_STAT = s.CTS_RX_STAT
      /\ t.CTS_RX_CK_STAT = 1 /\ t.ACK_RX_STAT = s.ACK_RX_STAT
      /\ t \in StateVector
  BY DEF CheckCTS, StateVector, Bit
<1> HIDE DEF t
<1>2. VectorOK(t)
  BY <1>1, Fields DEF VectorOK, HasCTS, InFlight, Bit
<1>3. /\ WUnsent(s) = 0 /\ WUnsent(t) = 0
      /\ WBackedOff(s) = 0 /\ WBackedOff(t) = 0
      /\ WUnchecked(s) = 1 /\ WUnchecked(t) = 0
      /\ WAnswered(s) = 1 /\ WAnswered(t) = 1
  BY <1>1, Fields DEF VectorOK, HasCTS, Unsent, WUnsent, WBackedOff,
     WUnchecked, WAnswered, BackedOff, InFlight, Bit
<1> QED BY <1>1, <1>2, <1>3 DEF t

\* proc_cfrm(ACK): the packet stays where it is.
LEMMA RecordACKVector ==
  ASSUME NEW s \in StateVector, VectorOK(s), AwaitsACK(s)
  PROVE  LET t == RecordACK(s) IN
         /\ t \in StateVector /\ VectorOK(t)
         /\ WUnsent(s) = 0 /\ WUnsent(t) = 0
         /\ WBackedOff(s) = 0 /\ WBackedOff(t) = 0
         /\ WUnchecked(s) = 0 /\ WUnchecked(t) = 0
         /\ WAnswered(s) = 1 /\ WAnswered(t) = 1
<1> DEFINE t == RecordACK(s)
<1>1. /\ t.send_stat = s.send_stat /\ t.RTS_TX_NUM = s.RTS_TX_NUM
      /\ t.backoff_stat = s.backoff_stat /\ t.CTS_RX_STAT = s.CTS_RX_STAT
      /\ t.CTS_RX_CK_STAT = s.CTS_RX_CK_STAT /\ t.ACK_RX_STAT = 1
      /\ t \in StateVector
  BY DEF RecordACK, StateVector, Bit
<1> HIDE DEF t
<1>2. VectorOK(t)
  BY <1>1, Fields DEF VectorOK, AwaitsACK, MaySendData, InFlight, Bit
<1>3. /\ WUnsent(s) = 0 /\ WUnsent(t) = 0
      /\ WBackedOff(s) = 0 /\ WBackedOff(t) = 0
      /\ WUnchecked(s) = 0 /\ WUnchecked(t) = 0
      /\ WAnswered(s) = 1 /\ WAnswered(t) = 1
  BY <1>1, Fields DEF VectorOK, AwaitsACK, MaySendData, Unsent, WUnsent,
     WBackedOff, WUnchecked, WAnswered, BackedOff, InFlight, Bit
<1> QED BY <1>1, <1>2, <1>3 DEF t

\* wait_cfrm_fdbk: the packet leaves its handshake for a back-off.
LEMMA StartBackOffVector ==
  ASSUME NEW s \in StateVector, VectorOK(s), AwaitsCTS(s) \/ AwaitsACK(s)
  PROVE  LET t == StartBackOff(s) IN
         /\ t \in StateVector /\ VectorOK(t)
         /\ WUnsent(s) = 0 /\ WUnsent(t) = 0
         /\ WBackedOff(s) = 0 /\ WBackedOff(t) = 1
         /\ AwaitsCTS(s) => WUnchecked(s) = 1 /\ WAnswered(s) = 0
         /\ AwaitsACK(s) => WUnchecked(s) = 0 /\ WAnswered(s) = 1
         /\ WUnchecked(t) = 0 /\ WAnswered(t) = 0
<1> DEFINE t == StartBackOff(s)
<1>1. /\ t.send_stat = s.send_stat /\ t.RTS_TX_NUM = s.RTS_TX_NUM
      /\ t.backoff_stat = 1 /\ t.CTS_RX_STAT = s.CTS_RX_STAT
      /\ t.CTS_RX_CK_STAT = s.CTS_RX_CK_STAT /\ t.ACK_RX_STAT = s.ACK_RX_STAT
      /\ t \in StateVector
  BY DEF StartBackOff, StateVector, Bit
<1> HIDE DEF t
<1>2. VectorOK(t)
  BY <1>1, Fields DEF VectorOK, AwaitsCTS, AwaitsACK, MaySendData, InFlight, Bit
<1>3. /\ WUnsent(s) = 0 /\ WUnsent(t) = 0
      /\ WBackedOff(s) = 0 /\ WBackedOff(t) = 1
      /\ AwaitsCTS(s) => WUnchecked(s) = 1 /\ WAnswered(s) = 0
      /\ AwaitsACK(s) => WUnchecked(s) = 0 /\ WAnswered(s) = 1
      /\ WUnchecked(t) = 0 /\ WAnswered(t) = 0
  BY <1>1, Fields DEF VectorOK, AwaitsCTS, AwaitsACK, MaySendData, Unsent,
     WUnsent, WBackedOff, WUnchecked, WAnswered, BackedOff, InFlight, Bit
<1> QED BY <1>1, <1>2, <1>3 DEF t

\* back_off: the packet waits for main again.
LEMMA EndBackOffVector ==
  ASSUME NEW s \in StateVector, VectorOK(s), BackedOff(s)
  PROVE  LET t == EndBackOff(s) IN
         /\ t \in StateVector /\ VectorOK(t)
         /\ WUnsent(s) = 0 /\ WUnsent(t) = 1
         /\ WBackedOff(s) = 1 /\ WBackedOff(t) = 0
         /\ WUnchecked(s) = 0 /\ WUnchecked(t) = 0
         /\ WAnswered(s) = 0 /\ WAnswered(t) = 0
<1> DEFINE t == EndBackOff(s)
<1>1. /\ t.send_stat = 0 /\ t.RTS_TX_NUM = s.RTS_TX_NUM
      /\ t.backoff_stat = 0 /\ t.CTS_RX_STAT = 0
      /\ t.CTS_RX_CK_STAT = 0 /\ t.ACK_RX_STAT = 0
      /\ t \in StateVector
  BY DEF EndBackOff, StateVector, Bit
<1> HIDE DEF t
<1>2. VectorOK(t)
  BY <1>1, Fields DEF VectorOK, BackedOff, Bit
<1>3. /\ WUnsent(s) = 0 /\ WUnsent(t) = 1
      /\ WBackedOff(s) = 1 /\ WBackedOff(t) = 0
      /\ WUnchecked(s) = 0 /\ WUnchecked(t) = 0
      /\ WAnswered(s) = 0 /\ WAnswered(t) = 0
  BY <1>1, Fields DEF VectorOK, Unsent, WUnsent, WBackedOff, WUnchecked,
     WAnswered, BackedOff, InFlight, Bit
<1> QED BY <1>1, <1>2, <1>3 DEF t

----------------------------------------------------------------------------
(***************************************************************************)
(* The steps of one packet.  Each of them changes what the packet          *)
(* contributes to the counts, and a timer or update_stat by as much.       *)
(***************************************************************************)
By(e, d, n) == IF e = d THEN n ELSE 0

\* The counts of node d change by u, b, c and a, those of the others not.
CountsChange(d, u, b, c, a) ==
  \A e \in Node :
    /\ Cardinality(UnsentOf(e)') = Cardinality(UnsentOf(e)) + By(e, d, u)
    /\ Cardinality(BackedOffOf(e)') = Cardinality(BackedOffOf(e)) + By(e, d, b)
    /\ Cardinality(UncheckedOf(e)') = Cardinality(UncheckedOf(e)) + By(e, d, c)
    /\ Cardinality(AnsweredOf(e)') = Cardinality(AnsweredOf(e)) + By(e, d, a)

\* So do update_stat and the numbers of timers.
TimersChange(d, u, b, c, a) ==
  \A e \in Node :
    /\ update_stat'[e] = update_stat[e] + By(e, d, u)
    /\ backoff_tmr'[e] = backoff_tmr[e] + By(e, d, b)
    /\ wait_tmr'["CTS"][e] + send_tmr'["RTS"][e]
         = wait_tmr["CTS"][e] + send_tmr["RTS"][e] + By(e, d, c)
    /\ wait_tmr'["ACK"][e] + send_tmr'["DATA"][e]
         = wait_tmr["ACK"][e] + send_tmr["DATA"][e] + By(e, d, a)

\* Counters and sets that change by the same amounts still agree.
LEMMA CountsKept ==
  ASSUME IInv, NEW d, NEW u, NEW b, NEW c, NEW a,
         CountsChange(d, u, b, c, a), TimersChange(d, u, b, c, a),
         pc = "exited" => pc' = "exited"
  PROVE  /\ UpdateStatExact' /\ BackOffTimersExact'
         /\ CtsTimersExact' /\ AckTimersExact'
<1>1. UpdateStatExact' /\ BackOffTimersExact'
  BY DEF IInv, UpdateStatExact, BackOffTimersExact, CountsChange, TimersChange
<1>2. CtsTimersExact' /\ AckTimersExact'
  BY DEF IInv, CtsTimersExact, AckTimersExact, CountsChange, TimersChange
<1> QED BY <1>1, <1>2

\* What is known of a packet in a queue.
LEMMA LivePacket ==
  ASSUME IInv, NEW p \in live
  PROVE  /\ p \in PacketId /\ live \subseteq PacketId /\ dst[p] \in Node
         /\ stat[p] \in StateVector /\ VectorOK(stat[p])
<1>1. p \in PacketId /\ live \subseteq PacketId
  BY BoundsAssumption DEF IInv, TypeOK, PacketId
<1>2. dst[p] \in Node /\ stat[p] \in StateVector
  BY <1>1 DEF IInv, TypeOK
<1>3. VectorOK(stat[p])
  BY VectorsOK DEF IInv
<1> QED BY <1>1, <1>2, <1>3

\* What packet p contributes to the sets of node e.
LEMMA Contribution ==
  ASSUME NEW p \in live, NEW e
  PROVE  /\ In(p, UnsentOf(e)) = By(e, dst[p], WUnsent(stat[p]))
         /\ In(p, BackedOffOf(e)) = By(e, dst[p], WBackedOff(stat[p]))
         /\ In(p, UncheckedOf(e)) = By(e, dst[p], WUnchecked(stat[p]))
         /\ In(p, AnsweredOf(e)) = By(e, dst[p], WAnswered(stat[p]))
BY DEF In, By, UnsentOf, BackedOffOf, UncheckedOf, AnsweredOf, StartedOf,
       Queue, WUnsent, WBackedOff, WUnchecked, WAnswered

\* A step that gives packet p, which stays in its queue, the vector t.
LEMMA VectorStep ==
  ASSUME IInv, NEW p \in live, NEW t \in StateVector, VectorOK(t),
         live' = live, arrived' = arrived, dst' = dst,
         stat' = [stat EXCEPT ![p] = t]
  PROVE  /\ stat' \in [PacketId -> StateVector]
         /\ StateVectorOK' /\ RetxBound'
         /\ CountsChange(dst[p], WUnsent(t) - WUnsent(stat[p]),
                                 WBackedOff(t) - WBackedOff(stat[p]),
                                 WUnchecked(t) - WUnchecked(stat[p]),
                                 WAnswered(t) - WAnswered(stat[p]))
<1>1. /\ TypeOK /\ live \subseteq PacketId /\ p \in PacketId
  BY LivePacket DEF IInv
<1>2. stat' \in [PacketId -> StateVector] /\ stat'[p] = t
  BY <1>1 DEF TypeOK
<1>3. \A q \in PacketId : q # p => stat'[q] = stat[q]
  BY <1>1 DEF TypeOK
<1>4. \A q \in live' : VectorOK(stat'[q])
  BY <1>1, <1>2, <1>3, LivePacket
<1>5. StateVectorOK' /\ RetxBound'
  BY <1>4 DEF StateVectorOK, RetxBound, VectorOK
<1>6. OnlyPacket(p) /\ live' \subseteq PacketId
  BY <1>1, <1>3 DEF OnlyPacket
<1>7. ASSUME NEW e \in Node
      PROVE  /\ In(p, UnsentOf(e)') = By(e, dst[p], WUnsent(t))
             /\ In(p, BackedOffOf(e)') = By(e, dst[p], WBackedOff(t))
             /\ In(p, UncheckedOf(e)') = By(e, dst[p], WUnchecked(t))
             /\ In(p, AnsweredOf(e)') = By(e, dst[p], WAnswered(t))
  BY <1>2
  DEF In, By, UnsentOf, BackedOffOf, UncheckedOf, AnsweredOf, StartedOf, Queue,
      WUnsent, WBackedOff, WUnchecked, WAnswered
<1>8. CountsChange(dst[p], WUnsent(t) - WUnsent(stat[p]),
                           WBackedOff(t) - WBackedOff(stat[p]),
                           WUnchecked(t) - WUnchecked(stat[p]),
                           WAnswered(t) - WAnswered(stat[p]))
  <2> SUFFICES ASSUME NEW e \in Node
      PROVE  /\ Cardinality(UnsentOf(e)') = Cardinality(UnsentOf(e))
                  + By(e, dst[p], WUnsent(t) - WUnsent(stat[p]))
             /\ Cardinality(BackedOffOf(e)') = Cardinality(BackedOffOf(e))
                  + By(e, dst[p], WBackedOff(t) - WBackedOff(stat[p]))
             /\ Cardinality(UncheckedOf(e)') = Cardinality(UncheckedOf(e))
                  + By(e, dst[p], WUnchecked(t) - WUnchecked(stat[p]))
             /\ Cardinality(AnsweredOf(e)') = Cardinality(AnsweredOf(e))
                  + By(e, dst[p], WAnswered(t) - WAnswered(stat[p]))
    BY DEF CountsChange
  <2>1. /\ WUnsent(t) \in Nat /\ WUnsent(stat[p]) \in Nat
        /\ WBackedOff(t) \in Nat /\ WBackedOff(stat[p]) \in Nat
        /\ WUnchecked(t) \in Nat /\ WUnchecked(stat[p]) \in Nat
        /\ WAnswered(t) \in Nat /\ WAnswered(stat[p]) \in Nat
    BY DEF WUnsent, WBackedOff, WUnchecked, WAnswered
  <2> QED BY <1>1, <1>6, <1>7, <2>1, Contribution, PacketStep, CountsNat DEF By
<1> QED BY <1>2, <1>5, <1>8

\* A step that takes packet p out of its queue.
LEMMA RemovalStep ==
  ASSUME IInv, NEW p \in live,
         live' = live \ {p}, arrived' = arrived, dst' = dst, stat' = stat
  PROVE  /\ live' \subseteq 1..arrived'
         /\ StateVectorOK' /\ RetxBound'
         /\ CountsChange(dst[p], 0 - WUnsent(stat[p]), 0 - WBackedOff(stat[p]),
                                 0 - WUnchecked(stat[p]), 0 - WAnswered(stat[p]))
<1>1. /\ TypeOK /\ live \subseteq PacketId /\ p \in PacketId
  BY LivePacket DEF IInv
<1>2. StateVectorOK' /\ RetxBound'
  BY LivePacket DEF StateVectorOK, RetxBound, VectorOK
<1>3. OnlyPacket(p) /\ live' \subseteq PacketId
  BY <1>1 DEF OnlyPacket
<1>4. ASSUME NEW e \in Node
      PROVE  /\ In(p, UnsentOf(e)') = 0 /\ In(p, BackedOffOf(e)') = 0
             /\ In(p, UncheckedOf(e)') = 0 /\ In(p, AnsweredOf(e)') = 0
  BY DEF In, UnsentOf, BackedOffOf, UncheckedOf, AnsweredOf, StartedOf, Queue
<1>5. CountsChange(dst[p], 0 - WUnsent(stat[p]), 0 - WBackedOff(stat[p]),
                           0 - WUnchecked(stat[p]), 0 - WAnswered(stat[p]))
  <2> SUFFICES ASSUME NEW e \in Node
      PROVE  /\ Cardinality(UnsentOf(e)') = Cardinality(UnsentOf(e))
                  + By(e, dst[p], 0 - WUnsent(stat[p]))
             /\ Cardinality(BackedOffOf(e)') = Cardinality(BackedOffOf(e))
                  + By(e, dst[p], 0 - WBackedOff(stat[p]))
             /\ Cardinality(UncheckedOf(e)') = Cardinality(UncheckedOf(e))
                  + By(e, dst[p], 0 - WUnchecked(stat[p]))
             /\ Cardinality(AnsweredOf(e)') = Cardinality(AnsweredOf(e))
                  + By(e, dst[p], 0 - WAnswered(stat[p]))
    BY DEF CountsChange
  <2>1. /\ WUnsent(stat[p]) \in Nat /\ WBackedOff(stat[p]) \in Nat
        /\ WUnchecked(stat[p]) \in Nat /\ WAnswered(stat[p]) \in Nat
    BY DEF WUnsent, WBackedOff, WUnchecked, WAnswered
  <2> QED BY <1>1, <1>3, <1>4, <2>1, Contribution, PacketStep, CountsNat DEF By
<1>6. live' \subseteq 1..arrived'
  BY DEF IInv, TypeOK
<1> QED BY <1>2, <1>5, <1>6

\* A step in which a handler finds no packet, fails and keeps its timer.
LEMMA FailedHandlerStep ==
  ASSUME IInv, UNCHANGED <<queueVars, timerVars, sleepVars, loopVars>>
  PROVE  IInv'
<1>1. PacketInv'
  BY QuietStep DEF loopVars
<1>2. TypeOK' /\ LoopOK' /\ SleepHasTimer'
  BY DEF IInv, TypeOK, LoopOK, SleepHasTimer, queueVars, timerVars,
         sleepVars, loopVars
<1> QED BY <1>1, <1>2 DEF IInv, PacketInv

\* back_off: the packet waits for main again.
LEMMA BackOffStep ==
  ASSUME IInv, NEW d \in Node, BackOff(d)
  PROVE  IInv'
<1>1. CASE BackedOffOf(d) = {}
  BY <1>1, FailedHandlerStep DEF BackOff, queueVars, timerVars
<1>2. CASE BackedOffOf(d) # {}
  <2>1. PICK p \in BackedOffOf(d) :
          /\ stat' = [stat EXCEPT ![p] = EndBackOff(@)]
          /\ update_stat' = [update_stat EXCEPT ![d] = @ + 1]
          /\ backoff_tmr' = Del(backoff_tmr, d)
    BY <1>2 DEF BackOff
  <2>2. /\ backoff_tmr[d] > 0
        /\ arrived' = arrived /\ live' = live /\ dst' = dst
        /\ send_tmr' = send_tmr /\ wait_tmr' = wait_tmr
        /\ UNCHANGED <<sleepVars, loopVars>>
    BY DEF BackOff
  <2> DEFINE s == stat[p]
             t == EndBackOff(s)
  <2>3. p \in live /\ dst[p] = d /\ BackedOff(s)
    BY DEF BackedOffOf, Queue
  <2>4. /\ t \in StateVector /\ VectorOK(t)
        /\ WUnsent(s) = 0 /\ WUnsent(t) = 1
        /\ WBackedOff(s) = 1 /\ WBackedOff(t) = 0
        /\ WUnchecked(s) = 0 /\ WUnchecked(t) = 0
        /\ WAnswered(s) = 0 /\ WAnswered(t) = 0
    BY <2>3, LivePacket, EndBackOffVector
  <2>5. stat' = [stat EXCEPT ![p] = t]
    BY <2>1
  <2> HIDE DEF t
  <2>6. /\ stat' \in [PacketId -> StateVector]
        /\ StateVectorOK' /\ RetxBound'
        /\ CountsChange(d, 1 - 0, 0 - 1, 0 - 0, 0 - 0)
    BY <2>2, <2>3, <2>4, <2>5, VectorStep
  <2>7. TimersChange(d, 1 - 0, 0 - 1, 0 - 0, 0 - 0)
    BY <2>1, <2>2 DEF IInv, TypeOK, TimersChange, Del, By, CfrmType, Feedback
  <2>8. TypeOK' /\ LoopOK' /\ SleepHasTimer'
    BY <2>1, <2>2, <2>6
    DEF IInv, TypeOK, LoopOK, SleepHasTimer, Del, sleepVars, loopVars
  <2>9. pc' = pc
    BY <2>2 DEF loopVars
  <2> QED BY <2>6, <2>7, <2>8, <2>9, CountsKept DEF IInv
<1> QED BY <1>1, <1>2

\* A search of wait_cfrm_fdbk backs off a packet that waits for a CTS or an
\* ACK: c and a say which.
LEMMA BackOffPacketStep ==
  ASSUME IInv, NEW d \in Node, NEW p \in live, dst[p] = d,
         BackOffPacket(p, d), NEW type \in Feedback, wait_tmr[type][d] > 0,
         \/ type = "CTS" /\ AwaitsCTS(stat[p])
         \/ type = "ACK" /\ AwaitsACK(stat[p]),
         wait_tmr' = DelOf(wait_tmr, type, d),
         UNCHANGED <<arrived, live, dst, update_stat, send_tmr, sleepVars,
                     loopVars>>
  PROVE  IInv'
<1> DEFINE s == stat[p]
           t == StartBackOff(s)
           c == IF type = "CTS" THEN 1 ELSE 0
           a == IF type = "ACK" THEN 1 ELSE 0
<1>1. /\ arrived' = arrived /\ live' = live /\ dst' = dst
      /\ update_stat' = update_stat /\ send_tmr' = send_tmr
      /\ stat' = [stat EXCEPT ![p] = t] /\ backoff_tmr' = Add(backoff_tmr, d)
  BY DEF BackOffPacket
<1>2. /\ t \in StateVector /\ VectorOK(t)
      /\ WUnsent(s) = 0 /\ WUnsent(t) = 0
      /\ WBackedOff(s) = 0 /\ WBackedOff(t) = 1
      /\ WUnchecked(s) = c /\ WUnchecked(t) = 0
      /\ WAnswered(s) = a /\ WAnswered(t) = 0
  BY LivePacket, StartBackOffVector
<1> HIDE DEF t
<1>3. /\ stat' \in [PacketId -> StateVector]
      /\ StateVectorOK' /\ RetxBound'
      /\ CountsChange(d, 0 - 0, 1 - 0, 0 - c, 0 - a)
  BY <1>1, <1>2, VectorStep
<1>4. TimersChange(d, 0 - 0, 1 - 0, 0 - c, 0 - a)
  BY <1>1 DEF IInv, TypeOK, TimersChange, Add, DelOf, By, CfrmType, Feedback
<1>5. TypeOK' /\ LoopOK' /\ SleepHasTimer'
  BY <1>1, <1>3
  DEF IInv, TypeOK, LoopOK, SleepHasTimer, Add, DelOf, Feedback, sleepVars,
      loopVars
<1>6. pc' = pc
  BY DEF loopVars
<1> QED BY <1>3, <1>4, <1>5, <1>6, CountsKept DEF IInv

\* wait_cfrm_fdbk(CTS).
LEMMA WaitCTSStep ==
  ASSUME IInv, NEW d \in Node, WaitCTS(d)
  PROVE  IInv'
<1>1. CASE /\ HasCTSOf(d) = {} /\ AwaitsCTSOf(d) = {}
  BY <1>1, FailedHandlerStep DEF WaitCTS, queueVars, timerVars
<1>2. CASE HasCTSOf(d) # {}
  <2>1. PICK p \in HasCTSOf(d) :
          /\ stat' = [stat EXCEPT ![p] = CheckCTS(@)]
          /\ wait_tmr' = DelOf(wait_tmr, "CTS", d)
          /\ backoff_tmr' = backoff_tmr
    BY <1>2 DEF WaitCTS
  <2>2. /\ wait_tmr["CTS"][d] > 0
        /\ arrived' = arrived /\ live' = live /\ dst' = dst
        /\ update_stat' = update_stat /\ send_tmr' = send_tmr
        /\ UNCHANGED <<sleepVars, loopVars>>
    BY DEF WaitCTS
  <2> DEFINE s == stat[p]
             t == CheckCTS(s)
  <2>3. p \in live /\ dst[p] = d /\ HasCTS(s)
    BY DEF HasCTSOf, Queue
  <2>4. /\ t \in StateVector /\ VectorOK(t)
        /\ WUnsent(s) = 0 /\ WUnsent(t) = 0
        /\ WBackedOff(s) = 0 /\ WBackedOff(t) = 0
        /\ WUnchecked(s) = 1 /\ WUnchecked(t) = 0
        /\ WAnswered(s) = 1 /\ WAnswered(t) = 1
    BY <2>3, LivePacket, CheckCTSVector
  <2>5. stat' = [stat EXCEPT ![p] = t]
    BY <2>1
  <2> HIDE DEF t
  <2>6. /\ stat' \in [PacketId -> StateVector]
        /\ StateVectorOK' /\ RetxBound'
        /\ CountsChange(d, 0 - 0, 0 - 0, 0 - 1, 1 - 1)
    BY <2>2, <2>3, <2>4, <2>5, VectorStep
  <2>7. TimersChange(d, 0 - 0, 0 - 0, 0 - 1, 1 - 1)
    BY <2>1, <2>2 DEF IInv, TypeOK, TimersChange, DelOf, By, CfrmType, Feedback
  <2>8. TypeOK' /\ LoopOK' /\ SleepHasTimer'
    BY <2>1, <2>2, <2>6
    DEF IInv, TypeOK, LoopOK, SleepHasTimer, DelOf, Feedback, sleepVars,
        loopVars
  <2>9. pc' = pc
    BY <2>2 DEF loopVars
  <2> QED BY <2>6, <2>7, <2>8, <2>9, CountsKept DEF IInv
<1>3. CASE HasCTSOf(d) = {} /\ AwaitsCTSOf(d) # {}
  <2>1. PICK p \in AwaitsCTSOf(d) :
          /\ BackOffPacket(p, d)
          /\ wait_tmr' = DelOf(wait_tmr, "CTS", d)
    BY <1>3 DEF WaitCTS
  <2>2. p \in live /\ dst[p] = d /\ AwaitsCTS(stat[p])
    BY DEF AwaitsCTSOf, Queue
  <2>3. /\ wait_tmr["CTS"][d] > 0 /\ "CTS" \in Feedback
        /\ UNCHANGED <<arrived, live, dst, update_stat, send_tmr, sleepVars,
                       loopVars>>
    BY DEF WaitCTS, Feedback
  <2> QED BY <2>1, <2>2, <2>3, BackOffPacketStep
<1> QED BY <1>1, <1>2, <1>3

\* wait_cfrm_fdbk(ACK).
LEMMA WaitACKStep ==
  ASSUME IInv, NEW d \in Node, WaitACK(d)
  PROVE  IInv'
<1>1. CASE /\ HasACKOf(d) = {} /\ AwaitsACKOf(d) = {}
  BY <1>1, FailedHandlerStep DEF WaitACK, queueVars, timerVars
<1>2. CASE HasACKOf(d) # {}
  <2>1. PICK p \in HasACKOf(d) :
          /\ live' = live \ {p}
          /\ wait_tmr' = DelOf(wait_tmr, "ACK", d)
          /\ stat' = stat /\ backoff_tmr' = backoff_tmr
    BY <1>2 DEF WaitACK
  <2>2. /\ wait_tmr["ACK"][d] > 0
        /\ arrived' = arrived /\ dst' = dst
        /\ update_stat' = update_stat /\ send_tmr' = send_tmr
        /\ UNCHANGED <<sleepVars, loopVars>>
    BY DEF WaitACK
  <2> DEFINE s == stat[p]
  <2>3. p \in live /\ dst[p] = d /\ HasACK(s)
    BY DEF HasACKOf, Queue
  <2>4. /\ WUnsent(s) = 0 /\ WBackedOff(s) = 0
        /\ WUnchecked(s) = 0 /\ WAnswered(s) = 1
    BY <2>3, LivePacket, Fields
    DEF HasACK, MaySendData, InFlight, WUnsent, WBackedOff, WUnchecked,
        WAnswered, Unsent, BackedOff, Bit
  <2>5. /\ live' \subseteq 1..arrived'
        /\ StateVectorOK' /\ RetxBound'
        /\ CountsChange(d, 0 - 0, 0 - 0, 0 - 0, 0 - 1)
    BY <2>1, <2>2, <2>3, <2>4, RemovalStep
  <2>6. TimersChange(d, 0 - 0, 0 - 0, 0 - 0, 0 - 1)
    BY <2>1, <2>2 DEF IInv, TypeOK, TimersChange, DelOf, By, CfrmType, Feedback
  <2>7. TypeOK' /\ LoopOK' /\ SleepHasTimer'
    BY <2>1, <2>2, <2>5
    DEF IInv, TypeOK, LoopOK, SleepHasTimer, DelOf, Feedback, sleepVars,
        loopVars
  <2>8. pc' = pc
    BY <2>2 DEF loopVars
  <2> QED BY <2>5, <2>6, <2>7, <2>8, CountsKept DEF IInv
<1>3. CASE HasACKOf(d) = {} /\ AwaitsACKOf(d) # {}
  <2>1. PICK p \in AwaitsACKOf(d) :
          /\ BackOffPacket(p, d)
          /\ wait_tmr' = DelOf(wait_tmr, "ACK", d)
    BY <1>3 DEF WaitACK
  <2>2. p \in live /\ dst[p] = d /\ AwaitsACK(stat[p])
    BY DEF AwaitsACKOf, Queue
  <2>3. /\ wait_tmr["ACK"][d] > 0 /\ "ACK" \in Feedback
        /\ UNCHANGED <<arrived, live, dst, update_stat, send_tmr, sleepVars,
                       loopVars>>
    BY <1>3 DEF WaitACK, Feedback
  <2> QED BY <2>1, <2>2, <2>3, BackOffPacketStep
<1> QED BY <1>1, <1>2, <1>3

\* The walk of a queue by main: a packet is dropped, sent or passed by.
LEMMA WalkQueueStep ==
  ASSUME IInv, WalkQueue
  PROVE  IInv'
<1>1. PICK p \in Ahead : /\ GiveUp(p) \/ StartPacket(p) \/ PassPacket(p)
                         /\ pkt_temp' = p
  BY DEF WalkQueue
<1>2. /\ pc = "walk" /\ pc' = pc /\ i' = i /\ frame' = frame
      /\ frames' = frames /\ UNCHANGED sleepVars /\ i \in Node
  BY DEF WalkQueue, IInv, LoopOK
<1>3. p \in live /\ dst[p] = i
  BY DEF Ahead, Queue
<1>4. p \in 0..MaxPackets
  BY <1>3, LivePacket, BoundsAssumption DEF PacketId
<1>5. LoopOK' /\ SleepHasTimer'
  BY <1>2 DEF IInv, LoopOK, SleepHasTimer, sleepVars
<1> DEFINE s == stat[p]
           t == StartSending(s)
<1>6. CASE PassPacket(p)
  <2>1. PacketInv'
    BY <1>2, <1>6, QuietStep DEF PassPacket
  <2>2. TypeOK'
    BY <1>1, <1>2, <1>4, <1>6
    DEF IInv, TypeOK, PassPacket, queueVars, timerVars, sleepVars
  <2> QED BY <1>5, <2>1, <2>2 DEF IInv, PacketInv
<1>7. CASE GiveUp(p)
  <2>1. /\ live' = live \ {p} /\ Unsent(s)
        /\ update_stat' = [update_stat EXCEPT ![i] = @ - 1]
        /\ arrived' = arrived /\ dst' = dst /\ stat' = stat
        /\ send_tmr' = send_tmr /\ wait_tmr' = wait_tmr
        /\ backoff_tmr' = backoff_tmr
    BY <1>7 DEF GiveUp, timerVars
  <2>2. /\ WUnsent(s) = 1 /\ WBackedOff(s) = 0
        /\ WUnchecked(s) = 0 /\ WAnswered(s) = 0
    BY <2>1 DEF Unsent, WUnsent, WBackedOff, WUnchecked, WAnswered, InFlight,
                BackedOff
  <2>3. /\ live' \subseteq 1..arrived'
        /\ StateVectorOK' /\ RetxBound'
        /\ CountsChange(i, 0 - 1, 0 - 0, 0 - 0, 0 - 0)
    BY <1>3, <2>1, <2>2, RemovalStep
  <2>4. TimersChange(i, 0 - 1, 0 - 0, 0 - 0, 0 - 0)
    BY <1>2, <2>1 DEF IInv, TypeOK, TimersChange, By, CfrmType, Feedback
  <2>5. TypeOK'
    BY <1>1, <1>2, <1>4, <2>1, <2>3 DEF IInv, TypeOK, sleepVars
  <2> QED BY <1>2, <1>5, <2>3, <2>4, <2>5, CountsKept DEF IInv
<1>8. CASE StartPacket(p)
  <2>1. /\ Unsent(s) /\ s.RTS_TX_NUM < MAX_RETX_NUM
        /\ SendRTS(i, send_tmr)
        /\ stat' = [stat EXCEPT ![p] = t]
        /\ update_stat' = [update_stat EXCEPT ![i] = @ - 1]
        /\ arrived' = arrived /\ live' = live /\ dst' = dst
        /\ backoff_tmr' = backoff_tmr
    BY <1>8 DEF StartPacket
  <2>2. /\ t \in StateVector /\ VectorOK(t)
        /\ WUnsent(s) = 1 /\ WUnsent(t) = 0
        /\ WBackedOff(s) = 0 /\ WBackedOff(t) = 0
        /\ WUnchecked(s) = 0 /\ WUnchecked(t) = 1
        /\ WAnswered(s) = 0 /\ WAnswered(t) = 0
    BY <1>3, <2>1, LivePacket, StartSendingVector
  <2> HIDE DEF t
  <2>3. /\ stat' \in [PacketId -> StateVector]
        /\ StateVectorOK' /\ RetxBound'
        /\ CountsChange(i, 0 - 1, 0 - 0, 1 - 0, 0 - 0)
    BY <1>3, <2>1, <2>2, VectorStep
  <2>4. TimersChange(i, 0 - 1, 0 - 0, 1 - 0, 0 - 0)
    BY <1>2, <2>1
    DEF IInv, TypeOK, TimersChange, SendRTS, AddOf, By, CfrmType, Feedback
  <2>5. /\ send_tmr' \in [CfrmType -> [Node -> Nat]]
        /\ wait_tmr' \in [Feedback -> [Node -> Nat]]
    BY <1>2, <2>1 DEF IInv, TypeOK, SendRTS, AddOf, CfrmType, Feedback
  <2>6. TypeOK'
    BY <1>1, <1>2, <1>4, <2>1, <2>3, <2>5 DEF IInv, TypeOK, sleepVars
  <2> QED BY <1>2, <1>5, <2>3, <2>4, <2>6, CountsKept DEF IInv
<1> QED BY <1>1, <1>6, <1>7, <1>8

\* proc_cfrm: an RTS or DATA frame sets a timer, a CTS or an ACK finds the
\* packet it answers or ends the process.
LEMMA ProcCfrmStep ==
  ASSUME IInv, ProcCfrm
  PROVE  IInv'
<1> DEFINE d == frame.src
<1>1. /\ pc = "mac_DOTS" /\ arrived' = arrived /\ live' = live /\ dst' = dst
      /\ update_stat' = update_stat /\ wait_tmr' = wait_tmr
      /\ backoff_tmr' = backoff_tmr /\ UNCHANGED sleepVars
      /\ i' = i /\ pkt_temp' = pkt_temp /\ frames' = frames
      /\ frame' = NoFrame
  BY DEF ProcCfrm
<1>2. d \in Node
  BY <1>1 DEF IInv, LoopOK, Frame, Adjacent
<1>3. pc' \in {"net", "exited"}
  BY DEF ProcCfrm, Answer, ProcCTS, ProcACK
<1>4. LoopOK' /\ SleepHasTimer'
  BY <1>1, <1>3 DEF IInv, TypeOK, LoopOK, SleepHasTimer, sleepVars, Sleeper
<1>5. send_tmr' \in [CfrmType -> [Node -> Nat]]
  <2>1. \/ send_tmr' = send_tmr
        \/ \E t \in CfrmType : send_tmr' = AddOf(send_tmr, t, d)
    BY DEF ProcCfrm, Answer, ProcCTS, ProcACK, CfrmType
  <2>2. send_tmr \in [CfrmType -> [Node -> Nat]]
    BY DEF IInv, TypeOK
  <2> HIDE DEF d
  <2>3. ASSUME NEW t \in CfrmType
        PROVE  AddOf(send_tmr, t, d) \in [CfrmType -> [Node -> Nat]]
    <3>1. send_tmr[t] \in [Node -> Nat] /\ send_tmr[t][d] + 1 \in Nat
      BY <1>2, <2>2
    <3> QED BY <1>2, <2>2, <3>1 DEF AddOf
  <2> QED BY <2>1, <2>2, <2>3
<1>6. stat' \in [PacketId -> StateVector] => TypeOK'
  BY <1>1, <1>3, <1>5 DEF IInv, TypeOK, sleepVars
<1> HIDE DEF d
<1>7. CASE Answer("RTS", "CTS") \/ Answer("DATA", "ACK")
  <2>1. /\ stat' = stat /\ pc' = "net"
        /\ \/ send_tmr' = AddOf(send_tmr, "CTS", d)
           \/ send_tmr' = AddOf(send_tmr, "ACK", d)
    BY <1>7 DEF Answer, d
  <2>2. TypeOK'
    BY <1>6, <2>1 DEF IInv, TypeOK
  <2>3. StateVectorOK' /\ RetxBound'
    BY <1>1, <2>1 DEF IInv, StateVectorOK, RetxBound
  <2>4. UpdateStatExact' /\ BackOffTimersExact'
    BY <1>1, <2>1, NoPacketStep DEF IInv, UpdateStatExact, BackOffTimersExact
  <2>5. \A e \in Node : /\ send_tmr'["RTS"][e] = send_tmr["RTS"][e]
                        /\ send_tmr'["DATA"][e] = send_tmr["DATA"][e]
    BY <1>2, <2>1 DEF IInv, TypeOK, AddOf, CfrmType
  <2>6. CtsTimersExact' /\ AckTimersExact'
    BY <1>1, <2>1, <2>5, NoPacketStep DEF IInv, CtsTimersExact, AckTimersExact
  <2> QED BY <1>4, <2>2, <2>3, <2>4, <2>6 DEF IInv
<1>8. CASE ProcCTS /\ AwaitsCTSOf(d) # {}
  <2>1. PICK p \in AwaitsCTSOf(d) : /\ stat' = [stat EXCEPT ![p] = RecordCTS(@)]
                                    /\ pc' = "net"
    BY <1>8 DEF ProcCTS, d
  <2>2. send_tmr' = AddOf(send_tmr, "DATA", d)
    BY <1>8 DEF ProcCTS, d
  <2> DEFINE s == stat[p]
             t == RecordCTS(s)
  <2>3. p \in live /\ dst[p] = d /\ AwaitsCTS(s)
    BY DEF AwaitsCTSOf, Queue
  <2>4. /\ t \in StateVector /\ VectorOK(t)
        /\ WUnsent(s) = 0 /\ WUnsent(t) = 0
        /\ WBackedOff(s) = 0 /\ WBackedOff(t) = 0
        /\ WUnchecked(s) = 1 /\ WUnchecked(t) = 1
        /\ WAnswered(s) = 0 /\ WAnswered(t) = 1
    BY <2>3, LivePacket, RecordCTSVector
  <2>5. stat' = [stat EXCEPT ![p] = t]
    BY <2>1
  <2> HIDE DEF t
  <2>6. /\ stat' \in [PacketId -> StateVector]
        /\ StateVectorOK' /\ RetxBound'
        /\ CountsChange(d, 0 - 0, 0 - 0, 1 - 1, 1 - 0)
    BY <1>1, <2>3, <2>4, <2>5, VectorStep
  <2>7. TimersChange(d, 0 - 0, 0 - 0, 1 - 1, 1 - 0)
    BY <1>1, <1>2, <2>2
    DEF IInv, TypeOK, TimersChange, AddOf, By, CfrmType, Feedback
  <2> QED BY <1>1, <1>4, <1>6, <2>6, <2>7, CountsKept DEF IInv
<1>9. CASE ProcACK /\ AwaitsACKOf(d) # {}
  <2>1. PICK p \in AwaitsACKOf(d) : /\ stat' = [stat EXCEPT ![p] = RecordACK(@)]
                                    /\ pc' = "net"
    BY <1>9 DEF ProcACK, d
  <2>2. send_tmr' = send_tmr
    BY <1>9 DEF ProcACK
  <2> DEFINE s == stat[p]
             t == RecordACK(s)
  <2>3. p \in live /\ dst[p] = d /\ AwaitsACK(s)
    BY DEF AwaitsACKOf, Queue
  <2>4. /\ t \in StateVector /\ VectorOK(t)
        /\ WUnsent(s) = 0 /\ WUnsent(t) = 0
        /\ WBackedOff(s) = 0 /\ WBackedOff(t) = 0
        /\ WUnchecked(s) = 0 /\ WUnchecked(t) = 0
        /\ WAnswered(s) = 1 /\ WAnswered(t) = 1
    BY <2>3, LivePacket, RecordACKVector
  <2>5. stat' = [stat EXCEPT ![p] = t]
    BY <2>1
  <2> HIDE DEF t
  <2>6. /\ stat' \in [PacketId -> StateVector]
        /\ StateVectorOK' /\ RetxBound'
        /\ CountsChange(d, 0 - 0, 0 - 0, 0 - 0, 1 - 1)
    BY <1>1, <2>3, <2>4, <2>5, VectorStep
  <2>7. TimersChange(d, 0 - 0, 0 - 0, 0 - 0, 1 - 1)
    BY <1>1, <1>2, <2>2
    DEF IInv, TypeOK, TimersChange, By, CfrmType, Feedback
  <2> QED BY <1>1, <1>4, <1>6, <2>6, <2>7, CountsKept DEF IInv
<1>10. CASE \/ ProcCTS /\ AwaitsCTSOf(d) = {}
            \/ ProcACK /\ AwaitsACKOf(d) = {}
  <2>1. /\ stat' = stat /\ pc' = "exited"
        /\ \/ send_tmr' = AddOf(send_tmr, "DATA", d)
           \/ send_tmr' = send_tmr
    BY <1>10 DEF ProcCTS, ProcACK, d
  <2>2. TypeOK'
    BY <1>6, <2>1 DEF IInv, TypeOK
  <2>3. StateVectorOK' /\ RetxBound'
    BY <1>1, <2>1 DEF IInv, StateVectorOK, RetxBound
  <2>4. UpdateStatExact' /\ BackOffTimersExact'
    BY <1>1, <2>1, NoPacketStep DEF IInv, UpdateStatExact, BackOffTimersExact
  <2>5. \A e \in Node : send_tmr'["RTS"][e] = send_tmr["RTS"][e]
    BY <1>2, <2>1 DEF IInv, TypeOK, AddOf, CfrmType
  <2>6. CtsTimersExact' /\ AckTimersExact'
    BY <1>1, <2>1, <2>5, NoPacketStep DEF IInv, CtsTimersExact, AckTimersExact
  <2> QED BY <1>4, <2>2, <2>3, <2>4, <2>6 DEF IInv
<1> QED BY <1>7, <1>8, <1>9, <1>10 DEF ProcCfrm

----------------------------------------------------------------------------
\* add_pkt: the packet joins its queue and is counted in update_stat.
LEMMA AddPacketStep ==
  ASSUME IInv, AddPacket
  PROVE  IInv'
<1> DEFINE p == arrived + 1
<1>1. PICK d \in Adjacent :
        /\ dst' = [dst EXCEPT ![p] = d]
        /\ update_stat' = [update_stat EXCEPT ![d] = @ + 1]
  BY DEF AddPacket
<1>2. /\ pc = "net" /\ pc' = "check" /\ i' = 1 /\ arrived < MaxPackets
      /\ arrived' = p /\ live' = live \cup {p}
      /\ stat' = [stat EXCEPT ![p] = NewPacket]
      /\ UNCHANGED <<timerVars, sleepVars, pkt_temp, frame, frames>>
  BY DEF AddPacket, NextIteration
<1>3. /\ d \in Node /\ p \in PacketId /\ p \notin live
      /\ arrived' \in 0..MaxPackets /\ live' \subseteq 1..arrived'
  BY <1>2, BoundsAssumption DEF IInv, TypeOK, Adjacent, PacketId
<1> HIDE DEF p
<1>4. stat' \in [PacketId -> StateVector] /\ dst' \in [PacketId -> Node]
  BY <1>1, <1>2, <1>3, NewPacketVector DEF IInv, TypeOK
<1>5. update_stat' \in [Node -> Int]
  BY <1>1, <1>3 DEF IInv, TypeOK
<1>6. TypeOK'
  BY <1>2, <1>3, <1>4, <1>5, NodesAssumption
  DEF IInv, TypeOK, timerVars, sleepVars
<1>7. LoopOK' /\ SleepHasTimer'
  BY <1>2 DEF IInv, LoopOK, SleepHasTimer, sleepVars, Sleeper
<1>8. \A q \in live : q \in PacketId /\ stat'[q] = stat[q] /\ dst'[q] = dst[q]
  <2>1. /\ live \subseteq PacketId
        /\ stat \in [PacketId -> StateVector] /\ dst \in [PacketId -> Node]
    BY BoundsAssumption DEF IInv, TypeOK, PacketId
  <2> QED BY <1>1, <1>2, <1>3, <2>1
<1>9. /\ stat'[p] = NewPacket /\ dst'[p] = d
  BY <1>1, <1>2, <1>3 DEF IInv, TypeOK
<1>10. StateVectorOK' /\ RetxBound'
  <2>1. \A q \in live' : VectorOK(stat'[q])
    BY <1>2, <1>8, <1>9, NewPacketVector, VectorsOK DEF IInv
  <2> QED BY <2>1 DEF VectorOK, StateVectorOK, RetxBound
<1>11. \A e \in Node :
         /\ UnsentOf(e)' = IF e = d THEN UnsentOf(e) \cup {p} ELSE UnsentOf(e)
         /\ BackedOffOf(e)' = BackedOffOf(e)
         /\ UncheckedOf(e)' = UncheckedOf(e)
         /\ AnsweredOf(e)' = AnsweredOf(e)
  <2>1. /\ Unsent(stat'[p]) /\ ~BackedOff(stat'[p]) /\ ~InFlight(stat'[p])
    BY <1>9 DEF NewPacket, Unsent, BackedOff, InFlight
  <2> QED BY <1>2, <1>8, <1>9, <2>1
          DEF UnsentOf, BackedOffOf, UncheckedOf, AnsweredOf, StartedOf, Queue
<1>12. UpdateStatExact'
  <2>1. \A e \in Node : IsFiniteSet(UnsentOf(e)) /\ p \notin UnsentOf(e)
    BY <1>3, QueuesFinite DEF IInv, UnsentOf, Queue
  <2>2. \A e \in Node : Cardinality(UnsentOf(e) \cup {p})
                          = Cardinality(UnsentOf(e)) + 1
    BY <2>1, FS_AddElement
  <2> QED BY <1>1, <1>3, <1>11, <2>2 DEF IInv, TypeOK, UpdateStatExact
<1>13. BackOffTimersExact' /\ CtsTimersExact' /\ AckTimersExact'
  BY <1>2, <1>11
  DEF IInv, BackOffTimersExact, CtsTimersExact, AckTimersExact, timerVars
<1> QED BY <1>6, <1>7, <1>10, <1>12, <1>13 DEF IInv

----------------------------------------------------------------------------
(***************************************************************************)
(* Every step keeps the invariant.                                         *)
(***************************************************************************)
LEMMA NextIInv == IInv /\ [Next]_vars => IInv'
<1> SUFFICES ASSUME IInv, [Next]_vars PROVE IInv'
  OBVIOUS
<1>1. CASE UNCHANGED vars
  <2>1. UNCHANGED <<queueVars, timerVars>> /\ UNCHANGED <<sleepVars, loopVars>>
    BY <1>1 DEF vars
  <2>2. PacketInv'
    BY <2>1, QuietStep DEF loopVars
  <2>3. TypeOK' /\ LoopOK' /\ SleepHasTimer'
    BY <2>1 DEF IInv, TypeOK, LoopOK, SleepHasTimer, queueVars, timerVars,
       sleepVars, loopVars
  <2> QED BY <2>2, <2>3 DEF IInv, PacketInv
<1>2. CASE Main
  BY <1>2, LoopStep, SleepStep, WalkQueueStep, ProcCfrmStep, AddPacketStep
  DEF Main
<1>3. CASE Timers
  <2>1. CASE \E d \in Node : RetryRTS(d) \/ SendData(d)
    BY <2>1, SendTimerStep
  <2>2. CASE \E d \in Node, type \in {"CTS", "ACK"} : SendReply(type, d)
    BY <2>2, SendTimerStep
  <2>3. CASE \E d \in Node : WaitCTS(d)
    BY <2>3, WaitCTSStep
  <2>4. CASE \E d \in Node : WaitACK(d)
    BY <2>4, WaitACKStep
  <2>5. CASE \E d \in Node : BackOff(d)
    BY <2>5, BackOffStep
  <2>6. CASE \E s \in Sleeper : VSleep(s)
    BY <2>6, VSleepStep
  <2> QED BY <1>3, <2>1, <2>2, <2>3, <2>4, <2>5, <2>6 DEF Timers
<1>4. CASE Exited
  BY <1>1, <1>4 DEF Exited
<1> QED BY <1>1, <1>2, <1>3, <1>4 DEF Next

(***************************************************************************)
(* The theorems: what every schedule of main, timers and arriving frames   *)
(* keeps, for any number of nodes, packets and frames.                     *)
(***************************************************************************)
\* The inductive invariant is an invariant.
THEOREM Invariance == Spec => []IInv
<1> QED BY InitIInv, NextIInv, PTL DEF Spec

\* Every variable keeps its type.
THEOREM TypeCorrect == Spec => []TypeOK
<1>1. IInv => TypeOK
  BY DEF IInv
<1> QED BY <1>1, Invariance, PTL

\* No packet that main has to send is forgotten, and none is counted twice:
\* update_stat is the number of packets that wait in the queue.
THEOREM UpdateStatCorrect == Spec => []UpdateStatExact
<1>1. IInv => UpdateStatExact
  BY DEF IInv
<1> QED BY <1>1, Invariance, PTL

\* There are as many waits for a CTS, and RTSs put off, as packets whose CTS is
\* not checked; as many waits for an ACK, and transmissions of data, as packets
\* whose CTS is; and as many back-off timers as packets that are backed off:
\* no search by state vector leaves a timer or a packet behind.
THEOREM TimersCorrect == Spec => []TimersExact
<1>1. IInv => TimersExact
  BY DEF IInv, TimersExact
<1> QED BY <1>1, Invariance, PTL

\* Only the state vectors of the protocol occur, so that the searches by state
\* vector never find a packet in two phases at once.
THEOREM VectorsConsistent == Spec => []StateVectorOK
<1>1. IInv => StateVectorOK
  BY DEF IInv
<1> QED BY <1>1, Invariance, PTL

\* No packet is transmitted more often than MAX_RETX_NUM allows.
THEOREM RetxBounded == Spec => []RetxBound
<1>1. IInv => RetxBound
  BY DEF IInv
<1> QED BY <1>1, Invariance, PTL

\* A busy-wait of main has the timer that ends it.
THEOREM SleepCorrect == Spec => []SleepHasTimer
<1>1. IInv => SleepHasTimer
  BY DEF IInv
<1> QED BY <1>1, Invariance, PTL

\* The handlers of wait_cfrm_fdbk(CTS) and back_off do not fail.
THEOREM HandlersFindPacket == Spec => []TimeoutFindsPacket
<1>1. IInv => TimeoutFindsPacket
  <2> SUFFICES ASSUME IInv, NEW d \in Node
               PROVE  /\ wait_tmr["CTS"][d] > 0
                           => HasCTSOf(d) # {} \/ AwaitsCTSOf(d) # {}
                      /\ backoff_tmr[d] > 0 => BackedOffOf(d) # {}
    BY DEF TimeoutFindsPacket
  <2>1. /\ wait_tmr["CTS"][d] \in Nat /\ send_tmr["RTS"][d] \in Nat
        /\ backoff_tmr[d] \in Nat
    BY DEF IInv, TypeOK, CfrmType, Feedback
  <2>2. backoff_tmr[d] > 0 => BackedOffOf(d) # {}
    <3>1. backoff_tmr[d] = Cardinality(BackedOffOf(d))
      BY DEF IInv, BackOffTimersExact
    <3>2. Cardinality({}) = 0
      BY FS_EmptySet
    <3> QED BY <3>1, <3>2
  <2>3. wait_tmr["CTS"][d] > 0 => UncheckedOf(d) # {}
    <3>1. wait_tmr["CTS"][d] + send_tmr["RTS"][d] = Cardinality(UncheckedOf(d))
      BY DEF IInv, CtsTimersExact
    <3>2. Cardinality({}) = 0
      BY FS_EmptySet
    <3> HIDE DEF UncheckedOf
    <3> QED BY <2>1, <3>1, <3>2
  <2>4. \A p \in UncheckedOf(d) : p \in HasCTSOf(d) \cup AwaitsCTSOf(d)
    <3> SUFFICES ASSUME NEW p \in UncheckedOf(d)
                 PROVE  p \in HasCTSOf(d) \cup AwaitsCTSOf(d)
      OBVIOUS
    <3>1. p \in Queue(d) /\ InFlight(stat[p]) /\ stat[p].CTS_RX_CK_STAT = 0
      BY DEF UncheckedOf, StartedOf
    <3>2. stat[p].CTS_RX_STAT \in Bit
      BY <3>1, LivePacket, Fields DEF Queue
    <3> QED BY <3>1, <3>2 DEF HasCTSOf, AwaitsCTSOf, HasCTS, AwaitsCTS, Bit
  <2> QED BY <2>2, <2>3, <2>4
<1> QED BY <1>1, Invariance, PTL

----------------------------------------------------------------------------
(***************************************************************************)
(* The queues of the MAC process implement the service of RetxService:     *)
(* every step of main and of a timer is a step of one packet there, or     *)
(* none.                                                                   *)
(***************************************************************************)
\* The initial states are initial states of the service.
LEMMA InitService == Init => Service!Init
<1> SUFFICES ASSUME Init PROVE Service!Init
  OBVIOUS
<1>1. arrived = 0 /\ \A p \in PacketId : ~(p <= arrived)
  BY DEF Init, PacketId
<1>2. \A p \in PacketId : PhaseOf(p) = "absent"
  BY <1>1, BoundsAssumption DEF Init, PhaseOf, PacketId
<1> QED BY <1>1, <1>2 DEF Service!Init, phaseMap, triesMap

----------------------------------------------------------------------------
(***************************************************************************)
(* A step that changes one packet at most.                                 *)
(***************************************************************************)
TriesOf(p) == IF p <= arrived THEN stat[p].RTS_TX_NUM ELSE 0

\* No other packet than p changes its phase or its tries.
OnlyPhase(p) ==
  \A q \in PacketId \ {p} : PhaseOf(q)' = PhaseOf(q) /\ TriesOf(q)' = TriesOf(q)

\* A step that changes neither phase nor tries of p is a stutter.
LEMMA Stutter ==
  ASSUME NEW p \in PacketId, OnlyPhase(p),
         PhaseOf(p)' = PhaseOf(p), TriesOf(p)' = TriesOf(p)
  PROVE  UNCHANGED Service!serviceVars
<1>1. \A q \in PacketId : PhaseOf(q)' = PhaseOf(q) /\ TriesOf(q)' = TriesOf(q)
  BY DEF OnlyPhase
<1>2. phaseMap' = phaseMap /\ triesMap' = triesMap
  BY <1>1 DEF phaseMap, triesMap, TriesOf
<1> QED BY <1>2 DEF Service!serviceVars

\* Only p moves from one phase to another.
LEMMA PhaseMove ==
  ASSUME NEW p \in PacketId, OnlyPhase(p)
  PROVE  Service!Move(p, PhaseOf(p), PhaseOf(p)')
<1>1. \A q \in PacketId \ {p} : PhaseOf(q)' = PhaseOf(q)
  BY DEF OnlyPhase
<1>2. phaseMap' = [phaseMap EXCEPT ![p] = PhaseOf(p)']
  BY <1>1 DEF phaseMap
<1>3. phaseMap[p] = PhaseOf(p)
  BY DEF phaseMap
<1> QED BY <1>2, <1>3 DEF Service!Move

\* Only the tries of p change.
LEMMA TriesMove ==
  ASSUME NEW p \in PacketId, OnlyPhase(p)
  PROVE  /\ triesMap[p] = TriesOf(p)
         /\ triesMap' = [triesMap EXCEPT ![p] = TriesOf(p)']
<1>1. \A q \in PacketId \ {p} : TriesOf(q)' = TriesOf(q)
  BY DEF OnlyPhase
<1> QED BY <1>1 DEF triesMap, TriesOf

\* What a step of packet p in the service is.
ServiceStep(p) ==
  \/ /\ PhaseOf(p) = "absent" /\ PhaseOf(p)' = "waiting"
     /\ TriesOf(p)' = TriesOf(p)
  \/ /\ PhaseOf(p) = "waiting" /\ PhaseOf(p)' = "trying"
     /\ TriesOf(p) < MAX_RETX_NUM /\ TriesOf(p)' = TriesOf(p) + 1
  \/ /\ PhaseOf(p) = "trying" /\ PhaseOf(p)' \in {"waiting", "acked"}
     /\ TriesOf(p)' = TriesOf(p)
  \/ /\ PhaseOf(p) = "acked" /\ PhaseOf(p)' = "gone"
     /\ TriesOf(p)' = TriesOf(p)
  \/ /\ PhaseOf(p) = "waiting" /\ PhaseOf(p)' = "gone"
     /\ TriesOf(p) = MAX_RETX_NUM /\ TriesOf(p)' = TriesOf(p)
  \/ PhaseOf(p)' = PhaseOf(p) /\ TriesOf(p)' = TriesOf(p)

\* A step of one packet that the service allows is a step of the service.
LEMMA OneStep ==
  ASSUME NEW p \in PacketId, OnlyPhase(p), ServiceStep(p)
  PROVE  [Service!Next]_Service!serviceVars
<1>1. Service!Move(p, PhaseOf(p), PhaseOf(p)')
  BY PhaseMove
<1>2. /\ triesMap[p] = TriesOf(p)
      /\ triesMap' = [triesMap EXCEPT ![p] = TriesOf(p)']
  BY TriesMove
<1>3. TriesOf(p)' = TriesOf(p) => triesMap' = triesMap
  BY <1>2 DEF triesMap
<1>4. CASE PhaseOf(p)' = PhaseOf(p) /\ TriesOf(p)' = TriesOf(p)
  BY <1>4, Stutter
<1>5. CASE /\ PhaseOf(p) = "absent" /\ PhaseOf(p)' = "waiting"
           /\ TriesOf(p)' = TriesOf(p)
  BY <1>1, <1>3, <1>5 DEF Service!Next, Service!Accept
<1>6. CASE /\ PhaseOf(p) = "waiting" /\ PhaseOf(p)' = "trying"
           /\ TriesOf(p) < MAX_RETX_NUM /\ TriesOf(p)' = TriesOf(p) + 1
  BY <1>1, <1>2, <1>6 DEF Service!Next, Service!Try
<1>7. CASE /\ PhaseOf(p) = "trying" /\ PhaseOf(p)' \in {"waiting", "acked"}
           /\ TriesOf(p)' = TriesOf(p)
  BY <1>1, <1>3, <1>7 DEF Service!Next, Service!Fail, Service!Confirm
<1>8. CASE /\ PhaseOf(p) = "acked" /\ PhaseOf(p)' = "gone"
           /\ TriesOf(p)' = TriesOf(p)
  BY <1>1, <1>3, <1>8 DEF Service!Next, Service!Leave
<1>9. CASE /\ PhaseOf(p) = "waiting" /\ PhaseOf(p)' = "gone"
           /\ TriesOf(p) = MAX_RETX_NUM /\ TriesOf(p)' = TriesOf(p)
  BY <1>1, <1>2, <1>3, <1>9 DEF Service!Next, Service!GiveUp
<1> QED BY <1>4, <1>5, <1>6, <1>7, <1>8, <1>9 DEF ServiceStep

----------------------------------------------------------------------------
(***************************************************************************)
(* The steps of the MAC process.                                           *)
(***************************************************************************)
\* The phase of a packet in its queue.
LEMMA LivePhase ==
  ASSUME IInv, NEW p \in live
  PROVE  PhaseOf(p) = IF stat[p].send_stat = 0 THEN "waiting"
                      ELSE IF stat[p].ACK_RX_STAT = 0 THEN "trying"
                      ELSE "acked"
<1>1. p <= arrived /\ ~(p > arrived)
  BY BoundsAssumption DEF IInv, TypeOK
<1>2. stat[p].send_stat \in Bit /\ stat[p].ACK_RX_STAT \in Bit
  BY LivePacket, Fields
<1> QED BY <1>1, <1>2 DEF PhaseOf, Bit

\* The state vector of one packet changes.
LEMMA StatStep ==
  ASSUME IInv, IInv', NEW p \in live, NEW v,
         arrived' = arrived, live' = live, stat' = [stat EXCEPT ![p] = v],
         LET s == stat[p] IN
         \/ /\ s.send_stat = 0 /\ v.send_stat = 1 /\ v.ACK_RX_STAT = 0
            /\ s.RTS_TX_NUM < MAX_RETX_NUM /\ v.RTS_TX_NUM = s.RTS_TX_NUM + 1
         \/ /\ s.send_stat = 1 /\ s.ACK_RX_STAT = 0
            /\ v.RTS_TX_NUM = s.RTS_TX_NUM
            /\ \/ v.send_stat = 0
               \/ v.send_stat = 1 /\ v.ACK_RX_STAT \in Bit
  PROVE  [Service!Next]_Service!serviceVars
<1>1. p \in PacketId /\ live \subseteq PacketId /\ p <= arrived
  BY LivePacket, BoundsAssumption DEF IInv, TypeOK
<1>2. stat'[p] = v /\ \A q \in PacketId \ {p} : stat'[q] = stat[q]
  BY <1>1 DEF IInv, TypeOK
<1>3. OnlyPhase(p)
  BY <1>2 DEF OnlyPhase, PhaseOf, TriesOf
<1>4. /\ PhaseOf(p) = IF stat[p].send_stat = 0 THEN "waiting"
                      ELSE IF stat[p].ACK_RX_STAT = 0 THEN "trying"
                      ELSE "acked"
      /\ TriesOf(p) = stat[p].RTS_TX_NUM
  BY <1>1, LivePhase DEF TriesOf
<1>5. /\ PhaseOf(p)' = IF v.send_stat = 0 THEN "waiting"
                       ELSE IF v.ACK_RX_STAT = 0 THEN "trying"
                       ELSE "acked"
      /\ TriesOf(p)' = v.RTS_TX_NUM
  <2>1. p <= arrived' /\ ~(p > arrived') /\ p \in live'
    BY <1>1, BoundsAssumption DEF IInv, TypeOK, PacketId
  <2>2. v \in StateVector
    BY <1>1, <1>2 DEF IInv, TypeOK
  <2>3. v.send_stat \in Bit /\ v.ACK_RX_STAT \in Bit
    BY <2>2, Fields
  <2> QED BY <1>2, <2>1, <2>3 DEF PhaseOf, TriesOf, Bit
<1>6. ServiceStep(p)
  BY <1>4, <1>5 DEF ServiceStep, Bit
<1> QED BY <1>1, <1>3, <1>6, OneStep

\* A packet is deleted: main gives it up, or its ACK has come.
LEMMA LeaveStep ==
  ASSUME IInv, NEW p \in live,
         arrived' = arrived, live' = live \ {p}, stat' = stat,
         \/ stat[p].send_stat = 0 /\ stat[p].RTS_TX_NUM = MAX_RETX_NUM
         \/ stat[p].send_stat = 1 /\ stat[p].ACK_RX_STAT = 1
  PROVE  [Service!Next]_Service!serviceVars
<1>1. p \in PacketId /\ live \subseteq PacketId /\ p <= arrived /\ ~(p > arrived)
  BY LivePacket, BoundsAssumption DEF IInv, TypeOK
<1>2. OnlyPhase(p)
  BY DEF OnlyPhase, PhaseOf, TriesOf
<1>3. /\ PhaseOf(p) = IF stat[p].send_stat = 0 THEN "waiting"
                      ELSE IF stat[p].ACK_RX_STAT = 0 THEN "trying"
                      ELSE "acked"
      /\ TriesOf(p) = stat[p].RTS_TX_NUM /\ TriesOf(p)' = TriesOf(p)
  BY <1>1, LivePhase DEF TriesOf
<1>4. PhaseOf(p)' = "gone"
  BY <1>1 DEF PhaseOf
<1>5. ServiceStep(p)
  BY <1>3, <1>4 DEF ServiceStep
<1> QED BY <1>1, <1>2, <1>5, OneStep

\* add_pkt.
LEMMA AcceptStep ==
  ASSUME IInv, AddPacket
  PROVE  [Service!Next]_Service!serviceVars
<1>0. PICK p \in Nat : p = arrived + 1
  BY DEF IInv, TypeOK
<1>1. /\ arrived < MaxPackets /\ arrived' = p /\ live' = live \cup {p}
      /\ stat' = [stat EXCEPT ![p] = NewPacket]
  BY <1>0 DEF AddPacket
<1>2. /\ arrived \in Nat /\ p \in PacketId /\ ~(p <= arrived)
      /\ live \subseteq 1..arrived /\ stat \in [PacketId -> StateVector]
  BY <1>0, <1>1, BoundsAssumption DEF IInv, TypeOK, PacketId
<1>3. OnlyPhase(p)
  <2> SUFFICES ASSUME NEW q \in PacketId, q # p
               PROVE  PhaseOf(q)' = PhaseOf(q) /\ TriesOf(q)' = TriesOf(q)
    BY DEF OnlyPhase
  <2>1. /\ q \in Nat /\ (q <= arrived' <=> q <= arrived)
        /\ (q > arrived' <=> q > arrived) /\ (q \in live' <=> q \in live)
        /\ stat'[q] = stat[q]
    <3>1. q \in Nat /\ p \in Nat /\ arrived \in Nat /\ q # arrived + 1
      BY <1>0, <1>2, BoundsAssumption DEF PacketId
    <3>2. q <= arrived + 1 <=> q <= arrived
      BY <3>1
    <3>3. q > arrived + 1 <=> q > arrived
      BY <3>1
    <3> QED BY <1>0, <1>1, <1>2, <3>1, <3>2, <3>3
  <2> QED BY <2>1 DEF PhaseOf, TriesOf
<1>4. PhaseOf(p) = "absent" /\ TriesOf(p) = 0
  BY <1>2 DEF PhaseOf, TriesOf
<1>5. PhaseOf(p)' = "waiting" /\ TriesOf(p)' = 0
  <2>1. /\ stat'[p] = NewPacket /\ p <= arrived' /\ ~(p > arrived')
        /\ p \in live'
    BY <1>1, <1>2
  <2> QED BY <2>1 DEF PhaseOf, TriesOf, NewPacket
<1>6. ServiceStep(p)
  BY <1>4, <1>5 DEF ServiceStep
<1> QED BY <1>2, <1>3, <1>6, OneStep
----------------------------------------------------------------------------
\* The scan of main starts a packet or gives it up.
LEMMA WalkRefines ==
  ASSUME IInv, IInv', WalkQueue
  PROVE  [Service!Next]_Service!serviceVars
<1>1. PICK p \in Ahead : GiveUp(p) \/ StartPacket(p) \/ PassPacket(p)
  BY DEF WalkQueue
<1>2. p \in live /\ p \in PacketId /\ stat[p] \in StateVector /\ VectorOK(stat[p])
  BY LivePacket DEF Ahead, Queue
<1>3. CASE GiveUp(p)
  <2>1. stat[p].RTS_TX_NUM = MAX_RETX_NUM
    BY <1>2, <1>3, Fields, RetxAssumption DEF GiveUp, VectorOK
  <2> QED BY <1>2, <1>3, <2>1, LeaveStep DEF GiveUp, Unsent
<1>4. CASE StartPacket(p)
  <2> DEFINE v == StartSending(stat[p])
  <2>1. stat[p].send_stat = 0 /\ stat[p].ACK_RX_STAT = 0
    BY <1>2, <1>4, Fields DEF StartPacket, Unsent, VectorOK, Bit
  <2>2. /\ v.send_stat = 1 /\ v.ACK_RX_STAT = stat[p].ACK_RX_STAT
        /\ v.RTS_TX_NUM = stat[p].RTS_TX_NUM + 1
    BY <1>2 DEF StartSending, StateVector
  <2>3. /\ arrived' = arrived /\ live' = live /\ stat' = [stat EXCEPT ![p] = v]
        /\ stat[p].RTS_TX_NUM < MAX_RETX_NUM
    BY <1>4 DEF StartPacket
  <2> HIDE DEF v
  <2> QED BY <1>2, <2>1, <2>2, <2>3, StatStep
<1>5. CASE PassPacket(p)
  <2>1. UNCHANGED <<arrived, live, stat>>
    BY <1>5 DEF PassPacket, queueVars
  <2> QED BY <1>2, <2>1, OneStep DEF OnlyPhase, ServiceStep, PhaseOf, TriesOf
<1> QED BY <1>1, <1>3, <1>4, <1>5

\* Steps that change no packet.
LEMMA QuietRefines ==
  ASSUME UNCHANGED <<arrived, live, stat>>
  PROVE  UNCHANGED Service!serviceVars
<1>1. \A p \in PacketId : PhaseOf(p)' = PhaseOf(p)
  BY DEF PhaseOf
<1>2. phaseMap' = phaseMap /\ triesMap' = triesMap
  BY <1>1 DEF phaseMap, triesMap
<1> QED BY <1>2 DEF Service!serviceVars

\* A running packet is changed by a frame or a handler: it records a CTS or an
\* ACK, is checked, backed off, or released from its back-off.
LEMMA RunningStep ==
  ASSUME IInv, IInv', NEW p \in live,
         arrived' = arrived, live' = live,
         \/ AwaitsCTS(stat[p]) /\ stat' = [stat EXCEPT ![p] = RecordCTS(@)]
         \/ HasCTS(stat[p])    /\ stat' = [stat EXCEPT ![p] = CheckCTS(@)]
         \/ AwaitsACK(stat[p]) /\ stat' = [stat EXCEPT ![p] = RecordACK(@)]
         \/ /\ AwaitsCTS(stat[p]) \/ AwaitsACK(stat[p])
            /\ stat' = [stat EXCEPT ![p] = StartBackOff(@)]
         \/ BackedOff(stat[p]) /\ stat' = [stat EXCEPT ![p] = EndBackOff(@)]
  PROVE  [Service!Next]_Service!serviceVars
<1> DEFINE s == stat[p]
           v == stat'[p]
<1>1. p \in PacketId /\ s \in StateVector /\ VectorOK(s)
  BY LivePacket
<1>2. stat \in [PacketId -> StateVector]
  BY DEF IInv, TypeOK
<1>3. s.send_stat = 1 /\ s.ACK_RX_STAT = 0
  BY <1>1, Fields
  DEF VectorOK, AwaitsCTS, HasCTS, AwaitsACK, MaySendData, InFlight, BackedOff,
      Bit
<1>4. stat' = [stat EXCEPT ![p] = v]
  BY <1>1, <1>2
<1>5. /\ v.RTS_TX_NUM = s.RTS_TX_NUM
      /\ v.send_stat = 1 => v.ACK_RX_STAT \in Bit
      /\ v.send_stat \in Bit
  <2> HIDE DEF s, v
  <2>1. CASE v = RecordCTS(s) \/ v = CheckCTS(s) \/ v = StartBackOff(s)
    BY <1>1, <1>3, <2>1 DEF RecordCTS, CheckCTS, StartBackOff, StateVector, Bit
  <2>2. CASE v = RecordACK(s)
    BY <1>1, <1>3, <2>2 DEF RecordACK, StateVector, Bit
  <2>3. CASE v = EndBackOff(s)
    <3>1. v.send_stat = 0 /\ v.RTS_TX_NUM = s.RTS_TX_NUM
      BY <1>1, <2>3 DEF EndBackOff, StateVector
    <3> QED BY <3>1 DEF Bit
  <2>4. \/ v = RecordCTS(s) \/ v = CheckCTS(s) \/ v = StartBackOff(s)
        \/ v = RecordACK(s) \/ v = EndBackOff(s)
    BY <1>1, <1>2 DEF s, v
  <2> QED BY <2>1, <2>2, <2>3, <2>4
<1> HIDE DEF v
<1> QED BY <1>3, <1>4, <1>5, StatStep DEF Bit

\* Frames and handlers that change packets.
LEMMA HandlersRefine ==
  ASSUME IInv, IInv', NEW d \in Node,
         ProcCfrm \/ WaitCTS(d) \/ WaitACK(d) \/ BackOff(d)
  PROVE  [Service!Next]_Service!serviceVars
<1>1. CASE ProcCfrm
  <2>1. /\ arrived' = arrived /\ live' = live
        /\ \/ stat' = stat
           \/ \E p \in AwaitsCTSOf(frame.src) :
                stat' = [stat EXCEPT ![p] = RecordCTS(@)]
           \/ \E p \in AwaitsACKOf(frame.src) :
                stat' = [stat EXCEPT ![p] = RecordACK(@)]
    BY <1>1 DEF ProcCfrm, Answer, ProcCTS, ProcACK
  <2> QED BY <2>1, QuietRefines, RunningStep DEF AwaitsCTSOf, AwaitsACKOf, Queue
<1>2. CASE WaitCTS(d)
  <2>1. /\ arrived' = arrived /\ live' = live
        /\ \/ stat' = stat
           \/ \E p \in HasCTSOf(d) : stat' = [stat EXCEPT ![p] = CheckCTS(@)]
           \/ \E p \in AwaitsCTSOf(d) :
                stat' = [stat EXCEPT ![p] = StartBackOff(@)]
    BY <1>2 DEF WaitCTS, BackOffPacket
  <2> QED BY <2>1, QuietRefines, RunningStep DEF HasCTSOf, AwaitsCTSOf, Queue
<1>3. CASE WaitACK(d)
  <2>1. /\ arrived' = arrived
        /\ \/ stat' = stat /\ live' = live
           \/ \E p \in HasACKOf(d) : stat' = stat /\ live' = live \ {p}
           \/ \E p \in AwaitsACKOf(d) :
                live' = live /\ stat' = [stat EXCEPT ![p] = StartBackOff(@)]
    BY <1>3 DEF WaitACK, BackOffPacket
  <2>2. \A p \in HasACKOf(d) :
          p \in live /\ stat[p].send_stat = 1 /\ stat[p].ACK_RX_STAT = 1
    BY DEF HasACKOf, Queue, HasACK, MaySendData, InFlight
  <2> QED BY <2>1, <2>2, QuietRefines, RunningStep, LeaveStep
          DEF AwaitsACKOf, Queue
<1>4. CASE BackOff(d)
  <2>1. /\ arrived' = arrived /\ live' = live
        /\ \/ stat' = stat
           \/ \E p \in BackedOffOf(d) :
                stat' = [stat EXCEPT ![p] = EndBackOff(@)]
    BY <1>4 DEF BackOff
  <2> QED BY <2>1, QuietRefines, RunningStep DEF BackedOffOf, Queue
<1> QED BY <1>1, <1>2, <1>3, <1>4

\* Every step of the process is a step of the service, or none.
LEMMA NextService ==
  IInv /\ IInv' /\ [Next]_vars => [Service!Next]_Service!serviceVars
<1> SUFFICES ASSUME IInv, IInv', [Next]_vars
             PROVE  [Service!Next]_Service!serviceVars
  OBVIOUS
<1>1. CASE UNCHANGED vars \/ Exited
  BY <1>1, QuietRefines DEF Exited, vars, queueVars
<1>2. CASE Main
  <2>1. CASE WalkQueue
    BY <2>1, WalkRefines
  <2>2. CASE ProcCfrm
    BY <2>2, HandlersRefine, NodesAssumption DEF Node
  <2>3. CASE AddPacket
    BY <2>3, AcceptStep
  <2>4. CASE \/ CheckNode \/ EndOfScan \/ EndOfQueue \/ PollPhy \/ DropFrames
             \/ ReceiveFrame \/ ReceiveData \/ Overhear \/ NoPacket
             \/ EndRequest
    <3>1. UNCHANGED <<arrived, live, stat>>
      BY <2>4 DEF CheckNode, EndOfScan, EndOfQueue, PollPhy, DropFrames,
         ReceiveFrame, ReceiveData, Overhear, NoPacket, EndRequest, queueVars
    <3> QED BY <3>1, QuietRefines
  <2> QED BY <1>2, <2>1, <2>2, <2>3, <2>4 DEF Main
<1>3. CASE Timers
  <2>1. CASE \E d \in Node : WaitCTS(d) \/ WaitACK(d) \/ BackOff(d)
    BY <2>1, HandlersRefine
  <2>2. CASE \/ \E d \in Node : RetryRTS(d) \/ SendData(d)
             \/ \E d \in Node, type \in {"CTS", "ACK"} : SendReply(type, d)
             \/ \E s \in Sleeper : VSleep(s)
    <3>1. UNCHANGED <<arrived, live, stat>>
      BY <2>2 DEF RetryRTS, SendData, SendReply, VSleep, queueVars
    <3> QED BY <3>1, QuietRefines
  <2> QED BY <1>3, <2>1, <2>2 DEF Timers
<1> QED BY <1>1, <1>2, <1>3 DEF Next

(***************************************************************************)
(* The MAC process keeps the promises of RetxService to the layer above,   *)
(* whatever frames arrive and whenever its timers fire: an acknowledged    *)
(* packet is never sent again, a packet is tried at most MAX_RETX_NUM      *)
(* times, and it leaves the queue only acknowledged or out of tries.       *)
(***************************************************************************)
THEOREM ImplementsService == Spec => ServiceSpec
<1> QED BY InitService, NextService, Invariance, PTL
        DEF Spec, ServiceSpec, Service!Spec
============================================================================

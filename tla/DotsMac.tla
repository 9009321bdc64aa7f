------------------------------ MODULE DotsMac ------------------------------
(***************************************************************************)
(* The MAC process of one node: the packet queues (pktq_man.c), the DOTS   *)
(* handlers (axidma_DOTS.c) and the polling loop of main (Mac_layer.c).    *)
(*                                                                         *)
(* The rest of the network is arbitrary: any frame an adjacent node can    *)
(* send may arrive whenever the loop polls the physical layer, lost, late  *)
(* or repeated, and the application may hand over a packet whenever the    *)
(* loop polls the network layer.  Time is not counted either: a pending    *)
(* timer may fire at any moment, so every schedule of the timing wheel is  *)
(* a behaviour of this module.  A handler that fails leaves its timer in   *)
(* the wheel (proc_timer removes a timer only after its handler returned   *)
(* 0), where it fires again.                                               *)
(*                                                                         *)
(* Packets are numbered in the order in which add_pkt appends them, so the *)
(* queue of node d is its set of packets and the list order is the order   *)
(* of the numbers.                                                         *)
(*                                                                         *)
(* A definition named Op_Suffix is operator Op with a plausible bug; the   *)
(* properties are tried against it.                                        *)
(***************************************************************************)
EXTENDS Integers, FiniteSets, PacketState

CONSTANTS MAX_NODE_NUM,    \* nodes of the network
          LOCAL_ADDRESS,   \* address of this node
          MAX_RETX_NUM,    \* RTS transmissions allowed for one packet
          MaxPackets,      \* bound: packets the application hands over
          MaxFrames        \* bound: frames that arrive

ASSUME NodesAssumption == /\ MAX_NODE_NUM \in Nat
                          /\ LOCAL_ADDRESS \in 1..MAX_NODE_NUM
ASSUME RetxAssumption == MAX_RETX_NUM \in Nat \ {0}
ASSUME BoundsAssumption == MaxPackets \in Nat /\ MaxFrames \in Nat

Node     == 1..MAX_NODE_NUM
Adjacent == Node \ {LOCAL_ADDRESS}
PacketId == 1..MaxPackets
CfrmType == {"RTS", "CTS", "DATA", "ACK"}
Feedback == {"CTS", "ACK"}       \* what wait_cfrm_fdbk waits for
Frame    == {f \in [type : CfrmType, src : Adjacent, dst : Node] : f.src # f.dst}
NoFrame  == [type |-> "none", src |-> LOCAL_ADDRESS, dst |-> LOCAL_ADDRESS]

VARIABLES
  arrived,       \* packets handed over so far: the numbers 1..arrived
  live,          \* the packets now in a queue
  dst,           \* [PacketId -> Node] next hop of a packet
  stat,          \* [PacketId -> StateVector]
  update_stat,   \* [Node -> Int] packets that wait for main to send them
  send_tmr,      \* [CfrmType -> [Node -> Nat]] pending timers of send_frm
  wait_tmr,      \* [Feedback -> [Node -> Nat]] ... of wait_cfrm_fdbk
  backoff_tmr,   \* [Node -> Nat] ... of back_off
  sleep_tmr,     \* pending timers of rx_v_sleep and tx_v_sleep
  sleep_stat,    \* rx_sleep_stat and tx_sleep_stat: main busy-waits while 1
  pc,            \* where main is in its loop
  i,             \* node whose queue main looks at
  pkt_temp,      \* last packet the walk of that queue has passed
  frame,         \* frame in phy_rx_buf, NoFrame once it has been dealt with
  frames         \* frames received so far

queueVars == <<arrived, live, dst, stat, update_stat>>
timerVars == <<send_tmr, wait_tmr, backoff_tmr>>
sleepVars == <<sleep_tmr, sleep_stat>>
loopVars  == <<pc, i, pkt_temp, frame, frames>>
vars      == <<queueVars, timerVars, sleepVars, loopVars>>

Sleeper == {"rx", "tx"}

Init ==
  /\ arrived = 0
  /\ live = {}
  /\ dst = [p \in PacketId |-> LOCAL_ADDRESS]
  /\ stat = [p \in PacketId |-> NewPacket]
  /\ update_stat = [d \in Node |-> 0]
  /\ send_tmr = [t \in CfrmType |-> [d \in Node |-> 0]]
  /\ wait_tmr = [t \in Feedback |-> [d \in Node |-> 0]]
  /\ backoff_tmr = [d \in Node |-> 0]
  /\ sleep_tmr = [s \in Sleeper |-> 0]
  /\ sleep_stat = [s \in Sleeper |-> 0]
  /\ pc = "check"
  /\ i = 1
  /\ pkt_temp = 0
  /\ frame = NoFrame
  /\ frames = 0

----------------------------------------------------------------------------
(***************************************************************************)
(* Searches of a packet queue: from the front, the first packet that meets *)
(* a condition.                                                            *)
(***************************************************************************)
Queue(d) == {p \in live : dst[p] = d}

Front(p, S) == p \in S /\ \A q \in S : p <= q

\* The packets of d each search of the protocol may find.
UnsentOf(d)      == {p \in Queue(d) : Unsent(stat[p])}
AwaitsCTSOf(d)   == {p \in Queue(d) : AwaitsCTS(stat[p])}
HasCTSOf(d)      == {p \in Queue(d) : HasCTS(stat[p])}
MaySendDataOf(d) == {p \in Queue(d) : MaySendData(stat[p])}
AwaitsACKOf(d)   == {p \in Queue(d) : AwaitsACK(stat[p])}
HasACKOf(d)      == {p \in Queue(d) : HasACK(stat[p])}
BackedOffOf(d)   == {p \in Queue(d) : BackedOff(stat[p])}

Add(tmr, t) == [tmr EXCEPT ![t] = @ + 1]
Del(tmr, t) == [tmr EXCEPT ![t] = @ - 1]
AddOf(tmr, t, d) == [tmr EXCEPT ![t][d] = @ + 1]
DelOf(tmr, t, d) == [tmr EXCEPT ![t][d] = @ - 1]

----------------------------------------------------------------------------
(***************************************************************************)
(* The polling loop of main.  Its first part scans the queues: a node      *)
(* whose update_stat is not 0 has its queue walked from front to rear.     *)
(***************************************************************************)
CheckNode ==
  /\ pc = "check" /\ i <= MAX_NODE_NUM
  /\ IF update_stat[i] # 0
     THEN pc' = "walk" /\ pkt_temp' = 0 /\ i' = i
     ELSE i' = i + 1 /\ UNCHANGED <<pc, pkt_temp>>
  /\ UNCHANGED <<queueVars, timerVars, sleepVars, frame, frames>>

EndOfScan ==
  /\ pc = "check" /\ i > MAX_NODE_NUM
  /\ pc' = "phy"
  /\ UNCHANGED <<queueVars, timerVars, sleepVars, i, pkt_temp, frame, frames>>

Ahead == {p \in Queue(i) : p > pkt_temp}

GiveUp_KeepsCount(p) ==
  /\ Unsent(stat[p]) /\ stat[p].RTS_TX_NUM >= MAX_RETX_NUM
  /\ live' = live \ {p}
  /\ UNCHANGED <<arrived, dst, stat, update_stat, timerVars>>

\* The packet has used up its RTS transmissions: del_pkt.
GiveUp(p) ==
  /\ Unsent(stat[p]) /\ stat[p].RTS_TX_NUM >= MAX_RETX_NUM
  /\ live' = live \ {p}
  /\ update_stat' = [update_stat EXCEPT ![i] = @ - 1]
  /\ UNCHANGED <<arrived, dst, stat, timerVars>>

\* send_frm(RTS), from main or from a timer: ck_coll_map finds no collision
\* and the frame is written, or the RTS is put off by a timer of its own.
SendRTS(d, tmr) ==
  \/ /\ wait_tmr' = AddOf(wait_tmr, "CTS", d)
     /\ send_tmr' = tmr
  \/ /\ send_tmr' = AddOf(tmr, "RTS", d)
     /\ UNCHANGED wait_tmr

\* The packet counts as sent, whether its RTS was written or put off.
StartPacket(p) ==
  /\ Unsent(stat[p]) /\ stat[p].RTS_TX_NUM < MAX_RETX_NUM
  /\ SendRTS(i, send_tmr)
  /\ stat' = [stat EXCEPT ![p] = StartSending(@)]
  /\ update_stat' = [update_stat EXCEPT ![i] = @ - 1]
  /\ UNCHANGED <<arrived, live, dst, backoff_tmr>>

PassPacket(p) ==
  /\ ~Unsent(stat[p])
  /\ UNCHANGED <<queueVars, timerVars>>

WalkQueue ==
  /\ pc = "walk"
  /\ \E p \in Ahead :
       /\ Front(p, Ahead)
       /\ GiveUp(p) \/ StartPacket(p) \/ PassPacket(p)
       /\ pkt_temp' = p
  /\ UNCHANGED <<sleepVars, pc, i, frame, frames>>

EndOfQueue ==
  /\ pc = "walk" /\ Ahead = {}
  /\ pc' = "check" /\ i' = i + 1
  /\ UNCHANGED <<queueVars, timerVars, sleepVars, pkt_temp, frame, frames>>

(***************************************************************************)
(* The second part polls the physical layer.  A frame is read, main        *)
(* busy-waits on rx_sleep_stat, and a second frame that arrived meanwhile  *)
(* makes it drop both.                                                     *)
(***************************************************************************)
Sleep(s) ==
  /\ sleep_stat' = [sleep_stat EXCEPT ![s] = 1]
  /\ sleep_tmr' = Add(sleep_tmr, s)

PollPhy ==
  /\ pc = "phy"
  /\ \/ pc' = "net" /\ UNCHANGED <<sleepVars, frame, frames>>
     \/ /\ frames < MaxFrames
        /\ frames' = frames + 1
        /\ frame' \in Frame
        /\ pc' = "rx_sleep"
        /\ Sleep("rx")
  /\ UNCHANGED <<queueVars, timerVars, i, pkt_temp>>

DropFrames ==
  /\ pc = "rx_sleep" /\ sleep_stat["rx"] = 0
  /\ frames < MaxFrames
  /\ frames' = frames + 1
  /\ pc' = "net" /\ frame' = NoFrame
  /\ UNCHANGED <<queueVars, timerVars, sleepVars, i, pkt_temp>>

\* mac_DOTS simulates the reception of the data that follows a DATA frame,
\* also for a frame that is only overheard.
ReceiveFrame ==
  /\ pc = "rx_sleep" /\ sleep_stat["rx"] = 0
  /\ IF frame.type = "DATA"
     THEN pc' = "tx_sleep" /\ Sleep("tx")
     ELSE pc' = "mac_DOTS" /\ UNCHANGED sleepVars
  /\ UNCHANGED <<queueVars, timerVars, i, pkt_temp, frame, frames>>

ReceiveData ==
  /\ pc = "tx_sleep" /\ sleep_stat["tx"] = 0
  /\ pc' = "mac_DOTS"
  /\ UNCHANGED <<queueVars, timerVars, sleepVars, i, pkt_temp, frame, frames>>

(***************************************************************************)
(* mac_DOTS and proc_cfrm.  A frame for another node only updates the      *)
(* delay map.  When no packet matches a CTS or an ACK, proc_cfrm and       *)
(* mac_DOTS return -1 and main leaves its loop; the timer that a CTS sets  *)
(* has been added by then.                                                 *)
(***************************************************************************)
Overhear ==
  /\ pc = "mac_DOTS" /\ frame.dst # LOCAL_ADDRESS
  /\ pc' = "net" /\ frame' = NoFrame
  /\ UNCHANGED <<queueVars, timerVars, sleepVars, i, pkt_temp, frames>>

\* RTS and DATA are answered by a timer that sends CTS or ACK.
Answer(rx, reply) ==
  /\ frame.type = rx
  /\ send_tmr' = AddOf(send_tmr, reply, frame.src)
  /\ pc' = "net"
  /\ UNCHANGED stat

ProcCTS ==
  /\ frame.type = "CTS"
  /\ send_tmr' = AddOf(send_tmr, "DATA", frame.src)
  /\ \/ \E p \in AwaitsCTSOf(frame.src) :
          /\ Front(p, AwaitsCTSOf(frame.src))
          /\ stat' = [stat EXCEPT ![p] = RecordCTS(@)]
          /\ pc' = "net"
     \/ /\ AwaitsCTSOf(frame.src) = {}
        /\ pc' = "exited"
        /\ UNCHANGED stat

ProcACK ==
  /\ frame.type = "ACK"
  /\ \/ \E p \in AwaitsACKOf(frame.src) :
          /\ Front(p, AwaitsACKOf(frame.src))
          /\ stat' = [stat EXCEPT ![p] = RecordACK(@)]
          /\ pc' = "net"
     \/ /\ AwaitsACKOf(frame.src) = {}
        /\ pc' = "exited"
        /\ UNCHANGED stat
  /\ UNCHANGED send_tmr

ProcCfrm ==
  /\ pc = "mac_DOTS" /\ frame.dst = LOCAL_ADDRESS
  /\ Answer("RTS", "CTS") \/ ProcCTS \/ Answer("DATA", "ACK") \/ ProcACK
  /\ frame' = NoFrame
  /\ UNCHANGED <<arrived, live, dst, update_stat, wait_tmr, backoff_tmr,
                 sleepVars, i, pkt_temp, frames>>

(***************************************************************************)
(* The third part polls the network layer: a packet goes to the rear of    *)
(* its queue, "end" makes main leave the loop.                             *)
(***************************************************************************)
NextIteration_KeepsNode == pc' = "check" /\ i' = i

NextIteration == pc' = "check" /\ i' = 1

AddPacket ==
  /\ pc = "net" /\ arrived < MaxPackets
  /\ LET p == arrived + 1 IN
       /\ \E d \in Adjacent :
            /\ dst' = [dst EXCEPT ![p] = d]
            /\ update_stat' = [update_stat EXCEPT ![d] = @ + 1]
       /\ arrived' = p
       /\ live' = live \cup {p}
       /\ stat' = [stat EXCEPT ![p] = NewPacket]
  /\ NextIteration
  /\ UNCHANGED <<timerVars, sleepVars, pkt_temp, frame, frames>>

NoPacket ==
  /\ pc = "net"
  /\ NextIteration
  /\ UNCHANGED <<queueVars, timerVars, sleepVars, pkt_temp, frame, frames>>

EndRequest ==
  /\ pc = "net"
  /\ pc' = "exited"
  /\ UNCHANGED <<queueVars, timerVars, sleepVars, i, pkt_temp, frame, frames>>

----------------------------------------------------------------------------
(***************************************************************************)
(* The timer handlers, run by the SIGALRM handler between any two steps of *)
(* main.                                                                   *)
(***************************************************************************)
Alarm == pc # "exited"

\* send_frm(RTS) that was put off.
RetryRTS(d) ==
  /\ Alarm /\ send_tmr["RTS"][d] > 0
  /\ SendRTS(d, DelOf(send_tmr, "RTS", d))
  /\ UNCHANGED <<queueVars, backoff_tmr, sleepVars, loopVars>>

\* send_frm(CTS) and send_frm(ACK) only write a frame.
SendReply(type, d) ==
  /\ Alarm /\ type \in {"CTS", "ACK"} /\ send_tmr[type][d] > 0
  /\ send_tmr' = DelOf(send_tmr, type, d)
  /\ UNCHANGED <<queueVars, wait_tmr, backoff_tmr, sleepVars, loopVars>>

\* send_frm(DATA) sends the first packet whose CTS was checked.  Without
\* one it fails and its timer stays.
SendData(d) ==
  /\ Alarm /\ send_tmr["DATA"][d] > 0
  /\ IF MaySendDataOf(d) # {}
     THEN /\ send_tmr' = DelOf(send_tmr, "DATA", d)
          /\ wait_tmr' = AddOf(wait_tmr, "ACK", d)
     ELSE UNCHANGED <<send_tmr, wait_tmr>>
  /\ UNCHANGED <<queueVars, backoff_tmr, sleepVars, loopVars>>

\* The packet found by the second search of wait_cfrm_fdbk is backed off.
BackOffPacket(p, d) ==
  /\ stat' = [stat EXCEPT ![p] = StartBackOff(@)]
  /\ backoff_tmr' = Add(backoff_tmr, d)

WaitCTS(d) ==
  /\ Alarm /\ wait_tmr["CTS"][d] > 0
  /\ \/ \E p \in HasCTSOf(d) :
          /\ Front(p, HasCTSOf(d))
          /\ stat' = [stat EXCEPT ![p] = CheckCTS(@)]
          /\ wait_tmr' = DelOf(wait_tmr, "CTS", d)
          /\ UNCHANGED backoff_tmr
     \/ /\ HasCTSOf(d) = {}
        /\ \E p \in AwaitsCTSOf(d) :
             /\ Front(p, AwaitsCTSOf(d))
             /\ BackOffPacket(p, d)
             /\ wait_tmr' = DelOf(wait_tmr, "CTS", d)
     \/ /\ HasCTSOf(d) = {} /\ AwaitsCTSOf(d) = {}
        /\ UNCHANGED <<stat, wait_tmr, backoff_tmr>>
  /\ UNCHANGED <<arrived, live, dst, update_stat, send_tmr, sleepVars, loopVars>>

WaitACK(d) ==
  /\ Alarm /\ wait_tmr["ACK"][d] > 0
  /\ \/ \E p \in HasACKOf(d) :
          /\ Front(p, HasACKOf(d))
          /\ live' = live \ {p}
          /\ wait_tmr' = DelOf(wait_tmr, "ACK", d)
          /\ UNCHANGED <<stat, backoff_tmr>>
     \/ /\ HasACKOf(d) = {}
        /\ \E p \in AwaitsACKOf(d) :
             /\ Front(p, AwaitsACKOf(d))
             /\ BackOffPacket(p, d)
             /\ wait_tmr' = DelOf(wait_tmr, "ACK", d)
        /\ UNCHANGED live
     \/ /\ HasACKOf(d) = {} /\ AwaitsACKOf(d) = {}
        /\ UNCHANGED <<live, stat, wait_tmr, backoff_tmr>>
  /\ UNCHANGED <<arrived, dst, update_stat, send_tmr, sleepVars, loopVars>>

BackOff(d) ==
  /\ Alarm /\ backoff_tmr[d] > 0
  /\ \/ \E p \in BackedOffOf(d) :
          /\ Front(p, BackedOffOf(d))
          /\ stat' = [stat EXCEPT ![p] = EndBackOff(@)]
          /\ update_stat' = [update_stat EXCEPT ![d] = @ + 1]
          /\ backoff_tmr' = Del(backoff_tmr, d)
     \/ /\ BackedOffOf(d) = {}
        /\ UNCHANGED <<stat, update_stat, backoff_tmr>>
  /\ UNCHANGED <<arrived, live, dst, send_tmr, wait_tmr, sleepVars, loopVars>>

VSleep_KeepsFlag(s) ==
  /\ Alarm /\ sleep_tmr[s] > 0
  /\ sleep_tmr' = Del(sleep_tmr, s)
  /\ UNCHANGED <<queueVars, timerVars, sleep_stat, loopVars>>

\* Fails before it resets the flag, and so stays in the wheel.
VSleep_Fails(s) ==
  /\ Alarm /\ sleep_tmr[s] > 0
  /\ UNCHANGED vars

\* rx_v_sleep and tx_v_sleep.
VSleep(s) ==
  /\ Alarm /\ sleep_tmr[s] > 0
  /\ sleep_stat' = [sleep_stat EXCEPT ![s] = 0]
  /\ sleep_tmr' = Del(sleep_tmr, s)
  /\ UNCHANGED <<queueVars, timerVars, loopVars>>

----------------------------------------------------------------------------
Main == \/ CheckNode \/ EndOfScan \/ WalkQueue \/ EndOfQueue
        \/ PollPhy \/ DropFrames \/ ReceiveFrame \/ ReceiveData
        \/ Overhear \/ ProcCfrm
        \/ AddPacket \/ NoPacket \/ EndRequest

Timers == \/ \E d \in Node : \/ RetryRTS(d) \/ SendData(d)
                             \/ WaitCTS(d) \/ WaitACK(d) \/ BackOff(d)
          \/ \E d \in Node, type \in {"CTS", "ACK"} : SendReply(type, d)
          \/ \E s \in Sleeper : VSleep(s)

\* The process has ended.
Exited == pc = "exited" /\ UNCHANGED vars

Next == Main \/ Timers \/ Exited

Spec == Init /\ [][Next]_vars

----------------------------------------------------------------------------
\* The types of the variables.  update_stat is a C int.
TypeOK ==
  /\ arrived \in 0..MaxPackets
  /\ live \subseteq 1..arrived
  /\ dst \in [PacketId -> Node]
  /\ stat \in [PacketId -> StateVector]
  /\ update_stat \in [Node -> Int]
  /\ send_tmr \in [CfrmType -> [Node -> Nat]]
  /\ wait_tmr \in [Feedback -> [Node -> Nat]]
  /\ backoff_tmr \in [Node -> Nat]
  /\ sleep_tmr \in [Sleeper -> Nat]
  /\ sleep_stat \in [Sleeper -> Bit]
  /\ pc \in {"check", "walk", "phy", "rx_sleep", "tx_sleep", "mac_DOTS",
            "net", "exited"}
  /\ i \in 1..(MAX_NODE_NUM + 1)
  /\ pkt_temp \in 0..MaxPackets
  /\ frame \in Frame \cup {NoFrame}
  /\ frames \in 0..MaxFrames

(***************************************************************************)
(* The fields of a live packet are consistent: a packet that main has not  *)
(* sent carries no trace of an earlier handshake, a started one has        *)
(* counted its RTS, and the bits of the handshake are set in the order     *)
(* CTS received, CTS checked, ACK received.                                *)
(***************************************************************************)
StateVectorOK ==
  \A p \in live : LET s == stat[p] IN
    /\ s.send_stat = 0 => s.backoff_stat = 0 /\ s.CTS_RX_STAT = 0
    /\ s.send_stat = 1 => s.RTS_TX_NUM # 0
    /\ s.ACK_RX_STAT = 1 => s.CTS_RX_CK_STAT = 1
    /\ s.CTS_RX_CK_STAT = 1 => s.CTS_RX_STAT = 1
    /\ s.backoff_stat = 1 => s.ACK_RX_STAT = 0

\* The packets of d whose handshake is running: those whose CTS has not been
\* checked yet, and those whose CTS has been received.
StartedOf(d)   == {p \in Queue(d) : InFlight(stat[p])}
UncheckedOf(d) == {p \in StartedOf(d) : stat[p].CTS_RX_CK_STAT = 0}
AnsweredOf(d)  == {p \in StartedOf(d) : stat[p].CTS_RX_STAT = 1}

(***************************************************************************)
(* update_stat counts exactly the packets main still has to send.  main    *)
(* skips the queue of a node whose update_stat is 0, so a counter that is  *)
(* too low strands a packet, and one that is too high has main walk the    *)
(* queue for ever.                                                         *)
(***************************************************************************)
UpdateStatExact ==
  \A d \in Node : update_stat[d] = Cardinality(UnsentOf(d))

(***************************************************************************)
(* Every backed-off packet has a pending back_off timer and every such     *)
(* timer a packet: back_off never finds its queue without one.             *)
(***************************************************************************)
BackOffTimersExact ==
  \A d \in Node : backoff_tmr[d] = Cardinality(BackedOffOf(d))

(***************************************************************************)
(* A packet whose CTS is not checked has one timer that will look at it:   *)
(* the wait for the CTS, or the RTS that was put off.  The searches of     *)
(* wait_cfrm_fdbk(CTS) go by the state vector alone, not by which packet   *)
(* set the timer, and still neither a timer nor a packet is left over.     *)
(***************************************************************************)
CtsTimersExact ==
  \A d \in Node : wait_tmr["CTS"][d] + send_tmr["RTS"][d]
                    = Cardinality(UncheckedOf(d))

(***************************************************************************)
(* A packet whose CTS was received has one timer that will send its data   *)
(* or wait for its ACK, whatever the order in which CTS frames arrive and  *)
(* timers fire.  The CTS that ends the process has set a timer more.       *)
(***************************************************************************)
AckTimersExact ==
  pc # "exited" =>
    \A d \in Node : wait_tmr["ACK"][d] + send_tmr["DATA"][d]
                      = Cardinality(AnsweredOf(d))

\* In every phase of its handshake a packet has exactly one timer.
TimersExact == BackOffTimersExact /\ CtsTimersExact /\ AckTimersExact

(***************************************************************************)
(* main busy-waits only while the timer that ends the wait is pending, and *)
(* it never leaves a busy-wait of the one kind for one of the other.       *)
(***************************************************************************)
SleepHasTimer ==
  \A s \in Sleeper :
    /\ sleep_tmr[s] = sleep_stat[s]
    /\ sleep_stat[s] = 1 => pc = (IF s = "rx" THEN "rx_sleep" ELSE "tx_sleep")

(***************************************************************************)
(* The handlers of wait_cfrm_fdbk(CTS) and back_off always find a packet:  *)
(* their "Cannot find the packet that meets the conditions!" is never      *)
(* reached.                                                                *)
(***************************************************************************)
TimeoutFindsPacket ==
  \A d \in Node :
    /\ wait_tmr["CTS"][d] > 0 => HasCTSOf(d) # {} \/ AwaitsCTSOf(d) # {}
    /\ backoff_tmr[d] > 0 => BackedOffOf(d) # {}

\* No packet uses more than MAX_RETX_NUM RTS transmissions.
RetxBound == \A p \in live : stat[p].RTS_TX_NUM <= MAX_RETX_NUM

\* What main's position in its loop says of its local variables.
LoopOK ==
  /\ pc = "walk" => i \in Node
  /\ pc \in {"rx_sleep", "tx_sleep", "mac_DOTS"} => frame \in Frame

\* The inductive invariant.
IInv == /\ TypeOK /\ LoopOK /\ SleepHasTimer
        /\ StateVectorOK /\ RetxBound
        /\ UpdateStatExact /\ BackOffTimersExact
        /\ CtsTimersExact /\ AckTimersExact

(***************************************************************************)
(* The queues implement RetxService: an acknowledged packet is never sent  *)
(* again, and a packet leaves only acknowledged or out of tries.           *)
(***************************************************************************)
PhaseOf(p) ==
  IF p > arrived THEN "absent"
  ELSE IF p \notin live THEN "gone"
  ELSE IF stat[p].send_stat = 0 THEN "waiting"
  ELSE IF stat[p].ACK_RX_STAT = 0 THEN "trying" ELSE "acked"

phaseMap == [p \in PacketId |-> PhaseOf(p)]
triesMap == [p \in PacketId |-> IF p <= arrived THEN stat[p].RTS_TX_NUM ELSE 0]

Service == INSTANCE RetxService WITH
             Packet <- PacketId, MaxTries <- MAX_RETX_NUM,
             phase <- phaseMap, tries <- triesMap

ServiceSpec == Service!Spec

----------------------------------------------------------------------------
(***************************************************************************)
(* Fairness.  main is a loop without a blocking call, so it keeps taking   *)
(* steps; the alarm comes every 100 ms, so a pending timer fires; and an   *)
(* RTS that is put off again and again is written in the end, because the  *)
(* collision nodes that put it off expire.                                 *)
(***************************************************************************)
WriteRTS(d) == RetryRTS(d) /\ wait_tmr' = AddOf(wait_tmr, "CTS", d)

Fairness ==
  /\ WF_vars(Main)
  /\ \A d \in Node :
       /\ WF_vars(WriteRTS(d))
       /\ WF_vars(SendData(d))
       /\ WF_vars(WaitCTS(d))
       /\ WF_vars(WaitACK(d))
       /\ WF_vars(BackOff(d))
       /\ WF_vars(SendReply("CTS", d))
       /\ WF_vars(SendReply("ACK", d))
  /\ \A s \in Sleeper : WF_vars(VSleep(s))

FairSpec == Spec /\ Fairness

\* Every packet leaves its queue in the end, unless the process ends.
PacketLeaves ==
  \A p \in PacketId : (p \in live) ~> (p \notin live \/ pc = "exited")

\* main returns from every busy-wait.
BusyWaitEnds ==
  (pc \in {"rx_sleep", "tx_sleep"}) ~> (pc \notin {"rx_sleep", "tx_sleep"})
============================================================================

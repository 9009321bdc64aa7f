------------------------------ MODULE DotsLink ------------------------------
(***************************************************************************)
(* Two nodes built from this code, with the times of the code: A has       *)
(* packets for B, B answers.  Each writes its frames into the cell the     *)
(* other polls (axidma_DOTS.c, Mac_layer.c); time is counted in tenths of  *)
(* a second, the slots of the timing wheels.                               *)
(*                                                                         *)
(* main polls all the time, so whatever it can do is done before the next  *)
(* slot, in any order with the timers of the slot.  The timers of a slot   *)
(* run in the order in which they were set.  A frame is lost when a third  *)
(* node, which is not modelled, writes over it before it is read.          *)
(*                                                                         *)
(* A definition named Op_Suffix is operator Op with a plausible bug; the   *)
(* properties are tried against it.                                        *)
(***************************************************************************)
EXTENDS CollisionCheck, PacketState, Sequences, FiniteSets

CONSTANTS
  MAX_RETX_NUM, TIME_WHEEL_SIZE,
  WAIT_FB_TIME, CFRM_PROC_TIME, DATA_PKT_PROC_TIME,
  BackOffs,    \* what rand() % 40 + 40 may be
  Arrivals,    \* sequences of times at which A's packets are handed over
  MaxLosses    \* bound: frames a third node writes over

Ext == INSTANCE SequencesExt

\* B answers within MAX_PROP_DELAY, whatever it was busy with when a frame
\* came; a wait is longer than the way of an answer; the wait for a CTS is over
\* before the data is due.
ASSUME WaitsAssumption ==
  /\ CFRM_PROC_TIME \in Nat \ {0} /\ DATA_PKT_PROC_TIME \in Nat
  /\ WAIT_FB_TIME \in Nat /\ TIME_WHEEL_SIZE \in Nat
  /\ CFRM_PROC_TIME + 2 * DATA_PKT_PROC_TIME < MAX_PROP_DELAY
  /\ MAX_PROP_DELAY + CFRM_PROC_TIME < WAIT_FB_TIME
  /\ WAIT_FB_TIME < 2 * MAX_PROP_DELAY
  /\ WAIT_FB_TIME < TIME_WHEEL_SIZE
ASSUME TriesAssumption == MAX_RETX_NUM \in Nat /\ BackOffs \subseteq Nat
ASSUME ArrivalsAssumption == \A a \in Arrivals : a \in Seq(Nat) /\ a # <<>>

VARIABLES
  now,
  arrival, arrived,   \* times of the packets, how many A has taken
  queue, stat,        \* the packets in A's queue, the vectors of all packets
  delay, coll,        \* A's delay to B, and collision nodes of frames of B
  timers,             \* [{"A", "B"} -> Seq([at, call])], oldest first
  cell,               \* [{"A", "B"} -> Frame or NoFrame]: what it has to read
  pc, frame,          \* main of A and of B
  delivered,          \* the packets B has passed to its application
  acked,              \* the packets A has deleted because of an ACK
  losses, overwritten \* frames lost; a node has written over its own frame

queueVars == <<arrival, arrived, queue, stat>>
mapVars   == <<delay, coll>>
mainVars  == <<pc, frame>>
logVars   == <<delivered, acked, losses, overwritten>>
vars      == <<now, queueVars, mapVars, timers, cell, mainVars, logVars>>

NoFrame == [type |-> "none", tmv_stmp |-> 0, pkt |-> 0]
Other(n) == IF n = "A" THEN "B" ELSE "A"

Init == /\ arrival \in Arrivals /\ arrived = 0
        /\ now = arrival[1]
        /\ queue = {} /\ stat = [p \in DOMAIN arrival |-> NewPacket]
        /\ delay = 0 /\ coll = {}
        /\ timers = [n \in {"A", "B"} |-> <<>>]
        /\ cell = [n \in {"A", "B"} |-> NoFrame]
        /\ pc = [n \in {"A", "B"} |-> "poll"]
        /\ frame = [n \in {"A", "B"} |-> NoFrame]
        /\ delivered = <<>> /\ acked = {}
        /\ losses = 0 /\ overwritten = FALSE

\* add_timer.
Set(n, tmrs, interval, call) ==
  [timers EXCEPT ![n] = Append(tmrs, [at |-> now + (interval % TIME_WHEEL_SIZE),
                                      call |-> call])]

\* Packets are numbered in the order in which they are added, the order of the
\* queue: a search finds the first that meets a condition.
Meeting(Cond(_)) == {p \in queue : Cond(stat[p])}

First(k, S) == k \in S /\ \A j \in S : k <= j

Change(p, Assign(_)) == stat' = [stat EXCEPT ![p] = Assign(@)]

\* Writing into the cell of the other node, read or not.
Write(n, type, pkt) ==
  /\ cell' = [cell EXCEPT ![Other(n)] =
                [type |-> type, tmv_stmp |-> TimeStamp(now), pkt |-> pkt]]
  /\ overwritten' = (overwritten \/ cell[Other(n)] # NoFrame)

----------------------------------------------------------------------------
(***************************************************************************)
(* send_frm(RTS), with ck_coll_map over the frames heard from B.  The      *)
(* delay from B to A is only learnt from frames that are overheard: 0.     *)
(***************************************************************************)
Check(c) == ck_collision(c.type, c.tmv_stmp, TimeStamp(now), delay, 0, delay)

Collides(c) == Check(c).back_off_tm > 0

Ahead(c) == {e \in coll : e.heard < c.heard}

\* Of the nodes passed, those that have expired are deleted.
DelExpired(passed) == coll' = {c \in coll : ~ (c \in passed /\ Check(c).expired)}

WriteRTS_WaitsOneDelay(tmrs) ==
  /\ \A c \in coll : ~ Collides(c)
  /\ DelExpired(coll)
  /\ Write("A", "RTS", 0)
  /\ timers' = Set("A", tmrs, MAX_PROP_DELAY, "wait_CTS")

WriteRTS(tmrs) ==
  /\ \A c \in coll : ~ Collides(c)
  /\ DelExpired(coll)
  /\ Write("A", "RTS", 0)
  /\ timers' = Set("A", tmrs, WAIT_FB_TIME, "wait_CTS")

\* The first collision puts the RTS off.
PutOffRTS(tmrs) ==
  \E c \in coll : /\ Collides(c) /\ \A e \in Ahead(c) : ~ Collides(e)
                  /\ DelExpired(Ahead(c))
                  /\ timers' = Set("A", tmrs, Check(c).back_off_tm, "RTS")
                  /\ UNCHANGED <<cell, overwritten>>

SendRTS(tmrs) == WriteRTS(tmrs) \/ PutOffRTS(tmrs)

----------------------------------------------------------------------------
(***************************************************************************)
(* main of A: the application's packets, and the walk of the queue.        *)
(***************************************************************************)
PacketReady == arrived < Len(arrival) /\ arrival[arrived + 1] <= now

AddPacket == /\ pc["A"] = "poll" /\ PacketReady
             /\ arrived' = arrived + 1
             /\ queue' = queue \cup {arrived + 1}
             /\ UNCHANGED <<now, arrival, stat, mapVars, timers, cell, mainVars,
                            logVars>>

StartPacket ==
  /\ pc["A"] = "poll"
  /\ \E p \in Meeting(Unsent) : /\ First(p, Meeting(Unsent))
                                /\ stat[p].RTS_TX_NUM < MAX_RETX_NUM
                                /\ Change(p, StartSending)
  /\ SendRTS(timers["A"])
  /\ UNCHANGED <<now, arrival, arrived, queue, delay, mainVars, delivered,
                 acked, losses>>

GiveUp == /\ pc["A"] = "poll"
          /\ \E p \in Meeting(Unsent) : /\ First(p, Meeting(Unsent))
                                        /\ stat[p].RTS_TX_NUM >= MAX_RETX_NUM
                                        /\ queue' = queue \ {p}
          /\ UNCHANGED <<now, arrival, arrived, stat, mapVars, timers, cell,
                         mainVars, logVars>>

(***************************************************************************)
(* main of both: a frame is read, and dropped if another one has come      *)
(* after CFRM_PROC_TIME; the data of a DATA frame takes more time.         *)
(***************************************************************************)
ReadFrame(n) == /\ pc[n] = "poll" /\ cell[n] # NoFrame
                /\ frame' = [frame EXCEPT ![n] = cell[n]]
                /\ cell' = [cell EXCEPT ![n] = NoFrame]
                /\ pc' = [pc EXCEPT ![n] = "rx_sleep"]
                /\ timers' = Set(n, timers[n], CFRM_PROC_TIME, "rx_v_sleep")
                /\ UNCHANGED <<now, queueVars, mapVars, logVars>>

DropFrames(n) ==
  /\ pc[n] = "rx_awake" /\ cell[n] # NoFrame
  /\ cell' = [cell EXCEPT ![n] = NoFrame]
  /\ pc' = [pc EXCEPT ![n] = "poll"]
  /\ UNCHANGED <<now, queueVars, mapVars, timers, frame, logVars>>

Lose(n) == /\ cell[n] # NoFrame /\ losses < MaxLosses
           /\ cell' = [cell EXCEPT ![n] = NoFrame] /\ losses' = losses + 1
           /\ UNCHANGED <<now, queueVars, mapVars, timers, mainVars, delivered,
                          acked, overwritten>>

ReceiveData == /\ pc["B"] = "rx_awake" /\ cell["B"] = NoFrame
               /\ frame["B"].type = "DATA"
               /\ pc' = [pc EXCEPT !["B"] = "tx_sleep"]
               /\ timers' = Set("B", timers["B"], DATA_PKT_PROC_TIME, "tx_v_sleep")
               /\ UNCHANGED <<now, queueVars, mapVars, cell, frame, logVars>>

\* Time until a frame of the neighbour has to be answered; u_int16_t in int.
Interval_Absolute(n) == frame[n].tmv_stmp + MAX_PROP_DELAY
Interval(n) == frame[n].tmv_stmp + MAX_PROP_DELAY - TimeStamp(now)

\* proc_cfrm of B.
Answer(type, call) ==
  /\ frame["B"].type = type
  /\ timers' = Set("B", timers["B"], Interval("B"), call)
  /\ pc' = [pc EXCEPT !["B"] = "poll"]
  /\ UNCHANGED <<now, queueVars, mapVars, cell, frame, acked, losses, overwritten>>

ProcRTS == /\ pc["B"] = "rx_awake" /\ cell["B"] = NoFrame
           /\ Answer("RTS", "CTS") /\ UNCHANGED delivered
ProcData == /\ pc["B"] = "tx_awake"
            /\ Answer("DATA", "ACK")
            /\ delivered' = Append(delivered, frame["B"].pkt)

\* mac_DOTS and proc_cfrm of A: an answer nobody waits for ends the process.
Learn == /\ pc["A"] = "rx_awake" /\ cell["A"] = NoFrame
         /\ delay' = (TimeStamp(now) - frame["A"].tmv_stmp) % 256
         /\ coll' = coll \cup {[type |-> frame["A"].type, heard |-> now,
                                tmv_stmp |-> frame["A"].tmv_stmp]}

Recorded(Cond(_), Assign(_)) ==
  \/ /\ \E p \in Meeting(Cond) : First(p, Meeting(Cond)) /\ Change(p, Assign)
     /\ pc' = [pc EXCEPT !["A"] = "poll"]
  \/ /\ Meeting(Cond) = {} /\ UNCHANGED stat
     /\ pc' = [pc EXCEPT !["A"] = "exited"]

ProcCTS == /\ Learn /\ frame["A"].type = "CTS"
           /\ timers' = Set("A", timers["A"], Interval("A"), "DATA")
           /\ Recorded(AwaitsCTS, RecordCTS)
           /\ UNCHANGED <<now, arrival, arrived, queue, cell, frame, logVars>>

ProcACK == /\ Learn /\ frame["A"].type = "ACK"
           /\ Recorded(AwaitsACK, RecordACK)
           /\ UNCHANGED <<now, arrival, arrived, queue, timers, cell, frame,
                          logVars>>

----------------------------------------------------------------------------
(***************************************************************************)
(* The timers of the slot, oldest first.  One whose handler fails stays,   *)
(* with those behind it, for another turn of the wheel.                    *)
(***************************************************************************)
Due(n) == {k \in DOMAIN timers[n] : timers[n][k].at = now}

Runs(n, k, call) == /\ First(k, Due(n)) /\ timers[n][k].call = call
                    /\ pc[n] # "exited"

Rest(n, k) == Ext!RemoveAt(timers[n], k)

Remain(n, k) == timers' = [timers EXCEPT ![n] = Rest(n, k)]

NextTurn(n) ==
  timers' = [timers EXCEPT ![n] =
               [k \in DOMAIN @ |->
                  [at   |-> IF @[k].at = now THEN now + TIME_WHEEL_SIZE ELSE @[k].at,
                   call |-> @[k].call]]]

RetryRTS(k) ==
  /\ Runs("A", k, "RTS") /\ SendRTS(Rest("A", k))
  /\ UNCHANGED <<now, queueVars, delay, mainVars, delivered, acked, losses>>

SendReply(k, call) ==
  /\ Runs("B", k, call) /\ Write("B", call, 0) /\ Remain("B", k)
  /\ UNCHANGED <<now, queueVars, mapVars, mainVars, delivered, acked, losses>>

SendData(k) ==
  /\ Runs("A", k, "DATA")
  /\ \/ /\ \E p \in Meeting(MaySendData) : /\ First(p, Meeting(MaySendData))
                                           /\ Write("A", "DATA", p)
        /\ timers' = Set("A", Rest("A", k), WAIT_FB_TIME, "wait_ACK")
     \/ /\ Meeting(MaySendData) = {} /\ NextTurn("A")
        /\ UNCHANGED <<cell, overwritten>>
  /\ UNCHANGED <<now, queueVars, mapVars, mainVars, delivered, acked, losses>>

\* The first packet that waits is backed off, for a time that grows with its
\* tries.
PutBack(Cond(_), k) ==
  \E p \in Meeting(Cond), tm \in BackOffs :
    /\ First(p, Meeting(Cond))
    /\ Change(p, StartBackOff)
    /\ timers' = Set("A", Rest("A", k), tm * stat[p].RTS_TX_NUM, "back_off")

WaitCTS(k) ==
  /\ Runs("A", k, "wait_CTS")
  /\ \/ \E p \in Meeting(HasCTS) : /\ First(p, Meeting(HasCTS))
                                   /\ Change(p, CheckCTS) /\ Remain("A", k)
     \/ Meeting(HasCTS) = {} /\ PutBack(AwaitsCTS, k)
     \/ /\ Meeting(HasCTS) = {} /\ Meeting(AwaitsCTS) = {}
        /\ NextTurn("A") /\ UNCHANGED stat
  /\ UNCHANGED <<now, arrival, arrived, queue, mapVars, cell, mainVars, logVars>>

WaitACK(k) ==
  /\ Runs("A", k, "wait_ACK")
  /\ \/ \E p \in Meeting(HasACK) :
          /\ First(p, Meeting(HasACK)) /\ Remain("A", k)
          /\ queue' = queue \ {p} /\ acked' = acked \cup {p} /\ UNCHANGED stat
     \/ /\ Meeting(HasACK) = {} /\ PutBack(AwaitsACK, k)
        /\ UNCHANGED <<queue, acked>>
     \/ /\ Meeting(HasACK) = {} /\ Meeting(AwaitsACK) = {}
        /\ NextTurn("A") /\ UNCHANGED <<queue, acked, stat>>
  /\ UNCHANGED <<now, arrival, arrived, mapVars, cell, mainVars, delivered, losses,
                 overwritten>>

BackOffEnds(k) ==
  /\ Runs("A", k, "back_off")
  /\ \/ \E p \in Meeting(BackedOff) : /\ First(p, Meeting(BackedOff))
                                      /\ Change(p, EndBackOff) /\ Remain("A", k)
     \/ Meeting(BackedOff) = {} /\ NextTurn("A") /\ UNCHANGED stat
  /\ UNCHANGED <<now, arrival, arrived, queue, mapVars, cell, mainVars, logVars>>

VSleep(n, k, sleep, awake) ==
  /\ Runs(n, k, IF sleep = "rx_sleep" THEN "rx_v_sleep" ELSE "tx_v_sleep")
  /\ pc[n] = sleep
  /\ pc' = [pc EXCEPT ![n] = awake]
  /\ Remain(n, k)
  /\ UNCHANGED <<now, queueVars, mapVars, cell, frame, logVars>>

----------------------------------------------------------------------------
\* Nothing can be done in this slot.
Idle(n) == /\ Due(n) = {}
           /\ \/ pc[n] \in {"rx_sleep", "tx_sleep"}
              \/ pc[n] = "poll" /\ cell[n] = NoFrame
           /\ (n = "A" /\ pc[n] = "poll") => ~ PacketReady /\ Meeting(Unsent) = {}

Events == {t.at : t \in Ext!ToSet(timers["A"]) \cup Ext!ToSet(timers["B"])}
            \cup {arrival[k] : k \in (arrived + 1) .. Len(arrival)}

Later == {e \in Events : e > now}

AllIdle == \A n \in {"A", "B"} : Idle(n) \/ pc[n] = "exited"

Tick == /\ AllIdle
        /\ now' \in Later /\ \A e \in Later : now' <= e
        /\ UNCHANGED <<queueVars, mapVars, timers, cell, mainVars, logVars>>

Main == \/ AddPacket \/ StartPacket \/ GiveUp
        \/ \E n \in {"A", "B"} : ReadFrame(n) \/ DropFrames(n) \/ Lose(n)
        \/ ReceiveData \/ ProcRTS \/ ProcData \/ ProcCTS \/ ProcACK

Timers ==
  \/ \E k \in DOMAIN timers["A"] : \/ RetryRTS(k) \/ SendData(k)
                                   \/ WaitCTS(k) \/ WaitACK(k) \/ BackOffEnds(k)
                                   \/ VSleep("A", k, "rx_sleep", "rx_awake")
  \/ \E k \in DOMAIN timers["B"] : \/ SendReply(k, "CTS") \/ SendReply(k, "ACK")
                                   \/ VSleep("B", k, "rx_sleep", "rx_awake")
                                   \/ VSleep("B", k, "tx_sleep", "tx_awake")

Next == Main \/ Timers \/ Tick

Spec == Init /\ [][Next]_vars

----------------------------------------------------------------------------
\* Types: packets are known once they are taken, a delay fits its byte.
TypeOK ==
  /\ now \in Nat /\ arrived \in 0 .. Len(arrival)
  /\ queue \subseteq 1 .. arrived
  /\ stat \in [DOMAIN arrival -> StateVector]
  /\ delay \in 0 .. 255
  /\ acked \subseteq 1 .. arrived /\ Ext!ToSet(delivered) \subseteq 1 .. arrived

\* The packets come in the period of the application or slower.
Spaced == \A k \in 1 .. (Len(arrival) - 1) : arrival[k + 1] - arrival[k] >= 500

\* The only packet, which A deletes because of an ACK, has reached B's
\* application.  With two packets this is not so: no frame names its packet,
\* send_frm(DATA) takes the first packet whose CTS is checked, and
\* proc_cfrm(ACK) marks the first one that waits.
AckedDelivered == Len(arrival) = 1 => acked \subseteq Ext!ToSet(delivered)

\* An answer always finds the packet it answers, so proc_cfrm never returns -1
\* and main of A never leaves its loop: the waits are long enough, also when
\* the time stamps wrap during the handshake.
NeverExits == pc["A"] # "exited"

\* The time that is left to answer a frame is positive and less than a turn of
\* the wheel, for a frame that has just been processed (proc_cfrm), unless the
\* time stamps wrap in between.
IntervalFits ==
  \A n \in {"A", "B"} :
    /\ pc[n] \in {"rx_awake", "tx_awake"}
    /\ frame[n].tmv_stmp <= TimeStamp(now)
    => Interval(n) \in 1 .. (TIME_WHEEL_SIZE - 1)

\* Values stay within their types, and intervals within the wheel.
ValuesFit == TypeOK /\ IntervalFits

\* The handler of a timer of A that is due finds the packet it is about, unless
\* the time stamps wrap during the handshake; if it did not, it would stop
\* proc_timer for the slot.
HandlerFinds ==
  \A k \in DOMAIN timers["A"] :
    First(k, Due("A")) /\ TimeStamp(arrival[1]) <= TimeStamp(now) =>
      CASE timers["A"][k].call = "DATA" -> Meeting(MaySendData) # {}
        [] timers["A"][k].call = "wait_CTS" ->
             Meeting(HasCTS) \cup Meeting(AwaitsCTS) # {}
        [] timers["A"][k].call = "wait_ACK" ->
             Meeting(HasACK) \cup Meeting(AwaitsACK) # {}
        [] timers["A"][k].call = "back_off" -> Meeting(BackedOff) # {}
        [] OTHER -> TRUE

\* No node writes over a frame of its own that the other has not read yet, when
\* packets come in the period of the application and one frame is lost.
NoOverwrite == Spaced /\ losses <= 1 => ~ overwritten

\* When no timer and no packet of the application is left to come, the queue is
\* empty: no packet stays behind without a timer that would move it on.
NoneStays == AllIdle /\ Later = {} => queue = {}

\* Then every packet has left the queue because of an ACK, when they come in the
\* period of the application and one frame is lost.
AllLeave == /\ NoneStays
            /\ AllIdle /\ Later = {} /\ Spaced /\ losses <= 1 =>
                 acked = DOMAIN arrival
=============================================================================

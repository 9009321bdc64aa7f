------------------------------- MODULE AppMac -------------------------------
(***************************************************************************)
(* The application process (App_layer.c) and what the MAC process does     *)
(* with the two cells of shared memory between them: packets of            *)
(* tx_data.txt in one direction, received data in the other, and the       *)
(* exchange "end"/"emac" that ends both processes.                         *)
(*                                                                         *)
(* Time is counted in slots of the timing wheel, or in any unit of which   *)
(* all intervals are multiples.  Code takes no time: a slot only passes    *)
(* when main busy-waits or polls, no timer is due and the MAC process is   *)
(* in a busy-wait or has nothing to read.  A cell is read and written as a *)
(* whole (ShmChannel has the steps), and timers of one slot run in any     *)
(* order (TimerWheel has the lists).                                       *)
(*                                                                         *)
(* A definition named Op_Suffix is operator Op with a plausible bug; the   *)
(* properties are tried against it.                                        *)
(***************************************************************************)
EXTENDS Integers, Sequences

CONSTANTS
  TxPeriod,     \* interval of tx_data_pkt: (1 / OFFERED_LOAD) * 10
  RxPeriod,     \* interval of rx_data_pkt
  ExitWait,     \* interval of node_sleep
  CfrmTime,     \* CFRM_PROC_TIME
  DataTime,     \* DATA_PKT_PROC_TIME
  TX_PKT_NUM,
  Lines,        \* lines of tx_data.txt
  NONE

ASSUME TimeAssumption ==
  /\ {TxPeriod, RxPeriod, ExitWait, CfrmTime, DataTime} \subseteq Nat \ {0}
  /\ CfrmTime + DataTime < ExitWait /\ CfrmTime + DataTime < TxPeriod
  /\ RxPeriod < ExitWait
ASSUME PktAssumption == {TX_PKT_NUM, Lines} \subseteq Nat
ASSUME NoneAssumption == NONE \notin {"data", "end", "emac"}

Callback == {"tx_data_pkt", "rx_data_pkt", "v_sleep"}

VARIABLES
  pc,          \* where main of the application is
  exit_stat, end_rx_data, sleep_stat,
  tx_pkt_num, line,       \* packets counted, lines read
  timers,      \* [Callback -> Seq(Nat)] slots left of its pending timers
  tx_shm, rx_shm,         \* the message in a cell, NONE for status 0
  removed,     \* the application has removed cells and semaphores
  mac,         \* where main of the MAC process is
  frame, left  \* the frame it processes, slots left of its busy-wait

appVars == <<pc, exit_stat, end_rx_data, sleep_stat, tx_pkt_num, line,
             timers, removed>>
macVars == <<mac, frame, left>>
vars    == <<appVars, tx_shm, rx_shm, macVars>>

Init == /\ pc = "start"
        /\ exit_stat = FALSE /\ end_rx_data = FALSE /\ sleep_stat = FALSE
        /\ tx_pkt_num = 0 /\ line = 0
        /\ timers = [h \in Callback |-> IF h = "rx_data_pkt"
                                        THEN <<RxPeriod>> ELSE <<>>]
        /\ tx_shm = NONE /\ rx_shm = NONE /\ removed = FALSE
        /\ mac = "poll" /\ frame = NONE /\ left = 0

AddTimer(t, h, interval) == [t EXCEPT ![h] = Append(@, interval)]
DelTimer(t, h)           == [t EXCEPT ![h] = Tail(@)]

----------------------------------------------------------------------------
(***************************************************************************)
(* The callbacks.  t is the set of timers the callback finds: those of the *)
(* wheel without its own.                                                  *)
(***************************************************************************)
\* The end of the file is counted as packets until TX_PKT_NUM is exceeded.
EndOfFile_NoTimer(t) ==
  /\ line = Lines
  /\ tx_pkt_num' = tx_pkt_num + 1
  /\ IF tx_pkt_num' > TX_PKT_NUM THEN exit_stat' = TRUE ELSE UNCHANGED exit_stat
  /\ timers' = t
  /\ UNCHANGED <<line, tx_shm>>

EndOfFile(t) ==
  /\ line = Lines
  /\ tx_pkt_num' = tx_pkt_num + 1
  /\ IF tx_pkt_num' > TX_PKT_NUM
     THEN exit_stat' = TRUE /\ timers' = t
     ELSE /\ timers' = AddTimer(t, "tx_data_pkt", TxPeriod)
          /\ UNCHANGED exit_stat
  /\ UNCHANGED <<line, tx_shm>>

\* The line has no valid destination.
BadAddress(t) ==
  /\ line < Lines
  /\ line' = line + 1 /\ exit_stat' = TRUE
  /\ timers' = t
  /\ UNCHANGED <<tx_pkt_num, tx_shm>>

SendPkt_InSeconds(t) ==
  /\ line < Lines
  /\ line' = line + 1 /\ tx_pkt_num' = tx_pkt_num + 1
  /\ tx_shm' = "data"
  /\ timers' = AddTimer(t, "tx_data_pkt", TxPeriod \div 10)
  /\ UNCHANGED exit_stat

SendPkt(t) ==
  /\ line < Lines
  /\ line' = line + 1 /\ tx_pkt_num' = tx_pkt_num + 1
  /\ tx_shm' = "data"
  /\ timers' = AddTimer(t, "tx_data_pkt", TxPeriod)
  /\ UNCHANGED exit_stat

tx_data_pkt(t) ==
  /\ EndOfFile(t) \/ BadAddress(t) \/ SendPkt(t)
  /\ UNCHANGED <<end_rx_data, sleep_stat, rx_shm>>

\* Only the message of the MAC process is read: the cell has no other.
rx_data_pkt_ArmsTwice(t) ==
  /\ IF rx_shm # NONE /\ ~ end_rx_data
     THEN rx_shm' = NONE ELSE UNCHANGED rx_shm
  /\ timers' = IF end_rx_data THEN t
               ELSE IF rx_shm = NONE THEN AddTimer(t, "rx_data_pkt", RxPeriod)
               ELSE AddTimer(AddTimer(t, "rx_data_pkt", RxPeriod),
                             "rx_data_pkt", RxPeriod)
  /\ UNCHANGED <<exit_stat, end_rx_data, sleep_stat, tx_pkt_num, line, tx_shm>>

rx_data_pkt_ReadsOn(t) ==
  /\ rx_shm' = NONE
  /\ timers' = AddTimer(t, "rx_data_pkt", RxPeriod)
  /\ UNCHANGED <<exit_stat, end_rx_data, sleep_stat, tx_pkt_num, line, tx_shm>>

rx_data_pkt(t) ==
  /\ IF end_rx_data
     THEN timers' = t /\ UNCHANGED rx_shm
     ELSE timers' = AddTimer(t, "rx_data_pkt", RxPeriod) /\ rx_shm' = NONE
  /\ UNCHANGED <<exit_stat, end_rx_data, sleep_stat, tx_pkt_num, line, tx_shm>>

v_sleep(t) ==
  /\ sleep_stat' = FALSE /\ timers' = t
  /\ UNCHANGED <<exit_stat, end_rx_data, tx_pkt_num, line, tx_shm, rx_shm>>

Due(h) == timers[h] # <<>> /\ Head(timers[h]) = 0

RunTimer(h) ==
  /\ Due(h)
  /\ LET t == DelTimer(timers, h)
     IN \/ h = "tx_data_pkt" /\ tx_data_pkt(t)
        \/ h = "rx_data_pkt" /\ rx_data_pkt(t)
        \/ h = "v_sleep" /\ v_sleep(t)
  /\ UNCHANGED <<pc, removed, macVars>>

----------------------------------------------------------------------------
(***************************************************************************)
(* main of the application.                                                *)
(***************************************************************************)
\* The first packet is sent by main.
Start == /\ pc = "start" /\ pc' = "loop"
         /\ tx_data_pkt(timers)
         /\ UNCHANGED <<removed, macVars>>

EndRequest == /\ pc = "loop" /\ exit_stat
              /\ pc' = "node_sleep"
              /\ end_rx_data' = TRUE
              /\ tx_shm' = "end"
              /\ UNCHANGED <<exit_stat, sleep_stat, tx_pkt_num, line, timers,
                             rx_shm, removed, macVars>>

node_sleep_NoFlag ==
  /\ pc = "node_sleep" /\ pc' = "wait"
  /\ timers' = AddTimer(timers, "v_sleep", ExitWait)
  /\ UNCHANGED <<exit_stat, end_rx_data, sleep_stat, tx_pkt_num, line, tx_shm,
                 rx_shm, removed, macVars>>

node_sleep ==
  /\ pc = "node_sleep" /\ pc' = "wait"
  /\ sleep_stat' = TRUE
  /\ timers' = AddTimer(timers, "v_sleep", ExitWait)
  /\ UNCHANGED <<exit_stat, end_rx_data, tx_pkt_num, line, tx_shm, rx_shm,
                 removed, macVars>>

ReadAnswer == /\ pc = "wait" /\ ~ sleep_stat
              /\ pc' = IF rx_shm = "emac" THEN "success" ELSE "failed"
              /\ rx_shm' = NONE
              /\ UNCHANGED <<exit_stat, end_rx_data, sleep_stat, tx_pkt_num,
                             line, timers, tx_shm, removed, macVars>>

free_ptr == /\ pc \in {"success", "failed"} /\ pc' = "done"
            /\ timers' = [h \in Callback |-> <<>>]
            /\ removed' = TRUE
            /\ tx_shm' = NONE /\ rx_shm' = NONE
            /\ UNCHANGED <<exit_stat, end_rx_data, sleep_stat, tx_pkt_num,
                           line, macVars>>

AppMain == Start \/ EndRequest \/ node_sleep \/ ReadAnswer \/ free_ptr

----------------------------------------------------------------------------
(***************************************************************************)
(* The loop of the MAC process.  A frame of the physical channel may come  *)
(* in every iteration, and keeps the process busy; then the cell of the    *)
(* application is read.                                                    *)
(***************************************************************************)
PollPhy(f) == /\ mac = "poll"
              /\ mac' = "busy" /\ frame' = f
              /\ left' = IF f = "data" THEN CfrmTime + DataTime ELSE CfrmTime
              /\ UNCHANGED <<appVars, tx_shm, rx_shm>>

\* The data of a frame to this node is passed on, over data that has not
\* been read.  A control frame that answers nothing ends the loop.
ProcFrame == /\ mac = "busy" /\ left = 0
             /\ \/ mac' = "net"
                   /\ rx_shm' \in IF frame = "data" THEN {rx_shm, "data"}
                                  ELSE {rx_shm}
                \/ mac' = "failed" /\ frame = "cfrm" /\ UNCHANGED rx_shm
             /\ frame' = NONE
             /\ UNCHANGED <<appVars, tx_shm, left>>

NoMessage == /\ mac = "net" /\ tx_shm = NONE
             /\ mac' = "poll"
             /\ UNCHANGED <<appVars, tx_shm, rx_shm, frame, left>>

ReadPkt == /\ mac \in {"poll", "net"} /\ tx_shm = "data"
           /\ tx_shm' = NONE /\ mac' = "poll"
           /\ UNCHANGED <<appVars, rx_shm, frame, left>>

ReadEnd_NoAnswer ==
  /\ mac \in {"poll", "net"} /\ tx_shm = "end"
  /\ tx_shm' = NONE /\ mac' = "ended"
  /\ UNCHANGED <<appVars, rx_shm, frame, left>>

ReadEnd == /\ mac \in {"poll", "net"} /\ tx_shm = "end"
           /\ tx_shm' = NONE /\ rx_shm' = "emac"
           /\ mac' = "ended"
           /\ UNCHANGED <<appVars, frame, left>>

MacStep == ProcFrame \/ NoMessage \/ ReadPkt \/ ReadEnd

----------------------------------------------------------------------------
\* The next slot: every process waits, and no timer is due.
AppIdle == \/ pc = "loop" /\ ~ exit_stat
           \/ pc = "wait" /\ sleep_stat

MacIdle == \/ mac = "poll" /\ tx_shm = NONE
           \/ mac = "busy" /\ left > 0
           \/ mac \in {"ended", "failed"}

Tick == /\ AppIdle /\ MacIdle /\ \A h \in Callback : ~ Due(h)
        /\ timers' = [h \in Callback |->
                        [i \in DOMAIN timers[h] |-> timers[h][i] - 1]]
        /\ left' = IF mac = "busy" THEN left - 1 ELSE left
        /\ UNCHANGED <<pc, exit_stat, end_rx_data, sleep_stat, tx_pkt_num,
                       line, tx_shm, rx_shm, removed, mac, frame>>

Next == \/ \E h \in Callback : RunTimer(h)
        \/ AppMain \/ MacStep \/ Tick
        \/ \E f \in {"cfrm", "data"} : PollPhy(f)

Spec == Init /\ [][Next]_vars

(***************************************************************************)
(* The clock ticks, and both processes run.                                *)
(***************************************************************************)
Fairness == /\ WF_vars(Tick) /\ WF_vars(AppMain) /\ WF_vars(MacStep)
            /\ \A h \in Callback : WF_vars(RunTimer(h))

FairSpec == Spec /\ Fairness

----------------------------------------------------------------------------
MaxPkts == IF Lines > TX_PKT_NUM THEN Lines ELSE TX_PKT_NUM

\* The types of the variables.
TypeOK ==
  /\ pc \in {"start", "loop", "node_sleep", "wait", "success", "failed",
             "done"}
  /\ {exit_stat, end_rx_data, sleep_stat, removed} \subseteq BOOLEAN
  /\ tx_pkt_num \in 0 .. (MaxPkts + 1) /\ line \in 0 .. Lines
  /\ timers \in [Callback -> Seq(Nat)]
  /\ tx_shm \in {"data", "end", NONE} /\ rx_shm \in {"data", "emac", NONE}
  /\ mac \in {"poll", "busy", "net", "ended", "failed"}
  /\ frame \in {"cfrm", "data", NONE} /\ left \in 0 .. (CfrmTime + DataTime)

(***************************************************************************)
(* tx_data_pkt is called again exactly until exit_stat is set, rx_data_pkt *)
(* until it sees end_rx_data, v_sleep once per node_sleep: no callback is  *)
(* lost, and none runs twice per period.                                   *)
(***************************************************************************)
TimersExact ==
  pc \notin {"start", "done"} =>
    /\ Len(timers["tx_data_pkt"]) = IF exit_stat THEN 0 ELSE 1
    /\ Len(timers["rx_data_pkt"]) <= 1
    /\ ~ end_rx_data => Len(timers["rx_data_pkt"]) = 1
    /\ Len(timers["v_sleep"]) = IF sleep_stat THEN 1 ELSE 0

(***************************************************************************)
(* A packet, or the request to end, never overwrites a packet that the MAC *)
(* process has not read and is going to read.                              *)
(***************************************************************************)
NoOverwrite ==
  [][tx_shm' # tx_shm /\ tx_shm' # NONE
       => tx_shm = NONE \/ mac = "failed"]_vars

(***************************************************************************)
(* The application takes the exit of the MAC process for failed only if    *)
(* the MAC process had left its loop before, for another reason: one       *)
(* node_sleep is long enough, and nobody else takes the answer.            *)
(***************************************************************************)
MacAnswers == pc = "failed" => mac = "failed"

\* Cells and semaphores are removed when the MAC process has left its loop.
CellsInUse == removed => mac \in {"ended", "failed"}

\* When main deletes the timing wheel no timer is pending that the alarm
\* could still run.
WheelEmpty == pc \in {"success", "failed"} =>
                \A h \in Callback : timers[h] = <<>>

\* What the application deletes at its end is not in use any more.
NothingInUse == CellsInUse /\ WheelEmpty

\* The application ends, whatever the file holds and the MAC process does.
AppEnds == <>(pc = "done")
=============================================================================

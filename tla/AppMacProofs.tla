---------------------------- MODULE AppMacProofs ----------------------------
(***************************************************************************)
(* Proofs about AppMac, for any file, number of packets and periods that   *)
(* satisfy TimeAssumption: the types, the safety invariants and the action *)
(* property that the runs check.                                           *)
(*                                                                         *)
(* They rest on how long a message stays in the cell of the application.   *)
(* The MAC process reads it at once when it polls, and at the latest when  *)
(* it has processed the frame it is busy with: Busy slots, which is less   *)
(* than the period of the application and than its wait for the answer.    *)
(***************************************************************************)
EXTENDS AppMac, TLAPS

Busy == CfrmTime + DataTime

\* No pending timer, or one of at most n slots.
AtMost(h, n) == timers[h] = <<>> \/ \E k \in 0 .. n : timers[h] = <<k>>

TimerBounds == /\ timers \in [Callback -> Seq(Nat)]
               /\ AtMost("tx_data_pkt", TxPeriod)
               /\ AtMost("rx_data_pkt", RxPeriod)
               /\ AtMost("v_sleep", ExitWait)

Left(h) == timers[h][1]

\* Types of everything but the timers, and the packets counted: lines, until
\* the end of the file has been met.
PlainTypes ==
  /\ pc \in {"start", "loop", "node_sleep", "wait", "success", "failed",
             "done"}
  /\ {exit_stat, end_rx_data, sleep_stat, removed} \subseteq BOOLEAN
  /\ tx_pkt_num \in 0 .. (MaxPkts + 1) /\ line \in 0 .. Lines
  /\ tx_shm \in {"data", "end", NONE} /\ rx_shm \in {"data", "emac", NONE}
  /\ mac \in {"poll", "busy", "net", "ended", "failed"}
  /\ frame \in {"cfrm", "data", NONE} /\ left \in 0 .. Busy

CountOK == ~ exit_stat => \/ tx_pkt_num = line
                          \/ line = Lines /\ tx_pkt_num <= TX_PKT_NUM

\* The flags of the application follow the place of its main program.
FlagsOK ==
  /\ pc = "start" => ~ exit_stat /\ tx_shm = NONE
  /\ end_rx_data <=> pc \notin {"start", "loop"}
  /\ end_rx_data => exit_stat
  /\ sleep_stat => pc = "wait"
  /\ removed => pc = "done"

\* Which timers are pending.
PendingOK ==
  /\ pc = "start" => timers["tx_data_pkt"] = <<>>
  /\ pc # "start" => (timers["tx_data_pkt"] = <<>> <=> exit_stat)
  /\ ~ end_rx_data => timers["rx_data_pkt"] # <<>>
  /\ timers["v_sleep"] = <<>> <=> ~ sleep_stat

\* The MAC process, which is in m with l slots left and has had n slots, will
\* have read the cell after Busy slots.
InTime(n, m, l) == /\ m = "poll" => n = 0
                   /\ m = "busy" => n + l <= Busy
                   /\ m = "net" => n <= Busy

\* Slots since the message "end" was written.
Waited == IF pc = "wait" THEN ExitWait - Left("v_sleep") ELSE 0

DataOK == tx_shm = "data" /\ mac # "failed" =>
            /\ pc = "loop" /\ ~ exit_stat
            /\ InTime(TxPeriod - Left("tx_data_pkt"), mac, left)

EndOK ==
  /\ tx_shm = "end" \/ mac = "ended" => end_rx_data
  /\ end_rx_data /\ mac \notin {"ended", "failed"} =>
       /\ tx_shm = "end"
       /\ \/ pc = "node_sleep"
          \/ pc = "wait" /\ sleep_stat
       /\ InTime(Waited, mac, left)

\* The last call of rx_data_pkt comes before the wait ends.
LastReadOK ==
  /\ (pc = "node_sleep" \/ (pc = "wait" /\ sleep_stat)) =>
       \/ timers["rx_data_pkt"] = <<>>
       \/ Left("rx_data_pkt") + Waited <= RxPeriod
  /\ (pc = "wait" /\ ~ sleep_stat) \/ pc \in {"success", "failed"} =>
       timers["rx_data_pkt"] = <<>>

AnswerOK == /\ mac = "ended" /\ pc \in {"node_sleep", "wait"} => rx_shm = "emac"
            /\ pc = "failed" => mac = "failed"

IInv == /\ TimerBounds /\ PlainTypes /\ CountOK /\ FlagsOK /\ PendingOK
        /\ DataOK /\ EndOK /\ LastReadOK /\ AnswerOK

----------------------------------------------------------------------------
(***************************************************************************)
(* The timers: a list of at most one slot count for each callback.         *)
(***************************************************************************)
LEMMA OneSlot ==
  ASSUME NEW n \in Nat
  PROVE  /\ <<n>> # <<>> /\ <<n>>[1] = n /\ Head(<<n>>) = n
         /\ Tail(<<n>>) = <<>> /\ Append(<<>>, n) = <<n>>
         /\ <<n>> \in Seq(Nat) /\ <<>> \in Seq(Nat)
  OBVIOUS

\* A pending timer is the only one of its callback.
LEMMA Pending ==
  ASSUME TimerBounds, NEW h \in Callback, timers[h] # <<>>
  PROVE  /\ Left(h) \in Nat /\ timers[h] = <<Left(h)>>
         /\ h = "tx_data_pkt" => Left(h) <= TxPeriod
         /\ h = "rx_data_pkt" => Left(h) <= RxPeriod
         /\ h = "v_sleep" => Left(h) <= ExitWait
<1>1. \E k \in Nat : /\ timers[h] = <<k>>
                     /\ h = "tx_data_pkt" => k <= TxPeriod
                     /\ h = "rx_data_pkt" => k <= RxPeriod
                     /\ h = "v_sleep" => k <= ExitWait
  BY TimeAssumption DEF TimerBounds, AtMost, Callback
<1> QED BY <1>1, OneSlot DEF Left

\* A timer that is due, and the others without it.
LEMMA DueTimer ==
  ASSUME TimerBounds, NEW h \in Callback, Due(h)
  PROVE  /\ timers[h] = <<0>> /\ Left(h) = 0
         /\ DelTimer(timers, h) = [timers EXCEPT ![h] = <<>>]
<1>1. timers[h] # <<>> /\ Head(timers[h]) = 0
  BY DEF Due
<1>2. timers[h] = <<0>> /\ Left(h) = 0
  BY <1>1, Pending, OneSlot
<1> QED BY <1>2, OneSlot DEF DelTimer

\* A timer is set for a callback that has none.
LEMMA SetTimer ==
  ASSUME NEW t \in [Callback -> Seq(Nat)], NEW h \in Callback,
         t[h] = <<>>, NEW n \in Nat
  PROVE  AddTimer(t, h, n) = [t EXCEPT ![h] = <<n>>]
  BY OneSlot DEF AddTimer

\* In a slot without due timers every pending one comes nearer.
LEMMA TickTimers ==
  ASSUME TimerBounds, Tick
  PROVE  /\ TimerBounds'
         /\ \A h \in Callback : timers'[h] = <<>> <=> timers[h] = <<>>
         /\ \A h \in Callback : timers[h] # <<>> =>
              Left(h) \in Nat /\ Left(h)' = Left(h) - 1 /\ Left(h)' \in Nat
<1> DEFINE Next1(h) == [k \in DOMAIN timers[h] |-> timers[h][k] - 1]
<1>1. timers' = [h \in Callback |-> Next1(h)]
  BY DEF Tick
<1>2. ASSUME NEW h \in Callback, timers[h] = <<>>
      PROVE  timers'[h] = <<>>
  BY <1>1, <1>2
<1>3. ASSUME NEW h \in Callback, timers[h] # <<>>
      PROVE  /\ Left(h) \in Nat /\ Left(h)' = Left(h) - 1 /\ Left(h)' \in Nat
             /\ timers'[h] = <<Left(h)'>> /\ timers'[h] # <<>>
             /\ timers'[h] \in Seq(Nat)
  <2>1. Left(h) \in Nat /\ timers[h] = <<Left(h)>>
    BY <1>3, Pending
  <2>2. Left(h) # 0
    BY <1>3, <2>1, OneSlot DEF Tick, Due
  <2>3. Next1(h) = <<Left(h) - 1>>
    BY <2>1
  <2>4. timers'[h] = <<Left(h) - 1>> /\ Left(h) - 1 \in Nat
    BY <1>1, <2>1, <2>2, <2>3
  <2> QED BY <2>1, <2>4, OneSlot DEF Left
<1>4. timers' \in [Callback -> Seq(Nat)]
  <2>1. \A h \in Callback : timers'[h] \in Seq(Nat)
    BY <1>2, <1>3, OneSlot
  <2> HIDE DEF Next1
  <2> QED BY <1>1, <2>1
<1>5. \A h \in Callback : timers[h] = <<>> \/
        \E k \in Nat : timers'[h] = <<k>> /\ k < Left(h)
  <2> SUFFICES ASSUME NEW h \in Callback, timers[h] # <<>>
               PROVE  \E k \in Nat : timers'[h] = <<k>> /\ k < Left(h)
    OBVIOUS
  <2>1. Left(h) \in Nat /\ Left(h)' = Left(h) - 1 /\ Left(h)' \in Nat
        /\ timers'[h] = <<Left(h)'>>
    BY <1>3
  <2> QED BY <2>1
<1>6. TimerBounds'
  <2>1. AtMost("tx_data_pkt", TxPeriod)'
    BY <1>2, <1>5, Pending, TimeAssumption DEF AtMost, Callback
  <2>2. AtMost("rx_data_pkt", RxPeriod)'
    BY <1>2, <1>5, Pending, TimeAssumption DEF AtMost, Callback
  <2>3. AtMost("v_sleep", ExitWait)'
    BY <1>2, <1>5, Pending, TimeAssumption DEF AtMost, Callback
  <2> QED BY <1>4, <2>1, <2>2, <2>3 DEF TimerBounds
<1>7. ASSUME NEW h \in Callback PROVE timers'[h] = <<>> <=> timers[h] = <<>>
  BY <1>2, <1>3
<1> QED BY <1>3, <1>6, <1>7

----------------------------------------------------------------------------
(***************************************************************************)
(* The invariant.                                                          *)
(***************************************************************************)
LEMMA Periods ==
  /\ TxPeriod \in Nat /\ RxPeriod \in Nat /\ ExitWait \in Nat
  /\ CfrmTime \in Nat /\ DataTime \in Nat /\ Busy \in Nat
  /\ Busy < TxPeriod /\ Busy < ExitWait /\ RxPeriod < ExitWait
  /\ CfrmTime <= Busy
  /\ TX_PKT_NUM \in Nat /\ Lines \in Nat /\ MaxPkts \in Nat
  /\ TX_PKT_NUM <= MaxPkts /\ Lines <= MaxPkts
  BY TimeAssumption, PktAssumption DEF Busy, MaxPkts

LEMMA InitStep == Init => IInv
<1> SUFFICES ASSUME Init PROVE IInv
  OBVIOUS
<1>1. TimerBounds
  <2>1. /\ timers["tx_data_pkt"] = <<>> /\ timers["v_sleep"] = <<>>
        /\ timers["rx_data_pkt"] = <<RxPeriod>>
    BY DEF Init, Callback
  <2>2. timers \in [Callback -> Seq(Nat)]
    BY Periods, OneSlot DEF Init
  <2> QED BY <2>1, <2>2, Periods DEF TimerBounds, AtMost
<1>2. PlainTypes
  <2>1. {exit_stat, end_rx_data, sleep_stat, removed} \subseteq BOOLEAN
    BY Zenon DEF Init
  <2>2. /\ tx_pkt_num \in 0 .. (MaxPkts + 1) /\ line \in 0 .. Lines
        /\ left \in 0 .. Busy
    BY Periods DEF Init
  <2> QED BY <2>1, <2>2 DEF Init, PlainTypes
<1>3. CountOK /\ FlagsOK
  BY DEF Init, CountOK, FlagsOK
<1>4. PendingOK
  BY Periods, OneSlot DEF Init, PendingOK, Callback
<1>5. DataOK /\ EndOK /\ LastReadOK /\ AnswerOK
  BY NoneAssumption DEF Init, DataOK, EndOK, LastReadOK, AnswerOK
<1> QED BY <1>1, <1>2, <1>3, <1>4, <1>5 DEF IInv

\* A slot passes: the MAC process is busy with a frame, or has read the cell.
LEMMA TickStep == IInv /\ Tick => IInv'
<1> SUFFICES ASSUME IInv, Tick PROVE IInv'
  OBVIOUS
<1>1. TimerBounds' /\ \A h \in Callback : timers'[h] = <<>> <=> timers[h] = <<>>
  BY TickTimers DEF IInv
<1>2. \A h \in Callback : timers[h] # <<>> =>
        Left(h) \in Nat /\ Left(h)' = Left(h) - 1 /\ Left(h)' \in Nat
  BY TickTimers DEF IInv
<1>3. UNCHANGED <<pc, exit_stat, end_rx_data, sleep_stat, tx_pkt_num, line,
                  tx_shm, rx_shm, removed, mac, frame>>
  BY DEF Tick
<1>4. PlainTypes' /\ CountOK' /\ FlagsOK' /\ AnswerOK'
  BY <1>3, Periods DEF IInv, Tick, MacIdle, PlainTypes, CountOK, FlagsOK,
                       AnswerOK
<1>5. PendingOK'
  BY <1>1, <1>3 DEF IInv, PendingOK, Callback
<1>6. ASSUME NEW n \in Int, InTime(n, mac, left), tx_shm # NONE,
             mac # "failed"
      PROVE  InTime(n + 1, mac', left')
  BY <1>3, <1>6, Periods DEF IInv, PlainTypes, Tick, MacIdle, InTime
<1>7. DataOK'
  <2> SUFFICES ASSUME tx_shm = "data", mac # "failed" PROVE DataOK'
    BY <1>3 DEF DataOK
  <2> DEFINE n == TxPeriod - Left("tx_data_pkt")
  <2>1. pc = "loop" /\ ~ exit_stat /\ InTime(n, mac, left)
    BY DEF IInv, DataOK
  <2>2. Left("tx_data_pkt") \in Nat
        /\ Left("tx_data_pkt")' = Left("tx_data_pkt") - 1
    BY <1>2, <2>1 DEF IInv, PendingOK, Callback
  <2>3. n \in Int /\ TxPeriod - Left("tx_data_pkt")' = n + 1
    BY <2>2, Periods
  <2>4. InTime(n + 1, mac', left')
    BY <1>6, <2>1, <2>3, NoneAssumption
  <2> HIDE DEF n
  <2> QED BY <1>3, <2>1, <2>3, <2>4 DEF DataOK
<1>8. ASSUME pc = "wait", sleep_stat
      PROVE  /\ Waited \in Int /\ Waited' = Waited + 1
             /\ timers["rx_data_pkt"] # <<>> =>
                  Left("rx_data_pkt")' + Waited' = Left("rx_data_pkt") + Waited
  BY <1>2, <1>3, <1>8, Periods DEF IInv, PendingOK, Callback, Waited
<1>9. EndOK'
  <2>1. ASSUME end_rx_data, mac \notin {"ended", "failed"}
        PROVE  /\ tx_shm = "end" /\ pc = "wait" /\ sleep_stat
               /\ InTime(Waited', mac', left')
    <3>1. tx_shm = "end" /\ pc = "wait" /\ sleep_stat /\ InTime(Waited, mac, left)
      BY <2>1 DEF IInv, EndOK, Tick, AppIdle
    <3>2. InTime(Waited + 1, mac', left')
      BY <1>6, <1>8, <2>1, <3>1, NoneAssumption
    <3>3. Waited' = Waited + 1
      BY <1>8, <3>1
    <3> QED BY <1>3, <3>1, <3>2, <3>3
  <2> QED BY <1>3, <2>1 DEF IInv, EndOK
<1>10. LastReadOK'
  BY <1>1, <1>3, <1>8 DEF IInv, LastReadOK, Tick, AppIdle, Callback
<1> QED BY <1>1, <1>4, <1>5, <1>7, <1>9, <1>10 DEF IInv

----------------------------------------------------------------------------
(***************************************************************************)
(* The cell of the application is free, or nobody reads it any more.       *)
(***************************************************************************)
CellFree == tx_shm = NONE \/ mac = "failed"

\* When the next packet is due the last one has been read.
LEMMA FreeWhenDue ==
  ASSUME IInv, Due("tx_data_pkt")
  PROVE  pc = "loop" /\ ~ exit_stat /\ CellFree
<1>1. timers["tx_data_pkt"] = <<0>> /\ Left("tx_data_pkt") = 0
  BY DueTimer DEF IInv, Callback
<1>2. timers["tx_data_pkt"] # <<>>
  BY <1>1, OneSlot
<1>3. pc = "loop" /\ ~ exit_stat
  BY <1>2 DEF IInv, PendingOK, FlagsOK
<1>4. ~ end_rx_data /\ tx_shm # "end" /\ mac # "ended"
  BY <1>3 DEF IInv, FlagsOK, EndOK
<1>5. tx_shm = "data" => mac = "failed"
  BY <1>1, <1>4, Periods DEF IInv, DataOK, InTime, PlainTypes
<1> QED BY <1>3, <1>4, <1>5 DEF IInv, PlainTypes, CellFree

\* When the application has no more packets the last one has been read.
LEMMA FreeAtEnd ==
  ASSUME IInv, pc = "loop", exit_stat
  PROVE  CellFree
<1>1. tx_shm # "end"
  BY DEF IInv, FlagsOK, EndOK
<1> QED BY <1>1 DEF IInv, DataOK, PlainTypes, CellFree

\* The timers a callback finds that is not pending itself.
Without(h) == [timers EXCEPT ![h] = <<>>]

\* tx_data_pkt, whoever calls it: one more line or packet, and the next call is
\* set unless it was the last.
LEMMA TxCall ==
  ASSUME IInv, ~ exit_stat, tx_data_pkt(Without("tx_data_pkt"))
  PROVE  /\ exit_stat' \in BOOLEAN
         /\ timers' = [timers EXCEPT !["tx_data_pkt"] =
                         IF exit_stat' THEN <<>> ELSE <<TxPeriod>>]
         /\ line' \in 0 .. Lines /\ tx_pkt_num' \in 0 .. (MaxPkts + 1)
         /\ CountOK'
         /\ \/ UNCHANGED tx_shm
            \/ tx_shm' = "data" /\ ~ exit_stat'
         /\ UNCHANGED <<end_rx_data, sleep_stat, rx_shm>>
<1>1. /\ line \in 0 .. Lines /\ tx_pkt_num \in 0 .. (MaxPkts + 1)
      /\ tx_pkt_num = line \/ (line = Lines /\ tx_pkt_num <= TX_PKT_NUM)
      /\ exit_stat = FALSE
  BY DEF IInv, PlainTypes, CountOK
<1>2. AddTimer(Without("tx_data_pkt"), "tx_data_pkt", TxPeriod)
        = [timers EXCEPT !["tx_data_pkt"] = <<TxPeriod>>]
  <2>1. timers \in [Callback -> Seq(Nat)] /\ "tx_data_pkt" \in Callback
    BY DEF IInv, TimerBounds, Callback
  <2>2. /\ Without("tx_data_pkt") \in [Callback -> Seq(Nat)]
        /\ Without("tx_data_pkt")["tx_data_pkt"] = <<>>
    BY <2>1, OneSlot DEF Without
  <2>3. AddTimer(Without("tx_data_pkt"), "tx_data_pkt", TxPeriod)
          = [Without("tx_data_pkt") EXCEPT !["tx_data_pkt"] = <<TxPeriod>>]
    BY <2>1, <2>2, SetTimer, Periods
  <2> QED BY <2>1, <2>3 DEF Without
<1>3. UNCHANGED <<end_rx_data, sleep_stat, rx_shm>>
  BY DEF tx_data_pkt
<1>4. CASE /\ EndOfFile(Without("tx_data_pkt")) /\ tx_pkt_num' > TX_PKT_NUM
  <2>1. /\ exit_stat' = TRUE /\ timers' = [timers EXCEPT !["tx_data_pkt"] = <<>>]
        /\ tx_pkt_num' = tx_pkt_num + 1 /\ UNCHANGED <<line, tx_shm>>
    BY <1>4, Zenon DEF EndOfFile, Without
  <2>2. tx_pkt_num' \in 0 .. (MaxPkts + 1)
    BY <1>1, <2>1, Periods
  <2> QED BY <1>1, <1>3, <2>1, <2>2 DEF CountOK
<1>5. CASE /\ EndOfFile(Without("tx_data_pkt")) /\ ~ tx_pkt_num' > TX_PKT_NUM
  <2>1. /\ exit_stat' = exit_stat /\ line = Lines
        /\ timers' = [timers EXCEPT !["tx_data_pkt"] = <<TxPeriod>>]
        /\ tx_pkt_num' = tx_pkt_num + 1 /\ UNCHANGED <<line, tx_shm>>
    BY <1>2, <1>5, Zenon DEF EndOfFile
  <2>2. tx_pkt_num' \in 0 .. (MaxPkts + 1) /\ tx_pkt_num' <= TX_PKT_NUM
    BY <1>1, <1>5, <2>1, Periods
  <2> QED BY <1>1, <1>3, <2>1, <2>2 DEF CountOK
<1>6. CASE BadAddress(Without("tx_data_pkt"))
  <2>1. /\ exit_stat' = TRUE /\ timers' = [timers EXCEPT !["tx_data_pkt"] = <<>>]
        /\ line < Lines /\ line' = line + 1 /\ UNCHANGED <<tx_pkt_num, tx_shm>>
    BY <1>6, Zenon DEF BadAddress, Without
  <2>2. line' \in 0 .. Lines
    BY <1>1, <2>1, Periods
  <2> QED BY <1>1, <1>3, <2>1, <2>2 DEF CountOK
<1>7. CASE SendPkt(Without("tx_data_pkt"))
  <2>1. /\ exit_stat' = exit_stat /\ tx_shm' = "data"
        /\ timers' = [timers EXCEPT !["tx_data_pkt"] = <<TxPeriod>>]
        /\ line < Lines /\ line' = line + 1 /\ tx_pkt_num' = tx_pkt_num + 1
    BY <1>2, <1>7, Zenon DEF SendPkt
  <2>2. /\ line' \in 0 .. Lines /\ tx_pkt_num' \in 0 .. (MaxPkts + 1)
        /\ tx_pkt_num' = line'
    BY <1>1, <2>1, Periods
  <2> QED BY <1>1, <1>3, <2>1, <2>2 DEF CountOK
<1> QED BY <1>4, <1>5, <1>6, <1>7 DEF tx_data_pkt

\* A packet is sent by main, or when its timer is due.
LEMMA TxStep ==
  ASSUME IInv, ~ exit_stat, tx_data_pkt(Without("tx_data_pkt")), CellFree,
         pc \in {"start", "loop"}, pc' = "loop",
         UNCHANGED <<removed, macVars>>
  PROVE  IInv'
<1>1. /\ timers' = [timers EXCEPT !["tx_data_pkt"] =
                      IF exit_stat' THEN <<>> ELSE <<TxPeriod>>]
      /\ exit_stat' \in BOOLEAN
      /\ UNCHANGED <<end_rx_data, sleep_stat, rx_shm, removed, mac, frame, left>>
  BY TxCall DEF macVars
<1>2. /\ timers' \in [Callback -> Seq(Nat)]
      /\ timers'["tx_data_pkt"] = IF exit_stat' THEN <<>> ELSE <<TxPeriod>>
      /\ timers'["rx_data_pkt"] = timers["rx_data_pkt"]
      /\ timers'["v_sleep"] = timers["v_sleep"]
  BY <1>1, Periods, OneSlot DEF IInv, TimerBounds, Callback
<1>3. TimerBounds'
  BY <1>2, Periods DEF IInv, TimerBounds, AtMost
<1>4. ~ end_rx_data /\ ~ sleep_stat /\ mac # "ended" /\ ~ removed
  BY DEF IInv, FlagsOK, EndOK
<1>5. tx_shm' \in {"data", "end", NONE} /\ (tx_shm' = "end" => tx_shm = "end")
  BY TxCall DEF IInv, PlainTypes
<1>6. PlainTypes'
  <2>1. /\ line' \in 0 .. Lines /\ tx_pkt_num' \in 0 .. (MaxPkts + 1)
    BY TxCall
  <2> QED BY <1>1, <1>5, <2>1 DEF IInv, PlainTypes
<1>7. CountOK' /\ FlagsOK' /\ PendingOK'
  <2>1. CountOK'
    BY TxCall
  <2>2. FlagsOK'
    BY <1>1, <1>4 DEF IInv, FlagsOK
  <2>3. PendingOK'
    BY <1>1, <1>2, <1>4, Periods, OneSlot DEF IInv, PendingOK
  <2> QED BY <2>1, <2>2, <2>3
<1>8. DataOK'
  <2> SUFFICES ASSUME tx_shm' = "data", mac # "failed" PROVE DataOK'
    BY <1>1 DEF DataOK
  <2>1. ~ exit_stat'
    BY TxCall, NoneAssumption DEF CellFree
  <2>2. Left("tx_data_pkt")' = TxPeriod
    BY <1>2, <2>1, Periods, OneSlot DEF Left
  <2>3. InTime(0, mac, left)
    BY Periods DEF InTime, IInv, PlainTypes
  <2> QED BY <1>1, <2>1, <2>2, <2>3, Periods DEF DataOK
<1>9. EndOK' /\ LastReadOK' /\ AnswerOK'
  BY <1>1, <1>4, <1>5 DEF IInv, EndOK, LastReadOK, AnswerOK
<1> QED BY <1>3, <1>6, <1>7, <1>8, <1>9 DEF IInv

LEMMA StartStep == IInv /\ Start => IInv'
<1> SUFFICES ASSUME IInv, Start PROVE IInv'
  OBVIOUS
<1>1. ~ exit_stat /\ CellFree /\ timers["tx_data_pkt"] = <<>>
  BY DEF IInv, FlagsOK, PendingOK, Start, CellFree
<1>2. Without("tx_data_pkt") = timers
  BY <1>1 DEF IInv, TimerBounds, Without
<1> QED BY <1>1, <1>2, TxStep DEF Start

LEMMA RunTxStep ==
  ASSUME IInv, Due("tx_data_pkt"), tx_data_pkt(DelTimer(timers, "tx_data_pkt")),
         UNCHANGED <<pc, removed, macVars>>
  PROVE  IInv'
<1>1. pc = "loop" /\ ~ exit_stat /\ CellFree
  BY FreeWhenDue
<1>2. DelTimer(timers, "tx_data_pkt") = Without("tx_data_pkt")
  BY DueTimer DEF IInv, Callback, Without
<1> QED BY <1>1, <1>2, TxStep

\* rx_data_pkt sets its own timer again, or ends, which empties the wheel.
LEMMA RunRxStep ==
  ASSUME IInv, Due("rx_data_pkt"), rx_data_pkt(DelTimer(timers, "rx_data_pkt")),
         UNCHANGED <<pc, removed, macVars>>
  PROVE  IInv'
<1>1. /\ UNCHANGED <<pc, exit_stat, end_rx_data, sleep_stat, tx_pkt_num, line,
                     tx_shm, removed, mac, frame, left>>
  BY DEF rx_data_pkt, macVars
<1>2. DelTimer(timers, "rx_data_pkt") = Without("rx_data_pkt")
      /\ timers["rx_data_pkt"] = <<0>> /\ Left("rx_data_pkt") = 0
  BY DueTimer DEF IInv, Callback, Without
<1>3. AddTimer(Without("rx_data_pkt"), "rx_data_pkt", RxPeriod)
        = [timers EXCEPT !["rx_data_pkt"] = <<RxPeriod>>]
  <2>1. timers \in [Callback -> Seq(Nat)] /\ "rx_data_pkt" \in Callback
    BY DEF IInv, TimerBounds, Callback
  <2>2. /\ Without("rx_data_pkt") \in [Callback -> Seq(Nat)]
        /\ Without("rx_data_pkt")["rx_data_pkt"] = <<>>
    BY <2>1, OneSlot DEF Without
  <2>3. AddTimer(Without("rx_data_pkt"), "rx_data_pkt", RxPeriod)
          = [Without("rx_data_pkt") EXCEPT !["rx_data_pkt"] = <<RxPeriod>>]
    BY <2>1, <2>2, SetTimer, Periods
  <2> QED BY <2>1, <2>3 DEF Without
<1>4. /\ end_rx_data => timers' = [timers EXCEPT !["rx_data_pkt"] = <<>>]
                        /\ UNCHANGED rx_shm
      /\ ~ end_rx_data =>
           timers' = [timers EXCEPT !["rx_data_pkt"] = <<RxPeriod>>]
           /\ rx_shm' = NONE
  BY <1>2, <1>3, Zenon DEF rx_data_pkt, Without
<1>5. /\ timers' \in [Callback -> Seq(Nat)]
      /\ timers'["rx_data_pkt"] = IF end_rx_data THEN <<>> ELSE <<RxPeriod>>
      /\ timers'["tx_data_pkt"] = timers["tx_data_pkt"]
      /\ timers'["v_sleep"] = timers["v_sleep"]
  BY <1>4, Periods, OneSlot DEF IInv, TimerBounds, Callback
<1>6. TimerBounds'
  BY <1>5, Periods DEF IInv, TimerBounds, AtMost
<1>7. PlainTypes' /\ CountOK' /\ FlagsOK'
  BY <1>1, <1>4 DEF IInv, PlainTypes, CountOK, FlagsOK
<1>8. PendingOK'
  BY <1>1, <1>5, Periods, OneSlot DEF IInv, PendingOK
<1>9. /\ Left("tx_data_pkt")' = Left("tx_data_pkt")
      /\ Left("v_sleep")' = Left("v_sleep")
  BY <1>5 DEF Left
<1>10. DataOK' /\ EndOK'
  BY <1>1, <1>9 DEF IInv, DataOK, EndOK, Waited, InTime
<1>11. LastReadOK'
  BY <1>1, <1>5 DEF IInv, LastReadOK, FlagsOK
<1>12. AnswerOK'
  BY <1>1, <1>4 DEF IInv, AnswerOK, FlagsOK
<1> QED BY <1>6, <1>7, <1>8, <1>10, <1>11, <1>12 DEF IInv

\* When the wait ends the MAC process has read "end", and answered it unless it
\* had failed; rx_data_pkt has been called for the last time.
LEMMA RunSleepStep ==
  ASSUME IInv, Due("v_sleep"), v_sleep(DelTimer(timers, "v_sleep")),
         UNCHANGED <<pc, removed, macVars>>
  PROVE  IInv'
<1>1. /\ UNCHANGED <<pc, exit_stat, end_rx_data, tx_pkt_num, line, tx_shm,
                     rx_shm, removed, mac, frame, left>>
      /\ sleep_stat' = FALSE
  BY DEF v_sleep, macVars
<1>2. DelTimer(timers, "v_sleep") = Without("v_sleep")
      /\ timers["v_sleep"] = <<0>> /\ Left("v_sleep") = 0
  BY DueTimer DEF IInv, Callback, Without
<1>3. /\ timers' \in [Callback -> Seq(Nat)]
      /\ timers'["v_sleep"] = <<>>
      /\ timers'["tx_data_pkt"] = timers["tx_data_pkt"]
      /\ timers'["rx_data_pkt"] = timers["rx_data_pkt"]
  <2>1. timers' = [timers EXCEPT !["v_sleep"] = <<>>]
    BY <1>2 DEF v_sleep, Without
  <2> QED BY <2>1, OneSlot DEF IInv, TimerBounds, Callback
<1>4. sleep_stat /\ pc = "wait" /\ end_rx_data /\ Waited = ExitWait
  <2>1. sleep_stat
    BY <1>2, OneSlot DEF IInv, PendingOK
  <2>2. pc = "wait" /\ end_rx_data
    BY <2>1 DEF IInv, FlagsOK
  <2> QED BY <1>2, <2>1, <2>2, Periods DEF Waited
<1>5. mac \in {"ended", "failed"}
  BY <1>4, Periods DEF IInv, EndOK, InTime, PlainTypes
<1>6. timers["rx_data_pkt"] = <<>>
  <2> SUFFICES ASSUME timers["rx_data_pkt"] # <<>> PROVE FALSE
    OBVIOUS
  <2>1. Left("rx_data_pkt") \in Nat
    BY Pending DEF IInv, Callback
  <2>2. Left("rx_data_pkt") + ExitWait <= RxPeriod
    BY <1>4 DEF IInv, LastReadOK
  <2> QED BY <2>1, <2>2, Periods
<1>7. TimerBounds'
  BY <1>3 DEF IInv, TimerBounds, AtMost
<1>8. PlainTypes'
  <2>1. sleep_stat' \in BOOLEAN
    BY <1>1, Zenon
  <2> QED BY <1>1, <2>1 DEF IInv, PlainTypes
<1>9. CountOK' /\ FlagsOK' /\ AnswerOK'
  BY <1>1 DEF IInv, CountOK, FlagsOK, AnswerOK
<1>10. PendingOK'
  BY <1>1, <1>3, <1>4 DEF IInv, PendingOK
<1>11. DataOK' /\ EndOK' /\ LastReadOK'
  BY <1>1, <1>3, <1>4, <1>5, <1>6 DEF IInv, DataOK, EndOK, LastReadOK
<1> QED BY <1>7, <1>8, <1>9, <1>10, <1>11 DEF IInv

LEMMA RunTimerStep ==
  ASSUME IInv, NEW h \in Callback, RunTimer(h)
  PROVE  IInv'
  BY RunTxStep, RunRxStep, RunSleepStep DEF RunTimer

LEMMA EndRequestStep == IInv /\ EndRequest => IInv'
<1> SUFFICES ASSUME IInv, EndRequest PROVE IInv'
  OBVIOUS
<1>1. /\ pc = "loop" /\ exit_stat /\ pc' = "node_sleep" /\ tx_shm' = "end"
      /\ end_rx_data' = TRUE
      /\ UNCHANGED <<exit_stat, sleep_stat, tx_pkt_num, line, timers, rx_shm,
                     removed, mac, frame, left>>
  BY DEF EndRequest, macVars
<1>2. ~ end_rx_data /\ ~ sleep_stat /\ ~ removed /\ mac # "ended"
  BY <1>1 DEF IInv, FlagsOK, EndOK
<1>3. TimerBounds'
  BY <1>1 DEF IInv, TimerBounds, AtMost
<1>4. PlainTypes'
  <2>1. end_rx_data' \in BOOLEAN
    BY <1>1, Zenon
  <2> QED BY <1>1, <2>1 DEF IInv, PlainTypes
<1>5. CountOK' /\ FlagsOK' /\ PendingOK' /\ AnswerOK'
  BY <1>1, <1>2 DEF IInv, CountOK, FlagsOK, PendingOK, AnswerOK
<1>6. DataOK' /\ EndOK'
  <2>1. InTime(Waited', mac', left')
    BY <1>1, Periods DEF IInv, PlainTypes, InTime, Waited
  <2>2. tx_shm' # "data"
    BY <1>1
  <2> QED BY <1>1, <2>1, <2>2 DEF DataOK, EndOK
<1>7. LastReadOK'
  <2>1. timers["rx_data_pkt"] # <<>> =>
          Left("rx_data_pkt") \in Nat /\ Left("rx_data_pkt") <= RxPeriod
    BY Pending DEF IInv, Callback
  <2>2. Waited' = 0 /\ Left("rx_data_pkt")' = Left("rx_data_pkt")
    BY <1>1 DEF Waited, Left
  <2> QED BY <1>1, <2>1, <2>2, Periods DEF LastReadOK
<1> QED BY <1>3, <1>4, <1>5, <1>6, <1>7 DEF IInv

LEMMA NodeSleepStep == IInv /\ node_sleep => IInv'
<1> SUFFICES ASSUME IInv, node_sleep PROVE IInv'
  OBVIOUS
<1>1. /\ pc = "node_sleep" /\ pc' = "wait" /\ sleep_stat' = TRUE
      /\ timers' = AddTimer(timers, "v_sleep", ExitWait)
      /\ UNCHANGED <<exit_stat, end_rx_data, tx_pkt_num, line, tx_shm, rx_shm,
                     removed, mac, frame, left>>
  BY DEF node_sleep, macVars
<1>2. end_rx_data /\ exit_stat /\ ~ sleep_stat /\ ~ removed
  BY <1>1 DEF IInv, FlagsOK
<1>3. timers["v_sleep"] = <<>>
  BY <1>2 DEF IInv, PendingOK
<1>4. timers' = [timers EXCEPT !["v_sleep"] = <<ExitWait>>]
  BY <1>1, <1>3, SetTimer, Periods DEF IInv, TimerBounds, Callback
<1>5. /\ timers' \in [Callback -> Seq(Nat)]
      /\ timers'["v_sleep"] = <<ExitWait>>
      /\ timers'["tx_data_pkt"] = timers["tx_data_pkt"]
      /\ timers'["rx_data_pkt"] = timers["rx_data_pkt"]
  BY <1>4, Periods, OneSlot DEF IInv, TimerBounds, Callback
<1>6. TimerBounds'
  BY <1>5, Periods DEF IInv, TimerBounds, AtMost
<1>7. PlainTypes'
  <2>1. sleep_stat' \in BOOLEAN
    BY <1>1, Zenon
  <2> QED BY <1>1, <2>1 DEF IInv, PlainTypes
<1>8. CountOK' /\ FlagsOK' /\ AnswerOK'
  BY <1>1, <1>2 DEF IInv, CountOK, FlagsOK, AnswerOK
<1>9. PendingOK'
  BY <1>1, <1>2, <1>5, Periods, OneSlot DEF IInv, PendingOK
<1>10. /\ Waited = 0 /\ Waited' = 0
       /\ Left("rx_data_pkt")' = Left("rx_data_pkt")
  BY <1>1, <1>5, Periods, OneSlot DEF Waited, Left
<1>11. DataOK' /\ EndOK' /\ LastReadOK'
  BY <1>1, <1>2, <1>5, <1>10 DEF IInv, DataOK, EndOK, LastReadOK
<1> QED BY <1>6, <1>7, <1>8, <1>9, <1>11 DEF IInv

LEMMA ReadAnswerStep == IInv /\ ReadAnswer => IInv'
<1> SUFFICES ASSUME IInv, ReadAnswer PROVE IInv'
  OBVIOUS
<1>1. /\ pc = "wait" /\ ~ sleep_stat /\ rx_shm' = NONE
      /\ pc' = IF rx_shm = "emac" THEN "success" ELSE "failed"
      /\ UNCHANGED <<exit_stat, end_rx_data, sleep_stat, tx_pkt_num, line,
                     timers, tx_shm, removed, mac, frame, left>>
  BY DEF ReadAnswer, macVars
<1>2. end_rx_data /\ exit_stat /\ ~ removed
  BY <1>1 DEF IInv, FlagsOK
<1>3. mac \in {"ended", "failed"} /\ (mac = "ended" => rx_shm = "emac")
  BY <1>1, <1>2 DEF IInv, EndOK, AnswerOK
<1>4. timers["rx_data_pkt"] = <<>>
  BY <1>1 DEF IInv, LastReadOK
<1>5. TimerBounds' /\ PlainTypes'
  BY <1>1 DEF IInv, TimerBounds, AtMost, PlainTypes
<1>6. CountOK' /\ FlagsOK' /\ PendingOK' /\ AnswerOK'
  BY <1>1, <1>2, <1>3 DEF IInv, CountOK, FlagsOK, PendingOK, AnswerOK
<1>7. DataOK' /\ EndOK' /\ LastReadOK'
  BY <1>1, <1>2, <1>3, <1>4 DEF IInv, DataOK, EndOK, LastReadOK
<1> QED BY <1>5, <1>6, <1>7 DEF IInv

LEMMA FreePtrStep == IInv /\ free_ptr => IInv'
<1> SUFFICES ASSUME IInv, free_ptr PROVE IInv'
  OBVIOUS
<1>1. /\ pc \in {"success", "failed"} /\ pc' = "done" /\ removed' = TRUE
      /\ timers' = [h \in Callback |-> <<>>]
      /\ tx_shm' = NONE /\ rx_shm' = NONE
      /\ UNCHANGED <<exit_stat, end_rx_data, sleep_stat, tx_pkt_num, line,
                     mac, frame, left>>
  BY DEF free_ptr, macVars
<1>2. end_rx_data /\ exit_stat /\ ~ sleep_stat
  BY <1>1 DEF IInv, FlagsOK
<1>3. mac \in {"ended", "failed"}
  BY <1>1, <1>2 DEF IInv, EndOK
<1>4. \A h \in Callback : timers'[h] = <<>>
  BY <1>1
<1>5. TimerBounds'
  BY <1>1, <1>4, OneSlot DEF TimerBounds, AtMost, Callback
<1>6. PlainTypes'
  <2>1. removed' \in BOOLEAN
    BY <1>1, Zenon
  <2> QED BY <1>1, <2>1 DEF IInv, PlainTypes
<1>7. CountOK' /\ FlagsOK' /\ AnswerOK'
  BY <1>1, <1>2 DEF IInv, CountOK, FlagsOK, AnswerOK
<1>8. PendingOK' /\ LastReadOK'
  BY <1>1, <1>2, <1>4 DEF PendingOK, LastReadOK, Callback
<1>9. DataOK' /\ EndOK'
  BY <1>1, <1>2, <1>3, NoneAssumption DEF DataOK, EndOK
<1> QED BY <1>5, <1>6, <1>7, <1>8, <1>9 DEF IInv

(***************************************************************************)
(* The steps of the MAC process change neither the application nor its     *)
(* timers.                                                                 *)
(***************************************************************************)
LEMMA SameApplication ==
  ASSUME IInv, UNCHANGED appVars
  PROVE  /\ TimerBounds' /\ CountOK' /\ PendingOK' /\ LastReadOK'
         /\ {exit_stat, end_rx_data, sleep_stat, removed}' \subseteq BOOLEAN
         /\ Waited' = Waited /\ Left("tx_data_pkt")' = Left("tx_data_pkt")
  BY DEF IInv, appVars, TimerBounds, AtMost, CountOK, PendingOK, LastReadOK,
         PlainTypes, Waited, Left

LEMMA MacStepKeeps == IInv /\ (MacStep \/ \E f \in {"cfrm", "data"} : PollPhy(f))
                        => IInv'
<1> SUFFICES ASSUME IInv, MacStep \/ \E f \in {"cfrm", "data"} : PollPhy(f)
             PROVE  IInv'
  OBVIOUS
<1>1. UNCHANGED appVars
  BY DEF MacStep, PollPhy, ProcFrame, NoMessage, ReadPkt, ReadEnd
<1>2. UNCHANGED <<pc, exit_stat, end_rx_data, sleep_stat, tx_pkt_num, line,
                  timers, removed>>
  BY <1>1 DEF appVars
<1>3. tx_shm' = tx_shm \/ tx_shm' = NONE
  BY DEF MacStep, PollPhy, ProcFrame, NoMessage, ReadPkt, ReadEnd
<1>4. PlainTypes'
  BY <1>2, Periods
  DEF IInv, PlainTypes, MacStep, PollPhy, ProcFrame, NoMessage, ReadPkt,
      ReadEnd, Busy
<1>5. FlagsOK'
  BY <1>2, <1>3 DEF IInv, FlagsOK
<1>6. ASSUME NEW n \in Int, InTime(n, mac, left), mac # "failed",
             tx_shm # NONE, tx_shm' # NONE
      PROVE  InTime(n, mac', left')
  BY <1>6, Periods
  DEF IInv, PlainTypes, InTime, MacStep, PollPhy, ProcFrame, NoMessage, ReadPkt,
      ReadEnd, Busy
<1>7. mac = "failed" => mac' = "failed"
  BY DEF MacStep, PollPhy, ProcFrame, NoMessage, ReadPkt, ReadEnd
<1>8. DataOK'
  <2> SUFFICES ASSUME tx_shm' = "data", mac' # "failed" PROVE DataOK'
    BY DEF DataOK
  <2>1. tx_shm = "data" /\ mac # "failed"
    BY <1>3, <1>7, NoneAssumption
  <2>2. pc = "loop" /\ ~ exit_stat
        /\ InTime(TxPeriod - Left("tx_data_pkt"), mac, left)
    BY <2>1 DEF IInv, DataOK
  <2>3. TxPeriod - Left("tx_data_pkt") \in Int
    BY <2>2, Pending, Periods DEF IInv, PendingOK, Callback
  <2>4. InTime(TxPeriod - Left("tx_data_pkt"), mac', left')
    BY <1>6, <2>1, <2>2, <2>3, NoneAssumption
  <2> QED BY <1>1, <1>2, <2>2, <2>4, SameApplication DEF DataOK
<1>9. EndOK'
  <2>1. tx_shm' = "end" \/ mac' = "ended" => end_rx_data
    BY <1>3, NoneAssumption DEF IInv, EndOK, MacStep, PollPhy, ProcFrame,
       NoMessage, ReadPkt, ReadEnd
  <2>2. ASSUME end_rx_data, mac' \notin {"ended", "failed"}
        PROVE  /\ tx_shm' = "end" /\ InTime(Waited', mac', left')
               /\ \/ pc = "node_sleep"
                  \/ pc = "wait" /\ sleep_stat
    <3>1. mac \notin {"ended", "failed"}
      BY <2>2 DEF MacStep, PollPhy, ProcFrame, NoMessage, ReadPkt, ReadEnd
    <3>2. /\ tx_shm = "end" /\ InTime(Waited, mac, left)
          /\ \/ pc = "node_sleep"
             \/ pc = "wait" /\ sleep_stat
      BY <2>2, <3>1 DEF IInv, EndOK
    <3>3. tx_shm' = "end"
      BY <2>2, <3>2, NoneAssumption
      DEF MacStep, PollPhy, ProcFrame, NoMessage, ReadPkt, ReadEnd
    <3>4. Waited \in Int
      BY <3>2, Pending, Periods DEF IInv, PendingOK, Waited, Callback
    <3>5. InTime(Waited, mac', left')
      BY <1>6, <3>1, <3>2, <3>3, <3>4, NoneAssumption
    <3> QED BY <1>1, <3>2, <3>3, <3>5, SameApplication
  <2> QED BY <1>2, <2>1, <2>2 DEF EndOK
<1>10. AnswerOK'
  BY <1>2, <1>7, NoneAssumption
  DEF IInv, AnswerOK, EndOK, MacStep, PollPhy, ProcFrame, NoMessage, ReadPkt,
      ReadEnd
<1> QED BY <1>1, <1>4, <1>5, <1>8, <1>9, <1>10, SameApplication DEF IInv

LEMMA NextStep == IInv /\ [Next]_vars => IInv'
<1> SUFFICES ASSUME IInv, [Next]_vars PROVE IInv'
  OBVIOUS
<1>1. CASE UNCHANGED vars
  BY <1>1 DEF vars, appVars, macVars, IInv, TimerBounds, AtMost, PlainTypes,
     CountOK, FlagsOK, PendingOK, DataOK, EndOK, LastReadOK, AnswerOK, Waited,
     Left, InTime
<1>2. CASE \E h \in Callback : RunTimer(h)
  BY <1>2, RunTimerStep
<1>3. CASE AppMain
  BY <1>3, StartStep, EndRequestStep, NodeSleepStep, ReadAnswerStep, FreePtrStep
  DEF AppMain
<1>4. CASE MacStep \/ \E f \in {"cfrm", "data"} : PollPhy(f)
  BY <1>4, MacStepKeeps
<1>5. CASE Tick
  BY <1>5, TickStep
<1> QED BY <1>1, <1>2, <1>3, <1>4, <1>5 DEF Next

----------------------------------------------------------------------------
(***************************************************************************)
(* The theorems.                                                           *)
(***************************************************************************)
\* The inductive invariant is an invariant, for any file and any periods.
THEOREM Invariance == Spec => []IInv
<1> QED BY InitStep, NextStep, PTL DEF Spec

\* Every variable keeps its type: packets are counted up to one more than
\* TX_PKT_NUM or the lines of the file, and no timer is past its slot.
THEOREM TypeCorrect == Spec => []TypeOK
<1>1. IInv => TypeOK
  BY DEF IInv, TypeOK, TimerBounds, PlainTypes, Busy
<1> QED BY <1>1, Invariance, PTL

\* No callback is lost, and none is set twice.
THEOREM TimersCorrect == Spec => []TimersExact
<1>1. IInv => TimersExact
  <2> SUFFICES ASSUME IInv, pc \notin {"start", "done"} PROVE TimersExact
    BY DEF TimersExact
  <2>1. ASSUME NEW h \in Callback
        PROVE  Len(timers[h]) = IF timers[h] = <<>> THEN 0 ELSE 1
    <3>1. CASE timers[h] = <<>>
      BY <3>1
    <3>2. CASE timers[h] # <<>>
      <4> DEFINE n == Left(h)
      <4>1. timers[h] = <<n>>
        BY <3>2, Pending DEF IInv
      <4> HIDE DEF n
      <4>2. Len(timers[h]) = 1
        BY <4>1
      <4> QED BY <3>2, <4>2
    <3> QED BY <3>1, <3>2
  <2>2. Len(timers["tx_data_pkt"]) = IF exit_stat THEN 0 ELSE 1
    <3>1. timers["tx_data_pkt"] = <<>> <=> exit_stat
      BY DEF IInv, PendingOK
    <3>2. exit_stat \in BOOLEAN
      BY DEF IInv, PlainTypes
    <3>3. Len(timers["tx_data_pkt"])
            = IF timers["tx_data_pkt"] = <<>> THEN 0 ELSE 1
      BY <2>1 DEF Callback
    <3> QED BY <3>1, <3>2, <3>3, Zenon
  <2>3. /\ Len(timers["rx_data_pkt"]) <= 1
        /\ ~ end_rx_data => Len(timers["rx_data_pkt"]) = 1
    <3>1. ~ end_rx_data => timers["rx_data_pkt"] # <<>>
      BY DEF IInv, PendingOK
    <3>2. Len(timers["rx_data_pkt"])
            = IF timers["rx_data_pkt"] = <<>> THEN 0 ELSE 1
      BY <2>1 DEF Callback
    <3> QED BY <3>1, <3>2
  <2>4. Len(timers["v_sleep"]) = IF sleep_stat THEN 1 ELSE 0
    <3>1. timers["v_sleep"] = <<>> <=> ~ sleep_stat
      BY DEF IInv, PendingOK
    <3>2. Len(timers["v_sleep"])
            = IF timers["v_sleep"] = <<>> THEN 0 ELSE 1
      BY <2>1 DEF Callback
    <3> QED BY <3>1, <3>2, Zenon
  <2> QED BY <2>2, <2>3, <2>4 DEF TimersExact
<1> QED BY <1>1, Invariance, PTL

\* The application finds no answer only when the MAC process had left its loop
\* before: one node_sleep is long enough.
THEOREM AnswerCorrect == Spec => []MacAnswers
<1>1. IInv => MacAnswers
  BY DEF IInv, AnswerOK, MacAnswers
<1> QED BY <1>1, Invariance, PTL

\* Cells are removed only after the MAC process has left its loop.
THEOREM RemovedLast == Spec => []CellsInUse
<1>1. IInv => CellsInUse
  BY DEF IInv, FlagsOK, EndOK, CellsInUse
<1> QED BY <1>1, Invariance, PTL

\* No timer is left when main of the application deletes the wheel.
THEOREM WheelEmptyAtEnd == Spec => []WheelEmpty
<1>1. IInv => WheelEmpty
  BY DEF IInv, FlagsOK, PendingOK, LastReadOK, WheelEmpty, Callback
<1> QED BY <1>1, Invariance, PTL

\* What the application deletes at its end is not in use any more.
THEOREM NothingInUseAtEnd == Spec => []NothingInUse
<1> QED BY RemovedLast, WheelEmptyAtEnd, PTL DEF NothingInUse

\* No packet, and no request to end, is written over one that is still to be
\* read.
THEOREM NothingOverwritten == Spec => NoOverwrite
<1>1. IInv /\ [Next]_vars =>
        [tx_shm' # tx_shm /\ tx_shm' # NONE
           => tx_shm = NONE \/ mac = "failed"]_vars
  <2> SUFFICES ASSUME IInv, Next, tx_shm' # tx_shm, tx_shm' # NONE
               PROVE  CellFree
    BY DEF CellFree
  <2>1. CASE \E h \in Callback : RunTimer(h)
    BY <2>1, FreeWhenDue DEF RunTimer, rx_data_pkt, v_sleep
  <2>2. CASE AppMain
    BY <2>2, FreeAtEnd DEF AppMain, Start, EndRequest, node_sleep, ReadAnswer,
       free_ptr, IInv, FlagsOK, CellFree
  <2>3. CASE MacStep \/ (\E f \in {"cfrm", "data"} : PollPhy(f)) \/ Tick
    BY <2>3 DEF MacStep, PollPhy, ProcFrame, NoMessage, ReadPkt, ReadEnd, Tick
  <2> QED BY <2>1, <2>2, <2>3 DEF Next
<1> QED BY <1>1, Invariance, PTL DEF Spec, NoOverwrite
=============================================================================

---------------------------- MODULE MacLifetime ----------------------------
(***************************************************************************)
(* The MAC process from its start to its end: main acquires its resources  *)
(* one by one (Mac_layer.c, ini_DOTS), runs its loop, and releases them    *)
(* behind the label free_ptr (Mac_layer.c, Close_DOTS), which it also      *)
(* reaches by a goto when a step fails.  The alarm may come between any    *)
(* two steps; the handlers it runs use some of the resources.              *)
(*                                                                         *)
(* Resources are known by their state only: "unset", an automatic variable *)
(* the goto jumped over; "null"; "live"; "gone".  A release or a use of    *)
(* anything the C library does not check is recorded in fault; the program *)
(* is undefined from there, and the model stops.                           *)
(*                                                                         *)
(* A definition named Op_Suffix is operator Op with a plausible bug; the   *)
(* properties are tried against it.                                        *)
(***************************************************************************)
EXTENDS Integers, Sequences

Shm     == {"net_tx_shm", "net_rx_shm", "phy_tx_shm", "phy_rx_shm"}
Buf     == {"net_tx_buf", "net_rx_buf", "phy_tx_buf", "phy_rx_buf"}
Globals == {"log_fp", "throughput_fp", "DOTS_fp", "dly_map", "node_man",
            "tm_wheel", "timer_fp", "alarm"}
Resource == Shm \cup Buf \cup Globals

\* What main acquires, in this order; the rest belongs to ini_DOTS.  Each
\* shm pointer is set to NULL before ini_shm is called.
Setup == <<"log_fp", "net_tx_buf", "net_rx_buf", "net_tx_shm", "net_rx_shm",
           "phy_tx_buf", "phy_rx_buf", "phy_tx_shm", "phy_rx_shm",
           "timer_fp", "tm_wheel", "alarm", "node_man", "dly_map",
           "DOTS_fp", "throughput_fp">>

\* The order behind free_ptr; "timers" stands for del_time_wheel.
FreePtr_KeepsRxBuf ==
  <<"phy_rx_shm", "phy_tx_shm", "net_tx_shm", "net_rx_shm",
    "net_tx_buf", "net_rx_buf", "phy_tx_buf">>

FreePtr == <<"phy_rx_shm", "phy_tx_shm", "net_tx_shm", "net_rx_shm",
             "net_tx_buf", "net_rx_buf", "phy_tx_buf", "phy_rx_buf">>

del_timer_manager_FreesFirst == <<"timers", "tm_wheel", "alarm", "timer_fp">>
del_timer_manager == <<"timers", "alarm", "tm_wheel", "timer_fp">>

Close_DOTS_NodesFirst ==
  <<"throughput_fp", "DOTS_fp", "dly_map", "node_man">> \o del_timer_manager
Close_DOTS ==
  <<"throughput_fp", "DOTS_fp", "dly_map">> \o del_timer_manager
    \o <<"node_man">>

Teardown == FreePtr \o Close_DOTS \o <<"log_fp">>

Handler == {"send_frm", "wait_cfrm_fdbk", "back_off", "v_sleep"}

\* What a handler touches, and the timer it may set.
Uses(h) == CASE h = "send_frm" -> {"dly_map", "phy_tx_buf", "phy_tx_shm",
                                   "node_man", "DOTS_fp"}
             [] h \in {"wait_cfrm_fdbk", "back_off"} -> {"node_man", "DOTS_fp"}
             [] OTHER -> {}

Sets(h) == CASE h = "send_frm" -> {"send_frm", "wait_cfrm_fdbk"}
             [] h = "wait_cfrm_fdbk" -> {"back_off"}
             [] OTHER -> {}

VARIABLES
  pc,       \* "setup", "loop", "teardown" or "ended"
  step,     \* place in Setup or Teardown
  state,    \* [Resource -> {"unset", "null", "live", "gone"}]
  timers,   \* kinds of timers in the wheel
  failed,   \* a step of main has failed
  pending,  \* the timers there were when main left its loop
  fault     \* the resource whose use is undefined, or "none"

vars == <<pc, step, state, timers, failed, pending, fault>>

Init == /\ pc = "setup" /\ step = 1
        /\ state = [r \in Resource |-> IF r \in Globals THEN "null" ELSE "unset"]
        /\ timers = {} /\ pending = {}
        /\ failed = FALSE /\ fault = "none"

Live(r) == state[r] = "live"

\* On to the next step of a list, or to what follows it.
GoOn(steps, then) == IF step < Len(steps)
                     THEN step' = step + 1 /\ UNCHANGED pc
                     ELSE step' = 1 /\ pc' = then

----------------------------------------------------------------------------
Acquire == /\ pc = "setup"
           /\ state' = [state EXCEPT ![Setup[step]] = "live"]
           /\ GoOn(Setup, "loop")
           /\ UNCHANGED <<timers, failed, pending, fault>>

\* ini_shm fails: goto free_ptr.
SetupFails == /\ pc = "setup" /\ Setup[step] \in Shm
              /\ state' = [state EXCEPT ![Setup[step]] = "null"]
              /\ pc' = "teardown" /\ step' = 1 /\ failed' = TRUE
              /\ UNCHANGED <<timers, pending, fault>>

\* A step of ini_DOTS reports a failure, which the initialisers of today never
\* do: main returns at once, with all that it has acquired.
IniFails == /\ pc = "setup"
            /\ Setup[step] \in {"timer_fp", "tm_wheel", "alarm", "node_man", "dly_map"}
            /\ pc' = "ended" /\ step' = 1 /\ failed' = TRUE
            /\ UNCHANGED <<state, timers, pending, fault>>

\* main sets the timers of frames it sends or answers, and of its sleeps.
MainSetsTimer == /\ pc = "loop"
                 /\ \E h \in Handler : timers' = timers \cup {h}
                 /\ UNCHANGED <<pc, step, state, failed, pending, fault>>

\* By the request "end", or because mac_DOTS or shm_operation failed.
LeaveLoop == /\ pc = "loop"
             /\ pc' = "teardown" /\ failed' \in BOOLEAN
             /\ pending' = timers
             /\ UNCHANGED <<step, state, timers, fault>>

(***************************************************************************)
(* The releases.  shmdt refuses an address that is not attached and free   *)
(* takes NULL; nothing else is checked.                                    *)
(***************************************************************************)
Released == Teardown[step]

Advance == GoOn(Teardown, "ended")

Release == /\ pc = "teardown" /\ Released # "timers"
           /\ Live(Released)
           /\ state' = [state EXCEPT ![Released] = "gone"]
           /\ Advance
           /\ UNCHANGED <<timers, failed, pending, fault>>

Checked == \/ Released \in Shm
           \/ Released \in Buf /\ state[Released] = "null"
           \/ Released = "alarm"

ReleaseNothing == /\ pc = "teardown" /\ Released # "timers"
                  /\ ~ Live(Released) /\ Checked
                  /\ Advance
                  /\ UNCHANGED <<state, timers, failed, pending, fault>>

ReleaseFails == /\ pc = "teardown" /\ Released # "timers"
                /\ ~ Live(Released) /\ ~ Checked
                /\ fault' = Released
                /\ UNCHANGED <<pc, step, state, timers, failed, pending>>

\* del_time_wheel, a timer at a time.
DelTimer == /\ pc = "teardown" /\ Released = "timers"
            /\ \E h \in timers : timers' = timers \ {h}
            /\ UNCHANGED <<pc, step, state, failed, pending, fault>>

DelTimerEnds == /\ pc = "teardown" /\ Released = "timers" /\ timers = {}
                /\ Advance
                /\ UNCHANGED <<state, timers, failed, pending, fault>>

----------------------------------------------------------------------------
(***************************************************************************)
(* SIGALRM: the timers of due are those of the slot.  proc_timer reads the *)
(* wheel, and writes its log when a timer is there.                        *)
(***************************************************************************)
Touched(due) == {"tm_wheel"} \cup UNION {Uses(h) : h \in due}
                  \cup (IF due = {} THEN {} ELSE {"timer_fp"})

Alarm(due) == /\ Live("alarm") /\ pc # "ended"
              /\ \A r \in Touched(due) : Live(r)
              /\ \E added \in SUBSET UNION {Sets(h) : h \in due} :
                   timers' = (timers \ due) \cup added
              /\ UNCHANGED <<pc, step, state, failed, pending, fault>>

AlarmFails(due) == /\ Live("alarm") /\ pc # "ended"
                   /\ \E r \in Touched(due) : ~ Live(r) /\ fault' = r
                   /\ UNCHANGED <<pc, step, state, timers, failed, pending>>

Main == \/ Acquire \/ SetupFails \/ IniFails \/ MainSetsTimer \/ LeaveLoop
        \/ Release \/ ReleaseNothing \/ ReleaseFails
        \/ DelTimer \/ DelTimerEnds

Next == /\ fault = "none"
        /\ Main \/ \E due \in SUBSET timers : Alarm(due) \/ AlarmFails(due)

Spec == Init /\ [][Next]_vars

----------------------------------------------------------------------------
\* Types.
TypeOK ==
  /\ state \in [Resource -> {"unset", "null", "live", "gone"}]
  /\ timers \subseteq Handler /\ pending \subseteq Handler
  /\ failed \in BOOLEAN
  /\ fault \in Resource \cup {"none"}
  /\ pc \in {"setup", "loop", "teardown", "ended"}
  /\ step \in DOMAIN (IF pc = "setup" THEN Setup ELSE Teardown)

\* main was in its loop, so that everything had been acquired.
Started == \A r \in Resource : state[r] \notin {"unset", "null"}

\* No alarm finds the wheel, its log or the packet queues freed: the alarm
\* is stopped before all three, whenever it comes.
StoppedInTime ==
  Started => fault \notin {"tm_wheel", "timer_fp", "node_man"}

\* Without a timer in the wheel the exit is clean: nothing that is gone is
\* used or released again, wherever alarms fall.
QuietExit == Started /\ pc = "teardown" /\ pending = {} => fault = "none"

\* Whatever main acquired is released when it returns behind free_ptr, by the
\* request "end" and also because a step of its loop failed.  The set-up makes
\* no such promise: a failing ini_DOTS returns with everything it has, and after
\* a failing ini_shm main does not come to its end.
AllReleased ==
  TypeOK /\ (Started /\ pc = "ended" => \A r \in Resource : ~ Live(r))
=============================================================================

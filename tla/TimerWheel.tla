----------------------------- MODULE TimerWheel -----------------------------
(***************************************************************************)
(* The timing wheel (timer_man.c, the same in both processes): an array of *)
(* linked lists of timer nodes, one for each slot of 100 ms.  main adds    *)
(* timers with add_timer; the SIGALRM handler turns the wheel by one slot  *)
(* and runs the handlers of that slot, which may add timers too.           *)
(*                                                                         *)
(* add_timer is called by main with the signal enabled, so the handler may *)
(* run between any two of its assignments, and handlers may fail; what the *)
(* wheel does until then, and still does afterwards, are properties of     *)
(* their own.  The handler itself is not interrupted: the signal is        *)
(* blocked while it runs.                                                  *)
(*                                                                         *)
(* A definition named Op_Suffix is operator Op with a plausible bug; the   *)
(* properties are tried against it.                                        *)
(***************************************************************************)
EXTENDS Integers, Sequences, FiniteSets

CONSTANTS TIME_WHEEL_SIZE,  \* slots of the wheel
          Node,             \* bound: the timer nodes the heap can hold
          NULL,
          Interval          \* intervals the callers pass to add_timer

ASSUME WheelAssumption == TIME_WHEEL_SIZE \in Nat \ {0, 1}
ASSUME IntervalAssumption == Interval \subseteq 1..(TIME_WHEEL_SIZE - 1)
ASSUME NodeAssumption == IsFiniteSet(Node) /\ NULL \notin Node

Slot == 0..(TIME_WHEEL_SIZE - 1)

VARIABLES
  cnt,           \* the current slot
  front, rear,   \* [Slot -> Node or NULL]
  next,          \* [Node -> Node or NULL]
  heap,          \* the nodes that are allocated
  add_pc,        \* where main is in add_timer, "idle" outside of it
  new_node,      \* its tmr_node
  relative_tmv,  \* its slot
  alarm,         \* "idle", or where proc_timer is: "call" a handler that has
                 \* not added a timer, "added", "crashed" on a NULL pointer
  tmr_node,      \* the node proc_timer is at
  agenda,        \* the timers that were asked for and not run yet, in the
                 \* order of the calls, with the slots left until they are due
  interrupted,   \* SIGALRM has arrived inside main's add_timer
  failed         \* a handler has returned -1

wheelVars == <<front, rear, next, heap>>
addVars   == <<add_pc, new_node, relative_tmv>>
faultVars == <<interrupted, failed>>
alarmVars == <<cnt, alarm, tmr_node, faultVars>>
vars      == <<wheelVars, addVars, alarmVars, agenda>>

Init == /\ cnt = 0
        /\ front = [s \in Slot |-> NULL] /\ rear = [s \in Slot |-> NULL]
        /\ next = [n \in Node |-> NULL]
        /\ heap = {}
        /\ add_pc = "idle" /\ new_node = NULL /\ relative_tmv = 0
        /\ alarm = "idle" /\ tmr_node = NULL
        /\ agenda = <<>>
        /\ interrupted = FALSE /\ failed = FALSE

\* calloc: some node that is not allocated.
Alloc(n) == n \in Node \ heap

SlotOf_WrapsEarly(d) == (cnt + d) % (TIME_WHEEL_SIZE - 1)
SlotOf_OffByOne(d)  == (cnt + d - 1) % TIME_WHEEL_SIZE

SlotOf(d) == (cnt + d) % TIME_WHEEL_SIZE

\* Bound: in one behaviour either add_timer is interrupted or handlers fail.
MayInterrupt == failed => add_pc = "idle"
MayFail      == ~ interrupted

\* The caller asks for a timer; a timer whose handler returned 0 is done.
Ask(n, d) == agenda' = Append(agenda, [timer |-> n, left |-> d])

Asked == {agenda[k].timer : k \in DOMAIN agenda}

Leave(n) ==
  \/ \E k \in DOMAIN agenda :
       /\ agenda[k].timer = n
       /\ agenda' = SubSeq(agenda, 1, k - 1) \o SubSeq(agenda, k + 1, Len(agenda))
  \/ n \notin Asked /\ UNCHANGED agenda

----------------------------------------------------------------------------
(***************************************************************************)
(* add_timer, called by main.                                              *)
(***************************************************************************)
CallAddTimer(n, d) ==
  /\ add_pc = "idle" /\ alarm = "idle" /\ Alloc(n)
  /\ relative_tmv' = SlotOf(d)
  /\ new_node' = n /\ next' = [next EXCEPT ![n] = NULL]
  /\ heap' = heap \cup {n}
  /\ Ask(n, d)
  /\ add_pc' = "test"
  /\ UNCHANGED <<front, rear, alarmVars>>

TestFront ==
  /\ add_pc = "test" /\ alarm = "idle"
  /\ add_pc' = IF front[relative_tmv] = NULL THEN "front" ELSE "rear->next"
  /\ UNCHANGED <<wheelVars, new_node, relative_tmv, alarmVars, agenda>>

SetFront ==
  /\ add_pc = "front" /\ alarm = "idle"
  /\ front' = [front EXCEPT ![relative_tmv] = new_node]
  /\ add_pc' = "rear = front"
  /\ UNCHANGED <<rear, next, heap, new_node, relative_tmv, alarmVars, agenda>>

SetRearToFront ==
  /\ add_pc = "rear = front" /\ alarm = "idle"
  /\ rear' = [rear EXCEPT ![relative_tmv] = front[relative_tmv]]
  /\ add_pc' = "idle"
  /\ UNCHANGED <<front, next, heap, new_node, relative_tmv, alarmVars, agenda>>

LinkRear_Forgotten ==
  /\ add_pc = "rear->next" /\ alarm = "idle"
  /\ add_pc' = "rear"
  /\ UNCHANGED <<wheelVars, new_node, relative_tmv, alarmVars, agenda>>

LinkRear ==
  /\ add_pc = "rear->next" /\ alarm = "idle"
  /\ IF rear[relative_tmv] = NULL
     THEN alarm' = "crashed" /\ UNCHANGED <<next, add_pc>>
     ELSE /\ next' = [next EXCEPT ![rear[relative_tmv]] = new_node]
          /\ add_pc' = "rear"
          /\ UNCHANGED alarm
  /\ UNCHANGED <<cnt, tmr_node, faultVars, front, rear, heap, new_node,
                 relative_tmv, agenda>>

SetRear_Forgotten ==
  /\ add_pc = "rear" /\ alarm = "idle"
  /\ add_pc' = "idle"
  /\ UNCHANGED <<wheelVars, new_node, relative_tmv, alarmVars, agenda>>

SetRear ==
  /\ add_pc = "rear" /\ alarm = "idle"
  /\ rear' = [rear EXCEPT ![relative_tmv] = new_node]
  /\ add_pc' = "idle"
  /\ UNCHANGED <<front, next, heap, new_node, relative_tmv, alarmVars, agenda>>

----------------------------------------------------------------------------
(***************************************************************************)
(* The signal handler: cnt advances, and when the list of the slot is not  *)
(* empty proc_timer starts with its first node.                            *)
(***************************************************************************)
SigAlarm ==
  /\ alarm = "idle" /\ MayInterrupt
  /\ cnt' = (cnt + 1) % TIME_WHEEL_SIZE
  /\ IF front[cnt'] = NULL
     THEN UNCHANGED <<alarm, tmr_node>>
     ELSE alarm' = "call" /\ tmr_node' = front[cnt']
  /\ agenda' = [k \in DOMAIN agenda |->
                  [agenda[k] EXCEPT !.left = (@ - 1) % TIME_WHEEL_SIZE]]
  /\ interrupted' = (interrupted \/ add_pc # "idle")
  /\ UNCHANGED <<wheelVars, addVars, failed>>

\* A handler adds a timer: the whole of add_timer, not interrupted.
HandlerAdds(n, d) ==
  /\ alarm = "call" /\ Alloc(n)
  /\ LET s == SlotOf(d) IN
       \/ /\ front[s] = NULL
          /\ front' = [front EXCEPT ![s] = n]
          /\ rear' = [rear EXCEPT ![s] = n]
          /\ next' = [next EXCEPT ![n] = NULL]
          /\ alarm' = "added"
       \/ /\ front[s] # NULL /\ rear[s] # NULL
          /\ next' = [next EXCEPT ![n] = NULL, ![rear[s]] = n]
          /\ rear' = [rear EXCEPT ![s] = n]
          /\ alarm' = "added"
          /\ UNCHANGED front
       \/ /\ front[s] # NULL /\ rear[s] = NULL
          /\ alarm' = "crashed" /\ next' = [next EXCEPT ![n] = NULL]
          /\ UNCHANGED <<front, rear>>
  /\ heap' = heap \cup {n}
  /\ Ask(n, d)
  /\ UNCHANGED <<cnt, tmr_node, addVars, faultVars>>

\* The node before tmr_node, whose handler has run, is freed now: it is the
\* front of the list until then.
FreePassed_Leaks ==
  /\ heap' = heap
  /\ front' = [front EXCEPT ![cnt] = tmr_node]

FreePassed ==
  /\ heap' = IF front[cnt] = tmr_node THEN heap ELSE heap \ {front[cnt]}
  /\ front' = [front EXCEPT ![cnt] = tmr_node]

\* The handler returned 0 and there is a next node.
NextTimer ==
  /\ alarm \in {"call", "added"} /\ next[tmr_node] # NULL
  /\ FreePassed
  /\ tmr_node' = next[tmr_node]
  /\ alarm' = "call"
  /\ Leave(tmr_node)
  /\ UNCHANGED <<rear, next, addVars, cnt, faultVars>>

\* The handler returned 0 and the list ends here.
LastTimer_KeepsFront ==
  /\ alarm \in {"call", "added"} /\ next[tmr_node] = NULL
  /\ heap' = heap \ {front[cnt], tmr_node}
  /\ alarm' = "idle" /\ tmr_node' = NULL
  /\ Leave(tmr_node)
  /\ UNCHANGED <<front, rear, next, addVars, cnt, faultVars>>

LastTimer ==
  /\ alarm \in {"call", "added"} /\ next[tmr_node] = NULL
  /\ heap' = heap \ {front[cnt], tmr_node}
  /\ front' = [front EXCEPT ![cnt] = NULL]
  /\ rear' = [rear EXCEPT ![cnt] = NULL]
  /\ alarm' = "idle" /\ tmr_node' = NULL
  /\ Leave(tmr_node)
  /\ UNCHANGED <<next, addVars, cnt, faultVars>>

\* The handler returned -1: proc_timer returns, and this timer and those
\* behind it stay in the slot.
HandlerFails ==
  /\ MayFail /\ alarm \in {"call", "added"}
  /\ FreePassed
  /\ alarm' = "idle" /\ tmr_node' = NULL
  /\ failed' = TRUE
  /\ UNCHANGED <<rear, next, addVars, cnt, agenda, interrupted>>

----------------------------------------------------------------------------
AddTimer == \/ \E n \in Node, d \in Interval : CallAddTimer(n, d)
            \/ TestFront \/ SetFront \/ SetRearToFront \/ LinkRear \/ SetRear

ProcTimer == \/ \E n \in Node, d \in Interval : HandlerAdds(n, d)
             \/ NextTimer \/ LastTimer \/ HandlerFails

Next == AddTimer \/ SigAlarm \/ ProcTimer

Spec == Init /\ [][Next]_vars

(***************************************************************************)
(* The alarm comes every 100 ms whatever main does, and a handler and      *)
(* add_timer run to their end.                                             *)
(***************************************************************************)
Fairness == /\ SF_vars(SigAlarm)
            /\ WF_vars(NextTimer \/ LastTimer)
            /\ WF_vars(TestFront \/ SetFront \/ SetRearToFront \/ LinkRear \/ SetRear)

FairSpec == Spec /\ Fairness

----------------------------------------------------------------------------
\* The types of the variables.
TypeOK ==
  /\ cnt \in Slot
  /\ front \in [Slot -> Node \cup {NULL}] /\ rear \in [Slot -> Node \cup {NULL}]
  /\ next \in [Node -> Node \cup {NULL}]
  /\ heap \subseteq Node
  /\ add_pc \in {"idle", "test", "front", "rear = front", "rear->next", "rear"}
  /\ new_node \in Node \cup {NULL} /\ relative_tmv \in Slot
  /\ alarm \in {"idle", "call", "added", "crashed"}
  /\ tmr_node \in Node \cup {NULL}
  /\ agenda \in Seq([timer : Node, left : Slot])

\* The nodes one reaches from the front of a slot: those in every set that has
\* the front and with a node the next one.
HoldsNext(S) == \A n \in S : next[n] \in S \cup {NULL}

List(s) == {n \in Node : \A S \in SUBSET Node :
                           HoldsNext(S) /\ front[s] \in S \cup {NULL} => n \in S}

(***************************************************************************)
(* Until add_timer is interrupted, between two of its calls every timer    *)
(* that was asked for and has not run is in the list of the slot in which  *)
(* it is due, counted in whole turns of the wheel: none is lost, none sits *)
(* in a wrong slot.  A failing handler makes timers late by a turn but     *)
(* loses none.                                                             *)
(***************************************************************************)
InItsSlot ==
  ~ interrupted /\ add_pc = "idle" =>
    \A k \in DOMAIN agenda : agenda[k].timer \in List(SlotOf(agenda[k].left))

(***************************************************************************)
(* Until add_timer is interrupted, the lists are well formed when neither  *)
(* add_timer nor proc_timer is under way: they hold allocated nodes only,  *)
(* no node is in two lists, the rear is the last node of its list, and no  *)
(* allocated node is in none.                                              *)
(***************************************************************************)
ListsOK ==
  ~ interrupted /\ add_pc = "idle" /\ alarm = "idle" =>
    /\ UNION {List(s) : s \in Slot} = heap
    /\ \A s, r \in Slot : s # r => List(s) \cap List(r) = {}
    /\ \A s \in Slot :
         IF front[s] = NULL THEN rear[s] = NULL
         ELSE rear[s] \in List(s) /\ next[rear[s]] = NULL

\* The wheel is sound: no timer and no node is lost or out of its place.
WheelOK == TypeOK /\ InItsSlot /\ ListsOK

\* Until add_timer is interrupted, proc_timer runs only handlers of timers that
\* were asked for and are due in this slot; none runs a second time after it
\* returned 0.
RunsDueTimers ==
  ~ interrupted /\ alarm = "call" =>
    \E k \in DOMAIN agenda : agenda[k].timer = tmr_node /\ agenda[k].left = 0

\* "process all the timers in one time slot" (timer_man.c): when the handler
\* of the signal returns, no timer of the current slot is left over.
SlotProcessed ==
  ~ interrupted /\ alarm = "idle" =>
    \A k \in DOMAIN agenda : agenda[k].left # 0

\* "add new timer in the timing wheel" (timer_man.c): when add_timer has
\* returned, the timer is in the wheel until it has run.
TimerAdded ==
  ~ failed /\ add_pc = "idle" => Asked \subseteq UNION {List(s) : s \in Slot}

(***************************************************************************)
(* The wheel implements TimerService, until add_timer is interrupted or a  *)
(* handler fails.                                                          *)
(***************************************************************************)
Service == INSTANCE TimerService WITH Timer <- Node

Faulty == interrupted \/ failed

ServiceSpec == Service!Init /\ [][Faulty' \/ Service!Next]_<<agenda, faultVars>>

\* No handler runs twice, and none runs from a node that has been freed, even
\* when the signal interrupts add_timer.
RunsAskedTimers ==
  alarm \in {"call", "added"} => tmr_node \in Asked /\ tmr_node \in heap

\* Every timer that was asked for runs in the end, as long as add_timer is not
\* interrupted and no handler fails.
TimerRuns == \A n \in Node : n \in Asked ~> (n \notin Asked \/ Faulty)
============================================================================

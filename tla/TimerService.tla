---------------------------- MODULE TimerService ----------------------------
(***************************************************************************)
(* What the timing wheel promises to its callers: a timer set for d slots  *)
(* fires once, in the d-th slot from now, and timers due in the same slot  *)
(* fire in the order in which they were set.                               *)
(***************************************************************************)
EXTENDS Integers, Sequences

CONSTANTS Timer, Interval

\* The timers that are set, in the order in which they were set, each with
\* the number of slots left until it is due.
VARIABLE agenda

Entry == [timer : Timer, left : Nat]

Init == agenda = <<>>

Set(t, d) == /\ \A k \in DOMAIN agenda : agenda[k].timer # t
             /\ agenda' = Append(agenda, [timer |-> t, left |-> d])

\* A slot passes only when every timer that was due has fired.
Tick == /\ \A k \in DOMAIN agenda : agenda[k].left > 0
        /\ agenda' = [k \in DOMAIN agenda |->
                        [agenda[k] EXCEPT !.left = @ - 1]]

\* Of the timers that are due the one that was set first fires.
Fire(k) == /\ agenda[k].left = 0
           /\ \A j \in 1..(k - 1) : agenda[j].left > 0
           /\ agenda' = SubSeq(agenda, 1, k - 1)
                          \o SubSeq(agenda, k + 1, Len(agenda))

Next == \/ \E t \in Timer, d \in Interval : Set(t, d)
        \/ Tick
        \/ \E k \in DOMAIN agenda : Fire(k)

Spec == Init /\ [][Next]_agenda
============================================================================

-------------------------- MODULE TimerWheelProofs --------------------------
(***************************************************************************)
(* What holds of the timing wheel for every number of slots, any number of *)
(* timers and every interval.                                              *)
(*                                                                         *)
(* The invariant has two parts.  Sound holds whatever interrupts           *)
(* add_timer: the pointers one follows lead to allocated nodes, at most    *)
(* one to each, and to timers that have not run.  Ordered holds until      *)
(* add_timer is interrupted: every list has the timers of its slot, in the *)
(* order in which they were asked for.  The order is taken from the        *)
(* agenda, so that no list has to be walked in the proofs.                 *)
(***************************************************************************)
EXTENDS TimerWheel, FiniteSetTheorems, SequenceTheorems, TLAPS

Active   == {"call", "added"}           \* proc_timer is at a timer
Unlinked == {"test", "front", "rear->next"}  \* new_node is in no list yet

\* No timer is in the agenda twice.
Distinct == \A j, k \in DOMAIN agenda : agenda[j].timer = agenda[k].timer => j = k

(***************************************************************************)
(* What no interruption of add_timer breaks.                               *)
(***************************************************************************)
\* A pointer leads to a timer that is asked for; the front of the current slot
\* may be the node whose handler has just run.
PointersLive ==
  /\ Asked \subseteq heap
  /\ \A s \in Slot : front[s] \in heap \cup {NULL}
  /\ \A s \in Slot : (alarm # "idle" /\ s = cnt) \/ front[s] \in Asked \cup {NULL}
  /\ \A p \in heap : next[p] \in Asked \cup {NULL}

\* No two pointers lead to the same node.
PointersUnique ==
  /\ \A s, r \in Slot : front[s] = front[r] => s = r \/ front[s] = NULL
  /\ \A p, q \in heap : next[p] = next[q] => p = q \/ next[p] = NULL
  /\ \A s \in Slot, p \in heap : front[s] = next[p] => front[s] = NULL

\* proc_timer is at the front of the current slot, or behind it when the handler
\* of the front has run.
AtFront ==
  alarm \in Active =>
    /\ tmr_node \in Asked
    /\ \/ front[cnt] = tmr_node
       \/ /\ front[cnt] \in heap \ Asked
          /\ \A p \in heap : next[p] = tmr_node => p = front[cnt]
          /\ \A s \in Slot : front[s] # tmr_node

\* Nothing leads to the node that main is about to link.
NewUnlinked ==
  add_pc \in Unlinked =>
    /\ new_node \in Asked
    /\ \A s \in Slot : front[s] # new_node
    /\ \A p \in heap : next[p] # new_node
    /\ alarm \in Active => tmr_node # new_node

Sound == PointersLive /\ PointersUnique /\ AtFront /\ NewUnlinked

(***************************************************************************)
(* What holds until add_timer is interrupted.                              *)
(***************************************************************************)
\* The timer n is due in slot s; m was asked for before n.
Due(n, s) == \E k \in DOMAIN agenda :
               agenda[k].timer = n /\ SlotOf(agenda[k].left) = s

Earlier(m, n) == \E j, k \in DOMAIN agenda :
                   j < k /\ agenda[j].timer = m /\ agenda[k].timer = n

\* The timers that are in the list of slot s, seen from its front and from its
\* rear: main may be about to link one.
InList(s) == {n \in Asked : Due(n, s) /\ ~(add_pc \in Unlinked /\ n = new_node)}

AtRear(s) == {n \in Asked : Due(n, s) /\ ~(add_pc # "idle" /\ n = new_node)}

\* h is the first timer of the set M, or the last one.
IsFirst(h, M) == IF M = {} THEN h = NULL
                 ELSE h \in M /\ \A n \in M : n = h \/ Earlier(h, n)

IsLast(h, M) == IF M = {} THEN h = NULL
                ELSE h \in M /\ \A n \in M : n = h \/ Earlier(n, h)

\* Where the list of slot s begins, without the node whose handler has run.
Begin(s) == IF alarm \in Active /\ s = cnt THEN tmr_node ELSE front[s]

ListsOrdered ==
  /\ \A s \in Slot : IsFirst(Begin(s), InList(s))
  /\ \A s \in Slot : \A n \in InList(s) :
       IsFirst(next[n], {m \in InList(s) : Earlier(n, m)})
  /\ \A s \in Slot : IsLast(rear[s], AtRear(s))

\* main is in add_timer: it links the timer asked for last.
Adding ==
  add_pc # "idle" =>
    /\ alarm = "idle"
    /\ Due(new_node, relative_tmv)
    /\ \A n \in Asked : n = new_node \/ Earlier(n, new_node)
    /\ next[new_node] = NULL
    /\ add_pc \in {"front", "rear = front"} => AtRear(relative_tmv) = {}
    /\ add_pc \in {"rear->next", "rear"} => AtRear(relative_tmv) # {}

\* Every node is in the wheel; the one whose handler has run is before the others.
NodesListed ==
  /\ heap = IF alarm \in Active THEN Asked \cup {front[cnt]} ELSE Asked
  /\ alarm \in Active => front[cnt] = tmr_node \/ next[front[cnt]] = tmr_node

Ordered == /\ alarm # "crashed"
           /\ ListsOrdered /\ Adding /\ NodesListed
           /\ ~ failed /\ alarm = "idle" => \A k \in DOMAIN agenda : agenda[k].left # 0

\* The invariant.
TInv == TypeOK /\ Distinct /\ Sound /\ (~ interrupted => Ordered)

----------------------------------------------------------------------------
(***************************************************************************)
(* Slots, and the order of the agenda.                                     *)
(***************************************************************************)
Entry == [timer : Node, left : Slot]

\* Counting in turns of the wheel.
LEMMA Turn ==
  ASSUME NEW N \in Nat, N > 1, NEW c \in 0..(N - 1), NEW d \in 0..(N - 1)
  PROVE  /\ (c + d) % N \in 0..(N - 1)
         /\ (c + d) % N = c <=> d = 0
         /\ (c + 1) % N \in 0..(N - 1) /\ (d - 1) % N \in 0..(N - 1)
         /\ (((c + 1) % N) + ((d - 1) % N)) % N = (c + d) % N
         /\ (d - 1) % N = IF d = 0 THEN N - 1 ELSE d - 1
<1>1. \A x \in Int : 0 <= x /\ x < N => x % N = x
  OBVIOUS
<1>2. \A x \in Int : N <= x /\ x < 2 * N => x % N = x - N
  OBVIOUS
<1>3. (-1) % N = N - 1
  OBVIOUS
<1>4. (c + d) % N = IF c + d < N THEN c + d ELSE c + d - N
  BY <1>1, <1>2
<1>5. (c + 1) % N = IF c + 1 < N THEN c + 1 ELSE 0
  BY <1>1, <1>2
<1>6. (d - 1) % N = IF d = 0 THEN N - 1 ELSE d - 1
  BY <1>1, <1>3
<1>7. (((c + 1) % N) + ((d - 1) % N)) % N = (c + d) % N
  <2> DEFINE x == (c + 1) % N
             y == (d - 1) % N
  <2>1. x + y \in Int /\ 0 <= x + y /\ x + y < 2 * N
    BY <1>5, <1>6
  <2>2. (x + y) % N = IF x + y < N THEN x + y ELSE x + y - N
    BY <1>1, <1>2, <2>1
  <2>3. x + y = c + d \/ x + y = c + d + N \/ x + y = c + d - N
    BY <1>5, <1>6
  <2> QED BY <1>4, <1>5, <1>6, <2>2, <2>3
<1> QED BY <1>4, <1>5, <1>6, <1>7

\* The agenda as a function, and the slots of its timers.
LEMMA AgendaType ==
  ASSUME TypeOK
  PROVE  /\ Len(agenda) \in Nat /\ DOMAIN agenda = 1..Len(agenda)
         /\ agenda \in Seq(Entry)
         /\ \A k \in DOMAIN agenda : /\ agenda[k] \in Entry
                                     /\ agenda[k].timer \in Node
                                     /\ agenda[k].left \in Slot
         /\ Asked \subseteq Node /\ NULL \notin Asked
<1>1. agenda \in Seq(Entry)
  BY DEF TypeOK, Entry
<1>2. /\ Len(agenda) \in Nat /\ DOMAIN agenda = 1..Len(agenda)
      /\ \A k \in DOMAIN agenda : agenda[k] \in Entry
  BY <1>1, LenProperties
<1> QED BY <1>1, <1>2, NodeAssumption DEF Entry, Asked

LEMMA SlotType ==
  ASSUME TypeOK, NEW d \in Slot
  PROVE  SlotOf(d) \in Slot /\ (SlotOf(d) = cnt <=> d = 0)
<1>1. TIME_WHEEL_SIZE \in Nat /\ TIME_WHEEL_SIZE > 1
  BY WheelAssumption
<1>2. cnt \in 0..(TIME_WHEEL_SIZE - 1) /\ d \in 0..(TIME_WHEEL_SIZE - 1)
  BY DEF TypeOK, Slot
<1>3. /\ (cnt + d) % TIME_WHEEL_SIZE \in 0..(TIME_WHEEL_SIZE - 1)
      /\ (cnt + d) % TIME_WHEEL_SIZE = cnt <=> d = 0
  BY <1>1, <1>2, Turn
<1> QED BY <1>3 DEF Slot, SlotOf

\* One slot on, a timer is one slot nearer.
LEMMA SlotTurns ==
  ASSUME TypeOK, NEW d \in Slot
  PROVE  /\ (cnt + 1) % TIME_WHEEL_SIZE \in Slot /\ (d - 1) % TIME_WHEEL_SIZE \in Slot
         /\ (((cnt + 1) % TIME_WHEEL_SIZE) + ((d - 1) % TIME_WHEEL_SIZE)) % TIME_WHEEL_SIZE
              = (cnt + d) % TIME_WHEEL_SIZE
         /\ d # 0 => (d - 1) % TIME_WHEEL_SIZE = d - 1
<1>1. TIME_WHEEL_SIZE \in Nat /\ TIME_WHEEL_SIZE > 1
  BY WheelAssumption
<1>2. cnt \in 0..(TIME_WHEEL_SIZE - 1) /\ d \in 0..(TIME_WHEEL_SIZE - 1)
  BY DEF TypeOK, Slot
<1>3. /\ (cnt + 1) % TIME_WHEEL_SIZE \in 0..(TIME_WHEEL_SIZE - 1)
      /\ (d - 1) % TIME_WHEEL_SIZE \in 0..(TIME_WHEEL_SIZE - 1)
      /\ (((cnt + 1) % TIME_WHEEL_SIZE) + ((d - 1) % TIME_WHEEL_SIZE)) % TIME_WHEEL_SIZE
           = (cnt + d) % TIME_WHEEL_SIZE
      /\ d # 0 => (d - 1) % TIME_WHEEL_SIZE = d - 1
  BY <1>1, <1>2, Turn
<1> QED BY <1>3 DEF Slot

\* Earlier is a strict order of the timers asked for.
LEMMA Order ==
  ASSUME TypeOK, Distinct
  PROVE  /\ \A m, n : Earlier(m, n) => m \in Asked /\ n \in Asked
         /\ \A m \in Asked : ~ Earlier(m, m)
         /\ \A l, m, n \in Asked : Earlier(l, m) /\ Earlier(m, n) => Earlier(l, n)
         /\ \A m, n \in Asked : m = n \/ Earlier(m, n) \/ Earlier(n, m)
<1>1. DOMAIN agenda = 1..Len(agenda) /\ Len(agenda) \in Nat
  BY AgendaType
<1>2. \A m, n : Earlier(m, n) => m \in Asked /\ n \in Asked
  BY DEF Earlier, Asked
<1>3. \A m \in Asked : ~ Earlier(m, m)
  BY <1>1 DEF Earlier, Asked, Distinct
<1>4. \A l, m, n \in Asked : Earlier(l, m) /\ Earlier(m, n) => Earlier(l, n)
  <2> SUFFICES ASSUME NEW l \in Asked, NEW m \in Asked, NEW n \in Asked,
                      Earlier(l, m), Earlier(m, n)
               PROVE  Earlier(l, n)
    OBVIOUS
  <2>1. PICK i, j \in DOMAIN agenda : i < j /\ agenda[i].timer = l /\ agenda[j].timer = m
    BY DEF Earlier
  <2>2. PICK h, k \in DOMAIN agenda : h < k /\ agenda[h].timer = m /\ agenda[k].timer = n
    BY DEF Earlier
  <2>3. h = j
    BY <2>1, <2>2 DEF Distinct
  <2>4. i < k
    BY <1>1, <2>1, <2>2, <2>3
  <2> QED BY <2>1, <2>2, <2>4 DEF Earlier
<1>5. \A m, n \in Asked : m = n \/ Earlier(m, n) \/ Earlier(n, m)
  <2> SUFFICES ASSUME NEW m \in Asked, NEW n \in Asked
               PROVE  m = n \/ Earlier(m, n) \/ Earlier(n, m)
    OBVIOUS
  <2>1. PICK j \in DOMAIN agenda : agenda[j].timer = m
    BY DEF Asked
  <2>2. PICK k \in DOMAIN agenda : agenda[k].timer = n
    BY DEF Asked
  <2>3. j = k \/ j < k \/ k < j
    BY <1>1
  <2> QED BY <2>1, <2>2, <2>3 DEF Earlier
<1> QED BY <1>2, <1>3, <1>4, <1>5

\* Every timer has one slot.
LEMMA Slots ==
  ASSUME TypeOK, Distinct
  PROVE  /\ \A n, s : Due(n, s) => n \in Asked /\ s \in Slot
         /\ \A n, s, r : Due(n, s) /\ Due(n, r) => s = r
         /\ \A n \in Asked : \E s \in Slot : Due(n, s)
         /\ \A k \in DOMAIN agenda : Due(agenda[k].timer, cnt) <=> agenda[k].left = 0
<1>1. \A k \in DOMAIN agenda : agenda[k].left \in Slot
  BY AgendaType
<1>2. \A n, s : Due(n, s) => n \in Asked /\ s \in Slot
  BY <1>1, SlotType DEF Due, Asked
<1>3. \A n, s, r : Due(n, s) /\ Due(n, r) => s = r
  BY DEF Due, Distinct
<1>4. \A n \in Asked : \E s \in Slot : Due(n, s)
  BY <1>1, SlotType DEF Due, Asked
<1>5. \A k \in DOMAIN agenda : Due(agenda[k].timer, SlotOf(agenda[k].left))
  BY DEF Due
<1>6. \A k \in DOMAIN agenda : SlotOf(agenda[k].left) = cnt <=> agenda[k].left = 0
  BY <1>1, SlotType
<1>7. \A k \in DOMAIN agenda : Due(agenda[k].timer, cnt) <=> agenda[k].left = 0
  BY <1>3, <1>5, <1>6
<1> QED BY <1>2, <1>3, <1>4, <1>7

----------------------------------------------------------------------------
(***************************************************************************)
(* How the agenda changes.                                                 *)
(***************************************************************************)
\* It does not.
LEMMA AgendaSame ==
  ASSUME agenda' = agenda, cnt' = cnt
  PROVE  /\ Asked' = Asked /\ (Distinct' <=> Distinct)
         /\ \A n, s : Due(n, s)' <=> Due(n, s)
         /\ \A m, n : Earlier(m, n)' <=> Earlier(m, n)
BY DEF Asked, Distinct, Due, SlotOf, Earlier

\* A timer is asked for.
LEMMA AgendaGrows ==
  ASSUME TypeOK, Distinct, cnt' = cnt, NEW n \in Node, n \notin Asked,
         NEW d \in Interval, Ask(n, d)
  PROVE  /\ agenda' \in Seq(Entry)
         /\ Asked' = Asked \cup {n} /\ Distinct'
         /\ \A m, s : Due(m, s)' <=> Due(m, s) \/ (m = n /\ s = SlotOf(d))
         /\ \A l, m : Earlier(l, m)' <=> Earlier(l, m) \/ (l \in Asked /\ m = n)
         /\ (\A k \in DOMAIN agenda : agenda[k].left # 0)
              => \A k \in DOMAIN agenda' : agenda'[k].left # 0
         /\ SlotOf(d) \in Slot \ {cnt}
<1> DEFINE e == [timer |-> n, left |-> d]
           L == Len(agenda)
<1>1. /\ L \in Nat /\ DOMAIN agenda = 1..L /\ agenda \in Seq(Entry)
      /\ d \in Slot /\ d # 0 /\ e \in Entry
  BY AgendaType, IntervalAssumption, WheelAssumption DEF Slot, Entry
<1>2. /\ agenda' \in Seq(Entry) /\ Len(agenda') = L + 1
      /\ \A k \in 1..L : agenda'[k] = agenda[k]
      /\ agenda'[L + 1] = e
  BY <1>1, AppendProperties DEF Ask
<1>3. DOMAIN agenda' = 1..(L + 1) /\ DOMAIN agenda' = DOMAIN agenda \cup {L + 1}
      /\ L + 1 \notin DOMAIN agenda
  BY <1>1, <1>2, LenProperties
<1>4. /\ \A k \in DOMAIN agenda : agenda'[k] = agenda[k] /\ k < L + 1
      /\ agenda'[L + 1].timer = n /\ agenda'[L + 1].left = d
  BY <1>1, <1>2
<1>5. \A k \in DOMAIN agenda : agenda[k].timer # n
  BY DEF Asked
<1> HIDE DEF e, L
<1>6. Asked' = Asked \cup {n}
  <2>1. Asked' = {agenda'[k].timer : k \in DOMAIN agenda'}
    BY DEF Asked
  <2>2. ASSUME NEW m \in Asked' PROVE m \in Asked \cup {n}
    <3>1. PICK k \in DOMAIN agenda' : agenda'[k].timer = m
      BY <2>1, <2>2
    <3> QED BY <1>3, <1>4, <3>1 DEF Asked
  <2>3. ASSUME NEW m \in Asked \cup {n} PROVE m \in Asked'
    <3>1. CASE m \in Asked
      <4>1. PICK k \in DOMAIN agenda : agenda[k].timer = m
        BY <3>1 DEF Asked
      <4>2. k \in DOMAIN agenda' /\ agenda'[k].timer = m
        BY <1>3, <1>4, <4>1
      <4> QED BY <2>1, <4>2
    <3>2. CASE m = n
      <4>1. L + 1 \in DOMAIN agenda' /\ agenda'[L + 1].timer = m
        BY <1>3, <1>4, <3>2
      <4> QED BY <2>1, <4>1
    <3> QED BY <2>3, <3>1, <3>2
  <2> QED BY <2>2, <2>3
<1>7. Distinct'
  BY <1>3, <1>4, <1>5 DEF Distinct
<1>8. \A m, s : Due(m, s)' <=> Due(m, s) \/ (m = n /\ s = SlotOf(d))
  BY <1>3, <1>4 DEF Due, SlotOf
<1>9. ASSUME NEW l, NEW m
      PROVE  Earlier(l, m)' <=> Earlier(l, m) \/ (l \in Asked /\ m = n)
  <2>1. ASSUME Earlier(l, m)' PROVE Earlier(l, m) \/ (l \in Asked /\ m = n)
    <3>1. PICK j, k \in DOMAIN agenda' :
            j < k /\ agenda'[j].timer = l /\ agenda'[k].timer = m
      BY <2>1 DEF Earlier
    <3>2. j \in DOMAIN agenda
      <4>1. j \in 1..(L + 1) /\ k \in 1..(L + 1)
        BY <1>3
      <4> QED BY <1>1, <3>1, <4>1
    <3> QED BY <1>3, <1>4, <3>1, <3>2 DEF Earlier, Asked
  <2>2. ASSUME Earlier(l, m) PROVE Earlier(l, m)'
    BY <1>3, <1>4, <2>2 DEF Earlier
  <2>3. ASSUME l \in Asked, m = n PROVE Earlier(l, m)'
    <3>1. PICK j \in DOMAIN agenda : agenda[j].timer = l
      BY <2>3 DEF Asked
    <3>2. j \in DOMAIN agenda' /\ L + 1 \in DOMAIN agenda' /\ j < L + 1
          /\ agenda'[j].timer = l /\ agenda'[L + 1].timer = m
      BY <1>3, <1>4, <2>3, <3>1
    <3> QED BY <3>2 DEF Earlier
  <2> QED BY <2>1, <2>2, <2>3
<1>10. (\A k \in DOMAIN agenda : agenda[k].left # 0)
         => \A k \in DOMAIN agenda' : agenda'[k].left # 0
  BY <1>1, <1>3, <1>4
<1>11. SlotOf(d) \in Slot \ {cnt}
  BY <1>1, SlotType
<1> QED BY <1>2, <1>6, <1>7, <1>8, <1>9, <1>10, <1>11

\* The wheel turns: every timer stays in its slot.
Turns == /\ cnt' = (cnt + 1) % TIME_WHEEL_SIZE
         /\ agenda' = [k \in DOMAIN agenda |->
                         [agenda[k] EXCEPT !.left = (@ - 1) % TIME_WHEEL_SIZE]]

LEMMA AgendaTurns ==
  ASSUME TypeOK, Distinct, Turns
  PROVE  /\ agenda' \in Seq(Entry) /\ cnt' \in Slot
         /\ Asked' = Asked /\ Distinct'
         /\ \A n, s : Due(n, s)' <=> Due(n, s)
         /\ \A m, n : Earlier(m, n)' <=> Earlier(m, n)
         /\ \A k \in DOMAIN agenda' : agenda'[k].left = 0 => Due(agenda'[k].timer, cnt')
<1>1. /\ Len(agenda) \in Nat /\ DOMAIN agenda = 1..Len(agenda)
      /\ \A k \in DOMAIN agenda : agenda[k] \in Entry /\ agenda[k].left \in Slot
  BY AgendaType
<1>2. cnt \in Slot /\ cnt' \in Slot
  <2>1. 0 \in Slot
    BY WheelAssumption DEF Slot
  <2>2. (cnt + 1) % TIME_WHEEL_SIZE \in Slot
    BY <2>1, SlotTurns
  <2>3. cnt \in Slot
    BY DEF TypeOK
  <2> QED BY <2>2, <2>3 DEF Turns
<1>3. DOMAIN agenda' = DOMAIN agenda
  BY DEF Turns
<1>4. \A k \in DOMAIN agenda :
        /\ agenda'[k].timer = agenda[k].timer
        /\ agenda'[k].left = (agenda[k].left - 1) % TIME_WHEEL_SIZE
  BY <1>1 DEF Entry, Turns
<1>5. \A k \in DOMAIN agenda :
        /\ agenda'[k].left \in Slot
        /\ (cnt' + agenda'[k].left) % TIME_WHEEL_SIZE = (cnt + agenda[k].left) % TIME_WHEEL_SIZE
  <2>1. cnt' = (cnt + 1) % TIME_WHEEL_SIZE
    BY DEF Turns
  <2>2. ASSUME NEW k \in DOMAIN agenda
        PROVE  /\ agenda'[k].left \in Slot
               /\ (cnt' + agenda'[k].left) % TIME_WHEEL_SIZE
                    = (cnt + agenda[k].left) % TIME_WHEEL_SIZE
    <3>1. agenda[k].left \in Slot
      BY <1>1
    <3>2. agenda'[k].left = (agenda[k].left - 1) % TIME_WHEEL_SIZE
      BY <1>4
    <3>3. PICK d \in Slot : d = agenda[k].left
      BY <3>1
    <3>4. /\ (d - 1) % TIME_WHEEL_SIZE \in Slot
          /\ (((cnt + 1) % TIME_WHEEL_SIZE) + ((d - 1) % TIME_WHEEL_SIZE)) % TIME_WHEEL_SIZE
               = (cnt + d) % TIME_WHEEL_SIZE
      BY SlotTurns
    <3>5. agenda'[k].left = (d - 1) % TIME_WHEEL_SIZE
      BY <3>2, <3>3
    <3> QED BY <2>1, <3>3, <3>4, <3>5
  <2> QED BY <2>2
<1>6. agenda' \in Seq(Entry)
  <2>1. \A k \in DOMAIN agenda : agenda'[k] \in Entry
    <3> SUFFICES ASSUME NEW k \in DOMAIN agenda PROVE agenda'[k] \in Entry
      OBVIOUS
    <3>1. agenda'[k] = [agenda[k] EXCEPT !.left = (agenda[k].left - 1) % TIME_WHEEL_SIZE]
      BY DEF Turns
    <3>2. agenda[k] \in Entry /\ (agenda[k].left - 1) % TIME_WHEEL_SIZE \in Slot
      BY <1>1, <1>4, <1>5
    <3> QED BY <3>1, <3>2 DEF Entry
  <2>2. agenda' = [k \in 1..Len(agenda) |-> agenda'[k]]
    BY <1>1 DEF Turns
  <2> QED BY <1>1, <2>1, <2>2
<1>7. Asked' = Asked
  BY <1>3, <1>4 DEF Asked
<1>8. Distinct'
  BY <1>3, <1>4 DEF Distinct
<1>9. \A n, s : Due(n, s)' <=> Due(n, s)
  BY <1>3, <1>4, <1>5 DEF Due, SlotOf
<1>10. \A m, n : Earlier(m, n)' <=> Earlier(m, n)
  BY <1>3, <1>4 DEF Earlier
<1>11. ASSUME NEW k \in DOMAIN agenda', agenda'[k].left = 0
       PROVE  Due(agenda'[k].timer, cnt')
  <2>1. SlotOf(agenda[k].left) = (cnt' + 0) % TIME_WHEEL_SIZE
    BY <1>3, <1>5, <1>11 DEF SlotOf
  <2>2. (cnt' + 0) % TIME_WHEEL_SIZE = cnt'
    <3>1. TIME_WHEEL_SIZE \in Nat /\ TIME_WHEEL_SIZE > 1 /\ cnt' \in 0..(TIME_WHEEL_SIZE - 1)
          /\ 0 \in 0..(TIME_WHEEL_SIZE - 1)
      BY <1>2, WheelAssumption DEF Slot
    <3> QED BY <3>1, Turn
  <2> QED BY <1>3, <1>4, <2>1, <2>2 DEF Due
<1> QED BY <1>2, <1>6, <1>7, <1>8, <1>9, <1>10, <1>11

\* A sequence without its k-th member.
LEMMA Without ==
  ASSUME NEW S, NEW s \in Seq(S), NEW k \in 1..Len(s)
  PROVE  LET r == SubSeq(s, 1, k - 1) \o SubSeq(s, k + 1, Len(s)) IN
         /\ r \in Seq(S) /\ Len(r) = Len(s) - 1
         /\ \A i \in 1..(k - 1) : r[i] = s[i]
         /\ \A i \in k..(Len(s) - 1) : r[i] = s[i + 1]
<1> DEFINE p == SubSeq(s, 1, k - 1)
           q == SubSeq(s, k + 1, Len(s))
<1>1. Len(s) \in Nat /\ k \in Int /\ \A i \in 1..Len(s) : s[i] \in S
  BY ElementOfSeq, LenProperties
<1>2. p \in Seq(S) /\ Len(p) = k - 1 /\ \A i \in 1..(k - 1) : p[i] = s[i]
  <2>1. \A i \in 1..(k - 1) : s[i] \in S
    BY <1>1
  <2>2. /\ p \in Seq(S)
        /\ Len(p) = IF 1 <= k - 1 THEN (k - 1) - 1 + 1 ELSE 0
        /\ \A i \in 1..((k - 1) - 1 + 1) : p[i] = s[1 + i - 1]
    BY <1>1, <2>1, SubSeqProperties
  <2> HIDE DEF p
  <2> QED BY <1>1, <2>2
<1>3. q \in Seq(S) /\ Len(q) = Len(s) - k
      /\ \A i \in 1..(Len(s) - k) : q[i] = s[k + i]
  <2>1. \A i \in (k + 1)..Len(s) : s[i] \in S
    BY <1>1
  <2>2. /\ q \in Seq(S)
        /\ Len(q) = IF k + 1 <= Len(s) THEN Len(s) - (k + 1) + 1 ELSE 0
        /\ \A i \in 1..(Len(s) - (k + 1) + 1) : q[i] = s[(k + 1) + i - 1]
    BY <1>1, <2>1, SubSeqProperties
  <2>3. \A i \in 1..(Len(s) - k) : (k + 1) + i - 1 = k + i
    <3> SUFFICES ASSUME NEW i \in 1..(Len(s) - k) PROVE (k + 1) + i - 1 = k + i
      OBVIOUS
    <3>1. i \in Int
      BY <1>1
    <3> QED BY <1>1, <3>1
  <2>4. Len(s) - (k + 1) + 1 = Len(s) - k
    BY <1>1
  <2> HIDE DEF q
  <2>5. Len(q) = Len(s) - k
    <3>1. CASE k = Len(s)
      <4>1. ~(k + 1 <= Len(s)) /\ Len(s) - k = 0
        BY <1>1, <3>1
      <4> QED BY <2>2, <4>1
    <3>2. CASE k < Len(s)
      <4>1. k + 1 <= Len(s)
        BY <1>1, <3>2
      <4> QED BY <2>2, <2>4, <4>1
    <3> QED BY <1>1, <3>1, <3>2
  <2>6. ASSUME NEW i \in 1..(Len(s) - k) PROVE q[i] = s[k + i]
    <3>1. q[i] = s[(k + 1) + i - 1]
      BY <2>2, <2>4
    <3>2. (k + 1) + i - 1 = k + i
      BY <2>3
    <3> QED BY <3>1, <3>2
  <2> QED BY <2>2, <2>5, <2>6
<1> HIDE DEF p, q
<1>4. /\ p \o q \in Seq(S) /\ Len(p \o q) = Len(p) + Len(q)
      /\ \A i \in 1..(Len(p) + Len(q)) :
           (p \o q)[i] = IF i <= Len(p) THEN p[i] ELSE q[i - Len(p)]
  BY <1>2, <1>3, ConcatProperties
<1>5. Len(p \o q) = Len(s) - 1
  BY <1>1, <1>2, <1>3, <1>4
<1>6. \A i \in 1..(k - 1) : (p \o q)[i] = s[i]
  BY <1>1, <1>2, <1>3, <1>4
<1>7. ASSUME NEW i \in k..(Len(s) - 1) PROVE (p \o q)[i] = s[i + 1]
  <2>1. i - (k - 1) \in 1..(Len(s) - k) /\ k + (i - (k - 1)) = i + 1
    BY <1>1
  <2>2. (p \o q)[i] = q[i - (k - 1)]
    BY <1>1, <1>2, <1>3, <1>4
  <2> QED BY <1>3, <2>1, <2>2
<1>8. p \o q \in Seq(S) /\ Len(p \o q) = Len(s) - 1
      /\ (\A i \in 1..(k - 1) : (p \o q)[i] = s[i])
      /\ \A i \in k..(Len(s) - 1) : (p \o q)[i] = s[i + 1]
  BY <1>4, <1>5, <1>6, <1>7
<1> QED BY <1>8 DEF p, q

\* A timer has run: the others keep their slots and their order.
LEMMA AgendaShrinks ==
  ASSUME TypeOK, Distinct, cnt' = cnt, NEW n \in Asked, Leave(n)
  PROVE  /\ agenda' \in Seq(Entry)
         /\ Asked' = Asked \ {n} /\ Distinct'
         /\ \A m, s : Due(m, s)' <=> Due(m, s) /\ m # n
         /\ \A l, m : Earlier(l, m)' <=> Earlier(l, m) /\ l # n /\ m # n
         /\ \A k \in DOMAIN agenda' : agenda'[k].left = 0 =>
              Due(agenda'[k].timer, cnt) /\ agenda'[k].timer # n
<1> DEFINE L == Len(agenda)
<1>1. L \in Nat /\ DOMAIN agenda = 1..L /\ agenda \in Seq(Entry)
  BY AgendaType
<1>2. PICK k \in 1..L :
        /\ agenda[k].timer = n
        /\ agenda' = SubSeq(agenda, 1, k - 1) \o SubSeq(agenda, k + 1, Len(agenda))
  BY <1>1 DEF Leave
<1>3. /\ agenda' \in Seq(Entry) /\ Len(agenda') = L - 1
      /\ \A i \in 1..(k - 1) : agenda'[i] = agenda[i]
      /\ \A i \in k..(L - 1) : agenda'[i] = agenda[i + 1]
  BY <1>1, <1>2, Without
<1>4. DOMAIN agenda' = 1..(L - 1)
  BY <1>3, LenProperties
<1> DEFINE Old(i) == IF i < k THEN i ELSE i + 1
           New(i) == IF i < k THEN i ELSE i - 1
<1>5. \A i \in DOMAIN agenda' : /\ Old(i) \in DOMAIN agenda /\ Old(i) # k
                                /\ agenda'[i] = agenda[Old(i)]
                                /\ i \in Int
  BY <1>1, <1>3, <1>4
<1>6. \A i \in DOMAIN agenda : i # k => /\ New(i) \in DOMAIN agenda'
                                        /\ agenda'[New(i)] = agenda[i]
                                        /\ i \in Int
  <2> SUFFICES ASSUME NEW i \in DOMAIN agenda, i # k
               PROVE  New(i) \in DOMAIN agenda' /\ agenda'[New(i)] = agenda[i] /\ i \in Int
    OBVIOUS
  <2>1. CASE i < k
    BY <1>1, <1>3, <1>4, <2>1
  <2>2. CASE i > k
    <3>1. i - 1 \in k..(L - 1) /\ (i - 1) + 1 = i
      BY <1>1, <2>2
    <3>2. agenda'[i - 1] = agenda[(i - 1) + 1]
      BY <1>3, <3>1
    <3> QED BY <1>1, <1>4, <2>2, <3>1, <3>2
  <2> QED BY <1>1, <2>1, <2>2
<1>7. \A i, j \in DOMAIN agenda' : i < j => Old(i) < Old(j)
  BY <1>5
<1>8. \A i, j \in DOMAIN agenda : i # k /\ j # k /\ i < j => New(i) < New(j)
  BY <1>1
<1>9. \A i \in DOMAIN agenda : agenda[i].timer = n => i = k
  BY <1>1, <1>2 DEF Distinct
<1>10. k \in DOMAIN agenda
  BY <1>1
<1> HIDE DEF Old, New, L
<1>11. Asked' = Asked \ {n}
  <2>1. Asked' = {agenda'[i].timer : i \in DOMAIN agenda'}
    BY DEF Asked
  <2>2. \A m \in Asked' : m \in Asked \ {n}
    BY <1>5, <1>9, <2>1 DEF Asked
  <2>3. \A m \in Asked \ {n} : m \in Asked'
    BY <1>2, <1>6, <2>1 DEF Asked
  <2> QED BY <2>2, <2>3
<1>12. Distinct'
  <2> SUFFICES ASSUME NEW i \in DOMAIN agenda', NEW j \in DOMAIN agenda',
                      agenda'[i].timer = agenda'[j].timer
               PROVE  i = j
    BY DEF Distinct
  <2>1. Old(i) = Old(j)
    BY <1>5 DEF Distinct
  <2>2. ~(i < j) /\ ~(j < i)
    BY <1>5, <1>7, <2>1, <1>1
  <2> QED BY <1>5, <2>2
<1>13. ASSUME NEW m, NEW s PROVE Due(m, s)' <=> Due(m, s) /\ m # n
  <2>1. Due(m, s)' <=> \E i \in DOMAIN agenda' :
                          agenda'[i].timer = m /\ SlotOf(agenda'[i].left) = s
    BY DEF Due, SlotOf
  <2>2. ASSUME Due(m, s)' PROVE Due(m, s) /\ m # n
    <3>1. PICK i \in DOMAIN agenda' :
            agenda'[i].timer = m /\ SlotOf(agenda'[i].left) = s
      BY <2>1, <2>2
    <3> QED BY <1>5, <1>9, <3>1 DEF Due
  <2>3. ASSUME Due(m, s), m # n PROVE Due(m, s)'
    <3>1. PICK i \in DOMAIN agenda : agenda[i].timer = m /\ SlotOf(agenda[i].left) = s
      BY <2>3 DEF Due
    <3>2. New(i) \in DOMAIN agenda' /\ agenda'[New(i)].timer = m
          /\ SlotOf(agenda'[New(i)].left) = s
      BY <1>2, <1>6, <2>3, <3>1
    <3> QED BY <2>1, <3>2
  <2> QED BY <2>2, <2>3
<1>14. ASSUME NEW l, NEW m
       PROVE  Earlier(l, m)' <=> Earlier(l, m) /\ l # n /\ m # n
  <2>1. ASSUME Earlier(l, m)' PROVE Earlier(l, m) /\ l # n /\ m # n
    <3>1. PICK i, j \in DOMAIN agenda' :
            i < j /\ agenda'[i].timer = l /\ agenda'[j].timer = m
      BY <2>1 DEF Earlier
    <3>2. /\ Old(i) \in DOMAIN agenda /\ Old(j) \in DOMAIN agenda /\ Old(i) < Old(j)
          /\ agenda[Old(i)].timer = l /\ agenda[Old(j)].timer = m
          /\ Old(i) # k /\ Old(j) # k
      BY <1>5, <1>7, <3>1
    <3> QED BY <1>9, <3>2 DEF Earlier
  <2>2. ASSUME Earlier(l, m), l # n, m # n PROVE Earlier(l, m)'
    <3>1. PICK i, j \in DOMAIN agenda : i < j /\ agenda[i].timer = l /\ agenda[j].timer = m
      BY <2>2 DEF Earlier
    <3>2. /\ New(i) \in DOMAIN agenda' /\ New(j) \in DOMAIN agenda' /\ New(i) < New(j)
          /\ agenda'[New(i)].timer = l /\ agenda'[New(j)].timer = m
      BY <1>2, <1>6, <1>8, <2>2, <3>1
    <3> QED BY <3>2 DEF Earlier
  <2> QED BY <2>1, <2>2
<1>15. \A i \in DOMAIN agenda' : agenda'[i].left = 0 =>
         Due(agenda'[i].timer, cnt) /\ agenda'[i].timer # n
  BY <1>5, <1>9, Slots
<1> QED BY <1>3, <1>11, <1>12, <1>13, <1>14, <1>15

\* A set of numbers has a least member.
LEMMA Least ==
  ASSUME NEW T \in SUBSET Nat, T # {}
  PROVE  \E x \in T : \A y \in T : x <= y
<1> DEFINE UpTo(x) == 0..x
           F == {UpTo(x) : x \in T}
<1>1. F \subseteq FiniteSubsetsOf(Nat)
  <2>1. ASSUME NEW x \in T PROVE UpTo(x) \in FiniteSubsetsOf(Nat)
    <3>1. x \in Int /\ 0 \in Int /\ UpTo(x) \subseteq Nat
      OBVIOUS
    <3>2. IsFiniteSet(UpTo(x))
      BY <3>1, FS_Interval
    <3> QED BY <3>1, <3>2 DEF FiniteSubsetsOf
  <2> HIDE DEF UpTo
  <2> QED BY <2>1
<1>2. IsWellFoundedOn(StrictSubsetOrdering(Nat), FiniteSubsetsOf(Nat))
  BY FS_StrictSubsetOrderingWellFounded
<1>3. F # {}
  OBVIOUS
<1> HIDE DEF F
<1>4. \E X \in F : \A Y \in F : <<Y, X>> \notin StrictSubsetOrdering(Nat)
  BY <1>1, <1>2, <1>3, WFMin
<1>5. PICK x \in T : \A y \in T : <<UpTo(y), UpTo(x)>> \notin StrictSubsetOrdering(Nat)
  BY <1>4 DEF F
<1>6. ASSUME NEW y \in T, y < x PROVE FALSE
  <2>1. UpTo(y) \in SUBSET Nat /\ UpTo(x) \in SUBSET Nat
    OBVIOUS
  <2>2. UpTo(y) \subseteq UpTo(x) /\ x \in UpTo(x) /\ x \notin UpTo(y)
    BY <1>6
  <2> HIDE DEF UpTo
  <2> QED BY <1>5, <2>1, <2>2 DEF StrictSubsetOrdering
<1> QED BY <1>6

\* Of some timers that are asked for one was asked for first, and one last.
LEMMA First ==
  ASSUME TypeOK, NEW M \in SUBSET Asked, M # {}
  PROVE  \E h \in M : \A n \in M : n = h \/ Earlier(h, n)
<1> DEFINE T == {k \in DOMAIN agenda : agenda[k].timer \in M}
<1>1. Len(agenda) \in Nat /\ DOMAIN agenda = 1..Len(agenda)
  BY AgendaType
<1>2. T \in SUBSET Nat /\ T # {}
  BY <1>1 DEF Asked
<1>3. PICK j \in T : \A k \in T : j <= k
  BY <1>2, Least
<1>4. ASSUME NEW n \in M PROVE n = agenda[j].timer \/ Earlier(agenda[j].timer, n)
  <2>1. PICK k \in DOMAIN agenda : agenda[k].timer = n
    BY DEF Asked
  <2>2. j <= k
    BY <1>3, <2>1
  <2>3. j = k \/ j < k
    BY <1>1, <2>2
  <2> QED BY <2>1, <2>3 DEF Earlier
<1> QED BY <1>4

LEMMA Last ==
  ASSUME TypeOK, NEW M \in SUBSET Asked, M # {}
  PROVE  \E h \in M : \A n \in M : n = h \/ Earlier(n, h)
<1> DEFINE L == Len(agenda)
           T == {L - k : k \in {i \in DOMAIN agenda : agenda[i].timer \in M}}
<1>1. L \in Nat /\ DOMAIN agenda = 1..L
  BY AgendaType
<1>2. T \in SUBSET Nat
  BY <1>1
<1>3. T # {}
  BY <1>1 DEF Asked
<1>4. PICK x \in T : \A y \in T : x <= y
  <2> HIDE DEF T
  <2> QED BY <1>2, <1>3, Least
<1>5. PICK j \in DOMAIN agenda : agenda[j].timer \in M /\ x = L - j
  OBVIOUS
<1>6. ASSUME NEW n \in M PROVE n = agenda[j].timer \/ Earlier(n, agenda[j].timer)
  <2>1. PICK k \in DOMAIN agenda : agenda[k].timer = n
    BY DEF Asked
  <2>2. L - j <= L - k
    BY <1>4, <1>5, <2>1
  <2>3. j = k \/ k < j
    BY <1>1, <2>2
  <2> QED BY <1>5, <2>1, <2>3 DEF Earlier
<1> QED BY <1>5, <1>6

----------------------------------------------------------------------------
(***************************************************************************)
(* The types are kept, and no timer is asked for twice.                    *)
(***************************************************************************)
\* A step that is not one of the timing wheel changes nothing.
LEMMA Stutters ==
  ASSUME TInv, UNCHANGED vars
  PROVE  TInv'
<1>1. /\ cnt' = cnt /\ front' = front /\ rear' = rear /\ next' = next /\ heap' = heap
      /\ add_pc' = add_pc /\ new_node' = new_node /\ relative_tmv' = relative_tmv
      /\ alarm' = alarm /\ tmr_node' = tmr_node /\ agenda' = agenda
      /\ interrupted' = interrupted /\ failed' = failed
  BY DEF vars, wheelVars, addVars, alarmVars, faultVars
<1>2. /\ TypeOK' = TypeOK /\ Distinct' = Distinct /\ PointersLive' = PointersLive
      /\ PointersUnique' = PointersUnique /\ AtFront' = AtFront /\ NewUnlinked' = NewUnlinked
  BY <1>1 DEF TypeOK, Distinct, PointersLive, PointersUnique, AtFront, NewUnlinked, Asked
<1>3. Adding' = Adding /\ NodesListed' = NodesListed /\ ListsOrdered' = ListsOrdered
  BY <1>1 DEF ListsOrdered, Adding, NodesListed, InList, AtRear, IsFirst, IsLast, Begin,
              Due, Earlier, Asked, SlotOf
<1> QED BY <1>1, <1>2, <1>3 DEF TInv, Sound, Ordered

\* A node that has just been allocated is not in use.
LEMMA Fresh ==
  ASSUME TypeOK, PointersLive, NEW n, Alloc(n)
  PROVE  /\ n \in Node /\ n # NULL /\ n \notin heap /\ n \notin Asked
         /\ \A s \in Slot : front[s] # n
         /\ \A p \in heap : next[p] # n
BY NodeAssumption DEF Alloc, PointersLive

\* What a handler that adds a timer does to the lists.
LEMMA Added ==
  ASSUME TypeOK, NEW n \in Node, NEW d \in Interval, HandlerAdds(n, d), SlotOf(d) \in Slot
  PROVE  LET s == SlotOf(d) IN
         /\ front' \in [Slot -> Node \cup {NULL}] /\ rear' \in [Slot -> Node \cup {NULL}]
         /\ next' \in [Node -> Node \cup {NULL}]
         /\ \A r \in Slot :
              front'[r] = IF r = s /\ front[s] = NULL THEN n ELSE front[r]
         /\ \A p \in Node :
              next'[p] = IF front[s] # NULL /\ p = rear[s] THEN n
                         ELSE IF p = n THEN NULL ELSE next[p]
         /\ alarm' = IF front[s] # NULL /\ rear[s] = NULL THEN "crashed" ELSE "added"
         /\ alarm' = "added" => \A r \in Slot : rear'[r] = IF r = s THEN n ELSE rear[r]
<1> DEFINE s == SlotOf(d)
<1>1. s \in Slot /\ n \in Node /\ n # NULL
      /\ front \in [Slot -> Node \cup {NULL}] /\ rear \in [Slot -> Node \cup {NULL}]
      /\ next \in [Node -> Node \cup {NULL}]
  BY NodeAssumption DEF TypeOK
<1> HIDE DEF s
<1>2. CASE /\ front[s] = NULL
           /\ front' = [front EXCEPT ![s] = n] /\ rear' = [rear EXCEPT ![s] = n]
           /\ next' = [next EXCEPT ![n] = NULL] /\ alarm' = "added"
  BY <1>1, <1>2 DEF s
<1>3. CASE /\ front[s] # NULL /\ rear[s] # NULL
           /\ next' = [next EXCEPT ![n] = NULL, ![rear[s]] = n]
           /\ rear' = [rear EXCEPT ![s] = n]
           /\ alarm' = "added" /\ front' = front
  <2>1. rear[s] \in Node
    BY <1>1, <1>3
  <2>2. \A p \in Node : next'[p] = IF p = rear[s] THEN n ELSE IF p = n THEN NULL ELSE next[p]
    BY <1>1, <1>3, <2>1
  <2>3. next' \in [Node -> Node \cup {NULL}] /\ rear' \in [Slot -> Node \cup {NULL}]
    BY <1>1, <1>3, <2>1
  <2>4. \A r \in Slot : rear'[r] = IF r = s THEN n ELSE rear[r]
    BY <1>1, <1>3
  <2>5. \A r \in Slot : front'[r] = IF r = s /\ front[s] = NULL THEN n ELSE front[r]
    BY <1>3
  <2>6. \A p \in Node : next'[p] = IF front[s] # NULL /\ p = rear[s] THEN n
                                   ELSE IF p = n THEN NULL ELSE next[p]
    BY <1>3, <2>2
  <2>7. front' \in [Slot -> Node \cup {NULL}]
    BY <1>1, <1>3
  <2>8. alarm' = IF front[s] # NULL /\ rear[s] = NULL THEN "crashed" ELSE "added"
    BY <1>3
  <2> QED BY <2>3, <2>4, <2>5, <2>6, <2>7, <2>8 DEF s
<1>4. CASE /\ front[s] # NULL /\ rear[s] = NULL
           /\ alarm' = "crashed" /\ next' = [next EXCEPT ![n] = NULL]
           /\ front' = front /\ rear' = rear
  <2>1. \A p \in Node : next'[p] = IF front[s] # NULL /\ p = rear[s] THEN n
                                   ELSE IF p = n THEN NULL ELSE next[p]
    BY <1>1, <1>4, NodeAssumption
  <2>2. next' \in [Node -> Node \cup {NULL}]
    BY <1>1, <1>4
  <2> QED BY <1>1, <1>4, <2>1, <2>2 DEF s
<1> QED BY <1>2, <1>3, <1>4 DEF HandlerAdds, s

LEMMA TypeStep ==
  ASSUME TInv, Next
  PROVE  TypeOK' /\ Distinct'
<1> DEFINE Types == /\ cnt \in Slot
                    /\ front \in [Slot -> Node \cup {NULL}]
                    /\ rear \in [Slot -> Node \cup {NULL}]
                    /\ next \in [Node -> Node \cup {NULL}]
                    /\ heap \subseteq Node
                    /\ add_pc \in {"idle", "test", "front", "rear = front", "rear->next", "rear"}
                    /\ new_node \in Node \cup {NULL} /\ relative_tmv \in Slot
                    /\ alarm \in {"idle", "call", "added", "crashed"}
                    /\ tmr_node \in Node \cup {NULL}
<1>1. Types /\ agenda \in Seq(Entry) /\ TypeOK /\ Distinct /\ PointersLive
  BY DEF TInv, TypeOK, Entry, Sound
<1>2. SUFFICES Types' /\ agenda' \in Seq(Entry) /\ Distinct'
  BY DEF TypeOK, Entry
<1>3. ASSUME NEW n \in Node, NEW d \in Interval, CallAddTimer(n, d)
      PROVE  Types' /\ agenda' \in Seq(Entry) /\ Distinct'
  <2>1. cnt' = cnt /\ n \notin Asked /\ Ask(n, d)
    BY <1>1, <1>3, Fresh DEF CallAddTimer, alarmVars
  <2>2. agenda' \in Seq(Entry) /\ Distinct' /\ SlotOf(d) \in Slot
    BY <1>1, <2>1, AgendaGrows
  <2>3. Types'
    BY <1>1, <1>3, <2>2 DEF CallAddTimer, alarmVars, faultVars
  <2> QED BY <2>2, <2>3
<1>4. ASSUME TestFront \/ SetFront \/ SetRearToFront \/ LinkRear \/ SetRear
      PROVE  Types' /\ agenda' \in Seq(Entry) /\ Distinct'
  <2>1. agenda' = agenda /\ cnt' = cnt
    BY <1>4 DEF TestFront, SetFront, SetRearToFront, LinkRear, SetRear, alarmVars
  <2>2. Types'
    BY <1>1, <1>4 DEF TestFront, SetFront, SetRearToFront, LinkRear, SetRear, wheelVars,
                      alarmVars, faultVars
  <2> QED BY <1>1, <2>1, <2>2, AgendaSame
<1>5. ASSUME SigAlarm
      PROVE  Types' /\ agenda' \in Seq(Entry) /\ Distinct'
  <2>1. Turns
    BY <1>5 DEF SigAlarm, Turns
  <2>2. agenda' \in Seq(Entry) /\ Distinct' /\ cnt' \in Slot
    BY <1>1, <2>1, AgendaTurns
  <2>3. Types'
    BY <1>1, <1>5, <2>2 DEF SigAlarm, wheelVars, addVars
  <2> QED BY <2>2, <2>3
<1>6. ASSUME NEW n \in Node, NEW d \in Interval, HandlerAdds(n, d)
      PROVE  Types' /\ agenda' \in Seq(Entry) /\ Distinct'
  <2>1. cnt' = cnt /\ n \notin Asked /\ Ask(n, d)
    BY <1>1, <1>6, Fresh DEF HandlerAdds
  <2>2. agenda' \in Seq(Entry) /\ Distinct' /\ SlotOf(d) \in Slot
    BY <1>1, <2>1, AgendaGrows
  <2>3. Types'
    <3>1. /\ front' \in [Slot -> Node \cup {NULL}] /\ rear' \in [Slot -> Node \cup {NULL}]
          /\ next' \in [Node -> Node \cup {NULL}] /\ alarm' \in {"crashed", "added"}
      BY <1>1, <1>6, <2>2, Added
    <3> QED BY <1>1, <1>6, <3>1 DEF HandlerAdds, addVars, faultVars
  <2> QED BY <2>2, <2>3
<1>7. ASSUME NextTimer \/ LastTimer
      PROVE  Types' /\ agenda' \in Seq(Entry) /\ Distinct'
  <2>1. cnt' = cnt /\ Leave(tmr_node) /\ alarm \in Active
    BY <1>7 DEF NextTimer, LastTimer, Active
  <2>2. tmr_node \in Asked
    BY <2>1 DEF TInv, Sound, AtFront
  <2>3. agenda' \in Seq(Entry) /\ Distinct'
    BY <1>1, <2>1, <2>2, AgendaShrinks
  <2>4. Types'
    BY <1>1, <1>7, <2>2, AgendaType DEF NextTimer, LastTimer, FreePassed, addVars, faultVars
  <2> QED BY <2>3, <2>4
<1>8. ASSUME HandlerFails
      PROVE  Types' /\ agenda' \in Seq(Entry) /\ Distinct'
  <2>1. agenda' = agenda /\ cnt' = cnt
    BY <1>8 DEF HandlerFails
  <2>2. Types'
    BY <1>1, <1>8 DEF HandlerFails, FreePassed, addVars, faultVars
  <2> QED BY <1>1, <2>1, <2>2, AgendaSame
<1> QED BY <1>3, <1>4, <1>5, <1>6, <1>7, <1>8 DEF Next, AddTimer, ProcTimer

----------------------------------------------------------------------------
(***************************************************************************)
(* Every step keeps the lists sound, whatever was interrupted before.      *)
(***************************************************************************)
LEMMA SoundCall ==
  ASSUME TInv, NEW n \in Node, NEW d \in Interval, CallAddTimer(n, d)
  PROVE  Sound'
<1>1. TypeOK /\ Distinct /\ Sound /\ PointersLive /\ PointersUnique
  BY DEF TInv, Sound
<1>2. /\ n # NULL /\ n \notin heap /\ n \notin Asked
      /\ \A s \in Slot : front[s] # n
      /\ \A p \in heap : next[p] # n
  BY <1>1, Fresh DEF CallAddTimer
<1>3. /\ heap' = heap \cup {n} /\ front' = front /\ cnt' = cnt
      /\ new_node' = n /\ alarm = "idle" /\ alarm' = "idle"
      /\ \A p \in Node : next'[p] = IF p = n THEN NULL ELSE next[p]
      /\ heap \subseteq Node
  BY <1>1 DEF CallAddTimer, alarmVars, TypeOK
<1>4. Asked' = Asked \cup {n}
  BY <1>1, <1>2, <1>3, AgendaGrows DEF CallAddTimer
<1>5. PointersLive'
  BY <1>1, <1>3, <1>4 DEF PointersLive
<1>6. PointersUnique'
  BY <1>1, <1>3 DEF PointersUnique
<1>7. AtFront'
  BY <1>3 DEF AtFront, Active
<1>8. NewUnlinked'
  BY <1>2, <1>3, <1>4 DEF NewUnlinked, Active
<1> QED BY <1>5, <1>6, <1>7, <1>8 DEF Sound

LEMMA SoundLinks ==
  ASSUME TInv, TestFront \/ SetFront \/ SetRearToFront \/ LinkRear \/ SetRear
  PROVE  Sound'
<1>1. TypeOK /\ Distinct /\ PointersLive /\ PointersUnique /\ AtFront /\ NewUnlinked
  BY DEF TInv, Sound
<1>2. /\ agenda' = agenda /\ cnt' = cnt /\ heap' = heap /\ new_node' = new_node
      /\ alarm = "idle" /\ alarm' \in {"idle", "crashed"}
  BY DEF TestFront, SetFront, SetRearToFront, LinkRear, SetRear, alarmVars, wheelVars
<1>3. Asked' = Asked
  BY <1>2, AgendaSame
<1>4. AtFront'
  BY <1>2 DEF AtFront, Active
<1>5. /\ front \in [Slot -> Node \cup {NULL}] /\ next \in [Node -> Node \cup {NULL}]
      /\ heap \subseteq Node /\ relative_tmv \in Slot
  BY <1>1 DEF TypeOK
<1>6. CASE TestFront \/ SetRearToFront \/ SetRear
  <2>1. front' = front /\ next' = next /\ (add_pc' \in Unlinked => add_pc \in Unlinked)
    BY <1>6 DEF TestFront, SetRearToFront, SetRear, wheelVars, Unlinked
  <2>2. PointersLive' /\ PointersUnique'
    BY <1>1, <1>2, <1>3, <2>1 DEF PointersLive, PointersUnique
  <2>3. NewUnlinked'
    BY <1>1, <1>2, <1>3, <2>1 DEF NewUnlinked, Active
  <2> QED BY <1>4, <2>2, <2>3 DEF Sound
<1>7. CASE SetFront
  <2>1. /\ \A s \in Slot : front'[s] = IF s = relative_tmv THEN new_node ELSE front[s]
        /\ next' = next /\ add_pc' = "rear = front" /\ add_pc = "front"
    BY <1>5, <1>7 DEF SetFront
  <2>2. /\ new_node \in Asked /\ \A s \in Slot : front[s] # new_node
        /\ \A p \in heap : next[p] # new_node
    BY <1>1, <2>1 DEF NewUnlinked, Unlinked
  <2>3. PointersLive'
    BY <1>1, <1>2, <1>3, <2>1, <2>2 DEF PointersLive
  <2>4. PointersUnique'
    BY <1>1, <1>2, <2>1, <2>2 DEF PointersUnique
  <2>5. NewUnlinked'
    BY <2>1 DEF NewUnlinked, Unlinked
  <2> QED BY <1>4, <2>3, <2>4, <2>5 DEF Sound
<1>8. CASE LinkRear
  <2>1. front' = front /\ add_pc = "rear->next"
    BY <1>8 DEF LinkRear
  <2>2. /\ new_node \in Asked /\ \A s \in Slot : front[s] # new_node
        /\ \A p \in heap : next[p] # new_node
    BY <1>1, <2>1 DEF NewUnlinked, Unlinked
  <2>3. CASE rear[relative_tmv] = NULL
    <3>1. next' = next /\ add_pc' = add_pc
      BY <1>8, <2>3 DEF LinkRear
    <3>2. PointersLive' /\ PointersUnique'
      BY <1>1, <1>2, <1>3, <2>1, <3>1 DEF PointersLive, PointersUnique
    <3>3. NewUnlinked'
      BY <1>1, <1>2, <1>3, <2>1, <3>1 DEF NewUnlinked, Active
    <3> QED BY <1>4, <3>2, <3>3 DEF Sound
  <2>4. CASE rear[relative_tmv] # NULL
    <3>1. /\ \A p \in Node : next'[p] = IF p = rear[relative_tmv] THEN new_node ELSE next[p]
          /\ add_pc' = "rear"
      BY <1>5, <1>8, <2>4 DEF LinkRear
    <3>2. PointersLive'
      BY <1>1, <1>2, <1>3, <1>5, <2>1, <2>2, <3>1 DEF PointersLive
    <3>3. PointersUnique'
      BY <1>1, <1>2, <1>5, <2>1, <2>2, <3>1 DEF PointersUnique
    <3>4. NewUnlinked'
      BY <3>1 DEF NewUnlinked, Unlinked
    <3> QED BY <1>4, <3>2, <3>3, <3>4 DEF Sound
  <2> QED BY <2>3, <2>4
<1> QED BY <1>6, <1>7, <1>8

LEMMA SoundAlarm ==
  ASSUME TInv, SigAlarm
  PROVE  Sound'
<1>1. TypeOK /\ Distinct /\ PointersLive /\ PointersUnique /\ AtFront /\ NewUnlinked
  BY DEF TInv, Sound
<1>2. /\ heap' = heap /\ front' = front /\ next' = next /\ alarm = "idle"
      /\ add_pc' = add_pc /\ new_node' = new_node
      /\ \/ front[cnt'] = NULL /\ alarm' = "idle"
         \/ front[cnt'] # NULL /\ alarm' = "call" /\ tmr_node' = front[cnt']
  BY DEF SigAlarm, wheelVars, addVars
<1>3. Asked' = Asked /\ cnt' \in Slot
  <2>1. Turns
    BY DEF SigAlarm, Turns
  <2> QED BY <1>1, <2>1, AgendaTurns
<1>4. PointersLive' /\ PointersUnique'
  BY <1>1, <1>2, <1>3 DEF PointersLive, PointersUnique
<1>5. AtFront'
  BY <1>1, <1>2, <1>3 DEF AtFront, PointersLive, Active
<1>6. NewUnlinked'
  BY <1>1, <1>2, <1>3 DEF NewUnlinked, Active
<1> QED BY <1>4, <1>5, <1>6 DEF Sound

LEMMA SoundAdds ==
  ASSUME TInv, NEW n \in Node, NEW d \in Interval, HandlerAdds(n, d)
  PROVE  Sound'
<1> DEFINE s == SlotOf(d)
<1>1. TypeOK /\ Distinct /\ PointersLive /\ PointersUnique /\ AtFront /\ NewUnlinked
  BY DEF TInv, Sound
<1>2. /\ n # NULL /\ n \notin heap /\ n \notin Asked
      /\ \A r \in Slot : front[r] # n
      /\ \A p \in heap : next[p] # n
  BY <1>1, Fresh DEF HandlerAdds
<1>3. /\ alarm = "call" /\ heap' = heap \cup {n} /\ cnt' = cnt /\ tmr_node' = tmr_node
      /\ add_pc' = add_pc /\ new_node' = new_node /\ heap \subseteq Node /\ cnt \in Slot
  BY <1>1 DEF HandlerAdds, addVars, TypeOK
<1>4. Asked' = Asked \cup {n} /\ s \in Slot /\ s # cnt
  BY <1>1, <1>2, <1>3, AgendaGrows DEF HandlerAdds
<1>5. /\ \A r \in Slot : front'[r] = IF r = s /\ front[s] = NULL THEN n ELSE front[r]
      /\ \A p \in Node : next'[p] = IF front[s] # NULL /\ p = rear[s] THEN n
                                    ELSE IF p = n THEN NULL ELSE next[p]
      /\ alarm' \in {"crashed", "added"}
  BY <1>1, <1>4, Added
<1> HIDE DEF s
<1>6. PointersLive'
  <2>1. Asked' \subseteq heap'
    BY <1>1, <1>3, <1>4 DEF PointersLive
  <2>2. \A r \in Slot : front'[r] \in heap' \cup {NULL}
    BY <1>1, <1>3, <1>5 DEF PointersLive
  <2>3. \A r \in Slot : (alarm' # "idle" /\ r = cnt') \/ front'[r] \in Asked' \cup {NULL}
    BY <1>1, <1>3, <1>4, <1>5 DEF PointersLive
  <2>4. \A p \in heap' : next'[p] \in Asked' \cup {NULL}
    BY <1>1, <1>3, <1>4, <1>5 DEF PointersLive
  <2> QED BY <2>1, <2>2, <2>3, <2>4 DEF PointersLive
<1>7. PointersUnique'
  BY <1>1, <1>2, <1>3, <1>4, <1>5 DEF PointersUnique
<1>8. AtFront'
  <2>1. /\ tmr_node \in Asked /\ tmr_node # n
        /\ \/ front[cnt] = tmr_node
           \/ /\ front[cnt] \in heap \ Asked
              /\ \A p \in heap : next[p] = tmr_node => p = front[cnt]
              /\ \A r \in Slot : front[r] # tmr_node
    BY <1>1, <1>2, <1>3 DEF AtFront, Active
  <2>2. front'[cnt] = front[cnt] /\ tmr_node # NULL
    BY <1>1, <1>3, <1>4, <1>5, <2>1, AgendaType
  <2> QED BY <1>2, <1>3, <1>4, <1>5, <2>1, <2>2 DEF AtFront
<1>9. NewUnlinked'
  <2> SUFFICES ASSUME add_pc \in Unlinked
               PROVE  /\ new_node \in Asked'
                      /\ \A r \in Slot : front'[r] # new_node
                      /\ \A p \in heap' : next'[p] # new_node
                      /\ tmr_node # new_node
    BY <1>3 DEF NewUnlinked
  <2>1. /\ new_node \in Asked /\ tmr_node # new_node
        /\ \A r \in Slot : front[r] # new_node
        /\ \A p \in heap : next[p] # new_node
    BY <1>1, <1>3 DEF NewUnlinked, Active
  <2>2. new_node # n /\ new_node # NULL
    BY <1>1, <1>2, <2>1, AgendaType
  <2> QED BY <1>3, <1>4, <1>5, <2>1, <2>2
<1> QED BY <1>6, <1>7, <1>8, <1>9 DEF Sound

\* Where proc_timer is, nothing else leads to.
LEMMA Here ==
  ASSUME TInv, alarm \in Active
  PROVE  /\ tmr_node \in Asked /\ tmr_node \in heap /\ tmr_node # NULL
         /\ front[cnt] \in heap /\ cnt \in Slot
         /\ front[cnt] = tmr_node \/ front[cnt] \notin Asked
         /\ \A s \in Slot \ {cnt} : front[s] # tmr_node
         /\ \A p \in heap \ {front[cnt]} : next[p] # tmr_node
         /\ next[tmr_node] # tmr_node
BY AgendaType DEF TInv, Sound, AtFront, PointersLive, PointersUnique, TypeOK

LEMMA SoundNext ==
  ASSUME TInv, NextTimer
  PROVE  Sound'
<1>1. TypeOK /\ Distinct /\ PointersLive /\ PointersUnique /\ NewUnlinked
  BY DEF TInv, Sound
<1>2. /\ alarm \in Active /\ alarm' = "call" /\ cnt' = cnt /\ next' = next
      /\ add_pc' = add_pc /\ new_node' = new_node
      /\ next[tmr_node] # NULL /\ tmr_node' = next[tmr_node]
      /\ heap' = IF front[cnt] = tmr_node THEN heap ELSE heap \ {front[cnt]}
      /\ \A s \in Slot : front'[s] = IF s = cnt THEN tmr_node ELSE front[s]
  BY <1>1 DEF NextTimer, FreePassed, addVars, Active, TypeOK
<1>3. /\ tmr_node \in Asked /\ tmr_node \in heap /\ tmr_node # NULL
      /\ front[cnt] \in heap /\ cnt \in Slot
      /\ front[cnt] = tmr_node \/ front[cnt] \notin Asked
      /\ \A s \in Slot \ {cnt} : front[s] # tmr_node
      /\ \A p \in heap \ {front[cnt]} : next[p] # tmr_node
      /\ next[tmr_node] # tmr_node
  BY <1>2, Here
<1>4. Asked' = Asked \ {tmr_node}
  BY <1>1, <1>2, <1>3, AgendaShrinks DEF NextTimer
<1>5. PointersLive'
  <2>1. Asked' \subseteq heap'
    BY <1>1, <1>2, <1>3, <1>4 DEF PointersLive
  <2>2. \A s \in Slot : front'[s] \in heap' \cup {NULL}
    BY <1>1, <1>2, <1>3 DEF PointersLive, PointersUnique
  <2>3. \A s \in Slot \ {cnt} : front'[s] \in Asked' \cup {NULL}
    BY <1>1, <1>2, <1>3, <1>4 DEF PointersLive
  <2>4. \A p \in heap' : next[p] \in Asked' \cup {NULL}
    <3> SUFFICES ASSUME NEW p \in heap' PROVE next[p] # tmr_node
      BY <1>1, <1>2, <1>4 DEF PointersLive
    <3> QED BY <1>1, <1>2, <1>3 DEF PointersUnique
  <2> QED BY <1>2, <2>1, <2>2, <2>3, <2>4 DEF PointersLive
<1>6. PointersUnique'
  BY <1>1, <1>2, <1>3 DEF PointersUnique
<1>7. AtFront'
  <2>1. tmr_node' \in Asked'
    BY <1>1, <1>2, <1>3, <1>4 DEF PointersLive
  <2>2. front'[cnt'] \in heap' \ Asked'
    BY <1>2, <1>3, <1>4
  <2>3. \A p \in heap' : next'[p] = tmr_node' => p = front'[cnt']
    BY <1>1, <1>2, <1>3 DEF PointersUnique
  <2>4. \A s \in Slot : front'[s] # tmr_node'
    BY <1>1, <1>2, <1>3 DEF PointersUnique
  <2> QED BY <2>1, <2>2, <2>3, <2>4 DEF AtFront
<1>8. NewUnlinked'
  BY <1>1, <1>2, <1>3, <1>4 DEF NewUnlinked
<1> QED BY <1>5, <1>6, <1>7, <1>8 DEF Sound

LEMMA SoundLast ==
  ASSUME TInv, LastTimer
  PROVE  Sound'
<1>1. TypeOK /\ Distinct /\ PointersLive /\ PointersUnique /\ NewUnlinked
  BY DEF TInv, Sound
<1>2. /\ alarm \in Active /\ alarm' = "idle" /\ cnt' = cnt /\ next' = next
      /\ add_pc' = add_pc /\ new_node' = new_node
      /\ next[tmr_node] = NULL
      /\ heap' = heap \ {front[cnt], tmr_node}
      /\ \A s \in Slot : front'[s] = IF s = cnt THEN NULL ELSE front[s]
  BY <1>1 DEF LastTimer, addVars, Active, TypeOK
<1>3. /\ tmr_node \in Asked /\ tmr_node \in heap /\ tmr_node # NULL
      /\ front[cnt] \in heap /\ cnt \in Slot
      /\ front[cnt] = tmr_node \/ front[cnt] \notin Asked
      /\ \A s \in Slot \ {cnt} : front[s] # tmr_node
      /\ \A p \in heap \ {front[cnt]} : next[p] # tmr_node
  BY <1>2, Here
<1>4. Asked' = Asked \ {tmr_node}
  BY <1>1, <1>2, <1>3, AgendaShrinks DEF LastTimer
<1>5. PointersLive'
  <2>1. Asked' \subseteq heap'
    BY <1>1, <1>2, <1>3, <1>4 DEF PointersLive
  <2>2. \A s \in Slot : front'[s] \in Asked' \cup {NULL}
    BY <1>1, <1>2, <1>3, <1>4 DEF PointersLive
  <2>3. \A p \in heap' : next[p] \in Asked' \cup {NULL}
    BY <1>1, <1>2, <1>3, <1>4 DEF PointersLive
  <2> QED BY <1>2, <2>1, <2>2, <2>3 DEF PointersLive
<1>6. PointersUnique'
  BY <1>1, <1>2, <1>3 DEF PointersUnique
<1>7. AtFront'
  BY <1>2 DEF AtFront, Active
<1>8. NewUnlinked'
  <2>1. alarm' \notin Active
    BY <1>2 DEF Active
  <2>2. \A s \in Slot : front'[s] # front[s] => front'[s] = NULL
    BY <1>2
  <2>3. new_node \in Asked => new_node # NULL
    BY <1>1, AgendaType
  <2> QED BY <1>1, <1>2, <1>3, <1>4, <2>1, <2>2, <2>3 DEF NewUnlinked
<1> QED BY <1>5, <1>6, <1>7, <1>8 DEF Sound

LEMMA SoundFails ==
  ASSUME TInv, HandlerFails
  PROVE  Sound'
<1>1. TypeOK /\ Distinct /\ PointersLive /\ PointersUnique /\ NewUnlinked
  BY DEF TInv, Sound
<1>2. /\ alarm \in Active /\ alarm' = "idle" /\ cnt' = cnt /\ next' = next
      /\ add_pc' = add_pc /\ new_node' = new_node /\ agenda' = agenda
      /\ heap' = IF front[cnt] = tmr_node THEN heap ELSE heap \ {front[cnt]}
      /\ \A s \in Slot : front'[s] = IF s = cnt THEN tmr_node ELSE front[s]
  BY <1>1 DEF HandlerFails, FreePassed, addVars, Active, TypeOK
<1>3. /\ tmr_node \in Asked /\ tmr_node \in heap /\ tmr_node # NULL
      /\ front[cnt] \in heap /\ cnt \in Slot
      /\ front[cnt] = tmr_node \/ front[cnt] \notin Asked
      /\ \A s \in Slot \ {cnt} : front[s] # tmr_node
      /\ \A p \in heap \ {front[cnt]} : next[p] # tmr_node
  BY <1>2, Here
<1>4. Asked' = Asked
  BY <1>2, AgendaSame
<1>5. PointersLive'
  <2>1. Asked' \subseteq heap'
    BY <1>1, <1>2, <1>3, <1>4 DEF PointersLive
  <2>2. \A s \in Slot : front'[s] \in Asked' \cup {NULL}
    BY <1>1, <1>2, <1>3, <1>4 DEF PointersLive
  <2>3. \A p \in heap' : next[p] \in Asked' \cup {NULL}
    BY <1>1, <1>2, <1>4 DEF PointersLive
  <2> QED BY <1>2, <2>1, <2>2, <2>3 DEF PointersLive
<1>6. PointersUnique'
  <2>1. \A p \in heap' : p \in heap /\ next[p] # tmr_node
    BY <1>1, <1>2, <1>3 DEF PointersUnique
  <2> QED BY <1>1, <1>2, <1>3, <2>1 DEF PointersUnique
<1>7. AtFront'
  BY <1>2 DEF AtFront, Active
<1>8. NewUnlinked'
  BY <1>1, <1>2, <1>3, <1>4 DEF NewUnlinked, Active
<1> QED BY <1>5, <1>6, <1>7, <1>8 DEF Sound

----------------------------------------------------------------------------
(***************************************************************************)
(* Every step keeps the lists in order, until add_timer is interrupted.    *)
(***************************************************************************)
LEMMA Lists ==
  ASSUME TypeOK, Distinct
  PROVE  /\ \A s : InList(s) \subseteq Asked /\ AtRear(s) \subseteq InList(s)
         /\ \A s, r, n : n \in InList(s) /\ n \in InList(r) => s = r
         /\ \A s, n : n \in InList(s) <=> /\ Due(n, s)
                                          /\ ~(add_pc \in Unlinked /\ n = new_node)
         /\ \A s, n : n \in AtRear(s) <=> Due(n, s) /\ ~(add_pc # "idle" /\ n = new_node)
BY Slots DEF InList, AtRear, Unlinked

\* The lists and their order as they were.
LEMMA KeptFirst ==
  ASSUME ListsOrdered, next' = next,
         \A s \in Slot : Begin(s)' = Begin(s) /\ InList(s)' = InList(s),
         \A m, n : Earlier(m, n)' <=> Earlier(m, n)
  PROVE  /\ \A s \in Slot : IsFirst(Begin(s), InList(s))'
         /\ \A s \in Slot : \A p \in InList(s)' :
              IsFirst(next[p], {m \in InList(s) : Earlier(p, m)})'
BY DEF ListsOrdered, IsFirst

LEMMA Kept ==
  ASSUME ListsOrdered, next' = next, rear' = rear,
         \A s \in Slot : Begin(s)' = Begin(s),
         \A s \in Slot : InList(s)' = InList(s) /\ AtRear(s)' = AtRear(s),
         \A m, n : Earlier(m, n)' <=> Earlier(m, n)
  PROVE  ListsOrdered'
BY DEF ListsOrdered, IsFirst, IsLast

\* The list of slot r gets n as its last.
LEMMA Appended ==
  ASSUME TypeOK, Distinct, ListsOrdered, NEW n \in Node, NEW r \in Slot,
         AtRear(r) = InList(r), n \notin InList(r),
         InList(r)' = InList(r) \cup {n},
         \A s \in Slot \ {r} : InList(s)' = InList(s) /\ n \notin InList(s),
         \A l, m \in Asked \ {n} : Earlier(l, m)' <=> Earlier(l, m),
         \A m \in InList(r) : Earlier(m, n)' /\ ~ Earlier(n, m)',
         ~ Earlier(n, n)',
         \A p \in Node : next'[p] = IF InList(r) # {} /\ p = rear[r] THEN n
                                    ELSE IF p = n THEN NULL ELSE next[p],
         \A s \in Slot : Begin(s)' = IF s = r /\ InList(r) = {} THEN n ELSE Begin(s)
  PROVE  /\ \A s \in Slot : IsFirst(Begin(s), InList(s))'
         /\ \A s \in Slot : \A p \in InList(s)' :
              IsFirst(next[p], {m \in InList(s) : Earlier(p, m)})'
<1>1. /\ \A s : InList(s) \subseteq Asked
      /\ \A s, q, m : m \in InList(s) /\ m \in InList(q) => s = q
      /\ Asked \subseteq Node
  BY Lists, AgendaType
<1>2. \A s \in Slot \ {r} : IsFirst(Begin(s), InList(s))'
  <2> SUFFICES ASSUME NEW s \in Slot \ {r} PROVE IsFirst(Begin(s), InList(s))'
    OBVIOUS
  <2>1. IsFirst(Begin(s), InList(s)) /\ Begin(s)' = Begin(s) /\ InList(s)' = InList(s)
        /\ InList(s) \subseteq Asked \ {n}
    BY <1>1 DEF ListsOrdered
  <2> QED BY <2>1 DEF IsFirst
<1>3. IsFirst(Begin(r), InList(r))'
  <2>1. IsFirst(Begin(r), InList(r)) /\ InList(r) \subseteq Asked \ {n}
    BY <1>1 DEF ListsOrdered
  <2>2. CASE InList(r) = {}
    BY <2>2 DEF IsFirst
  <2>3. CASE InList(r) # {}
    <3>1. Begin(r)' = Begin(r) /\ Begin(r) \in InList(r)
      BY <2>1, <2>3 DEF IsFirst
    <3> QED BY <2>1, <2>3, <3>1 DEF IsFirst
  <2> QED BY <2>2, <2>3
<1>4. ASSUME NEW s \in Slot \ {r}, NEW p \in InList(s)
      PROVE  IsFirst(next[p], {m \in InList(s) : Earlier(p, m)})'
  <2>1. IsFirst(next[p], {m \in InList(s) : Earlier(p, m)})
        /\ InList(s)' = InList(s) /\ InList(s) \subseteq Asked \ {n} /\ p \in Asked \ {n}
    BY <1>1 DEF ListsOrdered
  <2>2. InList(r) # {} => rear[r] \in InList(r)
    BY DEF ListsOrdered, IsLast
  <2>3. next'[p] = next[p]
    BY <1>1, <2>1, <2>2
  <2>4. \A m \in InList(s) : Earlier(p, m)' <=> Earlier(p, m)
    BY <2>1
  <2>5. {m \in InList(s) : Earlier(p, m)}' = {m \in InList(s) : Earlier(p, m)}
    BY <2>1, <2>4
  <2>6. \A l, m \in InList(s) : Earlier(l, m)' <=> Earlier(l, m)
    BY <2>1
  <2> QED BY <2>1, <2>3, <2>5, <2>6 DEF IsFirst
<1>5. ASSUME NEW p \in InList(r) \cup {n}
      PROVE  IsFirst(next[p], {m \in InList(r) : Earlier(p, m)})'
  <2> DEFINE M == {m \in InList(r) : Earlier(p, m)}
  <2>1. InList(r) \subseteq Asked \ {n} /\ n \in Node
        /\ \A l, m \in InList(r) : Earlier(l, m)' <=> Earlier(l, m)
    BY <1>1
  <2>2. InList(r) # {} => /\ rear[r] \in InList(r)
                          /\ \A m \in InList(r) : m = rear[r] \/ Earlier(m, rear[r])
    BY DEF ListsOrdered, IsLast
  <2>3. CASE p = n
    <3>1. M' = {}
      BY <2>1, <2>3
    <3>2. next'[p] = NULL
      BY <2>1, <2>2, <2>3
    <3> QED BY <3>1, <3>2 DEF IsFirst
  <2>4. CASE InList(r) # {} /\ p = rear[r]
    <3>1. next'[p] = n /\ p \in Asked
      BY <1>1, <2>2, <2>4
    <3>2. \A m \in InList(r) : ~ Earlier(p, m)
      BY <1>1, <2>2, <2>4, Order
    <3>3. M' = {n}
      BY <2>1, <2>2, <2>4, <3>2
    <3> QED BY <3>1, <3>3 DEF IsFirst
  <2>5. CASE InList(r) # {} /\ p # rear[r] /\ p # n
    <3>1. p \in InList(r) /\ next'[p] = next[p] /\ rear[r] \in M
      BY <1>1, <2>2, <2>5
    <3>2. M' = M \cup {n}
      BY <2>1, <3>1
    <3>3. IsFirst(next[p], M)
      BY <3>1 DEF ListsOrdered
    <3>4. next[p] \in M /\ \A m \in M : m = next[p] \/ Earlier(next[p], m)
      BY <3>1, <3>3 DEF IsFirst
    <3>5. \A m \in M' : m = next[p] \/ \E h : h = next[p] /\ Earlier(h, m)'
      BY <2>1, <3>2, <3>4
    <3> QED BY <3>1, <3>2, <3>4, <3>5 DEF IsFirst
  <2> QED BY <2>3, <2>4, <2>5
<1>6. ASSUME NEW s \in Slot, NEW p \in InList(s)'
      PROVE  IsFirst(next[p], {m \in InList(s) : Earlier(p, m)})'
  <2>1. CASE s = r
    <3>1. p \in InList(r) \cup {n}
      BY <1>6, <2>1
    <3>2. IsFirst(next[p], {m \in InList(r) : Earlier(p, m)})'
      BY <1>5, <3>1
    <3> QED BY <2>1, <3>2
  <2>2. CASE s # r
    <3>1. p \in InList(s)
      BY <1>6, <2>2
    <3> QED BY <1>4, <2>2, <3>1
  <2> QED BY <2>1, <2>2
<1> QED BY <1>2, <1>3, <1>6

LEMMA OrderedCall ==
  ASSUME TInv, Ordered, NEW n \in Node, NEW d \in Interval, CallAddTimer(n, d)
  PROVE  Ordered'
<1>1. /\ TypeOK /\ Distinct /\ PointersLive /\ ListsOrdered /\ NodesListed
      /\ next \in [Node -> Node \cup {NULL}]
  BY DEF TInv, Sound, Ordered, TypeOK
<1>2. /\ heap' = heap \cup {n} /\ front' = front /\ rear' = rear /\ cnt' = cnt
      /\ new_node' = n /\ relative_tmv' = SlotOf(d) /\ failed' = failed
      /\ alarm = "idle" /\ alarm' = "idle" /\ add_pc = "idle" /\ add_pc' = "test"
      /\ \A p \in Node : next'[p] = IF p = n THEN NULL ELSE next[p]
      /\ n \notin Asked /\ Ask(n, d) /\ tmr_node' = tmr_node
  BY <1>1, Fresh DEF CallAddTimer, alarmVars, faultVars
<1>3. /\ Asked' = Asked \cup {n}
      /\ \A m, s : Due(m, s)' <=> Due(m, s) \/ (m = n /\ s = SlotOf(d))
      /\ \A l, m : Earlier(l, m)' <=> Earlier(l, m) \/ (l \in Asked /\ m = n)
      /\ (\A k \in DOMAIN agenda : agenda[k].left # 0)
           => \A k \in DOMAIN agenda' : agenda'[k].left # 0
  BY <1>1, <1>2, AgendaGrows
<1>4. \A s : /\ InList(s)' = InList(s) /\ AtRear(s)' = AtRear(s)
             /\ InList(s) \subseteq Asked /\ AtRear(s) \subseteq Asked
  BY <1>1, <1>2, <1>3, Slots DEF InList, AtRear, Unlinked
<1>5. \A s \in Slot : Begin(s)' = Begin(s)
  BY <1>2 DEF Begin, Active
<1>6. Asked \subseteq Node
  BY <1>1, AgendaType
<1>7. ListsOrdered'
  <2>1. \A l, m \in Asked : Earlier(l, m)' <=> Earlier(l, m)
    BY <1>2, <1>3
  <2>2. \A s \in Slot : IsFirst(Begin(s), InList(s))'
    BY <1>1, <1>4, <1>5, <2>1 DEF ListsOrdered, IsFirst
  <2>3. \A s \in Slot : IsLast(rear[s], AtRear(s))'
    BY <1>1, <1>2, <1>4, <2>1 DEF ListsOrdered, IsLast
  <2>4. ASSUME NEW s \in Slot, NEW p \in InList(s)'
        PROVE  IsFirst(next[p], {m \in InList(s) : Earlier(p, m)})'
    <3>1. p \in Asked /\ p \in InList(s) /\ next'[p] = next[p]
      BY <1>2, <1>4, <1>6, <2>4
    <3>2. {m \in InList(s) : Earlier(p, m)}' = {m \in InList(s) : Earlier(p, m)}
      BY <1>4, <2>1, <3>1
    <3>3. IsFirst(next[p], {m \in InList(s) : Earlier(p, m)})
      BY <1>1, <3>1 DEF ListsOrdered
    <3> QED BY <1>4, <2>1, <3>1, <3>2, <3>3 DEF IsFirst
  <2> QED BY <2>2, <2>3, <2>4 DEF ListsOrdered
<1>8. Adding'
  BY <1>2, <1>3 DEF Adding
<1>9. NodesListed'
  BY <1>1, <1>2, <1>3 DEF NodesListed, Active
<1>10. ~ failed' /\ alarm' = "idle" => \A k \in DOMAIN agenda' : agenda'[k].left # 0
  BY <1>2, <1>3 DEF Ordered
<1> QED BY <1>2, <1>7, <1>8, <1>9, <1>10 DEF Ordered

\* The steps of add_timer after the call: nothing is said yet of the lists.
LEMMA Linking ==
  ASSUME TInv, Ordered, add_pc # "idle", alarm' = "idle",
         agenda' = agenda, cnt' = cnt, heap' = heap, failed' = failed,
         relative_tmv' = relative_tmv, new_node' = new_node
  PROVE  /\ TypeOK /\ Distinct /\ ListsOrdered
         /\ alarm = "idle"
         /\ Due(new_node, relative_tmv) /\ new_node \in Asked /\ new_node \in Node
         /\ relative_tmv \in Slot
         /\ \A m \in Asked : m = new_node \/ Earlier(m, new_node)
         /\ \A m \in Asked : ~ Earlier(new_node, m)
         /\ Asked' = Asked
         /\ \A m, s : Due(m, s)' <=> Due(m, s)
         /\ \A l, m : Earlier(l, m)' <=> Earlier(l, m)
         /\ NodesListed'
         /\ \A s \in Slot : Begin(s) = front[s] /\ Begin(s)' = front'[s]
         /\ ~ failed' /\ alarm' = "idle" => \A k \in DOMAIN agenda' : agenda'[k].left # 0
<1>1. TypeOK /\ Distinct /\ ListsOrdered /\ Adding /\ NodesListed
  BY DEF TInv, Ordered
<1>2. /\ alarm = "idle" /\ Due(new_node, relative_tmv) /\ relative_tmv \in Slot
      /\ \A m \in Asked : m = new_node \/ Earlier(m, new_node)
  BY <1>1 DEF Adding, TypeOK
<1>3. new_node \in Asked /\ new_node \in Node
  BY <1>1, <1>2, Slots, AgendaType
<1>4. \A m \in Asked : ~ Earlier(new_node, m)
  BY <1>1, <1>2, <1>3, Order
<1>5. /\ Asked' = Asked
      /\ \A m, s : Due(m, s)' <=> Due(m, s)
      /\ \A l, m : Earlier(l, m)' <=> Earlier(l, m)
  BY AgendaSame
<1>6. NodesListed'
  BY <1>1, <1>2, <1>5 DEF NodesListed, Active
<1>7. \A s \in Slot : Begin(s) = front[s] /\ Begin(s)' = front'[s]
  BY <1>2 DEF Begin, Active
<1>8. ~ failed' /\ alarm' = "idle" => \A k \in DOMAIN agenda' : agenda'[k].left # 0
  BY <1>2 DEF Ordered
<1> QED BY <1>1, <1>2, <1>3, <1>4, <1>5, <1>6, <1>7, <1>8

LEMMA OrderedTest ==
  ASSUME TInv, Ordered, TestFront
  PROVE  Ordered'
<1>1. /\ add_pc = "test" /\ alarm' = "idle" /\ agenda' = agenda /\ cnt' = cnt
      /\ heap' = heap /\ failed' = failed /\ front' = front /\ rear' = rear /\ next' = next
      /\ relative_tmv' = relative_tmv /\ new_node' = new_node
      /\ add_pc' = IF front[relative_tmv] = NULL THEN "front" ELSE "rear->next"
  BY DEF TestFront, wheelVars, alarmVars, faultVars
<1>2. /\ TypeOK /\ Distinct /\ ListsOrdered /\ Adding
      /\ relative_tmv \in Slot /\ Asked' = Asked
      /\ \A m, s : Due(m, s)' <=> Due(m, s)
      /\ \A l, m : Earlier(l, m)' <=> Earlier(l, m)
      /\ NodesListed'
      /\ \A s \in Slot : Begin(s) = front[s] /\ Begin(s)' = front'[s]
      /\ ~ failed' /\ alarm' = "idle" => \A k \in DOMAIN agenda' : agenda'[k].left # 0
  BY <1>1, Linking DEF Ordered
<1>3. \A s : InList(s)' = InList(s) /\ AtRear(s)' = AtRear(s) /\ AtRear(s) = InList(s)
  BY <1>1, <1>2 DEF InList, AtRear, Unlinked
<1>4. ListsOrdered'
  BY <1>1, <1>2, <1>3, Kept
<1>5. front[relative_tmv] = NULL <=> InList(relative_tmv) = {}
  <2>1. IsFirst(front[relative_tmv], InList(relative_tmv))
    BY <1>2 DEF ListsOrdered
  <2>2. NULL \notin InList(relative_tmv)
    BY <1>2, Lists, AgendaType
  <2> QED BY <2>1, <2>2 DEF IsFirst
<1>6. Adding'
  BY <1>1, <1>2, <1>3, <1>5 DEF Adding
<1> QED BY <1>1, <1>2, <1>4, <1>6 DEF Ordered

LEMMA OrderedFront ==
  ASSUME TInv, Ordered, SetFront
  PROVE  Ordered'
<1>1. /\ add_pc = "front" /\ alarm' = "idle" /\ agenda' = agenda /\ cnt' = cnt
      /\ heap' = heap /\ failed' = failed /\ rear' = rear /\ next' = next
      /\ relative_tmv' = relative_tmv /\ new_node' = new_node
      /\ add_pc' = "rear = front"
  BY DEF SetFront, wheelVars, alarmVars, faultVars
<1>2. /\ TypeOK /\ Distinct /\ ListsOrdered /\ Adding
      /\ Due(new_node, relative_tmv) /\ new_node \in Asked /\ new_node \in Node
      /\ relative_tmv \in Slot
      /\ \A m \in Asked : ~ Earlier(new_node, m)
      /\ Asked' = Asked
      /\ \A m, s : Due(m, s)' <=> Due(m, s)
      /\ \A l, m : Earlier(l, m)' <=> Earlier(l, m)
      /\ NodesListed'
      /\ \A s \in Slot : Begin(s) = front[s] /\ Begin(s)' = front'[s]
      /\ ~ failed' /\ alarm' = "idle" => \A k \in DOMAIN agenda' : agenda'[k].left # 0
  BY <1>1, Linking DEF Ordered
<1>3. AtRear(relative_tmv) = {} /\ next[new_node] = NULL
  BY <1>1, <1>2 DEF Adding
<1>4. \A s \in Slot : front'[s] = IF s = relative_tmv THEN new_node ELSE front[s]
  BY <1>2 DEF SetFront, TypeOK
<1>5. \A s : AtRear(s)' = AtRear(s) /\ AtRear(s) = InList(s)
  BY <1>1, <1>2 DEF InList, AtRear, Unlinked
<1> PICK r \in Slot : r = relative_tmv
  BY <1>2
<1> PICK n \in Node : n = new_node
  BY <1>2
<1>6. /\ InList(r)' = {n} /\ InList(r) = {}
      /\ \A s \in Slot \ {r} : InList(s)' = InList(s)
      /\ \A s : n \notin InList(s)
  <2>1. \A s, m : m \in InList(s)' <=> Due(m, s)
    BY <1>1, <1>2, Slots DEF InList, Unlinked
  <2>2. \A s, m : m \in InList(s) <=> Due(m, s) /\ m # n
    BY <1>1, <1>2, Lists DEF Unlinked
  <2>3. \A s : Due(n, s) <=> s = r
    BY <1>2, Slots
  <2>4. InList(r)' = {n} /\ InList(r) = {}
    <3>1. InList(r) = {}
      BY <1>3, <1>5
    <3>2. \A m : m \in InList(r)' <=> m = n
      BY <2>1, <2>2, <2>3, <3>1
    <3> QED BY <3>1, <3>2
  <2>5. ASSUME NEW s \in Slot \ {r} PROVE InList(s)' = InList(s)
    <3>1. \A m : m \in InList(s)' <=> m \in InList(s)
      BY <2>1, <2>2, <2>3
    <3> QED BY <3>1
  <2> QED BY <2>2, <2>4, <2>5
<1>7. ListsOrdered'
  <2>1. \A p \in Node : next'[p] = IF InList(r) # {} /\ p = rear[r] THEN n
                                   ELSE IF p = n THEN NULL ELSE next[p]
    BY <1>1, <1>3, <1>6
  <2>2. \A s \in Slot : Begin(s)' = IF s = r /\ InList(r) = {} THEN n ELSE Begin(s)
    BY <1>2, <1>4, <1>6
  <2>3. \A m \in Asked : ~ Earlier(n, m)'
    BY <1>2
  <2>4. /\ \A s \in Slot : IsFirst(Begin(s), InList(s))'
        /\ \A s \in Slot : \A p \in InList(s)' :
             IsFirst(next[p], {m \in InList(s) : Earlier(p, m)})'
    <3>1. /\ AtRear(r) = InList(r) /\ InList(r)' = InList(r) \cup {n}
          /\ \A s \in Slot \ {r} : InList(s)' = InList(s) /\ n \notin InList(s)
          /\ \A m \in InList(r) : Earlier(m, n)' /\ ~ Earlier(n, m)'
          /\ ~ Earlier(n, n)' /\ n \notin InList(r)
          /\ \A l, m \in Asked \ {n} : Earlier(l, m)' <=> Earlier(l, m)
      BY <1>2, <1>5, <1>6, <2>3
    <3> QED BY <1>2, <2>1, <2>2, <3>1, Appended
  <2>5. \A s \in Slot : IsLast(rear[s], AtRear(s))'
    BY <1>1, <1>2, <1>5 DEF ListsOrdered, IsLast
  <2> QED BY <2>4, <2>5 DEF ListsOrdered
<1>8. Adding'
  BY <1>1, <1>2, <1>3, <1>5 DEF Adding
<1> QED BY <1>1, <1>2, <1>7, <1>8 DEF Ordered

\* main links or has linked new_node behind the others of its slot.
LEMMA OrderedRearFront ==
  ASSUME TInv, Ordered, SetRearToFront \/ SetRear
  PROVE  Ordered'
<1>1. /\ add_pc \in {"rear = front", "rear"} /\ add_pc' = "idle" /\ alarm' = "idle"
      /\ agenda' = agenda /\ cnt' = cnt
      /\ heap' = heap /\ failed' = failed /\ front' = front /\ next' = next
      /\ relative_tmv' = relative_tmv /\ new_node' = new_node
  BY DEF SetRearToFront, SetRear, wheelVars, alarmVars, faultVars
<1>2. /\ TypeOK /\ Distinct /\ ListsOrdered /\ Adding
      /\ Due(new_node, relative_tmv) /\ new_node \in Asked /\ new_node \in Node
      /\ relative_tmv \in Slot
      /\ \A m \in Asked : m = new_node \/ Earlier(m, new_node)
      /\ Asked' = Asked
      /\ \A m, s : Due(m, s)' <=> Due(m, s)
      /\ \A l, m : Earlier(l, m)' <=> Earlier(l, m)
      /\ NodesListed'
      /\ \A s \in Slot : Begin(s) = front[s] /\ Begin(s)' = front'[s]
      /\ ~ failed' /\ alarm' = "idle" => \A k \in DOMAIN agenda' : agenda'[k].left # 0
  BY <1>1, Linking DEF Ordered
<1> PICK r \in Slot : r = relative_tmv
  BY <1>2
<1>3. /\ \A s : InList(s)' = InList(s) /\ AtRear(s)' = InList(s)
      /\ InList(r) = AtRear(r) \cup {new_node}
      /\ \A s \in Slot \ {r} : InList(s) = AtRear(s)
      /\ \A s : InList(s) \subseteq Asked
  <2>1. \A s, m : m \in InList(s)' <=> Due(m, s)
    BY <1>1, <1>2, Slots DEF InList, Unlinked
  <2>2. \A s, m : m \in AtRear(s)' <=> Due(m, s)
    BY <1>1, <1>2, Slots DEF AtRear
  <2>3. \A s, m : /\ m \in InList(s) <=> Due(m, s)
                  /\ m \in AtRear(s) <=> Due(m, s) /\ m # new_node
    BY <1>1, <1>2, Lists DEF Unlinked
  <2>4. \A s : Due(new_node, s) <=> s = r
    BY <1>2, Slots
  <2>5. \A s : InList(s)' = InList(s) /\ AtRear(s)' = InList(s)
    BY <2>1, <2>2, <2>3
  <2>6. InList(r) = AtRear(r) \cup {new_node}
    BY <2>3, <2>4
  <2>7. \A s \in Slot \ {r} : InList(s) = AtRear(s)
    BY <2>3, <2>4
  <2> QED BY <1>2, <2>5, <2>6, <2>7, Lists
<1>4. rear'[relative_tmv] = new_node
      /\ \A s \in Slot \ {relative_tmv} : rear'[s] = rear[s]
  <2>1. rear \in [Slot -> Node \cup {NULL}]
    BY <1>2 DEF TypeOK
  <2>2. CASE SetRear
    BY <1>2, <2>1, <2>2 DEF SetRear
  <2>3. CASE SetRearToFront
    <3>1. add_pc = "rear = front" /\ rear' = [rear EXCEPT ![relative_tmv] = front[relative_tmv]]
      BY <2>3 DEF SetRearToFront
    <3>2. InList(relative_tmv) = {new_node}
      BY <1>2, <1>3, <3>1 DEF Adding
    <3>3. IsFirst(front[relative_tmv], InList(relative_tmv))
      BY <1>2 DEF ListsOrdered
    <3>4. front[relative_tmv] = new_node
      BY <3>2, <3>3 DEF IsFirst
    <3> QED BY <1>2, <2>1, <3>1, <3>4
  <2> QED BY <2>2, <2>3
<1>5. ListsOrdered'
  <2>1. /\ \A s \in Slot : IsFirst(Begin(s), InList(s))'
        /\ \A s \in Slot : \A p \in InList(s)' :
             IsFirst(next[p], {m \in InList(s) : Earlier(p, m)})'
    BY <1>1, <1>2, <1>3, KeptFirst
  <2>2. \A s \in Slot : IsLast(rear[s], AtRear(s))'
    <3> SUFFICES ASSUME NEW s \in Slot PROVE IsLast(rear[s], AtRear(s))'
      OBVIOUS
    <3>1. CASE s = relative_tmv
      <4>1. AtRear(s)' = InList(s) /\ new_node \in InList(s) /\ InList(s) \subseteq Asked
        BY <1>3, <3>1
      <4>2. \A m \in InList(s) : m = new_node \/ Earlier(m, new_node)'
        BY <1>1, <1>2, <4>1
      <4> QED BY <1>1, <1>4, <3>1, <4>1, <4>2 DEF IsLast
    <3>2. CASE s # relative_tmv
      <4>1. AtRear(s)' = AtRear(s) /\ rear'[s] = rear[s] /\ IsLast(rear[s], AtRear(s))
        BY <1>2, <1>3, <1>4, <3>2 DEF ListsOrdered
      <4> QED BY <1>2, <4>1 DEF IsLast
    <3> QED BY <3>1, <3>2
  <2> QED BY <2>1, <2>2 DEF ListsOrdered
<1>6. Adding'
  BY <1>1 DEF Adding
<1> QED BY <1>1, <1>2, <1>5, <1>6 DEF Ordered

LEMMA OrderedLinkRear ==
  ASSUME TInv, Ordered, LinkRear
  PROVE  Ordered'
<1>1. /\ add_pc = "rear->next" /\ agenda' = agenda /\ cnt' = cnt /\ alarm = "idle"
      /\ heap' = heap /\ failed' = failed /\ rear' = rear /\ front' = front
      /\ relative_tmv' = relative_tmv /\ new_node' = new_node
  BY DEF LinkRear, faultVars
<1>2. /\ ListsOrdered /\ Adding /\ relative_tmv \in Slot /\ TypeOK /\ Distinct
      /\ next \in [Node -> Node \cup {NULL}]
  BY DEF TInv, TypeOK, Ordered
<1>3. /\ AtRear(relative_tmv) # {} /\ next[new_node] = NULL
      /\ \A s : InList(s) = AtRear(s)
  BY <1>1, <1>2 DEF Adding, InList, AtRear, Unlinked
<1>4. rear[relative_tmv] \in AtRear(relative_tmv)
  BY <1>2, <1>3 DEF ListsOrdered, IsLast
<1>5. rear[relative_tmv] \in Node /\ rear[relative_tmv] # NULL /\ rear[relative_tmv] # new_node
      /\ AtRear(relative_tmv) \subseteq Asked
  <2>1. AtRear(relative_tmv) \subseteq Asked /\ new_node \notin AtRear(relative_tmv)
    BY <1>1 DEF AtRear
  <2> QED BY <1>2, <1>4, <2>1, AgendaType
<1>6. /\ alarm' = "idle" /\ add_pc' = "rear"
      /\ \A p \in Node : next'[p] = IF p = rear[relative_tmv] THEN new_node ELSE next[p]
  BY <1>1, <1>2, <1>5 DEF LinkRear
<1>7. /\ Due(new_node, relative_tmv) /\ new_node \in Asked /\ new_node \in Node
      /\ \A m \in Asked : m = new_node \/ Earlier(m, new_node)
      /\ \A m \in Asked : ~ Earlier(new_node, m)
      /\ Asked' = Asked
      /\ \A m, s : Due(m, s)' <=> Due(m, s)
      /\ \A l, m : Earlier(l, m)' <=> Earlier(l, m)
      /\ NodesListed'
      /\ \A s \in Slot : Begin(s) = front[s] /\ Begin(s)' = front'[s]
      /\ ~ failed' /\ alarm' = "idle" => \A k \in DOMAIN agenda' : agenda'[k].left # 0
  BY <1>1, <1>6, Linking DEF Ordered
<1>8. \A s : AtRear(s)' = AtRear(s)
  BY <1>1, <1>6, <1>7 DEF AtRear
<1> PICK r \in Slot : r = relative_tmv
  BY <1>2
<1> PICK n \in Node : n = new_node
  BY <1>7
<1>9. /\ InList(r)' = InList(r) \cup {n}
      /\ \A s \in Slot \ {r} : InList(s)' = InList(s)
      /\ \A s : n \notin InList(s)
  <2>1. \A s, m : m \in InList(s)' <=> Due(m, s)
    BY <1>2, <1>6, <1>7, Slots DEF InList, Unlinked
  <2>2. \A s, m : m \in InList(s) <=> Due(m, s) /\ m # n
    BY <1>1, <1>2, Lists DEF Unlinked
  <2>3. \A s : Due(n, s) <=> s = r
    BY <1>2, <1>7, Slots
  <2>4. InList(r)' = InList(r) \cup {n}
    <3>1. \A m : m \in InList(r)' <=> m \in InList(r) \/ m = n
      BY <2>1, <2>2, <2>3
    <3> QED BY <3>1
  <2>5. ASSUME NEW s \in Slot \ {r} PROVE InList(s)' = InList(s)
    <3>1. \A m : m \in InList(s)' <=> m \in InList(s)
      BY <2>1, <2>2, <2>3
    <3> QED BY <3>1
  <2> QED BY <2>2, <2>4, <2>5
<1>10. ListsOrdered'
  <2>1. \A p \in Node : next'[p] = IF InList(r) # {} /\ p = rear[r] THEN n
                                   ELSE IF p = n THEN NULL ELSE next[p]
    BY <1>3, <1>6
  <2>2. \A s \in Slot : Begin(s)' = IF s = r /\ InList(r) = {} THEN n ELSE Begin(s)
    BY <1>1, <1>3, <1>7
  <2>3. /\ AtRear(r) = InList(r)
        /\ \A s \in Slot \ {r} : InList(s)' = InList(s) /\ n \notin InList(s)
        /\ \A m \in InList(r) : Earlier(m, n)' /\ ~ Earlier(n, m)'
        /\ ~ Earlier(n, n)' /\ n \notin InList(r)
        /\ \A l, m \in Asked \ {n} : Earlier(l, m)' <=> Earlier(l, m)
    BY <1>3, <1>5, <1>7, <1>9
  <2>4. /\ \A s \in Slot : IsFirst(Begin(s), InList(s))'
        /\ \A s \in Slot : \A p \in InList(s)' :
             IsFirst(next[p], {m \in InList(s) : Earlier(p, m)})'
    BY <1>2, <1>9, <2>1, <2>2, <2>3, Appended
  <2>5. \A s \in Slot : IsLast(rear[s], AtRear(s))'
    BY <1>1, <1>2, <1>7, <1>8 DEF ListsOrdered, IsLast
  <2> QED BY <2>4, <2>5 DEF ListsOrdered
<1>11. Adding'
  <2>1. next'[new_node'] = NULL
    BY <1>1, <1>3, <1>5, <1>6, <1>7
  <2>2. AtRear(relative_tmv)' # {}
    BY <1>1, <1>3, <1>8
  <2>3. Due(new_node, relative_tmv)' /\ \A m \in Asked' : m = new_node' \/ Earlier(m, new_node)'
    BY <1>1, <1>7
  <2> QED BY <1>6, <2>1, <2>2, <2>3 DEF Adding
<1> QED BY <1>6, <1>7, <1>10, <1>11 DEF Ordered

LEMMA OrderedAlarm ==
  ASSUME TInv, Ordered, SigAlarm, ~ interrupted'
  PROVE  Ordered'
<1>1. /\ alarm = "idle" /\ add_pc = "idle" /\ add_pc' = "idle" /\ failed' = failed
      /\ front' = front /\ rear' = rear /\ next' = next /\ heap' = heap
      /\ \/ front[cnt'] = NULL /\ alarm' = "idle"
         \/ front[cnt'] # NULL /\ alarm' = "call" /\ tmr_node' = front[cnt']
  BY DEF SigAlarm, wheelVars, addVars
<1>2. TypeOK /\ Distinct /\ ListsOrdered /\ NodesListed /\ PointersLive
  BY DEF TInv, Ordered, Sound
<1>3. /\ Asked' = Asked /\ cnt' \in Slot
      /\ \A n, s : Due(n, s)' <=> Due(n, s)
      /\ \A m, n : Earlier(m, n)' <=> Earlier(m, n)
      /\ \A k \in DOMAIN agenda' : agenda'[k].left = 0 => Due(agenda'[k].timer, cnt')
  <2>1. Turns
    BY DEF SigAlarm, Turns
  <2> QED BY <1>2, <2>1, AgendaTurns
<1>4. \A s : InList(s)' = InList(s) /\ AtRear(s)' = AtRear(s)
  BY <1>1, <1>3 DEF InList, AtRear, Unlinked
<1>5. \A s \in Slot : Begin(s)' = Begin(s)
  BY <1>1 DEF Begin, Active
<1>6. ListsOrdered'
  BY <1>1, <1>2, <1>3, <1>4, <1>5, Kept
<1>7. Adding'
  BY <1>1 DEF Adding
<1>8. NodesListed'
  BY <1>1, <1>2, <1>3 DEF NodesListed, PointersLive, Active
<1>9. ~ failed' /\ alarm' = "idle" => \A k \in DOMAIN agenda' : agenda'[k].left # 0
  <2> SUFFICES ASSUME alarm' = "idle", NEW k \in DOMAIN agenda', agenda'[k].left = 0
               PROVE  FALSE
    OBVIOUS
  <2>1. agenda'[k].timer \in InList(cnt')
    BY <1>1, <1>2, <1>3, Lists DEF Unlinked
  <2>2. IsFirst(front[cnt'], InList(cnt'))
    BY <1>1, <1>2, <1>3 DEF ListsOrdered, Begin, Active
  <2>3. NULL \notin InList(cnt')
    BY <1>2, Lists, AgendaType
  <2> QED BY <1>1, <2>1, <2>2, <2>3 DEF IsFirst
<1> QED BY <1>1, <1>6, <1>7, <1>8, <1>9 DEF Ordered

\* main is not in add_timer while proc_timer runs.
LEMMA NotAdding ==
  ASSUME TInv, Ordered, alarm # "idle"
  PROVE  /\ add_pc = "idle" /\ TypeOK /\ Distinct /\ ListsOrdered /\ NodesListed
         /\ \A s : InList(s) = AtRear(s)
         /\ \A s, m : m \in InList(s) <=> Due(m, s)
BY Slots DEF TInv, Ordered, Adding, InList, AtRear, Unlinked

LEMMA OrderedAdds ==
  ASSUME TInv, Ordered, NEW n \in Node, NEW d \in Interval, HandlerAdds(n, d)
  PROVE  Ordered'
<1>1. /\ alarm = "call" /\ heap' = heap \cup {n} /\ cnt' = cnt /\ tmr_node' = tmr_node
      /\ add_pc' = add_pc /\ new_node' = new_node /\ Ask(n, d)
  BY DEF HandlerAdds, addVars
<1>2. /\ add_pc = "idle" /\ TypeOK /\ Distinct /\ ListsOrdered /\ NodesListed
      /\ \A s : InList(s) = AtRear(s)
      /\ \A s, m : m \in InList(s) <=> Due(m, s)
      /\ PointersLive
  BY <1>1, NotAdding DEF TInv, Sound
<1>3. /\ n # NULL /\ n \notin heap /\ n \notin Asked
  BY <1>2, Fresh DEF HandlerAdds
<1> PICK r : r = SlotOf(d)
  OBVIOUS
<1>4. /\ Asked' = Asked \cup {n} /\ r \in Slot /\ r # cnt
      /\ \A m, s : Due(m, s)' <=> Due(m, s) \/ (m = n /\ s = r)
      /\ \A l, m : Earlier(l, m)' <=> Earlier(l, m) \/ (l \in Asked /\ m = n)
  BY <1>1, <1>2, <1>3, AgendaGrows
<1>5. \A l, m : Earlier(l, m) => l \in Asked /\ m \in Asked
  BY <1>2, Order
<1>6. /\ \A q \in Slot : front'[q] = IF q = r /\ front[r] = NULL THEN n ELSE front[q]
      /\ \A p \in Node : next'[p] = IF front[r] # NULL /\ p = rear[r] THEN n
                                    ELSE IF p = n THEN NULL ELSE next[p]
      /\ alarm' = IF front[r] # NULL /\ rear[r] = NULL THEN "crashed" ELSE "added"
      /\ alarm' = "added" => \A q \in Slot : rear'[q] = IF q = r THEN n ELSE rear[q]
  BY <1>2, <1>4, Added
<1>7. /\ front[r] = NULL <=> InList(r) = {}
      /\ InList(r) # {} => /\ rear[r] \in InList(r)
                           /\ \A m \in InList(r) : m = rear[r] \/ Earlier(m, rear[r])
      /\ \A s : InList(s) \subseteq Asked
      /\ NULL \notin Asked /\ Asked \subseteq Node
  <2>1. IsFirst(front[r], InList(r)) /\ IsLast(rear[r], AtRear(r))
    BY <1>2, <1>4 DEF ListsOrdered, Begin
  <2>2. NULL \notin Asked /\ Asked \subseteq Node /\ \A s : InList(s) \subseteq Asked
    BY <1>2, Lists, AgendaType
  <2> QED BY <1>2, <2>1, <2>2 DEF IsFirst, IsLast
<1>8. alarm' = "added" /\ \A q \in Slot : rear'[q] = IF q = r THEN n ELSE rear[q]
  BY <1>6, <1>7
<1>9. \A s, m : /\ m \in InList(s)' <=> Due(m, s) \/ (m = n /\ s = r)
                /\ m \in AtRear(s)' <=> Due(m, s) \/ (m = n /\ s = r)
  BY <1>1, <1>2, <1>4, Slots DEF InList, AtRear, Unlinked
<1>10. /\ InList(r)' = InList(r) \cup {n}
       /\ \A s \in Slot \ {r} : InList(s)' = InList(s) /\ n \notin InList(s)
       /\ \A s : AtRear(s)' = InList(s)'
       /\ n \notin InList(r)
  <2>1. InList(r)' = InList(r) \cup {n}
    <3>1. \A m : m \in InList(r)' <=> m \in InList(r) \/ m = n
      BY <1>2, <1>9
    <3> QED BY <3>1
  <2>2. ASSUME NEW s \in Slot \ {r} PROVE InList(s)' = InList(s) /\ n \notin InList(s)
    <3>1. \A m : m \in InList(s)' <=> m \in InList(s)
      BY <1>2, <1>9
    <3> QED BY <1>3, <1>7, <3>1
  <2>3. ASSUME NEW s PROVE AtRear(s)' = InList(s)'
    <3>1. \A m : m \in AtRear(s)' <=> m \in InList(s)'
      BY <1>9
    <3> QED BY <3>1
  <2> QED BY <1>3, <1>7, <2>1, <2>2, <2>3
<1>11. \A s \in Slot : Begin(s)' = IF s = r /\ InList(r) = {} THEN n ELSE Begin(s)
  <2> SUFFICES ASSUME NEW s \in Slot
               PROVE  Begin(s)' = IF s = r /\ InList(r) = {} THEN n ELSE Begin(s)
    OBVIOUS
  <2>1. CASE s = cnt
    BY <1>1, <1>4, <1>8, <2>1 DEF Begin, Active
  <2>2. CASE s # cnt
    BY <1>1, <1>4, <1>6, <1>7, <1>8, <2>2 DEF Begin
  <2> QED BY <2>1, <2>2
<1>12. ListsOrdered'
  <2>1. \A p \in Node : next'[p] = IF InList(r) # {} /\ p = rear[r] THEN n
                                   ELSE IF p = n THEN NULL ELSE next[p]
    BY <1>6, <1>7
  <2>2. /\ AtRear(r) = InList(r)
        /\ \A m \in InList(r) : Earlier(m, n)' /\ ~ Earlier(n, m)'
        /\ ~ Earlier(n, n)'
        /\ \A l, m \in Asked \ {n} : Earlier(l, m)' <=> Earlier(l, m)
    BY <1>2, <1>3, <1>4, <1>5, <1>7
  <2>3. /\ \A s \in Slot : IsFirst(Begin(s), InList(s))'
        /\ \A s \in Slot : \A p \in InList(s)' :
             IsFirst(next[p], {m \in InList(s) : Earlier(p, m)})'
    <3>1. TypeOK /\ Distinct /\ ListsOrdered /\ r \in Slot
      BY <1>2, <1>4
    <3>2. /\ AtRear(r) = InList(r) /\ n \notin InList(r)
          /\ InList(r)' = InList(r) \cup {n}
          /\ \A s \in Slot \ {r} : InList(s)' = InList(s) /\ n \notin InList(s)
      BY <1>10, <2>2
    <3> QED BY <1>11, <2>1, <2>2, <3>1, <3>2, Appended
  <2>4. \A s \in Slot : IsLast(rear[s], AtRear(s))'
    <3> SUFFICES ASSUME NEW s \in Slot PROVE IsLast(rear[s], AtRear(s))'
      OBVIOUS
    <3>1. CASE s = r
      <4>1. rear'[s] = n /\ AtRear(s)' = InList(r) \cup {n}
        BY <1>8, <1>10, <3>1
      <4> QED BY <2>2, <4>1 DEF IsLast
    <3>2. CASE s # r
      <4>1. rear'[s] = rear[s] /\ AtRear(s)' = AtRear(s) /\ IsLast(rear[s], AtRear(s))
            /\ AtRear(s) \subseteq Asked \ {n}
        BY <1>2, <1>3, <1>7, <1>8, <1>10, <3>2 DEF ListsOrdered
      <4> QED BY <2>2, <4>1 DEF IsLast
    <3> QED BY <3>1, <3>2
  <2> QED BY <2>3, <2>4 DEF ListsOrdered
<1>13. Adding'
  BY <1>1, <1>2 DEF Adding
<1>14. NodesListed'
  <2>1. front'[cnt] = front[cnt] /\ cnt \in Slot
    BY <1>2, <1>4, <1>6 DEF TypeOK
  <2>2. heap = Asked \cup {front[cnt]}
    BY <1>1, <1>2 DEF NodesListed, Active
  <2>3. front[cnt] = tmr_node \/ (next[front[cnt]] = tmr_node /\ front[cnt] \notin Asked)
    BY <1>1, <1>2, Here DEF NodesListed, Active
  <2>4. ASSUME front[cnt] # tmr_node PROVE next'[front[cnt]] = tmr_node
    <3>1. front[cnt] \in heap /\ heap \subseteq Node
      BY <1>1, <1>2, Here DEF Active, TypeOK
    <3>2. front[r] # NULL => front[cnt] # rear[r]
      BY <1>7, <2>3, <2>4
    <3> QED BY <1>3, <1>6, <2>3, <2>4, <3>1, <3>2
  <2> QED BY <1>1, <1>4, <1>8, <2>1, <2>2, <2>4 DEF NodesListed, Active
<1> QED BY <1>8, <1>12, <1>13, <1>14 DEF Ordered

\* The lists when tmr_node has run: all but its own as before.
LEMMA Removed ==
  ASSUME TInv, Ordered, alarm \in Active, add_pc' = "idle", cnt' = cnt, Leave(tmr_node)
  PROVE  /\ Asked' = Asked \ {tmr_node}
         /\ InList(cnt)' = InList(cnt) \ {tmr_node} /\ AtRear(cnt)' = InList(cnt) \ {tmr_node}
         /\ \A s \in Slot \ {cnt} : InList(s)' = InList(s) /\ AtRear(s)' = InList(s)
         /\ \A s \in Slot \ {cnt} : tmr_node \notin InList(s)
         /\ \A l, m : Earlier(l, m)' <=> Earlier(l, m) /\ l # tmr_node /\ m # tmr_node
         /\ tmr_node \in InList(cnt)
         /\ \A m \in InList(cnt) : m = tmr_node \/ Earlier(tmr_node, m)
         /\ \A m \in InList(cnt) : ~ Earlier(m, tmr_node)
         /\ \A k \in DOMAIN agenda' : agenda'[k].left = 0 =>
              agenda'[k].timer \in InList(cnt) \ {tmr_node}
<1>1. /\ add_pc = "idle" /\ TypeOK /\ Distinct /\ ListsOrdered
      /\ \A s : InList(s) = AtRear(s)
      /\ \A s, m : m \in InList(s) <=> Due(m, s)
  BY NotAdding DEF Active
<1>2. tmr_node \in Asked /\ tmr_node # NULL /\ cnt \in Slot
  BY Here
<1>3. /\ Asked' = Asked \ {tmr_node}
      /\ \A m, s : Due(m, s)' <=> Due(m, s) /\ m # tmr_node
      /\ \A l, m : Earlier(l, m)' <=> Earlier(l, m) /\ l # tmr_node /\ m # tmr_node
      /\ \A k \in DOMAIN agenda' : agenda'[k].left = 0 =>
           Due(agenda'[k].timer, cnt) /\ agenda'[k].timer # tmr_node
  BY <1>1, <1>2, AgendaShrinks
<1>4. /\ tmr_node \in InList(cnt)
      /\ \A m \in InList(cnt) : m = tmr_node \/ Earlier(tmr_node, m)
  <2>1. IsFirst(tmr_node, InList(cnt))
    BY <1>1, <1>2 DEF ListsOrdered, Begin
  <2> QED BY <1>2, <2>1 DEF IsFirst
<1>5. \A m \in InList(cnt) : ~ Earlier(m, tmr_node)
  BY <1>1, <1>2, <1>4, Order, Lists
<1>6. \A s \in Slot \ {cnt} : tmr_node \notin InList(s)
  BY <1>1, <1>4, Lists
<1>7. \A s, m : /\ m \in InList(s)' <=> m \in InList(s) /\ m # tmr_node
                /\ m \in AtRear(s)' <=> m \in InList(s) /\ m # tmr_node
  BY <1>1, <1>3, Slots DEF InList, AtRear, Unlinked
<1>8. ASSUME NEW s \in Slot \ {cnt} PROVE InList(s)' = InList(s) /\ AtRear(s)' = InList(s)
  <2>1. \A m : /\ m \in InList(s)' <=> m \in InList(s)
               /\ m \in AtRear(s)' <=> m \in InList(s)
    BY <1>6, <1>7
  <2> QED BY <2>1
<1>9. ASSUME NEW s, s = cnt
      PROVE  InList(s)' = InList(s) \ {tmr_node} /\ AtRear(s)' = InList(s) \ {tmr_node}
  BY <1>7
<1> QED BY <1>1, <1>3, <1>4, <1>5, <1>6, <1>8, <1>9

LEMMA OrderedNext ==
  ASSUME TInv, Ordered, NextTimer
  PROVE  Ordered'
<1>1. /\ alarm \in Active /\ alarm' = "call" /\ cnt' = cnt /\ next' = next
      /\ rear' = rear /\ add_pc' = add_pc
      /\ next[tmr_node] # NULL /\ tmr_node' = next[tmr_node] /\ Leave(tmr_node)
      /\ heap' = IF front[cnt] = tmr_node THEN heap ELSE heap \ {front[cnt]}
      /\ \A s \in Slot : front'[s] = IF s = cnt THEN tmr_node ELSE front[s]
  BY DEF NextTimer, FreePassed, addVars, Active, TInv, TypeOK
<1>2. /\ add_pc = "idle" /\ TypeOK /\ Distinct /\ ListsOrdered /\ NodesListed
      /\ \A s : InList(s) = AtRear(s)
  BY <1>1, NotAdding DEF Active
<1>3. /\ tmr_node \in Asked /\ cnt \in Slot
      /\ front[cnt] = tmr_node \/ front[cnt] \notin Asked
  BY <1>1, Here
<1> PICK c \in Slot : c = cnt
  BY <1>3
<1> PICK t : t = tmr_node
  OBVIOUS
<1>4. /\ Asked' = Asked \ {t}
      /\ InList(c)' = InList(c) \ {t} /\ AtRear(c)' = InList(c) \ {t}
      /\ \A s \in Slot \ {c} : InList(s)' = InList(s) /\ AtRear(s)' = InList(s)
      /\ \A s \in Slot \ {c} : t \notin InList(s)
      /\ \A l, m : Earlier(l, m)' <=> Earlier(l, m) /\ l # t /\ m # t
      /\ t \in InList(c)
      /\ \A m \in InList(c) : m = t \/ Earlier(t, m)
      /\ \A m \in InList(c) : ~ Earlier(m, t)
  BY <1>1, <1>2, Removed
<1>5. /\ next[t] \in InList(c) \ {t}
      /\ \A m \in InList(c) \ {t} : m = next[t] \/ Earlier(next[t], m)
  <2>1. IsFirst(next[t], {m \in InList(c) : Earlier(t, m)})
    BY <1>2, <1>4 DEF ListsOrdered
  <2>2. {m \in InList(c) : Earlier(t, m)} = InList(c) \ {t}
    BY <1>4
  <2> QED BY <1>1, <2>1, <2>2 DEF IsFirst
<1>6. ListsOrdered'
  <2>1. ASSUME NEW s \in Slot PROVE IsFirst(Begin(s), InList(s))'
    <3>1. CASE s = c
      <4>1. Begin(s)' = next[t]
        BY <1>1, <3>1 DEF Begin, Active
      <4>2. \A m \in InList(s)' : m = next[t] \/ \E h : h = next[t] /\ Earlier(h, m)'
        BY <1>4, <1>5, <3>1
      <4>3. next[t] \in InList(s)'
        BY <1>4, <1>5, <3>1
      <4> QED BY <4>1, <4>2, <4>3 DEF IsFirst
    <3>2. CASE s # c
      <4>1. Begin(s)' = Begin(s) /\ IsFirst(Begin(s), InList(s)) /\ InList(s)' = InList(s)
            /\ t \notin InList(s)
        BY <1>1, <1>2, <1>4, <3>2 DEF Begin, ListsOrdered
      <4> QED BY <1>4, <4>1 DEF IsFirst
    <3> QED BY <3>1, <3>2
  <2>2. ASSUME NEW s \in Slot, NEW p \in InList(s)'
        PROVE  IsFirst(next[p], {m \in InList(s) : Earlier(p, m)})'
    <3>1. p \in InList(s) /\ p # t /\ IsFirst(next[p], {m \in InList(s) : Earlier(p, m)})
      <4>1. p \in InList(s) /\ p # t
        BY <1>4, <2>2
      <4> QED BY <1>2, <4>1 DEF ListsOrdered
    <3>2. {m \in InList(s) : Earlier(p, m)}' = {m \in InList(s) : Earlier(p, m)}
          /\ \A m \in InList(s) : Earlier(p, m) => m # t
      BY <1>4, <3>1
    <3> QED BY <1>1, <1>4, <3>1, <3>2 DEF IsFirst
  <2>3. ASSUME NEW s \in Slot PROVE IsLast(rear[s], AtRear(s))'
    <3>1. IsLast(rear[s], InList(s))
      BY <1>2 DEF ListsOrdered
    <3>2. CASE s = c
      <4>1. rear[s] # t
        BY <1>4, <1>5, <3>1, <3>2 DEF IsLast
      <4>2. AtRear(s)' = InList(s) \ {t}
        BY <1>4, <3>2
      <4> QED BY <1>1, <1>4, <1>5, <3>1, <3>2, <4>1, <4>2 DEF IsLast
    <3>3. CASE s # c
      <4>1. AtRear(s)' = InList(s) /\ t \notin InList(s)
        BY <1>4, <3>3
      <4> QED BY <1>1, <1>4, <3>1, <4>1 DEF IsLast
    <3> QED BY <3>2, <3>3
  <2> QED BY <2>1, <2>2, <2>3 DEF ListsOrdered
<1>7. Adding'
  BY <1>1, <1>2 DEF Adding
<1>8. NodesListed'
  <2>1. heap = Asked \cup {front[cnt]}
    BY <1>1, <1>2 DEF NodesListed
  <2>2. front'[cnt'] = tmr_node /\ next'[tmr_node] = tmr_node'
    BY <1>1, <1>3
  <2>3. heap' = Asked
    BY <1>1, <1>3, <2>1
  <2> QED BY <1>1, <1>3, <1>4, <2>2, <2>3 DEF NodesListed, Active
<1> QED BY <1>1, <1>6, <1>7, <1>8 DEF Ordered

LEMMA OrderedLast ==
  ASSUME TInv, Ordered, LastTimer
  PROVE  Ordered'
<1>1. /\ alarm \in Active /\ alarm' = "idle" /\ cnt' = cnt /\ next' = next
      /\ add_pc' = add_pc
      /\ next[tmr_node] = NULL /\ Leave(tmr_node)
      /\ heap' = heap \ {front[cnt], tmr_node}
      /\ \A s \in Slot : front'[s] = IF s = cnt THEN NULL ELSE front[s]
      /\ \A s \in Slot : rear'[s] = IF s = cnt THEN NULL ELSE rear[s]
  BY DEF LastTimer, addVars, Active, TInv, TypeOK
<1>2. /\ add_pc = "idle" /\ TypeOK /\ Distinct /\ ListsOrdered /\ NodesListed
      /\ \A s : InList(s) = AtRear(s)
  BY <1>1, NotAdding DEF Active
<1>3. /\ tmr_node \in Asked /\ cnt \in Slot /\ NULL \notin Asked
      /\ front[cnt] = tmr_node \/ front[cnt] \notin Asked
  BY <1>1, <1>2, Here, AgendaType
<1> PICK c \in Slot : c = cnt
  BY <1>3
<1> PICK t : t = tmr_node
  OBVIOUS
<1>4. /\ Asked' = Asked \ {t}
      /\ InList(c)' = InList(c) \ {t} /\ AtRear(c)' = InList(c) \ {t}
      /\ \A s \in Slot \ {c} : InList(s)' = InList(s) /\ AtRear(s)' = InList(s)
      /\ \A s \in Slot \ {c} : t \notin InList(s)
      /\ \A l, m : Earlier(l, m)' <=> Earlier(l, m) /\ l # t /\ m # t
      /\ t \in InList(c)
      /\ \A m \in InList(c) : m = t \/ Earlier(t, m)
      /\ \A k \in DOMAIN agenda' : agenda'[k].left = 0 =>
           agenda'[k].timer \in InList(c) \ {t}
  BY <1>1, <1>2, Removed
<1>5. InList(c) \ {t} = {}
  <2>1. IsFirst(next[t], {m \in InList(c) : Earlier(t, m)})
    BY <1>2, <1>4 DEF ListsOrdered
  <2>2. {m \in InList(c) : Earlier(t, m)} \subseteq Asked
    BY <1>2, Lists
  <2>3. {m \in InList(c) : Earlier(t, m)} = {}
    BY <1>1, <1>3, <2>1, <2>2 DEF IsFirst
  <2> QED BY <1>4, <2>3
<1>6. ListsOrdered'
  <2>1. ASSUME NEW s \in Slot PROVE IsFirst(Begin(s), InList(s))'
    <3>1. CASE s = c
      <4>1. Begin(s)' = NULL /\ InList(s)' = {}
        BY <1>1, <1>4, <1>5, <3>1 DEF Begin, Active
      <4> QED BY <4>1 DEF IsFirst
    <3>2. CASE s # c
      <4>1. Begin(s)' = Begin(s) /\ IsFirst(Begin(s), InList(s)) /\ InList(s)' = InList(s)
            /\ t \notin InList(s)
        BY <1>1, <1>2, <1>4, <3>2 DEF Begin, ListsOrdered, Active
      <4> QED BY <1>4, <4>1 DEF IsFirst
    <3> QED BY <3>1, <3>2
  <2>2. ASSUME NEW s \in Slot, NEW p \in InList(s)'
        PROVE  IsFirst(next[p], {m \in InList(s) : Earlier(p, m)})'
    <3>1. s # c /\ InList(s)' = InList(s) /\ t \notin InList(s) /\ p \in InList(s)
      BY <1>4, <1>5, <2>2
    <3>2. IsFirst(next[p], {m \in InList(s) : Earlier(p, m)})
      BY <1>2, <3>1 DEF ListsOrdered
    <3>3. {m \in InList(s) : Earlier(p, m)}' = {m \in InList(s) : Earlier(p, m)}
      BY <1>4, <3>1
    <3> QED BY <1>1, <1>4, <3>1, <3>2, <3>3 DEF IsFirst
  <2>3. ASSUME NEW s \in Slot PROVE IsLast(rear[s], AtRear(s))'
    <3>1. CASE s = c
      <4>1. rear'[s] = NULL /\ AtRear(s)' = {}
        BY <1>1, <1>4, <1>5, <3>1
      <4> QED BY <4>1 DEF IsLast
    <3>2. CASE s # c
      <4>1. rear'[s] = rear[s] /\ IsLast(rear[s], InList(s)) /\ AtRear(s)' = InList(s)
            /\ t \notin InList(s)
        BY <1>1, <1>2, <1>4, <3>2 DEF ListsOrdered
      <4> QED BY <1>4, <4>1 DEF IsLast
    <3> QED BY <3>1, <3>2
  <2> QED BY <2>1, <2>2, <2>3 DEF ListsOrdered
<1>7. Adding'
  BY <1>1, <1>2 DEF Adding
<1>8. NodesListed'
  <2>1. heap = Asked \cup {front[cnt]}
    BY <1>1, <1>2 DEF NodesListed
  <2>2. heap' = Asked'
    BY <1>1, <1>3, <1>4, <2>1
  <2> QED BY <1>1, <2>2 DEF NodesListed, Active
<1>9. \A k \in DOMAIN agenda' : agenda'[k].left # 0
  BY <1>4, <1>5
<1> QED BY <1>1, <1>6, <1>7, <1>8, <1>9 DEF Ordered

LEMMA OrderedFails ==
  ASSUME TInv, Ordered, HandlerFails
  PROVE  Ordered'
<1>1. /\ alarm \in Active /\ alarm' = "idle" /\ cnt' = cnt /\ next' = next
      /\ rear' = rear /\ add_pc' = add_pc /\ agenda' = agenda /\ failed' = TRUE
      /\ heap' = IF front[cnt] = tmr_node THEN heap ELSE heap \ {front[cnt]}
      /\ \A s \in Slot : front'[s] = IF s = cnt THEN tmr_node ELSE front[s]
  BY DEF HandlerFails, FreePassed, addVars, Active, TInv, TypeOK
<1>2. /\ add_pc = "idle" /\ TypeOK /\ Distinct /\ ListsOrdered /\ NodesListed
  BY <1>1, NotAdding DEF Active
<1>3. /\ tmr_node \in Asked /\ cnt \in Slot
      /\ front[cnt] = tmr_node \/ front[cnt] \notin Asked
  BY <1>1, Here
<1>4. /\ Asked' = Asked
      /\ \A m, s : Due(m, s)' <=> Due(m, s)
      /\ \A l, m : Earlier(l, m)' <=> Earlier(l, m)
  BY <1>1, AgendaSame
<1>5. \A s \in Slot : Begin(s)' = Begin(s)
  BY <1>1 DEF Begin, Active
<1>6. \A s : InList(s)' = InList(s) /\ AtRear(s)' = AtRear(s)
  BY <1>1, <1>2, <1>4 DEF InList, AtRear, Unlinked
<1>7. ListsOrdered'
  BY <1>1, <1>2, <1>4, <1>5, <1>6, Kept
<1>8. Adding'
  BY <1>1, <1>2 DEF Adding
<1>9. NodesListed'
  BY <1>1, <1>2, <1>3, <1>4 DEF NodesListed, Active
<1> QED BY <1>1, <1>7, <1>8, <1>9 DEF Ordered

----------------------------------------------------------------------------
(***************************************************************************)
(* The invariant.                                                          *)
(***************************************************************************)
LEMMA SoundStep ==
  ASSUME TInv, Next
  PROVE  Sound'
BY SoundCall, SoundLinks, SoundAlarm, SoundAdds, SoundNext, SoundLast, SoundFails
   DEF Next, AddTimer, ProcTimer

LEMMA OrderedStep ==
  ASSUME TInv, Next, ~ interrupted'
  PROVE  Ordered'
<1>1. Ordered
  BY DEF TInv, Next, AddTimer, ProcTimer, CallAddTimer, TestFront, SetFront,
         SetRearToFront, LinkRear, SetRear, SigAlarm, HandlerAdds, NextTimer, LastTimer,
         HandlerFails, alarmVars, faultVars
<1>2. ASSUME AddTimer PROVE Ordered'
  BY <1>1, <1>2, OrderedCall, OrderedTest, OrderedFront, OrderedRearFront, OrderedLinkRear
     DEF AddTimer
<1>3. ASSUME SigAlarm PROVE Ordered'
  BY <1>1, <1>3, OrderedAlarm
<1>4. ASSUME ProcTimer PROVE Ordered'
  BY <1>1, <1>4, OrderedAdds, OrderedNext, OrderedLast, OrderedFails DEF ProcTimer
<1> QED BY <1>2, <1>3, <1>4 DEF Next

LEMMA InitInv == Init => TInv
<1> SUFFICES ASSUME Init PROVE TInv
  OBVIOUS
<1>1. agenda = <<>> /\ agenda \in Seq(Entry) /\ DOMAIN agenda = {} /\ Asked = {}
  BY EmptySeq DEF Init, Asked
<1>2. TypeOK
  BY <1>1, WheelAssumption DEF Init, TypeOK, Slot, Entry
<1>3. /\ \A s : InList(s) = {} /\ AtRear(s) = {}
      /\ \A s \in Slot : Begin(s) = NULL /\ rear[s] = NULL
  BY <1>1 DEF InList, AtRear, Begin, Init, Active
<1>4. Distinct /\ Sound
  BY <1>1 DEF Init, Distinct, Sound, PointersLive, PointersUnique, AtFront, NewUnlinked,
              Active, Unlinked
<1>5. Ordered
  BY <1>1, <1>3 DEF Init, Ordered, ListsOrdered, IsFirst, IsLast, Adding, NodesListed, Active
<1> QED BY <1>2, <1>4, <1>5 DEF TInv

\* The invariant holds in every reachable state.
THEOREM WheelInvariance == Spec => []TInv
<1>1. TInv /\ [Next]_vars => TInv'
  <2>1. ASSUME TInv, Next PROVE TInv'
    BY <2>1, TypeStep, SoundStep, OrderedStep DEF TInv
  <2>2. ASSUME TInv, UNCHANGED vars PROVE TInv'
    BY <2>2, Stutters
  <2> QED BY <2>1, <2>2
<1> QED BY InitInv, <1>1, PTL DEF Spec

\* No handler runs twice, and none runs from a node that has been freed, wherever
\* the signal interrupts add_timer.
THEOREM HandlersRunAskedTimers == Spec => []RunsAskedTimers
<1>1. TInv => RunsAskedTimers
  BY Here DEF RunsAskedTimers, Active
<1> QED BY WheelInvariance, <1>1, PTL

\* proc_timer runs only handlers of timers that are due in its slot, until
\* add_timer is interrupted.
THEOREM HandlersRunDueTimers == Spec => []RunsDueTimers
<1>1. ASSUME TInv, ~ interrupted, alarm = "call"
      PROVE  \E k \in DOMAIN agenda : agenda[k].timer = tmr_node /\ agenda[k].left = 0
  <2>1. TypeOK /\ Distinct /\ ListsOrdered /\ tmr_node # NULL /\ cnt \in Slot
    BY <1>1, Here DEF TInv, Ordered, Active
  <2>2. IsFirst(tmr_node, InList(cnt))
    BY <1>1, <2>1 DEF ListsOrdered, Begin, Active
  <2>3. Due(tmr_node, cnt)
    BY <2>1, <2>2 DEF IsFirst, InList
  <2>4. PICK k \in DOMAIN agenda : agenda[k].timer = tmr_node
    BY <2>3 DEF Due
  <2> QED BY <2>1, <2>3, <2>4, Slots
<1>2. TInv => RunsDueTimers
  BY <1>1 DEF RunsDueTimers
<1> QED BY WheelInvariance, <1>2, PTL

----------------------------------------------------------------------------
(***************************************************************************)
(* The lists as one walks them hold the timers of their slots.             *)
(***************************************************************************)
\* Whoever walks the list meets every timer of the slot: of those a closed set
\* leaves out, the first is behind one that is in the set.
LEMMA ListComplete ==
  ASSUME TInv, ~ interrupted, add_pc = "idle", NEW s \in Slot, NEW n \in InList(s)
  PROVE  n \in List(s)
<1>1. /\ TypeOK /\ Distinct /\ ListsOrdered /\ NodesListed
      /\ InList(s) \subseteq Asked /\ Asked \subseteq Node /\ NULL \notin Asked
      /\ Asked \subseteq heap
  BY Lists, AgendaType DEF TInv, Ordered, Sound, PointersLive
<1> SUFFICES ASSUME NEW S \in SUBSET Node, HoldsNext(S), front[s] \in S \cup {NULL},
                    n \notin S
             PROVE  FALSE
  BY <1>1 DEF List
<1>2. Begin(s) \in InList(s) /\ \A m \in InList(s) : m = Begin(s) \/ Earlier(Begin(s), m)
  BY <1>1 DEF ListsOrdered, IsFirst
<1>3. Begin(s) \in S
  <2>1. CASE alarm \in Active /\ s = cnt
    <3>1. front[cnt] \in heap /\ heap \subseteq Node
      BY <1>1, <2>1, Here DEF TypeOK
    <3>2. front[cnt] = tmr_node \/ next[front[cnt]] = tmr_node
      BY <1>1, <2>1 DEF NodesListed
    <3>3. front[cnt] \in S
      BY <2>1, <3>1, NodeAssumption
    <3>4. tmr_node \in S
      BY <1>1, <1>2, <2>1, <3>2, <3>3 DEF HoldsNext, Begin
    <3> QED BY <2>1, <3>4 DEF Begin
  <2>2. CASE ~(alarm \in Active /\ s = cnt)
    BY <1>1, <1>2, <2>2 DEF Begin
  <2> QED BY <2>1, <2>2
<1>4. PICK b \in InList(s) \ S : \A m \in InList(s) \ S : m = b \/ Earlier(b, m)
  BY <1>1, First
<1>5. PICK p \in InList(s) : /\ Earlier(p, b)
                             /\ \A m \in InList(s) : Earlier(m, b) => m = p \/ Earlier(m, p)
  <2> DEFINE P == {m \in InList(s) : Earlier(m, b)}
  <2>1. Begin(s) \in P
    BY <1>2, <1>3, <1>4
  <2>2. \E h \in P : \A m \in P : m = h \/ Earlier(m, h)
    BY <1>1, <2>1, Last
  <2> QED BY <2>2
<1>6. p \in S
  BY <1>1, <1>4, <1>5, Order
<1>7. /\ next[p] \in InList(s) /\ Earlier(p, next[p])
      /\ next[p] = b \/ Earlier(next[p], b)
  <2>1. IsFirst(next[p], {m \in InList(s) : Earlier(p, m)})
    BY <1>1 DEF ListsOrdered
  <2> QED BY <1>4, <1>5, <2>1 DEF IsFirst
<1>8. next[p] = b
  BY <1>1, <1>5, <1>7, Order
<1> QED BY <1>1, <1>4, <1>6, <1>8 DEF HoldsNext

\* Outside of proc_timer one meets nothing else.
LEMMA ListExact ==
  ASSUME TInv, ~ interrupted, add_pc = "idle", alarm = "idle", NEW s \in Slot
  PROVE  List(s) = InList(s)
<1>1. /\ ListsOrdered /\ InList(s) \in SUBSET Node /\ Begin(s) = front[s]
  BY Lists, AgendaType DEF TInv, Ordered, Begin, Active
<1>2. front[s] \in InList(s) \cup {NULL}
  BY <1>1 DEF ListsOrdered, IsFirst
<1>3. \A n \in InList(s) : next[n] \in InList(s) \cup {NULL}
  BY <1>1 DEF ListsOrdered, IsFirst
<1>4. \A n \in List(s) : n \in InList(s)
  BY <1>1, <1>2, <1>3 DEF List, HoldsNext
<1> QED BY <1>4, ListComplete

LEMMA Placed == TInv => InItsSlot
<1> SUFFICES ASSUME TInv, ~ interrupted, add_pc = "idle", NEW k \in DOMAIN agenda
             PROVE  agenda[k].timer \in List(SlotOf(agenda[k].left))
  BY DEF InItsSlot
<1>1. TypeOK /\ Distinct /\ agenda[k].left \in Slot
  BY AgendaType DEF TInv
<1>2. SlotOf(agenda[k].left) \in Slot
  BY <1>1, SlotType
<1>3. agenda[k].timer \in InList(SlotOf(agenda[k].left))
  BY <1>1, Lists DEF Due, Unlinked
<1> QED BY <1>2, <1>3, ListComplete

LEMMA WellFormed == TInv => ListsOK
<1> SUFFICES ASSUME TInv, ~ interrupted, add_pc = "idle", alarm = "idle"
             PROVE  /\ UNION {List(s) : s \in Slot} = heap
                    /\ \A s, r \in Slot : s # r => List(s) \cap List(r) = {}
                    /\ \A s \in Slot :
                         IF front[s] = NULL THEN rear[s] = NULL
                         ELSE rear[s] \in List(s) /\ next[rear[s]] = NULL
  BY DEF ListsOK
<1>1. /\ TypeOK /\ Distinct /\ ListsOrdered /\ heap = Asked
  BY DEF TInv, Ordered, NodesListed, Active
<1>2. \A s \in Slot : List(s) = InList(s) /\ AtRear(s) = InList(s) /\ Begin(s) = front[s]
  BY ListExact DEF InList, AtRear, Unlinked, Begin, Active
<1>3. UNION {List(s) : s \in Slot} = heap
  <2>1. \A n \in Asked : \E s \in Slot : n \in InList(s)
    BY <1>1, Slots, Lists DEF Unlinked
  <2>2. \A s \in Slot : InList(s) \subseteq Asked
    BY <1>1, Lists
  <2> QED BY <1>1, <1>2, <2>1, <2>2
<1>4. \A s, r \in Slot : s # r => List(s) \cap List(r) = {}
  BY <1>1, <1>2, Lists
<1>5. ASSUME NEW s \in Slot
      PROVE  IF front[s] = NULL THEN rear[s] = NULL
             ELSE rear[s] \in List(s) /\ next[rear[s]] = NULL
  <2>1. IsFirst(front[s], InList(s)) /\ IsLast(rear[s], InList(s))
        /\ InList(s) \subseteq Asked /\ NULL \notin Asked
    BY <1>1, <1>2, Lists, AgendaType DEF ListsOrdered
  <2>2. CASE front[s] = NULL
    BY <2>1, <2>2 DEF IsFirst, IsLast
  <2>3. CASE front[s] # NULL
    <3>1. rear[s] \in InList(s) /\ \A m \in InList(s) : m = rear[s] \/ Earlier(m, rear[s])
      BY <2>1, <2>3 DEF IsFirst, IsLast
    <3>2. {m \in InList(s) : Earlier(rear[s], m)} = {}
      BY <1>1, <2>1, <3>1, Order
    <3>3. IsFirst(next[rear[s]], {m \in InList(s) : Earlier(rear[s], m)})
      BY <1>1, <3>1 DEF ListsOrdered
    <3> QED BY <1>2, <2>3, <3>1, <3>2, <3>3 DEF IsFirst
  <2> QED BY <2>2, <2>3
<1> QED BY <1>3, <1>4, <1>5

\* No timer and no node is lost or out of its place, until add_timer is
\* interrupted: the timers are in the lists of their slots, the lists are well
\* formed and hold every allocated node.
THEOREM WheelIsSound == Spec => []WheelOK
<1>1. TInv => WheelOK
  BY Placed, WellFormed DEF TInv, WheelOK
<1> QED BY WheelInvariance, <1>1, PTL

----------------------------------------------------------------------------
(***************************************************************************)
(* The wheel implements TimerService, until add_timer is interrupted or a  *)
(* handler fails.                                                          *)
(***************************************************************************)
LEMMA SetStep ==
  ASSUME TInv, NEW n \in Node, NEW d \in Interval, Alloc(n), Ask(n, d)
  PROVE  Service!Set(n, d)
<1>1. n \notin Asked
  BY Fresh DEF TInv, Sound
<1> QED BY <1>1 DEF Ask, Asked, Service!Set

LEMMA TickStep ==
  ASSUME TInv, SigAlarm, ~ Faulty'
  PROVE  Service!Tick
<1>1. /\ ~ failed /\ alarm = "idle" /\ TypeOK /\ Ordered
  BY DEF SigAlarm, Faulty, TInv
<1>2. \A k \in DOMAIN agenda : agenda[k].left \in Slot /\ agenda[k].left # 0
  BY <1>1, AgendaType DEF Ordered
<1>3. \A k \in DOMAIN agenda : agenda[k].left > 0
  BY <1>2, WheelAssumption DEF Slot
<1>4. \A k \in DOMAIN agenda :
        (agenda[k].left - 1) % TIME_WHEEL_SIZE = agenda[k].left - 1
  BY <1>1, <1>2, SlotTurns
<1>5. agenda' = [k \in DOMAIN agenda |->
                   [agenda[k] EXCEPT !.left = (@ - 1) % TIME_WHEEL_SIZE]]
  BY DEF SigAlarm
<1>6. agenda' = [k \in DOMAIN agenda |-> [agenda[k] EXCEPT !.left = @ - 1]]
  BY <1>4, <1>5
<1> QED BY <1>3, <1>6 DEF Service!Tick

LEMMA FireStep ==
  ASSUME TInv, ~ interrupted, NextTimer \/ LastTimer
  PROVE  \E k \in DOMAIN agenda : Service!Fire(k)
<1>1. alarm \in Active /\ Leave(tmr_node)
  BY DEF NextTimer, LastTimer, Active
<1>2. /\ TypeOK /\ Distinct /\ ListsOrdered /\ tmr_node \in Asked /\ tmr_node # NULL
      /\ cnt \in Slot /\ \A s, m : m \in InList(s) <=> Due(m, s)
  BY <1>1, Here, NotAdding DEF TInv, Active
<1>3. PICK k \in DOMAIN agenda :
        /\ agenda[k].timer = tmr_node
        /\ agenda' = SubSeq(agenda, 1, k - 1) \o SubSeq(agenda, k + 1, Len(agenda))
  BY <1>1, <1>2 DEF Leave
<1>4. tmr_node \in InList(cnt)
      /\ \A m \in InList(cnt) : m = tmr_node \/ Earlier(tmr_node, m)
  <2>1. IsFirst(tmr_node, InList(cnt))
    BY <1>1, <1>2 DEF ListsOrdered, Begin
  <2> QED BY <1>2, <2>1 DEF IsFirst
<1>5. agenda[k].left = 0
  BY <1>2, <1>3, <1>4, Slots
<1>6. ASSUME NEW j \in 1..(k - 1) PROVE agenda[j].left > 0
  <2>1. k \in 1..Len(agenda) /\ DOMAIN agenda = 1..Len(agenda) /\ Len(agenda) \in Nat
    BY <1>2, AgendaType
  <2>2. j \in DOMAIN agenda /\ j < k /\ k \in Int /\ j \in Int
    BY <2>1
  <2>3. agenda[j].left \in Slot /\ agenda[j].timer \in Asked
    BY <1>2, <2>2, AgendaType DEF Asked
  <2>4. Earlier(agenda[j].timer, tmr_node)
    BY <1>3, <2>2 DEF Earlier
  <2>5. ~ Earlier(tmr_node, agenda[j].timer) /\ agenda[j].timer # tmr_node
    BY <1>2, <2>3, <2>4, Order
  <2>6. agenda[j].left # 0
    BY <1>2, <1>4, <2>2, <2>5, Slots
  <2> QED BY <2>3, <2>6, WheelAssumption DEF Slot
<1> QED BY <1>3, <1>5, <1>6 DEF Service!Fire

\* A call of add_timer sets a timer, a turn of the wheel is a tick and a handler
\* that returns 0 fires: timers fire once, when they are due, in their order.
THEOREM WheelImplementsService == Spec => ServiceSpec
<1>1. Init => Service!Init
  BY DEF Init, Service!Init
<1>2. TInv /\ [Next]_vars => [Faulty' \/ Service!Next]_<<agenda, faultVars>>
  <2> SUFFICES ASSUME TInv, Next, ~ Faulty'
               PROVE  Service!Next \/ UNCHANGED <<agenda, faultVars>>
    BY DEF vars, alarmVars
  <2>1. ASSUME AddTimer PROVE Service!Next \/ UNCHANGED <<agenda, faultVars>>
    <3>1. ASSUME NEW n \in Node, NEW d \in Interval, CallAddTimer(n, d)
          PROVE  Service!Next
      BY <3>1, SetStep DEF CallAddTimer, Service!Next
    <3>2. ASSUME TestFront \/ SetFront \/ SetRearToFront \/ LinkRear \/ SetRear
          PROVE  UNCHANGED <<agenda, faultVars>>
      BY <3>2 DEF TestFront, SetFront, SetRearToFront, LinkRear, SetRear, alarmVars
    <3> QED BY <2>1, <3>1, <3>2 DEF AddTimer
  <2>2. ASSUME SigAlarm PROVE Service!Next
    BY <2>2, TickStep DEF Service!Next
  <2>3. ASSUME ProcTimer PROVE Service!Next
    <3>1. ASSUME NEW n \in Node, NEW d \in Interval, HandlerAdds(n, d)
          PROVE  Service!Next
      BY <3>1, SetStep DEF HandlerAdds, Service!Next
    <3>2. ASSUME NextTimer \/ LastTimer PROVE Service!Next
      <4>1. ~ interrupted
        BY <3>2 DEF NextTimer, LastTimer, Faulty, faultVars
      <4> QED BY <3>2, <4>1, FireStep DEF Service!Next
    <3>3. ~ HandlerFails
      BY DEF HandlerFails, Faulty
    <3> QED BY <2>3, <3>1, <3>2, <3>3 DEF ProcTimer
  <2> QED BY <2>1, <2>2, <2>3 DEF Next
<1> QED BY <1>1, <1>2, WheelInvariance, PTL DEF Spec, ServiceSpec
=============================================================================

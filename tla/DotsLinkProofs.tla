--------------------------- MODULE DotsLinkProofs ---------------------------
(***************************************************************************)
(* Proofs about DotsLink.  Types, the order of the bits of a vector, and   *)
(* that an ACK follows a delivery hold always.  That every answer finds    *)
(* its packet is a matter of time, and is proved while the time stamps do  *)
(* not wrap: for any number of packets, any times at which they come and   *)
(* any frames lost, from the assumptions of DotsLink on the waits.         *)
(***************************************************************************)
EXTENDS DotsLink, FiniteSetTheorems, SequenceTheorems, FunctionTheorems, TLAPS

Peer == {"A", "B"}

Calls(n) == IF n = "A" THEN {"RTS", "DATA", "wait_CTS", "wait_ACK", "back_off",
                              "rx_v_sleep"}
                        ELSE {"CTS", "ACK", "rx_v_sleep", "tx_v_sleep"}

TimerOf(n) == [at : Nat, call : Calls(n)]

\* What n may receive.
FrameTo(n) ==
  {f \in [type : IF n = "A" THEN {"CTS", "ACK"} ELSE {"RTS", "DATA"},
          tmv_stmp : Nat, pkt : Nat] : f.type = "DATA" => f.pkt \in 1 .. arrived}

PacketsTyped == /\ arrival \in Arrivals
                /\ now \in Nat /\ arrived \in 0 .. Len(arrival)
                /\ queue \subseteq 1 .. arrived
                /\ stat \in [DOMAIN arrival -> StateVector]
                /\ acked \subseteq 1 .. arrived /\ delivered \in Seq(1 .. arrived)

MapTyped == delay \in 0 .. 255 /\ \A c \in coll : c.tmv_stmp \in Nat

TimersTyped == DOMAIN timers = Peer /\ \A n \in Peer : timers[n] \in Seq(TimerOf(n))

FramesTyped ==
  /\ DOMAIN cell = Peer /\ \A n \in Peer : cell[n] \in FrameTo(n) \cup {NoFrame}
  /\ DOMAIN frame = Peer /\ \A n \in Peer : frame[n] \in FrameTo(n) \cup {NoFrame}

MainTyped ==
  /\ pc \in [Peer -> {"poll", "rx_sleep", "rx_awake", "tx_sleep", "tx_awake",
                      "exited"}]
  /\ pc["A"] \notin {"tx_sleep", "tx_awake"} /\ pc["B"] # "exited"

Typed == PacketsTyped /\ MapTyped /\ TimersTyped /\ FramesTyped /\ MainTyped

----------------------------------------------------------------------------
(***************************************************************************)
(* The packets of the queue in each phase.                                 *)
(***************************************************************************)
VectorOK(s) ==
  /\ s \in StateVector
  /\ s.send_stat = 0 => /\ s.backoff_stat = 0 /\ s.CTS_RX_STAT = 0
                        /\ s.CTS_RX_CK_STAT = 0 /\ s.ACK_RX_STAT = 0
  /\ s.send_stat = 1 => s.RTS_TX_NUM # 0
  /\ s.ACK_RX_STAT = 1 => s.CTS_RX_CK_STAT = 1
  /\ s.CTS_RX_CK_STAT = 1 => s.CTS_RX_STAT = 1

Phase(s) == IF s.backoff_stat = 1        THEN "backed_off"
            ELSE IF s.send_stat = 0      THEN "unsent"
            ELSE IF s.CTS_RX_STAT = 0    THEN "awaits_CTS"
            ELSE IF s.CTS_RX_CK_STAT = 0 THEN "has_CTS"
            ELSE IF s.ACK_RX_STAT = 0    THEN "awaits_ACK" ELSE "has_ACK"

In(q, st, ph)  == {p \in q : Phase(st[p]) = ph}
Num(q, st, ph) == Cardinality(In(q, st, ph))
N(ph)          == Num(queue, stat, ph)

Vectors == /\ \A p \in queue : VectorOK(stat[p])
           /\ \A p \in DOMAIN arrival : p > arrived => stat[p] = NewPacket

(***************************************************************************)
(* What announces a delivery: an ACK on its way, or one that was recorded. *)
(***************************************************************************)
AckUnderWay == \/ \E k \in DOMAIN timers["B"] : timers["B"][k].call = "ACK"
               \/ cell["A"].type = "ACK" \/ frame["A"].type = "ACK"
               \/ \E p \in queue : stat[p].ACK_RX_STAT = 1
               \/ acked # {}

AcksFollow == AckUnderWay => delivered # <<>>

TInv == Typed /\ Vectors /\ AcksFollow

----------------------------------------------------------------------------
(***************************************************************************)
(* Timers of a kind, by the time of the RTS or DATA frame they go back to: *)
(* d is the time from that frame to the timer, S a set of such times.      *)
(***************************************************************************)
Places(s, call, d, S) == {k \in DOMAIN s : s[k].call = call /\ s[k].at - d \in S}
Count(s, call, d, S) == Cardinality(Places(s, call, d, S))

\* Whether one thing is of these: a timer, or a frame.
Hit(c, x, call, d, S) == IF c = call /\ x - d \in S THEN 1 ELSE 0

InCell(n, type, d, S) == Hit(cell[n].type, cell[n].tmv_stmp, type, d, S)
InHand(n, type, d, S) == IF pc[n] = "poll" THEN 0
                         ELSE Hit(frame[n].type, frame[n].tmv_stmp, type, d, S)

Reply(type) == IF type = "RTS" THEN "CTS" ELSE "ACK"

\* Frames of a type to which B may have an answer on its way.
Flying(type, S) ==
  InCell("B", type, 0, S) + InHand("B", type, 0, S)
    + Count(timers["B"], Reply(type), MAX_PROP_DELAY, S)
    + InCell("A", Reply(type), MAX_PROP_DELAY, S)
    + InHand("A", Reply(type), MAX_PROP_DELAY, S)

CountA(call, d, S) == Count(timers["A"], call, d, S)

(***************************************************************************)
(* In every phase there are as many timers as packets.                     *)
(***************************************************************************)
Balance ==
  /\ CountA("wait_CTS", WAIT_FB_TIME, Int) + CountA("RTS", 0, Int)
       = N("has_CTS") + N("awaits_CTS")
  /\ CountA("wait_ACK", WAIT_FB_TIME, Int) + CountA("DATA", 2 * MAX_PROP_DELAY, Int)
       = N("has_CTS") + N("awaits_ACK") + N("has_ACK")
  /\ CountA("back_off", 0, Int) = N("backed_off")

(***************************************************************************)
(* Of the frames sent at any times, no more have an answer on its way than *)
(* there are waits.                                                        *)
(***************************************************************************)
Matched == \A S \in SUBSET Int :
  /\ Flying("RTS", S) <= CountA("wait_CTS", WAIT_FB_TIME, S)
  /\ Flying("DATA", S) <= CountA("wait_ACK", WAIT_FB_TIME, S)

(***************************************************************************)
(* A packet whose CTS is not checked has a wait of its own, and its data   *)
(* is not due: whatever the set of times, its DATA timer goes back to one  *)
(* outside, or a wait that has no answer on its way to one inside.         *)
(***************************************************************************)
Answered ==
  /\ \A S \in SUBSET Int :
       N("has_CTS") + Flying("RTS", S)
         <= CountA("DATA", 2 * MAX_PROP_DELAY, Int \ S)
              + CountA("wait_CTS", WAIT_FB_TIME, S)
  /\ N("has_ACK") + Flying("DATA", Int)
       <= CountA("wait_ACK", WAIT_FB_TIME, Int)

Counted == Balance /\ Matched /\ Answered

----------------------------------------------------------------------------
(***************************************************************************)
(* Time: no timer is overdue, main sleeps while there is a timer that ends *)
(* the sleep, and frames are young.  Only B has been busy for longer than  *)
(* the reception of a control frame when it comes back to its poll.        *)
(***************************************************************************)
NotOverdue == \A n \in Peer : \A k \in DOMAIN timers[n] : timers[n][k].at >= now

Is(x, y) == IF x = y THEN 1 ELSE 0

SleepOK ==
  \A n \in Peer :
    /\ Count(timers[n], "rx_v_sleep", 0, Int) = Is(pc[n], "rx_sleep")
    /\ Count(timers[n], "tx_v_sleep", 0, Int) = Is(pc[n], "tx_sleep")

Slack(n) == IF n = "B" THEN DATA_PKT_PROC_TIME ELSE 0

Since(f, t) == f # NoFrame => f.tmv_stmp >= t

Young(n) ==
  /\ cell[n].tmv_stmp <= now /\ frame[n].tmv_stmp <= now
  /\ pc[n] # "poll" => frame[n] # NoFrame
  /\ pc[n] = "poll" => Since(cell[n], now - Slack(n))
  /\ pc[n] = "rx_awake" =>
       /\ Since(cell[n], now - CFRM_PROC_TIME)
       /\ Since(frame[n], now - CFRM_PROC_TIME - Slack(n))
  /\ pc[n] = "tx_awake" =>
       /\ Since(cell[n], now - Slack(n))
       /\ Since(frame[n], now - CFRM_PROC_TIME - 2 * Slack(n))
  /\ \A k \in DOMAIN timers[n] :
       LET t == timers[n][k] IN
       /\ t.call = "rx_v_sleep" =>
            /\ t.at - CFRM_PROC_TIME <= now
            /\ Since(cell[n], t.at - CFRM_PROC_TIME)
            /\ Since(frame[n], t.at - CFRM_PROC_TIME - Slack(n))
       /\ t.call = "tx_v_sleep" =>
            /\ t.at - Slack(n) <= now
            /\ Since(cell[n], t.at - Slack(n))
            /\ Since(frame[n], t.at - CFRM_PROC_TIME - 2 * Slack(n))

Timely == NotOverdue /\ SleepOK /\ \A n \in Peer : Young(n)

IInv == /\ pc["A"] # "exited"
        /\ Timely /\ Counted

\* The time stamps have not wrapped.
NoWrap == now < 65535

----------------------------------------------------------------------------
(***************************************************************************)
(* Timers are appended, and removed at a place.                            *)
(***************************************************************************)
\* A sequence without its k-th element.
Removed(s, k) == [i \in 1 .. (Len(s) - 1) |-> IF i < k THEN s[i] ELSE s[i + 1]]

LEMMA RestIsRemoved ==
  ASSUME NEW T, NEW n, timers[n] \in Seq(T), NEW k \in DOMAIN timers[n]
  PROVE  /\ Rest(n, k) = Removed(timers[n], k)
         /\ Removed(timers[n], k) \in Seq(T)
         /\ Len(Removed(timers[n], k)) = Len(timers[n]) - 1
<1> DEFINE s == timers[n]
           a == SubSeq(s, 1, k - 1)
           b == SubSeq(s, k + 1, Len(s))
<1>1. k \in 1 .. Len(s) /\ Len(s) \in Nat /\ DOMAIN s = 1 .. Len(s)
  OBVIOUS
<1>2. /\ a \in Seq(T) /\ Len(a) = k - 1
      /\ \A i \in 1 .. (k - 1) : a[i] = s[i]
  BY <1>1
<1>3. /\ b \in Seq(T) /\ Len(b) = Len(s) - k
      /\ \A i \in 1 .. (Len(s) - k) : b[i] = s[i + k]
  BY <1>1
<1>4. /\ a \o b \in Seq(T) /\ Len(a \o b) = Len(s) - 1
      /\ \A i \in 1 .. (Len(s) - 1) :
           (a \o b)[i] = IF i < k THEN s[i] ELSE s[i + 1]
  <2> HIDE DEF a, b, s
  <2>1. /\ a \o b \in Seq(T) /\ Len(a \o b) = Len(a) + Len(b)
        /\ \A i \in 1 .. (Len(a) + Len(b)) :
             (a \o b)[i] = IF i <= Len(a) THEN a[i] ELSE b[i - Len(a)]
    BY <1>2, <1>3, ConcatProperties
  <2>2. PICK c : c = a \o b
    OBVIOUS
  <2>3. PICK m \in Nat : m = Len(s)
    BY <1>1
  <2>4. m \in Nat /\ k \in 1 .. m
    BY <1>1, <2>3
  <2>5. /\ Len(a) = k - 1 /\ Len(b) = m - k
        /\ \A i \in 1 .. (k - 1) : a[i] = s[i]
        /\ \A i \in 1 .. (m - k) : b[i] = s[i + k]
    BY <1>2, <1>3, <2>3
  <2>6. (k - 1) + (m - k) = m - 1
    BY ONLY <2>4
  <2>7. Len(c) = m - 1
    BY <2>1, <2>2, <2>5, <2>6
  <2>8. ASSUME NEW i \in 1 .. (m - 1)
        PROVE  c[i] = IF i < k THEN s[i] ELSE s[i + 1]
    <3>1. c[i] = IF i <= Len(a) THEN a[i] ELSE b[i - Len(a)]
      BY <2>1, <2>2, <2>5, <2>6
    <3>2. CASE i < k
      <4>1. i \in 1 .. (k - 1)
        BY ONLY <2>4, <2>8, <3>2
      <4>2. a[i] = s[i] /\ i <= Len(a)
        BY <2>5, <4>1
      <4> QED BY ONLY <3>1, <3>2, <4>2
    <3>3. CASE ~ (i < k)
      <4>1. /\ i - (k - 1) \in 1 .. (m - k) /\ i - (k - 1) + k = i + 1
            /\ ~ (i <= k - 1)
        BY ONLY <2>4, <2>8, <3>3
      <4>2. b[i - (k - 1)] = s[i + 1]
        BY <2>5, <4>1
      <4>3. c[i] = b[i - (k - 1)]
        BY <2>5, <3>1, <4>1
      <4> QED BY ONLY <3>3, <4>2, <4>3
    <3> QED BY <3>2, <3>3
  <2> QED BY <2>1, <2>2, <2>3, <2>7, <2>8
<1>5. Rest(n, k) = a \o b
  BY DEF Rest, Ext!RemoveAt
<1>6. a \o b = [i \in 1 .. (Len(s) - 1) |-> (a \o b)[i]]
  <2>1. a \o b = [i \in 1 .. Len(a \o b) |-> (a \o b)[i]]
    <3> DEFINE c == a \o b
    <3>1. c \in Seq(T)
      BY <1>4
    <3> HIDE DEF c
    <3>2. c = [i \in 1 .. Len(c) |-> c[i]]
      BY <3>1
    <3> QED BY <3>2 DEF c
  <2> QED BY <1>4, <2>1
<1>7. a \o b = Removed(s, k)
  <2> HIDE DEF a, b
  <2> QED BY <1>4, <1>6 DEF Removed
<1> QED BY <1>4, <1>5, <1>7

LEMMA CountIsNat ==
  ASSUME NEW T, NEW s \in Seq(T), NEW call, NEW d, NEW S
  PROVE  /\ IsFiniteSet(Places(s, call, d, S))
         /\ Count(s, call, d, S) \in Nat
<1>1. Places(s, call, d, S) \subseteq 1 .. Len(s) /\ Len(s) \in Nat
  BY DEF Places
<1>2. IsFiniteSet(1 .. Len(s))
  BY <1>1, FS_Interval
<1> QED BY <1>1, <1>2, FS_Subset, FS_CardinalityType DEF Count

LEMMA CountAppend ==
  ASSUME NEW T, NEW s \in Seq(T), NEW e, NEW call, NEW d, NEW S
  PROVE  Count(Append(s, e), call, d, S)
           = Count(s, call, d, S) + Hit(e.call, e.at, call, d, S)
<1> DEFINE P == Places(s, call, d, S)
           Q == Places(Append(s, e), call, d, S)
<1>1. /\ Len(s) \in Nat /\ DOMAIN s = 1 .. Len(s)
      /\ DOMAIN Append(s, e) = 1 .. (Len(s) + 1)
      /\ \A i \in 1 .. Len(s) : Append(s, e)[i] = s[i]
      /\ Append(s, e)[Len(s) + 1] = e
  OBVIOUS
<1>2. IsFiniteSet(P) /\ Cardinality(P) \in Nat /\ Len(s) + 1 \notin P
  <2>1. IsFiniteSet(P)
    BY CountIsNat
  <2>2. Cardinality(P) \in Nat
    BY <2>1, FS_CardinalityType
  <2>3. Len(s) + 1 \notin P
    BY <1>1 DEF Places
  <2> QED BY <2>1, <2>2, <2>3
<1>3. CASE e.call = call /\ e.at - d \in S
  <2>1. Q = P \cup {Len(s) + 1}
    BY <1>1, <1>3 DEF Places
  <2> QED BY <2>1, <1>2, <1>3, FS_AddElement DEF Count, Hit
<1>4. CASE ~ (e.call = call /\ e.at - d \in S)
  <2>1. Q = P
    BY <1>1, <1>4 DEF Places
  <2> QED BY <2>1, <1>2, <1>4 DEF Count, Hit
<1> QED BY <1>3, <1>4

LEMMA CountAppendTimer ==
  ASSUME NEW T, NEW s \in Seq(T), NEW x, NEW c, NEW call, NEW d, NEW S
  PROVE  Count(Append(s, [at |-> x, call |-> c]), call, d, S)
           = Count(s, call, d, S) + Hit(c, x, call, d, S)
<1> DEFINE e == [at |-> x, call |-> c]
<1>1. e.at = x /\ e.call = c
  OBVIOUS
<1> HIDE DEF e
<1>2. Count(Append(s, e), call, d, S)
        = Count(s, call, d, S) + Hit(e.call, e.at, call, d, S)
  BY CountAppend
<1>3. Count(Append(s, e), call, d, S)
        = Count(s, call, d, S) + Hit(c, x, call, d, S)
  BY <1>1, <1>2, Zenon
<1> QED BY <1>3 DEF e

LEMMA CountRemoved ==
  ASSUME NEW T, NEW s \in Seq(T), NEW k \in DOMAIN s, NEW call, NEW d, NEW S
  PROVE  Count(Removed(s, k), call, d, S)
           = Count(s, call, d, S) - Hit(s[k].call, s[k].at, call, d, S)
<1> DEFINE P == Places(s, call, d, S)
           Q == Places(Removed(s, k), call, d, S)
           f == [i \in Q |-> IF i < k THEN i ELSE i + 1]
<1>1. /\ Len(s) \in Nat /\ DOMAIN s = 1 .. Len(s) /\ k \in 1 .. Len(s)
      /\ DOMAIN Removed(s, k) = 1 .. (Len(s) - 1)
      /\ \A i \in 1 .. (Len(s) - 1) :
           Removed(s, k)[i] = IF i < k THEN s[i] ELSE s[i + 1]
  BY DEF Removed
<1>2. IsFiniteSet(P) /\ Cardinality(P) \in Nat
  BY CountIsNat, FS_CardinalityType
<1>3. f \in Bijection(Q, P \ {k})
  <2>1. Q \subseteq 1 .. (Len(s) - 1) /\ P \subseteq 1 .. Len(s)
    BY <1>1 DEF Places
  <2>2. ASSUME NEW i \in Q PROVE f[i] \in P \ {k}
    <3>1. CASE i < k
      BY <3>1, <2>1, <1>1 DEF Places
    <3>2. CASE ~ i < k
      BY <3>2, <2>1, <1>1 DEF Places
    <3> QED BY <3>1, <3>2
  <2>3. ASSUME NEW i \in Q, NEW j \in Q, f[i] = f[j] PROVE i = j
    BY <2>3, <2>1, <1>1
  <2>4. ASSUME NEW j \in P \ {k} PROVE \E i \in Q : f[i] = j
    <3>1. CASE j < k
      <4>1. j \in Q
        BY <3>1, <2>1, <1>1 DEF Places
      <4> QED BY <4>1, <3>1
    <3>2. CASE j > k
      <4>1. j - 1 \in Q /\ ~ (j - 1 < k)
        BY <3>2, <2>1, <1>1 DEF Places
      <4>2. f[j - 1] = j
        BY <4>1, <3>2, <2>1, <1>1
      <4> QED BY <4>1, <4>2
    <3> QED BY <3>1, <3>2, <2>1, <1>1
  <2> QED BY <2>2, <2>3, <2>4, Fun_IsBij
<1>4. Cardinality(Q) = Cardinality(P \ {k})
  BY <1>2, <1>3, FS_RemoveElement, FS_Bijection, Fun_ExistsBijSymmetric
     DEF ExistsBijection
<1>5. CASE s[k].call = call /\ s[k].at - d \in S
  <2>1. k \in P
    BY <1>1, <1>5 DEF Places
  <2>2. Cardinality(P \ {k}) = Cardinality(P) - 1
    BY <2>1, <1>2, FS_RemoveElement
  <2>3. Hit(s[k].call, s[k].at, call, d, S) = 1
    BY <1>5 DEF Hit
  <2> QED BY <2>2, <2>3, <1>4 DEF Count
<1>6. CASE ~ (s[k].call = call /\ s[k].at - d \in S)
  <2>1. P \ {k} = P
    BY <1>1, <1>6 DEF Places
  <2>2. Hit(s[k].call, s[k].at, call, d, S) = 0
    BY <1>6 DEF Hit
  <2>3. Count(s, call, d, S) \in Nat
    BY CountIsNat
  <2>4. Count(Removed(s, k), call, d, S) = Count(s, call, d, S)
    BY <2>1, <1>4 DEF Count
  <2> QED BY <2>2, <2>3, <2>4
<1> QED BY <1>5, <1>6

(***************************************************************************)
(* Comparisons of counts.                                                  *)
(***************************************************************************)
LEMMA CountPositive ==
  ASSUME NEW T, NEW s \in Seq(T), NEW call, NEW d, NEW S,
         NEW k \in DOMAIN s, s[k].call = call, s[k].at - d \in S
  PROVE  Count(s, call, d, S) >= 1
<1>1. k \in Places(s, call, d, S)
  BY DEF Places
<1>2. Cardinality(Places(s, call, d, S)) # 0
  BY <1>1, CountIsNat, FS_EmptySet
<1> QED BY <1>2, CountIsNat DEF Count

LEMMA CountWitness ==
  ASSUME NEW T, NEW s \in Seq(T), NEW call, NEW d, NEW S,
         Count(s, call, d, S) # 0
  PROVE  \E k \in DOMAIN s : s[k].call = call /\ s[k].at - d \in S
<1>1. Places(s, call, d, S) # {}
  BY FS_EmptySet DEF Count
<1> QED BY <1>1 DEF Places

LEMMA CountSame ==
  ASSUME NEW s, NEW call, NEW d, NEW c, NEW S, NEW R,
         \A k \in DOMAIN s : s[k].call = call => (s[k].at - d \in S <=> s[k].at - c \in R)
  PROVE  Count(s, call, d, S) = Count(s, call, c, R)
<1>1. Places(s, call, d, S) = Places(s, call, c, R)
  BY DEF Places
<1> QED BY <1>1 DEF Count

\* Is place of S is not in R.
LEMMA CountLess ==
  ASSUME NEW T, NEW s \in Seq(T), NEW call, NEW d, NEW S, NEW R,
         R \subseteq S,
         NEW k \in DOMAIN s, s[k].call = call, s[k].at - d \in S \ R
  PROVE  Count(s, call, d, R) <= Count(s, call, d, S) - 1
<1> DEFINE P == Places(s, call, d, S)
           Q == Places(s, call, d, R)
<1>1. IsFiniteSet(P) /\ IsFiniteSet(Q)
      /\ Cardinality(P) \in Nat /\ Cardinality(Q) \in Nat
  BY CountIsNat, FS_CardinalityType
<1>2. Q \subseteq P \ {k} /\ k \in P
  BY DEF Places
<1>3. IsFiniteSet(P \ {k}) /\ Cardinality(P \ {k}) = Cardinality(P) - 1
  BY <1>1, <1>2, FS_RemoveElement
<1>4. Cardinality(Q) <= Cardinality(P \ {k})
  BY <1>2, <1>3, FS_Subset
<1> QED BY <1>3, <1>4 DEF Count

LEMMA CountMonotone ==
  ASSUME NEW T, NEW s \in Seq(T), NEW call, NEW d, NEW S, NEW R, R \subseteq S
  PROVE  Count(s, call, d, R) <= Count(s, call, d, S)
<1>1. Places(s, call, d, R) \subseteq Places(s, call, d, S)
  BY DEF Places
<1> QED BY <1>1, CountIsNat, FS_Subset DEF Count

----------------------------------------------------------------------------
(***************************************************************************)
(* The number of packets in a phase when one of them changes, comes or     *)
(* leaves.                                                                 *)
(***************************************************************************)
LEMMA NumIsNat ==
  ASSUME NEW q, IsFiniteSet(q), NEW st, NEW ph
  PROVE  IsFiniteSet(In(q, st, ph)) /\ Num(q, st, ph) \in Nat
<1>1. In(q, st, ph) \subseteq q
  BY DEF In
<1> QED BY <1>1, FS_Subset, FS_CardinalityType DEF Num

\* Only the vector of p changes.
Changes(q, st, new, p) == \A o \in q : o # p => new[o] = st[o]

LEMMA NumChange ==
  ASSUME NEW q, IsFiniteSet(q), NEW st, NEW new, NEW p \in q, NEW ph,
         Changes(q, st, new, p)
  PROVE  Num(q, new, ph)
           = Num(q, st, ph) - Is(Phase(st[p]), ph) + Is(Phase(new[p]), ph)
<1> DEFINE P == In(q, st, ph)
           Q == In(q, new, ph)
           R == P \ {p}
<1>1. /\ Q = IF Phase(new[p]) = ph THEN R \cup {p} ELSE R
      /\ P = IF Phase(st[p]) = ph THEN R \cup {p} ELSE R
      /\ p \notin R
  BY DEF In, Changes
<1>2. IsFiniteSet(R) /\ Cardinality(R) \in Nat
  BY NumIsNat, FS_RemoveElement, FS_CardinalityType
<1>3. Cardinality(R \cup {p}) = Cardinality(R) + 1
  BY <1>1, <1>2, FS_AddElement
<1>4. Cardinality(Q) = Cardinality(R) + Is(Phase(new[p]), ph)
  <2> HIDE DEF Q, R
  <2> QED BY <1>1, <1>2, <1>3 DEF Is
<1>5. Cardinality(P) = Cardinality(R) + Is(Phase(st[p]), ph)
  <2> HIDE DEF P, R
  <2> QED BY <1>1, <1>2, <1>3 DEF Is
<1>6. Is(Phase(new[p]), ph) \in Int /\ Is(Phase(st[p]), ph) \in Int
  BY DEF Is
<1> HIDE DEF R
<1> QED BY <1>2, <1>4, <1>5, <1>6 DEF Num

LEMMA NumAdd ==
  ASSUME NEW q, IsFiniteSet(q), NEW st, NEW p, p \notin q, NEW ph
  PROVE  Num(q \cup {p}, st, ph) = Num(q, st, ph) + Is(Phase(st[p]), ph)
<1>1. In(q \cup {p}, st, ph) = IF Phase(st[p]) = ph THEN In(q, st, ph) \cup {p}
                                                     ELSE In(q, st, ph)
  BY DEF In
<1>2. IsFiniteSet(In(q, st, ph)) /\ Num(q, st, ph) \in Nat /\ p \notin In(q, st, ph)
  BY NumIsNat DEF In
<1>3. Cardinality(In(q, st, ph) \cup {p}) = Num(q, st, ph) + 1
  BY <1>2, FS_AddElement DEF Num
<1> QED BY <1>1, <1>2, <1>3 DEF Num, Is

LEMMA NumRemove ==
  ASSUME NEW q, IsFiniteSet(q), NEW st, NEW p \in q, NEW ph
  PROVE  Num(q \ {p}, st, ph) = Num(q, st, ph) - Is(Phase(st[p]), ph)
<1>1. In(q \ {p}, st, ph) = In(q, st, ph) \ {p}
  BY DEF In
<1>2. IsFiniteSet(In(q, st, ph)) /\ Num(q, st, ph) \in Nat
  BY NumIsNat
<1>3. p \in In(q, st, ph) <=> Phase(st[p]) = ph
  BY DEF In
<1>4. Cardinality(In(q, st, ph) \ {p})
        = IF Phase(st[p]) = ph THEN Num(q, st, ph) - 1 ELSE Num(q, st, ph)
  BY <1>2, <1>3, FS_RemoveElement DEF Num
<1>5. Num(q \ {p}, st, ph) = Cardinality(In(q, st, ph) \ {p})
  BY <1>1 DEF Num
<1> QED BY <1>2, <1>4, <1>5 DEF Is

LEMMA NumPositive ==
  ASSUME NEW q, IsFiniteSet(q), NEW st, NEW ph
  PROVE  Num(q, st, ph) # 0 <=> In(q, st, ph) # {}
BY NumIsNat, FS_EmptySet DEF Num

(***************************************************************************)
(* The searches find the packets of a phase, the assignments move them to  *)
(* the next one.                                                           *)
(***************************************************************************)
LEMMA ConditionPhase ==
  ASSUME NEW s, VectorOK(s)
  PROVE  /\ Unsent(s) <=> Phase(s) = "unsent"
         /\ AwaitsCTS(s) <=> Phase(s) = "awaits_CTS"
         /\ HasCTS(s) <=> Phase(s) = "has_CTS"
         /\ AwaitsACK(s) <=> Phase(s) = "awaits_ACK"
         /\ HasACK(s) <=> Phase(s) = "has_ACK"
         /\ MaySendData(s) <=> Phase(s) \in {"awaits_ACK", "has_ACK"}
         /\ BackedOff(s) <=> Phase(s) = "backed_off"
<1> USE DEF VectorOK, StateVector, Bit, Phase
<1>1. Unsent(s) <=> Phase(s) = "unsent"
  BY DEF Unsent
<1>2. AwaitsCTS(s) <=> Phase(s) = "awaits_CTS"
  BY DEF AwaitsCTS, InFlight
<1>3. HasCTS(s) <=> Phase(s) = "has_CTS"
  BY DEF HasCTS, InFlight
<1>4. MaySendData(s) <=> Phase(s) \in {"awaits_ACK", "has_ACK"}
  BY DEF MaySendData, InFlight
<1>5. AwaitsACK(s) <=> Phase(s) = "awaits_ACK"
  BY DEF AwaitsACK, MaySendData, InFlight
<1>6. HasACK(s) <=> Phase(s) = "has_ACK"
  BY DEF HasACK, MaySendData, InFlight
<1>7. BackedOff(s) <=> Phase(s) = "backed_off"
  BY DEF BackedOff
<1> QED BY <1>1, <1>2, <1>3, <1>4, <1>5, <1>6, <1>7

\* The fields of a vector.
LEMMA Fields ==
  ASSUME NEW s \in StateVector
  PROVE  /\ s.send_stat \in Bit /\ s.backoff_stat \in Bit
         /\ s.RTS_TX_NUM \in Nat /\ s.CTS_RX_STAT \in Bit
         /\ s.CTS_RX_CK_STAT \in Bit /\ s.ACK_RX_STAT \in Bit
BY DEF StateVector

LEMMA StartSendingPhase ==
  ASSUME NEW s, VectorOK(s), Phase(s) = "unsent"
  PROVE  VectorOK(StartSending(s)) /\ Phase(StartSending(s)) = "awaits_CTS"
<1> DEFINE v == StartSending(s)
<1>1. s \in StateVector /\ s.send_stat = 0 /\ s.backoff_stat = 0
      /\ s.CTS_RX_STAT = 0 /\ s.CTS_RX_CK_STAT = 0 /\ s.ACK_RX_STAT = 0
  <2>1. s \in StateVector /\ s.backoff_stat \in Bit /\ s.send_stat = 0
    BY Fields DEF VectorOK, Phase
  <2> QED BY <2>1 DEF VectorOK
<1>2. s.RTS_TX_NUM \in Nat /\ s.RTS_TX_NUM + 1 \in Nat /\ s.RTS_TX_NUM + 1 # 0
  BY <1>1, Fields
<1>3. /\ v.send_stat = 1 /\ v.RTS_TX_NUM = s.RTS_TX_NUM + 1
      /\ v.backoff_stat = s.backoff_stat /\ v.CTS_RX_STAT = s.CTS_RX_STAT
      /\ v.CTS_RX_CK_STAT = s.CTS_RX_CK_STAT /\ v.ACK_RX_STAT = s.ACK_RX_STAT
      /\ v \in StateVector
  BY <1>1, <1>2 DEF StartSending, StateVector, Bit
<1> HIDE DEF v
<1>4. VectorOK(v) /\ Phase(v) = "awaits_CTS"
  BY <1>1, <1>2, <1>3 DEF VectorOK, Phase
<1> QED BY <1>4 DEF v

LEMMA EndBackOffPhase ==
  ASSUME NEW s, VectorOK(s)
  PROVE  VectorOK(EndBackOff(s)) /\ Phase(EndBackOff(s)) = "unsent"
<1> DEFINE v == EndBackOff(s)
<1>1. s \in StateVector
  BY DEF VectorOK
<1>2. /\ v.send_stat = 0 /\ v.RTS_TX_NUM = s.RTS_TX_NUM
      /\ v.backoff_stat = 0 /\ v.CTS_RX_STAT = 0
      /\ v.CTS_RX_CK_STAT = 0 /\ v.ACK_RX_STAT = 0
      /\ v \in StateVector
  BY <1>1 DEF EndBackOff, StateVector, Bit
<1> HIDE DEF v
<1>3. VectorOK(v) /\ Phase(v) = "unsent"
  BY <1>2 DEF VectorOK, Phase
<1> QED BY <1>3 DEF v

LEMMA AssignmentPhase ==
  ASSUME NEW s, VectorOK(s)
  PROVE  /\ Phase(s) = "awaits_CTS" =>
              VectorOK(RecordCTS(s)) /\ Phase(RecordCTS(s)) = "has_CTS"
         /\ Phase(s) = "has_CTS" =>
              VectorOK(CheckCTS(s)) /\ Phase(CheckCTS(s)) = "awaits_ACK"
         /\ Phase(s) = "awaits_ACK" =>
              VectorOK(RecordACK(s)) /\ Phase(RecordACK(s)) = "has_ACK"
         /\ Phase(s) \in {"awaits_CTS", "awaits_ACK"} =>
              VectorOK(StartBackOff(s)) /\ Phase(StartBackOff(s)) = "backed_off"
<1> USE DEF VectorOK, StateVector, Bit, Phase
<1>1. Phase(s) = "awaits_CTS" =>
        VectorOK(RecordCTS(s)) /\ Phase(RecordCTS(s)) = "has_CTS"
  BY DEF RecordCTS
<1>2. Phase(s) = "has_CTS" =>
        VectorOK(CheckCTS(s)) /\ Phase(CheckCTS(s)) = "awaits_ACK"
  BY DEF CheckCTS
<1>3. Phase(s) = "awaits_ACK" =>
        VectorOK(RecordACK(s)) /\ Phase(RecordACK(s)) = "has_ACK"
  BY DEF RecordACK
<1>4. Phase(s) \in {"awaits_CTS", "awaits_ACK"} =>
        VectorOK(StartBackOff(s)) /\ Phase(StartBackOff(s)) = "backed_off"
  BY DEF StartBackOff
<1> QED BY <1>1, <1>2, <1>3, <1>4

LEMMA NewPacketPhase == VectorOK(NewPacket) /\ Phase(NewPacket) = "unsent"
BY DEF VectorOK, StateVector, Bit, Phase, NewPacket

LEMMA MeetingPhase ==
  ASSUME TInv
  PROVE  /\ Meeting(Unsent) = In(queue, stat, "unsent")
         /\ Meeting(AwaitsCTS) = In(queue, stat, "awaits_CTS")
         /\ Meeting(HasCTS) = In(queue, stat, "has_CTS")
         /\ Meeting(AwaitsACK) = In(queue, stat, "awaits_ACK")
         /\ Meeting(HasACK) = In(queue, stat, "has_ACK")
         /\ Meeting(MaySendData)
              = In(queue, stat, "awaits_ACK") \cup In(queue, stat, "has_ACK")
         /\ Meeting(BackedOff) = In(queue, stat, "backed_off")
<1>1. \A p \in queue : VectorOK(stat[p])
  BY DEF TInv, Vectors
<1> QED BY <1>1, ConditionPhase DEF Meeting, In

\* The queue is finite, and its packets have a vector.
LEMMA QueueFinite ==
  ASSUME TInv
  PROVE  /\ IsFiniteSet(queue) /\ queue \subseteq DOMAIN stat
         /\ DOMAIN stat = DOMAIN arrival /\ DOMAIN arrival = 1 .. Len(arrival)
         /\ Len(arrival) \in Nat
<1>1. arrival \in Seq(Nat)
  BY ArrivalsAssumption DEF TInv, Typed, PacketsTyped
<1>2. /\ Len(arrival) \in Nat /\ DOMAIN arrival = 1 .. Len(arrival)
      /\ arrived \in Nat /\ 1 .. arrived \subseteq 1 .. Len(arrival)
      /\ queue \subseteq 1 .. arrived
      /\ DOMAIN stat = DOMAIN arrival
  BY <1>1 DEF TInv, Typed, PacketsTyped
<1>3. IsFiniteSet(1 .. arrived)
  BY <1>2, FS_Interval
<1> QED BY <1>2, <1>3, FS_Subset

----------------------------------------------------------------------------
(***************************************************************************)
(* Types of what a step changes.                                           *)
(***************************************************************************)
LEMMA StampIsNat ==
  ASSUME NEW t \in Nat
  PROVE  TimeStamp(t) \in Nat
BY DEF TimeStamp

LEMMA IntervalOnWheel ==
  ASSUME NEW i \in Int
  PROVE  /\ i % TIME_WHEEL_SIZE \in Nat
         /\ i \in 0 .. (TIME_WHEEL_SIZE - 1) => i % TIME_WHEEL_SIZE = i
<1>1. TIME_WHEEL_SIZE \in Nat /\ TIME_WHEEL_SIZE > 0
  BY WaitsAssumption
<1> QED BY <1>1

\* When a timer that is set now is due.
At(interval) == now + (interval % TIME_WHEEL_SIZE)

LEMMA AtType ==
  ASSUME TInv, NEW i \in Int
  PROVE  /\ At(i) \in Nat /\ At(i) >= now
         /\ i \in 0 .. (TIME_WHEEL_SIZE - 1) => At(i) = now + i
<1>1. now \in Nat
  BY DEF TInv, Typed, PacketsTyped
<1> QED BY <1>1, IntervalOnWheel DEF At

\* Two nodes.
LEMMA TwoPeers ==
  /\ Peer = {"A", "B"} /\ "A" \in Peer /\ "B" \in Peer
  /\ Other("A") = "B" /\ Other("B") = "A"
BY DEF Peer, Other

LEMMA TimersReplaced ==
  ASSUME TimersTyped, NEW n \in Peer, NEW x \in Seq(TimerOf(n)),
         timers' = [timers EXCEPT ![n] = x]
  PROVE  /\ TimersTyped'
         /\ timers'[n] = x
         /\ \A m \in Peer : m # n => timers'[m] = timers[m]
<1>1. /\ DOMAIN timers' = Peer /\ timers'[n] = x
      /\ \A m \in Peer : m # n => timers'[m] = timers[m]
  BY DEF TimersTyped
<1> QED BY <1>1 DEF TimersTyped

LEMMA SetTyped ==
  ASSUME TInv, NEW n \in Peer, NEW tmrs \in Seq(TimerOf(n)), NEW i \in Int,
         NEW call \in Calls(n), timers' = Set(n, tmrs, i, call)
  PROVE  /\ TimersTyped'
         /\ [at |-> At(i), call |-> call] \in TimerOf(n)
         /\ timers'[n] = Append(tmrs, [at |-> At(i), call |-> call])
         /\ \A m \in Peer : m # n => timers'[m] = timers[m]
<1> DEFINE e == [at |-> At(i), call |-> call]
<1>1. now \in Nat /\ TimersTyped
  BY DEF TInv, Typed, PacketsTyped
<1>2. At(i) \in Nat
  BY AtType
<1>3. e \in TimerOf(n)
  BY <1>2 DEF TimerOf
<1>4. timers' = [timers EXCEPT ![n] = Append(tmrs, e)]
  BY DEF Set, At
<1> HIDE DEF e
<1>5. Append(tmrs, e) \in Seq(TimerOf(n))
  BY <1>3
<1>6. /\ TimersTyped' /\ timers'[n] = Append(tmrs, e)
      /\ \A m \in Peer : m # n => timers'[m] = timers[m]
  BY <1>1, <1>4, <1>5, TimersReplaced
<1> QED BY <1>3, <1>6 DEF e

LEMMA RestTyped ==
  ASSUME TInv, NEW n \in Peer, NEW k \in DOMAIN timers[n]
  PROVE  /\ timers[n] \in Seq(TimerOf(n))
         /\ Rest(n, k) = Removed(timers[n], k)
         /\ Rest(n, k) \in Seq(TimerOf(n))
<1>1. timers[n] \in Seq(TimerOf(n))
  BY DEF TInv, Typed, TimersTyped
<1> QED BY <1>1, RestIsRemoved

LEMMA RemainTyped ==
  ASSUME TInv, NEW n \in Peer, NEW k \in DOMAIN timers[n], Remain(n, k)
  PROVE  /\ TimersTyped'
         /\ timers'[n] = Removed(timers[n], k)
         /\ \A m \in Peer : m # n => timers'[m] = timers[m]
<1>1. TimersTyped
  BY DEF TInv, Typed
<1>2. Rest(n, k) = Removed(timers[n], k) /\ Rest(n, k) \in Seq(TimerOf(n))
  BY RestTyped
<1>3. timers' = [timers EXCEPT ![n] = Rest(n, k)]
  BY DEF Remain
<1>4. /\ TimersTyped' /\ timers'[n] = Rest(n, k)
      /\ \A m \in Peer : m # n => timers'[m] = timers[m]
  BY <1>1, <1>2, <1>3, TimersReplaced
<1> QED BY <1>2, <1>4

LEMMA NextTurnTyped ==
  ASSUME TInv, NEW n \in Peer, NextTurn(n)
  PROVE  /\ TimersTyped'
         /\ \A m \in Peer : m # n => timers'[m] = timers[m]
<1> DEFINE s == timers[n]
           x == [k \in DOMAIN s |->
                   [at   |-> IF s[k].at = now THEN now + TIME_WHEEL_SIZE ELSE s[k].at,
                    call |-> s[k].call]]
<1>1. TimersTyped /\ s \in Seq(TimerOf(n))
  BY DEF TInv, Typed, TimersTyped
<1>2. timers' = [timers EXCEPT ![n] = x]
  BY DEF NextTurn
<1>3. ASSUME NEW k \in DOMAIN s PROVE x[k] \in TimerOf(n)
  <2>1. s[k] \in TimerOf(n) /\ TIME_WHEEL_SIZE \in Nat /\ now \in Nat
    BY <1>1, WaitsAssumption DEF TInv, Typed, PacketsTyped
  <2> QED BY <2>1 DEF TimerOf
<1>4. x \in Seq(TimerOf(n))
  <2>1. DOMAIN s = 1 .. Len(s) /\ Len(s) \in Nat
    BY <1>1
  <2>2. x \in [1 .. Len(s) -> TimerOf(n)]
    BY <2>1, <1>3
  <2> HIDE DEF x
  <2> QED BY <2>1, <2>2, SeqDef
<1> QED BY <1>1, <1>2, <1>4, TimersReplaced

LEMMA WriteTyped ==
  ASSUME TInv, NEW n \in Peer, NEW type, NEW pkt \in Nat, Write(n, type, pkt),
         type \in IF n = "B" THEN {"CTS", "ACK"} ELSE {"RTS", "DATA"},
         type = "DATA" => pkt \in 1 .. arrived,
         frame' = frame, arrived' = arrived
  PROVE  /\ FramesTyped'
         /\ cell'[Other(n)] = [type |-> type, tmv_stmp |-> TimeStamp(now), pkt |-> pkt]
         /\ cell'[n] = cell[n]
<1> DEFINE f == [type |-> type, tmv_stmp |-> TimeStamp(now), pkt |-> pkt]
<1>1. FramesTyped /\ TimeStamp(now) \in Nat
  BY StampIsNat DEF TInv, Typed, PacketsTyped
<1>2. Other(n) \in Peer /\ Other(n) # n
  BY DEF Peer, Other
<1>3. f \in FrameTo(Other(n))
  BY <1>1, TwoPeers DEF FrameTo, Peer, Other
<1>4. cell' = [cell EXCEPT ![Other(n)] = f]
  BY DEF Write
<1> HIDE DEF f
<1>5. /\ DOMAIN cell' = Peer /\ cell'[Other(n)] = f
      /\ \A m \in Peer : m # Other(n) => cell'[m] = cell[m]
  BY <1>1, <1>2, <1>4 DEF FramesTyped
<1>6. \A m \in Peer : FrameTo(m)' = FrameTo(m)
  BY DEF FrameTo
<1>7. FramesTyped'
  BY <1>1, <1>2, <1>3, <1>5, <1>6 DEF FramesTyped
<1> QED BY <1>2, <1>5, <1>7 DEF f

LEMMA CheckIsInt ==
  ASSUME TInv, NEW c \in coll
  PROVE  Check(c).back_off_tm \in Int
<1>1. /\ c.tmv_stmp \in Int /\ delay \in Int /\ TimeStamp(now) \in Int
      /\ MAX_PROP_DELAY \in Int /\ CFRM_GUARD_TIME \in Int /\ DATA_GUARD_TIME \in Int
  <2>1. now \in Nat /\ delay \in Int /\ c.tmv_stmp \in Int
    BY DEF TInv, Typed, PacketsTyped, MapTyped
  <2>2. TimeStamp(now) \in Nat
    BY <2>1, StampIsNat
  <2> QED BY <2>1, <2>2, TimesAssumption
<1>2. \A x \in Int : U16(x) \in Int
  BY DEF U16
<1>3. \A x, y \in Int : OrElse(x, y) \in Int
  BY DEF OrElse
<1>4. \A x, y \in Int : CfrmBackOff(x, y) \in Int
  BY <1>1 DEF CfrmBackOff, BackOff
<1>5. \A x, y \in Int : DataBackOff(x, y) \in Int
  <2>1. DATA_GUARD_TIME \div 2 \in Int
    BY <1>1
  <2> QED BY <1>1, <2>1 DEF DataBackOff, BackOff
<1>6. /\ \A x \in Int : Keep(x).back_off_tm \in Int
      /\ Expire.back_off_tm \in Int
  BY DEF Keep, Expire
<1>7. ASSUME NEW stmp \in Int, NEW cur \in Int, NEW det \in Int, NEW oth \in Int,
             NEW sd \in Int
      PROVE  /\ ckRTS(stmp, cur, det, oth, sd).back_off_tm \in Int
             /\ ckCTS(stmp, cur, det, oth, sd).back_off_tm \in Int
             /\ ckDATA(stmp, cur, det, oth).back_off_tm \in Int
  <2> DEFINE P == MAX_PROP_DELAY
  <2>1. /\ cur + det \in Int /\ cur + 2 * P + det \in Int
        /\ stmp + P + oth \in Int /\ stmp + 3 * P + oth \in Int
        /\ cur + P + sd \in Int /\ cur + 3 * P + sd \in Int
        /\ stmp + 2 * P + det \in Int
    BY <1>1
  <2> DEFINE a == U16(cur + det)           b == U16(cur + 2 * P + det)
             c1 == U16(stmp + P + oth)     d == U16(stmp + 3 * P + oth)
             e == U16(cur + P + sd)        g == U16(cur + 3 * P + sd)
             h == U16(stmp + 2 * P + det)
  <2>2. /\ a \in Int /\ b \in Int /\ c1 \in Int /\ d \in Int /\ e \in Int
        /\ g \in Int /\ h \in Int
    BY <1>2, <2>1
  <2> HIDE DEF P
  <2>3. ckRTS(stmp, cur, det, oth, sd)
          = IF a > d + CFRM_GUARD_TIME THEN Expire
            ELSE Keep(OrElse(CfrmBackOff(a, c1), OrElse(CfrmBackOff(a, d),
                      OrElse(CfrmBackOff(b, c1), OrElse(CfrmBackOff(b, d),
                      OrElse(CfrmBackOff(b, e), CfrmBackOff(b, g)))))))
    BY DEF ckRTS, P
  <2>4. ckCTS(stmp, cur, det, oth, sd)
          = LET tm == OrElse(DataBackOff(a, c1), OrElse(DataBackOff(b, c1),
                      OrElse(CfrmBackOff(h, e), CfrmBackOff(h, g))))
            IN  IF tm # 0 THEN Keep(tm)
                ELSE IF a > h + CFRM_GUARD_TIME THEN Expire ELSE Keep(0)
    BY DEF ckCTS, P
  <2>5. ckDATA(stmp, cur, det, oth)
          = LET tm == OrElse(CfrmBackOff(a, c1), CfrmBackOff(b, c1))
            IN  IF tm # 0 THEN Keep(tm)
                ELSE IF a > c1 + CFRM_GUARD_TIME THEN Expire ELSE Keep(0)
    BY DEF ckDATA, P
  <2> HIDE DEF a, b, c1, d, e, g, h
  <2>6. ckRTS(stmp, cur, det, oth, sd).back_off_tm \in Int
    BY <2>2, <2>3, <1>3, <1>4, <1>6
  <2>7. ckCTS(stmp, cur, det, oth, sd).back_off_tm \in Int
    BY <2>2, <2>4, <1>3, <1>4, <1>5, <1>6
  <2>8. ckDATA(stmp, cur, det, oth).back_off_tm \in Int
    BY <2>2, <2>5, <1>3, <1>4, <1>6
  <2> QED BY <2>6, <2>7, <2>8
<1>8. /\ ckRTS(c.tmv_stmp, TimeStamp(now), delay, 0, delay).back_off_tm \in Int
      /\ ckCTS(c.tmv_stmp, TimeStamp(now), delay, 0, delay).back_off_tm \in Int
      /\ ckDATA(c.tmv_stmp, TimeStamp(now), delay, 0).back_off_tm \in Int
  <2>1. 0 \in Int
    OBVIOUS
  <2> QED BY <1>1, <1>7, <2>1, ZenonT(30)
<1>9. Check(c) \in {ckRTS(c.tmv_stmp, TimeStamp(now), delay, 0, delay),
                   ckCTS(c.tmv_stmp, TimeStamp(now), delay, 0, delay),
                   ckDATA(c.tmv_stmp, TimeStamp(now), delay, 0), Expire}
  BY ONLY DEF Check, ck_collision
<1> QED BY <1>6, <1>8, <1>9

LEMMA SendRTSTyped ==
  ASSUME TInv, NEW tmrs \in Seq(TimerOf("A")), SendRTS(tmrs),
         frame' = frame, arrived' = arrived
  PROVE  /\ TimersTyped' /\ timers'["B"] = timers["B"]
         /\ FramesTyped' /\ cell'["A"] = cell["A"]
         /\ \A c \in coll' : c.tmv_stmp \in Nat
<1>1. coll' \subseteq coll
  BY DEF SendRTS, WriteRTS, PutOffRTS, DelExpired
<1>2. \A c \in coll : c.tmv_stmp \in Nat
  BY DEF TInv, Typed, MapTyped
<1>3. {"RTS", "wait_CTS"} \subseteq Calls("A")
  BY DEF Calls
<1>4. CASE WriteRTS(tmrs)
  <2>1. Write("A", "RTS", 0) /\ timers' = Set("A", tmrs, WAIT_FB_TIME, "wait_CTS")
    BY <1>4 DEF WriteRTS
  <2>2. TimersTyped' /\ timers'["B"] = timers["B"]
    <3>1. WAIT_FB_TIME \in Int
      BY WaitsAssumption
    <3> QED BY <3>1, <2>1, <1>3, TwoPeers, SetTyped
  <2>3. FramesTyped' /\ cell'["A"] = cell["A"]
    BY <2>1, TwoPeers, WriteTyped
  <2> QED BY <1>1, <1>2, <2>2, <2>3
<1>5. CASE PutOffRTS(tmrs)
  <2>1. PICK c \in coll : timers' = Set("A", tmrs, Check(c).back_off_tm, "RTS")
    BY <1>5 DEF PutOffRTS
  <2>2. TimersTyped' /\ timers'["B"] = timers["B"]
    BY <2>1, <1>3, TwoPeers, CheckIsInt, SetTyped
  <2>3. FramesTyped' /\ cell'["A"] = cell["A"]
    BY <1>5 DEF PutOffRTS, TInv, Typed, FramesTyped, FrameTo
  <2> QED BY <1>1, <1>2, <2>2, <2>3
<1> QED BY <1>4, <1>5 DEF SendRTS

----------------------------------------------------------------------------
(***************************************************************************)
(* Types, vectors and the order of deliveries are preserved.               *)
(***************************************************************************)
LEMMA InPhase ==
  ASSUME TInv, NEW ph, NEW p \in In(queue, stat, ph)
  PROVE  p \in queue /\ p \in DOMAIN stat /\ VectorOK(stat[p]) /\ Phase(stat[p]) = ph
<1>1. p \in queue /\ Phase(stat[p]) = ph
  BY DEF In
<1>2. VectorOK(stat[p])
  BY <1>1 DEF TInv, Vectors
<1> QED BY <1>1, <1>2, QueueFinite

LEMMA VectorChanged ==
  ASSUME TInv, NEW p \in queue, NEW v, VectorOK(v), stat' = [stat EXCEPT ![p] = v],
         queue' \subseteq queue, UNCHANGED <<arrival, arrived>>
  PROVE  stat' \in [DOMAIN arrival' -> StateVector] /\ Vectors'
<1>1. p \in DOMAIN stat /\ p \in 1 .. arrived /\ arrived \in Nat
      /\ stat \in [DOMAIN arrival -> StateVector]
  <2>1. p \in DOMAIN stat
    BY QueueFinite
  <2>2. queue \subseteq 1 .. arrived /\ arrived \in 0 .. Len(arrival)
        /\ Len(arrival) \in Nat /\ stat \in [DOMAIN arrival -> StateVector]
    BY QueueFinite DEF TInv, Typed, PacketsTyped
  <2> QED BY <2>1, <2>2
<1>2. v \in StateVector
  BY DEF VectorOK
<1>3. /\ stat'[p] = v /\ \A o \in DOMAIN arrival : o # p => stat'[o] = stat[o]
      /\ stat' \in [DOMAIN arrival -> StateVector]
  BY <1>1, <1>2
<1>4. \A o \in queue' : VectorOK(stat'[o])
  <2>1. queue \subseteq DOMAIN arrival
    BY QueueFinite
  <2> QED BY <1>3, <2>1 DEF TInv, Vectors
<1>5. \A o \in DOMAIN arrival : o > arrived => stat'[o] = NewPacket
  BY <1>1, <1>3 DEF TInv, Vectors
<1> QED BY <1>3, <1>4, <1>5 DEF Vectors

\* No ACK is announced by what has not changed.
LEMMA AcksFollowKept ==
  ASSUME TInv, delivered' = delivered,
         \A k \in DOMAIN timers'["B"] : timers'["B"][k].call = "ACK" =>
            \E j \in DOMAIN timers["B"] : timers["B"][j].call = "ACK",
         cell'["A"].type = "ACK" => AckUnderWay,
         frame'["A"].type = "ACK" => AckUnderWay,
         \A p \in queue' : stat'[p].ACK_RX_STAT = 1 => AckUnderWay,
         acked' # {} => AckUnderWay
  PROVE  AcksFollow'
<1>1. AckUnderWay' => AckUnderWay
  BY DEF AckUnderWay
<1> QED BY <1>1 DEF TInv, AcksFollow

\* The timers that are left of those of B.
LEMMA AckTimersLeft ==
  ASSUME TInv, NEW k \in DOMAIN timers["B"],
         timers'["B"] = Removed(timers["B"], k),
         NEW i \in DOMAIN timers'["B"], timers'["B"][i].call = "ACK"
  PROVE  \E j \in DOMAIN timers["B"] : timers["B"][j].call = "ACK"
<1>1. DOMAIN timers["B"] = 1 .. Len(timers["B"]) /\ Len(timers["B"]) \in Nat
  <2>1. timers["B"] \in Seq(TimerOf("B"))
    BY TwoPeers DEF TInv, Typed, TimersTyped
  <2> QED BY <2>1
<1>2. i \in 1 .. (Len(timers["B"]) - 1)
      /\ timers'["B"][i] = timers["B"][IF i < k THEN i ELSE i + 1]
  BY <1>1 DEF Removed
<1>3. (IF i < k THEN i ELSE i + 1) \in DOMAIN timers["B"]
  BY <1>1, <1>2
<1> QED BY <1>2, <1>3

LEMMA AckTimersMore ==
  ASSUME TInv, NEW e, timers'["B"] = Append(timers["B"], e), e.call # "ACK",
         NEW i \in DOMAIN timers'["B"], timers'["B"][i].call = "ACK"
  PROVE  \E j \in DOMAIN timers["B"] : timers["B"][j].call = "ACK"
<1> DEFINE s == timers["B"]
<1>1. s \in Seq(TimerOf("B"))
  BY TwoPeers DEF TInv, Typed, TimersTyped
<1> HIDE DEF s
<1>2. /\ DOMAIN s = 1 .. Len(s) /\ Len(s) \in Nat
      /\ DOMAIN Append(s, e) = 1 .. (Len(s) + 1)
      /\ \A j \in 1 .. Len(s) : Append(s, e)[j] = s[j]
      /\ Append(s, e)[Len(s) + 1] = e
  BY <1>1
<1>3. i \in 1 .. (Len(s) + 1) /\ Append(s, e)[i].call = "ACK"
  BY <1>2 DEF s
<1>4. i \in DOMAIN s /\ s[i].call = "ACK"
  BY <1>2, <1>3
<1> QED BY <1>4 DEF s

LEMMA SeqWider ==
  ASSUME NEW m \in Nat, NEW s \in Seq(1 .. m)
  PROVE  s \in Seq(1 .. (m + 1))
<1>1. PICK n \in Nat : s \in [1 .. n -> 1 .. m]
  BY SeqDef
<1>2. s \in [1 .. n -> 1 .. (m + 1)]
  BY <1>1
<1> QED BY <1>2, SeqDef

LEMMA InitTInv == Init => TInv
<1> SUFFICES ASSUME Init PROVE TInv
  OBVIOUS
<1> USE DEF Init
<1>1. arrival \in Seq(Nat) /\ Len(arrival) \in Nat /\ DOMAIN arrival = 1 .. Len(arrival)
      /\ Len(arrival) # 0
  BY ArrivalsAssumption
<1>2. PacketsTyped
  <2>1. stat \in [DOMAIN arrival -> StateVector]
    BY NewPacketPhase DEF VectorOK
  <2>2. now \in Nat
    BY <1>1
  <2>3. delivered \in Seq(1 .. arrived)
    OBVIOUS
  <2> QED BY <1>1, <2>1, <2>2, <2>3 DEF PacketsTyped
<1>3. MapTyped /\ TimersTyped /\ FramesTyped /\ MainTyped
  BY DEF MapTyped, TimersTyped, FramesTyped, MainTyped, Peer
<1>4. Vectors
  BY <1>1 DEF Vectors
<1>5. AcksFollow
  <2>1. ~ AckUnderWay
    BY DEF AckUnderWay, NoFrame
  <2> QED BY <2>1 DEF AcksFollow
<1> QED BY <1>2, <1>3, <1>4, <1>5 DEF TInv, Typed

LEMMA AddPacketTInv ==
  ASSUME TInv, AddPacket
  PROVE  TInv'
<1>1. /\ arrived' = arrived + 1 /\ queue' = queue \cup {arrived + 1}
      /\ arrived < Len(arrival)
      /\ UNCHANGED <<now, arrival, stat, delay, coll, timers, cell, pc, frame,
                     delivered, acked>>
  BY DEF AddPacket, PacketReady, mapVars, mainVars, logVars
<1>2. /\ PacketsTyped /\ MapTyped /\ TimersTyped /\ FramesTyped /\ MainTyped
      /\ Vectors /\ AcksFollow
  BY DEF TInv, Typed
<1>3. arrived \in Nat /\ Len(arrival) \in Nat /\ arrived + 1 \in 1 .. Len(arrival)
      /\ DOMAIN arrival = 1 .. Len(arrival)
  BY <1>1, <1>2, QueueFinite DEF PacketsTyped
<1>4. PacketsTyped'
  <2>1. delivered \in Seq(1 .. (arrived + 1))
    BY <1>2, <1>3, SeqWider DEF PacketsTyped
  <2>2. 1 .. arrived \subseteq 1 .. (arrived + 1) /\ arrived + 1 \in 1 .. (arrived + 1)
    BY <1>3
  <2> QED BY <1>1, <1>2, <1>3, <2>1, <2>2 DEF PacketsTyped
<1>5. MapTyped' /\ TimersTyped' /\ MainTyped'
  BY <1>1, <1>2 DEF MapTyped, TimersTyped, MainTyped
<1>6. FramesTyped'
  <2>1. \A n \in Peer : FrameTo(n) \subseteq FrameTo(n)'
    BY <1>1, <1>3 DEF FrameTo
  <2> QED BY <1>1, <1>2, <2>1 DEF FramesTyped
<1>7. stat[arrived + 1] = NewPacket
  BY <1>2, <1>3 DEF Vectors
<1>8. Vectors'
  <2>1. \A p \in DOMAIN arrival : p > arrived + 1 => stat[p] = NewPacket
    BY <1>2, <1>3 DEF Vectors
  <2> QED BY <1>1, <1>2, <1>7, <2>1, NewPacketPhase DEF Vectors
<1>9. AcksFollow'
  <2>1. \A p \in queue' : stat'[p].ACK_RX_STAT = 1 => AckUnderWay
    BY <1>1, <1>7 DEF AckUnderWay, NewPacket
  <2> QED BY <1>1, <2>1, AcksFollowKept DEF AckUnderWay
<1> QED BY <1>4, <1>5, <1>6, <1>8, <1>9 DEF TInv, Typed

LEMMA StartPacketTInv ==
  ASSUME TInv, StartPacket
  PROVE  TInv'
<1>1. PICK p \in Meeting(Unsent) : Change(p, StartSending)
  BY DEF StartPacket
<1>2. /\ SendRTS(timers["A"])
      /\ UNCHANGED <<now, arrival, arrived, queue, delay, pc, frame, delivered, acked>>
  BY DEF StartPacket, mainVars
<1>3. p \in queue /\ VectorOK(stat[p]) /\ Phase(stat[p]) = "unsent" /\ p \in DOMAIN stat
  BY MeetingPhase, InPhase
<1>4. VectorOK(StartSending(stat[p])) /\ stat' = [stat EXCEPT ![p] = StartSending(stat[p])]
  BY <1>1, <1>3, StartSendingPhase DEF Change
<1>5. stat' \in [DOMAIN arrival' -> StateVector] /\ Vectors'
  BY <1>2, <1>3, <1>4, VectorChanged
<1>6. /\ TimersTyped' /\ timers'["B"] = timers["B"]
      /\ FramesTyped' /\ cell'["A"] = cell["A"]
      /\ \A c \in coll' : c.tmv_stmp \in Nat
  <2>1. timers["A"] \in Seq(TimerOf("A"))
    BY TwoPeers DEF TInv, Typed, TimersTyped
  <2> QED BY <1>2, <2>1, SendRTSTyped
<1>7. PacketsTyped' /\ MapTyped' /\ MainTyped'
  BY <1>2, <1>5, <1>6 DEF TInv, Typed, PacketsTyped, MapTyped, MainTyped
<1>8. AcksFollow'
  <2>1. \A o \in queue' : stat'[o].ACK_RX_STAT = 1 => AckUnderWay
    <3>1. StartSending(stat[p]).ACK_RX_STAT = stat[p].ACK_RX_STAT
      BY <1>3 DEF StartSending, VectorOK, StateVector
    <3>2. \A o \in queue : stat'[o].ACK_RX_STAT = stat[o].ACK_RX_STAT
      BY <1>3, <1>4, <3>1, QueueFinite
    <3> QED BY <1>2, <3>2 DEF AckUnderWay
  <2> QED BY <1>2, <1>6, <2>1, AcksFollowKept DEF AckUnderWay
<1> QED BY <1>5, <1>6, <1>7, <1>8 DEF TInv, Typed

LEMMA GiveUpTInv ==
  ASSUME TInv, GiveUp
  PROVE  TInv'
<1>1. /\ queue' \subseteq queue
      /\ UNCHANGED <<now, arrival, arrived, stat, delay, coll, timers, cell, pc,
                     frame, delivered, acked>>
  BY DEF GiveUp, mapVars, mainVars, logVars
<1>2. Typed'
  BY <1>1 DEF TInv, Typed, PacketsTyped, MapTyped, TimersTyped, FramesTyped,
     FrameTo, MainTyped
<1>3. Vectors'
  BY <1>1 DEF TInv, Vectors
<1>4. AcksFollow'
  BY <1>1, AcksFollowKept DEF AckUnderWay
<1> QED BY <1>2, <1>3, <1>4 DEF TInv

LEMMA ReadFrameTInv ==
  ASSUME TInv, NEW n \in Peer, ReadFrame(n)
  PROVE  TInv'
<1>1. /\ pc[n] = "poll" /\ cell[n] # NoFrame
      /\ frame' = [frame EXCEPT ![n] = cell[n]]
      /\ cell' = [cell EXCEPT ![n] = NoFrame]
      /\ pc' = [pc EXCEPT ![n] = "rx_sleep"]
      /\ timers' = Set(n, timers[n], CFRM_PROC_TIME, "rx_v_sleep")
      /\ UNCHANGED <<now, arrival, arrived, queue, stat, delay, coll, delivered, acked>>
  BY DEF ReadFrame, queueVars, mapVars, logVars
<1>2. /\ PacketsTyped /\ MapTyped /\ TimersTyped /\ FramesTyped /\ MainTyped
  BY DEF TInv, Typed
<1>3. /\ TimersTyped' /\ \A m \in Peer : m # n => timers'[m] = timers[m]
      /\ timers'[n] = Append(timers[n], [at |-> At(CFRM_PROC_TIME),
                                         call |-> "rx_v_sleep"])
  <2>1. timers[n] \in Seq(TimerOf(n)) /\ CFRM_PROC_TIME \in Int
        /\ "rx_v_sleep" \in Calls(n)
    BY <1>2, WaitsAssumption DEF TimersTyped, Calls
  <2> QED BY <1>1, <2>1, SetTyped
<1>4. PacketsTyped' /\ MapTyped' /\ MainTyped'
  BY <1>1, <1>2 DEF PacketsTyped, MapTyped, MainTyped, Peer
<1>5. FramesTyped'
  <2>1. \A m \in Peer : FrameTo(m)' = FrameTo(m)
    BY <1>1 DEF FrameTo
  <2> QED BY <1>1, <1>2, <2>1 DEF FramesTyped
<1>6. Vectors'
  BY <1>1 DEF TInv, Vectors
<1>7. AcksFollow'
  <2>1. cell'["A"].type = "ACK" => AckUnderWay
    BY <1>1, <1>2, TwoPeers DEF FramesTyped, AckUnderWay, NoFrame
  <2>2. frame'["A"].type = "ACK" => AckUnderWay
    BY <1>1, <1>2, TwoPeers DEF FramesTyped, AckUnderWay
  <2>3. ASSUME NEW i \in DOMAIN timers'["B"], timers'["B"][i].call = "ACK"
        PROVE  \E j \in DOMAIN timers["B"] : timers["B"][j].call = "ACK"
    <3>1. CASE n = "B"
      BY <3>1, <2>3, <1>3, AckTimersMore
    <3>2. CASE n = "A"
      BY <3>2, <2>3, <1>3, TwoPeers
    <3> QED BY <3>1, <3>2, TwoPeers
  <2> QED BY <1>1, <2>1, <2>2, <2>3, AcksFollowKept DEF AckUnderWay
<1> QED BY <1>3, <1>4, <1>5, <1>6, <1>7 DEF TInv, Typed

\* A frame is taken out of a cell unread.
LEMMA FrameLostTInv ==
  ASSUME TInv, NEW n \in Peer, DropFrames(n) \/ Lose(n)
  PROVE  TInv'
<1>1. /\ cell' = [cell EXCEPT ![n] = NoFrame]
      /\ pc' = pc \/ pc' = [pc EXCEPT ![n] = "poll"]
      /\ UNCHANGED <<now, arrival, arrived, queue, stat, delay, coll, timers, frame,
                     delivered, acked>>
  BY DEF DropFrames, Lose, queueVars, mapVars, logVars, mainVars
<1>2. /\ PacketsTyped /\ MapTyped /\ TimersTyped /\ FramesTyped /\ MainTyped
  BY DEF TInv, Typed
<1>3. PacketsTyped' /\ MapTyped' /\ TimersTyped' /\ MainTyped'
  BY <1>1, <1>2 DEF PacketsTyped, MapTyped, TimersTyped, MainTyped, Peer
<1>4. FramesTyped'
  <2>1. \A m \in Peer : FrameTo(m)' = FrameTo(m)
    BY <1>1 DEF FrameTo
  <2> QED BY <1>1, <1>2, <2>1 DEF FramesTyped
<1>5. Vectors'
  BY <1>1 DEF TInv, Vectors
<1>6. AcksFollow'
  <2>1. cell'["A"].type = "ACK" => AckUnderWay
    BY <1>1, <1>2, TwoPeers DEF FramesTyped, AckUnderWay, NoFrame
  <2> QED BY <1>1, <2>1, AcksFollowKept DEF AckUnderWay
<1> QED BY <1>3, <1>4, <1>5, <1>6 DEF TInv, Typed

LEMMA ReceiveDataTInv ==
  ASSUME TInv, ReceiveData
  PROVE  TInv'
<1>1. /\ pc' = [pc EXCEPT !["B"] = "tx_sleep"]
      /\ timers' = Set("B", timers["B"], DATA_PKT_PROC_TIME, "tx_v_sleep")
      /\ UNCHANGED <<now, arrival, arrived, queue, stat, delay, coll, cell, frame,
                     delivered, acked>>
  BY DEF ReceiveData, queueVars, mapVars, logVars
<1>2. /\ TimersTyped'
      /\ timers'["B"] = Append(timers["B"], [at |-> At(DATA_PKT_PROC_TIME),
                                             call |-> "tx_v_sleep"])
  <2>1. timers["B"] \in Seq(TimerOf("B")) /\ DATA_PKT_PROC_TIME \in Int
        /\ "tx_v_sleep" \in Calls("B")
    BY WaitsAssumption, TwoPeers DEF TInv, Typed, TimersTyped, Calls
  <2> QED BY <1>1, <2>1, TwoPeers, SetTyped
<1>3. PacketsTyped' /\ MapTyped' /\ FramesTyped' /\ MainTyped'
  BY <1>1 DEF TInv, Typed, PacketsTyped, MapTyped, FramesTyped, FrameTo, MainTyped, Peer
<1>4. Vectors'
  BY <1>1 DEF TInv, Vectors
<1>5. AcksFollow'
  <2>1. ASSUME NEW i \in DOMAIN timers'["B"], timers'["B"][i].call = "ACK"
        PROVE  \E j \in DOMAIN timers["B"] : timers["B"][j].call = "ACK"
    BY <2>1, <1>2, AckTimersMore
  <2> QED BY <1>1, <2>1, AcksFollowKept DEF AckUnderWay
<1> QED BY <1>2, <1>3, <1>4, <1>5 DEF TInv, Typed

\* The time left to answer is an integer.
LEMMA IntervalIsInt ==
  ASSUME TInv, NEW n \in Peer
  PROVE  frame[n].tmv_stmp \in Nat /\ cell[n].tmv_stmp \in Nat /\ Interval(n) \in Int
<1>1. frame[n] \in FrameTo(n) \cup {NoFrame} /\ cell[n] \in FrameTo(n) \cup {NoFrame}
      /\ now \in Nat
  BY DEF TInv, Typed, FramesTyped, PacketsTyped
<1>2. frame[n].tmv_stmp \in Nat /\ cell[n].tmv_stmp \in Nat
  BY <1>1 DEF FrameTo, NoFrame
<1>3. TimeStamp(now) \in Nat
  BY <1>1, StampIsNat
<1> QED BY <1>2, <1>3, TimesAssumption DEF Interval

LEMMA AnswerTInv ==
  ASSUME TInv, ProcRTS \/ ProcData
  PROVE  TInv'
<1>1. PICK call \in {"CTS", "ACK"} :
        /\ timers' = Set("B", timers["B"], Interval("B"), call)
        /\ pc' = [pc EXCEPT !["B"] = "poll"]
        /\ UNCHANGED <<now, arrival, arrived, queue, stat, delay, coll, cell, frame, acked>>
        /\ \/ call = "CTS" /\ UNCHANGED delivered
           \/ frame["B"].type = "DATA" /\ delivered' = Append(delivered, frame["B"].pkt)
  BY DEF ProcRTS, ProcData, Answer, queueVars, mapVars
<1>2. /\ TimersTyped'
      /\ timers'["B"] = Append(timers["B"], [at |-> At(Interval("B")),
                                             call |-> call])
  <2>1. timers["B"] \in Seq(TimerOf("B")) /\ call \in Calls("B")
    BY TwoPeers DEF TInv, Typed, TimersTyped, Calls
  <2> QED BY <1>1, <2>1, TwoPeers, IntervalIsInt, SetTyped
<1>3. delivered' \in Seq(1 .. arrived)
      /\ (delivered' = delivered \/ delivered' # <<>>)
  <2>1. delivered \in Seq(1 .. arrived)
    BY DEF TInv, Typed, PacketsTyped
  <2>2. frame["B"].type = "DATA" => frame["B"].pkt \in 1 .. arrived
    BY TwoPeers DEF TInv, Typed, FramesTyped, FrameTo, NoFrame
  <2>3. \A x \in 1 .. arrived : /\ Append(delivered, x) \in Seq(1 .. arrived)
                               /\ Append(delivered, x) # <<>>
    BY <2>1
  <2>4. CASE UNCHANGED delivered
    BY <2>1, <2>4
  <2>5. CASE frame["B"].type = "DATA" /\ delivered' = Append(delivered, frame["B"].pkt)
    BY <2>2, <2>3, <2>5
  <2> QED BY <1>1, <2>4, <2>5
<1>4. PacketsTyped' /\ MapTyped' /\ FramesTyped' /\ MainTyped'
  BY <1>1, <1>3 DEF TInv, Typed, PacketsTyped, MapTyped, FramesTyped, FrameTo, MainTyped, Peer
<1>5. Vectors'
  BY <1>1 DEF TInv, Vectors
<1>6. AcksFollow'
  <2>1. CASE call = "CTS" /\ UNCHANGED delivered
    <3>1. ASSUME NEW i \in DOMAIN timers'["B"], timers'["B"][i].call = "ACK"
          PROVE  \E j \in DOMAIN timers["B"] : timers["B"][j].call = "ACK"
      BY <2>1, <3>1, <1>2, AckTimersMore
    <3> QED BY <1>1, <2>1, <3>1, AcksFollowKept DEF AckUnderWay
  <2>2. CASE delivered' # <<>>
    BY <2>2 DEF AcksFollow
  <2>3. delivered' = Append(delivered, frame["B"].pkt) => delivered' # <<>>
    <3>1. delivered \in Seq(1 .. arrived)
      BY DEF TInv, Typed, PacketsTyped
    <3> QED BY <3>1
  <2> QED BY <1>1, <2>1, <2>2, <2>3
<1> QED BY <1>2, <1>4, <1>5, <1>6 DEF TInv, Typed

\* A has noted a frame of B.
LEMMA LearnTyped ==
  ASSUME TInv, Learn
  PROVE  MapTyped'
<1>1. /\ delay' = (TimeStamp(now) - frame["A"].tmv_stmp) % 256
      /\ coll' = coll \cup {[type |-> frame["A"].type, heard |-> now,
                             tmv_stmp |-> frame["A"].tmv_stmp]}
  BY DEF Learn
<1>2. frame["A"].tmv_stmp \in Nat
  BY TwoPeers, IntervalIsInt
<1>3. TimeStamp(now) \in Nat
  BY StampIsNat DEF TInv, Typed, PacketsTyped
<1>4. delay' \in 0 .. 255
  <2>1. \A x \in Int : x % 256 \in 0 .. 255
    OBVIOUS
  <2>2. TimeStamp(now) - frame["A"].tmv_stmp \in Int
    BY <1>2, <1>3
  <2> QED BY <1>1, <2>1, <2>2
<1>5. \A c \in coll' : c.tmv_stmp \in Nat
  BY <1>1, <1>2 DEF TInv, Typed, MapTyped
<1> QED BY <1>4, <1>5 DEF MapTyped

LEMMA ProcCTSTInv ==
  ASSUME TInv, ProcCTS
  PROVE  TInv'
<1>1. /\ timers' = Set("A", timers["A"], Interval("A"), "DATA")
      /\ UNCHANGED <<now, arrival, arrived, queue, cell, frame, delivered, acked>>
      /\ pc' \in {[pc EXCEPT !["A"] = "poll"], [pc EXCEPT !["A"] = "exited"]}
  BY DEF ProcCTS, Recorded, logVars
<1>2. /\ TimersTyped' /\ timers'["B"] = timers["B"]
  <2>1. timers["A"] \in Seq(TimerOf("A")) /\ "DATA" \in Calls("A")
    BY TwoPeers DEF TInv, Typed, TimersTyped, Calls
  <2> QED BY <1>1, <2>1, TwoPeers, IntervalIsInt, SetTyped
<1>3. MapTyped'
  BY LearnTyped DEF ProcCTS
<1>4. /\ stat' \in [DOMAIN arrival' -> StateVector] /\ Vectors'
      /\ \A o \in queue' : stat'[o].ACK_RX_STAT = 1 => AckUnderWay
  <2>1. CASE UNCHANGED stat
    BY <2>1, <1>1 DEF TInv, Typed, PacketsTyped, Vectors, AckUnderWay
  <2>2. ASSUME NEW p \in Meeting(AwaitsCTS), Change(p, RecordCTS)
        PROVE  /\ stat' \in [DOMAIN arrival' -> StateVector] /\ Vectors'
               /\ \A o \in queue' : stat'[o].ACK_RX_STAT = 1 => AckUnderWay
    <3>1. p \in queue /\ VectorOK(stat[p]) /\ Phase(stat[p]) = "awaits_CTS" /\ p \in DOMAIN stat
      BY MeetingPhase, InPhase
    <3>2. VectorOK(RecordCTS(stat[p])) /\ stat' = [stat EXCEPT ![p] = RecordCTS(stat[p])]
      BY <2>2, <3>1, AssignmentPhase DEF Change
    <3>3. stat' \in [DOMAIN arrival' -> StateVector] /\ Vectors'
      BY <1>1, <3>1, <3>2, VectorChanged
    <3>4. RecordCTS(stat[p]).ACK_RX_STAT = stat[p].ACK_RX_STAT
      BY <3>1 DEF RecordCTS, VectorOK, StateVector
    <3>5. \A o \in queue : stat'[o].ACK_RX_STAT = stat[o].ACK_RX_STAT
      BY <3>1, <3>2, <3>4, QueueFinite
    <3> QED BY <1>1, <3>3, <3>5 DEF AckUnderWay
  <2> QED BY <2>1, <2>2 DEF ProcCTS, Recorded
<1>5. PacketsTyped' /\ FramesTyped' /\ MainTyped'
  BY <1>1, <1>4 DEF TInv, Typed, PacketsTyped, FramesTyped, FrameTo, MainTyped, Peer
<1>6. AcksFollow'
  BY <1>1, <1>2, <1>4, AcksFollowKept DEF AckUnderWay
<1> QED BY <1>2, <1>3, <1>4, <1>5, <1>6 DEF TInv, Typed

LEMMA ProcACKTInv ==
  ASSUME TInv, ProcACK
  PROVE  TInv'
<1>1. /\ UNCHANGED <<now, arrival, arrived, queue, timers, cell, frame, delivered, acked>>
      /\ pc' \in {[pc EXCEPT !["A"] = "poll"], [pc EXCEPT !["A"] = "exited"]}
      /\ frame["A"].type = "ACK"
  BY DEF ProcACK, Recorded, logVars
<1>2. MapTyped'
  BY LearnTyped DEF ProcACK
<1>3. stat' \in [DOMAIN arrival' -> StateVector] /\ Vectors'
  <2>1. CASE UNCHANGED stat
    BY <2>1, <1>1 DEF TInv, Typed, PacketsTyped, Vectors
  <2>2. ASSUME NEW p \in Meeting(AwaitsACK), Change(p, RecordACK)
        PROVE  stat' \in [DOMAIN arrival' -> StateVector] /\ Vectors'
    <3>1. p \in queue /\ VectorOK(stat[p]) /\ Phase(stat[p]) = "awaits_ACK" /\ p \in DOMAIN stat
      BY MeetingPhase, InPhase
    <3>2. VectorOK(RecordACK(stat[p])) /\ stat' = [stat EXCEPT ![p] = RecordACK(stat[p])]
      BY <2>2, <3>1, AssignmentPhase DEF Change
    <3> QED BY <1>1, <3>1, <3>2, VectorChanged
  <2> QED BY <2>1, <2>2 DEF ProcACK, Recorded
<1>4. PacketsTyped' /\ FramesTyped' /\ MainTyped' /\ TimersTyped'
  BY <1>1, <1>3 DEF TInv, Typed, PacketsTyped, FramesTyped, FrameTo, MainTyped,
     TimersTyped, Peer
<1>5. AcksFollow'
  BY <1>1, AcksFollowKept DEF AckUnderWay
<1> QED BY <1>2, <1>3, <1>4, <1>5 DEF TInv, Typed

\* A timer of A runs out and nothing happens to the packets.
LEMMA RetryRTSTInv ==
  ASSUME TInv, NEW k \in DOMAIN timers["A"], RetryRTS(k)
  PROVE  TInv'
<1>1. /\ SendRTS(Rest("A", k))
      /\ UNCHANGED <<now, arrival, arrived, queue, stat, delay, pc, frame, delivered, acked>>
  BY DEF RetryRTS, mainVars, queueVars
<1>2. /\ TimersTyped' /\ timers'["B"] = timers["B"]
      /\ FramesTyped' /\ cell'["A"] = cell["A"]
      /\ \A c \in coll' : c.tmv_stmp \in Nat
  <2>1. Rest("A", k) \in Seq(TimerOf("A"))
    BY TwoPeers, RestTyped
  <2> QED BY <1>1, <2>1, SendRTSTyped
<1>3. PacketsTyped' /\ MapTyped' /\ MainTyped'
  BY <1>1, <1>2 DEF TInv, Typed, PacketsTyped, MapTyped, MainTyped
<1>4. Vectors'
  BY <1>1 DEF TInv, Vectors
<1>5. AcksFollow'
  BY <1>1, <1>2, AcksFollowKept DEF AckUnderWay
<1> QED BY <1>2, <1>3, <1>4, <1>5 DEF TInv, Typed

LEMMA SendReplyTInv ==
  ASSUME TInv, NEW k \in DOMAIN timers["B"], NEW call \in {"CTS", "ACK"},
         SendReply(k, call)
  PROVE  TInv'
<1>1. /\ timers["B"][k].call = call /\ Write("B", call, 0) /\ Remain("B", k)
      /\ UNCHANGED <<now, arrival, arrived, queue, stat, delay, coll, pc, frame,
                     delivered, acked>>
  BY DEF SendReply, Runs, mainVars, queueVars, mapVars
<1>2. TimersTyped' /\ timers'["B"] = Removed(timers["B"], k)
  BY <1>1, TwoPeers, RemainTyped
<1>3. /\ FramesTyped'
      /\ cell'["A"] = [type |-> call, tmv_stmp |-> TimeStamp(now), pkt |-> 0]
  BY <1>1, TwoPeers, WriteTyped
<1>4. PacketsTyped' /\ MapTyped' /\ MainTyped'
  BY <1>1 DEF TInv, Typed, PacketsTyped, MapTyped, MainTyped
<1>5. Vectors'
  BY <1>1 DEF TInv, Vectors
<1>6. AcksFollow'
  <2>1. ASSUME NEW i \in DOMAIN timers'["B"], timers'["B"][i].call = "ACK"
        PROVE  \E j \in DOMAIN timers["B"] : timers["B"][j].call = "ACK"
    BY <2>1, <1>2, AckTimersLeft
  <2>2. cell'["A"].type = "ACK" => AckUnderWay
    BY <1>1, <1>3 DEF AckUnderWay
  <2> QED BY <1>1, <2>1, <2>2, AcksFollowKept DEF AckUnderWay
<1> QED BY <1>2, <1>3, <1>4, <1>5, <1>6 DEF TInv, Typed

LEMMA SendDataTInv ==
  ASSUME TInv, NEW k \in DOMAIN timers["A"], SendData(k)
  PROVE  TInv'
<1>1. UNCHANGED <<now, arrival, arrived, queue, stat, delay, coll, pc, frame,
                  delivered, acked>>
  BY DEF SendData, mainVars, queueVars, mapVars
<1>2. /\ TimersTyped' /\ timers'["B"] = timers["B"]
      /\ FramesTyped' /\ cell'["A"] = cell["A"]
  <2>1. ASSUME NEW p \in Meeting(MaySendData), Write("A", "DATA", p),
               timers' = Set("A", Rest("A", k), WAIT_FB_TIME, "wait_ACK")
        PROVE  /\ TimersTyped' /\ timers'["B"] = timers["B"]
               /\ FramesTyped' /\ cell'["A"] = cell["A"]
    <3>1. p \in 1 .. arrived /\ p \in Nat
      BY DEF Meeting, TInv, Typed, PacketsTyped
    <3>2. Rest("A", k) \in Seq(TimerOf("A")) /\ "wait_ACK" \in Calls("A")
          /\ WAIT_FB_TIME \in Int
      BY TwoPeers, RestTyped, WaitsAssumption DEF Calls
    <3>3. TimersTyped' /\ timers'["B"] = timers["B"]
      BY <2>1, <3>2, TwoPeers, SetTyped
    <3>4. FramesTyped' /\ cell'["A"] = cell["A"]
      BY <1>1, <2>1, <3>1, TwoPeers, WriteTyped
    <3> QED BY <3>3, <3>4
  <2>2. CASE NextTurn("A") /\ UNCHANGED <<cell, overwritten>>
    <3>1. TimersTyped' /\ timers'["B"] = timers["B"]
      BY <2>2, TwoPeers, NextTurnTyped
    <3> QED BY <1>1, <2>2, <3>1 DEF TInv, Typed, FramesTyped, FrameTo
  <2> QED BY <2>1, <2>2 DEF SendData
<1>3. PacketsTyped' /\ MapTyped' /\ MainTyped'
  BY <1>1 DEF TInv, Typed, PacketsTyped, MapTyped, MainTyped
<1>4. Vectors'
  BY <1>1 DEF TInv, Vectors
<1>5. AcksFollow'
  BY <1>1, <1>2, AcksFollowKept DEF AckUnderWay
<1> QED BY <1>2, <1>3, <1>4, <1>5 DEF TInv, Typed

\* What the steps of the waits and of the back-off do to types.
PacketsKept == /\ TimersTyped' /\ timers'["B"] = timers["B"]
               /\ stat' \in [DOMAIN arrival -> StateVector] /\ Vectors'
               /\ queue' \subseteq queue /\ acked' \subseteq acked \cup queue
               /\ \A o \in queue' : stat'[o].ACK_RX_STAT = 1 => AckUnderWay
               /\ acked' # {} => AckUnderWay

LEMMA PacketsKeptTInv ==
  ASSUME TInv, PacketsKept,
         UNCHANGED <<now, arrival, arrived, delay, coll, cell, pc, frame, delivered>>
  PROVE  TInv'
<1>1. PacketsTyped' /\ MapTyped' /\ FramesTyped' /\ MainTyped'
  BY DEF PacketsKept, TInv, Typed, PacketsTyped, MapTyped, FramesTyped, FrameTo, MainTyped
<1>2. AcksFollow'
  BY AcksFollowKept DEF PacketsKept, AckUnderWay
<1> QED BY <1>1, <1>2 DEF PacketsKept, TInv, Typed

\* A packet of A has changed, and no ACK has been recorded.
LEMMA ChangeKept ==
  ASSUME TInv, NEW p \in queue, NEW v, VectorOK(v), stat' = [stat EXCEPT ![p] = v],
         v.ACK_RX_STAT = 1 => stat[p].ACK_RX_STAT = 1,
         TimersTyped', timers'["B"] = timers["B"],
         UNCHANGED <<arrival, arrived, queue, acked>>
  PROVE  PacketsKept
<1>1. stat' \in [DOMAIN arrival -> StateVector] /\ Vectors'
  BY VectorChanged
<1>2. \A o \in queue : o # p => stat'[o] = stat[o]
  BY QueueFinite
<1>3. stat'[p] = v
  BY QueueFinite
<1>4. \A o \in queue' : stat'[o].ACK_RX_STAT = 1 => AckUnderWay
  BY <1>2, <1>3 DEF AckUnderWay
<1> QED BY <1>1, <1>4 DEF PacketsKept, AckUnderWay

\* No packet has changed.
LEMMA NextTurnKept ==
  ASSUME TInv, NextTurn("A"), UNCHANGED <<arrival, arrived, queue, acked, stat>>
  PROVE  PacketsKept
<1>1. TimersTyped' /\ timers'["B"] = timers["B"]
  BY TwoPeers, NextTurnTyped
<1>2. stat' \in [DOMAIN arrival -> StateVector] /\ Vectors'
  BY DEF TInv, Typed, PacketsTyped, Vectors
<1> QED BY <1>1, <1>2 DEF PacketsKept, AckUnderWay

\* The packet is backed off.
LEMMA BackedOffKept ==
  ASSUME TInv, NEW k \in DOMAIN timers["A"], NEW p \in queue, NEW tm \in BackOffs,
         Phase(stat[p]) \in {"awaits_CTS", "awaits_ACK"},
         Change(p, StartBackOff),
         timers' = Set("A", Rest("A", k), tm * stat[p].RTS_TX_NUM, "back_off"),
         UNCHANGED <<arrival, arrived, queue, acked>>
  PROVE  /\ PacketsKept /\ tm * stat[p].RTS_TX_NUM \in Int
         /\ stat' = [stat EXCEPT ![p] = StartBackOff(stat[p])]
         /\ VectorOK(StartBackOff(stat[p]))
         /\ Phase(StartBackOff(stat[p])) = "backed_off"
<1>1. VectorOK(stat[p])
  BY DEF TInv, Vectors
<1>2. /\ stat' = [stat EXCEPT ![p] = StartBackOff(stat[p])]
      /\ VectorOK(StartBackOff(stat[p])) /\ Phase(StartBackOff(stat[p])) = "backed_off"
  BY <1>1, AssignmentPhase DEF Change
<1>3. StartBackOff(stat[p]).ACK_RX_STAT = stat[p].ACK_RX_STAT
  BY <1>1 DEF StartBackOff, VectorOK, StateVector
<1>4. tm * stat[p].RTS_TX_NUM \in Int
  <2>1. tm \in Nat /\ stat[p].RTS_TX_NUM \in Nat
    BY <1>1, Fields, TriesAssumption DEF VectorOK
  <2> QED BY <2>1
<1>5. TimersTyped' /\ timers'["B"] = timers["B"]
  <2>1. Rest("A", k) \in Seq(TimerOf("A")) /\ "back_off" \in Calls("A")
    BY TwoPeers, RestTyped DEF Calls
  <2> QED BY <1>4, <2>1, TwoPeers, SetTyped
<1> QED BY <1>2, <1>3, <1>4, <1>5, ChangeKept

LEMMA WaitCTSTInv ==
  ASSUME TInv, NEW k \in DOMAIN timers["A"], WaitCTS(k)
  PROVE  TInv'
<1>1. UNCHANGED <<now, arrival, arrived, queue, delay, coll, cell, pc, frame,
                  delivered, acked>>
  BY DEF WaitCTS, mainVars, mapVars, logVars
<1>2. ASSUME NEW p \in Meeting(HasCTS), Change(p, CheckCTS), Remain("A", k)
      PROVE  PacketsKept
  <2>1. p \in queue /\ VectorOK(stat[p]) /\ Phase(stat[p]) = "has_CTS"
    BY MeetingPhase, InPhase
  <2>2. VectorOK(CheckCTS(stat[p])) /\ stat' = [stat EXCEPT ![p] = CheckCTS(stat[p])]
    BY <1>2, <2>1, AssignmentPhase DEF Change
  <2>3. CheckCTS(stat[p]).ACK_RX_STAT = stat[p].ACK_RX_STAT
    BY <2>1 DEF CheckCTS, VectorOK, StateVector
  <2>4. TimersTyped' /\ timers'["B"] = timers["B"]
    BY <1>2, TwoPeers, RemainTyped
  <2> QED BY <1>1, <2>1, <2>2, <2>3, <2>4, ChangeKept
<1>3. ASSUME PutBack(AwaitsCTS, k) PROVE PacketsKept
  <2>1. PICK p \in Meeting(AwaitsCTS), tm \in BackOffs :
          /\ Change(p, StartBackOff)
          /\ timers' = Set("A", Rest("A", k), tm * stat[p].RTS_TX_NUM, "back_off")
    BY <1>3 DEF PutBack
  <2>2. p \in queue /\ Phase(stat[p]) = "awaits_CTS"
    BY MeetingPhase, InPhase
  <2> QED BY <1>1, <2>1, <2>2, BackedOffKept
<1>4. ASSUME NextTurn("A") /\ UNCHANGED stat PROVE PacketsKept
  BY <1>1, <1>4, NextTurnKept
<1>5. PacketsKept
  BY <1>2, <1>3, <1>4 DEF WaitCTS
<1> QED BY <1>1, <1>5, PacketsKeptTInv

LEMMA WaitACKTInv ==
  ASSUME TInv, NEW k \in DOMAIN timers["A"], WaitACK(k)
  PROVE  TInv'
<1>1. UNCHANGED <<now, arrival, arrived, delay, coll, cell, pc, frame, delivered>>
  BY DEF WaitACK, mainVars, mapVars
<1>2. ASSUME NEW p \in Meeting(HasACK), Remain("A", k),
             queue' = queue \ {p}, acked' = acked \cup {p}, UNCHANGED stat
      PROVE  PacketsKept
  <2>1. p \in queue /\ VectorOK(stat[p]) /\ Phase(stat[p]) = "has_ACK"
    BY MeetingPhase, InPhase
  <2>2. stat[p].ACK_RX_STAT = 1
    BY <2>1, Fields DEF VectorOK, Phase, Bit
  <2>3. TimersTyped' /\ timers'["B"] = timers["B"]
    BY <1>2, TwoPeers, RemainTyped
  <2>4. stat' \in [DOMAIN arrival -> StateVector] /\ Vectors'
    BY <1>1, <1>2 DEF TInv, Typed, PacketsTyped, Vectors
  <2> QED BY <1>2, <2>1, <2>2, <2>3, <2>4 DEF PacketsKept, AckUnderWay
<1>3. ASSUME PutBack(AwaitsACK, k) /\ UNCHANGED <<queue, acked>> PROVE PacketsKept
  <2>1. PICK p \in Meeting(AwaitsACK), tm \in BackOffs :
          /\ Change(p, StartBackOff)
          /\ timers' = Set("A", Rest("A", k), tm * stat[p].RTS_TX_NUM, "back_off")
    BY <1>3 DEF PutBack
  <2>2. p \in queue /\ Phase(stat[p]) = "awaits_ACK"
    BY MeetingPhase, InPhase
  <2> QED BY <1>1, <1>3, <2>1, <2>2, BackedOffKept
<1>4. ASSUME NextTurn("A") /\ UNCHANGED <<queue, acked, stat>> PROVE PacketsKept
  BY <1>1, <1>4, NextTurnKept
<1>5. PacketsKept
  BY <1>2, <1>3, <1>4 DEF WaitACK
<1> QED BY <1>1, <1>5, PacketsKeptTInv

LEMMA BackOffEndsTInv ==
  ASSUME TInv, NEW k \in DOMAIN timers["A"], BackOffEnds(k)
  PROVE  TInv'
<1>1. UNCHANGED <<now, arrival, arrived, queue, delay, coll, cell, pc, frame,
                  delivered, acked>>
  BY DEF BackOffEnds, mainVars, mapVars, logVars
<1>2. ASSUME NEW p \in Meeting(BackedOff), Change(p, EndBackOff), Remain("A", k)
      PROVE  PacketsKept
  <2>1. p \in queue /\ VectorOK(stat[p])
    BY MeetingPhase, InPhase
  <2>2. VectorOK(EndBackOff(stat[p])) /\ stat' = [stat EXCEPT ![p] = EndBackOff(stat[p])]
    BY <1>2, <2>1, EndBackOffPhase DEF Change
  <2>3. EndBackOff(stat[p]).ACK_RX_STAT # 1
    <3>1. stat[p] \in StateVector
      BY <2>1 DEF VectorOK
    <3> QED BY <3>1 DEF EndBackOff, StateVector
  <2>4. TimersTyped' /\ timers'["B"] = timers["B"]
    BY <1>2, TwoPeers, RemainTyped
  <2> QED BY <1>1, <2>1, <2>2, <2>3, <2>4, ChangeKept
<1>3. ASSUME NextTurn("A") /\ UNCHANGED stat PROVE PacketsKept
  BY <1>1, <1>3, NextTurnKept
<1>4. PacketsKept
  BY <1>2, <1>3 DEF BackOffEnds
<1> QED BY <1>1, <1>4, PacketsKeptTInv

\* main is woken up.
LEMMA AwakeTInv ==
  ASSUME TInv, NEW n \in Peer, NEW k \in DOMAIN timers[n], NEW awake, Remain(n, k),
         awake = "rx_awake" \/ (n = "B" /\ awake = "tx_awake"),
         pc' = [pc EXCEPT ![n] = awake],
         UNCHANGED <<now, arrival, arrived, queue, stat, delay, coll, cell, frame,
                     delivered, acked>>
  PROVE  TInv'
<1>2. /\ TimersTyped' /\ timers'[n] = Removed(timers[n], k)
      /\ \A m \in Peer : m # n => timers'[m] = timers[m]
  BY RemainTyped
<1>3. PacketsTyped' /\ MapTyped' /\ FramesTyped'
  BY DEF TInv, Typed, PacketsTyped, MapTyped, FramesTyped, FrameTo
<1>4. MainTyped'
  BY DEF TInv, Typed, MainTyped, Peer
<1>5. Vectors'
  BY DEF TInv, Vectors
<1>6. AcksFollow'
  <2>1. ASSUME NEW i \in DOMAIN timers'["B"], timers'["B"][i].call = "ACK"
        PROVE  \E j \in DOMAIN timers["B"] : timers["B"][j].call = "ACK"
    <3>1. CASE n = "B"
      BY <3>1, <2>1, <1>2, AckTimersLeft
    <3>2. CASE n = "A"
      BY <3>2, <2>1, <1>2, TwoPeers
    <3> QED BY <3>1, <3>2, TwoPeers
  <2> QED BY <2>1, AcksFollowKept DEF AckUnderWay
<1> QED BY <1>2, <1>3, <1>4, <1>5, <1>6 DEF TInv, Typed

LEMMA RxVSleepTInv ==
  ASSUME TInv, NEW n \in Peer, NEW k \in DOMAIN timers[n],
         VSleep(n, k, "rx_sleep", "rx_awake")
  PROVE  TInv'
<1>1. /\ Remain(n, k) /\ pc' = [pc EXCEPT ![n] = "rx_awake"]
      /\ UNCHANGED <<now, arrival, arrived, queue, stat, delay, coll, cell, frame,
                     delivered, acked>>
  BY DEF VSleep, queueVars, mapVars, logVars
<1> QED BY <1>1, AwakeTInv

LEMMA TxVSleepTInv ==
  ASSUME TInv, NEW k \in DOMAIN timers["B"], VSleep("B", k, "tx_sleep", "tx_awake")
  PROVE  TInv'
<1>1. /\ Remain("B", k) /\ pc' = [pc EXCEPT !["B"] = "tx_awake"]
      /\ UNCHANGED <<now, arrival, arrived, queue, stat, delay, coll, cell, frame,
                     delivered, acked>>
  BY DEF VSleep, queueVars, mapVars, logVars
<1> QED BY <1>1, TwoPeers, AwakeTInv

LEMMA TickTInv ==
  ASSUME TInv, Tick
  PROVE  TInv'
<1>1. UNCHANGED <<arrival, arrived, queue, stat, delay, coll, timers, cell, pc, frame,
                  delivered, acked>>
  BY DEF Tick, queueVars, mapVars, mainVars, logVars
<1>2. now' \in Nat
  <2>1. now' \in Events
    BY DEF Tick, Later
  <2>2. \A n \in Peer : \A k \in DOMAIN timers[n] : timers[n][k].at \in Nat
    <3>1. \A n \in Peer : timers[n] \in Seq(TimerOf(n))
      BY DEF TInv, Typed, TimersTyped
    <3>2. ASSUME NEW n \in Peer, NEW k \in DOMAIN timers[n]
          PROVE  timers[n][k].at \in Nat
      <4>1. timers[n][k] \in TimerOf(n)
        BY <3>1
      <4> QED BY <4>1 DEF TimerOf
    <3> QED BY <3>2
  <2>3. \A t \in Ext!ToSet(timers["A"]) \cup Ext!ToSet(timers["B"]) : t.at \in Nat
    BY <2>2, TwoPeers DEF Ext!ToSet
  <2>4. \A k \in (arrived + 1) .. Len(arrival) : arrival[k] \in Nat
    <3>1. arrival \in Seq(Nat) /\ arrived \in Nat
      BY ArrivalsAssumption, QueueFinite DEF TInv, Typed, PacketsTyped
    <3> QED BY <3>1
  <2> QED BY <2>1, <2>3, <2>4 DEF Events
<1>3. Typed'
  BY <1>1, <1>2 DEF TInv, Typed, PacketsTyped, MapTyped, TimersTyped, FramesTyped,
     FrameTo, MainTyped
<1>4. Vectors'
  BY <1>1 DEF TInv, Vectors
<1>5. AcksFollow'
  BY <1>1, AcksFollowKept DEF AckUnderWay
<1> QED BY <1>3, <1>4, <1>5 DEF TInv

LEMMA StepTInv == TInv /\ [Next]_vars => TInv'
<1> SUFFICES ASSUME TInv, [Next]_vars PROVE TInv'
  OBVIOUS
<1>1. CASE Main
  <2>1. CASE AddPacket \/ StartPacket \/ GiveUp
    BY <2>1, AddPacketTInv, StartPacketTInv, GiveUpTInv
  <2>2. CASE \E n \in Peer : ReadFrame(n) \/ DropFrames(n) \/ Lose(n)
    BY <2>2, ReadFrameTInv, FrameLostTInv
  <2>3. CASE ReceiveData \/ ProcRTS \/ ProcData \/ ProcCTS \/ ProcACK
    BY <2>3, ReceiveDataTInv, AnswerTInv, ProcCTSTInv, ProcACKTInv
  <2> QED BY <1>1, <2>1, <2>2, <2>3 DEF Main, Peer
<1>2. CASE Timers
  <2>1. ASSUME NEW k \in DOMAIN timers["A"],
               \/ RetryRTS(k) \/ SendData(k) \/ WaitCTS(k) \/ WaitACK(k)
               \/ BackOffEnds(k) \/ VSleep("A", k, "rx_sleep", "rx_awake")
        PROVE  TInv'
    <3>1. CASE RetryRTS(k) \/ SendData(k)
      BY <3>1, RetryRTSTInv, SendDataTInv
    <3>2. CASE WaitCTS(k) \/ WaitACK(k) \/ BackOffEnds(k)
      BY <3>2, WaitCTSTInv, WaitACKTInv, BackOffEndsTInv
    <3>3. CASE VSleep("A", k, "rx_sleep", "rx_awake")
      BY <3>3, TwoPeers, RxVSleepTInv
    <3> QED BY <2>1, <3>1, <3>2, <3>3
  <2>2. ASSUME NEW k \in DOMAIN timers["B"],
               \/ SendReply(k, "CTS") \/ SendReply(k, "ACK")
               \/ VSleep("B", k, "rx_sleep", "rx_awake")
               \/ VSleep("B", k, "tx_sleep", "tx_awake")
        PROVE  TInv'
    <3>1. CASE SendReply(k, "CTS") \/ SendReply(k, "ACK")
      BY <3>1, SendReplyTInv
    <3>2. CASE VSleep("B", k, "rx_sleep", "rx_awake")
      BY <3>2, TwoPeers, RxVSleepTInv
    <3>3. CASE VSleep("B", k, "tx_sleep", "tx_awake")
      BY <3>3, TxVSleepTInv
    <3> QED BY <2>2, <3>1, <3>2, <3>3
  <2> QED BY <1>2, <2>1, <2>2 DEF Timers
<1>3. CASE Tick
  BY <1>3, TickTInv
<1>4. CASE UNCHANGED vars
  <2>1. UNCHANGED <<now, arrival, arrived, queue, stat, delay, coll, timers, cell, pc,
                    frame, delivered, acked>>
    BY <1>4 DEF vars, queueVars, mapVars, mainVars, logVars
  <2>2. Typed'
    BY <2>1 DEF TInv, Typed, PacketsTyped, MapTyped, TimersTyped, FramesTyped,
       FrameTo, MainTyped
  <2>3. Vectors' /\ AcksFollow'
    BY <2>1 DEF TInv, Vectors, AcksFollow, AckUnderWay
  <2> QED BY <2>2, <2>3 DEF TInv
<1> QED BY <1>1, <1>2, <1>3, <1>4 DEF Next

LEMMA TInvHolds == Spec => []TInv
BY InitTInv, StepTInv, PTL DEF Spec

(***************************************************************************)
(* Values have their types always (TypeOK).                                *)
(***************************************************************************)
THEOREM TypeCorrect == Spec => []TypeOK
<1>1. TInv => TypeOK
  <2> SUFFICES ASSUME TInv PROVE TypeOK
    OBVIOUS
  <2>1. Ext!ToSet(delivered) \subseteq 1 .. arrived
    <3>1. delivered \in Seq(1 .. arrived)
      BY DEF TInv, Typed, PacketsTyped
    <3>2. ASSUME NEW i \in DOMAIN delivered PROVE delivered[i] \in 1 .. arrived
      <4>1. i \in 1 .. Len(delivered)
        BY <3>1
      <4> QED BY <3>1, <4>1, ElementOfSeq
    <3> HIDE DEF Ext!ToSet
    <3>3. ASSUME NEW x \in Ext!ToSet(delivered) PROVE x \in 1 .. arrived
      <4>1. PICK i \in DOMAIN delivered : x = delivered[i]
        BY DEF Ext!ToSet
      <4> QED BY <3>2, <4>1
    <3> QED BY <3>3
  <2> QED BY <2>1 DEF TypeOK, TInv, Typed, PacketsTyped, MapTyped
<1> QED BY <1>1, TInvHolds, PTL

(***************************************************************************)
(* A packet that A deletes because of an ACK has reached B's application,  *)
(* when it is the only one (AckedDelivered).                               *)
(***************************************************************************)
THEOREM OnlyPacketDelivered == Spec => []AckedDelivered
<1>1. TInv => AckedDelivered
  <2> SUFFICES ASSUME TInv, Len(arrival) = 1, NEW p \in acked
               PROVE  p \in Ext!ToSet(delivered)
    BY DEF AckedDelivered
  <2>1. p \in 1 .. arrived /\ arrived \in 0 .. 1 /\ delivered \in Seq(1 .. arrived)
    BY DEF TInv, Typed, PacketsTyped
  <2>2. p = 1 /\ arrived = 1
    BY <2>1
  <2>3. delivered # <<>>
    BY DEF TInv, AcksFollow, AckUnderWay
  <2>4. 1 \in DOMAIN delivered /\ delivered[1] \in 1 .. 1
    BY <2>1, <2>2, <2>3
  <2> QED BY <2>2, <2>4 DEF Ext!ToSet
<1> QED BY <1>1, TInvHolds, PTL

----------------------------------------------------------------------------
(***************************************************************************)
(* How the numbers of timers change.                                       *)
(***************************************************************************)
LEMMA CountType ==
  ASSUME TInv, NEW n \in Peer
  PROVE  /\ timers[n] \in Seq(TimerOf(n))
         /\ \A call, d, S : Count(timers[n], call, d, S) \in Nat
<1>1. timers[n] \in Seq(TimerOf(n))
  BY DEF TInv, Typed, TimersTyped
<1> QED BY <1>1, CountIsNat

LEMMA FlyingType ==
  ASSUME TInv, NEW q, NEW S
  PROVE  /\ Flying(q, S) \in Nat
         /\ InCell("B", q, 0, S) \in Nat /\ InHand("B", q, 0, S) \in Nat
         /\ Count(timers["B"], Reply(q), MAX_PROP_DELAY, S) \in Nat
         /\ InCell("A", Reply(q), MAX_PROP_DELAY, S) \in Nat
         /\ InHand("A", Reply(q), MAX_PROP_DELAY, S) \in Nat
<1>1. /\ InCell("B", q, 0, S) \in Nat /\ InHand("B", q, 0, S) \in Nat
      /\ InCell("A", Reply(q), MAX_PROP_DELAY, S) \in Nat
      /\ InHand("A", Reply(q), MAX_PROP_DELAY, S) \in Nat
  BY DEF InCell, InHand, Hit
<1>2. Count(timers["B"], Reply(q), MAX_PROP_DELAY, S) \in Nat
  BY TwoPeers, CountType
<1> QED BY <1>1, <1>2 DEF Flying

Sleeps == {"rx_v_sleep", "tx_v_sleep"}

\* A sequence that has only timers of n.
Left(n, s) == \A i \in DOMAIN s : \E j \in DOMAIN timers[n] : s[i] = timers[n][j]

LEMMA RestLeft ==
  ASSUME TInv, NEW n \in Peer, NEW k \in DOMAIN timers[n]
  PROVE  Left(n, timers[n]) /\ Left(n, Rest(n, k))
<1> DEFINE s == timers[n]
<1>1. s \in Seq(TimerOf(n)) /\ Rest(n, k) = Removed(s, k)
  BY RestTyped
<1>2. DOMAIN s = 1 .. Len(s) /\ Len(s) \in Nat
  BY <1>1
<1>3. ASSUME NEW i \in DOMAIN Removed(s, k)
      PROVE  \E j \in DOMAIN s : Removed(s, k)[i] = s[j]
  <2> HIDE DEF s
  <2>1. i \in 1 .. (Len(s) - 1) /\ Removed(s, k)[i] = s[IF i < k THEN i ELSE i + 1]
    BY <1>2, <1>3 DEF Removed
  <2>2. (IF i < k THEN i ELSE i + 1) \in DOMAIN s
    BY <1>2, <2>1
  <2> QED BY <2>1, <2>2
<1> QED BY <1>1, <1>3 DEF Left

LEMMA CountSet ==
  ASSUME TInv, NEW n \in Peer, NEW i \in Int, NEW c \in Calls(n),
         timers' = Set(n, timers[n], i, c)
  PROVE  /\ \A m \in Peer : m # n => timers'[m] = timers[m]
         /\ \A call, d, S :
              Count(timers'[n], call, d, S) = Count(timers[n], call, d, S)
                + Hit(c, At(i), call, d, S)
<1>1. timers[n] \in Seq(TimerOf(n))
  BY CountType
<1> DEFINE e == [at |-> At(i), call |-> c]
<1>2. timers'[n] = Append(timers[n], e) /\ \A m \in Peer : m # n => timers'[m] = timers[m]
  BY <1>1, SetTyped
<1>4. ASSUME NEW call, NEW d, NEW S
      PROVE  Count(timers'[n], call, d, S) = Count(timers[n], call, d, S)
               + Hit(c, At(i), call, d, S)
  <2>1. Count(Append(timers[n], e), call, d, S) = Count(timers[n], call, d, S)
          + Hit(c, At(i), call, d, S)
    BY <1>1, CountAppendTimer
  <2> QED BY <1>2, <2>1
<1> QED BY <1>2, <1>4

LEMMA CountRemain ==
  ASSUME TInv, NEW n \in Peer, NEW k \in DOMAIN timers[n], Remain(n, k)
  PROVE  /\ \A m \in Peer : m # n => timers'[m] = timers[m]
         /\ \A call, d, S :
              Count(timers'[n], call, d, S) = Count(timers[n], call, d, S)
                - Hit(timers[n][k].call, timers[n][k].at, call, d, S)
<1>1. timers[n] \in Seq(TimerOf(n))
  BY CountType
<1>2. timers'[n] = Removed(timers[n], k) /\ \A m \in Peer : m # n => timers'[m] = timers[m]
  BY RemainTyped
<1>3. ASSUME NEW call, NEW d, NEW S
      PROVE  Count(timers'[n], call, d, S) = Count(timers[n], call, d, S)
               - Hit(timers[n][k].call, timers[n][k].at, call, d, S)
  BY <1>1, <1>2, CountRemoved
<1> QED BY <1>2, <1>3

LEMMA CountReset ==
  ASSUME TInv, NEW n \in Peer, NEW k \in DOMAIN timers[n], NEW i \in Int,
         NEW c \in Calls(n), timers' = Set(n, Rest(n, k), i, c)
  PROVE  /\ \A m \in Peer : m # n => timers'[m] = timers[m]
         /\ \A call, d, S :
              Count(timers'[n], call, d, S) = Count(timers[n], call, d, S)
                - Hit(timers[n][k].call, timers[n][k].at, call, d, S)
                + Hit(c, At(i), call, d, S)
<1>1. /\ timers[n] \in Seq(TimerOf(n)) /\ Rest(n, k) = Removed(timers[n], k)
      /\ Rest(n, k) \in Seq(TimerOf(n))
  BY RestTyped
<1> DEFINE e == [at |-> At(i), call |-> c]
<1>2. timers'[n] = Append(Rest(n, k), e) /\ \A m \in Peer : m # n => timers'[m] = timers[m]
  BY <1>1, SetTyped
<1>4. ASSUME NEW call, NEW d, NEW S
      PROVE  Count(timers'[n], call, d, S) = Count(timers[n], call, d, S)
               - Hit(timers[n][k].call, timers[n][k].at, call, d, S)
               + Hit(c, At(i), call, d, S)
  <2>1. Count(Append(Rest(n, k), e), call, d, S) = Count(Rest(n, k), call, d, S)
          + Hit(c, At(i), call, d, S)
    BY <1>1, CountAppendTimer
  <2>2. Count(Rest(n, k), call, d, S) = Count(timers[n], call, d, S)
          - Hit(timers[n][k].call, timers[n][k].at, call, d, S)
    BY <1>1, CountRemoved
  <2> HIDE DEF e
  <2> QED BY <1>2, <2>1, <2>2
<1> QED BY <1>2, <1>4

(***************************************************************************)
(* What keeps time: no timer is set in the past, and the timers of the     *)
(* sleeps are left alone.                                                  *)
(***************************************************************************)
Quiet(n) ==
  /\ \A k \in DOMAIN timers'[n] :
       \/ \E j \in DOMAIN timers[n] : timers'[n][k] = timers[n][j]
       \/ timers'[n][k].at >= now /\ timers'[n][k].call \notin Sleeps
  /\ \A call \in Sleeps : Count(timers'[n], call, 0, Int) = Count(timers[n], call, 0, Int)

LEMMA QuietSame ==
  ASSUME NEW n, timers'[n] = timers[n]
  PROVE  Quiet(n)
BY DEF Quiet

LEMMA QuietElements ==
  ASSUME NEW n, NEW T, NEW s \in Seq(T), Left(n, s), NEW e,
         e.call \notin Sleeps, e.at >= now, timers'[n] = Append(s, e)
  PROVE  \A k \in DOMAIN timers'[n] :
           \/ \E j \in DOMAIN timers[n] : timers'[n][k] = timers[n][j]
           \/ timers'[n][k].at >= now /\ timers'[n][k].call \notin Sleeps
<1> SUFFICES ASSUME NEW k \in DOMAIN timers'[n]
             PROVE  \/ \E j \in DOMAIN timers[n] : timers'[n][k] = timers[n][j]
                    \/ timers'[n][k].at >= now /\ timers'[n][k].call \notin Sleeps
  OBVIOUS
<1>1. /\ DOMAIN s = 1 .. Len(s) /\ Len(s) \in Nat
      /\ DOMAIN Append(s, e) = 1 .. (Len(s) + 1)
      /\ \A j \in 1 .. Len(s) : Append(s, e)[j] = s[j]
      /\ Append(s, e)[Len(s) + 1] = e
  OBVIOUS
<1>2. k \in 1 .. (Len(s) + 1)
  BY <1>1
<1>3. CASE k = Len(s) + 1
  BY <1>1, <1>3
<1>4. CASE k \in 1 .. Len(s)
  BY <1>1, <1>4 DEF Left
<1> QED BY <1>1, <1>2, <1>3, <1>4

LEMMA QuietSet ==
  ASSUME TInv, NEW n \in Peer, NEW tm \in Int, NEW c \in Calls(n), c \notin Sleeps,
         timers' = Set(n, timers[n], tm, c)
  PROVE  Quiet(n)
<1> DEFINE e == [at |-> At(tm), call |-> c]
<1>1. timers[n] \in Seq(TimerOf(n)) /\ timers'[n] = Append(timers[n], e)
  <2>1. timers[n] \in Seq(TimerOf(n))
    BY CountType
  <2> QED BY <2>1, SetTyped
<1>2. e.call \notin Sleeps /\ e.at >= now /\ e.at \in Nat
  BY AtType
<1>3. Left(n, timers[n])
  BY DEF Left
<1>4. \A k \in DOMAIN timers'[n] :
        \/ \E j \in DOMAIN timers[n] : timers'[n][k] = timers[n][j]
        \/ timers'[n][k].at >= now /\ timers'[n][k].call \notin Sleeps
  <2> HIDE DEF e
  <2> QED BY <1>1, <1>2, <1>3, QuietElements
<1>6. /\ \A m \in Peer : m # n => timers'[m] = timers[m]
      /\ \A call, d, S :
           Count(timers'[n], call, d, S) = Count(timers[n], call, d, S)
             + Hit(c, At(tm), call, d, S)
  BY CountSet
<1>5. ASSUME NEW call \in Sleeps
      PROVE  Count(timers'[n], call, 0, Int) = Count(timers[n], call, 0, Int)
  <2>1. c # call
    OBVIOUS
  <2>2. Count(timers'[n], call, 0, Int) = Count(timers[n], call, 0, Int)
          + Hit(c, At(tm), call, 0, Int)
    BY <1>6
  <2>3. Count(timers[n], call, 0, Int) \in Nat
    BY CountType
  <2>4. Hit(c, At(tm), call, 0, Int) = 0
    BY <2>1 DEF Hit
  <2> QED BY <2>2, <2>3, <2>4
<1> QED BY <1>4, <1>5 DEF Quiet

LEMMA QuietRemain ==
  ASSUME TInv, NEW n \in Peer, NEW k \in DOMAIN timers[n],
         timers[n][k].call \notin Sleeps, Remain(n, k)
  PROVE  Quiet(n)
<1>1. timers'[n] = Rest(n, k)
  BY RestTyped, RemainTyped
<1>2. \A i \in DOMAIN timers'[n] : \E j \in DOMAIN timers[n] : timers'[n][i] = timers[n][j]
  BY <1>1, RestLeft DEF Left
<1>6. \A call, d, S : Count(timers'[n], call, d, S) = Count(timers[n], call, d, S)
                         - Hit(timers[n][k].call, timers[n][k].at, call, d, S)
  BY CountRemain
<1>3. ASSUME NEW call \in Sleeps
      PROVE  Count(timers'[n], call, 0, Int) = Count(timers[n], call, 0, Int)
  <2>1. timers[n][k].call # call
    OBVIOUS
  <2>2. Count(timers'[n], call, 0, Int) = Count(timers[n], call, 0, Int)
          - Hit(timers[n][k].call, timers[n][k].at, call, 0, Int)
    BY <1>6
  <2>3. Count(timers[n], call, 0, Int) \in Nat
    BY CountType
  <2>4. Hit(timers[n][k].call, timers[n][k].at, call, 0, Int) = 0
    BY <2>1 DEF Hit
  <2> QED BY <2>2, <2>3, <2>4
<1> QED BY <1>2, <1>3 DEF Quiet

LEMMA QuietReset ==
  ASSUME TInv, NEW n \in Peer, NEW k \in DOMAIN timers[n],
         timers[n][k].call \notin Sleeps,
         NEW tm \in Int, NEW c \in Calls(n), c \notin Sleeps,
         timers' = Set(n, Rest(n, k), tm, c)
  PROVE  Quiet(n)
<1> DEFINE e == [at |-> At(tm), call |-> c]
<1>1. Rest(n, k) \in Seq(TimerOf(n)) /\ timers'[n] = Append(Rest(n, k), e)
  <2>1. Rest(n, k) \in Seq(TimerOf(n))
    BY RestTyped
  <2> QED BY <2>1, SetTyped
<1>2. e.call \notin Sleeps /\ e.at >= now /\ e.at \in Nat
  BY AtType
<1>3. Left(n, Rest(n, k))
  BY RestLeft
<1>4. \A j \in DOMAIN timers'[n] :
        \/ \E l \in DOMAIN timers[n] : timers'[n][j] = timers[n][l]
        \/ timers'[n][j].at >= now /\ timers'[n][j].call \notin Sleeps
  <2> HIDE DEF e
  <2> QED BY <1>1, <1>2, <1>3, QuietElements
<1>6. /\ \A m \in Peer : m # n => timers'[m] = timers[m]
      /\ \A call, d, S :
           Count(timers'[n], call, d, S) = Count(timers[n], call, d, S)
             - Hit(timers[n][k].call, timers[n][k].at, call, d, S)
             + Hit(c, At(tm), call, d, S)
  BY CountReset
<1>5. ASSUME NEW call \in Sleeps
      PROVE  Count(timers'[n], call, 0, Int) = Count(timers[n], call, 0, Int)
  <2>1. c # call /\ timers[n][k].call # call
    OBVIOUS
  <2>2. Count(timers'[n], call, 0, Int) = Count(timers[n], call, 0, Int)
          - Hit(timers[n][k].call, timers[n][k].at, call, 0, Int)
          + Hit(c, At(tm), call, 0, Int)
    BY <1>6
  <2>3. Count(timers[n], call, 0, Int) \in Nat
    BY CountType
  <2>4. Hit(timers[n][k].call, timers[n][k].at, call, 0, Int) = 0
        /\ Hit(c, At(tm), call, 0, Int) = 0
    BY <2>1 DEF Hit
  <2> QED BY <2>2, <2>3, <2>4
<1> QED BY <1>4, <1>5 DEF Quiet

\* main goes on as before, or back to its poll; a frame that comes is new.
LEMMA TimelyKept ==
  ASSUME TInv, TInv', Timely, now' = now,
         \A n \in Peer :
           /\ Quiet(n) /\ frame'[n] = frame[n]
           /\ \/ /\ pc'[n] = pc[n]
                 /\ cell'[n] \in {cell[n], NoFrame} \/ cell'[n].tmv_stmp = now
              \/ /\ pc[n] \in {"rx_awake", "tx_awake"} /\ pc'[n] = "poll"
                 /\ cell'[n] \in {cell[n], NoFrame} /\ Since(cell'[n], now - Slack(n))
  PROVE  Timely'
<1>1. now \in Nat /\ CFRM_PROC_TIME \in Nat /\ DATA_PKT_PROC_TIME \in Nat
  BY WaitsAssumption DEF TInv, Typed, PacketsTyped
<1>2. NotOverdue'
  <2>1. ASSUME NEW n \in Peer, NEW k \in DOMAIN timers'[n]
        PROVE  timers'[n][k].at >= now
    BY DEF Timely, NotOverdue, Quiet
  <2> QED BY <2>1 DEF NotOverdue
<1>3. SleepOK'
  <2>1. ASSUME NEW n \in Peer
        PROVE  /\ Count(timers'[n], "rx_v_sleep", 0, Int) = Is(pc'[n], "rx_sleep")
               /\ Count(timers'[n], "tx_v_sleep", 0, Int) = Is(pc'[n], "tx_sleep")
    <3>1. /\ Count(timers[n], "rx_v_sleep", 0, Int) = Is(pc[n], "rx_sleep")
          /\ Count(timers[n], "tx_v_sleep", 0, Int) = Is(pc[n], "tx_sleep")
      BY DEF Timely, SleepOK
    <3>2. /\ Count(timers'[n], "rx_v_sleep", 0, Int) = Count(timers[n], "rx_v_sleep", 0, Int)
          /\ Count(timers'[n], "tx_v_sleep", 0, Int) = Count(timers[n], "tx_v_sleep", 0, Int)
      BY DEF Quiet, Sleeps
    <3>3. /\ Is(pc'[n], "rx_sleep") = Is(pc[n], "rx_sleep")
          /\ Is(pc'[n], "tx_sleep") = Is(pc[n], "tx_sleep")
      BY DEF Is
    <3> QED BY <3>1, <3>2, <3>3
  <2> QED BY <2>1 DEF SleepOK
<1>4. ASSUME NEW n \in Peer PROVE Young(n)'
  <2>1. Young(n)
    BY DEF Timely
  <2>2. /\ Slack(n) \in Nat /\ Slack(n)' = Slack(n)
        /\ frame[n].tmv_stmp \in Nat /\ cell[n].tmv_stmp \in Nat
    BY <1>1, IntervalIsInt DEF Slack
  <2>3. NoFrame.tmv_stmp = 0
    BY DEF NoFrame
  <2>4. cell'[n].tmv_stmp <= now /\ frame'[n].tmv_stmp <= now
    BY <2>1, <2>2, <2>3, <1>1 DEF Young
  <2>5. \A t \in Int : t <= now /\ Since(cell[n], t) => Since(cell'[n], t)
    BY <1>1 DEF Since
  <2>6. \A t \in Int : Since(frame[n], t) => Since(frame'[n], t)
    BY DEF Since
  <2>7. ASSUME NEW k \in DOMAIN timers'[n], timers'[n][k].call \in Sleeps
        PROVE  \E j \in DOMAIN timers[n] : timers'[n][k] = timers[n][j]
    BY <2>7 DEF Quiet
  <2>8. ASSUME NEW j \in DOMAIN timers[n] PROVE timers[n][j].at \in Nat
    <3>1. timers[n][j] \in TimerOf(n)
      BY CountType
    <3> QED BY <3>1 DEF TimerOf
  <2>9. ASSUME NEW k \in DOMAIN timers'[n], timers'[n][k].call = "rx_v_sleep"
        PROVE  /\ timers'[n][k].at - CFRM_PROC_TIME <= now
               /\ Since(cell'[n], timers'[n][k].at - CFRM_PROC_TIME)
               /\ Since(frame'[n], timers'[n][k].at - CFRM_PROC_TIME - Slack(n))
    <3>1. PICK j \in DOMAIN timers[n] : timers'[n][k] = timers[n][j]
      BY <2>7, <2>9 DEF Sleeps
    <3>2. timers[n][j].at \in Nat
      BY <2>8
    <3>3. /\ timers[n][j].at - CFRM_PROC_TIME <= now
          /\ Since(cell[n], timers[n][j].at - CFRM_PROC_TIME)
          /\ Since(frame[n], timers[n][j].at - CFRM_PROC_TIME - Slack(n))
      BY <2>1, <2>9, <3>1 DEF Young
    <3>4. timers[n][j].at - CFRM_PROC_TIME \in Int
          /\ timers[n][j].at - CFRM_PROC_TIME - Slack(n) \in Int
      BY <1>1, <2>2, <3>2
    <3> QED BY <2>5, <2>6, <3>1, <3>3, <3>4
  <2>10. ASSUME NEW k \in DOMAIN timers'[n], timers'[n][k].call = "tx_v_sleep"
        PROVE  /\ timers'[n][k].at - Slack(n) <= now
               /\ Since(cell'[n], timers'[n][k].at - Slack(n))
               /\ Since(frame'[n], timers'[n][k].at - CFRM_PROC_TIME - 2 * Slack(n))
    <3>1. PICK j \in DOMAIN timers[n] : timers'[n][k] = timers[n][j]
      BY <2>7, <2>10 DEF Sleeps
    <3>2. timers[n][j].at \in Nat
      BY <2>8
    <3>3. /\ timers[n][j].at - Slack(n) <= now
          /\ Since(cell[n], timers[n][j].at - Slack(n))
          /\ Since(frame[n], timers[n][j].at - CFRM_PROC_TIME - 2 * Slack(n))
      BY <2>1, <2>10, <3>1 DEF Young
    <3>4. timers[n][j].at - Slack(n) \in Int
          /\ timers[n][j].at - CFRM_PROC_TIME - 2 * Slack(n) \in Int
      BY <1>1, <2>2, <3>2
    <3> QED BY <2>5, <2>6, <3>1, <3>3, <3>4
  <2>11. /\ now - Slack(n) \in Int /\ now - Slack(n) <= now
         /\ now - CFRM_PROC_TIME \in Int /\ now - CFRM_PROC_TIME <= now
         /\ now - CFRM_PROC_TIME - Slack(n) \in Int
         /\ now - CFRM_PROC_TIME - 2 * Slack(n) \in Int
    BY <1>1, <2>2
  <2>12. /\ pc'[n] = "poll" => Since(cell'[n], now - Slack(n))
         /\ pc'[n] = "rx_awake" =>
              /\ Since(cell'[n], now - CFRM_PROC_TIME)
              /\ Since(frame'[n], now - CFRM_PROC_TIME - Slack(n))
         /\ pc'[n] = "tx_awake" =>
              /\ Since(cell'[n], now - Slack(n))
              /\ Since(frame'[n], now - CFRM_PROC_TIME - 2 * Slack(n))
    <3>1. CASE pc'[n] = pc[n]
      BY <3>1, <2>1, <2>5, <2>6, <2>11 DEF Young
    <3>2. CASE pc'[n] = "poll" /\ Since(cell'[n], now - Slack(n))
      BY <3>2
    <3> QED BY <3>1, <3>2
  <2>13. pc'[n] # "poll" => frame'[n] # NoFrame
    BY <2>1 DEF Young
  <2> QED BY <2>2, <2>4, <2>9, <2>10, <2>12, <2>13 DEF Young
<1> QED BY <1>2, <1>3, <1>4 DEF Timely

----------------------------------------------------------------------------
(***************************************************************************)
(* Steps that send nothing A waits for: the frames on their way become no  *)
(* more, and the timers of A and the phases of the packets stay.           *)
(***************************************************************************)
Frames == {"RTS", "DATA"}
Waits  == {"wait_CTS", "wait_ACK", "DATA", "RTS", "back_off"}
Phases == {"backed_off", "awaits_CTS", "has_CTS", "awaits_ACK", "has_ACK"}

NotMore == \A q \in Frames : \A S \in SUBSET Int : Flying(q, S)' <= Flying(q, S)

WaitsStay == \A call \in Waits : \A d, S : CountA(call, d, S)' = CountA(call, d, S)

LEMMA CountsType ==
  ASSUME TInv
  PROVE  /\ \A q, S : Flying(q, S) \in Nat
         /\ \A call, d, S : CountA(call, d, S) \in Nat
         /\ \A ph : N(ph) \in Nat
<1>1. \A q, S : Flying(q, S) \in Nat
  BY FlyingType
<1>2. \A call, d, S : CountA(call, d, S) \in Nat
  BY TwoPeers, CountType DEF CountA
<1>3. \A ph : N(ph) \in Nat
  BY QueueFinite, NumIsNat DEF N
<1> QED BY <1>1, <1>2, <1>3

LEMMA FlyingTypeNext ==
  ASSUME TInv', NEW q, NEW S
  PROVE  Flying(q, S)' \in Nat
<1>1. /\ InCell("B", q, 0, S)' \in Nat /\ InHand("B", q, 0, S)' \in Nat
      /\ InCell("A", Reply(q), MAX_PROP_DELAY, S)' \in Nat
      /\ InHand("A", Reply(q), MAX_PROP_DELAY, S)' \in Nat
  BY DEF InCell, InHand, Hit
<1>2. timers'["B"] \in Seq(TimerOf("B"))
  BY TwoPeers DEF TInv, Typed, TimersTyped
<1>3. Count(timers["B"], Reply(q), MAX_PROP_DELAY, S)' \in Nat
  BY <1>2, CountIsNat
<1> QED BY <1>1, <1>3 DEF Flying

LEMMA CountedKept ==
  ASSUME TInv, TInv', Counted, NotMore, WaitsStay,
         \A ph \in Phases : N(ph)' = N(ph)
  PROVE  Counted'
<1>1. Balance'
  BY DEF Counted, Balance, WaitsStay, Waits, Phases
<1>2. Matched'
  <2> SUFFICES ASSUME NEW S \in SUBSET Int
               PROVE  /\ Flying("RTS", S)' <= CountA("wait_CTS", WAIT_FB_TIME, S)'
                      /\ Flying("DATA", S)' <= CountA("wait_ACK", WAIT_FB_TIME, S)'
    BY DEF Matched
  <2>1. /\ Flying("RTS", S) <= CountA("wait_CTS", WAIT_FB_TIME, S)
        /\ Flying("DATA", S) <= CountA("wait_ACK", WAIT_FB_TIME, S)
    BY DEF Counted, Matched
  <2>2. /\ Flying("RTS", S)' <= Flying("RTS", S)
        /\ Flying("DATA", S)' <= Flying("DATA", S)
    BY DEF NotMore, Frames
  <2>3. /\ CountA("wait_CTS", WAIT_FB_TIME, S)' = CountA("wait_CTS", WAIT_FB_TIME, S)
        /\ CountA("wait_ACK", WAIT_FB_TIME, S)' = CountA("wait_ACK", WAIT_FB_TIME, S)
    BY DEF WaitsStay, Waits
  <2>4. /\ Flying("RTS", S)' \in Nat /\ Flying("DATA", S)' \in Nat
        /\ Flying("RTS", S) \in Nat /\ Flying("DATA", S) \in Nat
        /\ CountA("wait_CTS", WAIT_FB_TIME, S) \in Nat
        /\ CountA("wait_ACK", WAIT_FB_TIME, S) \in Nat
    BY FlyingTypeNext, CountsType
  <2> QED BY <2>1, <2>2, <2>3, <2>4
<1>3. ASSUME NEW S \in SUBSET Int
      PROVE  N("has_CTS")' + Flying("RTS", S)'
               <= CountA("DATA", 2 * MAX_PROP_DELAY, Int \ S)'
                    + CountA("wait_CTS", WAIT_FB_TIME, S)'
  <2>1. N("has_CTS") + Flying("RTS", S)
          <= CountA("DATA", 2 * MAX_PROP_DELAY, Int \ S)
               + CountA("wait_CTS", WAIT_FB_TIME, S)
    BY DEF Counted, Answered
  <2>2. /\ Flying("RTS", S)' <= Flying("RTS", S)
        /\ N("has_CTS")' = N("has_CTS")
        /\ CountA("wait_CTS", WAIT_FB_TIME, S)' = CountA("wait_CTS", WAIT_FB_TIME, S)
        /\ CountA("DATA", 2 * MAX_PROP_DELAY, Int \ S)'
             = CountA("DATA", 2 * MAX_PROP_DELAY, Int \ S)
    BY DEF NotMore, Frames, WaitsStay, Waits, Phases
  <2>3. /\ Flying("RTS", S)' \in Nat /\ Flying("RTS", S) \in Nat
        /\ N("has_CTS") \in Nat
        /\ CountA("wait_CTS", WAIT_FB_TIME, S) \in Nat
        /\ CountA("DATA", 2 * MAX_PROP_DELAY, Int \ S) \in Nat
    BY FlyingTypeNext, CountsType
  <2> QED BY <2>1, <2>2, <2>3
<1>4. N("has_ACK")' + Flying("DATA", Int)' <= CountA("wait_ACK", WAIT_FB_TIME, Int)'
  <2>1. N("has_ACK") + Flying("DATA", Int) <= CountA("wait_ACK", WAIT_FB_TIME, Int)
    BY DEF Counted, Answered
  <2>2. Int \in SUBSET Int
    OBVIOUS
  <2>3. /\ Flying("DATA", Int)' <= Flying("DATA", Int)
        /\ N("has_ACK")' = N("has_ACK")
        /\ CountA("wait_ACK", WAIT_FB_TIME, Int)' = CountA("wait_ACK", WAIT_FB_TIME, Int)
    BY <2>2 DEF NotMore, Frames, WaitsStay, Waits, Phases
  <2>4. /\ Flying("DATA", Int)' \in Nat /\ Flying("DATA", Int) \in Nat
        /\ N("has_ACK") \in Nat /\ CountA("wait_ACK", WAIT_FB_TIME, Int) \in Nat
    BY FlyingTypeNext, CountsType
  <2> QED BY <2>1, <2>3, <2>4
<1> QED BY <1>1, <1>2, <1>3, <1>4 DEF Counted, Answered

LEMMA NumbersSame ==
  ASSUME UNCHANGED <<queue, stat>>
  PROVE  \A ph : N(ph)' = N(ph)
BY DEF N

LEMMA FlyingSame ==
  ASSUME TInv, timers'["B"] = timers["B"], UNCHANGED <<cell, frame, pc>>
  PROVE  \A q, S : Flying(q, S)' = Flying(q, S)
BY DEF Flying, InCell, InHand

LEMMA NotMoreSame ==
  ASSUME TInv, timers'["B"] = timers["B"], UNCHANGED <<cell, frame, pc>>
  PROVE  NotMore
<1> SUFFICES ASSUME NEW q \in Frames, NEW S \in SUBSET Int
             PROVE  Flying(q, S)' <= Flying(q, S)
  BY DEF NotMore
<1>1. Flying(q, S)' = Flying(q, S) /\ Flying(q, S) \in Nat
  BY FlyingSame, FlyingType
<1> QED BY <1>1

LEMMA WaitsStaySame ==
  ASSUME timers'["A"] = timers["A"]
  PROVE  WaitsStay
BY DEF WaitsStay, CountA

\* The time stamps are the times.
LEMMA StampIsNow ==
  ASSUME TInv, NoWrap
  PROVE  TimeStamp(now) = now /\ now \in Nat
BY DEF NoWrap, TInv, Typed, PacketsTyped, TimeStamp

LEMMA TimelySteady ==
  ASSUME TInv, TInv', Timely, \A n \in Peer : Quiet(n), UNCHANGED <<now, cell, pc, frame>>
  PROVE  Timely'
BY TimelyKept

\* A is in its loop.
LEMMA AddPacketIInv ==
  ASSUME TInv, TInv', IInv, AddPacket
  PROVE  IInv'
<1>1. /\ queue' = queue \cup {arrived + 1}
      /\ UNCHANGED <<now, arrival, stat, timers, cell, pc, frame>>
  BY DEF AddPacket, mainVars
<1>2. Timely'
  BY <1>1, QuietSame, TimelySteady DEF IInv
<1>3. \A ph \in Phases : N(ph)' = N(ph)
  <2>1. arrived + 1 \notin queue /\ stat[arrived + 1] = NewPacket
    <3>1. queue \subseteq 1 .. arrived /\ arrived \in Nat
      BY QueueFinite DEF TInv, Typed, PacketsTyped
    <3>2. arrived + 1 \in DOMAIN arrival
      BY <3>1, QueueFinite DEF AddPacket, PacketReady
    <3> QED BY <3>1, <3>2 DEF TInv, Vectors
  <2>2. ASSUME NEW ph \in Phases PROVE Num(queue', stat, ph) = Num(queue, stat, ph)
    <3>1. Num(queue \cup {arrived + 1}, stat, ph)
            = Num(queue, stat, ph) + Is(Phase(stat[arrived + 1]), ph)
      <4> DEFINE p == arrived + 1
      <4>1. p \notin queue /\ IsFiniteSet(queue)
        BY <2>1, QueueFinite
      <4> HIDE DEF p
      <4>2. Num(queue \cup {p}, stat, ph) = Num(queue, stat, ph) + Is(Phase(stat[p]), ph)
        BY <4>1, NumAdd
      <4> QED BY <4>2 DEF p
    <3>2. Is(Phase(stat[arrived + 1]), ph) = 0
      BY <2>1, NewPacketPhase DEF Is, Phases
    <3>3. Num(queue, stat, ph) \in Nat
      BY QueueFinite, NumIsNat
    <3> QED BY <1>1, <3>1, <3>2, <3>3
  <2> QED BY <1>1, <2>2 DEF N
<1>4. NotMore /\ WaitsStay
  BY <1>1, NotMoreSame, WaitsStaySame
<1> QED BY <1>1, <1>2, <1>3, <1>4, CountedKept DEF IInv

LEMMA GiveUpIInv ==
  ASSUME TInv, TInv', IInv, GiveUp
  PROVE  IInv'
<1>1. PICK p \in Meeting(Unsent) : queue' = queue \ {p}
  BY DEF GiveUp
<1>2. UNCHANGED <<now, stat, timers, cell, pc, frame>>
  BY DEF GiveUp, mainVars
<1>3. Timely'
  BY <1>2, QuietSame, TimelySteady DEF IInv
<1>4. p \in queue /\ Phase(stat[p]) = "unsent"
  BY MeetingPhase, InPhase
<1>5. \A ph \in Phases : N(ph)' = N(ph)
  <2>1. ASSUME NEW ph \in Phases PROVE Num(queue', stat, ph) = Num(queue, stat, ph)
    <3>1. Num(queue \ {p}, stat, ph) = Num(queue, stat, ph) - Is(Phase(stat[p]), ph)
      BY <1>4, QueueFinite, NumRemove
    <3>2. Is(Phase(stat[p]), ph) = 0
      BY <1>4 DEF Is, Phases
    <3>3. Num(queue, stat, ph) \in Nat
      BY QueueFinite, NumIsNat
    <3> QED BY <1>1, <3>1, <3>2, <3>3
  <2> QED BY <1>2, <2>1 DEF N
<1>6. NotMore /\ WaitsStay
  BY <1>2, NotMoreSame, WaitsStaySame
<1> QED BY <1>2, <1>3, <1>5, <1>6, CountedKept DEF IInv

----------------------------------------------------------------------------
(***************************************************************************)
(* The receptions.                                                         *)
(***************************************************************************)
LEMMA TimersOfType ==
  ASSUME TInv, NEW n \in Peer, NEW k \in DOMAIN timers[n]
  PROVE  timers[n][k].at \in Nat /\ timers[n][k].call \in Calls(n)
<1>1. timers[n][k] \in TimerOf(n)
  BY CountType
<1> QED BY <1>1 DEF TimerOf

\* How old the frame may be that n has read, or that waits in its cell.
LEMMA Fresh ==
  ASSUME TInv, Timely, NEW n \in Peer, pc[n] # "exited"
  PROVE  /\ Since(cell[n], now - CFRM_PROC_TIME - Slack(n))
         /\ pc[n] # "poll" => /\ frame[n] # NoFrame
                              /\ frame[n].tmv_stmp >= now - CFRM_PROC_TIME - 2 * Slack(n)
         /\ cell[n].tmv_stmp <= now /\ frame[n].tmv_stmp <= now
<1>1. Young(n)
  BY DEF Timely
<1>2. /\ now \in Nat /\ CFRM_PROC_TIME \in Nat /\ Slack(n) \in Nat
      /\ cell[n].tmv_stmp \in Nat /\ frame[n].tmv_stmp \in Nat
  BY WaitsAssumption, IntervalIsInt DEF Slack, TInv, Typed, PacketsTyped
<1>3. pc[n] \in {"poll", "rx_sleep", "rx_awake", "tx_sleep", "tx_awake", "exited"}
  BY DEF TInv, Typed, MainTyped
<1>4. CASE pc[n] = "poll"
  BY <1>1, <1>2, <1>4 DEF Young, Since
<1>5. CASE pc[n] \in {"rx_awake", "tx_awake"}
  BY <1>1, <1>2, <1>5 DEF Young, Since
<1>6. CASE pc[n] = "rx_sleep"
  <2>1. Count(timers[n], "rx_v_sleep", 0, Int) # 0
    BY <1>6 DEF Timely, SleepOK, Is
  <2>2. PICK k \in DOMAIN timers[n] : timers[n][k].call = "rx_v_sleep"
    BY <2>1, CountType, CountWitness
  <2>3. timers[n][k].at >= now /\ timers[n][k].at \in Nat
    BY TimersOfType DEF Timely, NotOverdue
  <2>4. /\ Since(cell[n], timers[n][k].at - CFRM_PROC_TIME)
        /\ Since(frame[n], timers[n][k].at - CFRM_PROC_TIME - Slack(n))
    BY <1>1, <2>2 DEF Young
  <2> QED BY <1>1, <1>2, <1>6, <2>3, <2>4 DEF Young, Since
<1>7. CASE pc[n] = "tx_sleep"
  <2>1. Count(timers[n], "tx_v_sleep", 0, Int) # 0
    BY <1>7 DEF Timely, SleepOK, Is
  <2>2. PICK k \in DOMAIN timers[n] : timers[n][k].call = "tx_v_sleep"
    BY <2>1, CountType, CountWitness
  <2>3. timers[n][k].at >= now /\ timers[n][k].at \in Nat
    BY TimersOfType DEF Timely, NotOverdue
  <2>4. /\ Since(cell[n], timers[n][k].at - Slack(n))
        /\ Since(frame[n], timers[n][k].at - CFRM_PROC_TIME - 2 * Slack(n))
    BY <1>1, <2>2 DEF Young
  <2> QED BY <1>1, <1>2, <1>7, <2>3, <2>4 DEF Young, Since
<1> QED BY <1>3, <1>4, <1>5, <1>6, <1>7

\* The time left to answer is positive and less than a turn of the wheel.
LEMMA IntervalInWheel ==
  ASSUME TInv, Timely, NoWrap, NEW n \in Peer, pc[n] \notin {"poll", "exited"}
  PROVE  /\ Interval(n) \in 1 .. (TIME_WHEEL_SIZE - 1)
         /\ At(Interval(n)) = frame[n].tmv_stmp + MAX_PROP_DELAY
<1>1. /\ frame[n].tmv_stmp >= now - CFRM_PROC_TIME - 2 * Slack(n)
      /\ frame[n].tmv_stmp <= now /\ frame[n].tmv_stmp \in Nat
  BY Fresh, IntervalIsInt
<1>2. Interval(n) = frame[n].tmv_stmp + MAX_PROP_DELAY - now /\ now \in Nat
  BY StampIsNow DEF Interval
<1>3. Slack(n) \in Nat /\ Slack(n) <= DATA_PKT_PROC_TIME
  BY WaitsAssumption DEF Slack
<1>4. Interval(n) \in 1 .. (TIME_WHEEL_SIZE - 1)
  BY <1>1, <1>2, <1>3, WaitsAssumption, TimesAssumption
<1>5. At(Interval(n)) = now + Interval(n)
  BY <1>4, AtType
<1> QED BY <1>1, <1>2, <1>4, <1>5, TimesAssumption

\* Only calls of the frames that count matter.
LEMMA HitOther ==
  ASSUME NEW c, NEW x, NEW call, NEW d, NEW S, c # call
  PROVE  Hit(c, x, call, d, S) = 0
BY DEF Hit

LEMMA FramesReplies ==
  ASSUME NEW q \in Frames
  PROVE  /\ Reply(q) \in {"CTS", "ACK"} /\ Reply(q) \notin Sleeps
         /\ q # "none" /\ Reply(q) # "none"
BY DEF Frames, Reply, Sleeps

\* Timers of n that are not those of the waits and the replies.
LEMMA SleepTimerSet ==
  ASSUME TInv, NEW n \in Peer, NEW i \in Int, NEW c \in Calls(n), c \in Sleeps,
         timers' = Set(n, timers[n], i, c)
  PROVE  /\ WaitsStay
         /\ \A q \in Frames : \A S : Count(timers'["B"], Reply(q), MAX_PROP_DELAY, S)
                                      = Count(timers["B"], Reply(q), MAX_PROP_DELAY, S)
<1>1. /\ \A m \in Peer : m # n => timers'[m] = timers[m]
      /\ \A call, d, S : Count(timers'[n], call, d, S)
                           = Count(timers[n], call, d, S) + Hit(c, At(i), call, d, S)
  BY CountSet
<1>2. ASSUME NEW m \in Peer, NEW call, NEW d, NEW S, call \notin Sleeps
      PROVE  Count(timers'[m], call, d, S) = Count(timers[m], call, d, S)
  <2>1. CASE m = n
    <3>1. Hit(c, At(i), call, d, S) = 0
      BY <1>2, HitOther
    <3>2. Count(timers[n], call, d, S) \in Nat
      BY CountType
    <3> QED BY <2>1, <3>1, <3>2, <1>1
  <2>2. CASE m # n
    BY <2>2, <1>1
  <2> QED BY <2>1, <2>2
<1>3. WaitsStay
  BY <1>2, TwoPeers DEF WaitsStay, CountA, Waits, Sleeps
<1> QED BY <1>2, <1>3, TwoPeers, FramesReplies

LEMMA SleepTimerRemain ==
  ASSUME TInv, NEW n \in Peer, NEW k \in DOMAIN timers[n], timers[n][k].call \in Sleeps,
         Remain(n, k)
  PROVE  /\ WaitsStay
         /\ \A q \in Frames : \A S : Count(timers'["B"], Reply(q), MAX_PROP_DELAY, S)
                                      = Count(timers["B"], Reply(q), MAX_PROP_DELAY, S)
<1> DEFINE t == timers[n][k]
<1>1. /\ \A m \in Peer : m # n => timers'[m] = timers[m]
      /\ \A call, d, S : Count(timers'[n], call, d, S)
                           = Count(timers[n], call, d, S) - Hit(t.call, t.at, call, d, S)
  BY CountRemain
<1>2. ASSUME NEW m \in Peer, NEW call, NEW d, NEW S, call \notin Sleeps
      PROVE  Count(timers'[m], call, d, S) = Count(timers[m], call, d, S)
  <2>1. CASE m = n
    <3>1. Hit(t.call, t.at, call, d, S) = 0
      BY <1>2, HitOther
    <3>2. Count(timers[n], call, d, S) \in Nat
      BY CountType
    <3> QED BY <2>1, <3>1, <3>2, <1>1
  <2>2. CASE m # n
    BY <2>2, <1>1
  <2> QED BY <2>1, <2>2
<1>3. WaitsStay
  BY <1>2, TwoPeers DEF WaitsStay, CountA, Waits, Sleeps
<1> QED BY <1>2, <1>3, TwoPeers, FramesReplies

\* A frame goes from the cell into the hand, or is lost.
LEMMA FrameTaken ==
  ASSUME TInv, NEW n \in Peer,
         \A q \in Frames : \A S : Count(timers'["B"], Reply(q), MAX_PROP_DELAY, S)
                                    = Count(timers["B"], Reply(q), MAX_PROP_DELAY, S),
         cell' = [cell EXCEPT ![n] = NoFrame],
         \A m \in Peer : m # n => frame'[m] = frame[m] /\ pc'[m] = pc[m],
         \/ pc[n] = "poll" /\ frame'[n] = cell[n]
         \/ pc'[n] = "poll"
         \/ pc'[n] = pc[n] /\ frame'[n] = frame[n]
  PROVE  NotMore
<1> SUFFICES ASSUME NEW q \in Frames, NEW S \in SUBSET Int
             PROVE  Flying(q, S)' <= Flying(q, S)
  BY DEF NotMore
<1>1. /\ cell'[n] = NoFrame /\ \A m \in Peer : m # n => cell'[m] = cell[m]
  BY DEF TInv, Typed, FramesTyped
<1>2. ASSUME NEW type, NEW d, type # "none"
      PROVE  /\ InCell(n, type, d, S)' + InHand(n, type, d, S)'
                  <= InCell(n, type, d, S) + InHand(n, type, d, S)
             /\ InCell(n, type, d, S)' = 0 /\ InHand(n, type, d, S)' \in Nat
             /\ InCell(n, type, d, S) \in Nat /\ InHand(n, type, d, S) \in Nat
  <2>1. InCell(n, type, d, S)' = 0
    BY <1>1, <1>2 DEF InCell, Hit, NoFrame
  <2>2. InHand(n, type, d, S)' = IF pc'[n] = "poll" THEN 0
                                 ELSE Hit(frame'[n].type, frame'[n].tmv_stmp, type, d, S)
    BY DEF InHand
  <2>3. InHand(n, type, d, S)' <= InCell(n, type, d, S) + InHand(n, type, d, S)
    <3>1. CASE pc[n] = "poll" /\ frame'[n] = cell[n]
      BY <3>1, <2>2 DEF InCell, InHand, Hit
    <3>2. CASE pc'[n] = "poll"
      BY <3>2, <2>2 DEF InCell, InHand, Hit
    <3>3. CASE pc'[n] = pc[n] /\ frame'[n] = frame[n]
      BY <3>3, <2>2 DEF InCell, InHand, Hit
    <3> QED BY <3>1, <3>2, <3>3
  <2>4. /\ InCell(n, type, d, S) \in Nat /\ InHand(n, type, d, S) \in Nat
        /\ InHand(n, type, d, S)' \in Nat
    BY <2>2 DEF InCell, InHand, Hit
  <2> QED BY <2>1, <2>3, <2>4
<1>3. ASSUME NEW m \in Peer, m # n, NEW type, NEW d
      PROVE  /\ InCell(m, type, d, S)' = InCell(m, type, d, S)
             /\ InHand(m, type, d, S)' = InHand(m, type, d, S)
  BY <1>1, <1>3 DEF InCell, InHand
<1>4. q # "none" /\ Reply(q) # "none"
  BY FramesReplies
<1>5. Count(timers["B"], Reply(q), MAX_PROP_DELAY, S)'
        = Count(timers["B"], Reply(q), MAX_PROP_DELAY, S)
  OBVIOUS
<1>6. /\ InCell("B", q, 0, S) \in Nat /\ InHand("B", q, 0, S) \in Nat
      /\ Count(timers["B"], Reply(q), MAX_PROP_DELAY, S) \in Nat
      /\ InCell("A", Reply(q), MAX_PROP_DELAY, S) \in Nat
      /\ InHand("A", Reply(q), MAX_PROP_DELAY, S) \in Nat
  BY FlyingType
<1>7. CASE n = "A"
  <2>1. /\ InCell("A", Reply(q), MAX_PROP_DELAY, S)'
             + InHand("A", Reply(q), MAX_PROP_DELAY, S)'
             <= InCell("A", Reply(q), MAX_PROP_DELAY, S)
                  + InHand("A", Reply(q), MAX_PROP_DELAY, S)
        /\ InCell("A", Reply(q), MAX_PROP_DELAY, S)' = 0
        /\ InHand("A", Reply(q), MAX_PROP_DELAY, S)' \in Nat
    BY <1>2, <1>4, <1>7
  <2>2. /\ InCell("B", q, 0, S)' = InCell("B", q, 0, S)
        /\ InHand("B", q, 0, S)' = InHand("B", q, 0, S)
    BY <1>3, <1>7, TwoPeers
  <2> QED BY <2>1, <2>2, <1>5, <1>6 DEF Flying
<1>8. CASE n = "B"
  <2>1. /\ InCell("B", q, 0, S)' + InHand("B", q, 0, S)'
             <= InCell("B", q, 0, S) + InHand("B", q, 0, S)
        /\ InCell("B", q, 0, S)' = 0 /\ InHand("B", q, 0, S)' \in Nat
    BY <1>2, <1>4, <1>8
  <2>2. /\ InCell("A", Reply(q), MAX_PROP_DELAY, S)' = InCell("A", Reply(q), MAX_PROP_DELAY, S)
        /\ InHand("A", Reply(q), MAX_PROP_DELAY, S)' = InHand("A", Reply(q), MAX_PROP_DELAY, S)
    BY <1>3, <1>8, TwoPeers
  <2> QED BY <2>1, <2>2, <1>5, <1>6 DEF Flying
<1> QED BY <1>7, <1>8, TwoPeers

LEMMA NoTimers ==
  ASSUME NEW n \in Peer, NEW s \in Seq(TimerOf(n)), NEW call, Count(s, call, 0, Int) = 0
  PROVE  \A k \in DOMAIN s : s[k].call # call
<1> SUFFICES ASSUME NEW k \in DOMAIN s, s[k].call = call PROVE FALSE
  OBVIOUS
<1>1. s[k] \in TimerOf(n)
  OBVIOUS
<1>2. s[k].at - 0 \in Int
  BY <1>1 DEF TimerOf
<1>3. Count(s, call, 0, Int) >= 1
  BY <1>2, CountPositive
<1> QED BY <1>3

LEMMA YoungSame ==
  ASSUME NEW n, Young(n), now' = now, timers'[n] = timers[n], cell'[n] = cell[n],
         frame'[n] = frame[n], pc'[n] = pc[n]
  PROVE  Young(n)'
BY DEF Young, Slack, Since

\* The sleep that a timer ends.
SleepOf(c) == IF c = "rx_v_sleep" THEN "rx_sleep" ELSE "tx_sleep"

\* n has only one timer that ends a sleep.
Woken(n, c, t) ==
  \A k \in DOMAIN timers[n] :
    timers[n][k].call \in Sleeps => timers[n][k].call = c /\ timers[n][k].at = t

\* main of n goes to sleep.
LEMMA FallAsleep ==
  ASSUME TInv, TInv', Timely, NEW n \in Peer, NEW i \in Nat, NEW c \in Calls(n),
         c \in Sleeps, pc[n] \notin {"rx_sleep", "tx_sleep"}, now' = now,
         timers' = Set(n, timers[n], i, c), pc' = [pc EXCEPT ![n] = SleepOf(c)]
  PROVE  /\ NotOverdue' /\ SleepOK'
         /\ \A m \in Peer : m # n => timers'[m] = timers[m] /\ pc'[m] = pc[m]
         /\ \A t : t = At(i) => Woken(n, c, t)'
<1> DEFINE s == timers[n]
           e == [at |-> At(i), call |-> c]
<1>1. s \in Seq(TimerOf(n))
  BY CountType
<1>2. timers'[n] = Append(s, e) /\ \A m \in Peer : m # n => timers'[m] = timers[m]
  BY <1>1, SetTyped
<1>3. At(i) \in Nat /\ At(i) >= now /\ now \in Nat
  BY AtType DEF TInv, Typed, PacketsTyped
<1>4. pc'[n] = SleepOf(c) /\ \A m \in Peer : m # n => pc'[m] = pc[m]
  BY DEF TInv, Typed, MainTyped
<1>5. e.at = At(i) /\ e.call = c
  OBVIOUS
<1>6. ASSUME NEW k \in DOMAIN timers'[n]
      PROVE  (\E j \in DOMAIN s : timers'[n][k] = s[j]) \/ timers'[n][k] = e
  <2> HIDE DEF e
  <2> QED BY <1>1, <1>2
<1>7. NotOverdue'
  <2>1. ASSUME NEW m \in Peer, NEW k \in DOMAIN timers'[m]
        PROVE  timers'[m][k].at >= now
    <3>1. CASE m = n
      <4> HIDE DEF e
      <4>1. CASE timers'[n][k] = e
        BY <3>1, <4>1, <1>3, <1>5
      <4>2. CASE \E j \in DOMAIN s : timers'[n][k] = s[j]
        BY <3>1, <4>2 DEF Timely, NotOverdue
      <4> QED BY <3>1, <4>1, <4>2, <1>6
    <3>2. CASE m # n
      BY <3>2, <1>2 DEF Timely, NotOverdue
    <3> QED BY <3>1, <3>2
  <2> QED BY <2>1 DEF NotOverdue
<1>8. ASSUME NEW call \in Sleeps
      PROVE  /\ Count(s, call, 0, Int) = 0
             /\ Count(timers'[n], call, 0, Int) = IF call = c THEN 1 ELSE 0
  <2>1. Count(s, call, 0, Int) = 0
    BY DEF Timely, SleepOK, Is, Sleeps
  <2>2. Count(Append(s, e), call, 0, Int) = Count(s, call, 0, Int)
          + Hit(c, At(i), call, 0, Int)
    BY <1>1, CountAppendTimer
  <2>3. At(i) - 0 \in Int
    BY <1>3
  <2>4. Hit(c, At(i), call, 0, Int) = IF call = c THEN 1 ELSE 0
    BY <2>3 DEF Hit
  <2> HIDE DEF e
  <2> QED BY <1>2, <2>1, <2>2, <2>4
<1>9. SleepOK'
  <2>1. ASSUME NEW m \in Peer
        PROVE  /\ Count(timers'[m], "rx_v_sleep", 0, Int) = Is(pc'[m], "rx_sleep")
               /\ Count(timers'[m], "tx_v_sleep", 0, Int) = Is(pc'[m], "tx_sleep")
    <3>1. CASE m = n
      BY <3>1, <1>4, <1>8 DEF Sleeps, SleepOf, Is
    <3>2. CASE m # n
      BY <3>2, <1>2, <1>4 DEF Timely, SleepOK
    <3> QED BY <3>1, <3>2
  <2> QED BY <2>1 DEF SleepOK
<1>10. ASSUME NEW k \in DOMAIN timers'[n], timers'[n][k].call \in Sleeps
       PROVE  timers'[n][k] = e
  <2>1. \A j \in DOMAIN s : s[j].call # timers'[n][k].call
    BY <1>1, <1>8, <1>10, NoTimers
  <2> QED BY <2>1, <1>6
<1>11. \A t : t = At(i) => Woken(n, c, t)'
  BY <1>5, <1>10 DEF Woken
<1> QED BY <1>2, <1>4, <1>7, <1>9, <1>11

LEMMA ReadFrameIInv ==
  ASSUME TInv, TInv', IInv, NEW n \in Peer, ReadFrame(n)
  PROVE  IInv'
<1>1. /\ pc[n] = "poll" /\ cell[n] # NoFrame
      /\ frame' = [frame EXCEPT ![n] = cell[n]]
      /\ cell' = [cell EXCEPT ![n] = NoFrame]
      /\ pc' = [pc EXCEPT ![n] = "rx_sleep"]
      /\ timers' = Set(n, timers[n], CFRM_PROC_TIME, "rx_v_sleep")
      /\ UNCHANGED <<now, queue, stat>>
  BY DEF ReadFrame, queueVars
<1>2. "rx_v_sleep" \in Calls(n) /\ "rx_v_sleep" \in Sleeps
  BY DEF Calls, Sleeps
<1>3. CFRM_PROC_TIME \in Nat /\ At(CFRM_PROC_TIME) = now + CFRM_PROC_TIME
      /\ now \in Nat /\ DATA_PKT_PROC_TIME \in Nat
  <2>1. /\ CFRM_PROC_TIME \in Nat /\ CFRM_PROC_TIME \in 0 .. (TIME_WHEEL_SIZE - 1)
        /\ DATA_PKT_PROC_TIME \in Nat
    BY WaitsAssumption, TimesAssumption
  <2> QED BY <2>1, AtType DEF TInv, Typed, PacketsTyped
<1>4. /\ frame'[n] = cell[n] /\ cell'[n] = NoFrame
      /\ \A m \in Peer : m # n => frame'[m] = frame[m] /\ cell'[m] = cell[m]
  BY <1>1 DEF TInv, Typed, FramesTyped
<1>5. /\ NotOverdue' /\ SleepOK' /\ pc'[n] = "rx_sleep"
      /\ \A m \in Peer : m # n => timers'[m] = timers[m] /\ pc'[m] = pc[m]
      /\ \A k \in DOMAIN timers'[n] :
           timers'[n][k].call \in Sleeps =>
             timers'[n][k].call = "rx_v_sleep" /\ timers'[n][k].at = now + CFRM_PROC_TIME
  <2>1. pc[n] \notin {"rx_sleep", "tx_sleep"} /\ Timely
    BY <1>1 DEF IInv
  <2>2. SleepOf("rx_v_sleep") = "rx_sleep"
    BY DEF SleepOf
  <2>3. pc' = [pc EXCEPT ![n] = SleepOf("rx_v_sleep")] /\ now' = now
    BY <1>1, <2>2
  <2>4. timers' = Set(n, timers[n], CFRM_PROC_TIME, "rx_v_sleep")
    BY <1>1
  <2>5. /\ NotOverdue' /\ SleepOK'
        /\ \A m \in Peer : m # n => timers'[m] = timers[m] /\ pc'[m] = pc[m]
        /\ \A t : t = At(CFRM_PROC_TIME) => Woken(n, "rx_v_sleep", t)'
    BY <1>2, <1>3, <2>1, <2>3, <2>4, FallAsleep
  <2>6. PICK t : t = At(CFRM_PROC_TIME) /\ Woken(n, "rx_v_sleep", t)'
    BY <2>5
  <2>7. ASSUME NEW k \in DOMAIN timers'[n], timers'[n][k].call \in Sleeps
        PROVE  timers'[n][k].call = "rx_v_sleep" /\ timers'[n][k].at = now + CFRM_PROC_TIME
    BY <2>6, <2>7, <1>3 DEF Woken
  <2>8. pc'[n] = "rx_sleep"
    BY <1>1 DEF TInv, Typed, MainTyped, Peer
  <2> QED BY <2>5, <2>8, <2>7
<1>6. ASSUME NEW m \in Peer PROVE Young(m)'
  <2>1. Young(m)
    BY DEF IInv, Timely
  <2>2. CASE m # n
    BY <2>1, <2>2, <1>1, <1>4, <1>5, YoungSame
  <2>3. CASE m = n
    <3>1. /\ Slack(n) \in Nat /\ Slack(n)' = Slack(n) /\ NoFrame.tmv_stmp = 0
          /\ cell[n].tmv_stmp <= now /\ Since(cell[n], now - Slack(n))
      BY <2>1, <2>3, <1>1, <1>3 DEF Slack, NoFrame, Young
    <3>2. \A t \in Int : Since(cell'[n], t)
      BY <1>4 DEF Since
    <3>3. Since(frame'[n], now - Slack(n))
      BY <3>1, <1>4
    <3>4. ASSUME NEW k \in DOMAIN timers'[n], timers'[n][k].call \in Sleeps
          PROVE  timers'[n][k].call = "rx_v_sleep" /\ timers'[n][k].at - CFRM_PROC_TIME = now
      BY <3>4, <1>3, <1>5
    <3>5. now - Slack(n) \in Int
      BY <1>3, <3>1
    <3> QED BY <2>3, <1>1, <1>3, <1>4, <1>5, <3>1, <3>2, <3>3, <3>4, <3>5
            DEF Young, Sleeps
  <2> QED BY <2>2, <2>3
<1>7. Timely'
  BY <1>5, <1>6 DEF Timely
<1>8. /\ WaitsStay
      /\ \A q \in Frames : \A S : Count(timers'["B"], Reply(q), MAX_PROP_DELAY, S)
                                   = Count(timers["B"], Reply(q), MAX_PROP_DELAY, S)
  BY <1>1, <1>2, <1>3, SleepTimerSet
<1>9. NotMore
  BY <1>1, <1>4, <1>5, <1>8, FrameTaken
<1>10. \A ph \in Phases : N(ph)' = N(ph)
  BY <1>1, NumbersSame
<1>11. Counted'
  BY <1>8, <1>9, <1>10, CountedKept DEF IInv
<1>12. pc'["A"] # "exited"
  BY <1>5, TwoPeers DEF IInv
<1> QED BY <1>7, <1>11, <1>12 DEF IInv

LEMMA FrameLostIInv ==
  ASSUME TInv, TInv', IInv, NEW n \in Peer, DropFrames(n) \/ Lose(n)
  PROVE  IInv'
<1>1. /\ cell' = [cell EXCEPT ![n] = NoFrame]
      /\ UNCHANGED <<now, queue, stat, timers, frame>>
      /\ \/ pc' = [pc EXCEPT ![n] = "poll"] /\ pc[n] = "rx_awake"
         \/ pc' = pc
  BY DEF DropFrames, Lose, queueVars, mainVars
<1>2. /\ cell'[n] = NoFrame /\ \A m \in Peer : m # n => cell'[m] = cell[m]
      /\ \A m \in Peer : m # n => pc'[m] = pc[m]
      /\ pc'[n] = pc[n] \/ (pc'[n] = "poll" /\ pc[n] = "rx_awake")
  BY <1>1 DEF TInv, Typed, FramesTyped, MainTyped
<1>3. \A m \in Peer : Quiet(m) /\ frame'[m] = frame[m]
  BY <1>1, QuietSame
<1>4. Since(cell'[n], now - Slack(n))
  BY <1>2 DEF Since
<1>5. Timely'
  BY <1>1, <1>2, <1>3, <1>4, TimelyKept DEF IInv
<1>6. NotMore
  BY <1>1, <1>2, FrameTaken
<1>7. WaitsStay /\ \A ph \in Phases : N(ph)' = N(ph)
  BY <1>1, WaitsStaySame, NumbersSame
<1>8. Counted'
  BY <1>6, <1>7, CountedKept DEF IInv
<1> QED BY <1>2, <1>5, <1>8, TwoPeers DEF IInv

LEMMA ReceiveDataIInv ==
  ASSUME TInv, TInv', IInv, ReceiveData
  PROVE  IInv'
<1>1. /\ pc["B"] = "rx_awake" /\ cell["B"] = NoFrame
      /\ pc' = [pc EXCEPT !["B"] = "tx_sleep"]
      /\ timers' = Set("B", timers["B"], DATA_PKT_PROC_TIME, "tx_v_sleep")
      /\ UNCHANGED <<now, queue, stat, cell, frame>>
  BY DEF ReceiveData, queueVars
<1>2. "tx_v_sleep" \in Calls("B") /\ "tx_v_sleep" \in Sleeps /\ "B" \in Peer
  BY DEF Calls, Sleeps, Peer
<1>3. /\ DATA_PKT_PROC_TIME \in Nat /\ CFRM_PROC_TIME \in Nat
      /\ At(DATA_PKT_PROC_TIME) = now + DATA_PKT_PROC_TIME /\ now \in Nat
  <2>1. /\ DATA_PKT_PROC_TIME \in Nat /\ DATA_PKT_PROC_TIME \in 0 .. (TIME_WHEEL_SIZE - 1)
        /\ CFRM_PROC_TIME \in Nat
    BY WaitsAssumption, TimesAssumption
  <2> QED BY <2>1, AtType DEF TInv, Typed, PacketsTyped
<1>4. /\ NotOverdue' /\ SleepOK' /\ pc'["B"] = "tx_sleep"
      /\ \A m \in Peer : m # "B" => timers'[m] = timers[m] /\ pc'[m] = pc[m]
      /\ \A k \in DOMAIN timers'["B"] :
           timers'["B"][k].call \in Sleeps =>
             timers'["B"][k].call = "tx_v_sleep" /\ timers'["B"][k].at = now + DATA_PKT_PROC_TIME
  <2>1. pc["B"] \notin {"rx_sleep", "tx_sleep"} /\ Timely
    BY <1>1 DEF IInv
  <2>2. SleepOf("tx_v_sleep") = "tx_sleep"
    BY DEF SleepOf
  <2>3. pc' = [pc EXCEPT !["B"] = SleepOf("tx_v_sleep")] /\ now' = now
    BY <1>1, <2>2
  <2>4. timers' = Set("B", timers["B"], DATA_PKT_PROC_TIME, "tx_v_sleep")
    BY <1>1
  <2>5. /\ NotOverdue' /\ SleepOK'
        /\ \A m \in Peer : m # "B" => timers'[m] = timers[m] /\ pc'[m] = pc[m]
        /\ \A t : t = At(DATA_PKT_PROC_TIME) => Woken("B", "tx_v_sleep", t)'
    BY <1>2, <1>3, <2>1, <2>3, <2>4, FallAsleep
  <2>6. PICK t : t = At(DATA_PKT_PROC_TIME) /\ Woken("B", "tx_v_sleep", t)'
    BY <2>5
  <2>7. ASSUME NEW k \in DOMAIN timers'["B"], timers'["B"][k].call \in Sleeps
        PROVE  timers'["B"][k].call = "tx_v_sleep" /\ timers'["B"][k].at = now + DATA_PKT_PROC_TIME
    BY <2>6, <2>7, <1>3 DEF Woken
  <2>8. pc'["B"] = "tx_sleep"
    BY <1>1 DEF TInv, Typed, MainTyped, Peer
  <2> QED BY <2>5, <2>8, <2>7
<1>5. ASSUME NEW m \in Peer PROVE Young(m)'
  <2>1. Young(m)
    BY DEF IInv, Timely
  <2>2. CASE m # "B"
    BY <2>1, <2>2, <1>1, <1>4, YoungSame
  <2>3. CASE m = "B"
    <3>1. Slack("B") = DATA_PKT_PROC_TIME /\ Slack("B")' = Slack("B")
      BY DEF Slack
    <3>2. \A t \in Int : Since(cell["B"], t)
      BY <1>1 DEF Since
    <3>3. /\ cell["B"].tmv_stmp <= now /\ frame["B"].tmv_stmp <= now
          /\ frame["B"] # NoFrame
          /\ Since(frame["B"], now - CFRM_PROC_TIME - Slack("B"))
      BY <2>1, <2>3, <1>1 DEF Young
    <3>4. ASSUME NEW k \in DOMAIN timers'["B"], timers'["B"][k].call \in Sleeps
          PROVE  /\ timers'["B"][k].call = "tx_v_sleep"
                 /\ timers'["B"][k].at - Slack("B") = now
                 /\ timers'["B"][k].at - CFRM_PROC_TIME - 2 * Slack("B")
                      = now - CFRM_PROC_TIME - Slack("B")
      BY <3>1, <3>4, <1>3, <1>4
    <3> QED BY <2>3, <1>1, <1>3, <1>4, <3>1, <3>2, <3>3, <3>4 DEF Young, Sleeps
  <2> QED BY <2>2, <2>3
<1>6. Timely'
  BY <1>4, <1>5 DEF Timely
<1>7. /\ WaitsStay
      /\ \A q \in Frames : \A S : Count(timers'["B"], Reply(q), MAX_PROP_DELAY, S)
                                   = Count(timers["B"], Reply(q), MAX_PROP_DELAY, S)
  BY <1>1, <1>2, <1>3, SleepTimerSet
<1>8. NotMore
  <2> SUFFICES ASSUME NEW q \in Frames, NEW S \in SUBSET Int
               PROVE  Flying(q, S)' <= Flying(q, S)
    BY DEF NotMore
  <2>1. \A m \in Peer : pc'[m] = "poll" <=> pc[m] = "poll"
    BY <1>1, <1>4
  <2>2. /\ \A m \in Peer : \A type, d : InHand(m, type, d, S)' = InHand(m, type, d, S)
        /\ \A m \in Peer : \A type, d : InCell(m, type, d, S)' = InCell(m, type, d, S)
    BY <2>1, <1>1 DEF InHand, InCell
  <2>3. Flying(q, S)' = Flying(q, S) /\ Flying(q, S) \in Nat
    BY <2>2, <1>7, FlyingType, TwoPeers DEF Flying
  <2> QED BY <2>3
<1>9. \A ph \in Phases : N(ph)' = N(ph)
  BY <1>1, NumbersSame
<1>10. Counted'
  BY <1>7, <1>8, <1>9, CountedKept DEF IInv
<1> QED BY <1>4, <1>6, <1>10, TwoPeers DEF IInv

AwakeOf(c) == IF c = "rx_v_sleep" THEN "rx_awake" ELSE "tx_awake"

\* Frames in the hand and in the cell stay what they are.
LEMMA FlyingStays ==
  ASSUME TInv, UNCHANGED <<cell, frame>>,
         \A m \in Peer : pc'[m] = "poll" <=> pc[m] = "poll",
         \A q \in Frames : \A S : Count(timers'["B"], Reply(q), MAX_PROP_DELAY, S)
                                    = Count(timers["B"], Reply(q), MAX_PROP_DELAY, S)
  PROVE  NotMore
<1> SUFFICES ASSUME NEW q \in Frames, NEW S \in SUBSET Int
             PROVE  Flying(q, S)' <= Flying(q, S)
  BY DEF NotMore
<1>1. /\ \A m \in Peer : \A type, d : InHand(m, type, d, S)' = InHand(m, type, d, S)
      /\ \A m \in Peer : \A type, d : InCell(m, type, d, S)' = InCell(m, type, d, S)
  BY DEF InHand, InCell
<1>2. Flying(q, S)' = Flying(q, S) /\ Flying(q, S) \in Nat
  BY <1>1, FlyingType, TwoPeers DEF Flying
<1> QED BY <1>2

\* main of n wakes up.
LEMMA WakeUp ==
  ASSUME TInv, TInv', IInv, NEW n \in Peer, NEW k \in DOMAIN timers[n],
         NEW c \in Sleeps, timers[n][k].call = c, timers[n][k].at = now,
         Remain(n, k), pc[n] = SleepOf(c), pc' = [pc EXCEPT ![n] = AwakeOf(c)],
         UNCHANGED <<now, queue, stat, cell, frame>>
  PROVE  IInv'
<1> DEFINE s == timers[n]
<1>1. /\ now \in Nat /\ CFRM_PROC_TIME \in Nat /\ Slack(n) \in Nat
      /\ Slack(n)' = Slack(n)
  BY WaitsAssumption DEF Slack, TInv, Typed, PacketsTyped
<1>2. /\ pc'[n] = AwakeOf(c) /\ \A m \in Peer : m # n => pc'[m] = pc[m]
      /\ AwakeOf(c) \in {"rx_awake", "tx_awake"}
      /\ SleepOf(c) \in {"rx_sleep", "tx_sleep"}
  BY DEF TInv, Typed, MainTyped, AwakeOf, SleepOf
<1>3. /\ timers'[n] = Rest(n, k) /\ Left(n, Rest(n, k))
      /\ \A m \in Peer : m # n => timers'[m] = timers[m]
      /\ timers'[n] \in Seq(TimerOf(n))
  BY RestTyped, RestLeft, RemainTyped DEF TInv, Typed, TimersTyped
<1>4. NotOverdue'
  <2>1. ASSUME NEW m \in Peer, NEW j \in DOMAIN timers'[m]
        PROVE  timers'[m][j].at >= now
    <3>1. CASE m = n
      <4>1. PICK i \in DOMAIN s : timers'[n][j] = s[i]
        BY <3>1, <1>3 DEF Left
      <4> QED BY <3>1, <4>1 DEF IInv, Timely, NotOverdue
    <3>2. CASE m # n
      BY <3>2, <1>3 DEF IInv, Timely, NotOverdue
    <3> QED BY <3>1, <3>2
  <2> QED BY <2>1 DEF NotOverdue
<1>5. ASSUME NEW call \in Sleeps PROVE Count(timers'[n], call, 0, Int) = 0
  <2>1. Count(timers'[n], call, 0, Int)
          = Count(s, call, 0, Int) - Hit(s[k].call, s[k].at, call, 0, Int)
    <3>1. \A x, d, S : Count(timers'[n], x, d, S)
                         = Count(s, x, d, S) - Hit(s[k].call, s[k].at, x, d, S)
      BY CountRemain
    <3> QED BY <3>1
  <2>2. Count(s, call, 0, Int) = IF call = c THEN 1 ELSE 0
    BY DEF IInv, Timely, SleepOK, Is, Sleeps, SleepOf
  <2>3. Hit(s[k].call, s[k].at, call, 0, Int) = IF call = c THEN 1 ELSE 0
    BY <1>1 DEF Hit
  <2> QED BY <2>1, <2>2, <2>3
<1>6. SleepOK'
  <2>1. ASSUME NEW m \in Peer
        PROVE  /\ Count(timers'[m], "rx_v_sleep", 0, Int) = Is(pc'[m], "rx_sleep")
               /\ Count(timers'[m], "tx_v_sleep", 0, Int) = Is(pc'[m], "tx_sleep")
    <3>1. CASE m = n
      BY <3>1, <1>2, <1>5 DEF Sleeps, Is
    <3>2. CASE m # n
      BY <3>2, <1>2, <1>3 DEF IInv, Timely, SleepOK
    <3> QED BY <3>1, <3>2
  <2> QED BY <2>1 DEF SleepOK
<1>7. ASSUME NEW m \in Peer PROVE Young(m)'
  <2>1. Young(m)
    BY DEF IInv, Timely
  <2>2. CASE m # n
    BY <2>1, <2>2, <1>2, <1>3, YoungSame
  <2>3. CASE m = n
    <3>1. /\ cell[n].tmv_stmp <= now /\ frame[n].tmv_stmp <= now
          /\ frame[n] # NoFrame
      BY <2>1, <2>3, <1>2 DEF Young
    <3>2. ASSUME NEW j \in DOMAIN timers'[n]
          PROVE  timers'[n][j].call # "rx_v_sleep" /\ timers'[n][j].call # "tx_v_sleep"
      <4>1. \A call \in Sleeps : timers'[n][j].call # call
        BY <1>3, <1>5, NoTimers
      <4> QED BY <4>1 DEF Sleeps
    <3>3. CASE c = "rx_v_sleep"
      <4>1. /\ Since(cell[n], now - CFRM_PROC_TIME)
            /\ Since(frame[n], now - CFRM_PROC_TIME - Slack(n))
        BY <2>1, <2>3, <3>3 DEF Young
      <4>2. pc'[n] = "rx_awake"
        BY <1>2, <3>3 DEF AwakeOf
      <4> QED BY <2>3, <1>1, <3>1, <3>2, <4>1, <4>2 DEF Young
    <3>4. CASE c = "tx_v_sleep"
      <4>1. /\ Since(cell[n], now - Slack(n))
            /\ Since(frame[n], now - CFRM_PROC_TIME - 2 * Slack(n))
        BY <2>1, <2>3, <3>4 DEF Young
      <4>2. pc'[n] = "tx_awake"
        BY <1>2, <3>4 DEF AwakeOf
      <4> QED BY <2>3, <1>1, <3>1, <3>2, <4>1, <4>2 DEF Young
    <3> QED BY <3>3, <3>4 DEF Sleeps
  <2> QED BY <2>2, <2>3
<1>8. Timely'
  BY <1>4, <1>6, <1>7 DEF Timely
<1>9. /\ WaitsStay
      /\ \A q \in Frames : \A S : Count(timers'["B"], Reply(q), MAX_PROP_DELAY, S)
                                   = Count(timers["B"], Reply(q), MAX_PROP_DELAY, S)
  BY SleepTimerRemain
<1>10. \A m \in Peer : pc'[m] = "poll" <=> pc[m] = "poll"
  BY <1>2
<1>11. NotMore
  BY <1>9, <1>10, FlyingStays
<1>12. \A ph \in Phases : N(ph)' = N(ph)
  BY NumbersSame
<1>13. Counted'
  BY <1>9, <1>11, <1>12, CountedKept DEF IInv
<1>14. pc'["A"] # "exited"
  BY <1>2, TwoPeers DEF IInv
<1> QED BY <1>8, <1>13, <1>14 DEF IInv

LEMMA VSleepIInv ==
  ASSUME TInv, TInv', IInv, NEW n \in Peer, NEW k \in DOMAIN timers[n],
         \/ VSleep(n, k, "rx_sleep", "rx_awake")
         \/ VSleep(n, k, "tx_sleep", "tx_awake")
  PROVE  IInv'
<1>1. CASE VSleep(n, k, "rx_sleep", "rx_awake")
  <2>1. /\ timers[n][k].call = "rx_v_sleep" /\ timers[n][k].at = now
        /\ pc[n] = SleepOf("rx_v_sleep") /\ Remain(n, k)
        /\ pc' = [pc EXCEPT ![n] = AwakeOf("rx_v_sleep")]
        /\ UNCHANGED <<now, queue, stat, cell, frame>>
    BY <1>1 DEF VSleep, Runs, First, Due, SleepOf, AwakeOf, queueVars
  <2>2. "rx_v_sleep" \in Sleeps
    BY DEF Sleeps
  <2> QED BY <2>1, <2>2, WakeUp
<1>2. CASE VSleep(n, k, "tx_sleep", "tx_awake")
  <2>1. /\ timers[n][k].call = "tx_v_sleep" /\ timers[n][k].at = now
        /\ pc[n] = SleepOf("tx_v_sleep") /\ Remain(n, k)
        /\ pc' = [pc EXCEPT ![n] = AwakeOf("tx_v_sleep")]
        /\ UNCHANGED <<now, queue, stat, cell, frame>>
    BY <1>2 DEF VSleep, Runs, First, Due, SleepOf, AwakeOf, queueVars
  <2>2. "tx_v_sleep" \in Sleeps
    BY DEF Sleeps
  <2> QED BY <2>1, <2>2, WakeUp
<1> QED BY <1>1, <1>2

LEMMA TickIInv ==
  ASSUME TInv, TInv', IInv, Tick
  PROVE  IInv'
<1>1. /\ AllIdle /\ now' \in Later /\ \A e \in Later : now' <= e
      /\ UNCHANGED <<queue, stat, timers, cell, pc, frame>>
  BY DEF Tick, queueVars, mainVars
<1>2. now \in Nat /\ now' \in Nat /\ now' > now
  BY <1>1 DEF TInv, Typed, PacketsTyped, Later
<1>3. ASSUME NEW n \in Peer, NEW k \in DOMAIN timers[n]
      PROVE  timers[n][k].at >= now'
  <2>1. Idle(n)
    BY <1>1 DEF AllIdle, IInv, TInv, Typed, MainTyped, Peer
  <2>2. timers[n][k].at # now
    BY <2>1 DEF Idle, Due
  <2>3. timers[n][k].at >= now /\ timers[n][k].at \in Nat
    BY TimersOfType DEF IInv, Timely, NotOverdue
  <2>4. timers[n][k].at \in Events
    <3>1. timers[n][k] \in Ext!ToSet(timers["A"]) \cup Ext!ToSet(timers["B"])
      BY DEF Peer, Ext!ToSet
    <3> QED BY <3>1 DEF Events
  <2>5. timers[n][k].at \in Later
    BY <2>2, <2>3, <2>4, <1>2 DEF Later
  <2> QED BY <2>5, <1>1
<1>4. NotOverdue' /\ SleepOK'
  BY <1>1, <1>3 DEF NotOverdue, SleepOK, IInv, Timely
<1>5. ASSUME NEW n \in Peer PROVE Young(n)'
  <2>1. Young(n) /\ Slack(n)' = Slack(n) /\ Slack(n) \in Nat
    BY WaitsAssumption DEF IInv, Timely, Slack
  <2>2. pc[n] \in {"rx_sleep", "tx_sleep"} \/ (pc[n] = "poll" /\ cell[n] = NoFrame)
    BY <1>1 DEF AllIdle, Idle, IInv, TInv, Typed, MainTyped, Peer
  <2>3. cell[n].tmv_stmp \in Nat /\ frame[n].tmv_stmp \in Nat
    BY IntervalIsInt
  <2>4. cell'[n].tmv_stmp <= now' /\ frame'[n].tmv_stmp <= now'
    BY <2>1, <2>3, <1>1, <1>2 DEF Young
  <2>5. \A t : Since(NoFrame, t)
    BY DEF Since
  <2>6. ASSUME NEW k \in DOMAIN timers[n]
        PROVE  /\ timers[n][k].call = "rx_v_sleep" => timers[n][k].at - CFRM_PROC_TIME <= now'
               /\ timers[n][k].call = "tx_v_sleep" => timers[n][k].at - Slack(n) <= now'
    <3>1. timers[n][k].at \in Nat /\ CFRM_PROC_TIME \in Nat
      BY TimersOfType, WaitsAssumption
    <3> QED BY <3>1, <2>1, <1>2 DEF Young
  <2> QED BY <1>1, <2>1, <2>2, <2>4, <2>5, <2>6 DEF Young
<1>6. Timely'
  BY <1>4, <1>5 DEF Timely
<1>7. Counted'
  BY <1>1, NotMoreSame, WaitsStaySame, NumbersSame, CountedKept DEF IInv
<1> QED BY <1>1, <1>6, <1>7 DEF IInv

----------------------------------------------------------------------------
(***************************************************************************)
(* The answers.  The time stamps are the times, and the interval of an     *)
(* answer is less than a turn of the wheel: what was in the hand of B is   *)
(* in its timers, then in the cell of A.                                   *)
(***************************************************************************)
LEMMA FlyingParts ==
  ASSUME TInv, TInv', NEW q \in Frames, NEW S,
         InCell("B", q, 0, S)' + InHand("B", q, 0, S)'
           + Count(timers["B"], Reply(q), MAX_PROP_DELAY, S)'
           + InCell("A", Reply(q), MAX_PROP_DELAY, S)'
           + InHand("A", Reply(q), MAX_PROP_DELAY, S)'
         <= InCell("B", q, 0, S) + InHand("B", q, 0, S)
              + Count(timers["B"], Reply(q), MAX_PROP_DELAY, S)
              + InCell("A", Reply(q), MAX_PROP_DELAY, S)
              + InHand("A", Reply(q), MAX_PROP_DELAY, S)
  PROVE  Flying(q, S)' <= Flying(q, S)
BY DEF Flying

\* What a step leaves of the parts of Flying.
LEMMA PartsSame ==
  ASSUME NEW n, NEW S
  PROVE  /\ cell'[n] = cell[n] =>
              \A type, d : InCell(n, type, d, S)' = InCell(n, type, d, S)
         /\ frame'[n] = frame[n] /\ pc'[n] = pc[n] =>
              \A type, d : InHand(n, type, d, S)' = InHand(n, type, d, S)
         /\ timers'[n] = timers[n] =>
              \A call, d : Count(timers[n], call, d, S)' = Count(timers[n], call, d, S)
BY DEF InCell, InHand

LEMMA AnswerIInv ==
  ASSUME TInv, TInv', IInv, NoWrap, NEW q0 \in Frames,
         pc["B"] \in {"rx_awake", "tx_awake"},
         pc["B"] = "rx_awake" => cell["B"] = NoFrame,
         Answer(q0, Reply(q0))
  PROVE  IInv'
<1>1. /\ frame["B"].type = q0
      /\ timers' = Set("B", timers["B"], Interval("B"), Reply(q0))
      /\ pc' = [pc EXCEPT !["B"] = "poll"]
      /\ UNCHANGED <<now, queue, stat, cell, frame>>
  BY DEF Answer, queueVars
<1>2. /\ "A" \in Peer /\ "B" \in Peer /\ "A" # "B"
      /\ Reply(q0) \in Calls("B") /\ Reply(q0) \notin Sleeps
  BY FramesReplies DEF Peer, Calls
<1>3. /\ pc'["B"] = "poll" /\ pc'["A"] = pc["A"]
  BY <1>1, <1>2 DEF TInv, Typed, MainTyped
<1>4. /\ Interval("B") \in 1 .. (TIME_WHEEL_SIZE - 1)
      /\ At(Interval("B")) = frame["B"].tmv_stmp + MAX_PROP_DELAY
  <2>1. pc["B"] \notin {"poll", "exited"}
    OBVIOUS
  <2> QED BY <2>1, <1>2, IntervalInWheel DEF IInv
<1>5. Interval("B") \in Int
  BY <1>4, WaitsAssumption
<1>6. Timely'
  <2>1. Quiet("B")
    BY <1>1, <1>2, <1>5, QuietSet
  <2>2. timers'["A"] = timers["A"]
    BY <1>1, <1>2, <1>5, CountSet
  <2>3. Quiet("A")
    BY <2>2, QuietSame
  <2>4. Since(cell["B"], now - Slack("B"))
    <3>1. Young("B")
      BY <1>2 DEF IInv, Timely
    <3> QED BY <3>1 DEF Young, Since
  <2>5. \A n \in Peer :
           /\ Quiet(n) /\ frame'[n] = frame[n]
           /\ \/ /\ pc'[n] = pc[n]
                 /\ cell'[n] \in {cell[n], NoFrame} \/ cell'[n].tmv_stmp = now
              \/ /\ pc[n] \in {"rx_awake", "tx_awake"} /\ pc'[n] = "poll"
                 /\ cell'[n] \in {cell[n], NoFrame} /\ Since(cell'[n], now - Slack(n))
    BY <2>1, <2>3, <2>4, <1>1, <1>3 DEF Peer
  <2> QED BY <2>5, <1>1, TimelyKept DEF IInv
<1>7. /\ timers'["A"] = timers["A"]
      /\ \A call, d, S : Count(timers'["B"], call, d, S)
                           = Count(timers["B"], call, d, S)
                               + Hit(Reply(q0), At(Interval("B")), call, d, S)
  BY <1>1, <1>2, <1>5, CountSet
<1>8. NotMore
  <2> SUFFICES ASSUME NEW q \in Frames, NEW S \in SUBSET Int
               PROVE  Flying(q, S)' <= Flying(q, S)
    BY DEF NotMore
  <2> DEFINE P == MAX_PROP_DELAY
             stmp == frame["B"].tmv_stmp
  <2>1. P \in Nat /\ stmp \in Nat
    BY TimesAssumption, IntervalIsInt, <1>2
  <2>2. InHand("B", q, 0, S)' = 0
    BY <1>3 DEF InHand
  <2>3. InHand("B", q, 0, S) = IF q0 = q /\ stmp \in S THEN 1 ELSE 0
    <3>1. pc["B"] # "poll" /\ stmp - 0 = stmp
      BY <2>1
    <3> QED BY <3>1, <1>1 DEF InHand, Hit
  <2>4. Hit(Reply(q0), At(Interval("B")), Reply(q), P, S)
          = IF q0 = q /\ stmp \in S THEN 1 ELSE 0
    <3>1. At(Interval("B")) - P = stmp
      BY <2>1, <1>4
    <3>2. Reply(q0) = Reply(q) <=> q0 = q
      BY DEF Reply, Frames
    <3> QED BY <3>1, <3>2 DEF Hit
  <2>5. Count(timers["B"], Reply(q), P, S)'
          = Count(timers["B"], Reply(q), P, S) + InHand("B", q, 0, S)
    BY <1>7, <2>3, <2>4
  <2>6. /\ InCell("B", q, 0, S)' = InCell("B", q, 0, S)
        /\ InCell("A", Reply(q), P, S)' = InCell("A", Reply(q), P, S)
        /\ InHand("A", Reply(q), P, S)' = InHand("A", Reply(q), P, S)
    BY <1>1, <1>3, PartsSame
  <2>7. /\ InCell("B", q, 0, S) \in Nat /\ InHand("B", q, 0, S) \in Nat
        /\ Count(timers["B"], Reply(q), P, S) \in Nat
        /\ InCell("A", Reply(q), P, S) \in Nat
        /\ InHand("A", Reply(q), P, S) \in Nat
    BY FlyingType
  <2> QED BY <2>2, <2>5, <2>6, <2>7, FlyingParts
<1>9. WaitsStay /\ \A ph \in Phases : N(ph)' = N(ph)
  BY <1>1, <1>7, WaitsStaySame, NumbersSame
<1>10. Counted'
  BY <1>8, <1>9, CountedKept DEF IInv
<1> QED BY <1>3, <1>6, <1>10 DEF IInv

LEMMA ProcRTSIInv ==
  ASSUME TInv, TInv', IInv, NoWrap, ProcRTS \/ ProcData
  PROVE  IInv'
<1>1. "RTS" \in Frames /\ "DATA" \in Frames /\ Reply("RTS") = "CTS" /\ Reply("DATA") = "ACK"
  BY DEF Frames, Reply
<1>2. CASE ProcRTS
  <2>1. pc["B"] = "rx_awake" /\ cell["B"] = NoFrame /\ Answer("RTS", Reply("RTS"))
    BY <1>1, <1>2 DEF ProcRTS
  <2> QED BY <2>1, <1>1, AnswerIInv
<1>3. CASE ProcData
  <2>1. pc["B"] = "tx_awake" /\ Answer("DATA", Reply("DATA"))
    BY <1>1, <1>3 DEF ProcData
  <2> QED BY <2>1, <1>1, AnswerIInv
<1> QED BY <1>2, <1>3

LEMMA ReplyIInv ==
  ASSUME TInv, TInv', IInv, NoWrap, NEW q0 \in Frames, NEW k \in DOMAIN timers["B"],
         SendReply(k, Reply(q0))
  PROVE  IInv'
<1>1. /\ timers["B"][k].call = Reply(q0) /\ timers["B"][k].at = now
      /\ Write("B", Reply(q0), 0) /\ Remain("B", k)
      /\ UNCHANGED <<now, queue, stat, frame, pc>>
  BY DEF SendReply, Runs, First, Due, queueVars, mainVars
<1>2. /\ "A" \in Peer /\ "B" \in Peer /\ "A" # "B" /\ Reply(q0) \notin Sleeps
  BY FramesReplies DEF Peer
<1>3. TimeStamp(now) = now /\ now \in Nat
  BY StampIsNow
<1>4. /\ cell'["A"].type = Reply(q0) /\ cell'["A"].tmv_stmp = now
      /\ cell'["B"] = cell["B"]
  BY <1>1, <1>3, TwoPeers DEF Write, TInv, Typed, FramesTyped
<1>5. /\ timers'["A"] = timers["A"]
      /\ \A call, d, S : Count(timers'["B"], call, d, S)
                           = Count(timers["B"], call, d, S)
                               - Hit(Reply(q0), now, call, d, S)
  BY <1>1, <1>2, CountRemain
<1>6. Timely'
  <2>1. Quiet("A") /\ Quiet("B")
    BY <1>1, <1>2, <1>5, QuietSame, QuietRemain
  <2>2. \A n \in Peer :
           /\ Quiet(n) /\ frame'[n] = frame[n] /\ pc'[n] = pc[n]
           /\ cell'[n] \in {cell[n], NoFrame} \/ cell'[n].tmv_stmp = now
    BY <2>1, <1>1, <1>4 DEF Peer
  <2> QED BY <2>2, <1>1, TimelyKept DEF IInv
<1>7. NotMore
  <2> SUFFICES ASSUME NEW q \in Frames, NEW S \in SUBSET Int
               PROVE  Flying(q, S)' <= Flying(q, S)
    BY DEF NotMore
  <2> DEFINE P == MAX_PROP_DELAY
  <2>1. InCell("A", Reply(q), P, S)' = Hit(Reply(q0), now, Reply(q), P, S)
    BY <1>4 DEF InCell
  <2>2. Count(timers["B"], Reply(q), P, S)'
          = Count(timers["B"], Reply(q), P, S) - Hit(Reply(q0), now, Reply(q), P, S)
    BY <1>5
  <2>3. /\ InCell("B", q, 0, S)' = InCell("B", q, 0, S)
        /\ InHand("B", q, 0, S)' = InHand("B", q, 0, S)
        /\ InHand("A", Reply(q), P, S)' = InHand("A", Reply(q), P, S)
    BY <1>1, <1>4, PartsSame
  <2>4. /\ InCell("B", q, 0, S) \in Nat /\ InHand("B", q, 0, S) \in Nat
        /\ Count(timers["B"], Reply(q), P, S) \in Nat
        /\ InCell("A", Reply(q), P, S) \in Nat
        /\ InHand("A", Reply(q), P, S) \in Nat
        /\ Hit(Reply(q0), now, Reply(q), P, S) \in Nat
    BY FlyingType DEF Hit
  <2> QED BY <2>1, <2>2, <2>3, <2>4, FlyingParts
<1>8. WaitsStay /\ \A ph \in Phases : N(ph)' = N(ph)
  BY <1>1, <1>5, WaitsStaySame, NumbersSame
<1>9. Counted'
  BY <1>7, <1>8, CountedKept DEF IInv
<1> QED BY <1>1, <1>6, <1>9 DEF IInv

LEMMA SendReplyIInv ==
  ASSUME TInv, TInv', IInv, NoWrap, NEW k \in DOMAIN timers["B"],
         SendReply(k, "CTS") \/ SendReply(k, "ACK")
  PROVE  IInv'
<1>1. "RTS" \in Frames /\ "DATA" \in Frames /\ Reply("RTS") = "CTS" /\ Reply("DATA") = "ACK"
  BY DEF Frames, Reply
<1>2. SendReply(k, Reply("RTS")) \/ SendReply(k, Reply("DATA"))
  BY <1>1
<1> QED BY <1>1, <1>2, ReplyIInv

----------------------------------------------------------------------------
(***************************************************************************)
(* The RTS.  Written or put off, it brings one timer.                      *)
(***************************************************************************)
LEMMA NChange ==
  ASSUME TInv, NEW p \in queue, queue' = queue,
         \A o \in queue : o # p => stat'[o] = stat[o]
  PROVE  \A ph : N(ph)' = N(ph) - Is(Phase(stat[p]), ph) + Is(Phase(stat'[p]), ph)
<1>1. IsFiniteSet(queue)
  BY QueueFinite
<1>2. ASSUME NEW ph
      PROVE  N(ph)' = N(ph) - Is(Phase(stat[p]), ph) + Is(Phase(stat'[p]), ph)
  <2>1. PICK new : new = stat'
    OBVIOUS
  <2>2. PICK st : st = stat
    OBVIOUS
  <2>3. Changes(queue, st, new, p)
    BY <2>1, <2>2 DEF Changes
  <2>4. Num(queue, new, ph) = Num(queue, st, ph) - Is(Phase(st[p]), ph) + Is(Phase(new[p]), ph)
    BY <1>1, <2>3, NumChange
  <2>5. N(ph)' = Num(queue, new, ph) /\ N(ph) = Num(queue, st, ph)
    BY <2>1, <2>2 DEF N
  <2> QED BY <2>1, <2>2, <2>4, <2>5
<1> QED BY <1>2

\* A packet goes from phase a to phase b.
LEMMA PhaseChange ==
  ASSUME TInv, NEW p \in queue, NEW a, NEW b, Phase(stat[p]) = a, Phase(stat'[p]) = b,
         queue' = queue, \A o \in queue : o # p => stat'[o] = stat[o]
  PROVE  \A ph : /\ N(ph)' = N(ph) - Is(a, ph) + Is(b, ph)
                 /\ N(ph) \in Nat /\ N(ph)' \in Int
<1>1. ASSUME NEW ph
      PROVE  /\ N(ph)' = N(ph) - Is(a, ph) + Is(b, ph)
             /\ N(ph) \in Nat /\ N(ph)' \in Int
  <2>1. N(ph)' = N(ph) - Is(Phase(stat[p]), ph) + Is(Phase(stat'[p]), ph)
    BY NChange
  <2>2. N(ph) \in Nat /\ Is(a, ph) \in Nat /\ Is(b, ph) \in Nat
    BY CountsType DEF Is
  <2>3. N(ph)' = N(ph) - Is(a, ph) + Is(b, ph)
    BY <2>1
  <2> QED BY <2>2, <2>3
<1> QED BY <1>1

\* A writes a frame: no more are on their way than before and this one.
LEMMA WriteFlying ==
  ASSUME TInv, TInv', NoWrap, NEW type \in Frames, NEW pkt, Write("A", type, pkt),
         timers'["B"] = timers["B"], UNCHANGED <<pc, frame>>
  PROVE  /\ cell'["A"] = cell["A"] /\ cell'["B"].tmv_stmp = now
         /\ \A q \in Frames : \A S \in SUBSET Int :
              Flying(q, S)' <= Flying(q, S) + Hit(type, now, q, 0, S)
<1>1. TimeStamp(now) = now /\ now \in Nat
  BY StampIsNow
<1>2. /\ cell'["B"].type = type /\ cell'["B"].tmv_stmp = now /\ cell'["A"] = cell["A"]
  BY <1>1, TwoPeers DEF Write, TInv, Typed, FramesTyped
<1>3. ASSUME NEW q \in Frames, NEW S \in SUBSET Int
      PROVE  Flying(q, S)' <= Flying(q, S) + Hit(type, now, q, 0, S)
  <2> DEFINE P == MAX_PROP_DELAY
  <2>1. InCell("B", q, 0, S)' = Hit(type, now, q, 0, S)
    BY <1>2 DEF InCell
  <2>2. /\ Count(timers["B"], Reply(q), P, S)' = Count(timers["B"], Reply(q), P, S)
        /\ InHand("B", q, 0, S)' = InHand("B", q, 0, S)
        /\ InCell("A", Reply(q), P, S)' = InCell("A", Reply(q), P, S)
        /\ InHand("A", Reply(q), P, S)' = InHand("A", Reply(q), P, S)
    BY <1>2, PartsSame
  <2>3. /\ InCell("B", q, 0, S) \in Nat /\ InHand("B", q, 0, S) \in Nat
        /\ Count(timers["B"], Reply(q), P, S) \in Nat
        /\ InCell("A", Reply(q), P, S) \in Nat
        /\ InHand("A", Reply(q), P, S) \in Nat
        /\ Hit(type, now, q, 0, S) \in Nat
    BY FlyingType DEF Hit
  <2> QED BY <2>1, <2>2, <2>3 DEF Flying
<1> QED BY <1>2, <1>3

\* The timer of an RTS, and what has become of the frame.
LEMMA SendRTSTimer ==
  ASSUME TInv, NEW tmrs \in Seq(TimerOf("A")), SendRTS(tmrs)
  PROVE  \E i \in Int : \E c \in {"wait_CTS", "RTS"} :
           /\ timers' = Set("A", tmrs, i, c)
           /\ c = "wait_CTS" => Write("A", "RTS", 0) /\ i = WAIT_FB_TIME
           /\ c = "RTS" => cell' = cell
<1>1. CASE WriteRTS(tmrs)
  <2>1. WAIT_FB_TIME \in Int
    BY WaitsAssumption
  <2> QED BY <1>1, <2>1 DEF WriteRTS
<1>2. CASE PutOffRTS(tmrs)
  <2>1. PICK c \in coll : timers' = Set("A", tmrs, Check(c).back_off_tm, "RTS")
                          /\ cell' = cell
    BY <1>2 DEF PutOffRTS
  <2> QED BY <2>1, CheckIsInt
<1> QED BY <1>1, <1>2 DEF SendRTS

\* Before the RTS, tmrs lacks a timer for one packet.
LEMMA SendRTSCounted ==
  ASSUME TInv, TInv', NoWrap, Counted, NEW tmrs \in Seq(TimerOf("A")),
         NEW i \in Int, NEW c \in {"wait_CTS", "RTS"}, timers' = Set("A", tmrs, i, c),
         c = "wait_CTS" => Write("A", "RTS", 0) /\ i = WAIT_FB_TIME,
         c = "RTS" => cell' = cell,
         UNCHANGED <<pc, frame>>,
         Count(tmrs, "wait_CTS", WAIT_FB_TIME, Int) + Count(tmrs, "RTS", 0, Int) + 1
           = N("has_CTS")' + N("awaits_CTS")',
         \A call \in Waits \ {"RTS"} : \A d, S : Count(tmrs, call, d, S) = CountA(call, d, S),
         \A ph \in Phases \ {"awaits_CTS"} : N(ph)' = N(ph)
  PROVE  Counted'
<1> DEFINE W == WAIT_FB_TIME
           P2 == 2 * MAX_PROP_DELAY
<1>1. c \in Calls("A") /\ "A" \in Peer
  BY DEF Calls, Peer
<1>2. timers'["A"] = Append(tmrs, [at |-> At(i), call |-> c]) /\ timers'["B"] = timers["B"]
  BY <1>1, SetTyped, TwoPeers
<1>3. \A call, d, S : CountA(call, d, S)' = Count(tmrs, call, d, S) + Hit(c, At(i), call, d, S)
  <2>1. ASSUME NEW call, NEW d, NEW S
        PROVE  CountA(call, d, S)' = Count(tmrs, call, d, S) + Hit(c, At(i), call, d, S)
    <3>1. Count(Append(tmrs, [at |-> At(i), call |-> c]), call, d, S)
            = Count(tmrs, call, d, S) + Hit(c, At(i), call, d, S)
      BY CountAppendTimer
    <3> QED BY <1>2, <3>1 DEF CountA
  <2> QED BY <2>1
<1>4. /\ \A call, d, S : Count(tmrs, call, d, S) \in Nat
      /\ \A q, S : Flying(q, S) \in Nat /\ Flying(q, S)' \in Nat
      /\ \A ph : N(ph) \in Nat
  BY CountIsNat, CountsType, FlyingTypeNext
<1>5. At(i) \in Nat /\ At(i) - 0 \in Int /\ now \in Nat
      /\ (c = "wait_CTS" => At(i) - W = now)
  <2>1. W \in 0 .. (TIME_WHEEL_SIZE - 1) /\ W \in Nat /\ now \in Nat
    BY WaitsAssumption DEF TInv, Typed, PacketsTyped
  <2>2. At(i) \in Nat
    BY AtType
  <2>3. c = "wait_CTS" => At(i) = now + W
    BY <2>1, AtType
  <2> QED BY <2>1, <2>2, <2>3
<1>6. \A S \in SUBSET Int :
        /\ Hit(c, At(i), "wait_CTS", W, S) = IF c = "wait_CTS" /\ now \in S THEN 1 ELSE 0
        /\ Hit(c, At(i), "RTS", 0, Int) = IF c = "RTS" THEN 1 ELSE 0
  BY <1>5 DEF Hit
<1>7. ASSUME NEW d, NEW S
      PROVE  /\ CountA("wait_ACK", d, S)' = CountA("wait_ACK", d, S)
             /\ CountA("DATA", d, S)' = CountA("DATA", d, S)
             /\ CountA("back_off", d, S)' = CountA("back_off", d, S)
  <2>1. ASSUME NEW call \in {"wait_ACK", "DATA", "back_off"}
        PROVE  CountA(call, d, S)' = CountA(call, d, S)
    <3>1. call # c /\ call \in Waits \ {"RTS"}
      BY DEF Waits
    <3>2. Hit(c, At(i), call, d, S) = 0
      BY <3>1, HitOther
    <3>3. /\ CountA(call, d, S)' = Count(tmrs, call, d, S) + Hit(c, At(i), call, d, S)
          /\ Count(tmrs, call, d, S) = CountA(call, d, S)
      BY <3>1, <1>3
    <3>4. Count(tmrs, call, d, S) \in Nat
      BY <1>4
    <3> QED BY <3>2, <3>3, <3>4
  <2> QED BY <2>1
<1>8. \A S \in SUBSET Int :
        /\ CountA("wait_CTS", W, S)' = CountA("wait_CTS", W, S)
             + (IF c = "wait_CTS" /\ now \in S THEN 1 ELSE 0)
        /\ CountA("wait_CTS", W, S) \in Nat
  <2>1. "wait_CTS" \in Waits \ {"RTS"}
    BY DEF Waits
  <2> QED BY <2>1, <1>3, <1>4, <1>6
<1>9. ASSUME NEW S \in SUBSET Int
      PROVE  /\ Flying("RTS", S)' <= Flying("RTS", S)
                  + (IF c = "wait_CTS" /\ now \in S THEN 1 ELSE 0)
             /\ Flying("DATA", S)' <= Flying("DATA", S)
  <2>1. CASE c = "wait_CTS"
    <3>1. "RTS" \in Frames /\ "DATA" \in Frames
      BY DEF Frames
    <3>2. \A q \in Frames : Flying(q, S)' <= Flying(q, S) + Hit("RTS", now, q, 0, S)
      BY <3>1, <2>1, <1>2, WriteFlying
    <3>3. Hit("RTS", now, "RTS", 0, S) = (IF now \in S THEN 1 ELSE 0)
          /\ Hit("RTS", now, "DATA", 0, S) = 0
      BY <1>5 DEF Hit
    <3> QED BY <3>1, <3>2, <3>3, <2>1, <1>4
  <2>2. CASE c = "RTS"
    <3>1. UNCHANGED <<cell, frame, pc>>
      BY <2>2
    <3>2. \A q, R : Flying(q, R)' = Flying(q, R)
      BY <3>1, <1>2, FlyingSame
    <3> QED BY <3>2, <2>2, <1>4
  <2> QED BY <2>1, <2>2
<1>10. Balance'
  <2>1. CountA("wait_CTS", W, Int)' + CountA("RTS", 0, Int)'
          = Count(tmrs, "wait_CTS", W, Int) + Count(tmrs, "RTS", 0, Int) + 1
    <3>1. /\ CountA("wait_CTS", W, Int)'
               = Count(tmrs, "wait_CTS", W, Int) + Hit(c, At(i), "wait_CTS", W, Int)
          /\ CountA("RTS", 0, Int)'
               = Count(tmrs, "RTS", 0, Int) + Hit(c, At(i), "RTS", 0, Int)
      BY <1>3
    <3>2. /\ Hit(c, At(i), "wait_CTS", W, Int) = IF c = "wait_CTS" THEN 1 ELSE 0
          /\ Hit(c, At(i), "RTS", 0, Int) = IF c = "RTS" THEN 1 ELSE 0
      BY <1>5, <1>6
    <3> QED BY <3>1, <3>2, <1>4
  <2>2. \A ph \in {"has_CTS", "awaits_ACK", "has_ACK", "backed_off"} : N(ph)' = N(ph)
    BY DEF Phases
  <2> QED BY <2>1, <2>2, <1>7 DEF Counted, Balance
<1>11. Matched'
  <2> SUFFICES ASSUME NEW S \in SUBSET Int
               PROVE  /\ Flying("RTS", S)' <= CountA("wait_CTS", W, S)'
                      /\ Flying("DATA", S)' <= CountA("wait_ACK", W, S)'
    BY DEF Matched
  <2>1. /\ Flying("RTS", S) <= CountA("wait_CTS", W, S)
        /\ Flying("DATA", S) <= CountA("wait_ACK", W, S)
    BY DEF Counted, Matched
  <2>2. CountA("wait_ACK", W, S) \in Nat
    BY CountsType
  <2> QED BY <2>1, <2>2, <1>4, <1>7, <1>8, <1>9
<1>12. Answered'
  <2>1. \A ph \in {"has_CTS", "has_ACK"} : N(ph)' = N(ph)
    BY DEF Phases
  <2>2. ASSUME NEW S \in SUBSET Int
        PROVE  N("has_CTS")' + Flying("RTS", S)'
                 <= CountA("DATA", P2, Int \ S)' + CountA("wait_CTS", W, S)'
    <3>1. N("has_CTS") + Flying("RTS", S)
            <= CountA("DATA", P2, Int \ S) + CountA("wait_CTS", W, S)
      BY DEF Counted, Answered
    <3>2. /\ CountA("DATA", P2, Int \ S) \in Nat
          /\ CountA("DATA", P2, Int \ S)' = CountA("DATA", P2, Int \ S)
      BY <1>7, CountsType
    <3>3. /\ Flying("RTS", S) \in Nat /\ Flying("RTS", S)' \in Nat
          /\ N("has_CTS") \in Nat /\ N("has_CTS")' = N("has_CTS")
      BY <2>1, <1>4
    <3>4. /\ Flying("RTS", S)' <= Flying("RTS", S)
               + (IF c = "wait_CTS" /\ now \in S THEN 1 ELSE 0)
          /\ CountA("wait_CTS", W, S)' = CountA("wait_CTS", W, S)
               + (IF c = "wait_CTS" /\ now \in S THEN 1 ELSE 0)
          /\ CountA("wait_CTS", W, S) \in Nat
      BY <1>8, <1>9
    <3> QED BY <3>1, <3>2, <3>3, <3>4
  <2>3. N("has_ACK")' + Flying("DATA", Int)' <= CountA("wait_ACK", W, Int)'
    <3>1. N("has_ACK") + Flying("DATA", Int) <= CountA("wait_ACK", W, Int)
      BY DEF Counted, Answered
    <3>2. CountA("wait_ACK", W, Int) \in Nat /\ Int \in SUBSET Int
      BY CountsType
    <3> QED BY <3>1, <3>2, <2>1, <1>4, <1>7, <1>9
  <2> QED BY <2>2, <2>3 DEF Answered
<1> QED BY <1>10, <1>11, <1>12 DEF Counted

\* What is in the cells after an RTS, written or put off.
LEMMA SendRTSTimely ==
  ASSUME TInv, TInv', NoWrap, Timely, Quiet("A"), timers'["B"] = timers["B"],
         Write("A", "RTS", 0) \/ cell' = cell, UNCHANGED <<now, pc, frame>>
  PROVE  Timely'
<1>1. Quiet("B")
  BY QuietSame
<1>2. \A n \in Peer : cell'[n] \in {cell[n], NoFrame} \/ cell'[n].tmv_stmp = now
  <2>1. CASE Write("A", "RTS", 0)
    <3>1. "RTS" \in Frames
      BY DEF Frames
    <3>2. cell'["A"] = cell["A"] /\ cell'["B"].tmv_stmp = now
      BY <2>1, <3>1, WriteFlying
    <3> QED BY <3>2 DEF Peer
  <2>2. CASE cell' = cell
    BY <2>2
  <2> QED BY <2>1, <2>2
<1>3. \A n \in Peer : Quiet(n) /\ frame'[n] = frame[n] /\ pc'[n] = pc[n]
  BY <1>1 DEF Peer
<1> QED BY <1>2, <1>3, TimelyKept

LEMMA StartPacketIInv ==
  ASSUME TInv, TInv', IInv, NoWrap, StartPacket
  PROVE  IInv'
<1>1. PICK p \in Meeting(Unsent) : Change(p, StartSending)
  BY DEF StartPacket
<1>2. SendRTS(timers["A"]) /\ UNCHANGED <<now, queue, pc, frame>>
  BY DEF StartPacket, mainVars
<1>3. p \in queue /\ VectorOK(stat[p]) /\ Phase(stat[p]) = "unsent"
  BY MeetingPhase, InPhase
<1>4. /\ stat' = [stat EXCEPT ![p] = StartSending(stat[p])]
      /\ Phase(StartSending(stat[p])) = "awaits_CTS"
  BY <1>1, <1>3, StartSendingPhase DEF Change
<1>5. \A ph : N(ph)' = N(ph) - Is("unsent", ph) + Is("awaits_CTS", ph)
  <2>1. Phase(stat'[p]) = "awaits_CTS" /\ \A o \in queue : o # p => stat'[o] = stat[o]
    BY <1>3, <1>4, QueueFinite
  <2> QED BY <1>2, <1>3, <2>1, PhaseChange
<1>6. /\ N("awaits_CTS")' = N("awaits_CTS") + 1
      /\ \A ph \in Phases \ {"awaits_CTS"} : N(ph)' = N(ph)
  <2>1. \A ph : N(ph) \in Nat
    BY CountsType
  <2> QED BY <2>1, <1>5 DEF Is, Phases
<1>7. timers["A"] \in Seq(TimerOf("A")) /\ "A" \in Peer
  BY TwoPeers, CountType
<1>8. PICK i \in Int, c \in {"wait_CTS", "RTS"} :
        /\ timers' = Set("A", timers["A"], i, c)
        /\ c = "wait_CTS" => Write("A", "RTS", 0) /\ i = WAIT_FB_TIME
        /\ c = "RTS" => cell' = cell
  BY <1>2, <1>7, SendRTSTimer
<1>9. c \in Calls("A") /\ c \notin Sleeps
  BY DEF Calls, Sleeps
<1>10. Quiet("A") /\ timers'["B"] = timers["B"]
  BY <1>7, <1>8, <1>9, QuietSet, CountSet, TwoPeers
<1>11. Timely'
  BY <1>2, <1>8, <1>10, SendRTSTimely DEF IInv
<1>12. Counted'
  <2>1. CountA("wait_CTS", WAIT_FB_TIME, Int) + CountA("RTS", 0, Int) + 1
          = N("has_CTS")' + N("awaits_CTS")'
    <3>1. N("has_CTS")' = N("has_CTS")
      BY <1>6 DEF Phases
    <3>2. /\ N("has_CTS") \in Nat /\ N("awaits_CTS") \in Nat
          /\ CountA("wait_CTS", WAIT_FB_TIME, Int) \in Nat /\ CountA("RTS", 0, Int) \in Nat
      BY CountsType
    <3> QED BY <3>1, <3>2, <1>6 DEF IInv, Counted, Balance
  <2>2. \A call, d, S : Count(timers["A"], call, d, S) = CountA(call, d, S)
    BY DEF CountA
  <2>3. Count(timers["A"], "wait_CTS", WAIT_FB_TIME, Int)
          + Count(timers["A"], "RTS", 0, Int) + 1 = N("has_CTS")' + N("awaits_CTS")'
    BY <2>1, <2>2
  <2>4. Counted /\ UNCHANGED <<pc, frame>>
    BY <1>2 DEF IInv
  <2> QED BY <1>6, <1>7, <1>8, <2>2, <2>3, <2>4, SendRTSCounted
<1> QED BY <1>2, <1>11, <1>12 DEF IInv

LEMMA RetryRTSIInv ==
  ASSUME TInv, TInv', IInv, NoWrap, NEW k \in DOMAIN timers["A"], RetryRTS(k)
  PROVE  IInv'
<1>1. /\ timers["A"][k].call = "RTS" /\ timers["A"][k].at = now
      /\ SendRTS(Rest("A", k)) /\ UNCHANGED <<now, queue, stat, pc, frame>>
  BY DEF RetryRTS, Runs, First, Due, queueVars, mainVars
<1>2. /\ timers["A"] \in Seq(TimerOf("A")) /\ "A" \in Peer
      /\ Rest("A", k) = Removed(timers["A"], k) /\ Rest("A", k) \in Seq(TimerOf("A"))
  BY TwoPeers, RestTyped
<1>3. PICK i \in Int, c \in {"wait_CTS", "RTS"} :
        /\ timers' = Set("A", Rest("A", k), i, c)
        /\ c = "wait_CTS" => Write("A", "RTS", 0) /\ i = WAIT_FB_TIME
        /\ c = "RTS" => cell' = cell
  BY <1>1, <1>2, SendRTSTimer
<1>4. c \in Calls("A") /\ c \notin Sleeps /\ timers["A"][k].call \notin Sleeps
  BY <1>1 DEF Calls, Sleeps
<1>5. Quiet("A") /\ timers'["B"] = timers["B"]
  BY <1>2, <1>3, <1>4, QuietReset, CountReset, TwoPeers
<1>6. Timely'
  BY <1>1, <1>3, <1>5, SendRTSTimely DEF IInv
<1>7. ASSUME NEW call, NEW d, NEW S
      PROVE  /\ Count(Rest("A", k), call, d, S)
                  = CountA(call, d, S) - Hit("RTS", now, call, d, S)
             /\ CountA(call, d, S) \in Nat
  <2>1. Count(Removed(timers["A"], k), call, d, S)
          = Count(timers["A"], call, d, S)
              - Hit(timers["A"][k].call, timers["A"][k].at, call, d, S)
    BY <1>2, CountRemoved
  <2> QED BY <2>1, <1>1, <1>2, CountsType DEF CountA
<1>8. \A call \in Waits \ {"RTS"} : \A d, S :
        Count(Rest("A", k), call, d, S) = CountA(call, d, S)
  <2>1. ASSUME NEW call \in Waits \ {"RTS"}, NEW d, NEW S
        PROVE  Count(Rest("A", k), call, d, S) = CountA(call, d, S)
    <3>1. Hit("RTS", now, call, d, S) = 0
      BY HitOther
    <3> QED BY <3>1, <1>7
  <2> QED BY <2>1
<1>9. \A ph : N(ph)' = N(ph)
  BY <1>1, NumbersSame
<1>10. Count(Rest("A", k), "wait_CTS", WAIT_FB_TIME, Int)
         + Count(Rest("A", k), "RTS", 0, Int) + 1 = N("has_CTS")' + N("awaits_CTS")'
  <2>1. Hit("RTS", now, "RTS", 0, Int) = 1
    BY DEF Hit, TInv, Typed, PacketsTyped
  <2>2. /\ Count(Rest("A", k), "RTS", 0, Int) = CountA("RTS", 0, Int) - 1
        /\ Count(Rest("A", k), "wait_CTS", WAIT_FB_TIME, Int)
             = CountA("wait_CTS", WAIT_FB_TIME, Int)
    <3>1. "wait_CTS" \in Waits \ {"RTS"}
      BY DEF Waits
    <3> QED BY <3>1, <2>1, <1>7, <1>8
  <2>3. /\ CountA("RTS", 0, Int) \in Nat /\ CountA("wait_CTS", WAIT_FB_TIME, Int) \in Nat
        /\ N("has_CTS") \in Nat /\ N("awaits_CTS") \in Nat
    BY CountsType
  <2> QED BY <2>2, <2>3, <1>9 DEF IInv, Counted, Balance
<1>11. Counted'
  <2>1. Counted /\ UNCHANGED <<pc, frame>>
    BY <1>1 DEF IInv
  <2> QED BY <1>2, <1>3, <1>8, <1>9, <1>10, <2>1, SendRTSCounted
<1> QED BY <1>1, <1>6, <1>11 DEF IInv

----------------------------------------------------------------------------
(***************************************************************************)
(* The waits.  A frame whose answer is on its way is younger than a wait.  *)
(***************************************************************************)
LEMMA FlyingYoung ==
  ASSUME TInv, IInv, NEW q \in Frames, NEW S
  PROVE  Flying(q, S \ {now - WAIT_FB_TIME}) = Flying(q, S)
<1> DEFINE P == MAX_PROP_DELAY
           t == now - WAIT_FB_TIME
           R == S \ {t}
<1>1. /\ now \in Nat /\ P \in Nat /\ WAIT_FB_TIME \in Nat
      /\ CFRM_PROC_TIME \in Nat /\ DATA_PKT_PROC_TIME \in Nat
      /\ CFRM_PROC_TIME + 2 * DATA_PKT_PROC_TIME < P
      /\ P + CFRM_PROC_TIME < WAIT_FB_TIME
  BY WaitsAssumption, TimesAssumption DEF TInv, Typed, PacketsTyped
<1>2. /\ "A" \in Peer /\ "B" \in Peer /\ Slack("A") = 0
      /\ Slack("B") = DATA_PKT_PROC_TIME
      /\ pc["A"] # "exited" /\ pc["B"] # "exited"
  BY DEF Peer, Slack, IInv, TInv, Typed, MainTyped
<1>3. /\ q # NoFrame.type /\ Reply(q) # NoFrame.type
  BY FramesReplies DEF NoFrame
<1>4. /\ cell["A"].tmv_stmp \in Nat /\ frame["A"].tmv_stmp \in Nat
      /\ cell["B"].tmv_stmp \in Nat /\ frame["B"].tmv_stmp \in Nat
  BY <1>2, IntervalIsInt
<1>5. InCell("B", q, 0, R) = InCell("B", q, 0, S)
  <2>1. Since(cell["B"], now - CFRM_PROC_TIME - DATA_PKT_PROC_TIME)
    BY <1>2, Fresh DEF IInv
  <2>2. cell["B"].type = q => cell["B"].tmv_stmp - 0 # t
    BY <2>1, <1>1, <1>3, <1>4 DEF Since
  <2> HIDE DEF t
  <2> QED BY <2>2 DEF InCell, Hit
<1>6. InHand("B", q, 0, R) = InHand("B", q, 0, S)
  <2>1. pc["B"] # "poll" =>
          frame["B"].tmv_stmp >= now - CFRM_PROC_TIME - 2 * DATA_PKT_PROC_TIME
    BY <1>2, Fresh DEF IInv
  <2>2. pc["B"] # "poll" => frame["B"].tmv_stmp - 0 # t
    BY <2>1, <1>1, <1>4
  <2> HIDE DEF t
  <2> QED BY <2>2 DEF InHand, Hit
<1>7. Count(timers["B"], Reply(q), P, R) = Count(timers["B"], Reply(q), P, S)
  <2>1. ASSUME NEW k \in DOMAIN timers["B"]
        PROVE  timers["B"][k].at - P # t
    <3>1. timers["B"][k].at >= now /\ timers["B"][k].at \in Nat
      BY <1>2, TimersOfType DEF IInv, Timely, NotOverdue
    <3> QED BY <3>1, <1>1
  <2> HIDE DEF t
  <2> QED BY <2>1, CountSame
<1>8. InCell("A", Reply(q), P, R) = InCell("A", Reply(q), P, S)
  <2>1. Since(cell["A"], now - CFRM_PROC_TIME)
    <3>1. Since(cell["A"], now - CFRM_PROC_TIME - 0)
      BY <1>2, Fresh DEF IInv
    <3> QED BY <3>1, <1>1
  <2>2. cell["A"].type = Reply(q) => cell["A"].tmv_stmp - P # t
    BY <2>1, <1>1, <1>3, <1>4 DEF Since
  <2> HIDE DEF t
  <2> QED BY <2>2 DEF InCell, Hit
<1>9. InHand("A", Reply(q), P, R) = InHand("A", Reply(q), P, S)
  <2>1. pc["A"] # "poll" => frame["A"].tmv_stmp >= now - CFRM_PROC_TIME - 2 * 0
    BY <1>2, Fresh DEF IInv
  <2>2. pc["A"] # "poll" => frame["A"].tmv_stmp - P # t
    BY <2>1, <1>1, <1>4
  <2> HIDE DEF t
  <2> QED BY <2>2 DEF InHand, Hit
<1> QED BY <1>5, <1>6, <1>7, <1>8, <1>9 DEF Flying

LEMMA FlyingMonotone ==
  ASSUME TInv, NEW q, NEW S, NEW R, R \subseteq S
  PROVE  Flying(q, R) <= Flying(q, S)
<1> DEFINE P == MAX_PROP_DELAY
<1>1. ASSUME NEW n, NEW type, NEW d
      PROVE  /\ InCell(n, type, d, R) <= InCell(n, type, d, S)
             /\ InHand(n, type, d, R) <= InHand(n, type, d, S)
  BY DEF InCell, InHand, Hit
<1>2. Count(timers["B"], Reply(q), P, R) <= Count(timers["B"], Reply(q), P, S)
  BY TwoPeers, CountType, CountMonotone
<1>3. /\ Flying(q, R) \in Nat
      /\ InCell("B", q, 0, R) \in Nat /\ InHand("B", q, 0, R) \in Nat
      /\ Count(timers["B"], Reply(q), MAX_PROP_DELAY, R) \in Nat
      /\ InCell("A", Reply(q), MAX_PROP_DELAY, R) \in Nat
      /\ InHand("A", Reply(q), MAX_PROP_DELAY, R) \in Nat
  BY FlyingType
<1>4. /\ Flying(q, S) \in Nat
      /\ InCell("B", q, 0, S) \in Nat /\ InHand("B", q, 0, S) \in Nat
      /\ Count(timers["B"], Reply(q), MAX_PROP_DELAY, S) \in Nat
      /\ InCell("A", Reply(q), MAX_PROP_DELAY, S) \in Nat
      /\ InHand("A", Reply(q), MAX_PROP_DELAY, S) \in Nat
  BY FlyingType
<1> QED BY <1>1, <1>2, <1>3, <1>4 DEF Flying

\* A timer of A that is due runs out.
LEMMA RunOut ==
  ASSUME TInv, NEW k \in DOMAIN timers["A"], timers["A"][k].at = now, Remain("A", k)
  PROVE  /\ timers'["B"] = timers["B"]
         /\ \A call, d, S : CountA(call, d, S)'
              = CountA(call, d, S) - Hit(timers["A"][k].call, now, call, d, S)
BY TwoPeers, CountRemain DEF CountA

LEMMA RunOver ==
  ASSUME TInv, NEW k \in DOMAIN timers["A"], timers["A"][k].at = now,
         NEW i \in Int, NEW c \in Calls("A"), timers' = Set("A", Rest("A", k), i, c)
  PROVE  /\ timers'["B"] = timers["B"]
         /\ \A call, d, S : CountA(call, d, S)'
              = CountA(call, d, S) - Hit(timers["A"][k].call, now, call, d, S)
                  + Hit(c, At(i), call, d, S)
BY TwoPeers, CountReset DEF CountA

LEMMA DueIsCounted ==
  ASSUME TInv, NEW k \in DOMAIN timers["A"], timers["A"][k].at = now,
         NEW d \in Int
  PROVE  CountA(timers["A"][k].call, d, Int) >= 1
<1>1. now - d \in Int
  BY DEF TInv, Typed, PacketsTyped
<1> QED BY <1>1, TwoPeers, CountType, CountPositive DEF CountA

WaitFor(q) == IF q = "RTS" THEN "wait_CTS" ELSE "wait_ACK"

LEMMA MatchedWaits ==
  ASSUME IInv, NEW q \in Frames, NEW S \in SUBSET Int
  PROVE  Flying(q, S) <= CountA(WaitFor(q), WAIT_FB_TIME, S)
BY DEF IInv, Counted, Matched, Frames, WaitFor

\* A wait that is over has no answer on its way.
LEMMA WaitIsOver ==
  ASSUME TInv, IInv, NEW q \in Frames, NEW k \in DOMAIN timers["A"],
         timers["A"][k].at = now, timers["A"][k].call = WaitFor(q), NEW S \in SUBSET Int
  PROVE  Flying(q, S) <= CountA(WaitFor(q), WAIT_FB_TIME, S)
                           - Hit(WaitFor(q), now, WaitFor(q), WAIT_FB_TIME, S)
<1> DEFINE W == WAIT_FB_TIME
           t == now - W
           call == WaitFor(q)
<1>1. now \in Nat /\ W \in Nat
  BY WaitsAssumption DEF TInv, Typed, PacketsTyped
<1>2. CASE t \in S
  <2>1. Flying(q, S \ {t}) = Flying(q, S)
    BY FlyingYoung
  <2>2. Flying(q, S \ {t}) <= CountA(call, W, S \ {t})
    BY MatchedWaits
  <2>3. CountA(call, W, S \ {t}) <= CountA(call, W, S) - 1
    <3>1. timers["A"] \in Seq(TimerOf("A"))
      BY TwoPeers, CountType
    <3>2. S \ {t} \subseteq S /\ timers["A"][k].at - W \in S \ (S \ {t})
      BY <1>2
    <3> QED BY <3>1, <3>2, CountLess DEF CountA
  <2>4. Hit(call, now, call, W, S) = 1
    BY <1>2 DEF Hit
  <2>5. /\ CountA(call, W, S \ {t}) \in Nat /\ CountA(call, W, S) \in Nat
        /\ Flying(q, S) \in Nat
    BY CountsType
  <2>6. Flying(q, S) <= CountA(call, W, S) - Hit(call, now, call, W, S)
    <3> HIDE DEF t, call, W
    <3> QED BY <2>1, <2>2, <2>3, <2>4, <2>5
  <2> QED BY <2>6
<1>3. CASE t \notin S
  <2>1. Hit(call, now, call, W, S) = 0
    BY <1>3 DEF Hit
  <2>2. CountA(call, W, S) \in Nat
    BY CountsType
  <2> QED BY <2>1, <2>2, MatchedWaits
<1> QED BY <1>2, <1>3

LEMMA NoneOfNoTime ==
  ASSUME NEW call, NEW d
  PROVE  CountA(call, d, {}) = 0
<1>1. Places(timers["A"], call, d, {}) = {}
  BY DEF Places
<1> QED BY <1>1, FS_EmptySet DEF CountA, Count

\* A wait for a CTS is over before the data is due.
LEMMA NoWaitThatLong ==
  ASSUME TInv, IInv, NEW S
  PROVE  CountA("wait_CTS", WAIT_FB_TIME, S \cup {now - 2 * MAX_PROP_DELAY})
           = CountA("wait_CTS", WAIT_FB_TIME, S)
<1> DEFINE W == WAIT_FB_TIME
           o == now - 2 * MAX_PROP_DELAY
<1>1. W \in Nat /\ MAX_PROP_DELAY \in Nat /\ W < 2 * MAX_PROP_DELAY /\ now \in Nat
  BY WaitsAssumption, TimesAssumption DEF TInv, Typed, PacketsTyped
<1>2. ASSUME NEW k \in DOMAIN timers["A"]
      PROVE  timers["A"][k].at - W # o
  <2>1. timers["A"][k].at >= now /\ timers["A"][k].at \in Nat
    BY TwoPeers, TimersOfType DEF IInv, Timely, NotOverdue
  <2> QED BY <2>1, <1>1
<1> HIDE DEF o
<1>3. Count(timers["A"], "wait_CTS", W, S \cup {o}) = Count(timers["A"], "wait_CTS", W, S)
  <2>1. \A k \in DOMAIN timers["A"] :
          timers["A"][k].call = "wait_CTS" =>
            (timers["A"][k].at - W \in S \cup {o} <=> timers["A"][k].at - W \in S)
    BY <1>2
  <2> QED BY <2>1, CountSame
<1> QED BY <1>3 DEF CountA, o

\* Without the RTS of the data that is due, there is one DATA timer less.
LEMMA DataIsDue ==
  ASSUME TInv, NEW k \in DOMAIN timers["A"],
         timers["A"][k].at = now, timers["A"][k].call = "DATA", NEW S \in SUBSET Int,
         now - 2 * MAX_PROP_DELAY \notin S
  PROVE  CountA("DATA", 2 * MAX_PROP_DELAY, Int \ (S \cup {now - 2 * MAX_PROP_DELAY}))
           <= CountA("DATA", 2 * MAX_PROP_DELAY, Int \ S) - 1
<1> DEFINE P2 == 2 * MAX_PROP_DELAY
           o == now - P2
           R == Int \ (S \cup {o})
           T == Int \ S
<1>1. timers["A"] \in Seq(TimerOf("A"))
  BY TwoPeers, CountType
<1>2. o \in Int
  BY TimesAssumption DEF TInv, Typed, PacketsTyped
<1>3. R \subseteq T /\ timers["A"][k].at - P2 \in T \ R
  BY <1>2
<1>4. Count(timers["A"], "DATA", P2, R) <= Count(timers["A"], "DATA", P2, T) - 1
  <2> HIDE DEF P2, R, T
  <2> QED BY <1>1, <1>3, CountLess
<1> QED BY <1>4 DEF CountA

\* The handler of a timer that is due finds its packet.
LEMMA HandlersFind ==
  ASSUME TInv, IInv, NEW k \in DOMAIN timers["A"], timers["A"][k].at = now
  PROVE  /\ timers["A"][k].call = "DATA" => Meeting(MaySendData) # {}
         /\ timers["A"][k].call = "wait_CTS" =>
              Meeting(HasCTS) \cup Meeting(AwaitsCTS) # {}
         /\ timers["A"][k].call = "wait_ACK" =>
              Meeting(HasACK) \cup Meeting(AwaitsACK) # {}
         /\ timers["A"][k].call = "back_off" => Meeting(BackedOff) # {}
<1> DEFINE W == WAIT_FB_TIME
           P2 == 2 * MAX_PROP_DELAY
<1>1. W \in Int /\ 0 \in Int /\ now - P2 \in Int
  BY WaitsAssumption, TimesAssumption DEF TInv, Typed, PacketsTyped
<1>2. /\ \A call, d, S : CountA(call, d, S) \in Nat
      /\ \A q, S : Flying(q, S) \in Nat
      /\ \A ph : N(ph) \in Nat
  BY CountsType
<1>3. /\ CountA("wait_CTS", W, Int) + CountA("RTS", 0, Int)
           = N("has_CTS") + N("awaits_CTS")
      /\ CountA("wait_ACK", W, Int) + CountA("DATA", P2, Int)
           = N("has_CTS") + N("awaits_ACK") + N("has_ACK")
      /\ CountA("back_off", 0, Int) = N("backed_off")
  BY DEF IInv, Counted, Balance
<1>4. ASSUME NEW S \in SUBSET Int
      PROVE  N("has_CTS") + Flying("RTS", S)
               <= CountA("DATA", P2, Int \ S) + CountA("wait_CTS", W, S)
  BY DEF IInv, Counted, Answered
<1>5. \A ph : N(ph) # 0 => In(queue, stat, ph) # {}
  BY QueueFinite, NumPositive DEF N
<1>6. ASSUME timers["A"][k].call = "DATA"
      PROVE  Meeting(MaySendData) # {}
  <2> DEFINE T == {} \cup {now - P2}
  <2>1. N("has_CTS") + Flying("RTS", T)
          <= CountA("DATA", P2, Int \ T) + CountA("wait_CTS", W, T)
    <3>1. T \in SUBSET Int
      BY <1>1
    <3> HIDE DEF T
    <3> QED BY <3>1, <1>4
  <2>2. CountA("wait_CTS", W, T) = CountA("wait_CTS", W, {})
    BY NoWaitThatLong
  <2>3. CountA("wait_CTS", W, {}) = 0
    BY NoneOfNoTime
  <2>4. CountA("DATA", P2, Int \ T) <= CountA("DATA", P2, Int \ {}) - 1
    <3>1. {} \in SUBSET Int /\ now - P2 \notin {}
      OBVIOUS
    <3> QED BY <3>1, <1>6, DataIsDue
  <2>5. Int \ {} = Int
    OBVIOUS
  <2>6. CountA("DATA", P2, Int \ T) \in Nat /\ Flying("RTS", T) \in Nat
    BY <1>2
  <2> HIDE DEF T, P2, W
  <2>7. N("awaits_ACK") # 0 \/ N("has_ACK") # 0
    BY <2>1, <2>2, <2>3, <2>4, <2>5, <2>6, <1>2, <1>3
  <2> QED BY <2>7, <1>5, MeetingPhase
<1>7. ASSUME timers["A"][k].call = "wait_CTS"
      PROVE  Meeting(HasCTS) \cup Meeting(AwaitsCTS) # {}
  <2>1. CountA("wait_CTS", W, Int) >= 1
    BY <1>1, <1>7, DueIsCounted
  <2>2. N("has_CTS") # 0 \/ N("awaits_CTS") # 0
    BY <2>1, <1>2, <1>3
  <2> QED BY <2>2, <1>5, MeetingPhase
<1>8. ASSUME timers["A"][k].call = "wait_ACK"
      PROVE  Meeting(HasACK) \cup Meeting(AwaitsACK) # {}
  <2>1. CountA("wait_ACK", W, Int) >= 1
    BY <1>1, <1>8, DueIsCounted
  <2>2. N("has_CTS") + Flying("RTS", {}) <= CountA("DATA", P2, Int) + CountA("wait_CTS", W, {})
    <3>1. {} \in SUBSET Int /\ Int \ {} = Int
      OBVIOUS
    <3>2. N("has_CTS") + Flying("RTS", {})
            <= CountA("DATA", P2, Int \ {}) + CountA("wait_CTS", W, {})
      BY <3>1, <1>4
    <3> QED BY <3>1, <3>2
  <2>3. CountA("wait_CTS", W, {}) = 0
    BY NoneOfNoTime
  <2>4. N("awaits_ACK") # 0 \/ N("has_ACK") # 0
    BY <2>1, <2>2, <2>3, <1>2, <1>3
  <2> QED BY <2>4, <1>5, MeetingPhase
<1>9. ASSUME timers["A"][k].call = "back_off"
      PROVE  Meeting(BackedOff) # {}
  <2>1. CountA("back_off", 0, Int) >= 1
    BY <1>1, <1>9, DueIsCounted
  <2>2. N("backed_off") # 0
    BY <2>1, <1>2, <1>3
  <2> QED BY <2>2, <1>5, MeetingPhase
<1> QED BY <1>6, <1>7, <1>8, <1>9

LEMMA BackOffEndsIInv ==
  ASSUME TInv, TInv', IInv, NEW k \in DOMAIN timers["A"], BackOffEnds(k)
  PROVE  IInv'
<1>1. /\ timers["A"][k].call = "back_off" /\ timers["A"][k].at = now
      /\ UNCHANGED <<now, queue, cell, pc, frame>>
  BY DEF BackOffEnds, Runs, First, Due, mainVars
<1>2. Meeting(BackedOff) # {}
  BY <1>1, HandlersFind
<1>3. PICK p \in Meeting(BackedOff) : Change(p, EndBackOff) /\ Remain("A", k)
  BY <1>2 DEF BackOffEnds
<1>4. p \in queue /\ VectorOK(stat[p]) /\ Phase(stat[p]) = "backed_off"
  BY MeetingPhase, InPhase
<1>5. \A ph : /\ N(ph)' = N(ph) - Is("backed_off", ph) + Is("unsent", ph)
              /\ N(ph) \in Nat /\ N(ph)' \in Int
  <2>1. /\ Phase(stat'[p]) = "unsent" /\ \A o \in queue : o # p => stat'[o] = stat[o]
    BY <1>3, <1>4, EndBackOffPhase, QueueFinite DEF Change
  <2> QED BY <1>1, <1>4, <2>1, PhaseChange
<1>6. /\ timers'["B"] = timers["B"]
      /\ \A call, d, S : CountA(call, d, S)' = CountA(call, d, S) - Hit("back_off", now, call, d, S)
  BY <1>1, <1>3, RunOut
<1>7. Timely'
  <2>1. Quiet("A")
    BY <1>1, <1>3, TwoPeers, QuietRemain DEF Sleeps
  <2> QED BY <1>1, <1>6, <2>1, QuietSame, TimelySteady DEF IInv, Peer
<1>8. \A call, d, S : CountA(call, d, S) \in Nat
  BY CountsType
<1>9. \A q, S : Flying(q, S)' = Flying(q, S)
  BY <1>1, <1>6, FlyingSame
<1>10. /\ N("backed_off")' = N("backed_off") - 1
       /\ \A ph \in Phases \ {"backed_off"} : N(ph)' = N(ph)
  BY <1>5 DEF Is, Phases
<1>11. /\ CountA("back_off", 0, Int)' = CountA("back_off", 0, Int) - 1
       /\ \A call \in Waits \ {"back_off"} : \A d, S : CountA(call, d, S)' = CountA(call, d, S)
  <2>1. now - 0 \in Int
    BY DEF TInv, Typed, PacketsTyped
  <2> QED BY <1>6, <1>8, <2>1 DEF Hit, Waits
<1>12. Counted'
  <2>1. Balance'
    BY <1>10, <1>11 DEF IInv, Counted, Balance, Phases, Waits
  <2>2. Matched'
    BY <1>9, <1>11 DEF IInv, Counted, Matched, Waits
  <2>3. Answered'
    BY <1>9, <1>10, <1>11 DEF IInv, Counted, Answered, Phases, Waits
  <2> QED BY <2>1, <2>2, <2>3 DEF Counted
<1> QED BY <1>1, <1>7, <1>12 DEF IInv

\* The wait for a CTS or for an ACK is over: nothing comes into the cells.
LEMMA WaitEndsTimely ==
  ASSUME TInv, TInv', IInv, NEW k \in DOMAIN timers["A"],
         timers["A"][k].call \in {"wait_CTS", "wait_ACK"},
         Remain("A", k) \/ \E i \in Int : timers' = Set("A", Rest("A", k), i, "back_off"),
         UNCHANGED <<now, cell, pc, frame>>
  PROVE  Timely' /\ timers'["B"] = timers["B"]
<1>1. "A" \in Peer /\ timers["A"][k].call \notin Sleeps
  BY DEF Peer, Sleeps
<1>2. "back_off" \in Calls("A") /\ "back_off" \notin Sleeps
  BY DEF Calls, Sleeps
<1>3. Quiet("A") /\ timers'["B"] = timers["B"]
  <2>1. CASE Remain("A", k)
    BY <1>1, <2>1, TwoPeers, QuietRemain, CountRemain
  <2>2. CASE \E i \in Int : timers' = Set("A", Rest("A", k), i, "back_off")
    <3>1. PICK i \in Int : timers' = Set("A", Rest("A", k), i, "back_off")
      BY <2>2
    <3> QED BY <1>1, <1>2, <3>1, TwoPeers, QuietReset, CountReset
  <2> QED BY <2>1, <2>2
<1>4. \A n \in Peer : Quiet(n)
  BY <1>3, QuietSame DEF Peer
<1> QED BY <1>3, <1>4, TimelySteady DEF IInv

\* The timers after a wait, and after one that ends in a back-off.
LEMMA WaitOut ==
  ASSUME TInv, NEW k \in DOMAIN timers["A"], timers["A"][k].at = now,
         NEW c \in {"wait_CTS", "wait_ACK"}, timers["A"][k].call = c, Remain("A", k)
  PROVE  /\ \A S : CountA(c, WAIT_FB_TIME, S)'
              = CountA(c, WAIT_FB_TIME, S) - Hit(c, now, c, WAIT_FB_TIME, S)
         /\ \A call \in Waits \ {c} : \A d, S : CountA(call, d, S)' = CountA(call, d, S)
<1>1. \A call, d, S : CountA(call, d, S)' = CountA(call, d, S) - Hit(c, now, call, d, S)
  BY RunOut
<1>2. \A call, d, S : CountA(call, d, S) \in Nat
  BY CountsType
<1>3. ASSUME NEW call \in Waits \ {c}, NEW d, NEW S
      PROVE  CountA(call, d, S)' = CountA(call, d, S)
  <2>1. Hit(c, now, call, d, S) = 0
    BY HitOther
  <2> QED BY <2>1, <1>1, <1>2
<1> QED BY <1>1, <1>3

LEMMA WaitBackOff ==
  ASSUME TInv, NEW k \in DOMAIN timers["A"], timers["A"][k].at = now,
         NEW c \in {"wait_CTS", "wait_ACK"}, timers["A"][k].call = c,
         NEW i \in Int, timers' = Set("A", Rest("A", k), i, "back_off")
  PROVE  /\ \A S : CountA(c, WAIT_FB_TIME, S)'
              = CountA(c, WAIT_FB_TIME, S) - Hit(c, now, c, WAIT_FB_TIME, S)
         /\ \A call \in Waits \ {c, "back_off"} : \A d, S :
              CountA(call, d, S)' = CountA(call, d, S)
         /\ CountA("back_off", 0, Int)' = CountA("back_off", 0, Int) + 1
<1>1. "back_off" \in Calls("A")
  BY DEF Calls
<1>2. \A call, d, S : CountA(call, d, S)'
        = CountA(call, d, S) - Hit(c, now, call, d, S) + Hit("back_off", At(i), call, d, S)
  BY <1>1, RunOver
<1>3. \A call, d, S : CountA(call, d, S) \in Nat
  BY CountsType
<1>4. ASSUME NEW S
      PROVE  CountA(c, WAIT_FB_TIME, S)'
               = CountA(c, WAIT_FB_TIME, S) - Hit(c, now, c, WAIT_FB_TIME, S)
  <2>1. /\ Hit("back_off", At(i), c, WAIT_FB_TIME, S) = 0
        /\ Hit(c, now, c, WAIT_FB_TIME, S) \in Nat
    BY DEF Hit
  <2> QED BY <2>1, <1>2, <1>3
<1>5. ASSUME NEW call \in Waits \ {c, "back_off"}, NEW d, NEW S
      PROVE  CountA(call, d, S)' = CountA(call, d, S)
  <2>1. Hit(c, now, call, d, S) = 0 /\ Hit("back_off", At(i), call, d, S) = 0
    BY DEF Hit
  <2> QED BY <2>1, <1>2, <1>3
<1>6. CountA("back_off", 0, Int)' = CountA("back_off", 0, Int) + 1
  <2>1. At(i) - 0 \in Int
    BY AtType
  <2>2. Hit(c, now, "back_off", 0, Int) = 0 /\ Hit("back_off", At(i), "back_off", 0, Int) = 1
    BY <2>1 DEF Hit
  <2> QED BY <2>2, <1>2, <1>3
<1> QED BY <1>4, <1>5, <1>6

\* A packet that waits is backed off when no other has what it waits for.
LEMMA PutBackSteps ==
  ASSUME TInv, NEW k \in DOMAIN timers["A"], timers["A"][k].at = now,
         NEW c \in {"wait_CTS", "wait_ACK"}, timers["A"][k].call = c,
         UNCHANGED <<arrival, arrived, queue, acked>>,
         c = "wait_CTS" => PutBack(AwaitsCTS, k),
         c = "wait_ACK" => PutBack(AwaitsACK, k)
  PROVE  /\ \E i \in Int : timers' = Set("A", Rest("A", k), i, "back_off")
         /\ \A S : CountA(c, WAIT_FB_TIME, S)'
              = CountA(c, WAIT_FB_TIME, S) - Hit(c, now, c, WAIT_FB_TIME, S)
         /\ \A call \in Waits \ {c, "back_off"} : \A d, S :
              CountA(call, d, S)' = CountA(call, d, S)
         /\ CountA("back_off", 0, Int)' = CountA("back_off", 0, Int) + 1
         /\ N("backed_off")' = N("backed_off") + 1
         /\ LET a == IF c = "wait_CTS" THEN "awaits_CTS" ELSE "awaits_ACK"
            IN  /\ N(a)' = N(a) - 1
                /\ \A ph \in Phases \ {a, "backed_off"} : N(ph)' = N(ph)
<1> DEFINE a == IF c = "wait_CTS" THEN "awaits_CTS" ELSE "awaits_ACK"
<1>1. \E p \in queue, tm \in BackOffs :
        /\ Phase(stat[p]) = a /\ Change(p, StartBackOff)
        /\ timers' = Set("A", Rest("A", k), tm * stat[p].RTS_TX_NUM, "back_off")
  <2>1. CASE c = "wait_CTS"
    <3>1. PutBack(AwaitsCTS, k)
      BY <2>1
    <3>2. PICK p \in Meeting(AwaitsCTS), tm \in BackOffs :
            /\ Change(p, StartBackOff)
            /\ timers' = Set("A", Rest("A", k), tm * stat[p].RTS_TX_NUM, "back_off")
      BY <3>1 DEF PutBack
    <3>3. p \in queue /\ Phase(stat[p]) = "awaits_CTS"
      BY MeetingPhase, InPhase
    <3> QED BY <2>1, <3>2, <3>3
  <2>2. CASE c = "wait_ACK"
    <3>1. PutBack(AwaitsACK, k)
      BY <2>2
    <3>2. PICK p \in Meeting(AwaitsACK), tm \in BackOffs :
            /\ Change(p, StartBackOff)
            /\ timers' = Set("A", Rest("A", k), tm * stat[p].RTS_TX_NUM, "back_off")
      BY <3>1 DEF PutBack
    <3>3. p \in queue /\ Phase(stat[p]) = "awaits_ACK"
      BY MeetingPhase, InPhase
    <3> QED BY <2>2, <3>2, <3>3
  <2> QED BY <2>1, <2>2
<1>2. PICK p \in queue, tm \in BackOffs :
        /\ Phase(stat[p]) = a /\ Change(p, StartBackOff)
        /\ timers' = Set("A", Rest("A", k), tm * stat[p].RTS_TX_NUM, "back_off")
  BY <1>1
<1>3. a \in {"awaits_CTS", "awaits_ACK"} /\ a \in Phases /\ a # "backed_off"
  BY DEF Phases
<1>4. /\ tm * stat[p].RTS_TX_NUM \in Int
      /\ stat' = [stat EXCEPT ![p] = StartBackOff(stat[p])]
      /\ Phase(StartBackOff(stat[p])) = "backed_off"
  BY <1>2, <1>3, BackedOffKept
<1>5. \A ph : /\ N(ph)' = N(ph) - Is(a, ph) + Is("backed_off", ph)
              /\ N(ph) \in Nat /\ N(ph)' \in Int
  <2>1. /\ Phase(stat'[p]) = "backed_off" /\ \A o \in queue : o # p => stat'[o] = stat[o]
    BY <1>4, QueueFinite
  <2> HIDE DEF a
  <2> QED BY <1>2, <2>1, PhaseChange
<1>6. /\ N("backed_off")' = N("backed_off") + 1 /\ N(a)' = N(a) - 1
      /\ \A ph \in Phases \ {a, "backed_off"} : N(ph)' = N(ph)
  <2> HIDE DEF a
  <2> QED BY <1>3, <1>5 DEF Is
<1>7. PICK i \in Int : timers' = Set("A", Rest("A", k), i, "back_off")
  BY <1>2, <1>4
<1>8. /\ \A S : CountA(c, WAIT_FB_TIME, S)'
           = CountA(c, WAIT_FB_TIME, S) - Hit(c, now, c, WAIT_FB_TIME, S)
      /\ \A call \in Waits \ {c, "back_off"} : \A d, S :
           CountA(call, d, S)' = CountA(call, d, S)
      /\ CountA("back_off", 0, Int)' = CountA("back_off", 0, Int) + 1
  BY <1>7, WaitBackOff
<1> QED BY <1>6, <1>7, <1>8

LEMMA WaitCTSIInv ==
  ASSUME TInv, TInv', IInv, NEW k \in DOMAIN timers["A"], WaitCTS(k)
  PROVE  IInv'
<1> DEFINE W == WAIT_FB_TIME
           P2 == 2 * MAX_PROP_DELAY
<1>1. /\ timers["A"][k].call = "wait_CTS" /\ timers["A"][k].at = now
      /\ UNCHANGED <<now, queue, cell, pc, frame>>
      /\ UNCHANGED <<arrival, arrived, acked>>
  BY DEF WaitCTS, Runs, First, Due, mainVars, logVars
<1>2. /\ \A call, d, S : CountA(call, d, S) \in Nat
      /\ \A q, S : Flying(q, S) \in Nat
      /\ \A ph : N(ph) \in Nat
  BY CountsType
<1>3. \A S \in SUBSET Int :
        Flying("RTS", S) <= CountA("wait_CTS", W, S) - Hit("wait_CTS", now, "wait_CTS", W, S)
  <2>1. "RTS" \in Frames /\ WaitFor("RTS") = "wait_CTS"
    BY DEF Frames, WaitFor
  <2> QED BY <2>1, <1>1, WaitIsOver
<1>4. \A S : Hit("wait_CTS", now, "wait_CTS", W, S) \in {0, 1}
  BY DEF Hit
<1>5. Hit("wait_CTS", now, "wait_CTS", W, Int) = 1
  BY WaitsAssumption DEF Hit, TInv, Typed, PacketsTyped
<1>6. /\ CountA("wait_CTS", W, Int) + CountA("RTS", 0, Int)
           = N("has_CTS") + N("awaits_CTS")
      /\ CountA("wait_ACK", W, Int) + CountA("DATA", P2, Int)
           = N("has_CTS") + N("awaits_ACK") + N("has_ACK")
      /\ CountA("back_off", 0, Int) = N("backed_off")
  BY DEF IInv, Counted, Balance
<1>7. \A S \in SUBSET Int :
        N("has_CTS") + Flying("RTS", S)
          <= CountA("DATA", P2, Int \ S) + CountA("wait_CTS", W, S)
  BY DEF IInv, Counted, Answered
<1>8. \/ \E p \in Meeting(HasCTS) : Change(p, CheckCTS) /\ Remain("A", k)
      \/ Meeting(HasCTS) = {} /\ PutBack(AwaitsCTS, k)
      \/ Meeting(HasCTS) = {} /\ Meeting(AwaitsCTS) = {}
  BY DEF WaitCTS
<1>9. \A S : timers'["B"] = timers["B"] => \A q : Flying(q, S)' = Flying(q, S)
  BY <1>1, FlyingSame
<1>10. CASE \E p \in Meeting(HasCTS) : Change(p, CheckCTS) /\ Remain("A", k)
  <2>1. PICK p \in Meeting(HasCTS) : Change(p, CheckCTS) /\ Remain("A", k)
    BY <1>10
  <2>2. p \in queue /\ VectorOK(stat[p]) /\ Phase(stat[p]) = "has_CTS"
    BY MeetingPhase, InPhase
  <2>3. \A ph : /\ N(ph)' = N(ph) - Is("has_CTS", ph) + Is("awaits_ACK", ph)
                /\ N(ph) \in Nat /\ N(ph)' \in Int
    <3>1. /\ Phase(stat'[p]) = "awaits_ACK" /\ \A o \in queue : o # p => stat'[o] = stat[o]
      BY <2>1, <2>2, AssignmentPhase, QueueFinite DEF Change
    <3> QED BY <1>1, <2>2, <3>1, PhaseChange
  <2>4. /\ N("has_CTS")' = N("has_CTS") - 1 /\ N("awaits_ACK")' = N("awaits_ACK") + 1
        /\ N("awaits_CTS")' = N("awaits_CTS") /\ N("has_ACK")' = N("has_ACK")
        /\ N("backed_off")' = N("backed_off")
    BY <2>3 DEF Is
  <2>5. Timely' /\ timers'["B"] = timers["B"]
    BY <1>1, <2>1, WaitEndsTimely
  <2>6. /\ \A S : CountA("wait_CTS", W, S)'
             = CountA("wait_CTS", W, S) - Hit("wait_CTS", now, "wait_CTS", W, S)
        /\ \A call \in Waits \ {"wait_CTS"} : \A d, S : CountA(call, d, S)' = CountA(call, d, S)
    BY <1>1, <2>1, WaitOut
  <2>7. \A d, S : /\ CountA("DATA", d, S)' = CountA("DATA", d, S)
                  /\ CountA("wait_ACK", d, S)' = CountA("wait_ACK", d, S)
                  /\ CountA("RTS", d, S)' = CountA("RTS", d, S)
                  /\ CountA("back_off", d, S)' = CountA("back_off", d, S)
    BY <2>6 DEF Waits
  <2>8. \A q, S : Flying(q, S)' = Flying(q, S)
    BY <2>5, <1>9
  <2>9. Balance'
    BY <1>2, <1>5, <1>6, <2>4, <2>6, <2>7 DEF Balance
  <2>10. Matched'
    <3> SUFFICES ASSUME NEW S \in SUBSET Int
                 PROVE  /\ Flying("RTS", S)' <= CountA("wait_CTS", W, S)'
                        /\ Flying("DATA", S)' <= CountA("wait_ACK", W, S)'
      BY DEF Matched
    <3>1. Flying("DATA", S) <= CountA("wait_ACK", W, S)
      BY DEF IInv, Counted, Matched
    <3> QED BY <3>1, <1>3, <2>6, <2>7, <2>8
  <2>11. Answered'
    <3>1. ASSUME NEW S \in SUBSET Int
          PROVE  N("has_CTS")' + Flying("RTS", S)'
                   <= CountA("DATA", P2, Int \ S)' + CountA("wait_CTS", W, S)'
      <4>1. /\ N("has_CTS") + Flying("RTS", S)
                 <= CountA("DATA", P2, Int \ S) + CountA("wait_CTS", W, S)
            /\ N("has_CTS") \in Nat /\ Flying("RTS", S) \in Nat
            /\ CountA("DATA", P2, Int \ S) \in Nat /\ CountA("wait_CTS", W, S) \in Nat
        BY <1>2, <1>7
      <4>2. /\ CountA("DATA", P2, Int \ S)' = CountA("DATA", P2, Int \ S)
            /\ CountA("wait_CTS", W, S)'
                 = CountA("wait_CTS", W, S) - Hit("wait_CTS", now, "wait_CTS", W, S)
            /\ Flying("RTS", S)' = Flying("RTS", S)
            /\ Hit("wait_CTS", now, "wait_CTS", W, S) \in {0, 1}
        BY <1>4, <2>6, <2>7, <2>8
      <4> QED BY <4>1, <4>2, <2>4
    <3>2. N("has_ACK")' + Flying("DATA", Int)' <= CountA("wait_ACK", W, Int)'
      <4>1. N("has_ACK") + Flying("DATA", Int) <= CountA("wait_ACK", W, Int)
        BY DEF IInv, Counted, Answered
      <4> QED BY <4>1, <2>4, <2>7, <2>8
    <3> QED BY <3>1, <3>2 DEF Answered
  <2> QED BY <1>1, <2>5, <2>9, <2>10, <2>11 DEF IInv, Counted
<1>11. CASE Meeting(HasCTS) = {} /\ PutBack(AwaitsCTS, k)
  <2>1. N("has_CTS") = 0
    <3>1. In(queue, stat, "has_CTS") = {}
      BY <1>11, MeetingPhase
    <3> QED BY <3>1, QueueFinite, NumPositive DEF N
  <2>2. /\ \E i \in Int : timers' = Set("A", Rest("A", k), i, "back_off")
        /\ \A S : CountA("wait_CTS", W, S)'
             = CountA("wait_CTS", W, S) - Hit("wait_CTS", now, "wait_CTS", W, S)
        /\ \A call \in Waits \ {"wait_CTS", "back_off"} : \A d, S :
             CountA(call, d, S)' = CountA(call, d, S)
        /\ CountA("back_off", 0, Int)' = CountA("back_off", 0, Int) + 1
        /\ N("backed_off")' = N("backed_off") + 1
        /\ N("awaits_CTS")' = N("awaits_CTS") - 1
        /\ \A ph \in Phases \ {"awaits_CTS", "backed_off"} : N(ph)' = N(ph)
    <3>1. PutBack(AwaitsCTS, k)
      BY <1>11
    <3> QED BY <1>1, <3>1, PutBackSteps
  <2>3. /\ \A d, S : /\ CountA("DATA", d, S)' = CountA("DATA", d, S)
                     /\ CountA("wait_ACK", d, S)' = CountA("wait_ACK", d, S)
                     /\ CountA("RTS", d, S)' = CountA("RTS", d, S)
        /\ N("has_CTS")' = N("has_CTS") /\ N("awaits_ACK")' = N("awaits_ACK")
        /\ N("has_ACK")' = N("has_ACK")
    BY <2>2 DEF Waits, Phases
  <2>4. Timely' /\ timers'["B"] = timers["B"]
    BY <1>1, <2>2, WaitEndsTimely
  <2>5. \A q, S : Flying(q, S)' = Flying(q, S)
    BY <2>4, <1>9
  <2>6. Balance'
    <3>1. /\ CountA("wait_CTS", W, Int)' = CountA("wait_CTS", W, Int) - 1
          /\ CountA("back_off", 0, Int)' = CountA("back_off", 0, Int) + 1
          /\ N("backed_off")' = N("backed_off") + 1
          /\ N("awaits_CTS")' = N("awaits_CTS") - 1
      BY <1>5, <2>2
    <3>2. /\ CountA("RTS", 0, Int)' = CountA("RTS", 0, Int)
          /\ CountA("wait_ACK", W, Int)' = CountA("wait_ACK", W, Int)
          /\ CountA("DATA", P2, Int)' = CountA("DATA", P2, Int)
      BY <2>3
    <3> QED BY <1>2, <1>6, <2>3, <3>1, <3>2 DEF Balance
  <2>7. \A S \in SUBSET Int : Flying("RTS", S)' <= CountA("wait_CTS", W, S)'
    BY <1>3, <2>2, <2>5
  <2>8. Matched'
    BY <2>3, <2>5, <2>7 DEF IInv, Counted, Matched
  <2>9. Answered'
    <3>1. ASSUME NEW S \in SUBSET Int
          PROVE  N("has_CTS")' + Flying("RTS", S)'
                   <= CountA("DATA", P2, Int \ S)' + CountA("wait_CTS", W, S)'
      <4>1. Flying("RTS", S)' <= CountA("wait_CTS", W, S)'
        BY <2>7
      <4>2. CountA("DATA", P2, Int \ S)' \in Nat /\ N("has_CTS")' = 0
        BY <1>2, <2>1, <2>3
      <4>3. /\ Flying("RTS", S)' \in Nat /\ CountA("wait_CTS", W, S)' \in Int
        BY <1>2, <1>4, <2>2, <2>5
      <4> QED BY <4>1, <4>2, <4>3
    <3>2. N("has_ACK")' + Flying("DATA", Int)' <= CountA("wait_ACK", W, Int)'
      BY <2>3, <2>5 DEF IInv, Counted, Answered
    <3> QED BY <3>1, <3>2 DEF Answered
  <2> QED BY <1>1, <2>4, <2>6, <2>8, <2>9 DEF IInv, Counted
<1>12. ~ (Meeting(HasCTS) = {} /\ Meeting(AwaitsCTS) = {})
  BY <1>1, HandlersFind
<1> QED BY <1>8, <1>10, <1>11, <1>12

LEMMA WaitACKIInv ==
  ASSUME TInv, TInv', IInv, NEW k \in DOMAIN timers["A"], WaitACK(k)
  PROVE  IInv'
<1> DEFINE W == WAIT_FB_TIME
           P2 == 2 * MAX_PROP_DELAY
<1>1. /\ timers["A"][k].call = "wait_ACK" /\ timers["A"][k].at = now
      /\ UNCHANGED <<now, cell, pc, frame>> /\ UNCHANGED <<arrival, arrived>>
  BY DEF WaitACK, Runs, First, Due, mainVars
<1>2. /\ \A call, d, S : CountA(call, d, S) \in Nat
      /\ \A q, S : Flying(q, S) \in Nat
      /\ \A ph : N(ph) \in Nat
  BY CountsType
<1>3. \A S \in SUBSET Int :
        Flying("DATA", S) <= CountA("wait_ACK", W, S) - Hit("wait_ACK", now, "wait_ACK", W, S)
  <2>1. "DATA" \in Frames /\ WaitFor("DATA") = "wait_ACK"
    BY DEF Frames, WaitFor
  <2> QED BY <2>1, <1>1, WaitIsOver
<1>4. Hit("wait_ACK", now, "wait_ACK", W, Int) = 1
  BY WaitsAssumption DEF Hit, TInv, Typed, PacketsTyped
<1>5. /\ CountA("wait_CTS", W, Int) + CountA("RTS", 0, Int)
           = N("has_CTS") + N("awaits_CTS")
      /\ CountA("wait_ACK", W, Int) + CountA("DATA", P2, Int)
           = N("has_CTS") + N("awaits_ACK") + N("has_ACK")
      /\ CountA("back_off", 0, Int) = N("backed_off")
  BY DEF IInv, Counted, Balance
<1>6. \A S \in SUBSET Int :
        N("has_CTS") + Flying("RTS", S)
          <= CountA("DATA", P2, Int \ S) + CountA("wait_CTS", W, S)
  BY DEF IInv, Counted, Answered
<1>7. N("has_ACK") + Flying("DATA", Int) <= CountA("wait_ACK", W, Int)
  BY DEF IInv, Counted, Answered
<1>8. \/ \E p \in Meeting(HasACK) : Remain("A", k) /\ queue' = queue \ {p} /\ stat' = stat
      \/ /\ Meeting(HasACK) = {} /\ PutBack(AwaitsACK, k)
         /\ UNCHANGED <<queue, acked>>
      \/ Meeting(HasACK) = {} /\ Meeting(AwaitsACK) = {}
  BY DEF WaitACK
<1>9. timers'["B"] = timers["B"] => \A q, S : Flying(q, S)' = Flying(q, S)
  BY <1>1, FlyingSame
<1>10. CASE \E p \in Meeting(HasACK) : Remain("A", k) /\ queue' = queue \ {p} /\ stat' = stat
  <2>1. PICK p \in Meeting(HasACK) : Remain("A", k) /\ queue' = queue \ {p} /\ stat' = stat
    BY <1>10
  <2>2. p \in queue /\ Phase(stat[p]) = "has_ACK"
    BY MeetingPhase, InPhase
  <2>3. \A ph : N(ph)' = N(ph) - Is("has_ACK", ph)
    <3>1. ASSUME NEW ph
          PROVE  N(ph)' = N(ph) - Is("has_ACK", ph)
      <4>1. Num(queue \ {p}, stat, ph) = Num(queue, stat, ph) - Is(Phase(stat[p]), ph)
        BY <2>2, QueueFinite, NumRemove
      <4> QED BY <4>1, <2>1, <2>2 DEF N
    <3> QED BY <3>1
  <2>4. /\ N("has_CTS")' = N("has_CTS") /\ N("awaits_ACK")' = N("awaits_ACK")
        /\ N("awaits_CTS")' = N("awaits_CTS") /\ N("has_ACK")' = N("has_ACK") - 1
        /\ N("backed_off")' = N("backed_off")
    BY <2>3, <1>2 DEF Is
  <2>5. Timely' /\ timers'["B"] = timers["B"]
    BY <1>1, <2>1, WaitEndsTimely
  <2>6. /\ \A S : CountA("wait_ACK", W, S)'
             = CountA("wait_ACK", W, S) - Hit("wait_ACK", now, "wait_ACK", W, S)
        /\ \A call \in Waits \ {"wait_ACK"} : \A d, S : CountA(call, d, S)' = CountA(call, d, S)
    BY <1>1, <2>1, WaitOut
  <2>7. /\ \A d, S : /\ CountA("DATA", d, S)' = CountA("DATA", d, S)
                     /\ CountA("wait_CTS", d, S)' = CountA("wait_CTS", d, S)
                     /\ CountA("RTS", d, S)' = CountA("RTS", d, S)
                     /\ CountA("back_off", d, S)' = CountA("back_off", d, S)
        /\ CountA("wait_ACK", W, Int)' = CountA("wait_ACK", W, Int) - 1
    BY <1>4, <2>6 DEF Waits
  <2>8. \A q, S : Flying(q, S)' = Flying(q, S)
    BY <2>5, <1>9
  <2>9. Balance'
    BY <1>2, <1>5, <2>4, <2>7 DEF Balance
  <2>10. Matched'
    <3> SUFFICES ASSUME NEW S \in SUBSET Int
                 PROVE  /\ Flying("RTS", S)' <= CountA("wait_CTS", W, S)'
                        /\ Flying("DATA", S)' <= CountA("wait_ACK", W, S)'
      BY DEF Matched
    <3>1. Flying("RTS", S) <= CountA("wait_CTS", W, S)
      BY DEF IInv, Counted, Matched
    <3> QED BY <3>1, <1>3, <2>6, <2>7, <2>8
  <2>11. Answered'
    <3>1. \A S \in SUBSET Int :
            N("has_CTS")' + Flying("RTS", S)'
              <= CountA("DATA", P2, Int \ S)' + CountA("wait_CTS", W, S)'
      BY <1>6, <2>4, <2>7, <2>8
    <3>2. N("has_ACK")' + Flying("DATA", Int)' <= CountA("wait_ACK", W, Int)'
      BY <1>2, <1>7, <2>4, <2>7, <2>8
    <3> QED BY <3>1, <3>2 DEF Answered
  <2> QED BY <1>1, <2>5, <2>9, <2>10, <2>11 DEF IInv, Counted
<1>11. CASE Meeting(HasACK) = {} /\ PutBack(AwaitsACK, k) /\ UNCHANGED <<queue, acked>>
  <2>1. N("has_ACK") = 0
    <3>1. In(queue, stat, "has_ACK") = {}
      BY <1>11, MeetingPhase
    <3> QED BY <3>1, QueueFinite, NumPositive DEF N
  <2>2. /\ \E i \in Int : timers' = Set("A", Rest("A", k), i, "back_off")
        /\ \A S : CountA("wait_ACK", W, S)'
             = CountA("wait_ACK", W, S) - Hit("wait_ACK", now, "wait_ACK", W, S)
        /\ \A call \in Waits \ {"wait_ACK", "back_off"} : \A d, S :
             CountA(call, d, S)' = CountA(call, d, S)
        /\ CountA("back_off", 0, Int)' = CountA("back_off", 0, Int) + 1
        /\ N("backed_off")' = N("backed_off") + 1
        /\ N("awaits_ACK")' = N("awaits_ACK") - 1
        /\ \A ph \in Phases \ {"awaits_ACK", "backed_off"} : N(ph)' = N(ph)
    <3>1. PutBack(AwaitsACK, k)
      BY <1>11
    <3>2. UNCHANGED <<arrival, arrived, queue, acked>>
      BY <1>1, <1>11
    <3> QED BY <1>1, <3>1, <3>2, PutBackSteps
  <2>3. /\ \A d, S : /\ CountA("DATA", d, S)' = CountA("DATA", d, S)
                     /\ CountA("wait_CTS", d, S)' = CountA("wait_CTS", d, S)
                     /\ CountA("RTS", d, S)' = CountA("RTS", d, S)
        /\ N("has_CTS")' = N("has_CTS") /\ N("awaits_CTS")' = N("awaits_CTS")
        /\ N("has_ACK")' = N("has_ACK")
    BY <2>2 DEF Waits, Phases
  <2>4. Timely' /\ timers'["B"] = timers["B"]
    BY <1>1, <2>2, WaitEndsTimely
  <2>5. \A q, S : Flying(q, S)' = Flying(q, S)
    BY <2>4, <1>9
  <2>6. Balance'
    <3>1. /\ CountA("wait_ACK", W, Int)' = CountA("wait_ACK", W, Int) - 1
          /\ CountA("back_off", 0, Int)' = CountA("back_off", 0, Int) + 1
          /\ N("backed_off")' = N("backed_off") + 1
          /\ N("awaits_ACK")' = N("awaits_ACK") - 1
      BY <1>4, <2>2
    <3>2. /\ CountA("RTS", 0, Int)' = CountA("RTS", 0, Int)
          /\ CountA("wait_CTS", W, Int)' = CountA("wait_CTS", W, Int)
          /\ CountA("DATA", P2, Int)' = CountA("DATA", P2, Int)
      BY <2>3
    <3> QED BY <1>2, <1>5, <2>3, <3>1, <3>2 DEF Balance
  <2>7. \A S \in SUBSET Int : Flying("DATA", S)' <= CountA("wait_ACK", W, S)'
    BY <1>3, <2>2, <2>5
  <2>8. Matched'
    BY <2>3, <2>5, <2>7 DEF IInv, Counted, Matched
  <2>9. Answered'
    <3>1. \A S \in SUBSET Int :
            N("has_CTS")' + Flying("RTS", S)'
              <= CountA("DATA", P2, Int \ S)' + CountA("wait_CTS", W, S)'
      BY <1>6, <2>3, <2>5
    <3>2. N("has_ACK")' + Flying("DATA", Int)' <= CountA("wait_ACK", W, Int)'
      <4>1. Flying("DATA", Int)' <= CountA("wait_ACK", W, Int)' /\ N("has_ACK")' = 0
        BY <2>1, <2>3, <2>7
      <4>2. Flying("DATA", Int)' \in Nat /\ Flying("DATA", Int)' = Flying("DATA", Int)
        BY <1>2, <2>5
      <4> QED BY <4>1, <4>2
    <3> QED BY <3>1, <3>2 DEF Answered
  <2> QED BY <1>1, <2>4, <2>6, <2>8, <2>9 DEF IInv, Counted
<1>12. ~ (Meeting(HasACK) = {} /\ Meeting(AwaitsACK) = {})
  BY <1>1, HandlersFind
<1> QED BY <1>8, <1>10, <1>11, <1>12

----------------------------------------------------------------------------
(***************************************************************************)
(* The data, two propagation delays after the RTS.                         *)
(***************************************************************************)
LEMMA SendDataIInv ==
  ASSUME TInv, TInv', IInv, NoWrap, NEW k \in DOMAIN timers["A"], SendData(k)
  PROVE  IInv'
<1> DEFINE W == WAIT_FB_TIME
           P2 == 2 * MAX_PROP_DELAY
           o == now - P2
<1>1. /\ timers["A"][k].call = "DATA" /\ timers["A"][k].at = now
      /\ UNCHANGED <<now, queue, stat, pc, frame>>
  BY DEF SendData, Runs, First, Due, queueVars, mainVars
<1>2. /\ now \in Nat /\ o \in Int /\ P2 \in Int /\ W \in Nat
      /\ At(W) \in Nat /\ At(W) = now + W /\ W \in Int
  <2>1. W \in 0 .. (TIME_WHEEL_SIZE - 1) /\ W \in Nat /\ now \in Nat /\ P2 \in Int
    BY WaitsAssumption, TimesAssumption DEF TInv, Typed, PacketsTyped
  <2> QED BY <2>1, AtType
<1>3. /\ \A call, d, S : CountA(call, d, S) \in Nat
      /\ \A q, S : Flying(q, S) \in Nat /\ Flying(q, S)' \in Nat
      /\ \A ph : N(ph) \in Nat
  BY CountsType, FlyingTypeNext
<1>4. \A S \in SUBSET Int :
        N("has_CTS") + Flying("RTS", S)
          <= CountA("DATA", P2, Int \ S) + CountA("wait_CTS", W, S)
  BY DEF IInv, Counted, Answered
\* The right side of Answered, without the timer that is due.
<1>5. ASSUME NEW S \in SUBSET Int
      PROVE  N("has_CTS") + Flying("RTS", S)
               <= CountA("DATA", P2, Int \ S) - Hit("DATA", now, "DATA", P2, Int \ S)
                    + CountA("wait_CTS", W, S)
  <2>1. CASE o \in S
    <3>1. Hit("DATA", now, "DATA", P2, Int \ S) = 0
      BY <2>1 DEF Hit
    <3>2. CountA("DATA", P2, Int \ S) \in Nat
      BY <1>3
    <3> QED BY <3>1, <3>2, <1>4
  <2>2. CASE o \notin S
    <3> DEFINE T == S \cup {o}
    <3>1. N("has_CTS") + Flying("RTS", T)
            <= CountA("DATA", P2, Int \ T) + CountA("wait_CTS", W, T)
      <4>1. T \in SUBSET Int
        BY <1>2
      <4> HIDE DEF T
      <4> QED BY <4>1, <1>4
    <3>2. CountA("wait_CTS", W, T) = CountA("wait_CTS", W, S)
      BY NoWaitThatLong
    <3>3. CountA("DATA", P2, Int \ T) <= CountA("DATA", P2, Int \ S) - 1
      BY <1>1, <2>2, DataIsDue
    <3>4. Flying("RTS", S) <= Flying("RTS", T)
      BY FlyingMonotone
    <3>5. Hit("DATA", now, "DATA", P2, Int \ S) = 1
      BY <1>2, <2>2 DEF Hit
    <3>6. /\ Flying("RTS", S) \in Nat /\ Flying("RTS", T) \in Nat /\ N("has_CTS") \in Nat
          /\ CountA("DATA", P2, Int \ T) \in Nat /\ CountA("DATA", P2, Int \ S) \in Nat
          /\ CountA("wait_CTS", W, S) \in Nat
      BY <1>3
    <3> HIDE DEF T, P2, W
    <3> QED BY <3>1, <3>2, <3>3, <3>4, <3>5, <3>6
  <2> QED BY <2>1, <2>2
<1>6. Meeting(MaySendData) # {}
  BY <1>1, HandlersFind
<1>7. PICK p : Write("A", "DATA", p) /\ timers' = Set("A", Rest("A", k), W, "wait_ACK")
  BY <1>6 DEF SendData
<1>8. "wait_ACK" \in Calls("A") /\ "wait_ACK" \notin Sleeps
      /\ timers["A"][k].call \notin Sleeps /\ "A" \in Peer
  BY <1>1, TwoPeers DEF Calls, Sleeps
<1>9. /\ timers'["B"] = timers["B"]
      /\ \A call, d, S : CountA(call, d, S)'
           = CountA(call, d, S) - Hit("DATA", now, call, d, S)
               + Hit("wait_ACK", At(W), call, d, S)
  BY <1>1, <1>2, <1>7, <1>8, RunOver
<1>10. /\ cell'["A"] = cell["A"] /\ cell'["B"].tmv_stmp = now
       /\ \A q \in Frames : \A S \in SUBSET Int :
            Flying(q, S)' <= Flying(q, S) + Hit("DATA", now, q, 0, S)
  <2>1. "DATA" \in Frames
    BY DEF Frames
  <2>2. UNCHANGED <<pc, frame>>
    BY <1>1
  <2> QED BY <2>1, <2>2, <1>7, <1>9, WriteFlying
<1>11. Timely'
  <2>1. Quiet("A") /\ Quiet("B")
    BY <1>2, <1>7, <1>8, <1>9, QuietReset, QuietSame
  <2>2. \A n \in Peer : /\ Quiet(n) /\ frame'[n] = frame[n] /\ pc'[n] = pc[n]
                        /\ cell'[n] \in {cell[n], NoFrame} \/ cell'[n].tmv_stmp = now
    BY <1>1, <1>10, <2>1 DEF Peer
  <2> QED BY <1>1, <2>2, TimelyKept DEF IInv
<1>12. \A ph : N(ph)' = N(ph)
  BY <1>1, NumbersSame
<1>13. ASSUME NEW d, NEW S
       PROVE  /\ CountA("wait_CTS", d, S)' = CountA("wait_CTS", d, S)
              /\ CountA("RTS", d, S)' = CountA("RTS", d, S)
              /\ CountA("back_off", d, S)' = CountA("back_off", d, S)
  <2>1. ASSUME NEW call \in {"wait_CTS", "RTS", "back_off"}
        PROVE  CountA(call, d, S)' = CountA(call, d, S)
    <3>1. Hit("DATA", now, call, d, S) = 0 /\ Hit("wait_ACK", At(W), call, d, S) = 0
      BY DEF Hit
    <3> QED BY <3>1, <1>3, <1>9
  <2> QED BY <2>1
<1>14. ASSUME NEW S
       PROVE  /\ CountA("DATA", P2, S)'
                   = CountA("DATA", P2, S) - Hit("DATA", now, "DATA", P2, S)
              /\ CountA("wait_ACK", W, S)'
                   = CountA("wait_ACK", W, S) + (IF now \in S THEN 1 ELSE 0)
  <2>1. Hit("wait_ACK", At(W), "DATA", P2, S) = 0 /\ Hit("DATA", now, "wait_ACK", W, S) = 0
    BY DEF Hit
  <2>2. Hit("wait_ACK", At(W), "wait_ACK", W, S) = IF now \in S THEN 1 ELSE 0
    <3>1. At(W) - W = now
      BY <1>2
    <3> QED BY <3>1 DEF Hit
  <2>3. Hit("DATA", now, "DATA", P2, S) \in Nat
    BY DEF Hit
  <2> QED BY <2>1, <2>2, <2>3, <1>3, <1>9
<1>15. ASSUME NEW S \in SUBSET Int
       PROVE  /\ Flying("RTS", S)' <= Flying("RTS", S)
              /\ Flying("DATA", S)' <= Flying("DATA", S) + (IF now \in S THEN 1 ELSE 0)
  <2>1. /\ Hit("DATA", now, "RTS", 0, S) = 0
        /\ Hit("DATA", now, "DATA", 0, S) = IF now \in S THEN 1 ELSE 0
    <3>1. now - 0 = now
      BY <1>2
    <3> QED BY <3>1 DEF Hit
  <2>2. "RTS" \in Frames /\ "DATA" \in Frames
    BY DEF Frames
  <2> QED BY <2>1, <2>2, <1>3, <1>10
<1>16. Balance'
  <2>1. Hit("DATA", now, "DATA", P2, Int) = 1 /\ now \in Int
    BY <1>2 DEF Hit
  <2>2. /\ CountA("DATA", P2, Int)' = CountA("DATA", P2, Int) - 1
        /\ CountA("wait_ACK", W, Int)' = CountA("wait_ACK", W, Int) + 1
    BY <2>1, <1>14
  <2> QED BY <2>2, <1>3, <1>12, <1>13 DEF IInv, Counted, Balance
<1>17. Matched'
  <2> SUFFICES ASSUME NEW S \in SUBSET Int
               PROVE  /\ Flying("RTS", S)' <= CountA("wait_CTS", W, S)'
                      /\ Flying("DATA", S)' <= CountA("wait_ACK", W, S)'
    BY DEF Matched
  <2>1. /\ Flying("RTS", S) <= CountA("wait_CTS", W, S)
        /\ Flying("DATA", S) <= CountA("wait_ACK", W, S)
    BY DEF IInv, Counted, Matched
  <2> QED BY <2>1, <1>3, <1>13, <1>14, <1>15
<1>18. Answered'
  <2>1. ASSUME NEW S \in SUBSET Int
        PROVE  N("has_CTS")' + Flying("RTS", S)'
                 <= CountA("DATA", P2, Int \ S)' + CountA("wait_CTS", W, S)'
    <3>1. N("has_CTS")' = N("has_CTS") /\ Flying("RTS", S)' <= Flying("RTS", S)
      BY <1>12, <1>15
    <3>2. /\ CountA("DATA", P2, Int \ S)'
               = CountA("DATA", P2, Int \ S) - Hit("DATA", now, "DATA", P2, Int \ S)
          /\ CountA("wait_CTS", W, S)' = CountA("wait_CTS", W, S)
      BY <1>13, <1>14
    <3>3. Hit("DATA", now, "DATA", P2, Int \ S) \in Nat
      BY DEF Hit
    <3>4. /\ N("has_CTS") \in Nat /\ Flying("RTS", S) \in Nat /\ Flying("RTS", S)' \in Nat
          /\ CountA("DATA", P2, Int \ S) \in Nat /\ CountA("wait_CTS", W, S) \in Nat
      BY <1>3
    <3> HIDE DEF P2, W
    <3> QED BY <3>1, <3>2, <3>3, <3>4, <1>5
  <2>2. N("has_ACK")' + Flying("DATA", Int)' <= CountA("wait_ACK", W, Int)'
    <3>1. N("has_ACK") + Flying("DATA", Int) <= CountA("wait_ACK", W, Int)
      BY DEF IInv, Counted, Answered
    <3>2. now \in Int /\ Int \in SUBSET Int
      BY <1>2
    <3> QED BY <3>1, <3>2, <1>3, <1>12, <1>14, <1>15
  <2> QED BY <2>1, <2>2 DEF Answered
<1> QED BY <1>1, <1>11, <1>16, <1>17, <1>18 DEF IInv, Counted

----------------------------------------------------------------------------
(***************************************************************************)
(* The answers.  An answer in hand is counted, so a packet waits for it.   *)
(***************************************************************************)
LEMMA AnswerTaken ==
  ASSUME TInv, TInv', NEW q \in Frames, frame["A"].type = Reply(q), pc["A"] # "poll",
         pc' = [pc EXCEPT !["A"] = "poll"], timers'["B"] = timers["B"],
         UNCHANGED <<cell, frame>>
  PROVE  \A S : /\ Flying(q, S)' = Flying(q, S)
                     - (IF frame["A"].tmv_stmp - MAX_PROP_DELAY \in S THEN 1 ELSE 0)
                /\ \A r \in Frames \ {q} : Flying(r, S)' = Flying(r, S)
<1> DEFINE P == MAX_PROP_DELAY
<1>1. pc'["A"] = "poll" /\ pc'["B"] = pc["B"]
  BY TwoPeers DEF TInv, Typed, MainTyped
<1>2. ASSUME NEW r \in Frames, NEW S
      PROVE  Flying(r, S)' = Flying(r, S) - InHand("A", Reply(r), P, S)
  <2>1. InHand("A", Reply(r), P, S)' = 0
    BY <1>1 DEF InHand
  <2>2. /\ InCell("B", r, 0, S)' = InCell("B", r, 0, S)
        /\ InHand("B", r, 0, S)' = InHand("B", r, 0, S)
        /\ Count(timers["B"], Reply(r), P, S)' = Count(timers["B"], Reply(r), P, S)
        /\ InCell("A", Reply(r), P, S)' = InCell("A", Reply(r), P, S)
    BY <1>1, PartsSame
  <2>3. /\ InCell("B", r, 0, S) \in Nat /\ InHand("B", r, 0, S) \in Nat
        /\ Count(timers["B"], Reply(r), P, S) \in Nat
        /\ InCell("A", Reply(r), P, S) \in Nat /\ InHand("A", Reply(r), P, S) \in Nat
    BY FlyingType
  <2> QED BY <2>1, <2>2, <2>3 DEF Flying
<1>3. \A S : InHand("A", Reply(q), P, S) = IF frame["A"].tmv_stmp - P \in S THEN 1 ELSE 0
  BY DEF InHand, Hit
<1>4. ASSUME NEW r \in Frames \ {q}, NEW S
      PROVE  Flying(r, S)' = Flying(r, S)
  <2>1. Reply(r) # Reply(q)
    BY DEF Frames, Reply
  <2>2. InHand("A", Reply(r), P, S) = 0
    BY <2>1 DEF InHand, Hit
  <2>3. Flying(r, S) \in Nat
    BY CountsType
  <2> QED BY <2>2, <2>3, <1>2
<1> QED BY <1>2, <1>3, <1>4

LEMMA AnswerFlies ==
  ASSUME TInv, NEW q \in Frames, frame["A"].type = Reply(q), pc["A"] # "poll"
  PROVE  frame["A"].tmv_stmp - MAX_PROP_DELAY \in Int /\ Flying(q, Int) >= 1
<1>1. frame["A"].tmv_stmp - MAX_PROP_DELAY \in Int
  BY TwoPeers, IntervalIsInt, TimesAssumption
<1>2. InHand("A", Reply(q), MAX_PROP_DELAY, Int) = 1
  BY <1>1 DEF InHand, Hit
<1>3. /\ InCell("B", q, 0, Int) \in Nat /\ InHand("B", q, 0, Int) \in Nat
      /\ Count(timers["B"], Reply(q), MAX_PROP_DELAY, Int) \in Nat
      /\ InCell("A", Reply(q), MAX_PROP_DELAY, Int) \in Nat
  BY FlyingType
<1> QED BY <1>1, <1>2, <1>3 DEF Flying

\* A packet waits for a CTS or an ACK that has come.
LEMMA AnswerAwaited ==
  ASSUME TInv, IInv, pc["A"] # "poll"
  PROVE  /\ frame["A"].type = "CTS" => Meeting(AwaitsCTS) # {}
         /\ frame["A"].type = "ACK" => Meeting(AwaitsACK) # {}
<1> DEFINE W == WAIT_FB_TIME
           P2 == 2 * MAX_PROP_DELAY
<1>1. /\ \A call, d, S : CountA(call, d, S) \in Nat
      /\ \A q, S : Flying(q, S) \in Nat
      /\ \A ph : N(ph) \in Nat
  BY CountsType
<1>2. "RTS" \in Frames /\ "DATA" \in Frames /\ Reply("RTS") = "CTS" /\ Reply("DATA") = "ACK"
  BY DEF Frames, Reply
<1>3. /\ CountA("wait_CTS", W, Int) + CountA("RTS", 0, Int)
           = N("has_CTS") + N("awaits_CTS")
      /\ CountA("wait_ACK", W, Int) + CountA("DATA", P2, Int)
           = N("has_CTS") + N("awaits_ACK") + N("has_ACK")
  BY DEF IInv, Counted, Balance
<1>4. ASSUME NEW S \in SUBSET Int
      PROVE  N("has_CTS") + Flying("RTS", S)
               <= CountA("DATA", P2, Int \ S) + CountA("wait_CTS", W, S)
  BY DEF IInv, Counted, Answered
<1>5. ASSUME frame["A"].type = "CTS"
      PROVE  Meeting(AwaitsCTS) # {}
  <2>1. Flying("RTS", Int) >= 1
    BY <1>2, <1>5, AnswerFlies
  <2>2. N("has_CTS") + Flying("RTS", Int)
          <= CountA("DATA", P2, {}) + CountA("wait_CTS", W, Int)
    <3>1. Int \in SUBSET Int /\ Int \ Int = {}
      OBVIOUS
    <3>2. N("has_CTS") + Flying("RTS", Int)
            <= CountA("DATA", P2, Int \ Int) + CountA("wait_CTS", W, Int)
      BY <3>1, <1>4
    <3> QED BY <3>1, <3>2
  <2>3. CountA("DATA", P2, {}) = 0
    BY NoneOfNoTime
  <2>4. N("awaits_CTS") # 0
    BY <1>1, <1>3, <2>1, <2>2, <2>3
  <2>5. In(queue, stat, "awaits_CTS") # {}
    BY <2>4, QueueFinite, NumPositive DEF N
  <2> QED BY <2>5, MeetingPhase
<1>6. ASSUME frame["A"].type = "ACK"
      PROVE  Meeting(AwaitsACK) # {}
  <2>1. Flying("DATA", Int) >= 1
    BY <1>2, <1>6, AnswerFlies
  <2>2. N("has_CTS") + Flying("RTS", {})
          <= CountA("DATA", P2, Int) + CountA("wait_CTS", W, {})
    <3>1. {} \in SUBSET Int /\ Int \ {} = Int
      OBVIOUS
    <3>2. N("has_CTS") + Flying("RTS", {})
            <= CountA("DATA", P2, Int \ {}) + CountA("wait_CTS", W, {})
      BY <3>1, <1>4
    <3> QED BY <3>1, <3>2
  <2>3. CountA("wait_CTS", W, {}) = 0
    BY NoneOfNoTime
  <2>4. N("has_ACK") + Flying("DATA", Int) <= CountA("wait_ACK", W, Int)
    BY DEF IInv, Counted, Answered
  <2>5. N("awaits_ACK") # 0
    BY <1>1, <1>3, <2>1, <2>2, <2>3, <2>4
  <2>6. In(queue, stat, "awaits_ACK") # {}
    BY <2>5, QueueFinite, NumPositive DEF N
  <2> QED BY <2>6, MeetingPhase
<1> QED BY <1>5, <1>6

LEMMA AnswerTimely ==
  ASSUME TInv, TInv', IInv, Learn, Quiet("A"), timers'["B"] = timers["B"],
         pc' = [pc EXCEPT !["A"] = "poll"], UNCHANGED <<now, cell, frame>>
  PROVE  Timely'
<1>1. pc["A"] = "rx_awake" /\ cell["A"] = NoFrame
  BY DEF Learn
<1>2. pc'["A"] = "poll" /\ pc'["B"] = pc["B"]
  BY TwoPeers DEF TInv, Typed, MainTyped
<1>3. Quiet("B")
  BY QuietSame
<1>4. \A n \in Peer :
        /\ Quiet(n) /\ frame'[n] = frame[n]
        /\ \/ /\ pc'[n] = pc[n]
              /\ cell'[n] \in {cell[n], NoFrame} \/ cell'[n].tmv_stmp = now
           \/ /\ pc[n] \in {"rx_awake", "tx_awake"} /\ pc'[n] = "poll"
              /\ cell'[n] \in {cell[n], NoFrame} /\ Since(cell'[n], now - Slack(n))
  BY <1>1, <1>2, <1>3 DEF Peer, Since
<1> QED BY <1>4, TimelyKept DEF IInv

LEMMA ProcCTSIInv ==
  ASSUME TInv, TInv', IInv, NoWrap, ProcCTS
  PROVE  IInv'
<1> DEFINE W == WAIT_FB_TIME
           P2 == 2 * MAX_PROP_DELAY
           o == frame["A"].tmv_stmp - MAX_PROP_DELAY
<1>1. /\ Learn /\ pc["A"] = "rx_awake" /\ frame["A"].type = "CTS"
      /\ timers' = Set("A", timers["A"], Interval("A"), "DATA")
      /\ UNCHANGED <<now, queue, cell, frame>>
  BY DEF ProcCTS, Learn
<1>2. "RTS" \in Frames /\ "DATA" \in Frames /\ Reply("RTS") = "CTS" /\ "DATA" # "RTS"
  BY DEF Frames, Reply
<1>3. Meeting(AwaitsCTS) # {}
  BY <1>1, AnswerAwaited
<1>4. PICK p \in Meeting(AwaitsCTS) :
        Change(p, RecordCTS) /\ pc' = [pc EXCEPT !["A"] = "poll"]
  BY <1>3 DEF ProcCTS, Recorded
<1>5. p \in queue /\ VectorOK(stat[p]) /\ Phase(stat[p]) = "awaits_CTS"
  BY MeetingPhase, InPhase
<1>6. \A ph : /\ N(ph)' = N(ph) - Is("awaits_CTS", ph) + Is("has_CTS", ph)
              /\ N(ph) \in Nat /\ N(ph)' \in Int
  <2>1. /\ Phase(stat'[p]) = "has_CTS" /\ \A r \in queue : r # p => stat'[r] = stat[r]
    BY <1>4, <1>5, AssignmentPhase, QueueFinite DEF Change
  <2> QED BY <1>1, <1>5, <2>1, PhaseChange
<1>7. /\ N("awaits_CTS")' = N("awaits_CTS") - 1 /\ N("has_CTS")' = N("has_CTS") + 1
      /\ N("awaits_ACK")' = N("awaits_ACK") /\ N("has_ACK")' = N("has_ACK")
      /\ N("backed_off")' = N("backed_off")
  BY <1>6 DEF Is
<1>8. Interval("A") \in Int /\ At(Interval("A")) - P2 = o /\ o \in Int
  <2>1. "A" \in Peer /\ frame["A"].tmv_stmp \in Nat /\ Interval("A") \in Int
    BY TwoPeers, IntervalIsInt
  <2>2. At(Interval("A")) = frame["A"].tmv_stmp + MAX_PROP_DELAY
    BY <1>1, <2>1, IntervalInWheel DEF IInv
  <2> QED BY <2>1, <2>2, TimesAssumption
<1>9. "DATA" \in Calls("A") /\ "DATA" \notin Sleeps /\ "A" \in Peer
  BY TwoPeers DEF Calls, Sleeps
<1>10. /\ timers'["B"] = timers["B"]
       /\ \A call, d, S : CountA(call, d, S)'
            = CountA(call, d, S) + Hit("DATA", At(Interval("A")), call, d, S)
  BY <1>1, <1>8, <1>9, CountSet, TwoPeers DEF CountA
<1>11. Timely'
  <2>1. Quiet("A")
    BY <1>1, <1>8, <1>9, QuietSet
  <2> QED BY <2>1, <1>1, <1>4, <1>10, AnswerTimely
<1>12. \A S : /\ Flying("RTS", S)' = Flying("RTS", S) - (IF o \in S THEN 1 ELSE 0)
              /\ Flying("DATA", S)' = Flying("DATA", S)
  <2>1. pc["A"] # "poll" /\ UNCHANGED <<cell, frame>>
    BY <1>1
  <2>2. \A S : /\ Flying("RTS", S)' = Flying("RTS", S) - (IF o \in S THEN 1 ELSE 0)
               /\ \A r \in Frames \ {"RTS"} : Flying(r, S)' = Flying(r, S)
    BY <2>1, <1>1, <1>2, <1>4, <1>10, AnswerTaken
  <2> QED BY <2>2, <1>2
<1>13. /\ \A call, d, S : CountA(call, d, S) \in Nat
       /\ \A q, S : Flying(q, S) \in Nat
       /\ \A ph : N(ph) \in Nat
  BY CountsType
<1>14. ASSUME NEW d, NEW S
       PROVE  /\ CountA("wait_CTS", d, S)' = CountA("wait_CTS", d, S)
              /\ CountA("wait_ACK", d, S)' = CountA("wait_ACK", d, S)
              /\ CountA("RTS", d, S)' = CountA("RTS", d, S)
              /\ CountA("back_off", d, S)' = CountA("back_off", d, S)
  <2>1. ASSUME NEW call \in {"wait_CTS", "wait_ACK", "RTS", "back_off"}
        PROVE  CountA(call, d, S)' = CountA(call, d, S)
    <3>1. Hit("DATA", At(Interval("A")), call, d, S) = 0
      BY DEF Hit
    <3> QED BY <3>1, <1>10, <1>13
  <2> QED BY <2>1
<1>15. \A S : CountA("DATA", P2, S)' = CountA("DATA", P2, S) + (IF o \in S THEN 1 ELSE 0)
  <2>1. ASSUME NEW S
        PROVE  Hit("DATA", At(Interval("A")), "DATA", P2, S) = IF o \in S THEN 1 ELSE 0
    <3> HIDE DEF o
    <3> QED BY <1>8 DEF Hit
  <2> QED BY <2>1, <1>10
<1>16. Balance'
  <2>1. CountA("DATA", P2, Int)' = CountA("DATA", P2, Int) + 1
    BY <1>8, <1>15
  <2> QED BY <2>1, <1>7, <1>13, <1>14 DEF IInv, Counted, Balance
<1>17. Matched'
  <2> SUFFICES ASSUME NEW S \in SUBSET Int
               PROVE  /\ Flying("RTS", S)' <= CountA("wait_CTS", W, S)'
                      /\ Flying("DATA", S)' <= CountA("wait_ACK", W, S)'
    BY DEF Matched
  <2>1. /\ Flying("RTS", S) <= CountA("wait_CTS", W, S)
        /\ Flying("DATA", S) <= CountA("wait_ACK", W, S)
    BY DEF IInv, Counted, Matched
  <2> QED BY <2>1, <1>12, <1>13, <1>14
<1>18. Answered'
  <2>1. ASSUME NEW S \in SUBSET Int
        PROVE  N("has_CTS")' + Flying("RTS", S)'
                 <= CountA("DATA", P2, Int \ S)' + CountA("wait_CTS", W, S)'
    <3>1. N("has_CTS") + Flying("RTS", S)
            <= CountA("DATA", P2, Int \ S) + CountA("wait_CTS", W, S)
      BY DEF IInv, Counted, Answered
    <3>2. /\ CountA("DATA", P2, Int \ S)'
               = CountA("DATA", P2, Int \ S) + (IF o \in S THEN 0 ELSE 1)
          /\ CountA("wait_CTS", W, S)' = CountA("wait_CTS", W, S)
      <4>1. o \in Int \ S <=> o \notin S
        BY <1>8
      <4> QED BY <4>1, <1>14, <1>15
    <3>3. /\ N("has_CTS") \in Nat /\ Flying("RTS", S) \in Nat
          /\ CountA("DATA", P2, Int \ S) \in Nat /\ CountA("wait_CTS", W, S) \in Nat
      BY <1>13
    <3>4. Flying("RTS", S)' = Flying("RTS", S) - (IF o \in S THEN 1 ELSE 0)
      BY <1>12
    <3> HIDE DEF o, P2, W
    <3> QED BY <3>1, <3>2, <3>3, <3>4, <1>7
  <2>2. N("has_ACK")' + Flying("DATA", Int)' <= CountA("wait_ACK", W, Int)'
    BY <1>7, <1>12, <1>14 DEF IInv, Counted, Answered
  <2> QED BY <2>1, <2>2 DEF Answered
<1>19. pc'["A"] # "exited"
  BY <1>4, TwoPeers DEF TInv, Typed, MainTyped
<1> QED BY <1>11, <1>16, <1>17, <1>18, <1>19 DEF IInv, Counted

LEMMA ProcACKIInv ==
  ASSUME TInv, TInv', IInv, ProcACK
  PROVE  IInv'
<1> DEFINE o == frame["A"].tmv_stmp - MAX_PROP_DELAY
<1>1. /\ Learn /\ pc["A"] = "rx_awake" /\ frame["A"].type = "ACK"
      /\ UNCHANGED <<now, queue, timers, cell, frame>>
  BY DEF ProcACK, Learn
<1>2. "RTS" \in Frames /\ "DATA" \in Frames /\ Reply("DATA") = "ACK" /\ "DATA" # "RTS"
  BY DEF Frames, Reply
<1>3. Meeting(AwaitsACK) # {}
  BY <1>1, AnswerAwaited
<1>4. PICK p \in Meeting(AwaitsACK) :
        Change(p, RecordACK) /\ pc' = [pc EXCEPT !["A"] = "poll"]
  BY <1>3 DEF ProcACK, Recorded
<1>5. p \in queue /\ VectorOK(stat[p]) /\ Phase(stat[p]) = "awaits_ACK"
  BY MeetingPhase, InPhase
<1>6. \A ph : /\ N(ph)' = N(ph) - Is("awaits_ACK", ph) + Is("has_ACK", ph)
              /\ N(ph) \in Nat /\ N(ph)' \in Int
  <2>1. /\ Phase(stat'[p]) = "has_ACK" /\ \A r \in queue : r # p => stat'[r] = stat[r]
    BY <1>4, <1>5, AssignmentPhase, QueueFinite DEF Change
  <2> QED BY <1>1, <1>5, <2>1, PhaseChange
<1>7. /\ N("awaits_ACK")' = N("awaits_ACK") - 1 /\ N("has_ACK")' = N("has_ACK") + 1
      /\ N("awaits_CTS")' = N("awaits_CTS") /\ N("has_CTS")' = N("has_CTS")
      /\ N("backed_off")' = N("backed_off")
  BY <1>6 DEF Is
<1>8. timers'["A"] = timers["A"] /\ timers'["B"] = timers["B"]
  BY <1>1
<1>9. Timely'
  <2>1. Quiet("A")
    BY <1>8, QuietSame
  <2> QED BY <2>1, <1>1, <1>4, <1>8, AnswerTimely
<1>10. \A S : /\ Flying("DATA", S)' = Flying("DATA", S) - (IF o \in S THEN 1 ELSE 0)
              /\ Flying("RTS", S)' = Flying("RTS", S)
  <2>1. pc["A"] # "poll" /\ UNCHANGED <<cell, frame>>
    BY <1>1
  <2>2. \A S : /\ Flying("DATA", S)' = Flying("DATA", S) - (IF o \in S THEN 1 ELSE 0)
               /\ \A r \in Frames \ {"DATA"} : Flying(r, S)' = Flying(r, S)
    BY <2>1, <1>1, <1>2, <1>4, <1>8, AnswerTaken
  <2> QED BY <2>2, <1>2
<1>11. o \in Int
  BY <1>1, <1>2, AnswerFlies
<1>12. /\ \A call, d, S : CountA(call, d, S) \in Nat
       /\ \A q, S : Flying(q, S) \in Nat
       /\ \A ph : N(ph) \in Nat
  BY CountsType
<1>13. \A call, d, S : CountA(call, d, S)' = CountA(call, d, S)
  BY <1>8 DEF CountA
<1>14. Balance'
  BY <1>7, <1>12, <1>13 DEF IInv, Counted, Balance
<1>15. Matched'
  <2> SUFFICES ASSUME NEW S \in SUBSET Int
               PROVE  /\ Flying("RTS", S)' <= CountA("wait_CTS", WAIT_FB_TIME, S)'
                      /\ Flying("DATA", S)' <= CountA("wait_ACK", WAIT_FB_TIME, S)'
    BY DEF Matched
  <2>1. /\ Flying("RTS", S) <= CountA("wait_CTS", WAIT_FB_TIME, S)
        /\ Flying("DATA", S) <= CountA("wait_ACK", WAIT_FB_TIME, S)
    BY DEF IInv, Counted, Matched
  <2> QED BY <2>1, <1>10, <1>12, <1>13
<1>16. Answered'
  <2>1. Flying("DATA", Int)' = Flying("DATA", Int) - 1
    BY <1>10, <1>11
  <2>2. N("has_ACK")' + Flying("DATA", Int)' <= CountA("wait_ACK", WAIT_FB_TIME, Int)'
    BY <2>1, <1>7, <1>12, <1>13 DEF IInv, Counted, Answered
  <2>3. \A S \in SUBSET Int :
          N("has_CTS")' + Flying("RTS", S)'
            <= CountA("DATA", 2 * MAX_PROP_DELAY, Int \ S)'
                 + CountA("wait_CTS", WAIT_FB_TIME, S)'
    BY <1>7, <1>10, <1>13 DEF IInv, Counted, Answered
  <2> QED BY <2>2, <2>3 DEF Answered
<1>17. pc'["A"] # "exited"
  BY <1>4, TwoPeers DEF TInv, Typed, MainTyped
<1> QED BY <1>9, <1>14, <1>15, <1>16, <1>17 DEF IInv, Counted

----------------------------------------------------------------------------
(***************************************************************************)
(* All steps.                                                              *)
(***************************************************************************)
LEMMA InitIInv == Init => IInv
<1> SUFFICES ASSUME Init
             PROVE  IInv
  OBVIOUS
<1>1. /\ queue = {} /\ pc["A"] = "poll" /\ pc["B"] = "poll"
      /\ timers["A"] = <<>> /\ timers["B"] = <<>>
      /\ cell["A"] = NoFrame /\ cell["B"] = NoFrame
      /\ frame["A"] = NoFrame /\ frame["B"] = NoFrame
  BY DEF Init
<1>2. now \in Nat
  BY InitTInv DEF TInv, Typed, PacketsTyped
<1>3. \A call, d, S : Count(<<>>, call, d, S) = 0
  <2>1. ASSUME NEW call, NEW d, NEW S
        PROVE  Count(<<>>, call, d, S) = 0
    <3>1. Places(<<>>, call, d, S) = {}
      BY DEF Places
    <3> QED BY <3>1, FS_EmptySet DEF Count
  <2> QED BY <2>1
<1>4. \A ph : N(ph) = 0
  <2>1. ASSUME NEW ph
        PROVE  N(ph) = 0
    <3>1. In(queue, stat, ph) = {}
      BY <1>1 DEF In
    <3> QED BY <3>1, FS_EmptySet DEF N, Num
  <2> QED BY <2>1
<1>5. ASSUME NEW q \in Frames, NEW S
      PROVE  Flying(q, S) = 0
  <2>1. NoFrame.type # q /\ NoFrame.type # Reply(q)
    BY FramesReplies DEF NoFrame
  <2>2. /\ InCell("B", q, 0, S) = 0 /\ InHand("B", q, 0, S) = 0
        /\ InCell("A", Reply(q), MAX_PROP_DELAY, S) = 0
        /\ InHand("A", Reply(q), MAX_PROP_DELAY, S) = 0
    BY <1>1, <2>1 DEF InCell, InHand, Hit
  <2> QED BY <2>2, <1>1, <1>3 DEF Flying
<1>6. Counted
  <2>1. "RTS" \in Frames /\ "DATA" \in Frames
    BY DEF Frames
  <2>2. \A call, d, S : CountA(call, d, S) = 0
    BY <1>1, <1>3 DEF CountA
  <2> QED BY <2>1, <2>2, <1>4, <1>5 DEF Counted, Balance, Matched, Answered
<1>7. Timely
  <2>1. \A n \in Peer : timers[n] = <<>> /\ pc[n] = "poll" /\ cell[n] = NoFrame
                        /\ frame[n] = NoFrame
    BY <1>1 DEF Peer
  <2>2. NotOverdue
    BY <2>1 DEF NotOverdue
  <2>3. SleepOK
    BY <2>1, <1>3 DEF SleepOK, Is
  <2>4. \A n \in Peer : Young(n)
    BY <2>1, <1>2 DEF Young, Since, NoFrame
  <2> QED BY <2>2, <2>3, <2>4 DEF Timely
<1> QED BY <1>1, <1>6, <1>7 DEF IInv

LEMMA SameIInv ==
  ASSUME TInv, TInv', IInv, UNCHANGED vars
  PROVE  IInv'
<1>1. UNCHANGED <<now, queue, stat, timers, cell, pc, frame>>
  BY DEF vars, queueVars, mainVars
<1>2. timers'["A"] = timers["A"] /\ timers'["B"] = timers["B"]
  BY <1>1
<1>3. Timely'
  <2>1. \A n \in Peer : Quiet(n)
    BY <1>2, QuietSame DEF Peer
  <2> QED BY <1>1, <2>1, TimelySteady DEF IInv
<1>4. Counted'
  BY <1>1, <1>2, CountedKept, NotMoreSame, WaitsStaySame, NumbersSame DEF IInv
<1> QED BY <1>1, <1>3, <1>4 DEF IInv

LEMMA StepIInv ==
  ASSUME TInv, TInv', IInv, NoWrap, [Next]_vars
  PROVE  IInv'
<1>1. CASE Main
  <2>1. CASE AddPacket
    BY <2>1, AddPacketIInv
  <2>2. CASE StartPacket
    BY <2>2, StartPacketIInv
  <2>3. CASE GiveUp
    BY <2>3, GiveUpIInv
  <2>4. CASE \E n \in {"A", "B"} : ReadFrame(n) \/ DropFrames(n) \/ Lose(n)
    BY <2>4, ReadFrameIInv, FrameLostIInv, TwoPeers
  <2>5. CASE ReceiveData
    BY <2>5, ReceiveDataIInv
  <2>6. CASE ProcRTS \/ ProcData
    BY <2>6, ProcRTSIInv
  <2>7. CASE ProcCTS
    BY <2>7, ProcCTSIInv
  <2>8. CASE ProcACK
    BY <2>8, ProcACKIInv
  <2> QED BY <1>1, <2>1, <2>2, <2>3, <2>4, <2>5, <2>6, <2>7, <2>8 DEF Main
<1>2. CASE Timers
  <2>1. ASSUME NEW k \in DOMAIN timers["A"], RetryRTS(k)
        PROVE  IInv'
    BY <2>1, RetryRTSIInv
  <2>2. ASSUME NEW k \in DOMAIN timers["A"], SendData(k)
        PROVE  IInv'
    BY <2>2, SendDataIInv
  <2>3. ASSUME NEW k \in DOMAIN timers["A"], WaitCTS(k)
        PROVE  IInv'
    BY <2>3, WaitCTSIInv
  <2>4. ASSUME NEW k \in DOMAIN timers["A"], WaitACK(k)
        PROVE  IInv'
    BY <2>4, WaitACKIInv
  <2>5. ASSUME NEW k \in DOMAIN timers["A"], BackOffEnds(k)
        PROVE  IInv'
    BY <2>5, BackOffEndsIInv
  <2>6. ASSUME NEW k \in DOMAIN timers["A"], VSleep("A", k, "rx_sleep", "rx_awake")
        PROVE  IInv'
    BY <2>6, VSleepIInv, TwoPeers
  <2>7. ASSUME NEW k \in DOMAIN timers["B"],
               SendReply(k, "CTS") \/ SendReply(k, "ACK")
        PROVE  IInv'
    BY <2>7, SendReplyIInv
  <2>8. ASSUME NEW k \in DOMAIN timers["B"],
               \/ VSleep("B", k, "rx_sleep", "rx_awake")
               \/ VSleep("B", k, "tx_sleep", "tx_awake")
        PROVE  IInv'
    BY <2>8, VSleepIInv, TwoPeers
  <2> QED BY <1>2, <2>1, <2>2, <2>3, <2>4, <2>5, <2>6, <2>7, <2>8 DEF Timers
<1>3. CASE Tick
  BY <1>3, TickIInv
<1>4. CASE UNCHANGED vars
  BY <1>4, SameIInv
<1> QED BY <1>1, <1>2, <1>3, <1>4 DEF Next

\* Time does not go back, so that what holds while the stamps have not wrapped
\* has held in all the states before.
LEMMA NoWrapBefore ==
  ASSUME TInv, TInv', [Next]_vars, NoWrap'
  PROVE  NoWrap
<1>1. now \in Nat /\ now' \in Nat
  BY DEF TInv, Typed, PacketsTyped
<1>2. now' >= now
  <2>1. CASE Tick
    <3>1. now' > now
      BY <2>1 DEF Tick, Later
    <3> QED BY <3>1, <1>1
  <2>2. CASE now' = now
    BY <1>1, <2>2
  <2>3. [Next]_vars => Tick \/ now' = now
    BY DEF Next, Main, Timers, AddPacket, StartPacket, GiveUp, ReadFrame, DropFrames,
       Lose, ReceiveData, ProcRTS, ProcData, Answer, ProcCTS, ProcACK, RetryRTS,
       SendReply, SendData, WaitCTS, WaitACK, BackOffEnds, VSleep, vars
  <2> QED BY <2>1, <2>2, <2>3
<1> QED BY <1>1, <1>2 DEF NoWrap

LEMMA IInvHolds == Spec => [](TInv /\ (NoWrap => IInv))
<1>1. Init => TInv /\ (NoWrap => IInv)
  BY InitTInv, InitIInv
<1>2. TInv /\ (NoWrap => IInv) /\ [Next]_vars => TInv' /\ (NoWrap => IInv)'
  BY StepTInv, StepIInv, NoWrapBefore
<1> QED BY <1>1, <1>2, PTL DEF Spec

----------------------------------------------------------------------------
(***************************************************************************)
(* What follows.                                                           *)
(***************************************************************************)
\* As long as the time stamps have not wrapped, an answer that is processed
\* finds the packet that waits for it, and main of A stays in its loop
\* (proc_cfrm).
THEOREM LoopGoesOn == Spec => [](NoWrap => NeverExits)
<1>1. (NoWrap => IInv) => (NoWrap => NeverExits)
  BY DEF IInv, NeverExits
<1> QED BY <1>1, IInvHolds, PTL

\* As long as the time stamps have not wrapped, every value stays within its
\* type, and the time that is left to answer a frame is positive and less than
\* a turn of the wheel (proc_cfrm, add_timer).
THEOREM IntervalsFit == Spec => [](NoWrap => ValuesFit)
<1>1. TInv /\ IInv /\ NoWrap => IntervalFits
  <2> SUFFICES ASSUME TInv, IInv, NoWrap, NEW n \in {"A", "B"},
                      pc[n] \in {"rx_awake", "tx_awake"}
               PROVE  Interval(n) \in 1 .. (TIME_WHEEL_SIZE - 1)
    BY DEF IntervalFits
  <2>1. n \in Peer /\ pc[n] \notin {"poll", "exited"} /\ Timely
    BY DEF Peer, IInv
  <2> QED BY <2>1, IntervalInWheel
<1>2. TypeOK /\ TInv /\ (NoWrap => IInv) => (NoWrap => ValuesFit)
  BY <1>1 DEF ValuesFit
<1> QED BY <1>2, TypeCorrect, IInvHolds, PTL

\* As long as the time stamps have not wrapped, the handler of a timer of A
\* finds the packet it is about, and does not stop proc_timer (send_frm(DATA),
\* wait_CTS, wait_ACK and back_off of axidma_DOTS.c).
THEOREM HandlersSucceed == Spec => [](NoWrap => HandlerFinds)
<1>1. ASSUME TInv, IInv
      PROVE  HandlerFinds
  <2> SUFFICES ASSUME NEW k \in DOMAIN timers["A"], First(k, Due("A"))
               PROVE  CASE timers["A"][k].call = "DATA" -> Meeting(MaySendData) # {}
                        [] timers["A"][k].call = "wait_CTS" ->
                             Meeting(HasCTS) \cup Meeting(AwaitsCTS) # {}
                        [] timers["A"][k].call = "wait_ACK" ->
                             Meeting(HasACK) \cup Meeting(AwaitsACK) # {}
                        [] timers["A"][k].call = "back_off" -> Meeting(BackedOff) # {}
                        [] OTHER -> TRUE
    BY DEF HandlerFinds
  <2>1. timers["A"][k].at = now
    BY DEF First, Due
  <2>2. /\ timers["A"][k].call = "DATA" => Meeting(MaySendData) # {}
        /\ timers["A"][k].call = "wait_CTS" =>
             Meeting(HasCTS) \cup Meeting(AwaitsCTS) # {}
        /\ timers["A"][k].call = "wait_ACK" =>
             Meeting(HasACK) \cup Meeting(AwaitsACK) # {}
        /\ timers["A"][k].call = "back_off" => Meeting(BackedOff) # {}
    BY <1>1, <2>1, HandlersFind
  <2> QED BY <2>2
<1>2. TInv /\ (NoWrap => IInv) => (NoWrap => HandlerFinds)
  BY <1>1
<1> QED BY <1>2, IInvHolds, PTL

\* When nothing is left to do or to come, no packet is in a phase in which a
\* timer would move it on, and none is unsent.
LEMMA NothingToCome ==
  ASSUME TInv, IInv, AllIdle, Later = {}
  PROVE  queue = {}
<1>1. "A" \in Peer /\ "B" \in Peer
  BY TwoPeers
<1>2. Idle("A") /\ Idle("B")
  <2>1. pc["A"] # "exited" /\ pc["B"] # "exited"
    BY DEF IInv, TInv, Typed, MainTyped
  <2> QED BY <2>1 DEF AllIdle
<1>3. DOMAIN timers["A"] = {}
  <2> SUFFICES ASSUME NEW k \in DOMAIN timers["A"]
               PROVE  FALSE
    OBVIOUS
  <2>1. timers["A"][k].at # now
    BY <1>2 DEF Idle, Due
  <2>2. timers["A"][k].at >= now /\ timers["A"][k].at \in Nat /\ now \in Nat
    BY <1>1, TimersOfType DEF IInv, Timely, NotOverdue, TInv, Typed, PacketsTyped
  <2>3. timers["A"][k].at \in Events
    BY DEF Events, Ext!ToSet
  <2> QED BY <2>1, <2>2, <2>3 DEF Later
<1>4. \A call, d, S : CountA(call, d, S) = 0
  <2>1. ASSUME NEW call, NEW d, NEW S
        PROVE  CountA(call, d, S) = 0
    <3>1. Places(timers["A"], call, d, S) = {}
      BY <1>3 DEF Places
    <3> QED BY <3>1, FS_EmptySet DEF CountA, Count
  <2> QED BY <2>1
<1>5. \A ph \in Phases : N(ph) = 0
  <2>1. \A ph : N(ph) \in Nat
    BY CountsType
  <2>2. /\ N("has_CTS") + N("awaits_CTS") = 0
        /\ N("has_CTS") + N("awaits_ACK") + N("has_ACK") = 0
        /\ N("backed_off") = 0
    BY <1>4 DEF IInv, Counted, Balance
  <2>3. /\ N("has_CTS") \in Nat /\ N("awaits_CTS") \in Nat
        /\ N("awaits_ACK") \in Nat /\ N("has_ACK") \in Nat
    BY <2>1
  <2>4. /\ N("has_CTS") = 0 /\ N("awaits_CTS") = 0 /\ N("awaits_ACK") = 0
        /\ N("has_ACK") = 0
    BY <2>2, <2>3
  <2> QED BY <2>2, <2>4 DEF Phases
<1>6. Meeting(Unsent) = {}
  <2>1. pc["A"] \notin {"rx_sleep", "tx_sleep"}
    <3>1. /\ CountA("rx_v_sleep", 0, Int) = Is(pc["A"], "rx_sleep")
          /\ CountA("tx_v_sleep", 0, Int) = Is(pc["A"], "tx_sleep")
      BY <1>1 DEF IInv, Timely, SleepOK, CountA
    <3> QED BY <3>1, <1>4 DEF Is
  <2> QED BY <2>1, <1>2 DEF Idle
<1>7. \A ph \in Phases \cup {"unsent"} : In(queue, stat, ph) = {}
  <2>1. \A ph \in Phases : In(queue, stat, ph) = {}
    BY <1>5, QueueFinite, NumPositive DEF N
  <2>2. In(queue, stat, "unsent") = {}
    BY <1>6, MeetingPhase
  <2> QED BY <2>1, <2>2
<1>8. \A p \in queue : Phase(stat[p]) \in Phases \cup {"unsent"}
  BY DEF Phase, Phases
<1> QED BY <1>7, <1>8 DEF In

\* As long as the time stamps have not wrapped, no packet stays in the queue
\* without a timer that would move it on, whatever frames are lost (the timers
\* of axidma_DOTS.c).
THEOREM NoPacketStays == Spec => [](NoWrap => NoneStays)
<1>1. TInv /\ (NoWrap => IInv) => (NoWrap => NoneStays)
  BY NothingToCome DEF NoneStays
<1> QED BY <1>1, IInvHolds, PTL
=============================================================================

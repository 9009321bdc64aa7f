--------------------------- MODULE DelayMapProofs ---------------------------
(***************************************************************************)
(* What holds of the delay map for every network, every guard time and     *)
(* every delay: the hash function gives each pair of nodes a list of its   *)
(* own, a back-off always fits into one turn of the timing wheel, and as   *)
(* long as no time stamp wraps an RTS that is written meets no answer to a *)
(* frame that was heard.                                                   *)
(***************************************************************************)
EXTENDS DelayMap, FiniteSetTheorems, TLAPS

\* Products with N are ordered as their factors are.
LEMMA Product ==
  ASSUME NEW a \in Nat, NEW b \in Nat, NEW N \in Nat, a < b
  PROVE  a * N + N <= b * N
<1>1. PICK c \in Nat : b = a + 1 + c
  <2>1. b - a - 1 \in Nat /\ b = a + 1 + (b - a - 1)
    OBVIOUS
  <2> QED BY <2>1
<1>2. b * N = a * N + N + c * N
  BY <1>1
<1>3. c * N \in Nat
  OBVIOUS
<1>4. a * N \in Nat
  OBVIOUS
<1> QED BY <1>2, <1>3, <1>4

\* dly_harsh of two different nodes is an index of dly_map[].
THEOREM HashInRange ==
  \A p \in Pair : dly_harsh(p[1], p[2]) \in Index
<1> SUFFICES ASSUME NEW i \in Node, NEW j \in Node, i # j
             PROVE  dly_harsh(i, j) \in Index
  BY DEF Pair
<1> DEFINE N == MAX_NODE_NUM
<1>1. N \in Nat /\ N >= 2 /\ i \in 1..N /\ j \in 1..N
  BY NetworkAssumption DEF Node
<1>2. (i - 1) * N \in Nat /\ N * N \in Nat
  BY <1>1
<1>3. (i - 1) * N + N <= N * N
  <2>1. i - 1 \in Nat /\ i - 1 < N
    BY <1>1
  <2> QED BY <1>1, <2>1, Product
<1>4. i = 1 \/ (i - 1) * N >= N
  <2>1. CASE i # 1
    <3>1. 0 \in Nat /\ i - 1 \in Nat /\ 0 < i - 1
      BY <1>1, <2>1
    <3>2. 0 * N + N <= (i - 1) * N
      BY <1>1, <3>1, Product
    <3>3. 0 * N = 0
      BY <1>1
    <3> QED BY <1>1, <1>2, <3>2, <3>3
  <2> QED BY <2>1
<1>5. (i - 1) * N + j - 2 >= 0
  <2>1. CASE i = 1
    <3>1. j >= 2
      BY <1>1, <2>1
    <3> QED BY <1>1, <1>2, <3>1
  <2>2. CASE i # 1
    BY <1>1, <1>2, <1>4, <2>2
  <2> QED BY <2>1, <2>2
<1>6. (i - 1) * N + j - 2 <= N * N - 3
  <2>1. CASE i = N
    <3>1. j <= N - 1
      BY <1>1, <2>1
    <3> QED BY <1>1, <1>2, <1>3, <3>1
  <2>2. CASE i # N
    <3>1. i - 1 \in Nat /\ N - 1 \in Nat /\ i - 1 < N - 1
      BY <1>1, <2>2
    <3>2. (i - 1) * N + N <= (N - 1) * N
      BY <1>1, <3>1, Product
    <3>3. (N - 1) * N = N * N - N
      BY <1>1
    <3> QED BY <1>1, <1>2, <3>2, <3>3
  <2> QED BY <2>1, <2>2
<1> HIDE DEF N
<1>7. dly_harsh(i, j) = (i - 1) * N + j - 2 /\ DELAY_MAP_SIZE = N * N - 2
  BY DEF dly_harsh, DELAY_MAP_SIZE, N
<1> QED BY <1>1, <1>2, <1>5, <1>6, <1>7 DEF Index

\* Two different pairs of nodes have different indices: neither their delays
\* nor their collision nodes get mixed up.
THEOREM HashInjective ==
  \A p, q \in Pair : dly_harsh(p[1], p[2]) = dly_harsh(q[1], q[2]) => p = q
<1> SUFFICES ASSUME NEW p \in Pair, NEW q \in Pair,
                    dly_harsh(p[1], p[2]) = dly_harsh(q[1], q[2])
             PROVE  p = q
  OBVIOUS
<1> DEFINE N == MAX_NODE_NUM
<1>1. /\ N \in Nat
      /\ p[1] \in 1..N /\ p[2] \in 1..N /\ q[1] \in 1..N /\ q[2] \in 1..N
  BY NetworkAssumption DEF Pair, Node
<1>2. (p[1] - 1) * N + p[2] - 2 = (q[1] - 1) * N + q[2] - 2
  BY DEF dly_harsh
<1> HIDE DEF N
<1>3. (p[1] - 1) * N \in Nat /\ (q[1] - 1) * N \in Nat
  BY <1>1
<1>4. CASE p[1] < q[1]
  <2>1. p[1] - 1 \in Nat /\ q[1] - 1 \in Nat /\ p[1] - 1 < q[1] - 1
    BY <1>1, <1>4
  <2>2. (p[1] - 1) * N + N <= (q[1] - 1) * N
    BY <1>1, <2>1, Product
  <2> QED BY <1>1, <1>2, <1>3, <2>2
<1>5. CASE q[1] < p[1]
  <2>1. p[1] - 1 \in Nat /\ q[1] - 1 \in Nat /\ q[1] - 1 < p[1] - 1
    BY <1>1, <1>5
  <2>2. (q[1] - 1) * N + N <= (p[1] - 1) * N
    BY <1>1, <2>1, Product
  <2> QED BY <1>1, <1>2, <1>3, <2>2
<1>6. CASE p[1] = q[1]
  <2>1. p[2] = q[2]
    BY <1>1, <1>2, <1>3, <1>6
  <2> QED BY <1>6, <2>1 DEF Pair
<1> QED BY <1>1, <1>4, <1>5, <1>6

----------------------------------------------------------------------------
(***************************************************************************)
(* The back-off.                                                           *)
(***************************************************************************)
Interval == 0..(TIME_WHEEL_SIZE - 1)

Result == [back_off_tm : Interval, expired : BOOLEAN]

\* A u_int16_t is a natural number, whatever was assigned to it.
LEMMA U16Type == \A x \in Int : U16(x) \in Nat
BY DEF U16

\* The back-off that one pair of frames asks for.
LEMMA BackOffType ==
  \A x, y \in Int : CfrmBackOff(x, y) \in Interval /\ DataBackOff(x, y) \in Interval
<1> SUFFICES ASSUME NEW x \in Int, NEW y \in Int
             PROVE  CfrmBackOff(x, y) \in Interval /\ DataBackOff(x, y) \in Interval
  OBVIOUS
<1>1. /\ CFRM_GUARD_TIME \in Nat /\ DATA_GUARD_TIME \in Nat
      /\ DATA_GUARD_TIME \div 2 \in Nat
  BY TimesAssumption
<1>2. CfrmBackOff(x, y) \in Interval
  BY <1>1, WheelAssumption DEF CfrmBackOff, BackOff, Collide, Interval
<1>3. DataBackOff(x, y) \in Interval
  BY <1>1, WheelAssumption DEF DataBackOff, BackOff, Collide, Interval
<1> QED BY <1>2, <1>3

\* The first back-off that is not 0 is one of them.
LEMMA OrElseType ==
  \A t, u \in Interval : OrElse(t, u) \in Interval
BY DEF OrElse

\* The two forms of a result.
LEMMA ResultType ==
  /\ Expire \in Result
  /\ \A t \in Interval : Keep(t) \in Result
<1>1. 0 \in Interval
  BY WheelAssumption, TimesAssumption DEF Interval
<1> QED BY <1>1 DEF Expire, Keep, Result

\* The test of an RTS that was heard.
LEMMA RTSResult ==
  \A stmp, cur, det, oth, sd \in Int : ckRTS(stmp, cur, det, oth, sd) \in Result
<1> SUFFICES ASSUME NEW stmp \in Int, NEW cur \in Int, NEW det \in Int,
                    NEW oth \in Int, NEW sd \in Int
             PROVE  ckRTS(stmp, cur, det, oth, sd) \in Result
  OBVIOUS
<1> DEFINE la_RTS   == U16(cur + det)
           la_DATA  == U16(cur + 2 * MAX_PROP_DELAY + det)
           adj_CTS  == U16(stmp + MAX_PROP_DELAY + oth)
           adj_ACK  == U16(stmp + 3 * MAX_PROP_DELAY + oth)
           al_CTS   == U16(cur + MAX_PROP_DELAY + sd)
           al_ACK   == U16(cur + 3 * MAX_PROP_DELAY + sd)
           tm       == OrElse(CfrmBackOff(la_RTS, adj_CTS),
                       OrElse(CfrmBackOff(la_RTS, adj_ACK),
                       OrElse(CfrmBackOff(la_DATA, adj_CTS),
                       OrElse(CfrmBackOff(la_DATA, adj_ACK),
                       OrElse(CfrmBackOff(la_DATA, al_CTS),
                              CfrmBackOff(la_DATA, al_ACK))))))
<1>1. /\ la_RTS \in Int /\ la_DATA \in Int /\ adj_CTS \in Int /\ adj_ACK \in Int
      /\ al_CTS \in Int /\ al_ACK \in Int
  BY U16Type, TimesAssumption
<1>2. ckRTS(stmp, cur, det, oth, sd) =
        IF la_RTS > adj_ACK + CFRM_GUARD_TIME THEN Expire ELSE Keep(tm)
  BY DEF ckRTS
<1> HIDE DEF la_RTS, la_DATA, adj_CTS, adj_ACK, al_CTS, al_ACK
<1>3. tm \in Interval
  BY <1>1, BackOffType, OrElseType
<1> HIDE DEF tm
<1> QED BY <1>2, <1>3, ResultType

\* The test of a CTS.
LEMMA CTSResult ==
  \A stmp, cur, det, oth, sd \in Int : ckCTS(stmp, cur, det, oth, sd) \in Result
<1> SUFFICES ASSUME NEW stmp \in Int, NEW cur \in Int, NEW det \in Int,
                    NEW oth \in Int, NEW sd \in Int
             PROVE  ckCTS(stmp, cur, det, oth, sd) \in Result
  OBVIOUS
<1> DEFINE la_RTS   == U16(cur + det)
           la_DATA  == U16(cur + 2 * MAX_PROP_DELAY + det)
           adj_DATA == U16(stmp + MAX_PROP_DELAY + oth)
           al_CTS   == U16(cur + MAX_PROP_DELAY + sd)
           al_ACK   == U16(cur + 3 * MAX_PROP_DELAY + sd)
           lcl_ACK  == U16(stmp + 2 * MAX_PROP_DELAY + det)
           tm       == OrElse(DataBackOff(la_RTS, adj_DATA),
                       OrElse(DataBackOff(la_DATA, adj_DATA),
                       OrElse(CfrmBackOff(lcl_ACK, al_CTS),
                              CfrmBackOff(lcl_ACK, al_ACK))))
<1>1. /\ la_RTS \in Int /\ la_DATA \in Int /\ adj_DATA \in Int
      /\ al_CTS \in Int /\ al_ACK \in Int /\ lcl_ACK \in Int
  BY U16Type, TimesAssumption
<1>2. ckCTS(stmp, cur, det, oth, sd) =
        IF tm # 0 THEN Keep(tm)
        ELSE IF la_RTS > lcl_ACK + CFRM_GUARD_TIME THEN Expire ELSE Keep(0)
  BY DEF ckCTS
<1> HIDE DEF la_RTS, la_DATA, adj_DATA, al_CTS, al_ACK, lcl_ACK
<1>3. tm \in Interval /\ 0 \in Interval
  <2>1. tm \in Interval
    BY <1>1, BackOffType, OrElseType
  <2> HIDE DEF tm
  <2> QED BY <2>1, WheelAssumption, TimesAssumption DEF Interval
<1> HIDE DEF tm
<1> QED BY <1>2, <1>3, ResultType

\* The test of a DATA frame.
LEMMA DATAResult ==
  \A stmp, cur, det, oth \in Int : ckDATA(stmp, cur, det, oth) \in Result
<1> SUFFICES ASSUME NEW stmp \in Int, NEW cur \in Int, NEW det \in Int,
                    NEW oth \in Int
             PROVE  ckDATA(stmp, cur, det, oth) \in Result
  OBVIOUS
<1> DEFINE la_RTS  == U16(cur + det)
           la_DATA == U16(cur + 2 * MAX_PROP_DELAY + det)
           adj_ACK == U16(stmp + MAX_PROP_DELAY + oth)
           tm      == OrElse(CfrmBackOff(la_RTS, adj_ACK),
                             CfrmBackOff(la_DATA, adj_ACK))
<1>1. la_RTS \in Int /\ la_DATA \in Int /\ adj_ACK \in Int
  BY U16Type, TimesAssumption
<1>2. ckDATA(stmp, cur, det, oth) =
        IF tm # 0 THEN Keep(tm)
        ELSE IF la_RTS > adj_ACK + CFRM_GUARD_TIME THEN Expire ELSE Keep(0)
  BY DEF ckDATA
<1> HIDE DEF la_RTS, la_DATA, adj_ACK
<1>3. tm \in Interval /\ 0 \in Interval
  <2>1. tm \in Interval
    BY <1>1, BackOffType, OrElseType
  <2> HIDE DEF tm
  <2> QED BY <2>1, WheelAssumption, TimesAssumption DEF Interval
<1> HIDE DEF tm
<1> QED BY <1>2, <1>3, ResultType

\* ck_collision: its back-off is within one turn of the timing wheel, whatever
\* the times, the delays and the frame, also when time stamps have wrapped.
THEOREM BackOffWithinWheel ==
  \A stmp, cur, det, oth, sd \in Int, type \in CfrmType :
    ck_collision(type, stmp, cur, det, oth, sd) \in Result
BY RTSResult, CTSResult, DATAResult, ResultType DEF ck_collision, CfrmType

\* A collision node whose ACK is expected, with its guard time, at the largest
\* u_int16_t never expires, however far time advances: la_RTS cannot exceed it.
THEOREM NeverExpires ==
  \A stmp, cur, det, oth, sd \in Int :
    U16(stmp + 3 * MAX_PROP_DELAY + oth) + CFRM_GUARD_TIME >= 65535
      => ~ckRTS(stmp, cur, det, oth, sd).expired
<1> SUFFICES ASSUME NEW stmp \in Int, NEW cur \in Int, NEW det \in Int,
                    NEW oth \in Int, NEW sd \in Int,
                    U16(stmp + 3 * MAX_PROP_DELAY + oth) + CFRM_GUARD_TIME >= 65535
             PROVE  ~ckRTS(stmp, cur, det, oth, sd).expired
  OBVIOUS
<1>1. U16(cur + det) <= 65535
  BY DEF U16
<1>2. ~(U16(cur + det) > U16(stmp + 3 * MAX_PROP_DELAY + oth) + CFRM_GUARD_TIME)
  <2>1. U16(stmp + 3 * MAX_PROP_DELAY + oth) \in Nat /\ U16(cur + det) \in Nat
    BY U16Type, TimesAssumption
  <2> QED BY <1>1, <2>1, TimesAssumption
<1> QED BY <1>2 DEF ckRTS, Keep

----------------------------------------------------------------------------
(***************************************************************************)
(* The invariant: the types, with what they rest on, and BackOffInterval.  *)
(***************************************************************************)
DInv == /\ TypeOK
        /\ topology \in Topology
        /\ IsFiniteSet(heard)
        /\ BackOffInterval

\* Delays between nodes are u_int8_t.
LEMMA DelayType ==
  ASSUME topology \in Topology
  PROVE  \A a, b \in Node : a # b => Delay(a, b) \in 0..255
BY TopologyAssumption DEF Delay

\* The local node and an adjacent one, and the two nodes of a frame, have a
\* place in dly_map[].
LEMMA Indices ==
  /\ \A a \in Adjacent : dly_harsh(LOCAL_ADDRESS, a) \in Index
  /\ \A c \in CollNode : c.src # c.dst => dly_harsh(c.src, c.dst) \in Index
<1>1. \A a, b \in Node : a # b => dly_harsh(a, b) \in Index
  <2> SUFFICES ASSUME NEW a \in Node, NEW b \in Node, a # b
               PROVE  dly_harsh(a, b) \in Index
    OBVIOUS
  <2>1. <<a, b>> \in Pair
    BY DEF Pair
  <2>2. dly_harsh(<<a, b>>[1], <<a, b>>[2]) \in Index
    BY <2>1, HashInRange
  <2> QED BY <2>2
<1>2. \A c \in CollNode : c.src \in Node /\ c.dst \in Node
  BY DEF CollNode, Adjacent
<1> QED BY <1>1, <1>2, LocalAssumption DEF Adjacent

\* A time stamp is a natural number below 65535.
LEMMA TimeStampType ==
  \A t \in Int : TimeStamp(t) \in Nat /\ TimeStamp(t) < 65535
<1>1. \A t \in Int : t % 100000 \in Int
  OBVIOUS
<1>2. \A t \in Int : t % 65535 \in Nat /\ t % 65535 < 65535
  OBVIOUS
<1> QED BY <1>1, <1>2 DEF TimeStamp

\* The check of one node.
LEMMA CheckType ==
  ASSUME DInv, NEW c \in coll, NEW d \in Adjacent
  PROVE  Check(c, d) \in Result
<1>1. c \in CollNode /\ c.src # c.dst
  BY DEF DInv, TypeOK
<1>2. c.type \in CfrmType /\ c.tmv_stmp \in Int /\ c.src \in Adjacent
  BY <1>1 DEF CollNode
<1>3. TimeStamp(now) \in Int
  BY TimeStampType, BoundsAssumption DEF DInv, TypeOK
<1>4. /\ delay[dly_harsh(LOCAL_ADDRESS, c.src)] \in Int
      /\ delay[dly_harsh(c.src, c.dst)] \in Int
      /\ delay[dly_harsh(LOCAL_ADDRESS, d)] \in Int
  BY <1>1, <1>2, Indices DEF DInv, TypeOK
<1> QED BY <1>2, <1>3, <1>4, BackOffWithinWheel DEF Check

\* The initial states.
LEMMA DInit == Init => DInv
<1> SUFFICES ASSUME Init PROVE DInv
  OBVIOUS
<1>1. TypeOK
  BY BoundsAssumption DEF Init, TypeOK
<1>2. IsFiniteSet(heard)
  BY FS_EmptySet DEF Init
<1> QED BY <1>1, <1>2 DEF Init, DInv, BackOffInterval

\* What is measured is a u_int8_t.
LEMMA MeasuredType ==
  ASSUME now \in Int, NEW D \in Int
  PROVE  Measured(D) \in 0..255
<1>1. TimeStamp(now) \in Int /\ TimeStamp(now - D) \in Int
  BY TimeStampType
<1>2. \A x, y \in Int : (x - y) % 256 \in 0..255
  OBVIOUS
<1> QED BY <1>1, <1>2 DEF Measured

\* A frame is heard.
LEMMA HearStep ==
  ASSUME DInv, NEW type \in CfrmType, NEW s \in Adjacent,
         NEW d \in Node \ {s}, Hear(type, s, d)
  PROVE  DInv'
<1> DEFINE D     == Delay(s, LOCAL_ADDRESS)
           here  == dly_harsh(LOCAL_ADDRESS, s)
           other == dly_harsh(s, d)
           frame == [type |-> type, src |-> s, dst |-> d, sent |-> now - D]
           node  == [no |-> Cardinality(heard) + 1, type |-> type, src |-> s,
                     dst |-> d, tmv_stmp |-> TimeStamp(now - D)]
<1>1. /\ delay' = IF d = LOCAL_ADDRESS
                  THEN [delay EXCEPT ![here] = Measured(D)]
                  ELSE [delay EXCEPT ![here] = Measured(D), ![other] = Delay(s, d)]
      /\ coll' = coll \cup {node}
      /\ heard' = heard \cup {frame}
      /\ phy_tx' = 0
      /\ UNCHANGED <<now, topology, rts, due, packets>>
  BY DEF Hear
<1>2. D \in 0..255 /\ Delay(s, d) \in 0..255
  BY DelayType, LocalAssumption DEF DInv, Adjacent
<1>3. node \in CollNode /\ node.src # node.dst /\ node.tmv_stmp < 65535
  <2>1. TimeStamp(now - D) \in Nat /\ TimeStamp(now - D) < 65535
    <3>1. now \in Int
      BY BoundsAssumption DEF DInv, TypeOK
    <3>2. now - D \in Int
      <4> HIDE DEF D
      <4> QED BY <1>2, <3>1
    <3> HIDE DEF D
    <3> QED BY <3>2, TimeStampType
  <2>2. Cardinality(heard) + 1 \in Nat \ {0}
    <3>1. Cardinality(heard) \in Nat
      BY FS_CardinalityType DEF DInv
    <3> QED BY <3>1
  <2> HIDE DEF D
  <2>3. s # d /\ s \in Adjacent /\ d \in Node /\ type \in CfrmType
    OBVIOUS
  <2>4. node.src = s /\ node.dst = d /\ node.tmv_stmp = TimeStamp(now - D)
    OBVIOUS
  <2>5. node \in CollNode
    BY <2>1, <2>2, <2>3 DEF CollNode
  <2> QED BY <2>1, <2>3, <2>4, <2>5
<1>4. IsFiniteSet(heard')
  BY <1>1, FS_AddElement DEF DInv
<1> HIDE DEF D, here, other, frame, node
<1>5. delay' \in [Index -> 0..255]
  <2> DEFINE Byte == 0..255
  <2>1. delay \in [Index -> Byte] /\ Measured(D) \in Byte /\ Delay(s, d) \in Byte
    BY <1>2, MeasuredType, BoundsAssumption DEF DInv, TypeOK
  <2> HIDE DEF Byte
  <2>2. [delay EXCEPT ![here] = Measured(D)] \in [Index -> Byte]
    BY <2>1
  <2>3. [delay EXCEPT ![here] = Measured(D), ![other] = Delay(s, d)] \in [Index -> Byte]
    BY <2>1
  <2>4. delay' \in [Index -> Byte]
    BY <1>1, <2>2, <2>3
  <2> QED BY <2>4 DEF Byte
<1>6. TypeOK'
  BY <1>1, <1>3, <1>5 DEF DInv, TypeOK
<1> QED BY <1>1, <1>4, <1>6 DEF DInv, BackOffInterval

\* An RTS is written or put off.
LEMMA SendStep ==
  ASSUME DInv, NEW d \in Adjacent, SendRTS(d), packets' \in 0..MaxRTS
  PROVE  DInv'
<1>1. PICK C : /\ C = Collisions(d)
               /\ WriteRTS(d, C) \/ PutOffRTS(d, C)
               /\ DeleteExpired(d, C)
               /\ UNCHANGED <<now, topology, delay, heard>>
  BY DEF SendRTS
<1>2. coll' \subseteq coll
  BY <1>1 DEF DeleteExpired
<1>3. /\ rts' \in Adjacent \cup {0} /\ due' \in Nat
      /\ phy_tx' \in Adjacent \cup {0}
      /\ rts' # 0 => due' - now < TIME_WHEEL_SIZE
  <2>1. CASE WriteRTS(d, C)
    BY <2>1 DEF WriteRTS
  <2>2. CASE PutOffRTS(d, C)
    <3>1. PICK c \in C : rts' = d /\ due' = now + Check(c, d).back_off_tm /\ phy_tx' = 0
      BY <2>2 DEF PutOffRTS
    <3>2. Check(c, d).back_off_tm \in Interval
      BY <1>1, CheckType DEF Collisions, Result
    <3>3. now \in Nat
      BY BoundsAssumption DEF DInv, TypeOK
    <3> QED BY <3>1, <3>2, <3>3, WheelAssumption DEF Interval
  <2> QED BY <1>1, <2>1, <2>2
<1> QED BY <1>1, <1>2, <1>3 DEF DInv, TypeOK, BackOffInterval

\* Time advances.
LEMMA AdvanceStep ==
  ASSUME DInv, Advance
  PROVE  DInv'
<1>1. PICK n \in Steps :
        /\ now' = IF rts # 0 /\ now + n > due THEN due ELSE now + n
        /\ now' > now /\ now' <= StartTime + MaxTime
        /\ phy_tx' = 0
        /\ UNCHANGED <<topology, delay, coll, rts, due, packets, heard>>
  BY DEF Advance
<1>2. now \in Nat /\ due \in Nat /\ n \in Nat /\ StartTime \in Nat /\ MaxTime \in Nat
  BY BoundsAssumption DEF DInv, TypeOK
<1>3. now' \in StartTime..(StartTime + MaxTime)
  BY <1>1, <1>2 DEF DInv, TypeOK
<1>4. BackOffInterval'
  BY <1>1, <1>2, WheelAssumption DEF DInv, BackOffInterval
<1> QED BY <1>1, <1>3, <1>4 DEF DInv, TypeOK

\* DInv is an invariant.
THEOREM DelayMapInvariance == Spec => []DInv
<1>1. DInv /\ [Next]_vars => DInv'
  <2> SUFFICES ASSUME DInv, [Next]_vars PROVE DInv'
    OBVIOUS
  <2>1. ASSUME NEW type \in CfrmType, NEW s \in Adjacent,
               NEW d \in Node \ {s}, Hear(type, s, d)
        PROVE  DInv'
    BY <2>1, HearStep
  <2>2. CASE NewRTS
    <3>1. PICK d \in Adjacent : SendRTS(d)
      BY <2>2 DEF NewRTS
    <3>2. packets' \in 0..MaxRTS
      BY <2>2, BoundsAssumption DEF NewRTS, DInv, TypeOK
    <3> QED BY <3>1, <3>2, SendStep
  <2>3. CASE RetryRTS
    <3>1. rts \in Adjacent /\ SendRTS(rts) /\ packets' \in 0..MaxRTS
      BY <2>3 DEF RetryRTS, DInv, TypeOK
    <3> QED BY <3>1, SendStep
  <2>4. CASE Advance
    BY <2>4, AdvanceStep
  <2>5. CASE Ended \/ UNCHANGED vars
    BY <2>5 DEF Ended, vars, DInv, TypeOK, BackOffInterval
  <2> QED BY <2>1, <2>2, <2>3, <2>4, <2>5 DEF Next
<1> QED BY DInit, <1>1, PTL DEF Spec

\* Every variable keeps its type: dly_map[] is only accessed within its bounds
\* and holds u_int8_t values, and the collision nodes have valid addresses.
THEOREM DelayMapTyped == Spec => []TypeOK
BY DelayMapInvariance, PTL DEF DInv

\* An RTS is never put off by more than a turn of the timing wheel.
THEOREM BackOffFits == Spec => []BackOffInterval
BY DelayMapInvariance, PTL DEF DInv
----------------------------------------------------------------------------
(***************************************************************************)
(* ck_collision on times that do not wrap: a result of 0 means that none   *)
(* of the frames collide, and a node that has expired never collides       *)
(* again.                                                                  *)
(***************************************************************************)
\* Small numbers are their own u_int16_t.
LEMMA U16Of == \A x \in Int : 0 <= x /\ x <= 65535 => U16(x) = x
BY DEF U16

\* No back-off is asked for only if there is no collision.
LEMMA NoBackOff ==
  \A x, y \in Int :
    /\ CfrmBackOff(x, y) = 0 => ~Collide(x, y, CFRM_GUARD_TIME, CFRM_GUARD_TIME)
    /\ DataBackOff(x, y) = 0 => ~Collide(x, y, DATA_GUARD_TIME \div 2, DATA_GUARD_TIME)
<1> DEFINE half == DATA_GUARD_TIME \div 2
<1>1. half \in Int /\ CFRM_GUARD_TIME \in Nat /\ DATA_GUARD_TIME \in Nat
  BY TimesAssumption
<1> HIDE DEF half
<1>2. \A x, y \in Int : DataBackOff(x, y) = BackOff(x, y, half, DATA_GUARD_TIME)
  BY DEF DataBackOff, half
<1>3. \A x, y \in Int :
        /\ CfrmBackOff(x, y) = 0 => ~Collide(x, y, CFRM_GUARD_TIME, CFRM_GUARD_TIME)
        /\ DataBackOff(x, y) = 0 => ~Collide(x, y, half, DATA_GUARD_TIME)
  BY <1>1, <1>2 DEF CfrmBackOff, BackOff, Collide
<1> QED BY <1>3 DEF half

\* A chain of back-offs is 0 only if each is.
LEMMA OrElseZero == \A t, u : OrElse(t, u) = 0 => t = 0 /\ u = 0
BY DEF OrElse

\* The times and delays of a check that does not wrap.
Plain(stmp, cur, det, oth, sd) ==
  /\ stmp \in Nat /\ cur \in Nat /\ stmp <= cur
  /\ det \in 0..255 /\ oth \in 0..255 /\ sd \in 0..255
  /\ cur + 3 * MAX_PROP_DELAY + 255 < 65536

\* The times of a check are those written in it.
LEMMA PlainTimes ==
  ASSUME NEW stmp, NEW cur, NEW det, NEW oth, NEW sd, Plain(stmp, cur, det, oth, sd)
  PROVE  /\ U16(cur + det) = cur + det
         /\ U16(cur + 2 * MAX_PROP_DELAY + det) = cur + 2 * MAX_PROP_DELAY + det
         /\ U16(stmp + MAX_PROP_DELAY + oth) = stmp + MAX_PROP_DELAY + oth
         /\ U16(stmp + 2 * MAX_PROP_DELAY + det) = stmp + 2 * MAX_PROP_DELAY + det
         /\ U16(stmp + 3 * MAX_PROP_DELAY + oth) = stmp + 3 * MAX_PROP_DELAY + oth
<1>1. /\ MAX_PROP_DELAY \in Nat /\ stmp \in Int /\ cur \in Int /\ det \in Int /\ oth \in Int
      /\ 0 <= stmp /\ stmp <= cur /\ 0 <= det /\ det <= 255 /\ 0 <= oth /\ oth <= 255
      /\ cur + 3 * MAX_PROP_DELAY + 255 < 65536
  BY TimesAssumption DEF Plain
<1>2. /\ 0 <= cur + det /\ cur + det <= 65535
      /\ 0 <= cur + 2 * MAX_PROP_DELAY + det
      /\ cur + 2 * MAX_PROP_DELAY + det <= 65535
  BY <1>1
<1>3. /\ 0 <= stmp + MAX_PROP_DELAY + oth
      /\ stmp + MAX_PROP_DELAY + oth <= 65535
      /\ 0 <= stmp + 2 * MAX_PROP_DELAY + det
      /\ stmp + 2 * MAX_PROP_DELAY + det <= 65535
      /\ 0 <= stmp + 3 * MAX_PROP_DELAY + oth
      /\ stmp + 3 * MAX_PROP_DELAY + oth <= 65535
  BY <1>1
<1> QED BY <1>1, <1>2, <1>3, U16Of

\* An RTS that was heard.
LEMMA RTSClear ==
  ASSUME NEW stmp, NEW cur, NEW det, NEW oth, NEW sd, Plain(stmp, cur, det, oth, sd)
  PROVE  LET r      == ckRTS(stmp, cur, det, oth, sd)
             arrive == cur + det
             answer == stmp + MAX_PROP_DELAY + oth
         IN  /\ r.expired => arrive > answer + 2 * MAX_PROP_DELAY + CFRM_GUARD_TIME
             /\ r.back_off_tm = 0 =>
                  \A x \in {arrive, arrive + 2 * MAX_PROP_DELAY},
                     y \in {answer, answer + 2 * MAX_PROP_DELAY} :
                    ~Collide(x, y, CFRM_GUARD_TIME, CFRM_GUARD_TIME)
<1> DEFINE la_RTS   == cur + det
           la_DATA  == cur + 2 * MAX_PROP_DELAY + det
           adj_CTS  == stmp + MAX_PROP_DELAY + oth
           adj_ACK  == stmp + 3 * MAX_PROP_DELAY + oth
           al_CTS   == U16(cur + MAX_PROP_DELAY + sd)
           al_ACK   == U16(cur + 3 * MAX_PROP_DELAY + sd)
           tm       == OrElse(CfrmBackOff(la_RTS, adj_CTS),
                       OrElse(CfrmBackOff(la_RTS, adj_ACK),
                       OrElse(CfrmBackOff(la_DATA, adj_CTS),
                       OrElse(CfrmBackOff(la_DATA, adj_ACK),
                       OrElse(CfrmBackOff(la_DATA, al_CTS),
                              CfrmBackOff(la_DATA, al_ACK))))))
           r        == ckRTS(stmp, cur, det, oth, sd)
<1>1. r = IF la_RTS > adj_ACK + CFRM_GUARD_TIME THEN Expire ELSE Keep(tm)
  BY PlainTimes DEF ckRTS
<1>2. /\ la_RTS \in Int /\ adj_CTS \in Int /\ adj_ACK = adj_CTS + 2 * MAX_PROP_DELAY
      /\ la_DATA = la_RTS + 2 * MAX_PROP_DELAY /\ la_DATA \in Int /\ adj_ACK \in Int
      /\ CFRM_GUARD_TIME \in Nat /\ MAX_PROP_DELAY \in Nat
  BY TimesAssumption DEF Plain
<1>3. tm = 0 => /\ CfrmBackOff(la_RTS, adj_CTS) = 0
                /\ CfrmBackOff(la_RTS, adj_ACK) = 0
                /\ CfrmBackOff(la_DATA, adj_CTS) = 0
                /\ CfrmBackOff(la_DATA, adj_ACK) = 0
  <2> HIDE DEF la_RTS, la_DATA, adj_CTS, adj_ACK, al_CTS, al_ACK
  <2> QED BY OrElseZero
<1> HIDE DEF la_RTS, la_DATA, adj_CTS, adj_ACK, al_CTS, al_ACK, tm, r
<1>4. r.expired => la_RTS > adj_ACK + CFRM_GUARD_TIME
  BY <1>1 DEF Keep
<1>5. ASSUME r.back_off_tm = 0, NEW x \in {la_RTS, la_DATA}, NEW y \in {adj_CTS, adj_ACK}
      PROVE  ~Collide(x, y, CFRM_GUARD_TIME, CFRM_GUARD_TIME)
  <2>1. CASE la_RTS > adj_ACK + CFRM_GUARD_TIME
    BY <1>2, <2>1 DEF Collide
  <2>2. CASE ~(la_RTS > adj_ACK + CFRM_GUARD_TIME)
    <3>1. tm = 0
      BY <1>1, <1>5, <2>2 DEF Keep
    <3> QED BY <1>2, <1>3, <3>1, NoBackOff
  <2> QED BY <2>1, <2>2
<1>6. /\ r.expired => la_RTS > adj_CTS + 2 * MAX_PROP_DELAY + CFRM_GUARD_TIME
      /\ r.back_off_tm = 0 =>
           \A x \in {la_RTS, la_RTS + 2 * MAX_PROP_DELAY},
              y \in {adj_CTS, adj_CTS + 2 * MAX_PROP_DELAY} :
             ~Collide(x, y, CFRM_GUARD_TIME, CFRM_GUARD_TIME)
  BY <1>2, <1>4, <1>5
<1> QED BY <1>6 DEF la_RTS, adj_CTS, r

\* A CTS.  It is kept until the data it answers has arrived: if the data is
\* still to come, the check finds a collision, or the node has not expired.
LEMMA CTSClear ==
  ASSUME NEW stmp, NEW cur, NEW det, NEW oth, NEW sd, Plain(stmp, cur, det, oth, sd),
         oth <= MAX_PROP_DELAY + CFRM_GUARD_TIME
  PROVE  LET r      == ckCTS(stmp, cur, det, oth, sd)
             arrive == cur + det
             answer == stmp + MAX_PROP_DELAY + oth
         IN  /\ r.expired => arrive > answer + DATA_GUARD_TIME
             /\ r.back_off_tm = 0 =>
                  \A x \in {arrive, arrive + 2 * MAX_PROP_DELAY} :
                    ~Collide(x, answer, DATA_GUARD_TIME \div 2, DATA_GUARD_TIME)
<1> DEFINE la_RTS   == cur + det
           la_DATA  == cur + 2 * MAX_PROP_DELAY + det
           adj_DATA == stmp + MAX_PROP_DELAY + oth
           al_CTS   == U16(cur + MAX_PROP_DELAY + sd)
           al_ACK   == U16(cur + 3 * MAX_PROP_DELAY + sd)
           lcl_ACK  == stmp + 2 * MAX_PROP_DELAY + det
           half     == DATA_GUARD_TIME \div 2
           tm       == OrElse(DataBackOff(la_RTS, adj_DATA),
                       OrElse(DataBackOff(la_DATA, adj_DATA),
                       OrElse(CfrmBackOff(lcl_ACK, al_CTS),
                              CfrmBackOff(lcl_ACK, al_ACK))))
           r        == ckCTS(stmp, cur, det, oth, sd)
<1>1. r = IF tm # 0 THEN Keep(tm)
          ELSE IF la_RTS > lcl_ACK + CFRM_GUARD_TIME THEN Expire ELSE Keep(0)
  BY PlainTimes DEF ckCTS
<1>2. /\ la_RTS \in Int /\ adj_DATA \in Int /\ la_DATA = la_RTS + 2 * MAX_PROP_DELAY
      /\ la_DATA \in Int /\ lcl_ACK \in Int
      /\ CFRM_GUARD_TIME \in Nat /\ MAX_PROP_DELAY \in Nat
      /\ DATA_GUARD_TIME \in Nat
      /\ lcl_ACK + CFRM_GUARD_TIME >= adj_DATA
  BY TimesAssumption DEF Plain
<1>a. half \in Nat
  BY TimesAssumption
<1>3. tm = 0 => DataBackOff(la_RTS, adj_DATA) = 0 /\ DataBackOff(la_DATA, adj_DATA) = 0
  <2> HIDE DEF la_RTS, la_DATA, adj_DATA, al_CTS, al_ACK, lcl_ACK
  <2> QED BY OrElseZero
<1> HIDE DEF la_RTS, la_DATA, adj_DATA, al_CTS, al_ACK, lcl_ACK, tm, r
<1>4. r.back_off_tm = 0 => tm = 0
  BY <1>1 DEF Keep
<1>5. tm = 0 => /\ ~Collide(la_RTS, adj_DATA, half, DATA_GUARD_TIME)
                /\ ~Collide(la_DATA, adj_DATA, half, DATA_GUARD_TIME)
  BY <1>2, <1>3, NoBackOff
<1>6. r.expired => tm = 0 /\ la_RTS > lcl_ACK + CFRM_GUARD_TIME
  BY <1>1 DEF Keep
<1> HIDE DEF half
<1>7. r.expired => la_RTS > adj_DATA + DATA_GUARD_TIME
  BY <1>2, <1>a, <1>5, <1>6 DEF Collide
<1>8. r.back_off_tm = 0 =>
        \A x \in {la_RTS, la_RTS + 2 * MAX_PROP_DELAY} :
          ~Collide(x, adj_DATA, half, DATA_GUARD_TIME)
  BY <1>2, <1>4, <1>5
<1> QED BY <1>7, <1>8 DEF la_RTS, adj_DATA, r, half

\* A DATA frame.
LEMMA DATAClear ==
  ASSUME NEW stmp, NEW cur, NEW det, NEW oth, NEW sd, Plain(stmp, cur, det, oth, sd)
  PROVE  LET r      == ckDATA(stmp, cur, det, oth)
             arrive == cur + det
             answer == stmp + MAX_PROP_DELAY + oth
         IN  /\ r.expired => arrive > answer + CFRM_GUARD_TIME
             /\ r.back_off_tm = 0 =>
                  \A x \in {arrive, arrive + 2 * MAX_PROP_DELAY} :
                    ~Collide(x, answer, CFRM_GUARD_TIME, CFRM_GUARD_TIME)
<1> DEFINE la_RTS  == cur + det
           la_DATA == cur + 2 * MAX_PROP_DELAY + det
           adj_ACK == stmp + MAX_PROP_DELAY + oth
           tm      == OrElse(CfrmBackOff(la_RTS, adj_ACK),
                             CfrmBackOff(la_DATA, adj_ACK))
           r       == ckDATA(stmp, cur, det, oth)
<1>1. r = IF tm # 0 THEN Keep(tm)
          ELSE IF la_RTS > adj_ACK + CFRM_GUARD_TIME THEN Expire ELSE Keep(0)
  BY PlainTimes DEF ckDATA
<1>2. /\ la_RTS \in Int /\ adj_ACK \in Int /\ la_DATA = la_RTS + 2 * MAX_PROP_DELAY
      /\ la_DATA \in Int
  BY TimesAssumption DEF Plain
<1>3. tm = 0 => CfrmBackOff(la_RTS, adj_ACK) = 0 /\ CfrmBackOff(la_DATA, adj_ACK) = 0
  <2> HIDE DEF la_RTS, la_DATA, adj_ACK
  <2> QED BY OrElseZero
<1> HIDE DEF la_RTS, la_DATA, adj_ACK, tm, r
<1>4. r.expired => la_RTS > adj_ACK + CFRM_GUARD_TIME
  BY <1>1 DEF Keep
<1>5. r.back_off_tm = 0 => tm = 0
  BY <1>1 DEF Keep
<1>6. r.back_off_tm = 0 =>
        \A x \in {la_RTS, la_RTS + 2 * MAX_PROP_DELAY} :
          ~Collide(x, adj_ACK, CFRM_GUARD_TIME, CFRM_GUARD_TIME)
  BY <1>2, <1>3, <1>5, NoBackOff
<1> QED BY <1>4, <1>6 DEF la_RTS, adj_ACK, r

----------------------------------------------------------------------------
(***************************************************************************)
(* Non-interference, for as long as no time stamp wraps (with stamps that  *)
(* wrap a run shows an RTS that is put off for ever).                      *)
(***************************************************************************)
\* No delay of the networks considered is larger than m.
Within(m) == \A t \in Topology, a, b \in Node : a # b => t[{a, b}] <= m

\* No time stamp wraps: in the time considered, from when the first frame can
\* have been sent, they count on from some origin, and so do the times that
\* ck_collision computes from them.  No node is farther away than an answer is
\* waited for.
NoWrap ==
  \E origin, oldest \in Int :
    /\ Within(oldest) /\ Within(MAX_PROP_DELAY + CFRM_GUARD_TIME)
    /\ \A t \in (StartTime - oldest)..(StartTime + MaxTime) :
         /\ TimeStamp(t) = t - origin
         /\ TimeStamp(t) + 3 * MAX_PROP_DELAY + 255 < 65536

\* The delay that a frame of s for d carries: none if it is for this node.
Carried(s, d) == IF d = LOCAL_ADDRESS THEN 0 ELSE Delay(s, d)

\* Every frame that was heard was sent by another node, no longer ago than the
\* largest delay.
HeardFrames ==
  \A f \in heard :
    /\ f.type \in CfrmType /\ f.src \in Adjacent /\ f.dst \in Node \ {f.src}
    /\ f.sent \in Int
    /\ f.sent <= now
    /\ \A oldest \in Int : Within(oldest) => f.sent >= StartTime - oldest

\* The map has the delays that the frames heard so far had and carried.
DelaysKnown ==
  /\ \A s \in Adjacent : delay[dly_harsh(s, LOCAL_ADDRESS)] = 0
  /\ \A f \in heard :
       /\ delay[dly_harsh(LOCAL_ADDRESS, f.src)] = Delay(f.src, LOCAL_ADDRESS)
       /\ delay[dly_harsh(f.src, f.dst)] = Carried(f.src, f.dst)

\* An RTS written now or later arrives after the last answer.
Over(f) == \A y \in Answers(f) : Arrival(f) > y + GuardAfter(f)

\* The collision node of a frame.
NodeOf(f, c) == /\ c.type = f.type /\ c.src = f.src /\ c.dst = f.dst
                /\ c.tmv_stmp = TimeStamp(f.sent)

\* A frame has its collision node until no RTS can collide with its answers any
\* more.
KeptOrOver == \A f \in heard : Over(f) \/ \E c \in coll : NodeOf(f, c)

\* The invariant: NonInterference alone says nothing of the nodes deleted.
NInv == DInv /\ HeardFrames /\ DelaysKnown /\ KeptOrOver /\ NonInterference

\* The entries that a frame changes.
LEMMA HearDelays ==
  ASSUME DInv, NEW type \in CfrmType, NEW s \in Adjacent, NEW d \in Node \ {s},
         Hear(type, s, d), NEW i \in Node, NEW j \in Node, i # j
  PROVE  delay'[dly_harsh(i, j)] =
           IF i = LOCAL_ADDRESS /\ j = s THEN Measured(Delay(s, LOCAL_ADDRESS))
           ELSE IF d # LOCAL_ADDRESS /\ i = s /\ j = d THEN Delay(s, d)
           ELSE delay[dly_harsh(i, j)]
<1> DEFINE D     == Measured(Delay(s, LOCAL_ADDRESS))
           E     == Delay(s, d)
           here  == dly_harsh(LOCAL_ADDRESS, s)
           other == dly_harsh(s, d)
           k     == dly_harsh(i, j)
<1>1. delay' = IF d = LOCAL_ADDRESS
               THEN [delay EXCEPT ![here] = D]
               ELSE [delay EXCEPT ![here] = D, ![other] = E]
  BY DEF Hear
<1>2. /\ LOCAL_ADDRESS \in Node /\ s \in Node /\ s # LOCAL_ADDRESS /\ d \in Node /\ s # d
  BY LocalAssumption DEF Adjacent
<1>3. /\ k = here <=> i = LOCAL_ADDRESS /\ j = s
      /\ k = other <=> i = s /\ j = d
  <2>1. ASSUME NEW a \in Node, NEW b \in Node, a # b, dly_harsh(i, j) = dly_harsh(a, b)
        PROVE  i = a /\ j = b
    <3>1. <<i, j>> \in Pair /\ <<a, b>> \in Pair
      BY <2>1 DEF Pair
    <3>2. <<i, j>>[1] = i /\ <<i, j>>[2] = j /\ <<a, b>>[1] = a /\ <<a, b>>[2] = b
      OBVIOUS
    <3>3. <<i, j>> = <<a, b>>
      BY <2>1, <3>1, <3>2, HashInjective
    <3> QED BY <3>2, <3>3
  <2> QED BY <1>2, <2>1
<1>4. k \in Index /\ delay \in [Index -> 0..255]
  <2>1. <<i, j>> \in Pair
    BY DEF Pair
  <2>2. dly_harsh(<<i, j>>[1], <<i, j>>[2]) \in Index
    BY <2>1, HashInRange
  <2> QED BY <2>2 DEF DInv, TypeOK
<1> HIDE DEF D, E, here, other, k
<1>5. delay'[k] = IF k = here /\ ~(d # LOCAL_ADDRESS /\ k = other) THEN D
                  ELSE IF d # LOCAL_ADDRESS /\ k = other THEN E
                  ELSE delay[k]
  BY <1>1, <1>4
<1>6. ~(k = here /\ k = other)
  BY <1>2, <1>3
<1>7. delay'[k] = IF i = LOCAL_ADDRESS /\ j = s THEN D
                  ELSE IF d # LOCAL_ADDRESS /\ i = s /\ j = d THEN E
                  ELSE delay[k]
  BY <1>3, <1>5, <1>6
<1> QED BY <1>7 DEF D, E, k

\* What is measured is the delay, when no time stamp wraps.
LEMMA MeasuredDelay ==
  ASSUME NInv, NoWrap, NEW s \in Adjacent
  PROVE  Measured(Delay(s, LOCAL_ADDRESS)) = Delay(s, LOCAL_ADDRESS)
<1> DEFINE D == Delay(s, LOCAL_ADDRESS)
<1>1. PICK origin \in Int, oldest \in Int :
        /\ Within(oldest)
        /\ \A t \in (StartTime - oldest)..(StartTime + MaxTime) : TimeStamp(t) = t - origin
  BY DEF NoWrap
<1>2. D \in 0..255 /\ D <= oldest
  BY <1>1, DelayType, LocalAssumption DEF Within, Delay, Adjacent, NInv, DInv
<1>3. now \in StartTime..(StartTime + MaxTime) /\ StartTime \in Int /\ MaxTime \in Int
  BY BoundsAssumption DEF NInv, DInv, TypeOK
<1> HIDE DEF D
<1>4. TimeStamp(now) = now - origin /\ TimeStamp(now - D) = now - D - origin
  BY <1>1, <1>2, <1>3
<1>5. TimeStamp(now) - TimeStamp(now - D) = D
  BY <1>2, <1>3, <1>4
<1>6. \A x \in 0..255 : x % 256 = x
  OBVIOUS
<1> QED BY <1>2, <1>5, <1>6 DEF Measured, D

\* The values an RTS is checked with.
LEMMA CheckArguments ==
  ASSUME NInv, NoWrap, NEW f \in heard, NEW d \in Adjacent
  PROVE  \E origin \in Int :
           LET stmp == TimeStamp(f.sent)
               cur  == TimeStamp(now)
               det  == delay[dly_harsh(LOCAL_ADDRESS, f.src)]
               oth  == delay[dly_harsh(f.src, f.dst)]
               sd   == delay[dly_harsh(LOCAL_ADDRESS, d)]
           IN  /\ Plain(stmp, cur, det, oth, sd)
               /\ oth <= MAX_PROP_DELAY + CFRM_GUARD_TIME
               /\ stmp = f.sent - origin /\ cur = now - origin
<1> DEFINE stmp == TimeStamp(f.sent)
           cur  == TimeStamp(now)
           det  == delay[dly_harsh(LOCAL_ADDRESS, f.src)]
           oth  == delay[dly_harsh(f.src, f.dst)]
           sd   == delay[dly_harsh(LOCAL_ADDRESS, d)]
<1>1. PICK origin \in Int, oldest \in Int :
        /\ Within(oldest) /\ Within(MAX_PROP_DELAY + CFRM_GUARD_TIME)
        /\ \A t \in (StartTime - oldest)..(StartTime + MaxTime) :
             /\ TimeStamp(t) = t - origin
             /\ TimeStamp(t) + 3 * MAX_PROP_DELAY + 255 < 65536
  BY DEF NoWrap
<1>2. /\ f.src \in Adjacent /\ f.dst \in Node /\ f.src # f.dst
      /\ f.sent \in Int /\ f.sent <= now
      /\ f.sent >= StartTime - oldest
  BY <1>1 DEF NInv, HeardFrames
<1>3. now \in Int /\ now <= StartTime + MaxTime /\ StartTime \in Int /\ MaxTime \in Int
  BY BoundsAssumption DEF NInv, DInv, TypeOK
<1>4. f.sent \in (StartTime - oldest)..(StartTime + MaxTime)
      /\ now \in (StartTime - oldest)..(StartTime + MaxTime)
  BY <1>2, <1>3
<1>5. stmp = f.sent - origin /\ cur = now - origin /\ cur + 3 * MAX_PROP_DELAY + 255 < 65536
  BY <1>1, <1>4
<1>6. stmp \in Nat /\ cur \in Nat
  BY <1>2, <1>3, TimeStampType
<1>7. det \in 0..255 /\ oth \in 0..255 /\ sd \in 0..255
  <2>1. /\ dly_harsh(LOCAL_ADDRESS, f.src) \in Index
        /\ dly_harsh(LOCAL_ADDRESS, d) \in Index
    BY <1>2, Indices
  <2>2. dly_harsh(f.src, f.dst) \in Index
    <3>1. <<f.src, f.dst>> \in Pair
      BY <1>2 DEF Pair, Adjacent
    <3>2. dly_harsh(<<f.src, f.dst>>[1], <<f.src, f.dst>>[2]) \in Index
      BY <3>1, HashInRange
    <3> QED BY <3>2
  <2> QED BY <2>1, <2>2 DEF NInv, DInv, TypeOK
<1>8. oth <= MAX_PROP_DELAY + CFRM_GUARD_TIME
  <2>1. oth = Carried(f.src, f.dst)
    BY DEF NInv, DelaysKnown
  <2>2. Delay(f.src, f.dst) <= MAX_PROP_DELAY + CFRM_GUARD_TIME
    BY <1>1, <1>2 DEF Within, Delay, NInv, DInv, Adjacent
  <2> QED BY <2>1, <2>2, TimesAssumption DEF Carried
<1>9. stmp <= cur
  BY <1>2, <1>3, <1>5
<1> HIDE DEF stmp, cur, det, oth, sd
<1>10. Plain(stmp, cur, det, oth, sd)
  BY <1>5, <1>6, <1>7, <1>9 DEF Plain
<1> QED BY <1>5, <1>8, <1>10 DEF stmp, cur, det, oth, sd

\* Whether two frames collide depends on the time between them.
LEMMA CollideShift ==
  ASSUME NEW x \in Int, NEW y \in Int, NEW b \in Int, NEW a \in Int, NEW o \in Int
  PROVE  Collide(x - o, y - o, b, a) <=> Collide(x, y, b, a)
BY DEF Collide

\* The check of a node speaks for its frame.
LEMMA CheckSound ==
  ASSUME NInv, NoWrap, NEW f \in heard, NEW c \in coll, NodeOf(f, c), NEW d \in Adjacent
  PROVE  /\ Check(c, d).expired => Over(f)
         /\ Check(c, d).back_off_tm = 0 => Clear(f)
<1> DEFINE stmp   == TimeStamp(f.sent)
           cur    == TimeStamp(now)
           det    == delay[dly_harsh(LOCAL_ADDRESS, f.src)]
           oth    == delay[dly_harsh(f.src, f.dst)]
           sd     == delay[dly_harsh(LOCAL_ADDRESS, d)]
           answer == stmp + MAX_PROP_DELAY + oth
           half   == DATA_GUARD_TIME \div 2
<1>1. PICK o \in Int :
        /\ Plain(stmp, cur, det, oth, sd)
        /\ oth <= MAX_PROP_DELAY + CFRM_GUARD_TIME
        /\ stmp = f.sent - o /\ cur = now - o
  BY CheckArguments
<1>2. Check(c, d) = ck_collision(f.type, stmp, cur, det, oth, sd)
  BY DEF Check, NodeOf
<1>3. f.type \in CfrmType /\ f.sent \in Int /\ now \in Int
  BY BoundsAssumption DEF NInv, HeardFrames, DInv, TypeOK
<1>4. /\ MAX_PROP_DELAY \in Nat /\ CFRM_GUARD_TIME \in Nat /\ DATA_GUARD_TIME \in Nat
      /\ half \in Int
  BY TimesAssumption
<1>5. Arrival(f) = now + det
  BY DEF Arrival
<1>6. Answers(f) = IF f.type = "RTS"
                   THEN {f.sent + MAX_PROP_DELAY + oth,
                         f.sent + MAX_PROP_DELAY + oth + 2 * MAX_PROP_DELAY}
                   ELSE IF f.type = "ACK" THEN {}
                   ELSE {f.sent + MAX_PROP_DELAY + oth}
  BY <1>3 DEF Answers, CfrmType
<1>7. det \in Int /\ oth \in Int
  BY <1>1 DEF Plain
<1> HIDE DEF stmp, cur, det, oth, sd, half
<1> DEFINE X == {cur + det, cur + det + 2 * MAX_PROP_DELAY}
<1>8. \A x \in {Arrival(f), Arrival(f) + 2 * MAX_PROP_DELAY} : x \in Int /\ x - o \in X
  BY <1>1, <1>3, <1>4, <1>5, <1>7
<1>9. CASE f.type = "RTS"
  <2> DEFINE r == ckRTS(stmp, cur, det, oth, sd)
  <2>1. Check(c, d) = r
    BY <1>2, <1>9 DEF ck_collision
  <2>2. /\ r.expired => cur + det > answer + 2 * MAX_PROP_DELAY + CFRM_GUARD_TIME
        /\ r.back_off_tm = 0 =>
             \A x \in X, y \in {answer, answer + 2 * MAX_PROP_DELAY} :
               ~Collide(x, y, CFRM_GUARD_TIME, CFRM_GUARD_TIME)
    BY <1>1, RTSClear
  <2> HIDE DEF r, X
  <2>3. \A y \in Answers(f) : y \in Int /\ y - o \in {answer, answer + 2 * MAX_PROP_DELAY}
    BY <1>1, <1>3, <1>4, <1>6, <1>7, <1>9
  <2>4. GuardBefore(f) = CFRM_GUARD_TIME /\ GuardAfter(f) = CFRM_GUARD_TIME
    BY <1>9 DEF GuardBefore, GuardAfter
  <2>5. r.expired => Over(f)
    BY <1>1, <1>3, <1>4, <1>5, <1>6, <1>7, <1>9, <2>2, <2>4 DEF Over
  <2>6. r.back_off_tm = 0 => Clear(f)
    BY <1>4, <1>8, <2>2, <2>3, <2>4, CollideShift DEF Clear
  <2> QED BY <2>1, <2>5, <2>6
<1>10. CASE f.type = "CTS"
  <2> DEFINE r == ckCTS(stmp, cur, det, oth, sd)
  <2>1. Check(c, d) = r
    BY <1>2, <1>10 DEF ck_collision
  <2>2. /\ r.expired => cur + det > answer + DATA_GUARD_TIME
        /\ r.back_off_tm = 0 =>
             \A x \in X : ~Collide(x, answer, half, DATA_GUARD_TIME)
    BY <1>1, CTSClear DEF half
  <2> HIDE DEF r, X
  <2>3. \A y \in Answers(f) : y \in Int /\ y - o = answer
    BY <1>1, <1>3, <1>4, <1>6, <1>7, <1>10
  <2>4. GuardBefore(f) = half /\ GuardAfter(f) = DATA_GUARD_TIME
    BY <1>10 DEF GuardBefore, GuardAfter, half
  <2>5. r.expired => Over(f)
    BY <1>1, <1>3, <1>4, <1>5, <1>6, <1>7, <1>10, <2>2, <2>4 DEF Over
  <2>6. r.back_off_tm = 0 => Clear(f)
    BY <1>4, <1>8, <2>2, <2>3, <2>4, CollideShift DEF Clear
  <2> QED BY <2>1, <2>5, <2>6
<1>11. CASE f.type = "DATA"
  <2> DEFINE r == ckDATA(stmp, cur, det, oth)
  <2>1. Check(c, d) = r
    BY <1>2, <1>11 DEF ck_collision
  <2>2. /\ r.expired => cur + det > answer + CFRM_GUARD_TIME
        /\ r.back_off_tm = 0 =>
             \A x \in X : ~Collide(x, answer, CFRM_GUARD_TIME, CFRM_GUARD_TIME)
    BY <1>1, DATAClear
  <2> HIDE DEF r, X
  <2>3. \A y \in Answers(f) : y \in Int /\ y - o = answer
    BY <1>1, <1>3, <1>4, <1>6, <1>7, <1>11
  <2>4. GuardBefore(f) = CFRM_GUARD_TIME /\ GuardAfter(f) = CFRM_GUARD_TIME
    BY <1>11 DEF GuardBefore, GuardAfter
  <2>5. r.expired => Over(f)
    BY <1>1, <1>3, <1>4, <1>5, <1>6, <1>7, <1>11, <2>2, <2>4 DEF Over
  <2>6. r.back_off_tm = 0 => Clear(f)
    BY <1>4, <1>8, <2>2, <2>3, <2>4, CollideShift DEF Clear
  <2> QED BY <2>1, <2>5, <2>6
<1>12. CASE f.type = "ACK"
  BY <1>6, <1>12 DEF Over, Clear
<1> QED BY <1>3, <1>9, <1>10, <1>11, <1>12 DEF CfrmType

----------------------------------------------------------------------------
\* A frame stays over as time passes, since its delays in the map do not change.
LEMMA StaysOver ==
  ASSUME NInv, DelaysKnown', UNCHANGED topology, now' \in Int, now' >= now,
         NEW f \in heard, f \in heard', Over(f)
  PROVE  Over(f)'
<1>1. /\ delay[dly_harsh(LOCAL_ADDRESS, f.src)]' = delay[dly_harsh(LOCAL_ADDRESS, f.src)]
      /\ delay[dly_harsh(f.src, f.dst)]' = delay[dly_harsh(f.src, f.dst)]
  BY DEF NInv, DelaysKnown, Carried, Delay
<1> DEFINE det == delay[dly_harsh(LOCAL_ADDRESS, f.src)]
           oth == delay[dly_harsh(f.src, f.dst)]
<1>2. Answers(f)' = Answers(f) /\ GuardAfter(f)' = GuardAfter(f)
  BY <1>1 DEF Answers, GuardAfter
<1>3. now \in Int /\ det \in Int /\ oth \in Int /\ f.sent \in Int /\ f.type \in CfrmType
  <2>1. dly_harsh(LOCAL_ADDRESS, f.src) \in Index /\ dly_harsh(f.src, f.dst) \in Index
    <3>1. f.src \in Adjacent /\ f.dst \in Node /\ f.src # f.dst
      BY DEF NInv, HeardFrames
    <3>2. <<f.src, f.dst>> \in Pair
      BY <3>1 DEF Pair, Adjacent
    <3>3. dly_harsh(<<f.src, f.dst>>[1], <<f.src, f.dst>>[2]) \in Index
      BY <3>2, HashInRange
    <3> QED BY <3>1, <3>3, Indices
  <2> QED BY <2>1, BoundsAssumption DEF NInv, DInv, TypeOK, HeardFrames
<1>4. Arrival(f)' = now' + det /\ Arrival(f) = now + det
  BY <1>1 DEF Arrival
<1>5. \A y \in Answers(f) : y \in Int
  <2> HIDE DEF oth
  <2>1. Answers(f) \subseteq {f.sent + MAX_PROP_DELAY + oth,
                             f.sent + MAX_PROP_DELAY + oth + 2 * MAX_PROP_DELAY}
    BY <1>3 DEF Answers, CfrmType, oth
  <2> QED BY <1>3, <2>1, TimesAssumption
<1>6. GuardAfter(f) \in Int
  BY TimesAssumption DEF GuardAfter
<1> HIDE DEF det, oth
<1>7. ASSUME NEW y \in Answers(f) PROVE Arrival(f)' > y + GuardAfter(f)
  BY <1>3, <1>4, <1>5, <1>6 DEF Over
<1> QED BY <1>2, <1>7 DEF Over

\* An RTS that arrives after all answers collides with none.
LEMMA OverIsClear ==
  ASSUME NInv, NEW f \in heard, Over(f)
  PROVE  Clear(f)
<1> DEFINE det == delay[dly_harsh(LOCAL_ADDRESS, f.src)]
           oth == delay[dly_harsh(f.src, f.dst)]
<1>1. now \in Int /\ det \in Int /\ oth \in Int /\ f.sent \in Int /\ f.type \in CfrmType
  <2>1. dly_harsh(LOCAL_ADDRESS, f.src) \in Index /\ dly_harsh(f.src, f.dst) \in Index
    <3>1. f.src \in Adjacent /\ f.dst \in Node /\ f.src # f.dst
      BY DEF NInv, HeardFrames
    <3>2. <<f.src, f.dst>> \in Pair
      BY <3>1 DEF Pair, Adjacent
    <3>3. dly_harsh(<<f.src, f.dst>>[1], <<f.src, f.dst>>[2]) \in Index
      BY <3>2, HashInRange
    <3> QED BY <3>1, <3>3, Indices
  <2> QED BY <2>1, BoundsAssumption DEF NInv, DInv, TypeOK, HeardFrames
<1>2. Arrival(f) \in Int /\ MAX_PROP_DELAY \in Nat /\ GuardAfter(f) \in Int
  BY <1>1, TimesAssumption DEF Arrival, GuardAfter
<1>3. \A y \in Answers(f) : y \in Int
  <2> HIDE DEF oth
  <2>1. Answers(f) \subseteq {f.sent + MAX_PROP_DELAY + oth,
                             f.sent + MAX_PROP_DELAY + oth + 2 * MAX_PROP_DELAY}
    BY <1>1 DEF Answers, CfrmType, oth
  <2> QED BY <1>1, <2>1, TimesAssumption
<1>4. \A y \in Answers(f) : Arrival(f) > y + GuardAfter(f)
  BY DEF Over
<1> QED BY <1>2, <1>3, <1>4 DEF Clear, Collide

\* The initial states.
LEMMA NInit == Init => NInv
<1> SUFFICES ASSUME Init PROVE NInv
  OBVIOUS
<1>1. \A s \in Adjacent : delay[dly_harsh(s, LOCAL_ADDRESS)] = 0
  <2> SUFFICES ASSUME NEW s \in Adjacent PROVE delay[dly_harsh(s, LOCAL_ADDRESS)] = 0
    OBVIOUS
  <2>1. <<s, LOCAL_ADDRESS>> \in Pair
    BY LocalAssumption DEF Pair, Adjacent
  <2>2. dly_harsh(<<s, LOCAL_ADDRESS>>[1], <<s, LOCAL_ADDRESS>>[2]) \in Index
    BY <2>1, HashInRange
  <2> QED BY <2>2 DEF Init
<1>2. heard = {} /\ phy_tx = 0
  BY DEF Init
<1> QED BY <1>1, <1>2, DInit
     DEF NInv, HeardFrames, DelaysKnown, KeptOrOver, NonInterference

\* A frame is heard: it gets its node and its delays, and no RTS is written.
LEMMA HearKeeps ==
  ASSUME NInv, NoWrap, NEW type \in CfrmType, NEW s \in Adjacent,
         NEW d \in Node \ {s}, Hear(type, s, d)
  PROVE  NInv'
<1> DEFINE D     == Delay(s, LOCAL_ADDRESS)
           frame == [type |-> type, src |-> s, dst |-> d, sent |-> now - D]
           node  == [no |-> Cardinality(heard) + 1, type |-> type, src |-> s,
                     dst |-> d, tmv_stmp |-> TimeStamp(now - D)]
<1>1. /\ coll' = coll \cup {node}
      /\ heard' = heard \cup {frame}
      /\ phy_tx' = 0
      /\ UNCHANGED <<now, topology>>
  BY DEF Hear
<1>2. DInv'
  BY HearStep DEF NInv
<1>3. /\ s \in Node /\ s # LOCAL_ADDRESS /\ LOCAL_ADDRESS \in Node
      /\ now \in Int /\ StartTime \in Int /\ now >= StartTime
      /\ D \in 0..255
      /\ \A oldest \in Int : Within(oldest) => D <= oldest
  <2>1. s \in Node /\ s # LOCAL_ADDRESS /\ LOCAL_ADDRESS \in Node
    BY LocalAssumption DEF Adjacent
  <2>2. topology \in Topology
    BY DEF NInv, DInv
  <2>3. D \in 0..255
    BY <2>1, <2>2, DelayType
  <2>4. \A oldest \in Int : Within(oldest) => D <= oldest
    BY <2>1, <2>2 DEF Within, Delay
  <2>5. now \in Int /\ StartTime \in Int /\ now >= StartTime
    BY BoundsAssumption DEF NInv, DInv, TypeOK
  <2> QED BY <2>1, <2>3, <2>4, <2>5
<1>4. HeardFrames'
  <2> SUFFICES ASSUME NEW f \in heard'
               PROVE  /\ f.type \in CfrmType /\ f.src \in Adjacent
                      /\ f.dst \in Node \ {f.src} /\ f.sent \in Int /\ f.sent <= now
                      /\ \A oldest \in Int :
                           Within(oldest) => f.sent >= StartTime - oldest
    BY <1>1 DEF HeardFrames
  <2>1. CASE f \in heard
    BY <2>1 DEF NInv, HeardFrames
  <2>2. CASE f = frame
    <3>1. f.type = type /\ f.src = s /\ f.dst = d /\ f.sent = now - D
      BY <2>2
    <3> HIDE DEF D
    <3>2. f.sent \in Int /\ f.sent <= now
      BY <1>3, <3>1
    <3>3. ASSUME NEW oldest \in Int, Within(oldest) PROVE f.sent >= StartTime - oldest
      <4>1. D <= oldest
        BY <1>3, <3>3
      <4> QED BY <1>3, <3>1, <4>1
    <3> QED BY <3>1, <3>2, <3>3
  <2> QED BY <1>1, <2>1, <2>2
<1>5. DelaysKnown'
  <2>1. ASSUME NEW a \in Adjacent PROVE delay'[dly_harsh(a, LOCAL_ADDRESS)] = 0
    <3>1. a \in Node /\ a # LOCAL_ADDRESS
      BY DEF Adjacent
    <3>2. delay'[dly_harsh(a, LOCAL_ADDRESS)] = delay[dly_harsh(a, LOCAL_ADDRESS)]
      BY <1>3, <3>1, HearDelays DEF NInv
    <3> QED BY <3>2 DEF NInv, DelaysKnown
  <2>2. ASSUME NEW f \in heard'
        PROVE  /\ delay'[dly_harsh(LOCAL_ADDRESS, f.src)] = Delay(f.src, LOCAL_ADDRESS)
               /\ delay'[dly_harsh(f.src, f.dst)] = Carried(f.src, f.dst)
    <3>1. f.src \in Node /\ f.src # LOCAL_ADDRESS /\ f.dst \in Node /\ f.src # f.dst
      BY <1>1, <1>4 DEF HeardFrames, Adjacent
    <3>2. delay'[dly_harsh(LOCAL_ADDRESS, f.src)] =
            IF f.src = s THEN D ELSE delay[dly_harsh(LOCAL_ADDRESS, f.src)]
      <4>1. Measured(D) = D
        BY MeasuredDelay
      <4>2. delay'[dly_harsh(LOCAL_ADDRESS, f.src)] =
              IF f.src = s THEN Measured(D) ELSE delay[dly_harsh(LOCAL_ADDRESS, f.src)]
        BY <1>3, <3>1, HearDelays DEF NInv
      <4> QED BY <4>1, <4>2
    <3>3. delay'[dly_harsh(f.src, f.dst)] =
            IF d # LOCAL_ADDRESS /\ f.src = s /\ f.dst = d THEN Delay(s, d)
            ELSE delay[dly_harsh(f.src, f.dst)]
      BY <1>3, <3>1, HearDelays DEF NInv
    <3>4. CASE f \in heard
      BY <3>2, <3>3, <3>4 DEF NInv, DelaysKnown, Carried
    <3>5. CASE f = frame
      <4>1. f.src = s /\ f.dst = d
        BY <3>5
      <4>2. d = LOCAL_ADDRESS => delay[dly_harsh(s, d)] = 0
        BY DEF NInv, DelaysKnown
      <4> QED BY <3>2, <3>3, <4>1, <4>2 DEF Carried
    <3> QED BY <1>1, <3>4, <3>5
  <2>3. UNCHANGED topology
    BY <1>1
  <2> QED BY <2>1, <2>2, <2>3 DEF DelaysKnown, Delay, Carried
<1>6. KeptOrOver'
  <2> SUFFICES ASSUME NEW f \in heard'
               PROVE  Over(f)' \/ \E c \in coll' : NodeOf(f, c)
    BY DEF KeptOrOver, NodeOf
  <2>1. CASE f \in heard
    <3>1. CASE Over(f)
      <4>1. now' \in Int /\ now' >= now
        BY <1>1, <1>3
      <4> QED BY <1>1, <1>5, <2>1, <3>1, <4>1, StaysOver
    <3>2. CASE \E c \in coll : NodeOf(f, c)
      BY <1>1, <3>2
    <3> QED BY <2>1, <3>1, <3>2 DEF NInv, KeptOrOver
  <2>2. CASE f = frame
    <3>1. /\ node.type = type /\ node.src = s /\ node.dst = d
          /\ node.tmv_stmp = TimeStamp(now - D)
      OBVIOUS
    <3>2. NodeOf(f, node)
      BY <2>2, <3>1 DEF NodeOf
    <3> QED BY <1>1, <3>2
  <2> QED BY <1>1, <2>1, <2>2
<1>7. NonInterference'
  BY <1>1 DEF NonInterference
<1> QED BY <1>2, <1>4, <1>5, <1>6, <1>7 DEF NInv

\* An RTS is checked: the nodes deleted are those of frames that are over, and it
\* is written only if no node is left that collides.
LEMMA SendKeeps ==
  ASSUME NInv, NoWrap, NEW d \in Adjacent, SendRTS(d), packets' \in 0..MaxRTS
  PROVE  NInv'
<1>1. PICK C : /\ C = Collisions(d)
               /\ WriteRTS(d, C) \/ PutOffRTS(d, C)
               /\ DeleteExpired(d, C)
               /\ UNCHANGED <<now, topology, delay, heard>>
  BY DEF SendRTS
<1>2. DInv'
  BY SendStep DEF NInv
<1>3. HeardFrames' /\ DelaysKnown'
  BY <1>1 DEF NInv, HeardFrames, DelaysKnown, Delay, Carried
<1>4. \A f \in heard : (Over(f)' <=> Over(f)) /\ (Clear(f)' <=> Clear(f))
  BY <1>1 DEF Over, Clear, Arrival, Answers, GuardBefore, GuardAfter
<1>5. KeptOrOver'
  <2> SUFFICES ASSUME NEW f \in heard, ~Over(f)
               PROVE  \E c \in coll' : NodeOf(f, c)
    BY <1>1, <1>4 DEF KeptOrOver, NodeOf
  <2>1. PICK c \in coll : NodeOf(f, c)
    BY DEF NInv, KeptOrOver
  <2>2. ~Check(c, d).expired
    BY <2>1, CheckSound
  <2> QED BY <1>1, <2>1, <2>2 DEF DeleteExpired
<1>6. NonInterference'
  <2> SUFFICES ASSUME phy_tx' # 0, NEW f \in heard
               PROVE  Clear(f)
    BY <1>1, <1>4 DEF NonInterference
  <2>1. Collisions(d) = {}
    BY <1>1 DEF WriteRTS, PutOffRTS
  <2>2. CASE Over(f)
    BY <2>2, OverIsClear
  <2>3. CASE ~Over(f)
    <3>1. PICK c \in coll : NodeOf(f, c)
      BY <2>3 DEF NInv, KeptOrOver
    <3>2. ~(Check(c, d).back_off_tm > 0) /\ Check(c, d) \in Result
      BY <2>1, CheckType DEF Collisions, NInv
    <3>3. Check(c, d).back_off_tm = 0
      BY <3>2, WheelAssumption DEF Result, Interval
    <3> QED BY <3>1, <3>3, CheckSound
  <2> QED BY <2>2, <2>3
<1> QED BY <1>2, <1>3, <1>5, <1>6 DEF NInv

\* Time advances.
LEMMA AdvanceKeeps ==
  ASSUME NInv, Advance
  PROVE  NInv'
<1>1. now' > now /\ phy_tx' = 0 /\ UNCHANGED <<topology, delay, coll, heard>>
  BY DEF Advance
<1>2. DInv'
  BY AdvanceStep DEF NInv
<1>3. now \in Int /\ now' \in Int /\ now' >= now
  BY <1>1, <1>2, BoundsAssumption DEF NInv, DInv, TypeOK
<1>4. HeardFrames'
  <2> SUFFICES ASSUME NEW f \in heard
               PROVE  /\ f.type \in CfrmType /\ f.src \in Adjacent
                      /\ f.dst \in Node \ {f.src} /\ f.sent \in Int /\ f.sent <= now'
                      /\ \A oldest \in Int :
                           Within(oldest) => f.sent >= StartTime - oldest
    BY <1>1 DEF HeardFrames
  <2> QED BY <1>3 DEF NInv, HeardFrames
<1>5. DelaysKnown'
  BY <1>1 DEF NInv, DelaysKnown, Delay, Carried
<1>6. KeptOrOver'
  <2> SUFFICES ASSUME NEW f \in heard
               PROVE  Over(f)' \/ \E c \in coll : NodeOf(f, c)
    BY <1>1 DEF KeptOrOver, NodeOf
  <2>1. CASE Over(f)
    BY <1>1, <1>3, <1>5, <2>1, StaysOver
  <2> QED BY <2>1 DEF NInv, KeptOrOver
<1> QED BY <1>1, <1>2, <1>4, <1>5, <1>6 DEF NInv, NonInterference

\* NInv is an invariant.
THEOREM NonInterferenceInvariance == Spec => [](NoWrap => NInv)
<1>1. ASSUME NoWrap, NInv, [Next]_vars PROVE NInv'
  <2>1. ASSUME NEW type \in CfrmType, NEW s \in Adjacent,
               NEW d \in Node \ {s}, Hear(type, s, d)
        PROVE  NInv'
    BY <1>1, <2>1, HearKeeps
  <2>2. CASE NewRTS
    <3>1. PICK d \in Adjacent : SendRTS(d)
      BY <2>2 DEF NewRTS
    <3>2. packets' \in 0..MaxRTS
      BY <1>1, <2>2, BoundsAssumption DEF NewRTS, NInv, DInv, TypeOK
    <3> QED BY <1>1, <3>1, <3>2, SendKeeps
  <2>3. CASE RetryRTS
    <3>1. rts \in Adjacent /\ SendRTS(rts) /\ packets' \in 0..MaxRTS
      BY <1>1, <2>3 DEF RetryRTS, NInv, DInv, TypeOK
    <3> QED BY <1>1, <3>1, SendKeeps
  <2>4. CASE Advance
    BY <1>1, <2>4, AdvanceKeeps
  <2>5. CASE Ended \/ UNCHANGED vars
    <3>1. UNCHANGED vars
      BY <2>5 DEF Ended
    <3>2. DInv'
      BY <1>1, <3>1 DEF vars, NInv, DInv, TypeOK, BackOffInterval
    <3>3. UNCHANGED <<now, topology, delay, coll, heard, phy_tx>>
      BY <3>1 DEF vars
    <3>4. HeardFrames' /\ DelaysKnown'
      BY <1>1, <3>3 DEF NInv, HeardFrames, DelaysKnown, Delay, Carried
    <3>5. \A f : (Over(f)' <=> Over(f)) /\ (Clear(f)' <=> Clear(f))
      BY <3>3 DEF Over, Clear, Arrival, Answers, GuardBefore, GuardAfter
    <3>6. KeptOrOver'
      BY <1>1, <3>3, <3>5 DEF NInv, KeptOrOver, NodeOf
    <3>7. NonInterference'
      BY <1>1, <3>3, <3>5 DEF NInv, NonInterference
    <3> QED BY <3>2, <3>6, <3>7, <3>4 DEF NInv
  <2> QED BY <1>1, <2>1, <2>2, <2>3, <2>4, <2>5 DEF Next
<1>2. (NoWrap => NInv) /\ [Next]_vars => (NoWrap => NInv)'
  <2>1. NoWrap' <=> NoWrap
    BY DEF NoWrap, Within, TimeStamp
  <2> QED BY <1>1, <2>1
<1>3. Init => (NoWrap => NInv)
  BY NInit
<1> QED BY <1>2, <1>3, PTL DEF Spec

\* "Neighboring non-interference (no collision in the adjacent node)": an RTS that
\* is written, and its data, do not meet an answer to a frame that was heard, in
\* any network and whatever nodes were deleted, as long as no time stamp wraps.
THEOREM NeighboringNonInterference == Spec => [](NoWrap => NonInterference)
<1>1. (NoWrap => NInv) => (NoWrap => NonInterference)
  BY DEF NInv
<1> QED BY <1>1, NonInterferenceInvariance, PTL
============================================================================

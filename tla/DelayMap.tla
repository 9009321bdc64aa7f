------------------------------ MODULE DelayMap ------------------------------
(***************************************************************************)
(* The delay map and the collision map (dly_map_man.c), with the steps of  *)
(* mac_DOTS and send_frm(RTS) that use them: every frame that is heard     *)
(* updates a delay and appends a collision node; an RTS is checked against *)
(* all nodes and written, or put off by the back-off of the first that     *)
(* collides; nodes whose handshake is over are deleted on the way.         *)
(*                                                                         *)
(* Nodes do not move: Delay(a, b) is the time a frame takes from a to b,   *)
(* with its processing, and what frames between the two carry.             *)
(*                                                                         *)
(* A definition named Op_Suffix is operator Op with a plausible bug; the   *)
(* properties are tried against it.                                        *)
(***************************************************************************)
EXTENDS CollisionCheck, FiniteSets

CONSTANTS LOCAL_ADDRESS,
          TIME_WHEEL_SIZE,
          Topology,     \* [{a, b} -> Nat]s: the delays that are considered
          StartTime,    \* time of the first step
          Steps,        \* bound: by how much time advances in one step
          HearTime,     \* bound: frames are heard until StartTime + HearTime
          MaxFrames,    \* bound: frames that are heard
          MaxRTS,       \* bound: packets whose RTS is sent
          MaxTime       \* bound: time advances until StartTime + MaxTime

ASSUME LocalAssumption == LOCAL_ADDRESS \in Node
ASSUME TopologyAssumption ==
  \A t \in Topology, a, b \in Node : a # b => t[{a, b}] \in 0..255
ASSUME WheelAssumption ==
  /\ TIME_WHEEL_SIZE \in Nat
  /\ 2 * CFRM_GUARD_TIME + 5 < TIME_WHEEL_SIZE
  /\ DATA_GUARD_TIME \div 2 + DATA_GUARD_TIME + 5 < TIME_WHEEL_SIZE
ASSUME BoundsAssumption == /\ StartTime \in Nat /\ MaxTime \in Nat
                           /\ HearTime \in Nat /\ MaxFrames \in Nat /\ MaxRTS \in Nat
                           /\ Steps \subseteq Nat \ {0}

Adjacent == Node \ {LOCAL_ADDRESS}
CfrmType == {"RTS", "CTS", "DATA", "ACK"}

\* Collision nodes are numbered in the order in which they are added: a list
\* is a set of nodes, and its order the order of the numbers.
CollNode == [no : Nat \ {0}, type : CfrmType, src : Adjacent, dst : Node,
             tmv_stmp : Nat]

VARIABLES
  now,       \* tenths of a second
  topology,  \* the delays of this behaviour
  delay,     \* [Index -> u_int8_t]: dly_map[].delay
  coll,      \* the collision nodes in the lists of all pairs
  rts,       \* destination of the RTS that was put off, 0 if there is none
  due,       \* time at which its timer fires
  phy_tx,    \* destination of the RTS written in this step, 0 if there is none
  packets,   \* packets whose RTS was sent, or put off
  heard      \* the frames heard so far, with the time they were sent at

vars == <<now, topology, delay, coll, rts, due, phy_tx, packets, heard>>

Delay(a, b) == topology[{a, b}]

Init == /\ now = StartTime
        /\ topology \in Topology
        /\ delay = [k \in Index |-> 0]
        /\ coll = {}
        /\ rts = 0 /\ due = 0 /\ phy_tx = 0 /\ packets = 0
        /\ heard = {}

----------------------------------------------------------------------------
\* The u_int8_t that mac_DOTS stores for a frame sent D ago: a difference of time
\* stamps, which is not D when they wrap in between.
Measured(D) == (TimeStamp(now) - TimeStamp(now - D)) % 256

\* mac_DOTS, with add_coll_node: a frame of s for d was sent Delay(s, local)
\* ago.  A frame for another node also carries the delay between s and d.
Hear(type, s, d) ==
  /\ now <= StartTime + HearTime /\ Cardinality(heard) < MaxFrames
  /\ LET D     == Delay(s, LOCAL_ADDRESS)
         here  == dly_harsh(LOCAL_ADDRESS, s)
         other == dly_harsh(s, d)
         frame == [type |-> type, src |-> s, dst |-> d, sent |-> now - D]
         node  == [no |-> Cardinality(heard) + 1, type |-> type, src |-> s,
                   dst |-> d, tmv_stmp |-> TimeStamp(now - D)]
     IN  /\ frame \notin heard
         /\ delay' = IF d = LOCAL_ADDRESS
                     THEN [delay EXCEPT ![here] = Measured(D)]
                     ELSE [delay EXCEPT ![here] = Measured(D), ![other] = Delay(s, d)]
         /\ coll' = coll \cup {node}
         /\ heard' = heard \cup {frame}
  /\ phy_tx' = 0
  /\ UNCHANGED <<now, topology, rts, due, packets>>

\* ck_collision of a node against an RTS to d.
Check(node, d) ==
  ck_collision(node.type, node.tmv_stmp, TimeStamp(now),
               delay[dly_harsh(LOCAL_ADDRESS, node.src)],
               delay[dly_harsh(node.src, node.dst)],
               delay[dly_harsh(LOCAL_ADDRESS, d)])

(***************************************************************************)
(* ck_coll_map walks the nodes list by list, each from the front, and ends *)
(* at the first node that collides.                                        *)
(***************************************************************************)
ListOf(c) == dly_harsh(c.src, c.dst)

Before(c, e) == ListOf(c) < ListOf(e) \/ (ListOf(c) = ListOf(e) /\ c.no < e.no)

Collisions(d) == {c \in coll : Check(c, d).back_off_tm > 0}

\* Every node that the walk passes and finds expired is deleted, when the
\* nodes in C are those that collide.
DeleteExpired(d, C) ==
  coll' = {c \in coll : Check(c, d).expired => \E e \in C : ~Before(c, e)}

\* send_frm(RTS): the frame is written, or a timer is set.
WriteRTS(d, C) ==
  /\ C = {}
  /\ rts' = 0 /\ due' = 0 /\ phy_tx' = d

PutOffRTS(d, C) ==
  \E c \in C :
    /\ \A e \in C \ {c} : Before(c, e)
    /\ rts' = d /\ due' = now + Check(c, d).back_off_tm /\ phy_tx' = 0

SendRTS(d) == \E C \in {Collisions(d)} :
  /\ WriteRTS(d, C) \/ PutOffRTS(d, C)
  /\ DeleteExpired(d, C)
  /\ UNCHANGED <<now, topology, delay, heard>>

\* By main, for a new packet, and by the timer of an RTS that was put off.
NewRTS == /\ rts = 0 /\ packets < MaxRTS
          /\ packets' = packets + 1
          /\ \E d \in Adjacent : SendRTS(d)
RetryRTS == /\ rts # 0 /\ now = due
            /\ packets' = packets
            /\ SendRTS(rts)

\* Time passes; a timer that is due is not passed over.
Advance == \E n \in Steps :
  /\ rts # 0 \/ packets < MaxRTS
  /\ now' = IF rts # 0 /\ now + n > due THEN due ELSE now + n
  /\ now' > now /\ now' <= StartTime + MaxTime
  /\ phy_tx' = 0
  /\ UNCHANGED <<topology, delay, coll, rts, due, packets, heard>>

\* Bound: the RTSs of all packets are written.
Ended == rts = 0 /\ packets = MaxRTS /\ UNCHANGED vars

Next == \/ \E type \in CfrmType, s \in Adjacent :
             \E d \in Node \ {s} : Hear(type, s, d)
        \/ NewRTS \/ RetryRTS \/ Advance \/ Ended

Spec == Init /\ [][Next]_vars

FairSpec == Spec /\ WF_vars(RetryRTS) /\ WF_vars(Advance)

----------------------------------------------------------------------------
\* The types of the variables.
TypeOK ==
  /\ now \in StartTime..(StartTime + MaxTime)
  /\ delay \in [Index -> 0..255]
  /\ coll \subseteq CollNode
  /\ \A c \in coll : c.src # c.dst /\ c.tmv_stmp < 65535
  /\ rts \in Adjacent \cup {0}
  /\ due \in Nat /\ phy_tx \in Adjacent \cup {0}
  /\ packets \in 0..MaxRTS

(***************************************************************************)
(* The timer that puts an RTS off lies within one turn of the timing       *)
(* wheel: add_timer would put a longer one into a slot that comes too      *)
(* early, and the RTS would be checked again before the collision is over. *)
(***************************************************************************)
BackOffInterval == rts # 0 => due - now < TIME_WHEEL_SIZE

(***************************************************************************)
(* "Neighboring non-interference (no collision in the adjacent node)"      *)
(* (dly_map_man.c): an RTS that is written, and the data that follows it,  *)
(* do not reach a node that was heard sending a frame while it receives    *)
(* the answers to that frame.  Stated on the times themselves, for every   *)
(* frame heard so far: also for those whose collision node was deleted.    *)
(***************************************************************************)
Arrival(f) == now + delay[dly_harsh(LOCAL_ADDRESS, f.src)]

Answers(f) ==
  LET answer == f.sent + MAX_PROP_DELAY + delay[dly_harsh(f.src, f.dst)]
  IN  CASE f.type = "RTS"            -> {answer, answer + 2 * MAX_PROP_DELAY}
        [] f.type \in {"CTS", "DATA"} -> {answer}
        [] f.type = "ACK"            -> {}

GuardBefore(f) == IF f.type = "CTS" THEN DATA_GUARD_TIME \div 2 ELSE CFRM_GUARD_TIME
GuardAfter(f)  == IF f.type = "CTS" THEN DATA_GUARD_TIME ELSE CFRM_GUARD_TIME

Clear(f) ==
  \A x \in {Arrival(f), Arrival(f) + 2 * MAX_PROP_DELAY}, y \in Answers(f) :
    ~Collide(x, y, GuardBefore(f), GuardAfter(f))

NonInterference == phy_tx # 0 => \A f \in heard : Clear(f)

\* An RTS that is put off is written in the end.
RTSWritten == rts # 0 ~> rts = 0
============================================================================

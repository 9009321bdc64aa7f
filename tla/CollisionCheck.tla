--------------------------- MODULE CollisionCheck ---------------------------
(***************************************************************************)
(* The arithmetic of the delay map (dly_map_man.c): the index of a pair of *)
(* nodes, and the test of one collision node, a control frame that was     *)
(* heard, against an RTS about to be sent.  Times are tenths of a second.  *)
(* Time stamps and the times computed from them are u_int16_t; comparisons *)
(* and differences are made in int.                                        *)
(*                                                                         *)
(* A definition named Op_Suffix is operator Op with a plausible bug; the   *)
(* properties of DelayMap are tried against it.                            *)
(***************************************************************************)
EXTENDS Integers

CONSTANTS MAX_NODE_NUM,      \* nodes of the network
          MAX_PROP_DELAY,    \* maximum propagation delay
          CFRM_GUARD_TIME,   \* reception guard time of a control frame
          DATA_GUARD_TIME    \* ... of a data frame

ASSUME NetworkAssumption == MAX_NODE_NUM \in Nat \ {0, 1}
ASSUME TimesAssumption == /\ MAX_PROP_DELAY \in Nat
                          /\ CFRM_GUARD_TIME \in Nat /\ DATA_GUARD_TIME \in Nat

Node == 1..MAX_NODE_NUM
Pair == {p \in Node \X Node : p[1] # p[2]}

DELAY_MAP_SIZE == MAX_NODE_NUM * MAX_NODE_NUM - 2
Index == 0..(DELAY_MAP_SIZE - 1)

\* harsh function H(key) = (i - 1) * N + j - 2
dly_harsh(src, dst) == (src - 1) * MAX_NODE_NUM + dst - 2

U16(x) == x % 65536

\* get_cur_tmv_stmp and get_cfrm_tmv_stmp at time t (tenths of a second).
TimeStamp(t) == (t % 100000) % 65535

----------------------------------------------------------------------------
(***************************************************************************)
(* Two frames that arrive at x and y collide when x falls into the guard   *)
(* window around y; the RTS is then put off until the window has passed.   *)
(***************************************************************************)
Collide(x, y, before, after) == x >= y - before /\ x <= y + after

\* The back-off that one pair of frames asks for, 0 if they do not collide.
BackOff_Absolute(x, y, before, after) ==
  IF Collide(x, y, before, after) THEN y + after + 5 ELSE 0
BackOff(x, y, before, after) ==
  IF Collide(x, y, before, after) THEN y + after - x + 5 ELSE 0

CfrmBackOff(x, y) == BackOff(x, y, CFRM_GUARD_TIME, CFRM_GUARD_TIME)
DataBackOff(x, y) == BackOff(x, y, DATA_GUARD_TIME \div 2, DATA_GUARD_TIME)

\* Back-offs are tried in order; the first that is not 0 counts.
OrElse(tm, other) == IF tm # 0 THEN tm ELSE other

(***************************************************************************)
(* ck_collision: the frame was sent at time stamp stmp, cur is the time    *)
(* stamp now; det is the delay from here to the sender of the frame, oth   *)
(* the delay from that sender to its destination, sd the delay from here   *)
(* to the destination of the RTS.  The result has the back-off and says    *)
(* whether the node has expired.  First the frame types one by one.        *)
(***************************************************************************)
Keep(back_off_tm) == [back_off_tm |-> back_off_tm, expired |-> FALSE]
Expire            == [back_off_tm |-> 0, expired |-> TRUE]

\* The node expires when its CTS has passed, or is tested for expiry only after
\* the collisions.
ckRTS_ExpiresEarly(stmp, cur, det, oth, sd) ==
  LET la_RTS   == U16(cur + det)
      la_DATA  == U16(cur + 2 * MAX_PROP_DELAY + det)
      adj_CTS  == U16(stmp + MAX_PROP_DELAY + oth)
      adj_ACK  == U16(stmp + 3 * MAX_PROP_DELAY + oth)
  IN  IF la_RTS > adj_CTS + CFRM_GUARD_TIME THEN Expire
      ELSE Keep(OrElse(CfrmBackOff(la_RTS, adj_CTS),
                OrElse(CfrmBackOff(la_DATA, adj_CTS),
                       CfrmBackOff(la_DATA, adj_ACK))))

ckRTS_ExpiresLast(stmp, cur, det, oth, sd) ==
  LET la_RTS   == U16(cur + det)
      adj_ACK  == U16(stmp + 3 * MAX_PROP_DELAY + oth)
      al_ACK   == U16(cur + 3 * MAX_PROP_DELAY + sd)
      lcl_DATA == U16(cur + 2 * MAX_PROP_DELAY + det)
      tm       == OrElse(CfrmBackOff(la_RTS, adj_ACK),
                         CfrmBackOff(lcl_DATA, al_ACK))
  IN  IF tm # 0 THEN Keep(tm)
      ELSE IF la_RTS > adj_ACK + CFRM_GUARD_TIME THEN Expire ELSE Keep(0)

ckRTS(stmp, cur, det, oth, sd) ==
  LET la_RTS   == U16(cur + det)
      la_DATA  == U16(cur + 2 * MAX_PROP_DELAY + det)
      adj_CTS  == U16(stmp + MAX_PROP_DELAY + oth)
      adj_ACK  == U16(stmp + 3 * MAX_PROP_DELAY + oth)
      al_CTS   == U16(cur + MAX_PROP_DELAY + sd)
      al_ACK   == U16(cur + 3 * MAX_PROP_DELAY + sd)
      lcl_DATA == U16(cur + 2 * MAX_PROP_DELAY + det)
  IN  IF la_RTS > adj_ACK + CFRM_GUARD_TIME THEN Expire
      ELSE Keep(OrElse(CfrmBackOff(la_RTS, adj_CTS),
                OrElse(CfrmBackOff(la_RTS, adj_ACK),
                OrElse(CfrmBackOff(la_DATA, adj_CTS),
                OrElse(CfrmBackOff(la_DATA, adj_ACK),
                OrElse(CfrmBackOff(lcl_DATA, al_CTS),
                       CfrmBackOff(lcl_DATA, al_ACK)))))))

ckCTS(stmp, cur, det, oth, sd) ==
  LET la_RTS   == U16(cur + det)
      la_DATA  == U16(cur + 2 * MAX_PROP_DELAY + det)
      adj_DATA == U16(stmp + MAX_PROP_DELAY + oth)
      al_CTS   == U16(cur + MAX_PROP_DELAY + sd)
      al_ACK   == U16(cur + 3 * MAX_PROP_DELAY + sd)
      lcl_ACK  == U16(stmp + 2 * MAX_PROP_DELAY + det)
      tm       == OrElse(DataBackOff(la_RTS, adj_DATA),
                  OrElse(DataBackOff(la_DATA, adj_DATA),
                  OrElse(CfrmBackOff(lcl_ACK, al_CTS),
                         CfrmBackOff(lcl_ACK, al_ACK))))
  IN  IF tm # 0 THEN Keep(tm)
      ELSE IF la_RTS > lcl_ACK + CFRM_GUARD_TIME THEN Expire ELSE Keep(0)

ckDATA(stmp, cur, det, oth) ==
  LET la_RTS  == U16(cur + det)
      la_DATA == U16(cur + 2 * MAX_PROP_DELAY + det)
      adj_ACK == U16(stmp + MAX_PROP_DELAY + oth)
      tm      == OrElse(CfrmBackOff(la_RTS, adj_ACK),
                        CfrmBackOff(la_DATA, adj_ACK))
  IN  IF tm # 0 THEN Keep(tm)
      ELSE IF la_RTS > adj_ACK + CFRM_GUARD_TIME THEN Expire ELSE Keep(0)

ck_collision(type, stmp, cur, det, oth, sd) ==
  IF type = "RTS" THEN ckRTS(stmp, cur, det, oth, sd)
  ELSE IF type = "CTS" THEN ckCTS(stmp, cur, det, oth, sd)
  ELSE IF type = "DATA" THEN ckDATA(stmp, cur, det, oth)
  ELSE Expire  \* ACK
============================================================================

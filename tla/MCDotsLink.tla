----------------------------- MODULE MCDotsLink -----------------------------
(***************************************************************************)
(* Values of DotsLink for TLC: the times at which packets are handed over. *)
(***************************************************************************)
EXTENDS DotsLink

\* The application writes a packet every 1 / OFFERED_LOAD seconds: 50 s.
AsApplication == {<<0, 500, 1000>>}

\* Two packets, the second one in any phase of the handshake of the first.
AnyTwo == {<<0, d>> : d \in {0, 10, 50, 100, 150, 170, 250, 300, 400, 500}}

\* One packet, its handshake somewhere across the wrap of the time stamps or
\* across the wrap of the time they are computed from.
AcrossWraps == {<<t + 10 * k>> : t \in {65200, 99700}, k \in 0 .. 40}

MCArrivals == AsApplication \cup AnyTwo \cup AcrossWraps
=============================================================================

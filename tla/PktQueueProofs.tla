--------------------------- MODULE PktQueueProofs ---------------------------
(***************************************************************************)
(* What holds of a packet queue for every number of packets, with handlers *)
(* between any two assignments of main.                                    *)
(*                                                                         *)
(* The invariant has three parts.  Sturdy holds whatever comes in between, *)
(* as long as no freed memory was used: pointers may then lead through     *)
(* freed packets, or back to one, but the queue holds all its packets.     *)
(* Whole is the doubly linked list that add_pkt and del_pkt build while    *)
(* nobody comes in between, with what is left to do at each place.         *)
(* Counted is what update_stat owes.                                       *)
(***************************************************************************)
EXTENDS PktQueue, FiniteSetTheorems, TLAPS

Adding   == {"add_front", "add_first", "add_prior", "add_link", "add_rear"}
Deleting == {"del", "del_only", "del_last", "del_head", "del_middle", "free"}

\* Where main's packet is used but not in the queue: not yet, or no longer.
Outside == {"add_front", "add_prior", "add_link", "del_only", "del_head",
            "del_middle", "free"}

Allocated == {p \in Pkt : heap[p] = "used"}
Freed     == {p \in Pkt : heap[p] = "freed"}
Queued    == {p \in Allocated : p = pkt_temp => pc \notin Outside}

----------------------------------------------------------------------------
(***************************************************************************)
(* Whatever comes in between.                                              *)
(***************************************************************************)
\* next of p gets to q, directly or through freed packets.
Leads(p, q) == \E F \in SUBSET Freed : /\ next[p] \in F \cup {q}
                                       /\ \A f \in F : next[f] \in F \cup {q}

Reached == \A S \in SUBSET Pkt :
             HoldsNext(S) /\ front \in S \cup {NULL} => Queued \subseteq S

\* Nothing points to p, and p is at the end.
Apart(p) == /\ front # p /\ rear # p /\ next[p] = NULL
            /\ \A q \in Pkt : next[q] # p /\ prior[q] # p

Fresh == /\ \A p \in Pkt : heap[p] = "unused" => Apart(p) /\ prior[p] = NULL
         /\ pc \in {"add_front", "add_prior", "add_link"} => Apart(pkt_temp)

\* prior of a packet in the queue is NULL for the front, or leads to it, or was
\* freed; no two packets have the same one.
PriorOK ==
  /\ \A p \in Queued : prior[p] = NULL => front = p /\ pc # "del_head"
  /\ \A p \in Queued : prior[p] \in Allocated => Leads(prior[p], p)
  /\ \A p, q \in Queued : prior[p] = prior[q] /\ prior[p] \in Allocated => p = q

\* No two packets in the queue have the same next, and prior agrees with it.
NextOK ==
  /\ \A p, q \in Queued : next[p] = next[q] /\ next[p] \in Queued \cup {NULL} => p = q
  /\ \A p, q \in Queued : next[p] = q /\ prior[q] \in Queued => prior[q] = p

RearOK ==
  /\ rear = NULL /\ pc # "add_first" => Queued = {}
  /\ rear \in Allocated /\ pc \notin {"add_first", "add_rear", "del_last"} =>
       next[rear] = NULL /\ (rear \in Queued \/ rear = pkt_temp)

\* The packet main is at, and those never used.
PlaceOK ==
  /\ \A p \in Pkt : heap[p] = "unused" => stat[p] = "unsent"
  /\ pc \in Adding \cup Deleting => Used(pkt_temp) /\ stat[pkt_temp] = "unsent"
  /\ pc \in {"count", "advance"} \/ (pc \in {"load", "store"} /\ job = "send") =>
       Used(pkt_temp) /\ stat[pkt_temp] = "sent"
  /\ pc = "count" => tries[pkt_temp] < MAX_RETX_NUM /\ job = "send"
  /\ pc \in Adding => job = "add"
  /\ pc \in Deleting => job = "delete"
  /\ pc \in {"load", "store"} => job \in {"add", "delete", "send"}

\* What is left to do of add_pkt and of del_pkt.
AddOK ==
  /\ pc = "add_front" => Queued = {} /\ prior[pkt_temp] = NULL
  /\ pc = "add_first" => Queued = {pkt_temp} /\ front = pkt_temp
  /\ pc \in {"add_first", "add_rear"} => next[pkt_temp] = NULL
  /\ pc = "add_link" => /\ prior[pkt_temp] = NULL => Queued = {}
                        /\ prior[pkt_temp] \in Allocated => prior[pkt_temp] = rear

MiddleOK ==
  /\ prior[pkt_temp] # NULL
  /\ \A q \in Queued : next[q] # pkt_temp
  /\ prior[pkt_temp] \in Allocated =>
       /\ next[pkt_temp] \in Allocated => Leads(prior[pkt_temp], next[pkt_temp])
       /\ \A q \in Queued : /\ prior[q] # prior[pkt_temp]
                            /\ prior[q] = pkt_temp => Leads(prior[pkt_temp], q)
                            /\ next[q] = next[pkt_temp] /\ next[q] \in Queued =>
                                 q = prior[pkt_temp]

DelOK ==
  /\ pc = "del_only" => Queued = {}
  /\ pc = "del_last" =>
       /\ next[pkt_temp] = NULL
       /\ rear \in Allocated =>
            /\ Leads(rear, pkt_temp)
            /\ \A q \in Queued : prior[q] = rear => q = pkt_temp
  /\ pc = "del_middle" => MiddleOK

Sturdy == /\ Reached /\ Fresh /\ PriorOK /\ NextOK /\ RearOK
          /\ PlaceOK /\ AddOK /\ DelOK

----------------------------------------------------------------------------
(***************************************************************************)
(* As long as no handler comes in between.                                 *)
(***************************************************************************)
\* A doubly linked list of the packets of S from f to r.
Doubly(f, r, S) ==
  /\ f # NULL => f \in S
  /\ r # NULL => r \in S
  /\ f = NULL <=> r = NULL
  /\ \A p \in S : /\ prior[p] = NULL <=> f = p
                  /\ prior[p] # NULL => prior[p] \in S /\ next[prior[p]] = p
                  /\ next[p] = NULL <=> r = p
                  /\ next[p] # NULL => next[p] \in S /\ prior[next[p]] = p

\* The same with a packet t between prior[t] and next[t] that only prior leads
\* to, still.
DoublyBut(t) ==
  /\ {prior[t], next[t]} \subseteq Queued /\ {front, rear} \subseteq Queued
  /\ next[prior[t]] = next[t] /\ prior[next[t]] = t
  /\ \A p \in Queued :
       /\ prior[p] = NULL <=> front = p
       /\ prior[p] # NULL /\ p # next[t] => prior[p] \in Queued /\ next[prior[p]] = p
       /\ next[p] = NULL <=> rear = p
       /\ next[p] # NULL /\ p # prior[t] => next[p] \in Queued /\ prior[next[p]] = p

\* What is left of the list in the teardown.
Forward ==
  /\ front # NULL => front \in Allocated /\ prior[front] \notin Allocated
  /\ \A p \in Allocated :
       next[p] # NULL => next[p] \in Allocated /\ prior[next[p]] = p

LinksOK ==
  /\ pc \in {"idle", "walk", "count", "load", "store", "advance", "add_front",
             "add_prior", "add_link", "del", "free"} => Doubly(front, rear, Queued)
  /\ pc \in {"add_first", "add_rear"} => Doubly(front, pkt_temp, Queued)
  /\ pc \in {"add_prior", "add_link"} => rear # NULL
  /\ pc = "add_link" => prior[pkt_temp] = rear
  /\ pc = "del_only" => front = NULL
  /\ pc = "del_last" => /\ Doubly(front, pkt_temp, Queued)
                        /\ rear = prior[pkt_temp] /\ rear # NULL
  /\ pc = "del_head" => /\ Doubly(pkt_temp, rear, Queued \cup {pkt_temp})
                        /\ front = next[pkt_temp] /\ front # NULL
  /\ pc = "del_middle" => DoublyBut(pkt_temp)
  /\ pc \in {"close", "closed"} => Forward
  /\ pc = "closed" => front = NULL

\* Where main goes on.
AheadOK ==
  /\ pc = "walk" => pkt_temp = NULL \/ Used(pkt_temp)
  /\ pc \in Deleting => temp = NULL \/ (Used(temp) /\ temp # pkt_temp)
  /\ pc \in {"load", "store"} /\ job = "delete" => temp = NULL \/ Used(temp)
  /\ pc = "del" => temp = next[pkt_temp]

Whole == ~ interrupted => LinksOK /\ AheadOK /\ fault = "none"

----------------------------------------------------------------------------
(***************************************************************************)
(* update_stat.                                                            *)
(***************************************************************************)
\* By how much it is too high: a packet that is added is unsent at once, and one
\* that is sent or deleted is not, before they are counted.
OwedAt(place, what) ==
  CASE place \in Adding -> -1
    [] place = "count" -> 1
    [] place \in {"load", "store"} -> IF what = "add" THEN -1 ELSE 1
    [] OTHER -> 0

Owed == OwedAt(pc, job)

Exact(n) == /\ n <= Cardinality(Unsent) + Owed
            /\ ~ interrupted => n = Cardinality(Unsent) + Owed

Counted == pc \notin {"close", "closed"} =>
             /\ Exact(update_stat)
             /\ pc = "store" => Exact(load)

----------------------------------------------------------------------------
\* The invariant.
Types == /\ heap \in [Pkt -> {"unused", "used", "freed"}]
         /\ prior \in [Pkt -> Pointer] /\ next \in [Pkt -> Pointer]
         /\ stat \in [Pkt -> {"unsent", "sent", "acked", "backed_off"}]
         /\ tries \in [Pkt -> 0 .. MAX_RETX_NUM]
         /\ front \in Pointer /\ rear \in Pointer
         /\ pkt_temp \in Pointer /\ temp \in Pointer
         /\ update_stat \in Int /\ load \in Int
         /\ job \in {"none", "add", "delete", "send"}
         /\ pc \in {"idle", "walk", "count", "load", "store", "advance", "close",
                    "closed"} \cup Adding \cup Deleting

QInv == Types /\ Sturdy /\ Whole /\ Counted

----------------------------------------------------------------------------
(***************************************************************************)
(* Steps that leave the pointers alone.                                    *)
(***************************************************************************)
LEMMA Kept ==
  ASSUME UNCHANGED <<ptrVars, heap>>
  PROVE  /\ Allocated' = Allocated /\ Freed' = Freed
         /\ \A S : HoldsNext(S)' <=> HoldsNext(S)
         /\ \A p, q : Leads(p, q)' <=> Leads(p, q)
         /\ \A p : Apart(p)' <=> Apart(p)
         /\ \A f, r, S : Doubly(f, r, S)' <=> Doubly(f, r, S)
         /\ Forward' <=> Forward
<1> USE DEF ptrVars
<1>1. Allocated' = Allocated /\ Freed' = Freed
  BY DEF Allocated, Freed
<1>2. \A S : HoldsNext(S)' <=> HoldsNext(S)
  BY DEF HoldsNext
<1>3. \A p, q : Leads(p, q)' <=> Leads(p, q)
  BY <1>1 DEF Leads
<1>4. \A p : Apart(p)' <=> Apart(p)
  BY DEF Apart
<1>5. \A f, r, S : Doubly(f, r, S)' <=> Doubly(f, r, S)
  BY DEF Doubly
<1>6. Forward' <=> Forward
  BY <1>1 DEF Forward
<1> QED BY <1>1, <1>2, <1>3, <1>4, <1>5, <1>6

\* Places where nothing is left to do of add_pkt or del_pkt.
Settled == {"idle", "walk", "count", "load", "store", "advance", "close", "closed",
            "del"}

\* main goes on, or a handler looks at the queue.
LEMMA StillSturdy ==
  ASSUME Types, Sturdy, UNCHANGED <<ptrVars, heap>>,
         (pc \in Settled /\ pc' \in Settled) \/ UNCHANGED <<pc, pkt_temp>>
  PROVE  /\ Queued' = Queued
         /\ Reached' /\ Fresh' /\ PriorOK' /\ NextOK' /\ RearOK' /\ AddOK' /\ DelOK'
<1> USE DEF Sturdy
<1>1. Queued' = Queued
  BY Kept DEF Queued, Settled, Outside
<1>2. Reached'
  BY <1>1, Kept DEF Reached, ptrVars
<1>3. Fresh'
  BY Kept DEF Fresh, ptrVars, Settled
<1>4. PriorOK'
  BY <1>1, Kept DEF PriorOK, ptrVars, Settled
<1>5. NextOK'
  BY <1>1 DEF NextOK, ptrVars
<1>6. RearOK'
  <2>1. CASE UNCHANGED <<pc, pkt_temp>>
    BY <1>1, <2>1, Kept DEF RearOK, ptrVars
  <2>2. CASE pc \in Settled /\ pc' \in Settled
    <3>1. rear \in Allocated => next[rear] = NULL /\ rear \in Queued
      BY <2>2 DEF RearOK, Settled, Queued, Outside
    <3>2. rear = NULL => Queued = {}
      BY <2>2 DEF RearOK, Settled
    <3> QED BY <1>1, <3>1, <3>2, Kept DEF RearOK, ptrVars
  <2> QED BY <2>1, <2>2
<1>7. AddOK'
  BY <1>1, Kept DEF AddOK, ptrVars, Settled
<1>8. DelOK'
  <2>1. CASE UNCHANGED <<pc, pkt_temp>>
    BY <1>1, <2>1, Kept DEF DelOK, MiddleOK, ptrVars
  <2>2. CASE pc \in Settled /\ pc' \in Settled
    BY <2>2 DEF DelOK, Settled
  <2> QED BY <2>1, <2>2
<1> QED BY <1>1, <1>2, <1>3, <1>4, <1>5, <1>6, <1>7, <1>8

\* At these places every packet is in the queue.
LEMMA AllQueued ==
  ASSUME pc \in Settled \cup {"add_first", "add_rear", "del_last"}
  PROVE  Queued = Allocated
BY DEF Queued, Settled, Outside

LEMMA QueuedSets ==
  /\ Queued \subseteq Allocated /\ Allocated \subseteq Pkt /\ Freed \subseteq Pkt
  /\ NULL \notin Allocated /\ NULL \notin Pkt
  /\ \A p \in Freed : p \notin Allocated
BY NullAssumption DEF Queued, Allocated, Freed

----------------------------------------------------------------------------
(***************************************************************************)
(* wait_cfrm_fdbk deletes packet d, wherever main is.                      *)
(***************************************************************************)
LEMMA Taken ==
  ASSUME Types, Sturdy, NEW d \in Pkt, DelAcked(d)
  PROVE  /\ d \in Queued /\ d # NULL
         /\ pc \in Adding \cup Deleting => d # pkt_temp
         /\ prior[d] # NULL => prior[d] \in Allocated /\ Leads(prior[d], d)
         /\ next[d] # NULL => next[d] \in Allocated
         /\ \A p \in Pkt : next'[p] = IF p = prior[d] THEN next[d] ELSE next[p]
         /\ \A p \in Pkt : prior'[p] = IF p = next[d] THEN prior[d] ELSE prior[p]
         /\ front' = IF prior[d] = NULL THEN next[d] ELSE front
         /\ rear' = IF next[d] = NULL THEN prior[d] ELSE rear
         /\ \A p \in Pkt : heap'[p] = IF p = d THEN "freed" ELSE heap[p]
         /\ Allocated' = Allocated \ {d} /\ Freed' = Freed \cup {d}
         /\ Queued' = Queued \ {d}
         /\ pc' = pc /\ pkt_temp' = pkt_temp
<1>1. heap[d] = "used" /\ stat[d] = "acked"
  BY DEF DelAcked, Expires, Finds, Used
<1>2. pc \in Adding \cup Deleting => d # pkt_temp
  BY <1>1 DEF Sturdy, PlaceOK
<1>3. d \in Queued /\ d # NULL
  BY <1>1, <1>2, NullAssumption DEF Queued, Allocated, Outside, Adding, Deleting
<1>4. /\ prior[d] # NULL => prior[d] \in Allocated
      /\ next[d] # NULL => next[d] \in Allocated
  BY DEF DelAcked, NeighboursUsed, Used, Allocated
<1>5. prior[d] # NULL => Leads(prior[d], d)
  BY <1>3, <1>4 DEF Sturdy, PriorOK
<1>6. \A p \in Pkt : heap'[p] = IF p = d THEN "freed" ELSE heap[p]
  BY DEF DelAcked, Types
<1>7. /\ \A p : p \in Allocated' <=> p \in Allocated \ {d}
      /\ \A p : p \in Freed' <=> p \in Freed \cup {d}
  BY <1>6 DEF Allocated, Freed
<1>8. pc' = pc /\ pkt_temp' = pkt_temp
  BY DEF DelAcked, mainVars
<1>9. \A p : p \in Queued' <=> p \in Queued \ {d}
  BY <1>7, <1>8 DEF Queued
<1>10. /\ \A p \in Pkt : next'[p] = IF p = prior[d] THEN next[d] ELSE next[p]
       /\ \A p \in Pkt : prior'[p] = IF p = next[d] THEN prior[d] ELSE prior[p]
       /\ front' = IF prior[d] = NULL THEN next[d] ELSE front
       /\ rear' = IF next[d] = NULL THEN prior[d] ELSE rear
  BY DEF DelAcked, Relink
<1> QED BY <1>2, <1>3, <1>4, <1>5, <1>6, <1>7, <1>8, <1>9, <1>10

\* What next of another packet than the one before d gets to.
LEMMA LeadsKept ==
  ASSUME Types, Sturdy, NEW d \in Pkt, DelAcked(d),
         NEW p \in Pkt, p # prior[d], NEW q, Leads(p, q)
  PROVE  Leads(p, q)'
<1>1. PICK F \in SUBSET Freed : /\ next[p] \in F \cup {q}
                                /\ \A f \in F : next[f] \in F \cup {q}
  BY DEF Leads
<1>2. F \in SUBSET Freed'
  BY Taken
<1>3. \A f \in F : f \in Pkt /\ f # prior[d]
  BY Taken, QueuedSets
<1>4. next'[p] = next[p] /\ \A f \in F : next'[f] = next[f]
  BY <1>3, Taken
<1> QED BY <1>1, <1>2, <1>4 DEF Leads

\* What gets to d gets to the packet behind it.
LEMMA LeadsOn ==
  ASSUME Types, Sturdy, NEW d \in Pkt, DelAcked(d),
         NEW p \in Pkt, p # prior[d], Leads(p, d), NEW q, q = next[d]
  PROVE  Leads(p, q)'
<1>1. PICK F \in SUBSET Freed : /\ next[p] \in F \cup {d}
                                /\ \A f \in F : next[f] \in F \cup {d}
  BY DEF Leads
<1> DEFINE G == F \cup {d}
<1>2. G \in SUBSET Freed'
  BY Taken
<1>3. \A f \in F : f \in Pkt /\ f # prior[d]
  BY Taken, QueuedSets
<1>4. next'[p] = next[p] /\ next'[d] = q /\ \A f \in F : next'[f] = next[f]
  BY <1>3, Taken
<1>5. next'[p] \in G \cup {q} /\ \A g \in G : next'[g] \in G \cup {q}
  BY <1>1, <1>4
<1> QED BY <1>2, <1>5 DEF Leads

LEMMA TakenReached ==
  ASSUME Types, Sturdy, NEW d \in Pkt, DelAcked(d)
  PROVE  Reached'
<1> SUFFICES ASSUME NEW S \in SUBSET Pkt, HoldsNext(S)', front' \in S \cup {NULL}
             PROVE  Queued' \subseteq S
  BY DEF Reached
<1>1. \A p \in S : next'[p] \in S \cup {NULL}
  BY DEF HoldsNext
<1>2. CASE prior[d] = NULL
  <2> DEFINE T == S \cup {d}
  <2>1. next[d] \in S \cup {NULL} /\ \A p \in S : next'[p] = next[p]
    BY <1>2, Taken, QueuedSets
  <2>2. HoldsNext(T) /\ T \in SUBSET Pkt
    BY <1>1, <2>1 DEF HoldsNext
  <2>3. front = d
    BY <1>2, Taken DEF Sturdy, PriorOK
  <2>4. Queued \subseteq T
    BY <2>2, <2>3 DEF Sturdy, Reached
  <2> QED BY <2>4, Taken
<1>3. CASE prior[d] # NULL /\ prior[d] \notin S
  <2>1. HoldsNext(S)
    BY <1>1, <1>3, Taken DEF HoldsNext
  <2> QED BY <1>3, <2>1, Taken DEF Sturdy, Reached
<1>4. CASE prior[d] # NULL /\ prior[d] \in S
  <2>1. Leads(prior[d], d)
    BY <1>4, Taken
  <2>2. PICK F \in SUBSET Freed : /\ next[prior[d]] \in F \cup {d}
                                  /\ \A f \in F : next[f] \in F \cup {d}
    BY <2>1 DEF Leads
  <2> DEFINE T == S \cup F \cup {d}
  <2>3. next[d] \in S \cup {NULL}
    BY <1>1, <1>4, Taken
  <2>4. \A p \in S : next[p] \in T \cup {NULL}
    BY <1>1, <2>2, Taken
  <2>5. HoldsNext(T) /\ T \in SUBSET Pkt
    BY <2>2, <2>3, <2>4, QueuedSets DEF HoldsNext
  <2>6. front \in T \cup {NULL}
    BY <1>4, Taken
  <2>7. Queued \subseteq T
    BY <2>5, <2>6 DEF Sturdy, Reached
  <2> QED BY <2>7, Taken, QueuedSets
<1> QED BY <1>2, <1>3, <1>4

LEMMA TakenFresh ==
  ASSUME Types, Sturdy, NEW d \in Pkt, DelAcked(d)
  PROVE  Fresh'
<1>1. ASSUME NEW p \in Pkt, Apart(p), p # d PROVE Apart(p)'
  <2>1. p # prior[d] /\ p # next[d] /\ p # NULL
    BY <1>1, QueuedSets DEF Apart
  <2> QED BY <1>1, <2>1, Taken DEF Apart
<1>2. ASSUME NEW p \in Pkt, heap'[p] = "unused" PROVE Apart(p)' /\ prior'[p] = NULL
  <2>1. heap[p] = "unused" /\ p # d
    BY <1>2, Taken
  <2>2. Apart(p) /\ prior[p] = NULL
    BY <2>1 DEF Sturdy, Fresh
  <2>3. p # next[d]
    BY <2>2 DEF Apart
  <2> QED BY <1>1, <2>1, <2>2, <2>3, Taken
<1>3. ASSUME pc' \in {"add_front", "add_prior", "add_link"} PROVE Apart(pkt_temp)'
  <2>1. pkt_temp \in Pkt /\ pkt_temp # d /\ Apart(pkt_temp) /\ pkt_temp' = pkt_temp
    BY <1>3, Taken DEF Sturdy, Fresh, PlaceOK, Used, Adding
  <2>2. PICK p \in Pkt : p = pkt_temp
    BY <2>1
  <2>3. Apart(p)'
    BY <1>1, <2>1, <2>2
  <2> QED BY <2>1, <2>2, <2>3 DEF Apart
<1> QED BY <1>2, <1>3 DEF Fresh

LEMMA TakenPrior ==
  ASSUME Types, Sturdy, NEW d \in Pkt, DelAcked(d)
  PROVE  PriorOK'
<1>1. ASSUME NEW p \in Queued', prior'[p] = NULL PROVE front' = p /\ pc' # "del_head"
  <2>1. p \in Queued /\ p # d /\ p \in Pkt /\ d \in Queued
    BY Taken, QueuedSets
  <2>2. CASE p = next[d]
    BY <1>1, <2>1, <2>2, Taken DEF Sturdy, PriorOK
  <2>3. CASE p # next[d]
    BY <1>1, <2>1, <2>3, Taken DEF Sturdy, PriorOK
  <2> QED BY <2>2, <2>3
<1>2. ASSUME NEW p \in Queued', prior'[p] \in Allocated' PROVE Leads(prior[p], p)'
  <2>1. p \in Queued /\ p # d /\ p \in Pkt /\ d \in Queued
    BY Taken, QueuedSets
  <2>2. PICK a \in Allocated : a = prior'[p] /\ a # d /\ a \in Pkt
    BY <1>2, Taken, QueuedSets
  <2>3. CASE p = next[d]
    <3>1. a = prior[d] /\ next'[a] = p
      BY <2>1, <2>2, <2>3, Taken
    <3>2. {} \in SUBSET Freed' /\ next'[prior'[p]] \in {} \cup {p}
      BY <2>2, <3>1
    <3> QED BY <3>2 DEF Leads
  <2>4. CASE p # next[d]
    <3>1. a = prior[p] /\ Leads(a, p)
      BY <2>1, <2>2, <2>4, Taken DEF Sturdy, PriorOK
    <3>2. a # prior[d]
      BY <2>1, <2>2, <3>1 DEF Sturdy, PriorOK
    <3>3. Leads(a, p)'
      BY <2>2, <3>1, <3>2, LeadsKept
    <3> QED BY <2>2, <3>3 DEF Leads
  <2> QED BY <2>3, <2>4
<1>3. ASSUME NEW p \in Queued', NEW q \in Queued', prior'[p] = prior'[q],
             prior'[p] \in Allocated'
      PROVE  p = q
  <2>1. /\ p \in Queued /\ p # d /\ p \in Pkt /\ d \in Queued
        /\ q \in Queued /\ q # d /\ q \in Pkt /\ prior'[p] \in Allocated
    BY <1>3, Taken, QueuedSets
  <2>2. \A x, y \in Queued : prior[x] = prior[y] /\ prior[x] \in Allocated => x = y
    BY DEF Sturdy, PriorOK
  <2> QED BY <1>3, <2>1, <2>2, Taken
<1> QED BY <1>1, <1>2, <1>3 DEF PriorOK

LEMMA TakenNext ==
  ASSUME Types, Sturdy, NEW d \in Pkt, DelAcked(d)
  PROVE  NextOK'
<1>1. /\ \A x, y \in Queued : next[x] = next[y] /\ next[x] \in Queued \cup {NULL} => x = y
      /\ \A x, y \in Queued : next[x] = y /\ prior[y] \in Queued => prior[y] = x
  BY DEF Sturdy, NextOK
<1>2. d \in Queued /\ \A p \in Queued' : p \in Queued /\ p # d /\ p \in Pkt
  BY Taken, QueuedSets
<1>3. ASSUME NEW p \in Queued', NEW q \in Queued', next'[p] = next'[q],
             next'[p] \in Queued' \cup {NULL}
      PROVE  p = q
  <2>1. next'[p] \in Queued \cup {NULL}
    BY <1>2, <1>3
  <2>2. /\ next'[p] = IF p = prior[d] THEN next[d] ELSE next[p]
        /\ next'[q] = IF q = prior[d] THEN next[d] ELSE next[q]
    BY <1>2, Taken
  <2> QED BY <1>1, <1>2, <1>3, <2>1, <2>2
<1>4. ASSUME NEW p \in Queued', NEW q \in Queued', next'[p] = q, prior'[q] \in Queued'
      PROVE  prior'[q] = p
  <2>1. /\ next'[p] = IF p = prior[d] THEN next[d] ELSE next[p]
        /\ prior'[q] = IF q = next[d] THEN prior[d] ELSE prior[q]
    BY <1>2, Taken
  <2> QED BY <1>1, <1>2, <1>4, <2>1
<1> QED BY <1>3, <1>4 DEF NextOK

LEMMA TakenRear ==
  ASSUME Types, Sturdy, NEW d \in Pkt, DelAcked(d)
  PROVE  RearOK'
<1>1. ASSUME rear' = NULL, pc' # "add_first" PROVE Queued' = {}
  <2>1. CASE next[d] # NULL
    BY <1>1, <2>1, Taken DEF Sturdy, RearOK
  <2>2. CASE next[d] = NULL
    <3>1. front = d
      BY <1>1, <2>2, Taken DEF Sturdy, PriorOK
    <3>2. HoldsNext({d}) /\ {d} \in SUBSET Pkt /\ front \in {d} \cup {NULL}
      BY <2>2, <3>1 DEF HoldsNext
    <3>3. Queued \subseteq {d}
      BY <3>2 DEF Sturdy, Reached
    <3> QED BY <3>3, Taken
  <2> QED BY <2>1, <2>2
<1>2. ASSUME rear' \in Allocated', pc' \notin {"add_first", "add_rear", "del_last"}
      PROVE  next'[rear'] = NULL /\ (rear' \in Queued' \/ rear' = pkt_temp')
  <2>1. CASE next[d] # NULL
    <3>1. rear \in Allocated /\ rear # d /\ rear' = rear /\ rear \in Pkt
      BY <1>2, <2>1, Taken, QueuedSets
    <3>2. next[rear] = NULL /\ (rear \in Queued \/ rear = pkt_temp)
      BY <1>2, <3>1, Taken DEF Sturdy, RearOK
    <3>3. rear # prior[d]
      <4> SUFFICES ASSUME rear = prior[d] PROVE FALSE
        OBVIOUS
      <4>1. Leads(rear, d)
        BY <3>1, QueuedSets, Taken
      <4> QED BY <3>2, <4>1, QueuedSets DEF Leads
    <3> QED BY <3>1, <3>2, <3>3, Taken
  <2>2. CASE next[d] = NULL
    <3>1. PICK a \in Allocated : a = prior[d] /\ a = rear' /\ a # d /\ a \in Pkt
      BY <1>2, <2>2, Taken, QueuedSets
    <3>2. next'[a] = NULL
      BY <2>2, <3>1, Taken
    <3>3. a \in Queued \/ a = pkt_temp
      BY DEF Queued
    <3> QED BY <3>1, <3>2, <3>3, Taken
  <2> QED BY <2>1, <2>2
<1> QED BY <1>1, <1>2 DEF RearOK

LEMMA TakenAdd ==
  ASSUME Types, Sturdy, NEW d \in Pkt, DelAcked(d)
  PROVE  AddOK'
<1>1. d \in Queued /\ (pc \in Adding => d # pkt_temp /\ pkt_temp \in Pkt /\ pkt_temp # NULL)
  BY Taken, NullAssumption DEF Sturdy, PlaceOK, Used
<1>2. pc' # "add_front"
  BY <1>1, Taken DEF Sturdy, AddOK
<1>3. pc' = "add_first" => Queued' = {pkt_temp'} /\ front' = pkt_temp'
  BY <1>1, Taken DEF Sturdy, AddOK, Adding
<1>4. ASSUME pc' \in {"add_first", "add_rear"} PROVE next'[pkt_temp'] = NULL
  <2>1. next[pkt_temp] = NULL /\ pkt_temp \in Pkt
    BY <1>1, <1>4, Taken DEF Sturdy, AddOK, Adding
  <2>2. pkt_temp # prior[d]
    <3> SUFFICES ASSUME pkt_temp = prior[d] PROVE FALSE
      OBVIOUS
    <3>1. Leads(pkt_temp, d)
      BY <2>1, Taken, QueuedSets
    <3> QED BY <2>1, <3>1, QueuedSets, Taken DEF Leads
  <2> QED BY <2>1, <2>2, Taken
<1>5. ASSUME pc' = "add_link"
      PROVE  /\ prior'[pkt_temp'] = NULL => Queued' = {}
             /\ prior'[pkt_temp'] \in Allocated' => prior'[pkt_temp'] = rear'
  <2>1. Apart(pkt_temp) /\ pkt_temp \in Pkt /\ pc = "add_link"
    BY <1>1, <1>5, Taken DEF Sturdy, Fresh, Adding
  <2>2. prior'[pkt_temp'] = prior[pkt_temp]
    BY <2>1, Taken DEF Apart
  <2>3. prior[pkt_temp] # NULL
    BY <1>1, <2>1 DEF Sturdy, AddOK
  <2>4. ASSUME prior[pkt_temp] \in Allocated' PROVE prior[pkt_temp] = rear'
    <3>1. prior[pkt_temp] = rear /\ rear \in Allocated /\ rear # d
      BY <2>1, <2>4, Taken DEF Sturdy, AddOK
    <3>2. next[rear] = NULL /\ rear \in Queued
      BY <2>1, <3>1 DEF Sturdy, RearOK, Apart
    <3>3. next[d] # NULL
      BY <1>1, <3>1, <3>2 DEF Sturdy, NextOK
    <3> QED BY <3>1, <3>3, Taken
  <2> QED BY <2>2, <2>3, <2>4
<1> QED BY <1>2, <1>3, <1>4, <1>5 DEF AddOK

LEMMA TakenLast ==
  ASSUME Types, Sturdy, NEW d \in Pkt, DelAcked(d), pc = "del_last"
  PROVE  DelOK'
<1>1. PICK t \in Pkt : t = pkt_temp /\ t # d /\ t \in Queued /\ t # NULL
  BY Taken, NullAssumption
     DEF Sturdy, PlaceOK, Used, Deleting, Queued, Outside, Allocated
<1>2. /\ next[t] = NULL
      /\ rear \in Allocated =>
           Leads(rear, t) /\ \A q \in Queued : prior[q] = rear => q = t
  BY <1>1 DEF Sturdy, DelOK
<1>3. d \in Queued /\ next[d] # NULL
  BY <1>1, <1>2, Taken DEF Sturdy, NextOK
<1>4. t # prior[d]
  <2> SUFFICES ASSUME t = prior[d] PROVE FALSE
    OBVIOUS
  <2>1. Leads(t, d)
    BY <1>1, Taken
  <2> QED BY <1>1, <1>2, <2>1, QueuedSets, Taken DEF Leads
<1>5. next'[pkt_temp'] = NULL /\ rear' = rear
  BY <1>1, <1>2, <1>3, <1>4, Taken
<1>6. ASSUME rear' \in Allocated'
      PROVE  /\ Leads(rear, pkt_temp)'
             /\ \A q \in Queued' : prior'[q] = rear' => q = pkt_temp'
  <2>1. PICK r \in Pkt : r = rear /\ r = rear' /\ r \in Allocated
    BY <1>5, <1>6, Taken, QueuedSets
  <2>2. r # prior[d] /\ Leads(r, t)
    BY <1>1, <1>2, <1>3, <2>1
  <2>3. Leads(r, t)'
    BY <2>2, LeadsKept
  <2>4. ASSUME NEW q \in Queued', prior'[q] = r PROVE q = t
    <3>1. q \in Queued /\ q \in Pkt
      BY Taken, QueuedSets
    <3>2. q # next[d]
      BY <2>2, <2>4, <3>1, Taken
    <3> QED BY <1>2, <2>1, <2>4, <3>1, <3>2, Taken
  <2>5. \A x, y : x = rear' /\ y = pkt_temp' /\ Leads(x, y)' => Leads(rear, pkt_temp)'
    BY DEF Leads
  <2>6. t = pkt_temp'
    BY <1>1, Taken
  <2> QED BY <2>1, <2>3, <2>4, <2>5, <2>6
<1> QED BY <1>5, <1>6, Taken DEF DelOK

LEMMA TakenMiddle ==
  ASSUME Types, Sturdy, NEW d \in Pkt, DelAcked(d), pc = "del_middle"
  PROVE  MiddleOK'
<1>1. PICK t \in Pkt : t = pkt_temp /\ t # d /\ t \notin Queued /\ t # NULL
  BY Taken, NullAssumption DEF Sturdy, PlaceOK, Used, Deleting, Queued, Outside
<1>2. /\ prior[t] # NULL
      /\ \A q \in Queued : next[q] # t
      /\ prior[t] \in Allocated =>
           /\ next[t] \in Allocated => Leads(prior[t], next[t])
           /\ \A q \in Queued : /\ prior[q] # prior[t]
                                /\ prior[q] = t => Leads(prior[t], q)
                                /\ next[q] = next[t] /\ next[q] \in Queued => q = prior[t]
  BY <1>1 DEF Sturdy, DelOK, MiddleOK
<1>3. /\ d \in Queued /\ t # next[d] /\ t = pkt_temp'
      /\ \A q \in Queued' : q \in Queued /\ q # d /\ q \in Pkt /\ q # t
  BY <1>1, <1>2, Taken, QueuedSets
<1>4. prior'[t] = prior[t]
  BY <1>3, Taken
<1>5. \A q \in Queued' : next'[q] # t
  BY <1>2, <1>3, Taken
<1>6. ASSUME prior[t] \in Allocated'
      PROVE  /\ next'[t] \in Allocated' => Leads(prior[t], next[t])'
             /\ \A q \in Queued' : /\ prior'[q] # prior'[t]
                                   /\ prior'[q] = t => Leads(prior[t], q)'
                                   /\ next'[q] = next'[t] /\ next'[q] \in Queued' =>
                                        q = prior'[t]
  <2>1. PICK a \in Pkt : a = prior[t] /\ a \in Allocated /\ a # d
    BY <1>6, Taken, QueuedSets
  <2>2. a # prior[d] /\ a = prior'[t]
    BY <1>2, <1>3, <1>4, <2>1
  <2>3. \A x, y : x = prior'[t] /\ Leads(x, y)' => Leads(prior[t], y)'
    BY DEF Leads
  <2>4. \A x, y : x = prior'[t] /\ y = next'[t] /\ Leads(x, y)' =>
                    Leads(prior[t], next[t])'
    BY DEF Leads
  <2>5. ASSUME next'[t] \in Allocated' PROVE Leads(prior[t], next[t])'
    <3>1. CASE t = prior[d]
      <4>1. PICK n : n = next[d]
        OBVIOUS
      <4>2. Leads(a, d)
        BY <1>2, <1>3, <2>1, <3>1
      <4>3. Leads(a, n)'
        BY <2>2, <4>1, <4>2, LeadsOn
      <4> QED BY <2>2, <2>4, <3>1, <4>1, <4>3, Taken
    <3>2. CASE t # prior[d]
      <4>1. PICK n : n = next[t]
        OBVIOUS
      <4>2. Leads(a, n) /\ n = next'[t]
        BY <1>2, <2>1, <2>5, <3>2, <4>1, Taken
      <4>3. Leads(a, n)'
        BY <2>2, <4>2, LeadsKept
      <4> QED BY <2>2, <2>4, <4>2, <4>3
    <3> QED BY <3>1, <3>2
  <2>6. ASSUME NEW q \in Queued' PROVE prior'[q] # prior'[t]
    BY <1>2, <1>3, <2>1, <2>2, Taken
  <2>7. ASSUME NEW q \in Queued', prior'[q] = t PROVE Leads(prior[t], q)'
    <3>1. CASE q = next[d]
      <4>1. prior[d] = t
        BY <1>3, <2>7, <3>1, Taken
      <4>2. Leads(a, d)
        BY <1>2, <1>3, <2>1, <4>1
      <4>3. Leads(a, q)'
        BY <2>2, <3>1, <4>2, LeadsOn
      <4> QED BY <2>2, <2>3, <4>3
    <3>2. CASE q # next[d]
      <4>1. Leads(a, q)
        BY <1>2, <1>3, <2>1, <2>7, <3>2, Taken
      <4>2. Leads(a, q)'
        BY <2>2, <4>1, LeadsKept
      <4> QED BY <2>2, <2>3, <4>2
    <3> QED BY <3>1, <3>2
  <2>8. ASSUME NEW q \in Queued', next'[q] = next'[t], next'[q] \in Queued'
        PROVE  q = prior'[t]
    <3>1. \A x, y \in Queued : next[x] = next[y] /\ next[x] \in Queued => x = y
      BY DEF Sturdy, NextOK
    <3>2. CASE t = prior[d]
      BY <1>1, <1>3, <2>8, <3>1, <3>2, Taken
    <3>3. CASE t # prior[d]
      BY <1>1, <1>2, <1>3, <2>1, <2>2, <2>8, <3>3, Taken
    <3> QED BY <3>2, <3>3
  <2> QED BY <2>5, <2>6, <2>7, <2>8
<1>7. \A x, q : x = t /\ Leads(prior[x], q)' => Leads(prior[pkt_temp], q)'
  BY <1>3 DEF Leads
<1>8. \A x : x = t /\ Leads(prior[x], next[x])' => Leads(prior[pkt_temp], next[pkt_temp])'
  BY <1>3 DEF Leads
<1> QED BY <1>2, <1>3, <1>4, <1>5, <1>6, <1>7, <1>8 DEF MiddleOK

LEMMA TakenSturdy ==
  ASSUME Types, Sturdy, NEW d \in Pkt, DelAcked(d)
  PROVE  Sturdy'
<1>1. DelOK'
  <2>1. CASE pc = "del_last"
    BY <2>1, TakenLast
  <2>2. CASE pc = "del_middle"
    BY <2>2, TakenMiddle, Taken DEF DelOK
  <2>3. CASE pc \notin {"del_last", "del_middle"}
    BY <2>3, Taken DEF DelOK, Sturdy
  <2> QED BY <2>1, <2>2, <2>3
<1>2. PlaceOK'
  <2>1. stat[d] = "acked" /\ stat' = stat /\ tries' = tries /\ job' = job
    BY DEF DelAcked, Expires, Finds, mainVars
  <2>2. /\ pc' \in Adding \cup Deleting => Used(pkt_temp)' /\ stat'[pkt_temp'] = "unsent"
        /\ pc' \in {"count", "advance"} \/ (pc' \in {"load", "store"} /\ job' = "send") =>
             Used(pkt_temp)' /\ stat'[pkt_temp'] = "sent"
    BY <2>1, Taken DEF Sturdy, PlaceOK, Used
  <2>3. \A p \in Pkt : heap'[p] = "unused" => stat'[p] = "unsent"
    BY <2>1, Taken DEF Sturdy, PlaceOK
  <2> QED BY <2>1, <2>2, <2>3, Taken DEF Sturdy, PlaceOK
<1> QED BY <1>1, <1>2, TakenReached, TakenFresh, TakenPrior, TakenNext, TakenRear, TakenAdd
        DEF Sturdy

LEMMA TakenDoubly ==
  ASSUME Types, Sturdy, NEW d \in Pkt, DelAcked(d), Doubly(front, rear, Queued)
  PROVE  Doubly(front, rear, Queued)'
<1>1. /\ front # NULL => front \in Queued
      /\ rear # NULL => rear \in Queued
      /\ front = NULL <=> rear = NULL
      /\ \A p \in Queued : /\ prior[p] = NULL <=> front = p
                           /\ prior[p] # NULL => prior[p] \in Queued /\ next[prior[p]] = p
                           /\ next[p] = NULL <=> rear = p
                           /\ next[p] # NULL => next[p] \in Queued /\ prior[next[p]] = p
  BY DEF Doubly
<1>2. /\ d \in Queued /\ d # NULL /\ Queued' = Queued \ {d}
      /\ \A p \in Queued : p \in Pkt /\ p # NULL
      /\ front' = IF prior[d] = NULL THEN next[d] ELSE front
      /\ rear' = IF next[d] = NULL THEN prior[d] ELSE rear
  BY Taken, QueuedSets
<1>3. \A p \in Queued : /\ next'[p] = IF p = prior[d] THEN next[d] ELSE next[p]
                        /\ prior'[p] = IF p = next[d] THEN prior[d] ELSE prior[p]
  BY <1>2, Taken
<1>4. /\ prior[d] # NULL => prior[d] \in Queued' /\ next[prior[d]] = d
      /\ next[d] # NULL => next[d] \in Queued' /\ prior[next[d]] = d
  <2>1. next[d] # d
    <3> SUFFICES ASSUME next[d] = d PROVE FALSE
      OBVIOUS
    <3> DEFINE S == Queued \ {d}
    <3>1. front \in S \cup {NULL} /\ \A p \in S : next[p] \in S \cup {NULL}
      BY <1>1, <1>2
    <3>2. d \in S
      BY <1>2, <3>1 DEF HoldsNext, Sturdy, Reached
    <3> QED BY <3>2
  <2>2. prior[d] # d
    BY <1>1, <1>2, <2>1
  <2> QED BY <1>1, <1>2, <2>1, <2>2
<1>5. /\ front' # NULL => front' \in Queued'
      /\ rear' # NULL => rear' \in Queued'
      /\ front' = NULL <=> rear' = NULL
  BY <1>1, <1>2, <1>4
<1>6. ASSUME NEW p \in Queued'
      PROVE  /\ prior'[p] = NULL <=> front' = p
             /\ prior'[p] # NULL => prior'[p] \in Queued' /\ next'[prior'[p]] = p
  <2>1. p \in Queued /\ p # d
    BY <1>2
  <2>2. CASE p = next[d]
    <3>1. prior'[p] = prior[d] /\ p # NULL
      BY <1>2, <1>3, <2>1, <2>2
    <3> QED BY <1>1, <1>2, <1>3, <1>4, <2>1, <2>2, <3>1
  <2>3. CASE p # next[d]
    <3>1. prior'[p] = prior[p] /\ prior[p] # d
      BY <1>1, <1>2, <1>3, <2>1, <2>3
    <3>2. prior[p] # NULL => next'[prior[p]] = p
      <4>1. prior[p] # NULL => prior[p] # prior[d]
        BY <1>1, <1>2, <2>1
      <4> QED BY <1>1, <1>3, <2>1, <4>1
    <3> QED BY <1>1, <1>2, <2>1, <2>3, <3>1, <3>2
  <2> QED BY <2>2, <2>3
<1>7. ASSUME NEW p \in Queued'
      PROVE  /\ next'[p] = NULL <=> rear' = p
             /\ next'[p] # NULL => next'[p] \in Queued' /\ prior'[next'[p]] = p
  <2>1. p \in Queued /\ p # d
    BY <1>2
  <2>2. CASE p = prior[d]
    <3>1. next'[p] = next[d] /\ p # NULL
      BY <1>2, <1>3, <2>1, <2>2
    <3> QED BY <1>1, <1>2, <1>3, <1>4, <2>1, <2>2, <3>1
  <2>3. CASE p # prior[d]
    <3>1. next'[p] = next[p] /\ next[p] # d
      BY <1>1, <1>2, <1>3, <2>1, <2>3
    <3>2. next[p] # NULL => prior'[next[p]] = p
      <4>1. next[p] # NULL => next[p] # next[d]
        BY <1>1, <1>2, <2>1
      <4> QED BY <1>1, <1>3, <2>1, <4>1
    <3> QED BY <1>1, <1>2, <2>1, <2>3, <3>1, <3>2
  <2> QED BY <2>2, <2>3
<1> QED BY <1>5, <1>6, <1>7 DEF Doubly

----------------------------------------------------------------------------
(***************************************************************************)
(* The handlers.                                                           *)
(***************************************************************************)
LEMMA HandlerWhole ==
  ASSUME Whole, Interrupt, UNCHANGED <<fault, pc>>, pc \notin {"close", "closed"},
         Doubly(front, rear, Queued) => Doubly(front, rear, Queued)'
  PROVE  Whole'
BY DEF Whole, Interrupt, LinksOK, AheadOK, Adding, Deleting

\* Counted where no packet becomes unsent or is unsent no longer.
LEMMA CountedKept ==
  ASSUME Counted, Unsent' = Unsent, UNCHANGED <<update_stat, load, pc, job>>,
         interrupted => interrupted'
  PROVE  Counted'
<1>1. Owed' = Owed
  BY DEF Owed
<1>2. \A n : Exact(n) => Exact(n)'
  BY <1>1 DEF Exact
<1>3. Exact(update_stat) => Exact(update_stat)'
  BY <1>1 DEF Exact
<1>4. Exact(load) => Exact(load)'
  BY <1>1 DEF Exact
<1> QED BY <1>3, <1>4 DEF Counted

LEMMA FiniteUnsent == IsFiniteSet(Unsent) /\ Cardinality(Unsent) \in Nat
<1>1. IsFiniteSet(Unsent)
  BY PktAssumption, FS_Subset DEF Unsent
<1> QED BY <1>1, FS_CardinalityType

LEMMA DelAckedStep ==
  ASSUME QInv, NEW d \in Pkt, DelAcked(d), Interrupt, UNCHANGED fault
  PROVE  QInv'
<1> USE DEF QInv
<1>1. Types'
  <2>1. heap' \in [Pkt -> {"unused", "used", "freed"}]
    BY DEF Types, DelAcked
  <2>2. prior[d] \in Pointer /\ next[d] \in Pointer
    BY DEF Types
  <2>3. prior' \in [Pkt -> Pointer] /\ next' \in [Pkt -> Pointer]
    BY <2>2 DEF Types, DelAcked, Relink
  <2>4. front' \in Pointer /\ rear' \in Pointer
    BY <2>2 DEF Types, DelAcked
  <2> QED BY <2>1, <2>3, <2>4 DEF Types, DelAcked, mainVars
<1>2. Sturdy'
  BY TakenSturdy
<1>3. Whole'
  BY HandlerWhole, TakenDoubly DEF DelAcked, Expires
<1>4. Unsent' = Unsent
  <2>1. \A p \in Pkt : heap'[p] = IF p = d THEN "freed" ELSE heap[p]
    BY DEF DelAcked, Types
  <2>2. \A p : p \in Unsent' <=> p \in Unsent
    BY <2>1 DEF Unsent, Used, DelAcked, Expires, Finds
  <2> QED BY <2>2
<1>5. Counted'
  BY <1>4, CountedKept DEF DelAcked, Interrupt, mainVars
<1> QED BY <1>1, <1>2, <1>3, <1>5

\* A packet in another state: nothing of the pointers changes.
LEMMA StatStep ==
  ASSUME QInv, NEW d \in Pkt, NEW s \in {"unsent", "sent", "acked", "backed_off"},
         NEW n \in Int,
         heap[d] = "used", stat[d] # "unsent",
         d = pkt_temp => pc \notin {"count", "load", "store", "advance"},
         stat' = [stat EXCEPT ![d] = s],
         UNCHANGED <<ptrVars, heap, tries, pc, mainVars>>, update_stat' = n
  PROVE  Types' /\ Sturdy'
<1> USE DEF QInv
<1>1. Types'
  BY DEF Types, ptrVars, mainVars
<1>2. PlaceOK'
  <2>1. \A p \in Pkt : p # d => stat'[p] = stat[p]
    BY DEF Types
  <2> QED BY <2>1 DEF Sturdy, PlaceOK, Used, mainVars
<1>3. Sturdy'
  BY <1>2, StillSturdy DEF Sturdy, mainVars
<1> QED BY <1>1, <1>3

LEMMA StartBackOffStep ==
  ASSUME QInv, NEW d \in Pkt, StartBackOff(d), Interrupt, UNCHANGED fault
  PROVE  QInv'
<1> USE DEF QInv
<1>1. heap[d] = "used" /\ stat[d] = "sent"
  BY DEF StartBackOff, Expires, Finds, Used
<1>2. Types' /\ Sturdy'
  <2>1. update_stat \in Int
    BY DEF Types
  <2> QED BY <1>1, <2>1, StatStep DEF StartBackOff, Expires
<1>3. Whole'
  <2>1. UNCHANGED <<ptrVars, heap>> /\ UNCHANGED <<pc, pkt_temp>>
    BY DEF StartBackOff, mainVars
  <2>2. Doubly(front, rear, Queued)' <=> Doubly(front, rear, Queued)
    BY <2>1, StillSturdy DEF ptrVars, Doubly
  <2> QED BY <2>2, HandlerWhole DEF StartBackOff, Expires
<1>4. Unsent' = Unsent
  <2>1. \A p \in Pkt : stat'[p] = IF p = d THEN "backed_off" ELSE stat[p]
    BY DEF StartBackOff, Types
  <2>2. \A p : p \in Unsent' <=> p \in Unsent
    BY <1>1, <2>1 DEF Unsent, Used, StartBackOff
  <2> QED BY <2>2
<1>5. Counted'
  BY <1>4, CountedKept DEF StartBackOff, Interrupt, mainVars
<1> QED BY <1>2, <1>3, <1>5

LEMMA RecordACKStep ==
  ASSUME QInv, NEW d \in Pkt, RecordACK(d), UNCHANGED <<fault, interrupted>>
  PROVE  QInv'
<1> USE DEF QInv
<1>1. heap[d] = "used" /\ stat[d] = "sent"
  BY DEF RecordACK, Finds, Used
<1>2. Types' /\ Sturdy'
  <2>1. update_stat \in Int
    BY DEF Types
  <2> QED BY <1>1, <2>1, StatStep DEF RecordACK
<1>3. Whole'
  <2>1. UNCHANGED <<ptrVars, heap>> /\ UNCHANGED <<pc, pkt_temp>>
    BY DEF RecordACK, mainVars
  <2>2. Doubly(front, rear, Queued)' <=> Doubly(front, rear, Queued)
    BY <2>1, StillSturdy DEF ptrVars, Doubly
  <2> QED BY <2>2 DEF RecordACK, Whole, LinksOK, AheadOK, Adding, Deleting
<1>4. Unsent' = Unsent
  <2>1. \A p \in Pkt : stat'[p] = IF p = d THEN "acked" ELSE stat[p]
    BY DEF RecordACK, Types
  <2>2. \A p : p \in Unsent' <=> p \in Unsent
    BY <1>1, <2>1 DEF Unsent, Used, RecordACK
  <2> QED BY <2>2
<1>5. Counted'
  BY <1>4, CountedKept DEF RecordACK, mainVars
<1> QED BY <1>2, <1>3, <1>5

LEMMA EndBackOffStep ==
  ASSUME QInv, NEW d \in Pkt, EndBackOff(d), Interrupt, UNCHANGED fault
  PROVE  QInv'
<1> USE DEF QInv
<1>1. heap[d] = "used" /\ stat[d] = "backed_off"
  BY DEF EndBackOff, Expires, Finds, Used
<1>2. Types' /\ Sturdy'
  <2>1. update_stat \in Int /\ update_stat + 1 \in Int
    BY DEF Types
  <2> QED BY <1>1, <2>1, StatStep DEF EndBackOff, Expires
<1>3. Whole'
  <2>1. UNCHANGED <<ptrVars, heap>> /\ UNCHANGED <<pc, pkt_temp>>
    BY DEF EndBackOff, mainVars
  <2>2. Doubly(front, rear, Queued)' <=> Doubly(front, rear, Queued)
    BY <2>1, StillSturdy DEF ptrVars, Doubly
  <2> QED BY <2>2, HandlerWhole DEF EndBackOff, Expires
<1>4. Cardinality(Unsent') = Cardinality(Unsent) + 1
  <2>1. \A p \in Pkt : stat'[p] = IF p = d THEN "unsent" ELSE stat[p]
    BY DEF EndBackOff, Types
  <2>2. \A p : p \in Unsent' <=> p \in Unsent \cup {d}
    BY <1>1, <2>1 DEF Unsent, Used, EndBackOff
  <2>3. Unsent' = Unsent \cup {d} /\ d \notin Unsent
    BY <1>1, <2>2 DEF Unsent
  <2> QED BY <2>3, FiniteUnsent, FS_AddElement
<1>5. Counted'
  <2>1. /\ UNCHANGED <<pc, job, load>> /\ update_stat' = update_stat + 1
        /\ interrupted => interrupted'
        /\ pc = "store" => interrupted'
    BY DEF EndBackOff, mainVars, Interrupt
  <2>2. PICK c \in Int : c = Cardinality(Unsent)
    BY FiniteUnsent
  <2>3. PICK o \in Int : o = Owed
    BY DEF Owed, OwedAt
  <2>4. Owed' = o
    BY <2>1, <2>3 DEF Owed
  <2>5. update_stat \in Int /\ load \in Int
    BY DEF Types
  <2>6. Exact(update_stat) => Exact(update_stat)'
    BY <1>4, <2>1, <2>2, <2>3, <2>4, <2>5 DEF Exact
  <2>7. pc = "store" /\ Exact(load) => Exact(load)'
    BY <1>4, <2>1, <2>2, <2>3, <2>4, <2>5 DEF Exact
  <2> QED BY <2>1, <2>6, <2>7 DEF Counted
<1> QED BY <1>2, <1>3, <1>5

----------------------------------------------------------------------------
(***************************************************************************)
(* add_pkt.                                                                *)
(***************************************************************************)
LEMMA SameNext ==
  ASSUME next' = next, Freed' = Freed
  PROVE  /\ \A S : HoldsNext(S)' <=> HoldsNext(S)
         /\ \A p, q : Leads(p, q)' <=> Leads(p, q)
BY DEF HoldsNext, Leads

\* update_stat is as much too high as before.
LEMMA CountedOn ==
  ASSUME Counted, Unsent' = Unsent, UNCHANGED <<update_stat, interrupted>>,
         Owed' = Owed, pc \notin {"close", "closed"}, pc' # "store"
  PROVE  Counted'
<1>1. Exact(update_stat) => Exact(update_stat)'
  BY DEF Exact
<1> QED BY <1>1 DEF Counted

LEMMA OwedValue ==
  ASSUME NEW place, NEW what
  PROVE  /\ place \in Adding => OwedAt(place, what) = -1
         /\ place = "count" => OwedAt(place, what) = 1
         /\ place \in {"load", "store"} =>
              OwedAt(place, what) = IF what = "add" THEN -1 ELSE 1
         /\ place \in Deleting \cup {"idle", "walk", "advance", "close", "closed"} =>
              OwedAt(place, what) = 0
<1>1. place \in Adding => OwedAt(place, what) = -1
  BY DEF OwedAt, Adding
<1>2. place = "count" => OwedAt(place, what) = 1
  BY DEF OwedAt, Adding
<1>3. place \in {"load", "store"} =>
        OwedAt(place, what) = IF what = "add" THEN -1 ELSE 1
  BY DEF OwedAt, Adding
<1>4. place \in Deleting \cup {"idle", "walk", "advance", "close", "closed"} =>
        OwedAt(place, what) = 0
  BY DEF OwedAt, Adding, Deleting
<1> QED BY <1>1, <1>2, <1>3, <1>4

LEMMA AddPktStep ==
  ASSUME QInv, NEW t \in Pkt, AddPkt(t), UNCHANGED <<fault, interrupted>>
  PROVE  QInv'
<1> USE DEF QInv
<1>1. /\ pc = "idle" /\ heap[t] = "unused" /\ pkt_temp' = t /\ job' = "add"
      /\ pc' \in {"add_front", "add_prior"}
      /\ UNCHANGED <<prior, next, front, rear, stat, tries, update_stat, temp, load>>
      /\ \A p \in Pkt : heap'[p] = IF p = t THEN "used" ELSE heap[p]
      /\ pc' = "add_front" <=> front = NULL
  BY DEF AddPkt, ptrVars, Types
<1>2. Apart(t) /\ prior[t] = NULL /\ stat[t] = "unsent"
  BY <1>1 DEF Sturdy, Fresh, PlaceOK
<1>3. Types'
  <2>1. heap' \in [Pkt -> {"unused", "used", "freed"}]
    BY DEF AddPkt, Types
  <2>2. pc' \in Adding
    BY <1>1 DEF Adding
  <2> QED BY <1>1, <2>1, <2>2 DEF Types, Pointer
<1>4. /\ Queued = Allocated /\ Queued' = Queued /\ Freed' = Freed
      /\ Allocated' = Allocated \cup {t} /\ t \notin Allocated
  <2>1. \A p : p \in Allocated' <=> p \in Allocated \cup {t}
    BY <1>1 DEF Allocated
  <2>2. \A p : p \in Freed' <=> p \in Freed
    BY <1>1 DEF Freed
  <2>3. t \notin Allocated
    BY <1>1 DEF Allocated
  <2>4. Queued = Allocated
    BY <1>1, AllQueued DEF Settled
  <2>5. \A p : p \in Queued' <=> p \in Queued
    BY <1>1, <2>1, <2>3, <2>4 DEF Queued, Outside
  <2> QED BY <2>1, <2>2, <2>3, <2>4, <2>5
<1>5. /\ \A S : HoldsNext(S)' <=> HoldsNext(S)
      /\ \A p, q : Leads(p, q)' <=> Leads(p, q)
      /\ \A p : Apart(p)' <=> Apart(p)
      /\ \A f, r, S : Doubly(f, r, S)' <=> Doubly(f, r, S)
  BY <1>1, <1>4, SameNext DEF Apart, Doubly
<1>6. Reached'
  BY <1>1, <1>4, <1>5 DEF Sturdy, Reached
<1>7. Fresh'
  <2>1. Apart(pkt_temp)'
    BY <1>1, <1>2, <1>5 DEF Apart
  <2> QED BY <1>1, <1>5, <2>1 DEF Sturdy, Fresh
<1>8. PriorOK'
  <2>1. \A q \in Queued : q \in Pkt /\ prior[q] # t
    BY <1>2, QueuedSets DEF Apart
  <2> QED BY <1>1, <1>4, <1>5, <2>1 DEF Sturdy, PriorOK
<1>9. NextOK'
  BY <1>1, <1>4 DEF Sturdy, NextOK
<1>10. RearOK'
  <2>1. rear # t
    BY <1>2 DEF Apart
  <2> QED BY <1>1, <1>4, <2>1 DEF Sturdy, RearOK
<1>11. PlaceOK'
  BY <1>1, <1>2 DEF Sturdy, PlaceOK, Used, Deleting, Adding
<1>12. AddOK'
  <2>1. HoldsNext({}) /\ {} \in SUBSET Pkt
    BY DEF HoldsNext
  <2>2. front = NULL => Queued = {}
    BY <2>1 DEF Sturdy, Reached
  <2> QED BY <1>1, <1>2, <1>4, <2>2 DEF AddOK
<1>13. DelOK'
  BY <1>1 DEF DelOK
<1>14. Whole'
  <2>1. ~ interrupted => Doubly(front, rear, Queued)
    BY <1>1 DEF Whole, LinksOK
  <2>2. ~ interrupted => Doubly(front, rear, Queued)'
    BY <1>1, <1>4, <2>1 DEF Doubly
  <2> QED BY <1>1, <2>1, <2>2 DEF Whole, LinksOK, AheadOK, Deleting, Doubly
<1>15. Counted'
  <2>1. \A p : p \in Unsent' <=> p \in Unsent \cup {t}
    BY <1>1, <1>2 DEF Unsent, Used
  <2>2. Unsent' = Unsent \cup {t} /\ t \notin Unsent
    BY <1>1, <2>1 DEF Unsent, Used
  <2>3. Cardinality(Unsent') = Cardinality(Unsent) + 1
    BY <2>2, FiniteUnsent, FS_AddElement
  <2>4. Owed = 0
    BY <1>1, OwedValue DEF Owed
  <2>5. Owed' = -1
    <3>1. pc' \in Adding
      BY <1>1 DEF Adding
    <3> QED BY <3>1, OwedValue DEF Owed
  <2>6. Exact(update_stat) => Exact(update_stat)'
    <3>1. PICK c \in Int : c = Cardinality(Unsent)
      BY FiniteUnsent
    <3> QED BY <1>1, <2>3, <2>4, <2>5, <3>1 DEF Exact, Types
  <2> QED BY <1>1, <2>6 DEF Counted
<1> QED BY <1>3, <1>6, <1>7, <1>8, <1>9, <1>10, <1>11, <1>12, <1>13, <1>14, <1>15 DEF Sturdy

\* A step inside add_pkt or del_pkt: only the pointers change.
LEMMA PlaceStep ==
  ASSUME QInv, UNCHANGED <<pktVars, update_stat, mainVars, fault, interrupted>>,
         \/ pc \in Adding /\ pc' \in Adding \cup {"load"}
         \/ pc \in Deleting /\ pc' \in Deleting,
         {prior', next'} \subseteq [Pkt -> Pointer], {front', rear'} \subseteq Pointer
  PROVE  Types' /\ PlaceOK' /\ Counted'
<1>1. Types'
  BY DEF QInv, Types, pktVars, mainVars
<1>2. PlaceOK'
  <2>1. Used(pkt_temp)' <=> Used(pkt_temp)
    BY DEF Used, pktVars, mainVars
  <2> QED BY <2>1 DEF QInv, Sturdy, PlaceOK, pktVars, mainVars, Adding, Deleting
<1>3. Counted'
  <2>1. Owed' = Owed
    <3>1. OwedAt(pc', job) = OwedAt(pc, job)
      BY OwedValue DEF QInv, Sturdy, PlaceOK
    <3> QED BY <3>1 DEF Owed, mainVars
  <2>2. Unsent' = Unsent
    BY DEF Unsent, Used, pktVars
  <2> QED BY <2>1, <2>2, CountedOn DEF QInv, Adding, Deleting
<1> QED BY <1>1, <1>2, <1>3

LEMMA SetFrontStep ==
  ASSUME QInv, SetFront, UNCHANGED <<fault, interrupted>>
  PROVE  QInv'
<1> USE DEF QInv
<1>1. PICK t \in Pkt : t = pkt_temp /\ heap[t] = "used" /\ t # NULL
  BY NullAssumption DEF SetFront, Sturdy, PlaceOK, Adding, Used
<1>2. /\ pc = "add_front" /\ pc' = "add_first" /\ front' = t /\ pkt_temp' = t
      /\ UNCHANGED <<prior, next, rear, heap>>
  BY <1>1 DEF SetFront, pktVars, mainVars
<1>3. Types' /\ PlaceOK' /\ Counted'
  <2>1. {prior', next'} \subseteq [Pkt -> Pointer] /\ {front', rear'} \subseteq Pointer
    BY <1>2 DEF Types, Pointer
  <2> QED BY <1>2, <2>1, PlaceStep DEF SetFront, Adding
<1>4. Apart(t) /\ prior[t] = NULL /\ Queued = {}
  BY <1>1, <1>2 DEF Sturdy, Fresh, AddOK
<1>5. /\ Allocated = {t} /\ Queued' = {t}
      /\ Allocated' = Allocated /\ Freed' = Freed
  <2>1. Allocated = {t}
    BY <1>1, <1>2, <1>4 DEF Queued, Allocated
  <2>2. Allocated' = Allocated /\ Freed' = Freed
    BY <1>2 DEF Allocated, Freed
  <2>3. \A p : p \in Queued' <=> p = t
    BY <1>2, <2>1, <2>2 DEF Queued, Outside
  <2> QED BY <2>1, <2>2, <2>3
<1>6. Reached'
  BY <1>1, <1>2, <1>5 DEF Reached
<1>7. Fresh'
  <2>1. \A p \in Pkt : heap[p] = "unused" => Apart(p)'
    BY <1>1, <1>2 DEF Sturdy, Fresh, Apart
  <2> QED BY <1>2, <2>1 DEF Sturdy, Fresh
<1>8. PriorOK'
  BY <1>1, <1>2, <1>4, <1>5 DEF PriorOK
<1>9. NextOK' /\ RearOK' /\ AddOK' /\ DelOK'
  BY <1>1, <1>2, <1>4, <1>5 DEF NextOK, RearOK, AddOK, DelOK, Apart
<1>10. Whole'
  <2>1. Doubly(front, pkt_temp, Queued)'
    BY <1>1, <1>2, <1>4, <1>5 DEF Doubly, Apart
  <2> QED BY <1>2, <2>1 DEF Whole, LinksOK, AheadOK, Deleting
<1> QED BY <1>3, <1>6, <1>7, <1>8, <1>9, <1>10 DEF Sturdy

LEMMA SetRearToFrontStep ==
  ASSUME QInv, SetRearToFront, UNCHANGED <<fault, interrupted>>
  PROVE  QInv'
<1> USE DEF QInv
<1>1. PICK t \in Pkt : t = pkt_temp /\ heap[t] = "used" /\ t # NULL
  BY NullAssumption DEF SetRearToFront, Sturdy, PlaceOK, Adding, Used
<1>2. /\ pc = "add_first" /\ pc' = "load" /\ front = t /\ rear' = t /\ pkt_temp' = t
      /\ UNCHANGED <<prior, next, front, heap, job>> /\ Queued = {t} /\ next[t] = NULL
      /\ job = "add"
  BY <1>1 DEF SetRearToFront, Sturdy, AddOK, PlaceOK, pktVars, mainVars, Adding
<1>3. Types' /\ PlaceOK' /\ Counted'
  <2>1. {prior', next'} \subseteq [Pkt -> Pointer] /\ {front', rear'} \subseteq Pointer
    BY <1>2 DEF Types, Pointer
  <2> QED BY <1>2, <2>1, PlaceStep DEF SetRearToFront, Adding
<1>4. /\ Queued' = Queued /\ Allocated' = Allocated /\ Freed' = Freed
      /\ \A S : HoldsNext(S)' <=> HoldsNext(S)
      /\ \A p, q : Leads(p, q)' <=> Leads(p, q)
  <2>1. Allocated' = Allocated /\ Freed' = Freed
    BY <1>2 DEF Allocated, Freed
  <2> QED BY <1>1, <1>2, <2>1, SameNext DEF Queued, Outside
<1>5. Reached'
  BY <1>2, <1>4 DEF Sturdy, Reached
<1>6. Fresh'
  BY <1>1, <1>2 DEF Sturdy, Fresh, Apart
<1>7. PriorOK' /\ NextOK'
  BY <1>2, <1>4 DEF Sturdy, PriorOK, NextOK
<1>8. RearOK' /\ AddOK' /\ DelOK'
  BY <1>1, <1>2, <1>4 DEF RearOK, AddOK, DelOK
<1>9. Whole'
  <2>1. ~ interrupted => Doubly(front, rear, Queued)'
    BY <1>1, <1>2, <1>4 DEF Whole, LinksOK, Doubly
  <2> QED BY <1>2, <2>1 DEF SetRearToFront, Whole, LinksOK, AheadOK, Deleting
<1> QED BY <1>3, <1>5, <1>6, <1>7, <1>8, <1>9 DEF Sturdy

LEMMA SetPriorStep ==
  ASSUME QInv, SetPrior, UNCHANGED <<fault, interrupted>>
  PROVE  QInv'
<1> USE DEF QInv
<1>1. PICK t \in Pkt : t = pkt_temp /\ heap[t] = "used" /\ t # NULL
  BY NullAssumption DEF SetPrior, Sturdy, PlaceOK, Adding, Used
<1>2. /\ pc = "add_prior" /\ pc' = "add_link" /\ pkt_temp' = t
      /\ UNCHANGED <<next, front, rear, heap>>
      /\ \A p \in Pkt : prior'[p] = IF p = t THEN rear ELSE prior[p]
  BY <1>1 DEF SetPrior, pktVars, mainVars, Types
<1>3. Types' /\ PlaceOK' /\ Counted'
  <2>1. {prior', next'} \subseteq [Pkt -> Pointer] /\ {front', rear'} \subseteq Pointer
    BY <1>2 DEF Types, SetPrior
  <2> QED BY <1>2, <2>1, PlaceStep DEF SetPrior, Adding
<1>4. Apart(t)
  BY <1>1, <1>2 DEF Sturdy, Fresh
<1>5. /\ Queued' = Queued /\ Allocated' = Allocated /\ Freed' = Freed /\ t \notin Queued
      /\ \A S : HoldsNext(S)' <=> HoldsNext(S)
      /\ \A p, q : Leads(p, q)' <=> Leads(p, q)
      /\ \A p \in Queued : prior'[p] = prior[p] /\ p \in Pkt
  <2>1. Allocated' = Allocated /\ Freed' = Freed
    BY <1>2 DEF Allocated, Freed
  <2>2. Queued' = Queued /\ t \notin Queued
    BY <1>1, <1>2, <2>1 DEF Queued, Outside
  <2> QED BY <1>2, <2>1, <2>2, SameNext, QueuedSets
<1>6. Reached'
  BY <1>2, <1>5 DEF Sturdy, Reached
<1>7. Fresh'
  BY <1>1, <1>2, <1>4 DEF Sturdy, Fresh, Apart
<1>8. PriorOK'
  BY <1>2, <1>5 DEF Sturdy, PriorOK
<1>9. NextOK'
  BY <1>2, <1>5 DEF Sturdy, NextOK
<1>10. RearOK' /\ AddOK' /\ DelOK'
  BY <1>1, <1>2, <1>5 DEF Sturdy, RearOK, AddOK, DelOK
<1>11. Whole'
  <2>1. ~ interrupted => Doubly(front, rear, Queued)'
    BY <1>1, <1>2, <1>5 DEF Whole, LinksOK, Doubly
  <2> QED BY <1>1, <1>2, <2>1 DEF Whole, LinksOK, AheadOK, Deleting
<1> QED BY <1>3, <1>6, <1>7, <1>8, <1>9, <1>10, <1>11 DEF Sturdy

LEMMA LinkRearStep ==
  ASSUME QInv, LinkRear, UNCHANGED <<fault, interrupted>>
  PROVE  QInv'
<1> USE DEF QInv
<1>1. PICK t \in Pkt, r \in Pkt : /\ t = pkt_temp /\ heap[t] = "used" /\ t # NULL
                                  /\ r = rear /\ heap[r] = "used" /\ r # NULL
  BY NullAssumption DEF LinkRear, Sturdy, PlaceOK, Adding, Used
<1>2. /\ pc = "add_link" /\ pc' = "add_rear" /\ pkt_temp' = t
      /\ UNCHANGED <<prior, front, rear, heap>>
      /\ \A p \in Pkt : next'[p] = IF p = r THEN t ELSE next[p]
  BY <1>1 DEF LinkRear, pktVars, mainVars, Types
<1>3. Types' /\ PlaceOK' /\ Counted'
  <2>1. {prior', next'} \subseteq [Pkt -> Pointer] /\ {front', rear'} \subseteq Pointer
    BY <1>1, <1>2 DEF Types, LinkRear, Pointer
  <2> QED BY <1>2, <2>1, PlaceStep DEF LinkRear, Adding
<1>4. Apart(t)
  BY <1>1, <1>2 DEF Sturdy, Fresh
<1>5. /\ Queued' = Queued \cup {t} /\ Allocated' = Allocated /\ Freed' = Freed
      /\ t \notin Queued /\ r \in Queued /\ r # t /\ Queued' = Allocated
  <2>1. Allocated' = Allocated /\ Freed' = Freed
    BY <1>2 DEF Allocated, Freed
  <2>2. \A p : p \in Queued' <=> p \in Allocated
    BY <1>2, <2>1 DEF Queued, Outside
  <2>3. \A p : p \in Allocated <=> p \in Queued \cup {t}
    BY <1>1 DEF Queued, Allocated
  <2>4. t \notin Queued /\ r # t
    BY <1>1, <1>2, <1>4 DEF Queued, Outside, Apart
  <2>5. r \in Queued
    BY <1>1, <2>3, <2>4 DEF Allocated
  <2> QED BY <2>1, <2>2, <2>3, <2>4, <2>5
<1>6. next[r] = NULL /\ next[t] = NULL
  BY <1>1, <1>2, <1>4, <1>5, QueuedSets DEF Sturdy, RearOK, Apart
<1>7. /\ prior[t] # NULL /\ (prior[t] \in Allocated => prior[t] = r)
      /\ \A p \in Queued : p \in Pkt /\ p # NULL /\ prior[p] # t /\ next[p] # t
  BY <1>1, <1>2, <1>4, <1>5, QueuedSets DEF Sturdy, AddOK, Apart
<1>8. ASSUME NEW p \in Pkt, NEW q \in Queued, Leads(p, q) PROVE p # r /\ Leads(p, q)'
  <2>1. PICK F \in SUBSET Freed : /\ next[p] \in F \cup {q}
                                  /\ \A f \in F : next[f] \in F \cup {q}
    BY <1>8 DEF Leads
  <2>2. r \notin F /\ F \subseteq Pkt /\ NULL \notin F
    BY <1>5, QueuedSets
  <2>3. p # r
    BY <1>6, <1>7, <2>1, <2>2
  <2>4. next'[p] = next[p] /\ \A f \in F : next'[f] = next[f]
    BY <1>2, <2>2, <2>3
  <2>5. F \in SUBSET Freed'
    BY <1>5
  <2> QED BY <2>1, <2>3, <2>4, <2>5 DEF Leads
<1>9. Reached'
  <2> SUFFICES ASSUME NEW S \in SUBSET Pkt, HoldsNext(S)', front \in S \cup {NULL}
               PROVE  Queued' \subseteq S
    BY <1>2 DEF Reached
  <2>1. \A p \in S : next'[p] \in S \cup {NULL}
    BY DEF HoldsNext
  <2>2. HoldsNext(S)
    BY <1>2, <1>6, <2>1 DEF HoldsNext
  <2>3. Queued \subseteq S
    BY <2>2 DEF Sturdy, Reached
  <2> QED BY <1>1, <1>2, <1>5, <2>1, <2>3
<1>10. Fresh'
  <2>1. \A p \in Pkt : heap[p] = "unused" => Apart(p)'
    BY <1>1, <1>2 DEF Sturdy, Fresh, Apart
  <2> QED BY <1>2, <2>1 DEF Sturdy, Fresh
<1>11. PriorOK'
  <2>1. ASSUME NEW p \in Queued', prior[p] = NULL PROVE front = p
    BY <1>5, <1>7, <2>1 DEF Sturdy, PriorOK
  <2>2. ASSUME NEW p \in Queued', prior[p] \in Allocated PROVE Leads(prior[p], p)'
    <3>1. PICK a \in Pkt : a = prior[p]
      BY <2>2, QueuedSets
    <3>2. CASE p = t
      <4>1. a = r /\ {} \in SUBSET Freed'
        BY <1>7, <2>2, <3>1, <3>2
      <4>2. next'[prior'[p]] \in {} \cup {p}
        BY <1>2, <3>1, <3>2, <4>1
      <4> QED BY <4>1, <4>2 DEF Leads
    <3>3. CASE p # t
      <4>1. p \in Queued /\ Leads(a, p)
        BY <1>5, <2>2, <3>1, <3>3 DEF Sturdy, PriorOK
      <4>2. Leads(a, p)'
        BY <1>8, <4>1
      <4> QED BY <1>2, <3>1, <4>2 DEF Leads
    <3> QED BY <3>2, <3>3
  <2>3. ASSUME NEW p \in Queued, prior[p] = r PROVE FALSE
    <3>1. Leads(r, p)
      BY <1>1, <1>5, <2>3, QueuedSets DEF Sturdy, PriorOK
    <3> QED BY <1>1, <1>8, <3>1
  <2>4. ASSUME NEW p \in Queued', NEW q \in Queued', prior[p] = prior[q],
               prior[p] \in Allocated
        PROVE  p = q
    BY <1>5, <1>7, <2>3, <2>4 DEF Sturdy, PriorOK
  <2> QED BY <1>2, <1>5, <2>1, <2>2, <2>4 DEF PriorOK
<1>12. NextOK'
  <2>1. /\ \A x, y \in Queued : next[x] = next[y] /\ next[x] \in Queued \cup {NULL} => x = y
        /\ \A x, y \in Queued : next[x] = y /\ prior[y] \in Queued => prior[y] = x
    BY DEF Sturdy, NextOK
  <2>2. ASSUME NEW p \in Queued', NEW q \in Queued', next'[p] = next'[q],
               next'[p] \in Queued' \cup {NULL}
        PROVE  p = q
    <3>1. \A x \in Queued' : x \in Pkt /\ next'[x] = IF x = r THEN t ELSE next[x]
      BY <1>2, <1>5, QueuedSets
    <3> QED BY <1>1, <1>5, <1>6, <1>7, <2>1, <2>2, <3>1
  <2>3. ASSUME NEW p \in Queued', NEW q \in Queued', next'[p] = q, prior[q] \in Queued'
        PROVE  prior[q] = p
    <3>1. p \in Pkt /\ next'[p] = IF p = r THEN t ELSE next[p]
      BY <1>2, <1>5, QueuedSets
    <3> QED BY <1>1, <1>5, <1>6, <1>7, <2>1, <2>3, <3>1, QueuedSets
  <2> QED BY <1>2, <2>2, <2>3 DEF NextOK
<1>13. RearOK' /\ AddOK' /\ DelOK'
  BY <1>1, <1>2, <1>5, <1>6 DEF RearOK, AddOK, DelOK
<1>14. Whole'
  <2>1. ASSUME ~ interrupted PROVE Doubly(front, pkt_temp, Queued)'
    <3>1. Doubly(front, rear, Queued) /\ prior[t] = r
      BY <1>1, <1>2, <2>1 DEF Whole, LinksOK
    <3>2. /\ front # NULL /\ front \in Queued
          /\ \A p \in Queued :
                  /\ prior[p] = NULL <=> front = p
                  /\ prior[p] # NULL => prior[p] \in Queued /\ next[prior[p]] = p
                  /\ next[p] = NULL <=> r = p
                  /\ next[p] # NULL => next[p] \in Queued /\ prior[next[p]] = p
      BY <1>1, <3>1 DEF Doubly
    <3>3. ASSUME NEW p \in Queued'
          PROVE  /\ prior[p] = NULL <=> front = p
                 /\ prior[p] # NULL => prior[p] \in Queued' /\ next'[prior[p]] = p
      <4>1. CASE p = t
        BY <1>1, <1>2, <1>5, <3>1, <3>2, <4>1
      <4>2. CASE p # t
        <5>1. p \in Queued /\ prior[p] # r
          BY <1>1, <1>5, <1>6, <1>7, <3>2, <4>2
        <5>2. prior[p] # NULL => prior[p] \in Pkt
          BY <1>7, <3>2, <5>1
        <5> QED BY <1>2, <1>5, <3>2, <5>1, <5>2
      <4> QED BY <4>1, <4>2
    <3>4. ASSUME NEW p \in Queued'
          PROVE  /\ next'[p] = NULL <=> t = p
                 /\ next'[p] # NULL => next'[p] \in Queued' /\ prior[next'[p]] = p
      <4>1. CASE p = t
        BY <1>1, <1>2, <1>5, <1>6, <4>1
      <4>2. CASE p = r
        BY <1>1, <1>2, <1>5, <3>1, <4>2
      <4>3. CASE p # t /\ p # r
        <5>1. p \in Queued /\ p \in Pkt /\ next'[p] = next[p]
          BY <1>2, <1>5, <1>7, <4>3
        <5> QED BY <1>5, <3>2, <4>3, <5>1
      <4> QED BY <4>1, <4>2, <4>3
    <3>5. front \in Queued' /\ t \in Queued'
      BY <1>5, <3>2
    <3> QED BY <1>1, <1>2, <3>2, <3>3, <3>4, <3>5 DEF Doubly
  <2> QED BY <1>2, <2>1 DEF Whole, LinksOK, AheadOK, Deleting
<1> QED BY <1>3, <1>9, <1>10, <1>11, <1>12, <1>13, <1>14 DEF Sturdy

LEMMA SetRearStep ==
  ASSUME QInv, SetRear, UNCHANGED <<fault, interrupted>>
  PROVE  QInv'
<1> USE DEF QInv
<1>1. PICK t \in Pkt : t = pkt_temp /\ heap[t] = "used" /\ t # NULL
  BY NullAssumption DEF SetRear, Sturdy, PlaceOK, Adding, Used
<1>2. /\ pc = "add_rear" /\ pc' = "load" /\ rear' = t /\ pkt_temp' = t
      /\ UNCHANGED <<prior, next, front, heap, job>> /\ next[t] = NULL /\ job = "add"
  BY <1>1 DEF SetRear, Sturdy, AddOK, PlaceOK, pktVars, mainVars, Adding
<1>3. Types' /\ PlaceOK' /\ Counted'
  <2>1. {prior', next'} \subseteq [Pkt -> Pointer] /\ {front', rear'} \subseteq Pointer
    BY <1>2 DEF Types, Pointer
  <2> QED BY <1>2, <2>1, PlaceStep DEF SetRear, Adding
<1>4. /\ Queued' = Queued /\ Allocated' = Allocated /\ Freed' = Freed /\ t \in Queued
      /\ \A S : HoldsNext(S)' <=> HoldsNext(S)
      /\ \A p, q : Leads(p, q)' <=> Leads(p, q)
  <2>1. Allocated' = Allocated /\ Freed' = Freed
    BY <1>2 DEF Allocated, Freed
  <2> QED BY <1>1, <1>2, <2>1, SameNext DEF Queued, Outside, Allocated
<1>5. Reached'
  BY <1>2, <1>4 DEF Sturdy, Reached
<1>6. Fresh'
  BY <1>1, <1>2 DEF Sturdy, Fresh, Apart
<1>7. PriorOK' /\ NextOK'
  BY <1>2, <1>4 DEF Sturdy, PriorOK, NextOK
<1>8. RearOK' /\ AddOK' /\ DelOK'
  BY <1>1, <1>2, <1>4 DEF RearOK, AddOK, DelOK
<1>9. Whole'
  <2>1. ~ interrupted => Doubly(front, rear, Queued)'
    BY <1>1, <1>2, <1>4 DEF Whole, LinksOK, Doubly
  <2> QED BY <1>2, <2>1 DEF SetRear, Whole, LinksOK, AheadOK, Deleting
<1> QED BY <1>3, <1>5, <1>6, <1>7, <1>8, <1>9 DEF Sturdy

----------------------------------------------------------------------------
(***************************************************************************)
(* del_pkt of main.                                                        *)
(***************************************************************************)
\* No packet is its own neighbour while the queue is a list.
LEMMA NotItself ==
  ASSUME Types, Sturdy, Doubly(front, rear, Queued), NEW d \in Queued
  PROVE  next[d] # d /\ prior[d] # d /\ front # NULL
<1>1. next[d] # d
  <2> SUFFICES ASSUME next[d] = d PROVE FALSE
    OBVIOUS
  <2> DEFINE S == Queued \ {d}
  <2>1. front \in S \cup {NULL} /\ \A p \in S : next[p] \in S \cup {NULL}
    BY QueuedSets DEF Doubly
  <2>2. d \in S
    BY <2>1, QueuedSets DEF HoldsNext, Sturdy, Reached
  <2> QED BY <2>2
<1>2. prior[d] # d
  BY <1>1, QueuedSets DEF Doubly
<1>3. HoldsNext({}) /\ {} \in SUBSET Pkt
  BY DEF HoldsNext
<1> QED BY <1>1, <1>2, <1>3 DEF Sturdy, Reached

\* main is at a packet that is not in the queue any more.
LEMMA OutNow ==
  ASSUME pc' \in {"del_only", "del_head", "del_middle", "free"},
         pc \in {"del", "del_last"} \cup Outside, UNCHANGED <<heap, pkt_temp>>
  PROVE  /\ Queued' = Queued \ {pkt_temp}
         /\ Allocated' = Allocated /\ Freed' = Freed
<1>1. Allocated' = Allocated /\ Freed' = Freed
  BY DEF Allocated, Freed
<1>2. \A p : p \in Queued' <=> p \in Queued \ {pkt_temp}
  BY <1>1 DEF Queued, Outside
<1> QED BY <1>1, <1>2

LEMMA DelOnlyFirst ==
  ASSUME QInv, DelFirst, pc' = "del_only", UNCHANGED <<fault, interrupted>>
  PROVE  Sturdy' /\ Whole'
<1> USE DEF QInv
<1>1. PICK t \in Pkt : t = pkt_temp /\ heap[t] = "used" /\ t # NULL
  BY NullAssumption DEF DelFirst, Used
<1>2. /\ pc = "del" /\ prior[t] = NULL /\ next[t] = NULL /\ front' = NULL
      /\ UNCHANGED <<prior, next, rear, heap, pkt_temp>>
  BY <1>1 DEF DelFirst, pktVars, mainVars
<1>3. PlaceOK'
  <2>1. {prior', next'} \subseteq [Pkt -> Pointer] /\ {front', rear'} \subseteq Pointer
    BY <1>2 DEF Types, Pointer
  <2> QED BY <1>2, <2>1, PlaceStep DEF DelFirst, Deleting
<1>4. /\ Queued = Allocated /\ Queued = {t} /\ Queued' = {}
      /\ Allocated' = Allocated /\ Freed' = Freed
  <2>1. Queued = Allocated /\ t \in Queued
    BY <1>1, <1>2, AllQueued DEF Settled, Allocated
  <2>2. front = t
    BY <1>2, <2>1 DEF Sturdy, PriorOK
  <2>3. HoldsNext({t}) /\ {t} \in SUBSET Pkt
    BY <1>2 DEF HoldsNext
  <2>4. Queued \subseteq {t}
    BY <2>2, <2>3 DEF Sturdy, Reached
  <2>5. Queued' = Queued \ {t} /\ Allocated' = Allocated /\ Freed' = Freed
    BY <1>1, <1>2, OutNow
  <2> QED BY <2>1, <2>4, <2>5
<1>5. Fresh'
  <2>1. \A p \in Pkt : heap[p] = "unused" => Apart(p)' /\ prior[p] = NULL
    BY <1>2, QueuedSets DEF Sturdy, Fresh, Apart
  <2> QED BY <1>2, <2>1 DEF Fresh
<1>6. Reached' /\ PriorOK' /\ NextOK' /\ RearOK' /\ AddOK' /\ DelOK'
  BY <1>1, <1>2, <1>4 DEF Reached, PriorOK, NextOK, RearOK, AddOK, DelOK
<1>7. Whole'
  BY <1>1, <1>2 DEF Whole, LinksOK, AheadOK, Deleting, DelFirst, Used, pktVars, mainVars
<1> QED BY <1>3, <1>5, <1>6, <1>7 DEF Sturdy

LEMMA DelLastFirst ==
  ASSUME QInv, DelFirst, pc' = "del_last", UNCHANGED <<fault, interrupted>>
  PROVE  Sturdy' /\ Whole'
<1> USE DEF QInv
<1>1. PICK t \in Pkt : t = pkt_temp /\ heap[t] = "used" /\ t # NULL
  BY NullAssumption DEF DelFirst, Used
<1>2. /\ pc = "del" /\ prior[t] # NULL /\ next[t] = NULL /\ rear' = prior[t]
      /\ UNCHANGED <<prior, next, front, heap, pkt_temp>>
  BY <1>1 DEF DelFirst, pktVars, mainVars
<1>3. PlaceOK'
  <2>1. {prior', next'} \subseteq [Pkt -> Pointer] /\ {front', rear'} \subseteq Pointer
    BY <1>2 DEF Types, Pointer
  <2> QED BY <1>2, <2>1, PlaceStep DEF DelFirst, Deleting
<1>4. /\ Queued = Allocated /\ t \in Queued /\ Queued' = Queued
      /\ Allocated' = Allocated /\ Freed' = Freed
  <2>1. Queued = Allocated /\ t \in Queued
    BY <1>1, <1>2, AllQueued DEF Settled, Allocated
  <2>2. Allocated' = Allocated /\ Freed' = Freed
    BY <1>2 DEF Allocated, Freed
  <2>3. Queued' = Queued
    BY <1>2, <2>2 DEF Queued, Outside
  <2> QED BY <2>1, <2>2, <2>3
<1>5. /\ \A S : HoldsNext(S)' <=> HoldsNext(S)
      /\ \A p, q : Leads(p, q)' <=> Leads(p, q)
  BY <1>2, <1>4, SameNext
<1>6. Fresh'
  <2>1. \A p \in Pkt : heap[p] = "unused" => Apart(p)' /\ prior[p] = NULL
    BY <1>2 DEF Sturdy, Fresh, Apart
  <2> QED BY <1>2, <2>1 DEF Fresh
<1>7. Reached'
  BY <1>2, <1>4, <1>5 DEF Sturdy, Reached
<1>8. PriorOK' /\ NextOK'
  BY <1>2, <1>4, <1>5 DEF Sturdy, PriorOK, NextOK
<1>9. RearOK' /\ AddOK'
  BY <1>2 DEF RearOK, AddOK
<1>10. DelOK'
  <2>1. ASSUME prior[t] \in Allocated
        PROVE  Leads(prior[t], t) /\ \A q \in Queued : prior[q] = prior[t] => q = t
    BY <1>4, <2>1 DEF Sturdy, PriorOK
  <2>2. ASSUME prior[t] \in Allocated PROVE Leads(rear, pkt_temp)'
    <3>1. PICK a : a = prior[t]
      OBVIOUS
    <3>2. Leads(a, t)'
      BY <1>5, <2>1, <2>2, <3>1
    <3> QED BY <1>1, <1>2, <3>1, <3>2 DEF Leads
  <2> QED BY <1>1, <1>2, <1>4, <2>1, <2>2 DEF DelOK
<1>11. Whole'
  <2>1. ASSUME ~ interrupted PROVE Doubly(front, pkt_temp, Queued)'
    BY <1>1, <1>2, <1>4, <2>1 DEF Whole, LinksOK, Doubly
  <2> QED BY <1>1, <1>2, <2>1
          DEF Whole, LinksOK, AheadOK, Deleting, DelFirst, Used, pktVars, mainVars
<1> QED BY <1>3, <1>6, <1>7, <1>8, <1>9, <1>10, <1>11 DEF Sturdy

LEMMA DelHeadFirst ==
  ASSUME QInv, DelFirst, pc' = "del_head", UNCHANGED <<fault, interrupted>>
  PROVE  Sturdy' /\ Whole'
<1> USE DEF QInv
<1>1. PICK t \in Pkt : t = pkt_temp /\ heap[t] = "used" /\ t # NULL
  BY NullAssumption DEF DelFirst, Used
<1>2. /\ pc = "del" /\ prior[t] = NULL /\ next[t] # NULL /\ front' = next[t]
      /\ UNCHANGED <<prior, next, rear, heap, pkt_temp>>
  BY <1>1 DEF DelFirst, pktVars, mainVars
<1>3. PlaceOK'
  <2>1. {prior', next'} \subseteq [Pkt -> Pointer] /\ {front', rear'} \subseteq Pointer
    BY <1>2 DEF Types, Pointer
  <2> QED BY <1>2, <2>1, PlaceStep DEF DelFirst, Deleting
<1>4. /\ Queued = Allocated /\ t \in Queued /\ Queued' = Queued \ {t} /\ front = t
      /\ Allocated' = Allocated /\ Freed' = Freed
  <2>1. Queued = Allocated /\ t \in Queued
    BY <1>1, <1>2, AllQueued DEF Settled, Allocated
  <2>2. front = t
    BY <1>2, <2>1 DEF Sturdy, PriorOK
  <2> QED BY <1>1, <1>2, <2>1, <2>2, OutNow
<1>5. /\ \A S : HoldsNext(S)' <=> HoldsNext(S)
      /\ \A p, q : Leads(p, q)' <=> Leads(p, q)
  BY <1>2, <1>4, SameNext
<1>6. Fresh'
  <2>1. \A p \in Pkt : heap[p] = "unused" => Apart(p)' /\ prior[p] = NULL
    BY <1>2 DEF Sturdy, Fresh, Apart
  <2> QED BY <1>2, <2>1 DEF Fresh
<1>7. Reached'
  <2> SUFFICES ASSUME NEW S \in SUBSET Pkt, HoldsNext(S), next[t] \in S \cup {NULL}
               PROVE  Queued' \subseteq S
    BY <1>2, <1>5 DEF Reached
  <2>1. HoldsNext(S \cup {t}) /\ S \cup {t} \in SUBSET Pkt
    BY DEF HoldsNext
  <2>2. Queued \subseteq S \cup {t}
    BY <1>4, <2>1 DEF Sturdy, Reached
  <2> QED BY <1>4, <2>2
<1>8. PriorOK' /\ NextOK'
  BY <1>2, <1>4, <1>5 DEF Sturdy, PriorOK, NextOK
<1>9. RearOK' /\ AddOK' /\ DelOK'
  BY <1>1, <1>2, <1>4 DEF Sturdy, RearOK, AddOK, DelOK
<1>10. Whole'
  <2>1. Queued' \cup {t} = Queued
    BY <1>4
  <2>2. ~ interrupted => Doubly(pkt_temp, rear, Queued \cup {pkt_temp})'
    BY <1>1, <1>2, <1>4, <2>1 DEF Whole, LinksOK, Doubly
  <2> QED BY <1>1, <1>2, <2>2
          DEF Whole, LinksOK, AheadOK, Deleting, DelFirst, Used, pktVars, mainVars
<1> QED BY <1>3, <1>6, <1>7, <1>8, <1>9, <1>10 DEF Sturdy

LEMMA DelMiddleFirst ==
  ASSUME QInv, DelFirst, pc' = "del_middle", UNCHANGED <<fault, interrupted>>
  PROVE  Sturdy' /\ Whole'
<1> USE DEF QInv
<1>1. PICK t \in Pkt, a \in Pkt, n \in Pkt :
         /\ t = pkt_temp /\ heap[t] = "used" /\ a = prior[t] /\ heap[a] = "used"
         /\ n = next[t] /\ NULL \notin {t, a, n}
  BY NullAssumption DEF DelFirst, Used, Types, Pointer
<1>2. /\ pc = "del" /\ UNCHANGED <<prior, front, rear, heap, pkt_temp>>
      /\ \A p \in Pkt : next'[p] = IF p = a THEN n ELSE next[p]
  BY <1>1 DEF DelFirst, pktVars, mainVars, Types
<1>3. PlaceOK'
  <2>1. {prior', next'} \subseteq [Pkt -> Pointer] /\ {front', rear'} \subseteq Pointer
    <3>1. next' \in [Pkt -> Pointer]
      BY <1>1 DEF Types, DelFirst, Pointer
    <3> QED BY <1>2, <3>1 DEF Types
  <2> QED BY <1>2, <2>1, PlaceStep DEF DelFirst, Deleting
<1>4. /\ Queued = Allocated /\ t \in Queued /\ a \in Queued /\ Queued' = Queued \ {t}
      /\ Allocated' = Allocated /\ Freed' = Freed
      /\ \A p \in Queued : p \in Pkt /\ p # NULL
  BY <1>1, <1>2, AllQueued, OutNow, QueuedSets DEF Settled, Allocated
<1>5. PICK F \in SUBSET Freed : /\ next[a] \in F \cup {t}
                                /\ \A f \in F : next[f] \in F \cup {t}
  <2>1. Leads(prior[t], t)
    BY <1>1, <1>4 DEF Sturdy, PriorOK
  <2> QED BY <1>1, <2>1 DEF Leads
<1>6. \A p, q \in Queued : prior[p] = prior[q] /\ prior[p] \in Allocated => p = q
  BY DEF Sturdy, PriorOK
<1>7. /\ \A p, q \in Queued : next[p] = next[q] /\ next[p] \in Queued \cup {NULL} => p = q
      /\ \A p, q \in Queued : next[p] = q /\ prior[q] \in Queued => prior[q] = p
  BY DEF Sturdy, NextOK
<1>8. ASSUME NEW p \in Pkt, p # a, NEW q, Leads(p, q) PROVE Leads(p, q)'
  <2>1. PICK G \in SUBSET Freed : /\ next[p] \in G \cup {q}
                                  /\ \A f \in G : next[f] \in G \cup {q}
    BY <1>8 DEF Leads
  <2>2. next'[p] = next[p] /\ \A f \in G : next'[f] = next[f]
    BY <1>2, <1>4, <1>8, QueuedSets
  <2> QED BY <1>4, <2>1, <2>2 DEF Leads
<1>9. Reached'
  <2> SUFFICES ASSUME NEW S \in SUBSET Pkt, HoldsNext(S)', front \in S \cup {NULL}
               PROVE  Queued' \subseteq S
    BY <1>2 DEF Reached
  <2>1. \A p \in S : next'[p] \in S \cup {NULL}
    BY DEF HoldsNext
  <2>2. CASE a \notin S
    <3>1. HoldsNext(S)
      BY <1>2, <2>1, <2>2 DEF HoldsNext
    <3> QED BY <1>4, <3>1 DEF Sturdy, Reached
  <2>3. CASE a \in S
    <3> DEFINE T == S \cup F \cup {t}
    <3>1. n \in S
      BY <1>1, <1>2, <2>1, <2>3
    <3>2. \A p \in S : next[p] \in T \cup {NULL}
      BY <1>2, <1>5, <2>1
    <3>3. HoldsNext(T) /\ T \in SUBSET Pkt
      BY <1>1, <1>5, <3>1, <3>2, QueuedSets DEF HoldsNext
    <3>4. Queued \subseteq T
      BY <3>3 DEF Sturdy, Reached
    <3> QED BY <1>4, <3>4, QueuedSets
  <2> QED BY <2>2, <2>3
<1>10. Fresh'
  <2>1. \A p \in Pkt : heap[p] = "unused" => Apart(p)' /\ prior[p] = NULL
    BY <1>1, <1>2 DEF Sturdy, Fresh, Apart
  <2> QED BY <1>2, <2>1 DEF Fresh
<1>11. PriorOK'
  <2>1. ASSUME NEW p \in Queued', prior[p] \in Allocated PROVE Leads(prior[p], p)'
    <3>1. PICK b \in Pkt : b = prior[p] /\ b # a
      BY <1>1, <1>4, <1>6, <2>1, QueuedSets
    <3>2. Leads(b, p)
      BY <1>4, <2>1, <3>1 DEF Sturdy, PriorOK
    <3>3. Leads(b, p)'
      BY <1>8, <3>1, <3>2
    <3> QED BY <1>2, <3>1, <3>3 DEF Leads
  <2> QED BY <1>2, <1>4, <2>1 DEF Sturdy, PriorOK
<1>12. NextOK'
  <2>1. ASSUME NEW p \in Queued', NEW q \in Queued', next'[p] = next'[q],
               next'[p] \in Queued' \cup {NULL}
        PROVE  p = q
    BY <1>1, <1>2, <1>4, <1>7, <2>1
  <2>2. ASSUME NEW p \in Queued', NEW q \in Queued', next'[p] = q, prior[q] \in Queued'
        PROVE  prior[q] = p
    BY <1>1, <1>2, <1>4, <1>7, <2>2
  <2> QED BY <1>2, <2>1, <2>2 DEF NextOK
<1>13. RearOK' /\ AddOK'
  <2>1. next[a] # NULL
    BY <1>1, <1>5, QueuedSets
  <2> QED BY <1>1, <1>2, <1>4, <2>1 DEF Sturdy, RearOK, AddOK
<1>14. next'[t] = n /\ next'[a] = n
  BY <1>1, <1>2
<1>15. MiddleOK'
  <2>1. \A q \in Queued' : next'[q] # t
    BY <1>1, <1>2, <1>4, <1>7
  <2>2. \A x, y : x = a /\ Leads(x, y)' => Leads(prior[pkt_temp], y)'
    BY <1>1, <1>2 DEF Leads
  <2>3. Leads(prior[pkt_temp], next[pkt_temp])'
    <3>1. {} \in SUBSET Freed' /\ next'[prior'[pkt_temp']] \in {} \cup {next'[pkt_temp']}
      BY <1>1, <1>2, <1>14
    <3> QED BY <3>1 DEF Leads
  <2>4. ASSUME NEW q \in Queued' PROVE prior[q] # a
    BY <1>1, <1>4, <1>6
  <2>5. ASSUME NEW q \in Queued', prior[q] = t PROVE Leads(prior[pkt_temp], q)'
    <3>1. Leads(t, q)
      BY <1>4, <2>5 DEF Sturdy, PriorOK
    <3>2. PICK G \in SUBSET Freed : /\ n \in G \cup {q}
                                    /\ \A f \in G : next[f] \in G \cup {q}
      BY <1>1, <3>1 DEF Leads
    <3>3. \A f \in G : next'[f] = next[f]
      BY <1>2, <1>4, QueuedSets
    <3>4. Leads(a, q)'
      BY <1>4, <1>14, <3>2, <3>3 DEF Leads
    <3> QED BY <2>2, <3>4
  <2>6. ASSUME NEW q \in Queued', next'[q] = n, n \in Queued' PROVE q = a
    BY <1>1, <1>2, <1>4, <1>7, <2>6
  <2> QED BY <1>1, <1>2, <1>14, <2>1, <2>3, <2>4, <2>5, <2>6 DEF MiddleOK
<1>16. DelOK'
  BY <1>15 DEF DelOK
<1>17. Whole'
  <2>1. ASSUME ~ interrupted PROVE DoublyBut(pkt_temp)'
    <3>1. /\ Doubly(front, rear, Queued)
          /\ next[t] # t /\ prior[t] # t /\ front # NULL
      BY <1>2, <1>4, <2>1, NotItself DEF Whole, LinksOK
    <3>2. /\ front \in Queued /\ rear \in Queued
          /\ \A p \in Queued :
               /\ prior[p] = NULL <=> front = p
               /\ prior[p] # NULL => prior[p] \in Queued /\ next[prior[p]] = p
               /\ next[p] = NULL <=> rear = p
               /\ next[p] # NULL => next[p] \in Queued /\ prior[next[p]] = p
      BY <3>1 DEF Doubly
    <3>3. /\ a \in Queued' /\ n \in Queued' /\ front \in Queued' /\ rear \in Queued'
          /\ next[a] = t /\ prior[n] = t
      BY <1>1, <1>4, <3>1, <3>2
    <3>4. ASSUME NEW p \in Queued'
          PROVE  /\ prior[p] = NULL <=> front = p
                 /\ prior[p] # NULL /\ p # n => prior[p] \in Queued' /\ next'[prior[p]] = p
      <4>1. p \in Queued /\ p # t
        BY <1>4
      <4>2. ASSUME prior[p] # NULL, p # n PROVE prior[p] \in Queued' /\ next'[prior[p]] = p
        <5>1. prior[p] \in Queued /\ next[prior[p]] = p /\ prior[p] # t /\ prior[p] # a
          BY <1>1, <3>2, <3>3, <4>1, <4>2
        <5> QED BY <1>2, <1>4, <5>1
      <4> QED BY <3>2, <4>1, <4>2
    <3>5. ASSUME NEW p \in Queued'
          PROVE  /\ next'[p] = NULL <=> rear = p
                 /\ next'[p] # NULL /\ p # a => next'[p] \in Queued' /\ prior[next'[p]] = p
      <4>1. p \in Queued /\ p # t /\ next'[p] = IF p = a THEN n ELSE next[p]
        BY <1>2, <1>4
      <4>2. CASE p = a
        BY <1>1, <3>2, <3>3, <4>1, <4>2
      <4>3. CASE p # a
        <5>1. next[p] # t
          BY <1>1, <3>2, <4>1, <4>3
        <5> QED BY <1>4, <3>2, <4>1, <4>3, <5>1
      <4> QED BY <4>2, <4>3
    <3> QED BY <1>1, <1>2, <1>14, <3>3, <3>4, <3>5 DEF DoublyBut
  <2> QED BY <1>1, <1>2, <2>1
          DEF Whole, LinksOK, AheadOK, Deleting, DelFirst, Used, pktVars, mainVars
<1> QED BY <1>3, <1>9, <1>10, <1>11, <1>12, <1>13, <1>16, <1>17 DEF Sturdy

LEMMA DelFirstStep ==
  ASSUME QInv, DelFirst, UNCHANGED <<fault, interrupted>>
  PROVE  QInv'
<1>1. /\ pc = "del" /\ pc' \in {"del_only", "del_last", "del_head", "del_middle"}
      /\ UNCHANGED <<prior, pktVars, update_stat, mainVars>>
  BY DEF DelFirst
<1>2. {prior', next'} \subseteq [Pkt -> Pointer] /\ {front', rear'} \subseteq Pointer
  <2>1. pkt_temp \in Pkt /\ prior[pkt_temp] \in Pointer /\ next[pkt_temp] \in Pointer
    BY DEF DelFirst, Used, QInv, Types
  <2> QED BY <2>1 DEF DelFirst, QInv, Types, Pointer
<1>3. Types' /\ Counted'
  BY <1>1, <1>2, PlaceStep DEF Deleting
<1> QED BY <1>1, <1>3, DelOnlyFirst, DelLastFirst, DelHeadFirst, DelMiddleFirst DEF QInv

LEMMA DelSecondPlaces ==
  ASSUME QInv, DelSecond, UNCHANGED <<fault, interrupted>>
  PROVE  Types' /\ PlaceOK' /\ Counted'
<1>1. {prior', next'} \subseteq [Pkt -> Pointer] /\ {front', rear'} \subseteq Pointer
  <2>1. pkt_temp \in Pkt
    BY DEF DelSecond, Used, QInv, Sturdy, PlaceOK, Deleting
  <2> QED BY <2>1 DEF DelSecond, QInv, Types, Pointer
<1> QED BY <1>1, PlaceStep DEF DelSecond, Deleting

\* The last packet is not in the list any more, or never was.
LEMMA WholeFree ==
  ASSUME QInv, DelSecond, UNCHANGED <<fault, interrupted>>,
         ~ interrupted => Doubly(front, rear, Queued)'
  PROVE  Whole'
<1>1. Used(temp)' <=> Used(temp)
  BY DEF DelSecond, Used, pktVars, mainVars
<1> QED BY <1>1 DEF QInv, Whole, LinksOK, AheadOK, Deleting, DelSecond, mainVars

LEMMA DelOnlySecond ==
  ASSUME QInv, DelSecond, pc = "del_only", UNCHANGED <<fault, interrupted>>
  PROVE  Sturdy' /\ Whole'
<1> USE DEF QInv
<1>1. /\ rear' = NULL /\ pc' = "free"
      /\ UNCHANGED <<prior, next, front, heap, pkt_temp>>
  BY DEF DelSecond, pktVars, mainVars
<1>2. Queued = {} /\ Queued' = {} /\ Allocated' = Allocated
  BY <1>1, OutNow DEF Sturdy, DelOK, Outside
<1>3. Fresh'
  <2>1. \A p \in Pkt : heap[p] = "unused" => Apart(p)' /\ prior[p] = NULL
    BY <1>1, QueuedSets DEF Sturdy, Fresh, Apart
  <2> QED BY <1>1, <2>1 DEF Fresh
<1>4. RearOK'
  BY <1>1, <1>2, QueuedSets DEF RearOK
<1>5. Reached' /\ PriorOK' /\ NextOK' /\ AddOK' /\ DelOK'
  BY <1>1, <1>2 DEF Reached, PriorOK, NextOK, AddOK, DelOK
<1>6. Whole'
  <2>1. ~ interrupted => Doubly(front, rear, Queued)'
    BY <1>1, <1>2 DEF Whole, LinksOK, Doubly
  <2> QED BY <2>1, WholeFree
<1> QED BY <1>3, <1>4, <1>5, <1>6, DelSecondPlaces DEF Sturdy

LEMMA DelLastSecond ==
  ASSUME QInv, DelSecond, pc = "del_last", UNCHANGED <<fault, interrupted>>
  PROVE  Sturdy' /\ Whole'
<1> USE DEF QInv
<1>1. PICK t \in Pkt, r \in Pkt : /\ t = pkt_temp /\ heap[t] = "used" /\ t # NULL
                                  /\ r = rear /\ heap[r] = "used" /\ r # NULL
  BY NullAssumption DEF DelSecond, Sturdy, PlaceOK, Deleting, Used
<1>2. /\ pc' = "free" /\ UNCHANGED <<prior, front, rear, heap, pkt_temp>>
      /\ \A p \in Pkt : next'[p] = IF p = r THEN NULL ELSE next[p]
  BY <1>1 DEF DelSecond, pktVars, mainVars, Types
<1>3. /\ Queued = Allocated /\ t \in Queued /\ r \in Queued /\ Queued' = Queued \ {t}
      /\ Allocated' = Allocated /\ Freed' = Freed
      /\ \A p \in Queued : p \in Pkt /\ p # NULL
  BY <1>1, <1>2, AllQueued, OutNow, QueuedSets DEF Allocated
<1>4. /\ next[t] = NULL /\ Leads(rear, t) /\ \A q \in Queued : prior[q] = r => q = t
  BY <1>1, <1>3 DEF Sturdy, DelOK
<1>5. PICK F \in SUBSET Freed : /\ next[r] \in F \cup {t}
                                /\ \A f \in F : next[f] \in F \cup {t}
  BY <1>1, <1>4 DEF Leads
<1>6. r # t
  BY <1>1, <1>4, <1>5, QueuedSets
<1>7. /\ \A p, q \in Queued : next[p] = next[q] /\ next[p] \in Queued \cup {NULL} => p = q
      /\ \A p, q \in Queued : next[p] = q /\ prior[q] \in Queued => prior[q] = p
  BY DEF Sturdy, NextOK
<1>8. ASSUME NEW p \in Pkt, p # r, NEW q, Leads(p, q) PROVE Leads(p, q)'
  <2>1. PICK G \in SUBSET Freed : /\ next[p] \in G \cup {q}
                                  /\ \A f \in G : next[f] \in G \cup {q}
    BY <1>8 DEF Leads
  <2>2. next'[p] = next[p] /\ \A f \in G : next'[f] = next[f]
    BY <1>2, <1>3, <1>8, QueuedSets
  <2> QED BY <1>3, <2>1, <2>2 DEF Leads
<1>9. Reached'
  <2> SUFFICES ASSUME NEW S \in SUBSET Pkt, HoldsNext(S)', front \in S \cup {NULL}
               PROVE  Queued' \subseteq S
    BY <1>2 DEF Reached
  <2>1. \A p \in S : next'[p] \in S \cup {NULL}
    BY DEF HoldsNext
  <2> DEFINE T == S \cup F \cup {t}
  <2>2. CASE r \notin S
    <3>1. HoldsNext(S)
      BY <1>2, <2>1, <2>2 DEF HoldsNext
    <3> QED BY <1>3, <3>1 DEF Sturdy, Reached
  <2>3. CASE r \in S
    <3>1. \A p \in S : next[p] \in T \cup {NULL}
      BY <1>2, <1>5, <2>1
    <3>2. HoldsNext(T) /\ T \in SUBSET Pkt
      BY <1>4, <1>5, <3>1, QueuedSets DEF HoldsNext
    <3>3. Queued \subseteq T
      BY <3>2 DEF Sturdy, Reached
    <3> QED BY <1>3, <3>3, QueuedSets
  <2> QED BY <2>2, <2>3
<1>10. Fresh'
  <2>1. \A p \in Pkt : heap[p] = "unused" => Apart(p)' /\ prior[p] = NULL
    BY <1>1, <1>2 DEF Sturdy, Fresh, Apart
  <2> QED BY <1>2, <2>1 DEF Fresh
<1>11. PriorOK'
  <2>1. ASSUME NEW p \in Queued', prior[p] \in Allocated PROVE Leads(prior[p], p)'
    <3>1. PICK b \in Pkt : b = prior[p] /\ b # r
      BY <1>3, <1>4, <2>1, QueuedSets
    <3>2. Leads(b, p)
      BY <1>3, <2>1, <3>1 DEF Sturdy, PriorOK
    <3>3. Leads(b, p)'
      BY <1>8, <3>1, <3>2
    <3> QED BY <1>2, <3>1, <3>3 DEF Leads
  <2> QED BY <1>2, <1>3, <2>1 DEF Sturdy, PriorOK
<1>12. NextOK'
  <2>1. ASSUME NEW p \in Queued', NEW q \in Queued', next'[p] = next'[q],
               next'[p] \in Queued' \cup {NULL}
        PROVE  p = q
    BY <1>1, <1>2, <1>3, <1>4, <1>7, <2>1
  <2>2. ASSUME NEW p \in Queued', NEW q \in Queued', next'[p] = q, prior[q] \in Queued'
        PROVE  prior[q] = p
    BY <1>1, <1>2, <1>3, <1>7, <2>2
  <2> QED BY <1>2, <2>1, <2>2 DEF NextOK
<1>13. RearOK' /\ AddOK' /\ DelOK'
  BY <1>1, <1>2, <1>3, <1>6 DEF RearOK, AddOK, DelOK
<1>14. Whole'
  <2>1. ASSUME ~ interrupted PROVE Doubly(front, rear, Queued)'
    <3>1. Doubly(front, t, Queued) /\ prior[t] = r
      BY <1>1, <2>1 DEF Whole, LinksOK
    <3>2. /\ front \in Queued /\ front # NULL
          /\ \A p \in Queued :
               /\ prior[p] = NULL <=> front = p
               /\ prior[p] # NULL => prior[p] \in Queued /\ next[prior[p]] = p
               /\ next[p] = NULL <=> t = p
               /\ next[p] # NULL => next[p] \in Queued /\ prior[next[p]] = p
      BY <1>1, <3>1 DEF Doubly
    <3>3. front \in Queued' /\ r \in Queued' /\ next[r] = t
      BY <1>1, <1>3, <1>6, <3>1, <3>2
    <3>4. ASSUME NEW p \in Queued'
          PROVE  /\ prior[p] = NULL <=> front = p
                 /\ prior[p] # NULL => prior[p] \in Queued' /\ next'[prior[p]] = p
      <4>1. p \in Queued /\ p # t
        BY <1>3
      <4>2. ASSUME prior[p] # NULL PROVE prior[p] \in Queued' /\ next'[prior[p]] = p
        <5>1. prior[p] \in Queued /\ next[prior[p]] = p /\ prior[p] # t /\ prior[p] # r
          BY <1>3, <1>4, <3>2, <4>1, <4>2
        <5> QED BY <1>2, <1>3, <5>1
      <4> QED BY <3>2, <4>1, <4>2
    <3>5. ASSUME NEW p \in Queued'
          PROVE  /\ next'[p] = NULL <=> r = p
                 /\ next'[p] # NULL => next'[p] \in Queued' /\ prior[next'[p]] = p
      <4>1. p \in Queued /\ p # t /\ next'[p] = IF p = r THEN NULL ELSE next[p]
        BY <1>2, <1>3
      <4> QED BY <1>3, <3>1, <3>2, <4>1
    <3> QED BY <1>1, <1>2, <3>2, <3>3, <3>4, <3>5 DEF Doubly
  <2> QED BY <2>1, WholeFree
<1> QED BY <1>9, <1>10, <1>11, <1>12, <1>13, <1>14, DelSecondPlaces DEF Sturdy

LEMMA DelHeadSecond ==
  ASSUME QInv, DelSecond, pc = "del_head", UNCHANGED <<fault, interrupted>>
  PROVE  Sturdy' /\ Whole'
<1> USE DEF QInv
<1>1. PICK t \in Pkt, h \in Pkt : /\ t = pkt_temp /\ heap[t] = "used" /\ t # NULL
                                  /\ h = front /\ heap[h] = "used" /\ h # NULL
  BY NullAssumption DEF DelSecond, Sturdy, PlaceOK, Deleting, Used
<1>2. /\ pc' = "free" /\ UNCHANGED <<next, front, rear, heap, pkt_temp>>
      /\ \A p \in Pkt : prior'[p] = IF p = h THEN NULL ELSE prior[p]
  BY <1>1 DEF DelSecond, pktVars, mainVars, Types
<1>3. /\ Queued' = Queued /\ t \notin Queued
      /\ Allocated' = Allocated /\ Freed' = Freed
      /\ \A p \in Queued : p \in Pkt /\ p # NULL
  <2>1. t \notin Queued
    BY <1>1 DEF Queued, Outside
  <2> QED BY <1>1, <1>2, <2>1, OutNow, QueuedSets DEF Outside
<1>4. /\ \A S : HoldsNext(S)' <=> HoldsNext(S)
      /\ \A p, q : Leads(p, q)' <=> Leads(p, q)
  BY <1>2, <1>3, SameNext
<1>5. Reached'
  BY <1>2, <1>3, <1>4 DEF Sturdy, Reached
<1>6. Fresh'
  <2>1. \A p \in Pkt : heap[p] = "unused" => Apart(p)' /\ prior'[p] = NULL
    <3> SUFFICES ASSUME NEW p \in Pkt, heap[p] = "unused"
                 PROVE  Apart(p)' /\ prior'[p] = NULL
      OBVIOUS
    <3>1. Apart(p) /\ prior[p] = NULL /\ p # NULL
      BY NullAssumption DEF Sturdy, Fresh
    <3> QED BY <1>2, <3>1 DEF Apart
  <2> QED BY <1>2, <2>1 DEF Fresh
<1>7. PriorOK'
  <2>1. ASSUME NEW p \in Queued', prior'[p] = NULL PROVE front = p
    BY <1>1, <1>2, <1>3, <2>1 DEF Sturdy, PriorOK
  <2>2. ASSUME NEW p \in Queued', prior'[p] \in Allocated
        PROVE  p # h /\ prior'[p] = prior[p]
    BY <1>2, <1>3, <2>2, QueuedSets
  <2>3. ASSUME NEW p \in Queued', prior'[p] \in Allocated PROVE Leads(prior[p], p)'
    <3>1. PICK b : b = prior'[p] /\ b = prior[p]
      BY <2>2, <2>3
    <3>2. Leads(b, p)'
      BY <1>3, <1>4, <2>3, <3>1 DEF Sturdy, PriorOK
    <3> QED BY <3>1, <3>2 DEF Leads
  <2>4. ASSUME NEW p \in Queued', NEW q \in Queued', prior'[p] = prior'[q],
               prior'[p] \in Allocated
        PROVE  p = q
    BY <1>3, <2>2, <2>4 DEF Sturdy, PriorOK
  <2> QED BY <1>2, <1>3, <2>1, <2>3, <2>4 DEF PriorOK
<1>8. NextOK'
  BY <1>2, <1>3 DEF Sturdy, NextOK
<1>9. RearOK' /\ AddOK' /\ DelOK'
  BY <1>1, <1>2, <1>3 DEF Sturdy, RearOK, AddOK, DelOK
<1>10. Whole'
  <2>1. ASSUME ~ interrupted PROVE Doubly(front, rear, Queued)'
    <3>1. Doubly(t, rear, Queued \cup {t}) /\ h = next[t]
      BY <1>1, <2>1 DEF Whole, LinksOK
    <3>2. /\ rear # NULL /\ rear \in Queued \cup {t}
          /\ \A p \in Queued \cup {t} :
               /\ prior[p] = NULL <=> t = p
               /\ prior[p] # NULL => prior[p] \in Queued \cup {t} /\ next[prior[p]] = p
               /\ next[p] = NULL <=> rear = p
               /\ next[p] # NULL => next[p] \in Queued \cup {t} /\ prior[next[p]] = p
      BY <1>1, <3>1 DEF Doubly
    <3>3. h \in Queued /\ rear \in Queued /\ prior[h] = t
      BY <1>1, <3>1, <3>2
    <3>4. ASSUME NEW p \in Queued
          PROVE  /\ prior'[p] = NULL <=> h = p
                 /\ prior'[p] # NULL => prior'[p] \in Queued /\ next[prior'[p]] = p
      BY <1>2, <1>3, <3>1, <3>2
    <3>5. ASSUME NEW p \in Queued
          PROVE  /\ next[p] = NULL <=> rear = p
                 /\ next[p] # NULL => next[p] \in Queued /\ prior'[next[p]] = p
      <4>1. ASSUME next[p] # NULL PROVE next[p] \in Queued /\ next[p] # h
        BY <1>3, <3>1, <3>2, <3>3, <4>1
      <4> QED BY <1>2, <1>3, <3>2, <4>1
    <3> QED BY <1>1, <1>2, <1>3, <3>2, <3>3, <3>4, <3>5 DEF Doubly
  <2> QED BY <2>1, WholeFree
<1> QED BY <1>5, <1>6, <1>7, <1>8, <1>9, <1>10, DelSecondPlaces DEF Sturdy

LEMMA DelMiddleSecond ==
  ASSUME QInv, DelSecond, pc = "del_middle", UNCHANGED <<fault, interrupted>>
  PROVE  Sturdy' /\ Whole'
<1> USE DEF QInv
<1>1. PICK t \in Pkt, n \in Pkt : /\ t = pkt_temp /\ heap[t] = "used" /\ t # NULL
                                  /\ n = next[t] /\ heap[n] = "used" /\ n # NULL
  BY NullAssumption DEF DelSecond, Sturdy, PlaceOK, Deleting, Used
<1>2. /\ pc' = "free" /\ UNCHANGED <<next, front, rear, heap, pkt_temp>>
      /\ \A p \in Pkt : prior'[p] = IF p = n THEN prior[t] ELSE prior[p]
  BY <1>1 DEF DelSecond, pktVars, mainVars, Types
<1>3. /\ Queued' = Queued /\ t \notin Queued
      /\ Allocated' = Allocated /\ Freed' = Freed
      /\ \A p \in Queued : p \in Pkt /\ p # NULL
  <2>1. t \notin Queued
    BY <1>1 DEF Queued, Outside
  <2> QED BY <1>1, <1>2, <2>1, OutNow, QueuedSets DEF Outside
<1>4. /\ \A S : HoldsNext(S)' <=> HoldsNext(S)
      /\ \A p, q : Leads(p, q)' <=> Leads(p, q)
  BY <1>2, <1>3, SameNext
<1>5. /\ prior[t] # NULL
      /\ prior[t] \in Allocated =>
           /\ Leads(prior[t], n)
           /\ \A q \in Queued : /\ prior[q] # prior[t]
                                /\ next[q] = n /\ next[q] \in Queued => q = prior[t]
  <2>1. n \in Allocated
    BY <1>1 DEF Allocated
  <2> QED BY <1>1, <2>1 DEF Sturdy, DelOK, MiddleOK
<1>6. Reached'
  BY <1>2, <1>3, <1>4 DEF Sturdy, Reached
<1>7. Fresh'
  <2>1. \A p \in Pkt : heap[p] = "unused" => Apart(p)' /\ prior'[p] = NULL
    <3> SUFFICES ASSUME NEW p \in Pkt, heap[p] = "unused"
                 PROVE  Apart(p)' /\ prior'[p] = NULL
      OBVIOUS
    <3>1. Apart(p) /\ prior[p] = NULL /\ p # n
      BY <1>1 DEF Sturdy, Fresh
    <3> QED BY <1>1, <1>2, <3>1 DEF Apart
  <2> QED BY <1>2, <2>1 DEF Fresh
<1>8. PriorOK'
  <2>1. ASSUME NEW p \in Queued', prior'[p] = NULL PROVE front = p
    BY <1>2, <1>3, <1>5, <2>1 DEF Sturdy, PriorOK
  <2>2. ASSUME NEW p \in Queued', prior'[p] \in Allocated PROVE Leads(prior[p], p)'
    <3>1. PICK b : b = prior'[p]
      OBVIOUS
    <3>2. Leads(b, p)
      BY <1>2, <1>3, <1>5, <2>2, <3>1 DEF Sturdy, PriorOK
    <3>3. Leads(b, p)'
      BY <1>4, <3>2
    <3> QED BY <3>1, <3>3 DEF Leads
  <2>3. ASSUME NEW p \in Queued', NEW q \in Queued', prior'[p] = prior'[q],
               prior'[p] \in Allocated
        PROVE  p = q
    BY <1>2, <1>3, <1>5, <2>3 DEF Sturdy, PriorOK
  <2> QED BY <1>2, <1>3, <2>1, <2>2, <2>3 DEF PriorOK
<1>9. NextOK'
  <2>1. ASSUME NEW p \in Queued, NEW q \in Queued, next[p] = q, prior'[q] \in Queued
        PROVE  prior'[q] = p
    BY <1>2, <1>3, <1>5, <2>1, QueuedSets DEF Sturdy, NextOK
  <2> QED BY <1>2, <1>3, <2>1 DEF Sturdy, NextOK
<1>10. RearOK' /\ AddOK' /\ DelOK'
  BY <1>1, <1>2, <1>3 DEF Sturdy, RearOK, AddOK, DelOK
<1>11. Whole'
  <2>1. ASSUME ~ interrupted PROVE Doubly(front, rear, Queued)'
    <3>1. DoublyBut(t)
      BY <1>1, <2>1 DEF Whole, LinksOK
    <3>2. PICK a \in Queued : a = prior[t] /\ next[a] = n /\ n \in Queued
      BY <1>1, <3>1 DEF DoublyBut
    <3>3. /\ front \in Queued /\ rear \in Queued
          /\ \A p \in Queued :
               /\ prior[p] = NULL <=> front = p
               /\ prior[p] # NULL /\ p # n => prior[p] \in Queued /\ next[prior[p]] = p
               /\ next[p] = NULL <=> rear = p
               /\ next[p] # NULL /\ p # a => next[p] \in Queued /\ prior[next[p]] = p
      BY <1>1, <3>1, <3>2 DEF DoublyBut
    <3>4. prior[n] = t
      BY <1>1, <3>1 DEF DoublyBut
    <3>5. ASSUME NEW p \in Queued
          PROVE  /\ prior'[p] = NULL <=> front = p
                 /\ prior'[p] # NULL => prior'[p] \in Queued /\ next[prior'[p]] = p
      <4>1. prior'[p] = IF p = n THEN a ELSE prior[p]
        BY <1>2, <1>3, <3>2
      <4> QED BY <1>1, <1>3, <3>2, <3>3, <3>4, <4>1
    <3>6. ASSUME NEW p \in Queued
          PROVE  /\ next[p] = NULL <=> rear = p
                 /\ next[p] # NULL => next[p] \in Queued /\ prior'[next[p]] = p
      <4>1. CASE p = a
        BY <1>1, <1>2, <3>2, <3>3, <4>1
      <4>2. CASE p # a
        <5>1. ASSUME next[p] # NULL PROVE next[p] \in Queued /\ prior[next[p]] = p /\ next[p] # n
          <6>1. next[p] \in Queued /\ prior[next[p]] = p
            BY <3>3, <4>2, <5>1
          <6>2. next[p] # n
            BY <3>2, <4>2 DEF Sturdy, NextOK
          <6> QED BY <6>1, <6>2
        <5> QED BY <1>2, <1>3, <3>3, <5>1
      <4> QED BY <4>1, <4>2
    <3> QED BY <1>2, <1>3, <3>3, <3>5, <3>6 DEF Doubly
  <2> QED BY <2>1, WholeFree
<1> QED BY <1>6, <1>7, <1>8, <1>9, <1>10, <1>11, DelSecondPlaces DEF Sturdy

LEMMA DelSecondStep ==
  ASSUME QInv, DelSecond, UNCHANGED <<fault, interrupted>>
  PROVE  QInv'
<1>1. pc \in {"del_only", "del_last", "del_head", "del_middle"}
  BY DEF DelSecond
<1> QED BY <1>1, DelSecondPlaces, DelOnlySecond, DelLastSecond, DelHeadSecond,
           DelMiddleSecond DEF QInv

LEMMA FreePktStep ==
  ASSUME QInv, FreePkt, UNCHANGED <<fault, interrupted>>
  PROVE  QInv'
<1> USE DEF QInv
<1>1. PICK t \in Pkt : /\ t = pkt_temp /\ heap[t] = "used" /\ t # NULL
                       /\ stat[t] = "unsent" /\ job = "delete"
  BY NullAssumption DEF FreePkt, Sturdy, PlaceOK, Deleting, Used
<1>2. /\ pc = "free" /\ pc' = "load"
      /\ UNCHANGED <<prior, next, front, rear, stat, tries, update_stat, pkt_temp,
                     temp, load, job>>
      /\ \A p \in Pkt : heap'[p] = IF p = t THEN "freed" ELSE heap[p]
  BY <1>1 DEF FreePkt, ptrVars, mainVars, Types
<1>3. Types'
  <2>1. heap' \in [Pkt -> {"unused", "used", "freed"}]
    BY DEF FreePkt, Types
  <2> QED BY <1>2, <2>1 DEF Types
<1>4. /\ Allocated' = Allocated \ {t} /\ Freed' = Freed \cup {t} /\ Queued' = Queued
      /\ Queued = Allocated \ {t}
  <2>1. \A p : p \in Allocated' <=> p \in Allocated \ {t}
    BY <1>2 DEF Allocated
  <2>2. \A p : p \in Freed' <=> p \in Freed \cup {t}
    BY <1>2 DEF Freed
  <2>3. \A p : p \in Queued <=> p \in Allocated \ {t}
    BY <1>1, <1>2 DEF Queued, Outside
  <2>4. \A p : p \in Queued' <=> p \in Allocated'
    BY <1>2 DEF Queued, Outside
  <2> QED BY <2>1, <2>2, <2>3, <2>4
<1>5. \A p, q : Leads(p, q) => Leads(p, q)'
  BY <1>2, <1>4 DEF Leads
<1>6. Reached'
  <2>1. \A S : HoldsNext(S)' <=> HoldsNext(S)
    BY <1>2 DEF HoldsNext
  <2> QED BY <1>2, <1>4, <2>1 DEF Sturdy, Reached
<1>7. Fresh'
  <2>1. \A p \in Pkt : Apart(p)' <=> Apart(p)
    BY <1>2 DEF Apart
  <2> QED BY <1>2, <2>1 DEF Sturdy, Fresh
<1>8. PriorOK'
  <2>1. ASSUME NEW p \in Queued, prior[p] \in Allocated PROVE Leads(prior[p], p)'
    <3>1. PICK b : b = prior[p]
      OBVIOUS
    <3>2. Leads(b, p)'
      BY <1>5, <2>1, <3>1 DEF Sturdy, PriorOK
    <3> QED BY <1>2, <3>1, <3>2 DEF Leads
  <2> QED BY <1>2, <1>4, <2>1 DEF Sturdy, PriorOK
<1>9. NextOK'
  BY <1>2, <1>4 DEF Sturdy, NextOK
<1>10. RearOK'
  BY <1>1, <1>2, <1>4 DEF Sturdy, RearOK
<1>11. PlaceOK' /\ AddOK' /\ DelOK'
  <2>1. PlaceOK'
    BY <1>1, <1>2 DEF Sturdy, PlaceOK, Adding, Deleting
  <2> QED BY <1>2, <2>1 DEF AddOK, DelOK
<1>12. Whole'
  <2>1. ~ interrupted => Doubly(front, rear, Queued)'
    BY <1>2, <1>4 DEF Whole, LinksOK, Doubly
  <2>2. ~ interrupted => temp = NULL \/ Used(temp)'
    BY <1>1, <1>2 DEF Whole, AheadOK, Deleting, Used
  <2> QED BY <1>2, <2>1, <2>2 DEF Whole, LinksOK, AheadOK, Deleting
<1>13. Counted'
  <2>1. \A p : p \in Unsent' <=> p \in Unsent \ {t}
    BY <1>2 DEF Unsent, Used
  <2>2. Unsent' = Unsent \ {t} /\ t \in Unsent
    BY <1>1, <2>1 DEF Unsent, Used
  <2>3. Cardinality(Unsent') = Cardinality(Unsent) - 1
    BY <2>2, FiniteUnsent, FS_RemoveElement
  <2>4. Owed = 0 /\ Owed' = 1
    <3>1. pc \in Deleting
      BY <1>2 DEF Deleting
    <3> QED BY <1>1, <1>2, <3>1, OwedValue DEF Owed
  <2>5. Exact(update_stat) => Exact(update_stat)'
    <3>1. PICK c \in Int : c = Cardinality(Unsent)
      BY FiniteUnsent
    <3> QED BY <1>2, <2>3, <2>4, <3>1 DEF Exact, Types
  <2> QED BY <1>2, <2>5 DEF Counted
<1> QED BY <1>3, <1>6, <1>7, <1>8, <1>9, <1>10, <1>11, <1>12, <1>13 DEF Sturdy

----------------------------------------------------------------------------
(***************************************************************************)
(* The walk.                                                               *)
(***************************************************************************)
Walking == {"idle", "walk", "count", "load", "store", "advance"}

\* The pointers stay, and so does what was shown of them.
LEMMA WalkStep ==
  ASSUME QInv, UNCHANGED <<ptrVars, heap, fault, interrupted>>,
         pc \in Walking, pc' \in Walking \cup {"del"}, PlaceOK', AheadOK' \/ interrupted
  PROVE  Sturdy' /\ Whole'
<1>1. pc \in Settled /\ pc' \in Settled
  BY DEF Walking, Settled
<1>2. Sturdy'
  BY <1>1, StillSturdy DEF QInv, Sturdy
<1>3. Doubly(front, rear, Queued)' <=> Doubly(front, rear, Queued)
  BY <1>1, StillSturdy DEF QInv, ptrVars, Doubly
<1>4. Whole'
  BY <1>3 DEF QInv, Whole, LinksOK, Walking
<1> QED BY <1>2, <1>4

\* While the queue is a list, main goes from a packet to a packet.
LEMMA Onward ==
  ASSUME QInv, pc \in Walking, ~ interrupted
  PROVE  /\ front = NULL \/ Used(front)
         /\ \A p \in Pkt : heap[p] = "used" =>
              next[p] = NULL \/ (Used(next[p]) /\ next[p] # p)
<1>1. Doubly(front, rear, Queued)
  BY DEF QInv, Whole, LinksOK, Walking
<1>2. Queued = Allocated
  BY AllQueued DEF Walking, Settled
<1>3. \A p : Used(p) <=> p \in Allocated
  BY DEF Used, Allocated
<1>4. \A p \in Queued : next[p] # p
  BY <1>1, NotItself DEF QInv
<1> QED BY <1>1, <1>2, <1>3, <1>4 DEF Doubly, Used

\* The places before and after a step at which update_stat is counted right.
LEMMA CountedSame ==
  ASSUME QInv, UNCHANGED <<heap, stat, update_stat, interrupted>>,
         pc \in Walking, pc' \in (Walking \cup {"del"}) \ {"store"},
         OwedAt(pc', job') = OwedAt(pc, job)
  PROVE  Counted'
<1>1. Unsent' = Unsent
  BY DEF Unsent, Used
<1> QED BY <1>1, CountedOn DEF QInv, Owed, Walking

LEMMA StartWalkStep ==
  ASSUME QInv, StartWalk, UNCHANGED <<fault, interrupted>>
  PROVE  QInv'
<1>1. /\ pc = "idle" /\ pc' = "walk" /\ pkt_temp' = front
      /\ UNCHANGED <<ptrVars, heap, stat, tries, update_stat, temp, load, job>>
  BY DEF StartWalk, pktVars
<1>2. Types'
  BY <1>1 DEF QInv, Types, ptrVars
<1>3. PlaceOK' /\ (AheadOK' \/ interrupted)
  BY <1>1, Onward DEF QInv, Sturdy, PlaceOK, AheadOK, Adding, Deleting, Walking, Used, ptrVars
<1>4. Counted'
  BY <1>1, CountedSame, OwedValue DEF Walking
<1> QED BY <1>1, <1>2, <1>3, <1>4, WalkStep DEF QInv, Walking

LEMMA EndWalkStep ==
  ASSUME QInv, EndWalk, UNCHANGED <<fault, interrupted>>
  PROVE  QInv'
<1>1. /\ pc = "walk" /\ pc' = "idle"
      /\ UNCHANGED <<ptrVars, heap, stat, tries, update_stat, pkt_temp, temp, load, job>>
  BY DEF EndWalk, pktVars, mainVars
<1>2. Types'
  BY <1>1 DEF QInv, Types, ptrVars
<1>3. PlaceOK' /\ AheadOK'
  BY <1>1 DEF QInv, Sturdy, PlaceOK, AheadOK, Adding, Deleting
<1>4. Counted'
  BY <1>1, CountedSame, OwedValue DEF Walking
<1> QED BY <1>1, <1>2, <1>3, <1>4, WalkStep DEF QInv, Walking

\* PassPkt and Advance.
LEMMA OnwardStep ==
  ASSUME QInv, pc \in {"walk", "advance"}, pc' = "walk", Used(pkt_temp),
         pkt_temp' = next[pkt_temp],
         UNCHANGED <<ptrVars, pktVars, update_stat, temp, load, job>>,
         UNCHANGED <<fault, interrupted>>
  PROVE  QInv'
<1>1. PICK t \in Pkt : t = pkt_temp /\ heap[t] = "used" /\ next[t] \in Pointer
  BY DEF Used, QInv, Types
<1>2. UNCHANGED <<ptrVars, heap, stat, tries>>
  BY DEF pktVars
<1>3. Types'
  BY <1>1, <1>2 DEF QInv, Types, ptrVars
<1>4. PlaceOK'
  BY <1>2 DEF QInv, Sturdy, PlaceOK, Adding, Deleting
<1>5. AheadOK' \/ interrupted
  <2>1. ASSUME ~ interrupted PROVE next[t] = NULL \/ Used(next[t])
    BY <1>1, <2>1, Onward DEF Walking
  <2> QED BY <1>1, <1>2, <2>1 DEF AheadOK, Adding, Deleting, Used
<1>6. Counted'
  BY <1>2, CountedSame, OwedValue DEF Walking
<1> QED BY <1>2, <1>3, <1>4, <1>5, <1>6, WalkStep DEF QInv, Walking

LEMMA GiveUpStep ==
  ASSUME QInv, GiveUp, UNCHANGED <<fault, interrupted>>
  PROVE  QInv'
<1>1. PICK t \in Pkt : /\ t = pkt_temp /\ heap[t] = "used" /\ next[t] \in Pointer
                       /\ stat[t] = "unsent"
  BY DEF GiveUp, Used, QInv, Types
<1>2. /\ pc = "walk" /\ pc' = "del" /\ temp' = next[t] /\ job' = "delete"
      /\ UNCHANGED <<ptrVars, heap, stat, tries, update_stat, pkt_temp, load>>
  BY <1>1 DEF GiveUp, pktVars
<1>3. Types'
  BY <1>1, <1>2 DEF QInv, Types, ptrVars, Deleting
<1>4. PlaceOK'
  BY <1>1, <1>2 DEF QInv, Sturdy, PlaceOK, Adding, Deleting, Used
<1>5. AheadOK' \/ interrupted
  <2>1. ASSUME ~ interrupted
        PROVE  next[t] = NULL \/ (Used(next[t]) /\ next[t] # t)
    BY <1>1, <1>2, <2>1, Onward DEF Walking
  <2> QED BY <1>1, <1>2, <2>1 DEF AheadOK, Adding, Deleting, Used, ptrVars
<1>6. Counted'
  <2>1. OwedAt("del", job') = OwedAt("walk", job)
    BY OwedValue DEF Deleting
  <2> QED BY <1>2, <2>1, CountedSame DEF Walking
<1> QED BY <1>2, <1>3, <1>4, <1>5, <1>6, WalkStep DEF QInv, Walking

LEMMA SendPktStep ==
  ASSUME QInv, SendPkt, UNCHANGED <<fault, interrupted>>
  PROVE  QInv'
<1>1. PICK t \in Pkt : /\ t = pkt_temp /\ heap[t] = "used" /\ stat[t] = "unsent"
                       /\ tries[t] < MAX_RETX_NUM
  BY DEF SendPkt, Used, QInv, Types
<1>2. /\ pc = "walk" /\ pc' = "count" /\ job' = "send"
      /\ UNCHANGED <<ptrVars, heap, tries, update_stat, pkt_temp, temp, load>>
      /\ \A p \in Pkt : stat'[p] = IF p = t THEN "sent" ELSE stat[p]
  BY <1>1 DEF SendPkt, QInv, Types
<1>3. Types'
  <2>1. stat' \in [Pkt -> {"unsent", "sent", "acked", "backed_off"}]
    BY DEF SendPkt, QInv, Types
  <2> QED BY <1>2, <2>1 DEF QInv, Types, ptrVars
<1>4. PlaceOK'
  BY <1>1, <1>2 DEF QInv, Sturdy, PlaceOK, Adding, Deleting, Used
<1>5. AheadOK'
  BY <1>2 DEF AheadOK, Adding, Deleting
<1>6. Counted'
  <2>1. \A p : p \in Unsent' <=> p \in Unsent \ {t}
    BY <1>2 DEF Unsent, Used
  <2>2. Unsent' = Unsent \ {t} /\ t \in Unsent
    BY <1>1, <2>1 DEF Unsent, Used
  <2>3. Cardinality(Unsent') = Cardinality(Unsent) - 1
    BY <2>2, FiniteUnsent, FS_RemoveElement
  <2>4. Owed = 0 /\ Owed' = 1
    BY <1>2, OwedValue DEF Owed
  <2>5. Exact(update_stat) => Exact(update_stat)'
    <3>1. PICK c \in Int : c = Cardinality(Unsent)
      BY FiniteUnsent
    <3> QED BY <1>2, <2>3, <2>4, <3>1 DEF Exact, QInv, Types
  <2> QED BY <1>2, <2>5 DEF Counted, QInv
<1> QED BY <1>2, <1>3, <1>4, <1>5, <1>6, WalkStep DEF QInv, Walking

LEMMA CountTryStep ==
  ASSUME QInv, CountTry, UNCHANGED <<fault, interrupted>>
  PROVE  QInv'
<1>1. PICK t \in Pkt : /\ t = pkt_temp /\ heap[t] = "used" /\ stat[t] = "sent"
                       /\ tries[t] < MAX_RETX_NUM /\ job = "send"
  BY DEF CountTry, Used, QInv, Sturdy, PlaceOK
<1>2. /\ pc = "count" /\ pc' = "load" /\ tries' = [tries EXCEPT ![t] = @ + 1]
      /\ UNCHANGED <<ptrVars, heap, stat, update_stat, pkt_temp, temp, load, job>>
  BY <1>1 DEF CountTry, mainVars
<1>3. Types'
  <2>1. tries[t] \in 0 .. MAX_RETX_NUM
    BY DEF QInv, Types
  <2>2. tries[t] + 1 \in 0 .. MAX_RETX_NUM
    BY <1>1, <2>1, RetxAssumption
  <2>3. tries' \in [Pkt -> 0 .. MAX_RETX_NUM]
    BY <1>2, <2>2 DEF QInv, Types
  <2> QED BY <1>2, <2>3 DEF QInv, Types, ptrVars
<1>4. PlaceOK' /\ AheadOK'
  BY <1>1, <1>2 DEF QInv, Sturdy, PlaceOK, AheadOK, Adding, Deleting, Used
<1>5. Counted'
  <2>1. OwedAt("load", job') = OwedAt("count", job)
    BY <1>1, <1>2, OwedValue
  <2> QED BY <1>2, <2>1, CountedSame DEF Walking
<1> QED BY <1>2, <1>3, <1>4, <1>5, WalkStep DEF QInv, Walking

LEMMA LoadStatStep ==
  ASSUME QInv, LoadStat, UNCHANGED <<fault, interrupted>>
  PROVE  QInv'
<1>1. /\ pc = "load" /\ pc' = "store" /\ load' = update_stat
      /\ UNCHANGED <<ptrVars, heap, stat, tries, update_stat, pkt_temp, temp, job>>
  BY DEF LoadStat, pktVars
<1>2. Types'
  BY <1>1 DEF QInv, Types, ptrVars
<1>3. PlaceOK' /\ (AheadOK' \/ interrupted)
  BY <1>1 DEF QInv, Sturdy, Whole, PlaceOK, AheadOK, Adding, Deleting, Used
<1>4. Counted'
  <2>1. Owed' = Owed
    BY <1>1, OwedValue DEF Owed
  <2>2. Unsent' = Unsent
    BY <1>1 DEF Unsent, Used
  <2>3. Exact(update_stat)' /\ Exact(load)'
    BY <1>1, <2>1, <2>2 DEF Exact, Counted, QInv
  <2> QED BY <2>3 DEF Counted
<1> QED BY <1>1, <1>2, <1>3, <1>4, WalkStep DEF QInv, Walking

LEMMA StoreStatStep ==
  ASSUME QInv, StoreStat, UNCHANGED <<fault, interrupted>>
  PROVE  QInv'
<1>1. /\ pc = "store" /\ pc' \in {"idle", "walk", "advance"} /\ job' = "none"
      /\ UNCHANGED <<ptrVars, heap, stat, tries, temp, load>>
      /\ job \in {"add", "delete", "send"}
      /\ update_stat' = IF job = "add" THEN load + 1 ELSE load - 1
      /\ pkt_temp' = IF job = "delete" THEN temp ELSE pkt_temp
      /\ pc' = "walk" => job = "delete"
      /\ pc' = "advance" => job = "send"
  BY DEF StoreStat, pktVars
<1>2. Types'
  <2>1. update_stat' \in Int
    BY <1>1 DEF QInv, Types
  <2>2. pkt_temp' \in Pointer
    BY <1>1 DEF QInv, Types
  <2>3. pc' \in {"idle", "walk", "count", "load", "store", "advance", "close", "closed"}
                 \cup Adding \cup Deleting
    BY <1>1
  <2> QED BY <1>1, <2>1, <2>2, <2>3 DEF QInv, Types, ptrVars
<1>3. PlaceOK' /\ (AheadOK' \/ interrupted)
  <2>1. PlaceOK'
    BY <1>1 DEF QInv, Sturdy, PlaceOK, Adding, Deleting, Used
  <2>2. ASSUME ~ interrupted PROVE AheadOK'
    <3>1. job = "delete" => temp = NULL \/ Used(temp)
      BY <1>1, <2>2 DEF QInv, Whole, AheadOK
    <3> QED BY <1>1, <3>1 DEF AheadOK, Adding, Deleting, Used
  <2> QED BY <2>1, <2>2
<1>4. Counted'
  <2>1. Owed = (IF job = "add" THEN -1 ELSE 1) /\ Owed' = 0
    BY <1>1, OwedValue DEF Owed
  <2>2. Unsent' = Unsent
    BY <1>1 DEF Unsent, Used
  <2>3. Exact(load)
    BY <1>1 DEF Counted, QInv
  <2>4. PICK c \in Int : c = Cardinality(Unsent)
    BY FiniteUnsent
  <2>5. Exact(update_stat)'
    <3>1. load \in Int
      BY DEF QInv, Types
    <3>2. CASE job = "add"
      BY <1>1, <2>1, <2>2, <2>3, <2>4, <3>1, <3>2 DEF Exact
    <3>3. CASE job # "add"
      BY <1>1, <2>1, <2>2, <2>3, <2>4, <3>1, <3>3 DEF Exact
    <3> QED BY <3>2, <3>3
  <2> QED BY <1>1, <2>5 DEF Counted
<1> QED BY <1>1, <1>2, <1>3, <1>4, WalkStep DEF QInv, Walking

----------------------------------------------------------------------------
(***************************************************************************)
(* The teardown.                                                           *)
(***************************************************************************)
LEMMA CloseStep ==
  ASSUME QInv, Close, UNCHANGED <<fault, interrupted>>
  PROVE  QInv'
<1>1. /\ pc = "idle" /\ pc' = "close"
      /\ UNCHANGED <<ptrVars, heap, stat, tries, update_stat, pkt_temp, temp, load, job>>
  BY DEF Close, pktVars, mainVars
<1>2. Types'
  BY <1>1 DEF QInv, Types, ptrVars
<1>3. Sturdy'
  <2>1. PlaceOK'
    BY <1>1 DEF QInv, Sturdy, PlaceOK, Adding, Deleting
  <2> QED BY <1>1, <2>1, StillSturdy DEF QInv, Sturdy, Settled
<1>4. Whole'
  <2>1. Queued = Allocated
    BY <1>1, AllQueued DEF Settled
  <2>2. ~ interrupted => Doubly(front, rear, Queued)
    BY <1>1 DEF QInv, Whole, LinksOK
  <2>3. ~ interrupted => Forward
    BY <2>1, <2>2, QueuedSets DEF Doubly, Forward
  <2>4. Forward' <=> Forward
    BY <1>1, Kept
  <2> QED BY <1>1, <2>3, <2>4 DEF QInv, Whole, LinksOK, AheadOK, Adding, Deleting
<1>5. Counted'
  BY <1>1 DEF Counted
<1> QED BY <1>2, <1>3, <1>4, <1>5 DEF QInv

LEMMA FreeFrontStep ==
  ASSUME QInv, FreeFront, UNCHANGED <<fault, interrupted>>
  PROVE  QInv'
<1> USE DEF QInv
<1>1. PICK h \in Pkt : h = front /\ heap[h] = "used" /\ h # NULL
  BY NullAssumption DEF FreeFront, Used
<1>2. /\ pc = "close" /\ pc' = "close" /\ front' = next[h] /\ temp' = next[h]
      /\ UNCHANGED <<prior, next, rear, stat, tries, update_stat, pkt_temp, load, job>>
      /\ \A p \in Pkt : heap'[p] = IF p = h THEN "freed" ELSE heap[p]
  BY <1>1 DEF FreeFront, Types
<1>3. Types'
  <2>1. heap' \in [Pkt -> {"unused", "used", "freed"}]
    BY DEF FreeFront, Types
  <2>2. next[h] \in Pointer
    BY DEF Types
  <2> QED BY <1>2, <2>1, <2>2 DEF Types
<1>4. /\ Allocated' = Allocated \ {h} /\ Freed' = Freed \cup {h}
      /\ Queued' = Queued \ {h} /\ Queued = Allocated /\ h \in Queued
  <2>1. \A p : p \in Allocated' <=> p \in Allocated \ {h}
    BY <1>2 DEF Allocated
  <2>2. \A p : p \in Freed' <=> p \in Freed \cup {h}
    BY <1>2 DEF Freed
  <2>3. Queued = Allocated
    BY <1>2, AllQueued DEF Settled
  <2>4. \A p : p \in Queued' <=> p \in Allocated'
    BY <1>2 DEF Queued, Outside
  <2> QED BY <1>1, <2>1, <2>2, <2>3, <2>4 DEF Allocated
<1>5. \A p, q : Leads(p, q) => Leads(p, q)'
  BY <1>2, <1>4 DEF Leads
<1>6. Reached'
  <2> SUFFICES ASSUME NEW S \in SUBSET Pkt, HoldsNext(S), next[h] \in S \cup {NULL}
               PROVE  Queued' \subseteq S
    BY <1>2 DEF Reached, HoldsNext
  <2>1. HoldsNext(S \cup {h}) /\ S \cup {h} \in SUBSET Pkt
    BY DEF HoldsNext
  <2>2. Queued \subseteq S \cup {h}
    BY <1>1, <2>1 DEF Sturdy, Reached
  <2> QED BY <1>4, <2>2
<1>7. Fresh'
  <2>1. \A p \in Pkt : heap'[p] = "unused" => Apart(p)' /\ prior[p] = NULL
    BY <1>1, <1>2 DEF Sturdy, Fresh, Apart
  <2> QED BY <1>2, <2>1 DEF Fresh
<1>8. PriorOK'
  <2>1. ASSUME NEW p \in Queued, prior[p] \in Allocated PROVE Leads(prior[p], p)'
    <3>1. PICK b : b = prior[p]
      OBVIOUS
    <3>2. Leads(b, p)'
      BY <1>5, <2>1, <3>1 DEF Sturdy, PriorOK
    <3> QED BY <1>2, <3>1, <3>2 DEF Leads
  <2>2. \A p \in Queued' : prior[p] # NULL
    BY <1>1, <1>4 DEF Sturdy, PriorOK
  <2> QED BY <1>2, <1>4, <2>1, <2>2 DEF Sturdy, PriorOK
<1>9. NextOK' /\ RearOK' /\ AddOK' /\ DelOK'
  BY <1>2, <1>4 DEF Sturdy, NextOK, RearOK, AddOK, DelOK
<1>10. PlaceOK'
  BY <1>1, <1>2 DEF Sturdy, PlaceOK, Adding, Deleting
<1>11. Whole'
  <2>1. ASSUME ~ interrupted PROVE Forward'
    <3>1. /\ prior[h] \notin Allocated
          /\ \A p \in Allocated : next[p] # NULL => next[p] \in Allocated /\ prior[next[p]] = p
      BY <1>1, <1>2, <2>1 DEF Whole, LinksOK, Forward
    <3>2. \A p \in Allocated : next[p] # h
      BY <1>1, <3>1
    <3> QED BY <1>2, <1>4, <3>1, <3>2 DEF Forward
  <2> QED BY <1>2, <2>1 DEF Whole, LinksOK, AheadOK, Adding, Deleting
<1>12. Counted'
  BY <1>2 DEF Counted
<1> QED BY <1>3, <1>6, <1>7, <1>8, <1>9, <1>10, <1>11, <1>12 DEF Sturdy

LEMMA ClosedStep ==
  ASSUME QInv, Closed, UNCHANGED <<fault, interrupted>>
  PROVE  QInv'
<1> USE DEF QInv
<1>1. /\ pc = "close" /\ pc' = "closed" /\ front = NULL /\ rear' = NULL
      /\ UNCHANGED <<prior, next, front, heap, stat, tries, update_stat, pkt_temp,
                     temp, load, job>>
  BY DEF Closed, pktVars, mainVars
<1>2. Types'
  BY <1>1 DEF Types, Pointer
<1>3. /\ Queued' = Queued /\ Allocated' = Allocated /\ Freed' = Freed
  BY <1>1 DEF Queued, Allocated, Freed, Outside
<1>4. Queued = {} /\ Queued = Allocated
  <2>1. HoldsNext({}) /\ {} \in SUBSET Pkt
    BY DEF HoldsNext
  <2> QED BY <1>1, <2>1, AllQueued DEF Sturdy, Reached, Settled
<1>5. Fresh'
  <2>1. \A p \in Pkt : heap[p] = "unused" => Apart(p)' /\ prior[p] = NULL
    BY <1>1, QueuedSets DEF Sturdy, Fresh, Apart
  <2> QED BY <1>1, <2>1 DEF Fresh
<1>6. Reached' /\ PriorOK' /\ NextOK' /\ AddOK' /\ DelOK'
  BY <1>1, <1>3, <1>4 DEF Reached, PriorOK, NextOK, AddOK, DelOK
<1>7. RearOK'
  BY <1>1, <1>3, <1>4, QueuedSets DEF RearOK
<1>8. PlaceOK'
  BY <1>1 DEF Sturdy, PlaceOK, Adding, Deleting
<1>9. Whole'
  <2>1. Forward' <=> Forward
    BY <1>1, <1>3 DEF Forward
  <2> QED BY <1>1, <2>1 DEF Whole, LinksOK, AheadOK, Adding, Deleting
<1>10. Counted'
  BY <1>1 DEF Counted
<1> QED BY <1>2, <1>5, <1>6, <1>7, <1>8, <1>9, <1>10 DEF Sturdy

----------------------------------------------------------------------------
(***************************************************************************)
(* Nothing is used after it was freed while the queue is a list.           *)
(***************************************************************************)
\* Nothing changes but fault and interrupted.
LEMMA FaultStep ==
  ASSUME QInv, UNCHANGED <<ptrVars, pktVars, update_stat, pc, mainVars>>,
         interrupted => interrupted', Whole'
  PROVE  QInv'
<1>1. UNCHANGED <<ptrVars, heap, stat, tries, pc, pkt_temp, temp, load, job>>
  BY DEF pktVars, mainVars
<1>2. Types'
  BY <1>1 DEF QInv, Types, ptrVars
<1>3. PlaceOK'
  BY <1>1 DEF QInv, Sturdy, PlaceOK, Used
<1>4. Sturdy'
  BY <1>1, <1>3, StillSturdy DEF QInv, Sturdy
<1>5. Counted'
  <2>1. Unsent' = Unsent
    BY <1>1 DEF Unsent, Used
  <2> QED BY <1>1, <2>1, CountedKept DEF QInv
<1> QED BY <1>2, <1>4, <1>5 DEF QInv

LEMMA TouchesUsed ==
  ASSUME QInv, ~ interrupted
  PROVE  \A q \in Touched : Used(q)
<1>1. /\ LinksOK /\ AheadOK /\ PlaceOK
      /\ \A p : Used(p) <=> p \in Allocated
      /\ Queued \subseteq Allocated
  BY QueuedSets DEF QInv, Whole, Sturdy, Used, Allocated
<1>2. CASE pc = "add_link"
  <2>1. Touched = {rear}
    BY <1>2 DEF Touched
  <2> QED BY <1>1, <1>2, <2>1 DEF LinksOK, Doubly
<1>3. CASE pc = "walk"
  <2>1. Touched = {pkt_temp} \ {NULL}
    BY <1>3 DEF Touched
  <2> QED BY <1>1, <1>3, <2>1 DEF AheadOK
<1>4. CASE pc \in {"count", "advance"}
  <2>1. Touched = {pkt_temp}
    BY <1>4 DEF Touched
  <2> QED BY <1>1, <1>4, <2>1 DEF PlaceOK
<1>5. CASE pc = "del"
  <2>1. Touched = {pkt_temp} \cup (IF next[pkt_temp] = NULL THEN {}
                                   ELSE {prior[pkt_temp]} \ {NULL})
    BY <1>5 DEF Touched
  <2>2. Used(pkt_temp)
    BY <1>1, <1>5 DEF PlaceOK, Deleting
  <2>3. pkt_temp \in Queued /\ Doubly(front, rear, Queued)
    BY <1>1, <1>5, <2>2, AllQueued DEF LinksOK, Settled
  <2>4. prior[pkt_temp] # NULL => prior[pkt_temp] \in Queued
    BY <2>3 DEF Doubly
  <2> QED BY <1>1, <2>1, <2>2, <2>4
<1>6. CASE pc = "del_last"
  <2>1. Touched = {rear}
    BY <1>6 DEF Touched
  <2>2. pkt_temp \in Queued
    BY <1>1, <1>6, AllQueued DEF PlaceOK, Deleting
  <2> QED BY <1>1, <1>6, <2>1, <2>2 DEF LinksOK, Doubly
<1>7. CASE pc = "del_head"
  <2>1. Touched = {front}
    BY <1>7 DEF Touched
  <2>2. Used(pkt_temp) /\ front = next[pkt_temp] /\ front # NULL
        /\ Doubly(pkt_temp, rear, Queued \cup {pkt_temp})
    BY <1>1, <1>7 DEF PlaceOK, Deleting, LinksOK
  <2>3. front \in Queued \cup {pkt_temp}
    BY <2>2 DEF Doubly
  <2> QED BY <1>1, <2>1, <2>2, <2>3
<1>8. CASE pc = "del_middle"
  <2>1. Touched = {next[pkt_temp]}
    BY <1>8 DEF Touched
  <2> QED BY <1>1, <1>8, <2>1 DEF LinksOK, DoublyBut
<1>9. CASE pc = "close"
  <2>1. Touched = {front} \ {NULL}
    BY <1>9 DEF Touched
  <2> QED BY <1>1, <1>9, <2>1 DEF LinksOK, Forward
<1>10. CASE pc \notin {"add_link", "walk", "count", "advance", "del", "del_last",
                       "del_head", "del_middle", "close"}
  <2>1. Touched = {}
    BY <1>10 DEF Touched
  <2> QED BY <2>1
<1> QED BY <1>2, <1>3, <1>4, <1>5, <1>6, <1>7, <1>8, <1>9, <1>10

LEMMA UseFreedStep ==
  ASSUME QInv, UseFreed, UNCHANGED interrupted
  PROVE  QInv'
<1>1. interrupted
  BY TouchesUsed DEF UseFreed
<1> QED BY <1>1, FaultStep DEF UseFreed, Whole

LEMMA HandlerUsesFreedStep ==
  ASSUME QInv, NEW s, HandlerUsesFreed(s), Interrupt
  PROVE  QInv'
<1>1. interrupted'
  <2> SUFFICES ASSUME ~ interrupted, pc = "idle" PROVE FALSE
    BY DEF Interrupt
  <2>1. Doubly(front, rear, Queued)
    BY DEF QInv, Whole, LinksOK
  <2>2. HoldsNext(Queued) /\ Queued \in SUBSET Pkt /\ front \in Queued \cup {NULL}
    BY <2>1, QueuedSets DEF Doubly, HoldsNext
  <2>3. \A p : p \in Queued <=> Used(p)
    BY AllQueued DEF Settled, Used, Allocated
  <2>4. \A p \in Pkt : Reaches(p, s) => Used(p)
    BY <2>2, <2>3 DEF Reaches, Listed
  <2>5. \A p \in Pkt : Used(p) => NeighboursUsed(p)
    BY <2>1, <2>3 DEF NeighboursUsed, Doubly
  <2> QED BY <2>4, <2>5 DEF HandlerUsesFreed, Finds
<1> QED BY <1>1, FaultStep DEF HandlerUsesFreed, Interrupt, Whole

----------------------------------------------------------------------------
(***************************************************************************)
(* The theorems.                                                           *)
(***************************************************************************)
LEMMA QInvInit == Init => QInv
<1> SUFFICES ASSUME Init PROVE QInv
  OBVIOUS
<1> USE DEF Init
<1>1. Types
  BY RetxAssumption DEF Types, Pointer
<1>2. Allocated = {} /\ Queued = {}
  BY DEF Allocated, Queued
<1>3. Sturdy
  <2>1. Fresh
    BY NullAssumption DEF Fresh, Apart
  <2> QED BY <1>2, <2>1 DEF Sturdy, Reached, PriorOK, NextOK, RearOK, PlaceOK, AddOK,
                        DelOK, Adding, Deleting
<1>4. Whole
  BY <1>2 DEF Whole, LinksOK, AheadOK, Doubly, Adding, Deleting
<1>5. Counted
  <2>1. Unsent = {}
    BY DEF Unsent, Used
  <2>2. Cardinality(Unsent) = 0
    BY <2>1, FS_EmptySet
  <2>3. Owed = 0
    BY OwedValue DEF Owed
  <2> QED BY <2>2, <2>3 DEF Counted, Exact
<1> QED BY <1>1, <1>3, <1>4, <1>5 DEF QInv

LEMMA QInvStep == QInv /\ [Next]_vars => QInv'
<1> SUFFICES ASSUME QInv, [Next]_vars PROVE QInv'
  OBVIOUS
<1>1. CASE UNCHANGED vars
  <2>1. UNCHANGED <<ptrVars, pktVars, update_stat, pc, mainVars, fault, interrupted>>
    BY <1>1 DEF vars
  <2>2. /\ UNCHANGED <<prior, next, front, rear, heap, stat, pc, pkt_temp, temp, job>>
        /\ Queued' = Queued /\ Allocated' = Allocated
    BY <2>1, Kept DEF ptrVars, pktVars, mainVars, Queued
  <2>3. LinksOK' <=> LinksOK
    BY <2>2 DEF LinksOK, Doubly, DoublyBut, Forward
  <2>4. AheadOK' <=> AheadOK
    BY <2>2 DEF AheadOK, Used
  <2>5. Whole'
    BY <2>1, <2>3, <2>4 DEF QInv, Whole
  <2> QED BY <2>1, <2>5, FaultStep
<1>2. CASE Main /\ UNCHANGED <<fault, interrupted>>
  <2>1. CASE Add
    BY <1>2, <2>1, AddPktStep, SetFrontStep, SetRearToFrontStep, SetPriorStep,
       LinkRearStep, SetRearStep DEF Add
  <2>2. CASE Walk
    <3>1. PassPkt => QInv'
      BY <1>2, OnwardStep DEF PassPkt
    <3>2. Advance => QInv'
      BY <1>2, OnwardStep DEF Advance
    <3> QED BY <1>2, <2>2, <3>1, <3>2, StartWalkStep, EndWalkStep, GiveUpStep,
               SendPktStep, CountTryStep, LoadStatStep, StoreStatStep DEF Walk
  <2>3. CASE Delete
    BY <1>2, <2>3, DelFirstStep, DelSecondStep, FreePktStep DEF Delete
  <2>4. CASE \E p \in Pkt : RecordACK(p)
    BY <1>2, <2>4, RecordACKStep
  <2>5. CASE Close \/ FreeFront \/ Closed
    BY <1>2, <2>5, CloseStep, FreeFrontStep, ClosedStep
  <2> QED BY <1>2, <2>1, <2>2, <2>3, <2>4, <2>5 DEF Main
<1>3. CASE Alarm /\ Interrupt /\ UNCHANGED fault
  BY <1>3, StartBackOffStep, EndBackOffStep, DelAckedStep DEF Alarm
<1>4. CASE UseFreed /\ UNCHANGED interrupted
  BY <1>4, UseFreedStep
<1>5. CASE AlarmUsesFreed /\ Interrupt
  BY <1>5, HandlerUsesFreedStep DEF AlarmUsesFreed
<1> QED BY <1>1, <1>2, <1>3, <1>4, <1>5 DEF Next

\* The invariant holds of every state, whatever the packets and wherever the
\* handlers of axidma_DOTS.c come between the assignments of pktq_man.c.
THEOREM QueueInvariance == Spec => []QInv
BY QInvInit, QInvStep, PTL DEF Spec

\* add_pkt, del_pkt of main and of wait_cfrm_fdbk, the walk and del_node_manager
\* keep the queue a doubly linked list of its packets, use no freed memory and
\* leave none behind, until a handler comes inside main's steps.
THEOREM QueueIsSound == Spec => []QueueOK
<1>1. QInv => QueueOK
  <2> SUFFICES ASSUME QInv PROVE QueueOK
    OBVIOUS
  <2>1. TypeOK
    BY DEF QInv, Types, TypeOK
  <2>2. NoFault
    BY DEF QInv, Whole, NoFault
  <2>3. ListOK
    <3> SUFFICES ASSUME ~ interrupted, pc = "idle"
                 PROVE  /\ \A p \in {front, rear} : p = NULL \/ Used(p)
                        /\ front = NULL <=> rear = NULL
                        /\ \A p \in Pkt : Used(p) =>
                             /\ Listed(p)
                             /\ prior[p] = NULL <=> front = p
                             /\ prior[p] # NULL => Used(prior[p]) /\ next[prior[p]] = p
                             /\ next[p] = NULL <=> rear = p
                             /\ next[p] # NULL => Used(next[p]) /\ prior[next[p]] = p
      BY DEF ListOK
    <3>1. Doubly(front, rear, Queued)
      BY DEF QInv, Whole, LinksOK
    <3>2. \A p : p \in Queued <=> Used(p)
      BY AllQueued DEF Settled, Used, Allocated
    <3>3. \A p : Used(p) => Listed(p)
      BY <3>2 DEF QInv, Sturdy, Reached, Listed
    <3> QED BY <3>1, <3>2, <3>3 DEF Doubly
  <2>4. NoLeak
    <3> SUFFICES ASSUME ~ interrupted, pc = "closed" PROVE \A p \in Pkt : heap[p] # "used"
      BY DEF NoLeak
    <3>1. HoldsNext({}) /\ {} \in SUBSET Pkt /\ front = NULL
      BY DEF HoldsNext, QInv, Whole, LinksOK
    <3>2. Queued = {} /\ Queued = Allocated
      BY <3>1, AllQueued DEF QInv, Sturdy, Reached, Settled
    <3> QED BY <3>2 DEF Allocated
  <2> QED BY <2>1, <2>2, <2>3, <2>4 DEF QueueOK
<1> QED BY <1>1, QueueInvariance, PTL

\* update_stat counts the packets to be sent; what a handler adds inside main's
\* read and write of it can be lost, so that it then is too low and never too high.
THEOREM UpdateStatCounts == Spec => []StatCounted
<1>1. QInv => StatCounted
  <2> SUFFICES ASSUME QInv, pc = "idle"
               PROVE  /\ update_stat <= Cardinality(Unsent)
                      /\ ~ interrupted => update_stat = Cardinality(Unsent)
    BY DEF StatCounted
  <2>1. Owed = 0 /\ Exact(update_stat)
    BY OwedValue DEF Owed, QInv, Counted
  <2> QED BY <2>1, FiniteUnsent DEF Exact
<1> QED BY <1>1, QueueInvariance, PTL

\* No packet falls out of the queue, wherever handlers come between the
\* assignments of add_pkt and del_pkt, as long as no freed memory was used.
THEOREM PacketsStayInQueue == Spec => []KeptInQueue
<1>1. QInv => KeptInQueue
  <2> SUFFICES ASSUME QInv, pc = "idle", NEW p \in Pkt, Used(p) PROVE Listed(p)
    BY DEF KeptInQueue
  <2>1. p \in Queued
    BY AllQueued DEF Settled, Used, Allocated
  <2> QED BY <2>1 DEF QInv, Sturdy, Reached, Listed
<1> QED BY <1>1, QueueInvariance, PTL
=============================================================================

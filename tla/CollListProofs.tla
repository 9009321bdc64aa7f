--------------------------- MODULE CollListProofs ---------------------------
(***************************************************************************)
(* What holds of the lists of collision nodes for every number of nodes    *)
(* and of lists, with the handler between any two assignments of main.     *)
(*                                                                         *)
(* The invariant has three parts.  Sturdy holds whatever comes in between, *)
(* as long as no freed memory was used: pointers may then lead through     *)
(* freed nodes, or back to one, but every list holds its nodes.  Walking   *)
(* is where a walk is in a list and what it has left to check.  Whole is   *)
(* the doubly linked lists that add_coll_node and del_coll_node build      *)
(* while the handler does not come in between, with what is left to do at  *)
(* each place.                                                             *)
(*                                                                         *)
(* That a list holds a node says that every set with the front which is    *)
(* closed under next has the node; that a walk has not lost one says the   *)
(* same of the node the walk is about to go on with (Covers).  A node that *)
(* leaves its list changes such a set by this node and freed ones only, so *)
(* that neither needs an order of the nodes or the length of the list.     *)
(***************************************************************************)
EXTENDS CollList, TLAPS

Adding  == {"add_front", "add_first", "add_prior", "add_link", "add_rear"}
Cases   == {"del_only", "del_last", "del_head", "del_middle"}
Halves  == {"only_rear", "last_next", "head_prior", "middle_prior"}
Walked  == {"check", "expired", "not_only", "not_last", "free", "next"} \cup Cases \cup Halves

\* Before the new node is linked, and after a node has been unlinked.
Early == {"add_front", "add_prior", "add_link"}
Late  == {"only_rear", "head_prior", "middle_prior", "free"}

Place == pc["main"]

Allocated == {n \in Node : heap[n] = "used"}
Freed     == {n \in Node : heap[n] = "freed"}
Queued    == {n \in Allocated : n = It => Place \notin Unlinked}
In(x)     == {n \in Queued : key[n] = x}

----------------------------------------------------------------------------
(***************************************************************************)
(* The lists, whatever comes in between.                                   *)
(***************************************************************************)
\* next of m gets to n, directly or through freed nodes.
Leads(m, n) == \E F \in SUBSET Freed : /\ next[m] \in F \cup {n}
                                       /\ \A f \in F : next[f] \in F \cup {n}

\* From pos on one meets every node of list x, other than those of C.
Covers(pos, x, C) ==
  \A S \in SUBSET Node :
    HoldsNext(S) /\ pos \in S \cup {NULL} => In(x) \subseteq S \cup C

Reached == \A x \in Index : Covers(front[x], x, {})

\* No pointer leaves its list.
SameList ==
  /\ \A n \in Node : /\ prior[n] # NULL => key[prior[n]] = key[n]
                     /\ next[n] # NULL => key[next[n]] = key[n]
  /\ \A x \in Index : /\ front[x] # NULL => key[front[x]] = x
                      /\ rear[x] # NULL => key[rear[x]] = x

\* Nothing points to n, and n is at the end.
Apart(n) == /\ next[n] = NULL
            /\ \A m \in Node : next[m] # n /\ prior[m] # n
            /\ \A x \in Index : front[x] # n /\ rear[x] # n

Fresh == /\ \A n \in Node : heap[n] = "unused" => Apart(n) /\ prior[n] = NULL
         /\ Place \in Early => Used(It) /\ Apart(It)

\* prior of a node in a list is NULL for the front, or leads to it, or was freed;
\* no two nodes have the same one.
PriorOK ==
  /\ \A n \in Queued : prior[n] = NULL =>
       front[key[n]] = n /\ ~ (Place = "head_prior" /\ key[n] = Its)
  /\ \A n \in Queued : prior[n] \in Allocated => Leads(prior[n], n)
  /\ \A m, n \in Queued : prior[m] = prior[n] /\ prior[m] \in Allocated => m = n

\* No two nodes of a list have the same next, and prior agrees with it.
NextOK ==
  /\ \A m, n \in Queued : next[m] = next[n] /\ key[m] = key[n]
                            /\ next[m] \in Queued \cup {NULL} => m = n
  /\ \A m, n \in Queued : next[m] = n /\ prior[n] \in Queued \cup {NULL} => prior[n] = m

\* No node of a list is before its front.
FrontOK == \A x \in Index : front[x] \in Queued =>
             prior[front[x]] \notin Queued /\ \A n \in Queued : next[n] # front[x]

RearOK == \A x \in Index :
  /\ rear[x] = NULL /\ ~ (Place \in {"add_first", "last_next"} /\ x = Its) =>
       In(x) = {}
  /\ rear[x] \in Allocated
       /\ ~ (Place \in {"add_first", "add_rear", "last_next"} /\ x = Its) =>
       next[rear[x]] = NULL

\* What is left to do of add_coll_node; from add_first on the handler may have
\* deleted the new node.
AddOK ==
  /\ Place = "add_front" => In(Its) = {} /\ prior[It] = NULL
  /\ Place = "add_first" =>
       /\ In(Its) \subseteq {It}
       /\ IF Used(It) THEN front[Its] = It /\ prior[It] = NULL /\ next[It] = NULL
                      ELSE front[Its] = NULL
  /\ Place = "add_link" => /\ prior[It] = NULL => In(Its) = {}
                           /\ prior[It] \in Allocated => prior[It] = rear[Its]
  /\ Place = "add_rear" /\ Used(It) => next[It] = NULL

\* What is left to do of del_coll_node; until it is unlinked the handler may have
\* deleted the node.
LastOK == /\ Used(It) => next[It] = NULL
          /\ rear[Its] \in Allocated => IF Used(It) THEN prior[It] = rear[Its]
                                                    ELSE next[rear[Its]] = NULL

MiddleOK ==
  /\ Used(It) /\ prior[It] # NULL
  /\ prior[It] \in Allocated =>
       /\ next[It] \in Allocated => Leads(prior[It], next[It])
       /\ next[It] \in Queued => next[It] # front[Its]
       /\ \A q \in Queued : /\ prior[q] # prior[It]
                            /\ prior[q] = It => Leads(prior[It], q)
                            /\ next[q] = next[It] /\ next[q] \in Queued => q = prior[It]

DelOK ==
  /\ Place \in Late /\ Used(It) => /\ \A x \in Index : front[x] # It
                                   /\ \A n \in Queued : next[n] # It
  /\ Place = "del_only" => In(Its) \subseteq {It}
  /\ Place = "del_last" /\ Used(It) => next[It] = NULL
  /\ Place = "del_head" /\ Used(It) => prior[It] = NULL
  /\ Place = "only_rear" => In(Its) = {}
  /\ Place = "last_next" => LastOK
  /\ Place = "middle_prior" => MiddleOK

Sturdy == /\ SameList /\ Reached /\ Fresh /\ PriorOK /\ NextOK /\ FrontOK /\ RearOK
          /\ AddOK /\ DelOK

----------------------------------------------------------------------------
(***************************************************************************)
(* The walks.                                                              *)
(***************************************************************************)
\* Where actor a goes on.
Ahead(a) == IF pc[a] = "check" THEN temp[a] ELSE next[temp[a]]

\* The lists before i[a] are checked, and the rest of list i[a] is ahead.
Walking(a) ==
  /\ pc[a] \in Walked => /\ \A x \in Index : x < i[a] => In(x) \subseteq checked[a]
                         /\ Covers(Ahead(a), i[a], checked[a])
  /\ pc[a] \in Walked \ {"check"} => temp[a] \in Node
  /\ pc[a] = "clear" => \A x \in Index : In(x) \subseteq checked[a]

\* The handler does not get to a node that main has out of its list.
Passes == Place \in Unlinked /\ Used(It) /\ pc["handler"] \in Walked =>
            /\ Ahead("handler") # It
            /\ pc["handler"] = "expired" => temp["handler"] # It

\* del_dly_map has freed the lists before i["main"].
Closing ==
  /\ Place = "close" => \A x \in Index : x < i["main"] => In(x) = {}
  /\ Place = "closed" => \A x \in Index : In(x) = {}

----------------------------------------------------------------------------
(***************************************************************************)
(* As long as the handler does not come in between.                        *)
(***************************************************************************)
\* A doubly linked list of the nodes of S from f to r.
Doubly(f, r, S) ==
  /\ f # NULL => f \in S
  /\ r # NULL => r \in S
  /\ f = NULL <=> r = NULL
  /\ \A n \in S : /\ prior[n] = NULL <=> f = n
                  /\ prior[n] # NULL => prior[n] \in S /\ next[prior[n]] = n
                  /\ next[n] = NULL <=> r = n
                  /\ next[n] # NULL => next[n] \in S /\ prior[next[n]] = n

\* The same with a node t between prior[t] and next[t] that only prior leads to,
\* still.
DoublyBut(t, f, r, S) ==
  /\ {prior[t], next[t]} \subseteq S /\ {f, r} \subseteq S
  /\ next[prior[t]] = next[t] /\ prior[next[t]] = t
  /\ \A n \in S :
       /\ prior[n] = NULL <=> f = n
       /\ prior[n] # NULL /\ n # next[t] => prior[n] \in S /\ next[prior[n]] = n
       /\ next[n] = NULL <=> r = n
       /\ next[n] # NULL /\ n # prior[t] => next[n] \in S /\ prior[next[n]] = n

\* The list main is at: what is left to do.
ItsOK ==
  /\ Place \in {"add_first", "add_rear"} => Doubly(front[Its], It, In(Its))
  /\ Place \in {"add_prior", "add_link"} => rear[Its] # NULL
  /\ Place = "add_link" => prior[It] = rear[Its]
  /\ Place \in {"expired", "not_only", "not_last"} \cup Cases \cup Halves => Used(It)
  /\ Place = "not_only" => prior[It] # NULL \/ next[It] # NULL
  /\ Place \in {"not_last", "del_head", "del_middle"} => next[It] # NULL
  /\ Place \in {"del_only", "del_head"} => prior[It] = NULL
  /\ Place \in {"del_only", "del_last"} => next[It] = NULL
  /\ Place \in {"del_last", "del_middle"} => prior[It] # NULL
  /\ Place = "only_rear" => front[Its] = NULL
  /\ Place = "last_next" => /\ Doubly(front[Its], It, In(Its))
                            /\ rear[Its] = prior[It] /\ rear[Its] # NULL
  /\ Place = "head_prior" => /\ Doubly(It, rear[Its], In(Its) \cup {It})
                             /\ front[Its] = next[It] /\ front[Its] # NULL
  /\ Place = "middle_prior" => DoublyBut(It, front[Its], rear[Its], In(Its))

LinksOK ==
  /\ \A x \in Index : ~ (Place \in {"add_first", "add_rear"} \cup Halves /\ x = Its) =>
       Doubly(front[x], rear[x], In(x))
  /\ ItsOK

\* Where an actor goes on.
Sound(a) ==
  /\ pc[a] \in {"check", "next", "free"} \cup Halves =>
       Ahead(a) = NULL \/ Ahead(a) \in Queued
  /\ pc[a] = "expired" => Used(temp[a])
  /\ pc[a] = "free" => Used(temp[a])

Whole == ~ interrupted => /\ Place = "idle" \/ pc["handler"] = "idle"
                          /\ LinksOK /\ ~ fault
                          /\ \A a \in Actor : Sound(a)
----------------------------------------------------------------------------
\* The invariant.
Types == /\ heap \in [Node -> {"unused", "used", "freed"}] /\ key \in [Node -> Index]
         /\ prior \in [Node -> Pointer] /\ next \in [Node -> Pointer]
         /\ front \in [Index -> Pointer] /\ rear \in [Index -> Pointer]
         /\ pc \in [Actor -> {"idle", "clear", "close", "closed"} \cup Adding \cup Walked]
         /\ i \in [Actor -> Index] /\ temp \in [Actor -> Pointer]
         /\ checked \in [Actor -> SUBSET Node]
         /\ pc["handler"] \in {"idle", "clear", "check", "expired", "next"}
         /\ Place \in {"close", "closed"} => pc["handler"] = "idle"
         /\ Place \in Adding => It \in Node /\ heap[It] # "unused"
         /\ \A a \in Actor : pc[a] \in {"idle"} \cup Adding => i[a] = 0

LInv == /\ Types /\ Sturdy /\ Passes /\ Closing /\ Whole
        /\ \A a \in Actor : Walking(a)

----------------------------------------------------------------------------
(***************************************************************************)
(* Steps that leave the lists alone.                                       *)
(***************************************************************************)
LEMMA Sets ==
  /\ Queued \subseteq Allocated /\ Allocated \subseteq Node /\ Freed \subseteq Node
  /\ NULL \notin Allocated /\ NULL \notin Node
  /\ \A n \in Freed : n \notin Allocated
  /\ \A n : Used(n) <=> n \in Allocated
  /\ \A n : heap[n] = "unused" => n \notin Allocated /\ n \notin Freed
  /\ "main" \in Actor /\ "handler" \in Actor
  /\ \A a \in Actor : a = "main" \/ a = "handler"
BY NullAssumption DEF Queued, Allocated, Freed, Used, Actor

\* Places where nothing is left to do of add_coll_node or del_coll_node.
Settled == {"idle", "clear", "check", "expired", "not_only", "not_last", "next",
            "close", "closed"}

\* main goes on to such a place or to a case of del_coll_node, or stays.
Calm == \/ Place \in Settled /\ Place' \in Settled \cup Cases
        \/ Place' = Place /\ It' = It

LEMMA Kept ==
  ASSUME UNCHANGED listVars, Calm
  PROVE  /\ Allocated' = Allocated /\ Freed' = Freed /\ Queued' = Queued
         /\ \A x : In(x)' = In(x)
         /\ \A S : HoldsNext(S)' <=> HoldsNext(S)
         /\ \A m, n : Leads(m, n)' <=> Leads(m, n)
         /\ \A n : Apart(n)' <=> Apart(n)
         /\ \A pos, x, C : Covers(pos, x, C)' <=> Covers(pos, x, C)
         /\ \A f, r, S : Doubly(f, r, S)' <=> Doubly(f, r, S)
<1> USE DEF listVars
<1>1. Allocated' = Allocated /\ Freed' = Freed
  BY DEF Allocated, Freed
<1>2. Queued' = Queued
  BY <1>1 DEF Queued, Calm, Settled, Cases, Unlinked
<1>3. \A x : In(x)' = In(x)
  BY <1>2 DEF In
<1>4. \A S : HoldsNext(S)' <=> HoldsNext(S)
  BY DEF HoldsNext
<1>5. \A m, n : Leads(m, n)' <=> Leads(m, n)
  BY <1>1 DEF Leads
<1>6. \A n : Apart(n)' <=> Apart(n)
  BY DEF Apart
<1>7. \A pos, x, C : Covers(pos, x, C)' <=> Covers(pos, x, C)
  BY <1>3, <1>4 DEF Covers
<1>8. \A f, r, S : Doubly(f, r, S)' <=> Doubly(f, r, S)
  BY DEF Doubly
<1> QED BY <1>1, <1>2, <1>3, <1>4, <1>5, <1>6, <1>7, <1>8

LEMMA StillSturdy ==
  ASSUME Sturdy, UNCHANGED listVars, Calm, Place' \in Cases /\ Place # Place' => DelOK'
  PROVE  Sturdy'
<1> USE DEF Sturdy
<1>0. UNCHANGED <<heap, key, prior, next, front, rear>>
  BY DEF listVars
<1>1. Reached' /\ SameList'
  BY <1>0, Kept DEF Reached, SameList
<1>2. Fresh'
  <2>1. Place' \in Early => Place' = Place /\ It' = It
    BY DEF Calm, Settled, Early, Cases
  <2>2. Used(It)' <=> (It' \in Node /\ heap[It'] = "used")
    BY <1>0 DEF Used
  <2>3. Place' \in Early => Used(It)' /\ Apart(It)'
    BY <1>0, <2>1, <2>2, Kept DEF Fresh, Used, Apart
  <2> QED BY <1>0, <2>3, Kept DEF Fresh
<1>3. PriorOK'
  <2>1. Place' = "head_prior" => Place = "head_prior" /\ Its' = Its
    BY <1>0 DEF Calm, Settled, Cases, Its
  <2>2. ASSUME NEW n \in Queued', prior'[n] \in Allocated' PROVE Leads(prior[n], n)'
    <3>1. PICK m : m = prior[n]
      OBVIOUS
    <3>2. Leads(m, n)'
      BY <1>0, <2>2, <3>1, Kept DEF PriorOK
    <3> QED BY <1>0, <3>1, <3>2 DEF Leads
  <2> QED BY <1>0, <2>1, <2>2, Kept DEF PriorOK
<1>4. NextOK' /\ FrontOK'
  BY <1>0, Kept DEF NextOK, FrontOK
<1>5. RearOK'
  <2>1. CASE Place' = Place /\ It' = It
    BY <1>0, <2>1, Kept DEF RearOK, Its
  <2>2. CASE Place \in Settled /\ Place' \in Settled \cup Cases
    <3>1. \A x \in Index : /\ rear[x] = NULL => In(x) = {}
                           /\ rear[x] \in Allocated => next[rear[x]] = NULL
      BY <2>2 DEF RearOK, Settled
    <3> QED BY <1>0, <3>1, Kept DEF RearOK
  <2> QED BY <2>1, <2>2 DEF Calm
<1>6. CASE Place' = Place /\ It' = It
  <2>1. Its' = Its
    BY <1>0, <1>6 DEF Its
  <2>2. In(Its)' = In(Its)
    BY <1>0, <2>1, Kept DEF In
  <2>3. Used(It)' <=> Used(It)
    BY <1>0, <1>6 DEF Used
  <2>4. AddOK'
    BY <1>0, <1>6, <2>1, <2>2, <2>3, Kept DEF AddOK
  <2>5. LastOK' <=> LastOK
    BY <1>0, <1>6, <2>1, <2>3, Kept DEF LastOK
  <2>6. MiddleOK => MiddleOK'
    <3>1. \A m, n : m = It /\ Leads(prior[m], n) => Leads(prior[It], n)'
      BY <1>0, <1>6, Kept DEF Leads
    <3>2. Leads(prior[It], next[It]) => Leads(prior[It], next[It])'
      BY <1>0, <1>6, Kept DEF Leads
    <3> QED BY <1>0, <1>6, <2>1, <2>3, <3>1, <3>2, Kept DEF MiddleOK
  <2>7. DelOK'
    BY <1>0, <1>6, <2>1, <2>2, <2>3, <2>5, <2>6, Kept DEF DelOK
  <2> QED BY <1>1, <1>2, <1>3, <1>4, <1>5, <2>4, <2>7
<1>7. CASE Place \in Settled /\ Place' \in Settled \cup Cases
  <2>1. AddOK'
    BY <1>7 DEF AddOK, Settled, Cases
  <2>2. DelOK'
    <3>1. CASE Place' \in Cases
      BY <1>7, <3>1 DEF Settled, Cases
    <3>2. CASE Place' \in Settled
      BY <3>2 DEF DelOK, Settled, Late
    <3> QED BY <1>7, <3>1, <3>2
  <2> QED BY <1>1, <1>2, <1>3, <1>4, <1>5, <2>1, <2>2
<1> QED BY <1>6, <1>7 DEF Calm

Interrupts == interrupted' = (interrupted \/ /\ pc["main"] # "idle"
                                             /\ pc'["handler"] # "idle")

\* As long as the handler does not come inside a call of main, one of them is idle.
LEMMA OneIdle ==
  ASSUME LInv, Interrupts, ~ interrupted'
  PROVE  /\ ~ interrupted /\ LinksOK /\ ~ fault
         /\ \A a \in Actor : Sound(a)
         /\ Place = "idle" \/ pc["handler"] = "idle"
         /\ Place = "idle" \/ pc'["handler"] = "idle"
BY DEF Interrupts, LInv, Whole, Place

\* Actor a does a step of its walk, the other one stands still.
Walks(a) ==
  /\ At(a, pc[a]) /\ pc[a] \in Settled \ {"close", "closed"}
  /\ pc'[a] \in Settled \ {"not_only", "not_last", "close", "closed"}
  /\ pc[a] = "idle" => pc'[a] # "idle"
  /\ a = "handler" => Place \notin {"close", "closed"}
  /\ \A b \in Actor \ {a} : /\ pc'[b] = pc[b] /\ i'[b] = i[b]
                            /\ temp'[b] = temp[b] /\ checked'[b] = checked[b]

\* A walk that stays where it is has as much ahead as before.
LEMMA WaitsOn ==
  ASSUME UNCHANGED listVars, Calm, NEW b \in Actor, Walking(b),
         pc'[b] = pc[b], i'[b] = i[b], temp'[b] = temp[b], checked'[b] = checked[b]
  PROVE  Walking(b)' /\ (Sound(b) => Sound(b)')
<1>1. next' = next /\ heap' = heap
  BY DEF listVars
<1>2. Ahead(b)' = Ahead(b)
  BY <1>1 DEF Ahead
<1>3. Covers(Ahead(b), i[b], checked[b]) => Covers(Ahead(b), i[b], checked[b])'
  BY <1>1, <1>2, Kept DEF Covers
<1>4. Walking(b)'
  BY <1>2, <1>3, Kept DEF Walking
<1>5. Sound(b) => Sound(b)'
  BY <1>1, <1>2, Kept DEF Sound, Used
<1> QED BY <1>4, <1>5

\* What is left to show of a step of a walk that only reads the lists.
LEMMA WalkStep ==
  ASSUME LInv, NEW a \in Actor, Walks(a), Interrupts, UNCHANGED <<listVars, fault>>,
         Types', Walking(a)', ~ interrupted' => Sound(a)',
         a = "handler" => Passes'
  PROVE  LInv'
<1> USE DEF LInv
<1>1. /\ a = "main" => /\ Place \in Settled /\ pc["handler"] = "idle"
                       /\ Place' \in {"idle", "check", "expired", "next", "clear"}
                       /\ pc'["handler"] = "idle"
      /\ a = "handler" => /\ Place' = Place /\ It' = It /\ pc'["main"] = pc["main"]
                          /\ Place \notin {"close", "closed"}
  BY Sets DEF Walks, At, Place, It, Settled
<1>2. Calm
  BY <1>1, Sets DEF Calm, Settled
<1>3. Sturdy'
  BY <1>1, <1>2, Sets, StillSturdy DEF Cases
<1>4. \A b \in Actor : Walking(b)'
  BY <1>2, WaitsOn DEF Walks
<1>5. Passes'
  BY <1>1, Sets DEF Passes, Walked, Cases, Halves
<1>6. Closing'
  BY <1>1, Sets DEF Closing
<1>7. Whole'
  <2> SUFFICES ASSUME ~ interrupted'
               PROVE  /\ Place' = "idle" \/ pc'["handler"] = "idle"
                      /\ LinksOK' /\ ~ fault'
                      /\ \A b \in Actor : Sound(b)'
    BY DEF Whole
  <2>1. /\ ~ interrupted /\ LinksOK /\ ~ fault
        /\ \A b \in Actor : Sound(b)
        /\ Place = "idle" \/ pc["handler"] = "idle"
        /\ Place = "idle" \/ pc'["handler"] = "idle"
    BY OneIdle
  <2>2. \A b \in Actor : Sound(b)'
    BY <1>2, <2>1, WaitsOn DEF Walks
  <2>3. Place' = "idle" \/ pc'["handler"] = "idle"
    BY <1>1, <2>1, Sets
  <2>4. Place \in Settled /\ Place' \in {"idle", "check", "expired", "next", "clear"}
    <3>1. CASE a = "main"
      BY <1>1, <3>1
    <3>2. CASE a = "handler"
      <4>1. pc["handler"] = "idle" => pc'["handler"] # "idle"
        BY <3>2 DEF Walks
      <4>2. Place = "idle" /\ Place' = "idle"
        BY <1>1, <2>1, <3>2, <4>1
      <4> QED BY <4>2 DEF Settled
    <3> QED BY <3>1, <3>2, Sets
  <2>5. Place' = "expired" => Used(It)'
    BY <2>2, Sets DEF Sound, Place, It, Used
  <2>6. ItsOK'
    BY <2>4, <2>5 DEF ItsOK, Cases, Halves
  <2>7. \A x \in Index : Doubly(front[x], rear[x], In(x))
    BY <2>1, <2>4 DEF LinksOK, Settled, Halves
  <2>8. \A x \in Index : Doubly(front[x], rear[x], In(x))'
    BY <1>2, <2>7, Kept DEF Doubly, listVars
  <2> QED BY <2>1, <2>2, <2>3, <2>6, <2>8 DEF LinksOK
<1> QED BY <1>3, <1>4, <1>5, <1>6, <1>7

----------------------------------------------------------------------------
(***************************************************************************)
(* The steps of a walk.                                                    *)
(***************************************************************************)
\* From NULL on there is nothing.
LEMMA Exhausted ==
  ASSUME NEW x, NEW C, Covers(NULL, x, C)
  PROVE  In(x) \subseteq C
<1>1. {} \in SUBSET Node /\ HoldsNext({})
  BY DEF HoldsNext
<1> QED BY <1>1 DEF Covers

\* A node is checked, and the next one is ahead.
LEMMA CoversChecked ==
  ASSUME NEW x, NEW n \in Node, NEW C, Covers(n, x, C)
  PROVE  Covers(next[n], x, C \cup {n})
<1> SUFFICES ASSUME NEW S \in SUBSET Node, next[n] \in S \cup {NULL}, HoldsNext(S)
             PROVE  In(x) \subseteq S \cup (C \cup {n})
  BY DEF Covers
<1> DEFINE T == S \cup {n}
<1>1. HoldsNext(T) /\ T \in SUBSET Node
  BY DEF HoldsNext
<1> QED BY <1>1 DEF Covers

\* No step of a walk leads to a node that main has out of its list.
LEMMA NotOut ==
  ASSUME LInv, Place \in Unlinked, Used(It)
  PROVE  /\ \A x \in Index : front[x] # It
         /\ \A n \in Queued : next[n] # It
<1>1. Place \in Early \/ Place \in Late
  BY DEF Unlinked, Early, Late
<1>2. CASE Place \in Early
  BY <1>2, Sets DEF LInv, Sturdy, Fresh, Apart
<1>3. CASE Place \in Late
  BY <1>3 DEF LInv, Sturdy, DelOK
<1> QED BY <1>1, <1>2, <1>3

\* A step that only changes where actor a is.
Looks(a, places) ==
  /\ pc'[a] \in places /\ pc' \in [Actor -> {"idle", "clear", "close", "closed"}
                                              \cup Adding \cup Walked]
  /\ i' \in [Actor -> Index] /\ temp' \in [Actor -> Pointer]
  /\ checked' \in [Actor -> SUBSET Node]
  /\ pc'[a] = "idle" => i'[a] = 0

LEMMA WalkTypes ==
  ASSUME LInv, NEW a \in Actor, Walks(a), UNCHANGED listVars,
         Looks(a, Settled \ {"not_only", "not_last", "close", "closed"})
  PROVE  Types'
<1> USE DEF LInv
<1>1. /\ a = "main" => /\ pc'["handler"] = pc["handler"]
                       /\ Place' \in {"idle", "check", "expired", "next", "clear"}
      /\ a = "handler" => /\ Place' = Place /\ It' = It
                          /\ Place \notin {"close", "closed"}
                          /\ pc'["handler"] \in {"idle", "check", "expired", "next", "clear"}
  BY Sets DEF Walks, Looks, Place, It, Settled
<1>2. \A b \in Actor : pc'[b] \in {"idle"} \cup Adding => i'[b] = 0
  BY DEF Walks, Looks, Types, Settled, Adding
<1>3. Place' \in Adding => It' \in Node /\ heap'[It'] # "unused"
  BY <1>1, Sets DEF Types, Adding, listVars
<1>4. /\ pc'["handler"] \in {"idle", "clear", "check", "expired", "next"}
      /\ Place' \in {"close", "closed"} => pc'["handler"] = "idle"
  BY <1>1, Sets DEF Types
<1> QED BY <1>2, <1>3, <1>4 DEF Types, Looks, listVars

\* ck_coll_map starts at the front of the first list.
LEMMA StartStep ==
  ASSUME LInv, NEW a \in Actor, StartWalk(a), Interrupts, UNCHANGED fault
  PROVE  LInv'
<1>1. /\ pc[a] = "idle" /\ pc'[a] = "check" /\ temp'[a] = front[0] /\ i' = i
      /\ checked' = checked /\ UNCHANGED listVars /\ i[a] = 0 /\ 0 \in Index
      /\ \A b \in Actor \ {a} : pc'[b] = pc[b] /\ temp'[b] = temp[b]
  BY SizeAssumption DEF StartWalk, At, GoTo, LInv, Types, Index
<1>2. Walks(a)
  BY <1>1, Sets DEF StartWalk, Walks, Settled, At, Place
<1>3. Types'
  <2>1. Looks(a, Settled \ {"not_only", "not_last", "close", "closed"})
    BY <1>1 DEF Looks, Settled, LInv, Types, StartWalk, GoTo, Walked
  <2> QED BY <1>1, <1>2, <2>1, WalkTypes
<1>4. Calm /\ Ahead(a)' = front[0]
  <2>1. Calm
    BY <1>1, <1>2, Sets DEF Calm, Place, It, Settled, Walks
  <2> QED BY <1>1, <2>1 DEF Ahead
<1>5. Walking(a)'
  <2>1. Covers(front[0], 0, checked[a])
    BY <1>1 DEF LInv, Sturdy, Reached, Covers
  <2>2. Covers(Ahead(a), i[a], checked[a])'
    BY <1>1, <1>4, <2>1, Kept DEF Covers
  <2>3. \A x \in Index : ~ (x < i'[a])
    BY <1>1 DEF Index
  <2> QED BY <1>1, <2>2, <2>3 DEF Walking
<1>6. ~ interrupted' => Sound(a)'
  <2> SUFFICES ASSUME ~ interrupted' PROVE Sound(a)'
    OBVIOUS
  <2>1. LinksOK /\ Place = "idle"
    BY <1>1, <1>2, OneIdle, Sets DEF Walks, Place
  <2>2. Doubly(front[0], rear[0], In(0))
    BY <1>1, <2>1 DEF LinksOK, Halves
  <2>3. front[0] = NULL \/ front[0] \in Queued
    BY <2>2 DEF Doubly, In
  <2> QED BY <1>1, <1>4, <2>3, Kept DEF Sound, Halves
<1>7. a = "handler" => Passes'
  <2> SUFFICES ASSUME a = "handler", Place' \in Unlinked, Used(It)' PROVE Passes'
    BY DEF Passes
  <2>1. Place' = Place /\ It' = It /\ Used(It)
    BY <1>1, Sets DEF Place, It, Used, listVars
  <2> QED BY <1>1, <1>4, <2>1, NotOut DEF Passes
<1> QED BY <1>1, <1>2, <1>3, <1>5, <1>6, <1>7, WalkStep

\* A node is checked; the walk goes on behind it, or deletes it.
LEMMA CheckStep ==
  ASSUME LInv, NEW a \in Actor, Check(a), Interrupts, UNCHANGED fault
  PROVE  LInv'
<1> USE DEF LInv
<1> PICK n \in Node : n = temp[a] /\ heap[n] = "used"
  BY DEF Check, Used
<1>1. /\ pc[a] = "check" /\ pc'[a] \in {"next", "expired"} /\ temp' = temp /\ i' = i
      /\ checked'[a] = checked[a] \cup {n} /\ UNCHANGED listVars
      /\ \A b \in Actor \ {a} : pc'[b] = pc[b] /\ checked'[b] = checked[b]
  BY DEF Check, At, GoTo, Types
<1>2. Walks(a)
  BY <1>1, Sets DEF Check, Walks, Settled, At, Place, Types
<1>3. Types'
  <2>1. Looks(a, Settled \ {"not_only", "not_last", "close", "closed"})
    BY <1>1 DEF Looks, Settled, LInv, Types, Check, GoTo, Walked
  <2> QED BY <1>1, <1>2, <2>1, WalkTypes
<1>4. Calm /\ Ahead(a)' = next[n]
  <2>1. Calm
    BY <1>1, <1>2, Sets DEF Calm, Place, It, Settled, Walks
  <2> QED BY <1>1, <2>1 DEF Ahead, listVars
<1>5. Walking(a)'
  <2>1. Covers(n, i[a], checked[a])
    BY <1>1 DEF Walking, Ahead, Walked
  <2>2. Covers(next[n], i[a], checked[a] \cup {n})
    BY <2>1, CoversChecked
  <2>3. Covers(Ahead(a), i[a], checked[a])'
    BY <1>1, <1>4, <2>2, Kept DEF Covers
  <2>4. \A x \in Index : x < i[a] => In(x) \subseteq checked[a]
    BY <1>1 DEF Walking, Walked
  <2> QED BY <1>1, <1>4, <2>3, <2>4, Kept DEF Walking
<1>6. ~ interrupted' => Sound(a)'
  <2> SUFFICES ASSUME ~ interrupted' PROVE Sound(a)'
    OBVIOUS
  <2>1. LinksOK /\ Sound(a) /\ n \in Queued /\ Place \in {"idle", "check"}
    <3>1. LinksOK /\ Sound(a) /\ Place \in {"idle", "check"}
      BY <1>1, <1>2, OneIdle, Sets DEF Walks, Place
    <3> QED BY <1>1, <3>1, Sets DEF Sound, Ahead
  <2>2. PICK x \in Index : x = key[n] /\ n \in In(x)
    BY <2>1 DEF Types, In
  <2>3. Doubly(front[x], rear[x], In(x))
    BY <2>1, <2>2 DEF LinksOK, Halves
  <2>4. next[n] = NULL \/ next[n] \in Queued
    BY <2>2, <2>3 DEF Doubly, In
  <2>5. Used(temp[a])'
    BY <1>1 DEF Used, listVars
  <2> QED BY <1>1, <1>4, <2>4, <2>5, Kept DEF Sound, Halves
<1>7. a = "handler" => Passes'
  <2> SUFFICES ASSUME a = "handler", Place' \in Unlinked, Used(It)' PROVE Passes'
    BY DEF Passes
  <2>1. Place' = Place /\ It' = It /\ Used(It)
    BY <1>1, Sets DEF Place, It, Used, listVars
  <2>2. n # It /\ n \in Queued
    BY <1>1, <2>1, Sets DEF Passes, Ahead, Walked, Queued, Used
  <2> QED BY <1>1, <1>4, <2>1, <2>2, NotOut DEF Passes
<1> QED BY <1>1, <1>2, <1>3, <1>5, <1>6, <1>7, WalkStep

\* A collision ends the walk, and so does the RTS.
LEMMA EndStep ==
  ASSUME LInv, NEW a \in Actor, Collide(a) \/ WriteRTS(a), Interrupts, UNCHANGED fault
  PROVE  LInv'
<1>1. /\ pc[a] \in {"check", "clear"} /\ pc'[a] = "idle" /\ i'[a] = 0
      /\ UNCHANGED listVars /\ 0 \in Index
      /\ \A b \in Actor \ {a} : /\ pc'[b] = pc[b] /\ checked'[b] = checked[b]
                                /\ temp'[b] = temp[b] /\ i'[b] = i[b]
  BY SizeAssumption DEF Collide, WriteRTS, Return, At, GoTo, LInv, Types, Index
<1>2. Walks(a)
  BY <1>1, Sets DEF Collide, WriteRTS, Walks, Settled, At, Place, LInv, Types
<1>3. Types'
  <2>1. Looks(a, Settled \ {"not_only", "not_last", "close", "closed"})
    BY <1>1 DEF Looks, Settled, LInv, Types, Collide, WriteRTS, Return, GoTo, Pointer
  <2> QED BY <1>1, <1>2, <2>1, WalkTypes
<1>4. Walking(a)' /\ Sound(a)'
  BY <1>1 DEF Walking, Sound, Walked, Cases, Halves
<1>5. a = "handler" => Passes'
  BY <1>1 DEF Passes, Walked, Cases, Halves
<1> QED BY <1>1, <1>2, <1>3, <1>4, <1>5, WalkStep

\* The read of next, of a node that may be freed.
LEMMA AdvanceStep ==
  ASSUME LInv, NEW a \in Actor, Advance(a), Interrupts, UNCHANGED fault
  PROVE  LInv'
<1> USE DEF LInv
<1>1. /\ pc[a] = "next" /\ pc'[a] = "check" /\ temp'[a] = next[temp[a]] /\ i' = i
      /\ checked' = checked /\ UNCHANGED listVars /\ temp[a] \in Node
      /\ \A b \in Actor \ {a} : pc'[b] = pc[b] /\ temp'[b] = temp[b]
  BY DEF Advance, At, GoTo, Types, Walking, Walked
<1>2. Walks(a)
  BY <1>1, Sets DEF Advance, Walks, Settled, At, Place, Types
<1>3. Types'
  <2>1. Looks(a, Settled \ {"not_only", "not_last", "close", "closed"})
    BY <1>1 DEF Looks, Settled, LInv, Types, Advance, GoTo, Walked
  <2> QED BY <1>1, <1>2, <2>1, WalkTypes
<1>4. Calm /\ Ahead(a)' = Ahead(a)
  <2>1. Calm
    BY <1>1, <1>2, Sets DEF Calm, Place, It, Settled, Walks
  <2> QED BY <1>1, <2>1 DEF Ahead, listVars
<1>5. Walking(a)'
  <2>1. Covers(Ahead(a), i[a], checked[a])'
    <3>1. Covers(Ahead(a), i[a], checked[a])
      BY <1>1 DEF Walking, Walked
    <3> QED BY <1>1, <1>4, <3>1, Kept DEF Covers
  <2>2. \A x \in Index : x < i[a] => In(x) \subseteq checked[a]
    BY <1>1 DEF Walking, Walked
  <2> QED BY <1>1, <2>1, <2>2, <1>4, Kept DEF Walking
<1>6. ~ interrupted' => Sound(a)'
  BY <1>1, <1>4, OneIdle, Kept DEF Sound, Halves
<1>7. a = "handler" => Passes'
  <2> SUFFICES ASSUME a = "handler", Place' \in Unlinked, Used(It)' PROVE Passes'
    BY DEF Passes
  <2>1. Place' = Place /\ It' = It /\ Used(It)
    BY <1>1, Sets DEF Place, It, Used, listVars
  <2> QED BY <1>1, <1>4, <2>1 DEF Passes, Walked
<1> QED BY <1>1, <1>2, <1>3, <1>5, <1>6, <1>7, WalkStep

\* The end of a list: all its nodes are checked.
LEMMA NextListStep ==
  ASSUME LInv, NEW a \in Actor, NextList(a), Interrupts, UNCHANGED fault
  PROVE  LInv'
<1> USE DEF LInv
<1>1. /\ pc[a] = "check" /\ temp[a] = NULL /\ checked' = checked /\ UNCHANGED listVars
      /\ \A b \in Actor \ {a} : pc'[b] = pc[b] /\ temp'[b] = temp[b] /\ i'[b] = i[b]
      /\ pc'[a] \in {"check", "clear"}
  BY DEF NextList, At, GoTo, Types
<1>2. Walks(a)
  BY <1>1, Sets DEF NextList, Walks, Settled, At, Place, Types
<1>3. Calm
  BY <1>1, <1>2, Sets DEF Calm, Place, It, Settled, Walks
<1>4. i[a] \in Index /\ \A x \in Index : x \in Int
  BY DEF Types, Index
<1>5. i[a] < DELAY_MAP_SIZE - 1 => i[a] + 1 \in Index
  BY <1>4, SizeAssumption DEF Index
<1>6. \A x \in Index : x < i[a] + 1 => In(x) \subseteq checked[a]
  <2>1. Covers(NULL, i[a], checked[a])
    BY <1>1, NullAssumption DEF Walking, Ahead, Walked
  <2>2. In(i[a]) \subseteq checked[a]
    BY <1>4, <2>1, Exhausted
  <2>3. \A x \in Index : x < i[a] + 1 => x < i[a] \/ x = i[a]
    BY <1>4
  <2> QED BY <1>1, <2>2, <2>3 DEF Walking, Walked
<1>7. CASE i[a] < DELAY_MAP_SIZE - 1
  <2>1. /\ pc' = pc /\ i'[a] = i[a] + 1 /\ temp'[a] = front[i[a] + 1]
    BY <1>7 DEF NextList, Types
  <2>2. Types'
    <3>1. i' \in [Actor -> Index] /\ temp' \in [Actor -> Pointer]
      BY <1>5, <1>7, <2>1 DEF NextList, Types
    <3>2. Looks(a, Settled \ {"not_only", "not_last", "close", "closed"})
      BY <1>1, <2>1, <3>1 DEF Looks, Settled, Types
    <3> QED BY <1>1, <1>2, <3>2, WalkTypes
  <2>3. Ahead(a)' = front[i[a] + 1]
    BY <1>1, <2>1 DEF Ahead
  <2>4. Walking(a)'
    <3>1. Covers(front[i[a] + 1], i[a] + 1, checked[a])
      BY <1>5, <1>7 DEF Sturdy, Reached, Covers
    <3>2. Covers(Ahead(a), i[a], checked[a])'
      BY <1>1, <1>3, <2>1, <2>3, <3>1, Kept DEF Covers
    <3> QED BY <1>1, <1>3, <1>6, <2>1, <3>2, Kept DEF Walking
  <2>5. ~ interrupted' => Sound(a)'
    <3> SUFFICES ASSUME ~ interrupted' PROVE Sound(a)'
      OBVIOUS
    <3>1. LinksOK /\ Place \in {"idle", "check"}
      BY <1>1, <1>2, OneIdle, Sets DEF Walks, Place
    <3>2. PICK x \in Index : x = i[a] + 1
      BY <1>5, <1>7
    <3>3. Doubly(front[x], rear[x], In(x))
      BY <3>1, <3>2 DEF LinksOK, Halves
    <3>4. front[x] = NULL \/ front[x] \in Queued
      BY <3>3 DEF Doubly, In
    <3> QED BY <1>1, <1>3, <2>1, <2>3, <3>2, <3>4, Kept DEF Sound, Halves
  <2>6. a = "handler" => Passes'
    <3> SUFFICES ASSUME a = "handler", Place' \in Unlinked, Used(It)' PROVE Passes'
      BY DEF Passes
    <3>1. Place' = Place /\ It' = It /\ Used(It)
      BY <1>1, Sets DEF Place, It, Used, listVars
    <3> QED BY <1>1, <1>5, <1>7, <2>1, <2>3, <3>1, NotOut DEF Passes
  <2> QED BY <1>1, <1>2, <2>2, <2>4, <2>5, <2>6, WalkStep
<1>8. CASE ~ (i[a] < DELAY_MAP_SIZE - 1)
  <2>1. pc'[a] = "clear" /\ i' = i /\ temp' = temp
    BY <1>8 DEF NextList, GoTo, Types
  <2>2. Types'
    <3>1. Looks(a, Settled \ {"not_only", "not_last", "close", "closed"})
      BY <1>1, <1>8, <2>1 DEF Looks, Settled, Types, NextList, GoTo
    <3> QED BY <1>1, <1>2, <3>1, WalkTypes
  <2>3. \A x \in Index : x < i[a] + 1
    BY <1>4, <1>8, SizeAssumption DEF Index
  <2>4. Sound(a)' /\ Walking(a)'
    BY <1>1, <1>3, <1>6, <2>1, <2>3, Kept DEF Sound, Walking, Walked, Cases, Halves
  <2>5. a = "handler" => Passes'
    BY <2>1 DEF Passes, Walked, Cases, Halves
  <2> QED BY <1>1, <1>2, <2>2, <2>4, <2>5, WalkStep
<1> QED BY <1>7, <1>8

----------------------------------------------------------------------------
(***************************************************************************)
(* Node d of a list is deleted by the handler, wherever main is, or by     *)
(* del_dly_map.                                                            *)
(***************************************************************************)
Takes(d) == DelCollNode(d) /\ d \in Queued /\ Place' = Place /\ It' = It

LEMMA Taken ==
  ASSUME Types, Sturdy, NEW d \in Node, Takes(d)
  PROVE  /\ d \in Queued /\ d # NULL
         /\ Place \in Unlinked => d # It
         /\ prior[d] # NULL => prior[d] \in Allocated /\ Leads(prior[d], d)
         /\ next[d] # NULL => next[d] \in Allocated
         /\ \A n \in Node : next'[n] = IF n = prior[d] THEN next[d] ELSE next[n]
         /\ \A n \in Node : prior'[n] = IF n = next[d] THEN prior[d] ELSE prior[n]
         /\ \A x \in Index : front'[x] = IF x = key[d] /\ prior[d] = NULL THEN next[d]
                                         ELSE front[x]
         /\ \A x \in Index : rear'[x] = IF x = key[d] /\ next[d] = NULL THEN prior[d]
                                        ELSE rear[x]
         /\ \A n \in Node : heap'[n] = IF n = d THEN "freed" ELSE heap[n]
         /\ key' = key /\ key[d] \in Index
         /\ Allocated' = Allocated \ {d} /\ Freed' = Freed \cup {d}
         /\ Queued' = Queued \ {d}
         /\ \A x : In(x)' = In(x) \ {d}
         /\ Place' = Place /\ It' = It /\ Its' = Its
         /\ Used(It)' <=> Used(It) /\ It # d
<1>1. heap[d] = "used"
  BY DEF Takes, DelCollNode, Used
<1>2. d \in Queued /\ d # NULL /\ (Place \in Unlinked => d # It)
  BY NullAssumption DEF Takes, Queued
<1>3. /\ prior[d] # NULL => prior[d] \in Allocated
      /\ next[d] # NULL => next[d] \in Allocated
  BY DEF Takes, DelCollNode, Neighbours, Used, Allocated
<1>4. prior[d] # NULL => Leads(prior[d], d)
  BY <1>2, <1>3 DEF Sturdy, PriorOK
<1>5. \A n \in Node : heap'[n] = IF n = d THEN "freed" ELSE heap[n]
  BY DEF Takes, DelCollNode, Types
<1>6. /\ \A n : n \in Allocated' <=> n \in Allocated \ {d}
      /\ \A n : n \in Freed' <=> n \in Freed \cup {d}
  BY <1>5 DEF Allocated, Freed
<1>7. key' = key /\ key[d] \in Index /\ Place' = Place /\ It' = It /\ Its' = Its
  BY DEF Takes, DelCollNode, Types, Its
<1>8. \A n : n \in Queued' <=> n \in Queued \ {d}
  BY <1>6, <1>7 DEF Queued
<1>9. \A x : In(x)' = In(x) \ {d}
  BY <1>7, <1>8 DEF In
<1>10. /\ \A n \in Node : next'[n] = IF n = prior[d] THEN next[d] ELSE next[n]
       /\ \A n \in Node : prior'[n] = IF n = next[d] THEN prior[d] ELSE prior[n]
       /\ \A x \in Index : front'[x] = IF x = key[d] /\ prior[d] = NULL THEN next[d]
                                       ELSE front[x]
       /\ \A x \in Index : rear'[x] = IF x = key[d] /\ next[d] = NULL THEN prior[d]
                                      ELSE rear[x]
  BY DEF Takes, DelCollNode, Unlink, Types
<1>11. Used(It)' <=> Used(It) /\ It # d
  BY <1>5, <1>7 DEF Used
<1> QED BY <1>2, <1>3, <1>4, <1>5, <1>6, <1>7, <1>8, <1>9, <1>10, <1>11

\* The freed nodes between the one before d and d.
LEMMA Between ==
  ASSUME Types, Sturdy, NEW d \in Node, Takes(d)
  PROVE  \E F \in SUBSET Freed :
           /\ prior[d] # NULL => next[prior[d]] \in F \cup {d}
           /\ \A f \in F : next[f] \in F \cup {d}
<1>1. CASE prior[d] = NULL
  <2>1. {} \in SUBSET Freed /\ \A f \in {} : next[f] \in {} \cup {d}
    OBVIOUS
  <2> QED BY <1>1, <2>1
<1>2. CASE prior[d] # NULL
  <2>1. Leads(prior[d], d)
    BY <1>2, Taken
  <2> QED BY <1>2, <2>1 DEF Leads
<1> QED BY <1>1, <1>2

\* No node from which one is at the end is before d.
LEMMA NotBefore ==
  ASSUME Types, Sturdy, NEW d \in Node, Takes(d), NEW n \in Node, next[n] = NULL
  PROVE  n # prior[d] /\ next'[n] = NULL
<1>1. n # prior[d]
  <2> SUFFICES ASSUME n = prior[d] PROVE FALSE
    OBVIOUS
  <2>1. Leads(n, d)
    BY Sets, Taken
  <2> QED BY <2>1, Sets, Taken DEF Leads
<1> QED BY <1>1, Taken

\* What next of another node than the one before d gets to.
LEMMA LeadsKept ==
  ASSUME Types, Sturdy, NEW d \in Node, Takes(d),
         NEW p \in Node, p # prior[d], NEW q, Leads(p, q)
  PROVE  Leads(p, q)'
<1>1. PICK F \in SUBSET Freed : /\ next[p] \in F \cup {q}
                                /\ \A f \in F : next[f] \in F \cup {q}
  BY DEF Leads
<1>2. F \in SUBSET Freed'
  BY Taken
<1>3. \A f \in F : f \in Node /\ f # prior[d]
  BY Taken, Sets
<1>4. next'[p] = next[p] /\ \A f \in F : next'[f] = next[f]
  BY <1>3, Taken
<1> QED BY <1>1, <1>2, <1>4 DEF Leads

\* What gets to d gets to the node behind it.
LEMMA LeadsOn ==
  ASSUME Types, Sturdy, NEW d \in Node, Takes(d),
         NEW p \in Node, p # prior[d], Leads(p, d), NEW q, q = next[d]
  PROVE  Leads(p, q)'
<1>1. PICK F \in SUBSET Freed : /\ next[p] \in F \cup {d}
                                /\ \A f \in F : next[f] \in F \cup {d}
  BY DEF Leads
<1> DEFINE G == F \cup {d}
<1>2. G \in SUBSET Freed'
  BY Taken
<1>3. \A f \in F : f \in Node /\ f # prior[d]
  BY Taken, Sets
<1>4. next'[p] = next[p] /\ next'[d] = q /\ \A f \in F : next'[f] = next[f]
  BY <1>3, Taken
<1>5. next'[p] \in G \cup {q} /\ \A g \in G : next'[g] \in G \cup {q}
  BY <1>1, <1>4
<1> QED BY <1>2, <1>5 DEF Leads

\* What one meets from any place one meets without d, too.
LEMMA TakenCovers ==
  ASSUME Types, Sturdy, NEW d \in Node, Takes(d), NEW pos, NEW x, NEW C,
         Covers(pos, x, C)
  PROVE  Covers(pos, x, C)'
<1> SUFFICES ASSUME NEW S \in SUBSET Node, HoldsNext(S)', pos \in S \cup {NULL}
             PROVE  In(x)' \subseteq S \cup C
  BY DEF Covers
<1>1. \A n \in S : next'[n] \in S \cup {NULL}
  BY DEF HoldsNext
<1>2. CASE prior[d] \notin S
  <2>1. HoldsNext(S)
    BY <1>1, <1>2, Taken DEF HoldsNext
  <2> QED BY <2>1, Taken DEF Covers
<1>3. CASE prior[d] \in S
  <2>1. PICK F \in SUBSET Freed : /\ prior[d] # NULL => next[prior[d]] \in F \cup {d}
                                  /\ \A f \in F : next[f] \in F \cup {d}
    BY Between
  <2> DEFINE T == S \cup F \cup {d}
  <2>2. next[d] \in S \cup {NULL} /\ prior[d] # NULL
    BY <1>1, <1>3, Taken, NullAssumption
  <2>3. \A n \in S : next[n] \in T \cup {NULL}
    BY <1>1, <2>1, <2>2, Taken
  <2>4. HoldsNext(T) /\ T \in SUBSET Node
    BY <2>1, <2>2, <2>3, Sets DEF HoldsNext
  <2>5. In(x) \subseteq T \cup C
    BY <2>4 DEF Covers
  <2>6. \A n \in In(x) : n \notin F
    BY Sets DEF In
  <2> QED BY <2>5, <2>6, Taken
<1> QED BY <1>2, <1>3

\* What one meets from d, or from next of the node before it, one meets from the
\* node behind it.
LEMMA TakenPast ==
  ASSUME Types, Sturdy, NEW d \in Node, Takes(d), NEW pos, NEW x, NEW C,
         Covers(pos, x, C), pos = d \/ (prior[d] # NULL /\ pos = next[prior[d]]),
         NEW q, q = next[d]
  PROVE  Covers(q, x, C)'
<1> SUFFICES ASSUME NEW S \in SUBSET Node, HoldsNext(S)', q \in S \cup {NULL}
             PROVE  In(x)' \subseteq S \cup C
  BY DEF Covers
<1>1. \A n \in S : next'[n] \in S \cup {NULL}
  BY DEF HoldsNext
<1>2. PICK F \in SUBSET Freed : /\ prior[d] # NULL => next[prior[d]] \in F \cup {d}
                                /\ \A f \in F : next[f] \in F \cup {d}
  BY Between
<1> DEFINE T == S \cup F \cup {d}
<1>3. \A n \in S : next[n] \in T \cup {NULL}
  BY <1>1, <1>2, Taken, NullAssumption
<1>4. HoldsNext(T) /\ T \in SUBSET Node
  BY <1>2, <1>3, Sets DEF HoldsNext
<1>5. pos \in T
  BY <1>2
<1>6. In(x) \subseteq T \cup C
  BY <1>4, <1>5 DEF Covers
<1>7. \A n \in In(x) : n \notin F
  BY Sets DEF In
<1> QED BY <1>6, <1>7, Taken

LEMMA TakenReached ==
  ASSUME Types, Sturdy, NEW d \in Node, Takes(d)
  PROVE  Reached' /\ SameList'
<1>1. ASSUME NEW x \in Index PROVE Covers(front[x], x, {})'
  <2>1. Covers(front[x], x, {})
    BY DEF Sturdy, Reached
  <2>2. PICK p, q : p = front[x] /\ q = front'[x]
    OBVIOUS
  <2>3. Covers(q, x, {})'
    <3>1. CASE x = key[d] /\ prior[d] = NULL
      <4>1. p = d /\ q = next[d]
        BY <2>2, <3>1, Taken DEF Sturdy, PriorOK
      <4> QED BY <2>1, <2>2, <4>1, TakenPast
    <3>2. CASE ~ (x = key[d] /\ prior[d] = NULL)
      <4>1. q = p
        BY <2>2, <3>2, Taken
      <4> QED BY <2>1, <2>2, <4>1, TakenCovers
    <3> QED BY <3>1, <3>2
  <2> QED BY <2>2, <2>3 DEF Covers
<1>2. SameList'
  <2>1. /\ \A n \in Node : /\ prior[n] # NULL => key[prior[n]] = key[n]
                           /\ next[n] # NULL => key[next[n]] = key[n]
        /\ \A x \in Index : /\ front[x] # NULL => key[front[x]] = x
                            /\ rear[x] # NULL => key[rear[x]] = x
    BY DEF Sturdy, SameList
  <2>2. /\ \A n \in Node : /\ prior'[n] # NULL => key[prior'[n]] = key[n]
                           /\ next'[n] # NULL => key[next'[n]] = key[n]
        /\ \A x \in Index : /\ front'[x] # NULL => key[front'[x]] = x
                            /\ rear'[x] # NULL => key[rear'[x]] = x
    BY <2>1, Taken, Sets
  <2> QED BY <2>2, Taken DEF SameList
<1> QED BY <1>1, <1>2 DEF Reached

LEMMA TakenFresh ==
  ASSUME Types, Sturdy, NEW d \in Node, Takes(d)
  PROVE  Fresh'
<1>1. ASSUME NEW n \in Node, Apart(n), n # d PROVE Apart(n)'
  <2>1. n # prior[d] /\ n # next[d] /\ n # NULL
    BY <1>1, Sets DEF Apart
  <2> QED BY <1>1, <2>1, Taken DEF Apart
<1>2. ASSUME NEW n \in Node, heap'[n] = "unused" PROVE Apart(n)' /\ prior'[n] = NULL
  <2>1. heap[n] = "unused" /\ n # d
    BY <1>2, Taken
  <2>2. Apart(n) /\ prior[n] = NULL
    BY <2>1 DEF Sturdy, Fresh
  <2>3. n # next[d]
    BY <2>2 DEF Apart
  <2> QED BY <1>1, <2>1, <2>2, <2>3, Taken
<1>3. ASSUME Place' \in Early PROVE Used(It)' /\ Apart(It)'
  <2>1. Place \in Early /\ Place \in Unlinked
    BY <1>3, Taken DEF Early, Unlinked
  <2>2. PICK n \in Node : n = It /\ n # d /\ Apart(n)
    BY <2>1, Taken DEF Sturdy, Fresh, Used
  <2>3. Apart(n)'
    BY <1>1, <2>2
  <2>4. Used(It)
    BY <2>1 DEF Sturdy, Fresh
  <2> QED BY <2>2, <2>3, <2>4, Taken DEF Apart
<1> QED BY <1>2, <1>3 DEF Fresh

LEMMA TakenPrior ==
  ASSUME Types, Sturdy, NEW d \in Node, Takes(d)
  PROVE  PriorOK'
<1>0. /\ d \in Queued /\ \A n \in Queued' : n \in Queued /\ n # d /\ n \in Node
      /\ next[d] # NULL => key[next[d]] = key[d]
  BY Taken, Sets DEF Sturdy, SameList
<1>1. ASSUME NEW n \in Queued', prior'[n] = NULL
      PROVE  front'[key'[n]] = n /\ ~ (Place' = "head_prior" /\ key'[n] = Its')
  <2>1. key[n] \in Index /\ key'[n] = key[n]
    BY <1>0, Taken DEF Types
  <2>2. CASE n = next[d]
    <3>1. prior[d] = NULL /\ key[n] = key[d]
      BY <1>0, <1>1, <2>2, Taken, NullAssumption
    <3>2. ~ (Place = "head_prior" /\ key[d] = Its)
      BY <1>0, <3>1 DEF Sturdy, PriorOK
    <3> QED BY <2>1, <2>2, <3>1, <3>2, Taken
  <2>3. CASE n # next[d]
    <3>1. prior[n] = NULL
      BY <1>0, <1>1, <2>3, Taken
    <3>2. front[key[n]] = n /\ ~ (Place = "head_prior" /\ key[n] = Its)
      BY <1>0, <3>1 DEF Sturdy, PriorOK
    <3>3. prior[d] = NULL => front[key[d]] = d
      BY <1>0 DEF Sturdy, PriorOK
    <3> QED BY <1>0, <2>1, <3>2, <3>3, Taken
  <2> QED BY <2>2, <2>3
<1>2. ASSUME NEW n \in Queued', prior'[n] \in Allocated' PROVE Leads(prior[n], n)'
  <2>1. PICK a \in Allocated : a = prior'[n] /\ a # d /\ a \in Node
    BY <1>2, Taken, Sets
  <2>2. CASE n = next[d]
    <3>1. a = prior[d] /\ next'[a] = n
      BY <1>0, <2>1, <2>2, Taken
    <3>2. {} \in SUBSET Freed' /\ next'[prior'[n]] \in {} \cup {n}
      BY <2>1, <3>1
    <3> QED BY <3>2 DEF Leads
  <2>3. CASE n # next[d]
    <3>1. a = prior[n] /\ Leads(a, n)
      BY <1>0, <2>1, <2>3, Taken DEF Sturdy, PriorOK
    <3>2. a # prior[d]
      BY <1>0, <2>1, <3>1 DEF Sturdy, PriorOK
    <3>3. Leads(a, n)'
      BY <2>1, <3>1, <3>2, LeadsKept
    <3> QED BY <2>1, <3>3 DEF Leads
  <2> QED BY <2>2, <2>3
<1>3. ASSUME NEW m \in Queued', NEW n \in Queued', prior'[m] = prior'[n],
             prior'[m] \in Allocated'
      PROVE  m = n
  <2>1. prior'[m] \in Allocated
    BY <1>3, Taken
  <2>2. \A p, q \in Queued : prior[p] = prior[q] /\ prior[p] \in Allocated => p = q
    BY DEF Sturdy, PriorOK
  <2> QED BY <1>0, <1>3, <2>1, <2>2, Taken
<1> QED BY <1>1, <1>2, <1>3 DEF PriorOK

\* Nodes in the same list with the same next are one.
LEMMA OneNext ==
  ASSUME Sturdy
  PROVE  /\ \A m, n \in Queued : next[m] = next[n] /\ next[m] \in Queued => m = n
         /\ \A m, n \in Queued : next[m] = NULL /\ next[n] = NULL /\ key[m] = key[n] => m = n
         /\ \A m, n \in Queued : next[m] = n /\ prior[n] \in Queued \cup {NULL} => prior[n] = m
<1>1. \A m \in Queued : next[m] \in Queued => key[m] = key[next[m]]
  BY Sets DEF Sturdy, SameList
<1>2. /\ \A m, n \in Queued : next[m] = next[n] /\ key[m] = key[n]
                               /\ next[m] \in Queued \cup {NULL} => m = n
      /\ \A m, n \in Queued : next[m] = n /\ prior[n] \in Queued \cup {NULL} => prior[n] = m
  BY DEF Sturdy, NextOK
<1>3. ASSUME NEW m \in Queued, NEW n \in Queued, next[m] = next[n], next[m] \in Queued
      PROVE  m = n
  <2>1. key[m] = key[n]
    BY <1>1, <1>3
  <2> QED BY <1>2, <1>3, <2>1
<1>4. ASSUME NEW m \in Queued, NEW n \in Queued, next[m] = NULL, next[n] = NULL,
             key[m] = key[n]
      PROVE  m = n
  <2>1. next[m] = next[n] /\ next[m] \in Queued \cup {NULL}
    BY <1>4
  <2> QED BY <1>2, <1>4, <2>1
<1>5. \A m, n \in Queued : next[m] = next[n] /\ next[m] \in Queued => m = n
  BY <1>3
<1>6. \A m, n \in Queued : next[m] = NULL /\ next[n] = NULL /\ key[m] = key[n] => m = n
  BY <1>4
<1>7. \A m, n \in Queued : next[m] = n /\ prior[n] \in Queued \cup {NULL} => prior[n] = m
  BY <1>2
<1> QED BY <1>5, <1>6, <1>7

LEMMA TakenNext ==
  ASSUME Types, Sturdy, NEW d \in Node, Takes(d)
  PROVE  NextOK'
<1>1. /\ \A m, n \in Queued : next[m] = next[n] /\ next[m] \in Queued => m = n
      /\ \A m, n \in Queued : next[m] = NULL /\ next[n] = NULL /\ key[m] = key[n] => m = n
      /\ \A m, n \in Queued : next[m] = n /\ prior[n] \in Queued \cup {NULL} => prior[n] = m
  BY OneNext
<1>2. /\ d \in Queued /\ \A n \in Queued' : n \in Queued /\ n # d /\ n \in Node
      /\ prior[d] # NULL => key[prior[d]] = key[d]
  BY Taken, Sets DEF Sturdy, SameList
<1>3. ASSUME NEW m \in Queued', NEW n \in Queued', next'[m] = next'[n], key'[m] = key'[n],
             next'[m] \in Queued' \cup {NULL}
      PROVE  m = n
  <2>1. next'[m] \in Queued \cup {NULL} /\ key[m] = key[n]
    BY <1>2, <1>3, Taken
  <2>2. /\ next'[m] = IF m = prior[d] THEN next[d] ELSE next[m]
        /\ next'[n] = IF n = prior[d] THEN next[d] ELSE next[n]
    BY <1>2, Taken
  <2>3. NULL \notin Queued
    BY Sets
  <2>4. \A p, q \in Queued' : p = prior[d] /\ q # p /\ next'[p] = next'[q]
                                /\ key[p] = key[q] => next'[p] \notin Queued \cup {NULL}
    <3> SUFFICES ASSUME NEW p \in Queued', NEW q \in Queued', p = prior[d], q # p,
                        next[d] = next[q], key[p] = key[q], next[d] \in Queued \cup {NULL}
                 PROVE  FALSE
      BY <1>2, Taken
    <3>1. p # NULL /\ key[q] = key[d]
      BY <1>2, Sets, Taken
    <3>2. q = d
      BY <1>1, <1>2, <3>1
    <3> QED BY <1>2, <3>2
  <2>5. CASE m = prior[d]
    BY <1>2, <1>3, <2>1, <2>4, <2>5
  <2>6. CASE n = prior[d]
    BY <1>2, <1>3, <2>1, <2>4, <2>6
  <2>7. CASE m # prior[d] /\ n # prior[d]
    <3>1. next[m] = next[n] /\ next[m] \in Queued \cup {NULL} /\ m \in Queued /\ n \in Queued
      BY <1>2, <1>3, <2>1, <2>2, <2>7
    <3>2. CASE next[m] = NULL
      BY <1>1, <2>1, <3>1, <3>2
    <3>3. CASE next[m] \in Queued
      BY <1>1, <3>1, <3>3
    <3> QED BY <3>1, <3>2, <3>3
  <2> QED BY <2>5, <2>6, <2>7
<1>4. ASSUME NEW m \in Queued', NEW n \in Queued', next'[m] = n,
             prior'[n] \in Queued' \cup {NULL}
      PROVE  prior'[n] = m
  <2>1. /\ next'[m] = IF m = prior[d] THEN next[d] ELSE next[m]
        /\ prior'[n] = IF n = next[d] THEN prior[d] ELSE prior[n]
    BY <1>2, Taken
  <2> QED BY <1>1, <1>2, <1>4, <2>1
<1> QED BY <1>3, <1>4 DEF NextOK

LEMMA TakenFront ==
  ASSUME Types, Sturdy, NEW d \in Node, Takes(d)
  PROVE  FrontOK'
<1> SUFFICES ASSUME NEW x \in Index, front'[x] \in Queued'
             PROVE  /\ prior'[front'[x]] \notin Queued'
                    /\ \A n \in Queued' : next'[n] # front'[x]
  BY DEF FrontOK
<1>1. /\ d \in Queued /\ \A n \in Queued' : n \in Queued /\ n # d /\ n \in Node
      /\ NULL \notin Queued'
  BY Taken, Sets
<1>2. PICK h \in Queued : h = front'[x] /\ h # d /\ h \in Node
  BY <1>1
<1>3. CASE x = key[d] /\ prior[d] = NULL
  <2>1. h = next[d] /\ prior'[h] = NULL
    BY <1>2, <1>3, Taken
  <2>2. \A n \in Queued' : next'[n] # h
    BY <1>1, <1>2, <1>3, <2>1, OneNext, Taken, NullAssumption
  <2> QED BY <1>1, <1>2, <2>1, <2>2
<1>4. CASE ~ (x = key[d] /\ prior[d] = NULL)
  <2>1. h = front[x] /\ prior[h] \notin Queued /\ \A n \in Queued : next[n] # h
    BY <1>2, <1>4, Taken DEF Sturdy, FrontOK
  <2>2. prior'[h] = prior[h]
    BY <1>1, <1>2, <2>1, Taken
  <2> QED BY <1>1, <1>2, <2>1, <2>2, Taken
<1> QED BY <1>3, <1>4

LEMMA TakenRear ==
  ASSUME Types, Sturdy, NEW d \in Node, Takes(d)
  PROVE  RearOK'
<1> SUFFICES ASSUME NEW x \in Index
             PROVE  /\ rear'[x] = NULL /\ ~ (Place' \in {"add_first", "last_next"} /\ x = Its')
                         => In(x)' = {}
                    /\ rear'[x] \in Allocated'
                         /\ ~ (Place' \in {"add_first", "add_rear", "last_next"} /\ x = Its')
                         => next'[rear'[x]] = NULL
  BY DEF RearOK
<1>1. CASE x = key[d] /\ next[d] = NULL
  <2>1. rear'[x] = prior[d]
    BY <1>1, Taken
  <2>2. ASSUME rear'[x] = NULL PROVE In(x)' = {}
    <3>1. front[x] = d
      BY <1>1, <2>1, <2>2, Taken DEF Sturdy, PriorOK
    <3>2. HoldsNext({d}) /\ {d} \in SUBSET Node /\ front[x] \in {d} \cup {NULL}
      BY <1>1, <3>1 DEF HoldsNext
    <3>3. In(x) \subseteq {d}
      BY <3>2 DEF Sturdy, Reached, Covers
    <3> QED BY <3>3, Taken
  <2>3. ASSUME rear'[x] \in Allocated' PROVE next'[rear'[x]] = NULL
    BY <1>1, <2>1, <2>3, Taken, Sets
  <2> QED BY <2>2, <2>3
<1>2. CASE ~ (x = key[d] /\ next[d] = NULL)
  <2>1. rear'[x] = rear[x]
    BY <1>2, Taken
  <2>2. ASSUME rear[x] = NULL, ~ (Place' \in {"add_first", "last_next"} /\ x = Its')
        PROVE  In(x)' = {}
    <3>1. In(x) = {}
      BY <2>2, Taken DEF Sturdy, RearOK
    <3> QED BY <3>1, Taken
  <2>3. ASSUME rear[x] \in Allocated',
               ~ (Place' \in {"add_first", "add_rear", "last_next"} /\ x = Its')
        PROVE  next'[rear[x]] = NULL
    <3>1. rear[x] \in Node /\ next[rear[x]] = NULL
      BY <2>3, Taken, Sets DEF Sturdy, RearOK
    <3> QED BY <3>1, NotBefore
  <2> QED BY <2>1, <2>2, <2>3
<1> QED BY <1>1, <1>2

LEMMA TakenAdd ==
  ASSUME Types, Sturdy, NEW d \in Node, Takes(d)
  PROVE  AddOK'
<1>1. /\ d \in Queued /\ Place' = Place /\ It' = It /\ Its' = Its
      /\ Place \in Unlinked => d # It
      /\ Place \in Adding => It \in Node /\ It # NULL /\ Its \in Index
      /\ next[d] # NULL => key[next[d]] = key[d]
      /\ \A x : In(x)' = In(x) \ {d}
      /\ key[d] \in Index /\ d \in In(key[d])
  BY Taken, Sets DEF Sturdy, SameList, Types, Its, In
<1>2. ASSUME Place' = "add_front" PROVE In(Its)' = {} /\ prior'[It'] = NULL
  <2>1. Apart(It) /\ In(Its) = {} /\ prior[It] = NULL /\ It \in Node
    BY <1>1, <1>2 DEF Sturdy, Fresh, AddOK, Early, Adding
  <2>2. It # next[d]
    BY <2>1 DEF Apart
  <2>3. In(Its') \ {d} = {} /\ Its' = Its
    BY <1>1, <2>1
  <2>4. In(Its)' = {}
    BY <1>1, <2>3, Taken DEF In
  <2> QED BY <1>1, <2>1, <2>2, <2>4, Taken
<1>3. ASSUME Place' = "add_first"
      PROVE  /\ In(Its)' \subseteq {It'}
             /\ IF Used(It)' THEN front'[Its'] = It' /\ prior'[It'] = NULL /\ next'[It'] = NULL
                             ELSE front'[Its'] = NULL
  <2>1. /\ In(Its) \subseteq {It} /\ It \in Node /\ Its \in Index
        /\ IF Used(It) THEN front[Its] = It /\ prior[It] = NULL /\ next[It] = NULL
                       ELSE front[Its] = NULL
    BY <1>1, <1>3 DEF Sturdy, AddOK, Adding
  <2>2. In(Its)' \subseteq {It'}
    BY <1>1, <2>1, Taken DEF In
  <2>3. CASE It = d
    <3>1. ~ Used(It)' /\ Used(It)
      BY <1>1, <2>3, Sets, Taken
    <3>2. prior[d] = NULL /\ next[d] = NULL /\ key[d] = Its
      BY <2>1, <2>3, <3>1 DEF Its
    <3> QED BY <1>1, <2>1, <2>2, <3>1, <3>2, Taken
  <2>4. CASE It # d
    <3>1. Used(It)' <=> Used(It)
      BY <2>4, Taken
    <3>2. key[d] # Its
      BY <1>1, <2>1, <2>4
    <3>3. It # next[d]
      BY <1>1, <2>1, <3>2, Sets DEF Its
    <3>4. Used(It) => next'[It] = NULL /\ prior'[It] = NULL
      BY <2>1, <3>3, NotBefore, Taken
    <3>5. front'[Its] = front[Its]
      BY <2>1, <3>2, Taken
    <3> QED BY <1>1, <2>1, <2>2, <3>1, <3>4, <3>5
  <2> QED BY <2>3, <2>4
<1>4. ASSUME Place' = "add_link"
      PROVE  /\ prior'[It'] = NULL => In(Its)' = {}
             /\ prior'[It'] \in Allocated' => prior'[It'] = rear'[Its']
  <2>1. /\ Apart(It) /\ It \in Node /\ Its \in Index
        /\ prior[It] = NULL => In(Its) = {}
        /\ prior[It] \in Allocated => prior[It] = rear[Its]
    BY <1>1, <1>4 DEF Sturdy, Fresh, AddOK, Early, Adding
  <2>2. prior'[It] = prior[It]
    BY <2>1, Taken DEF Apart
  <2>3. prior[It] = NULL => In(Its)' = {}
    <3>1. ASSUME prior[It] = NULL PROVE In(Its)' = {}
      <4>1. In(Its') \ {d} = {}
        BY <1>1, <2>1, <3>1
      <4> QED BY <1>1, <4>1, Taken DEF In
    <3> QED BY <3>1
  <2>4. ASSUME prior[It] \in Allocated' PROVE prior[It] = rear'[Its]
    <3>1. PICK r \in Allocated : r = prior[It] /\ r = rear[Its] /\ r # d /\ r \in Node
      BY <2>1, <2>4, Taken, Sets
    <3>2. next[r] = NULL /\ r # It
      BY <1>1, <1>4, <2>1, <3>1 DEF Sturdy, RearOK, Apart
    <3>3. r \in Queued /\ key[r] = Its
      BY <2>1, <3>1, <3>2, Sets DEF Queued, Sturdy, SameList
    <3>4. ~ (key[d] = Its /\ next[d] = NULL)
      BY <1>1, <3>1, <3>2, <3>3, OneNext
    <3> QED BY <2>1, <3>1, <3>4, Taken
  <2> QED BY <1>1, <2>2, <2>3, <2>4
<1>5. ASSUME Place' = "add_rear", Used(It)' PROVE next'[It'] = NULL
  <2>1. It \in Node /\ next[It] = NULL
    BY <1>1, <1>5, Taken DEF Sturdy, AddOK, Adding
  <2> QED BY <1>1, <2>1, NotBefore
<1> QED BY <1>2, <1>3, <1>4, <1>5 DEF AddOK

\* What is left to do of the deletion of the last node.
LEMMA TakenLast ==
  ASSUME Types, Sturdy, NEW d \in Node, Takes(d), Place = "last_next", It \in Node
  PROVE  LastOK'
<1>1. /\ d \in Queued /\ It' = It /\ Its' = Its /\ Its \in Index
      /\ Used(It)' <=> Used(It) /\ It # d
      /\ Used(It) => It \in Queued /\ key[It] = Its
  BY Taken, Sets DEF Types, Its, Queued, Unlinked
<1>2. /\ Used(It) => next[It] = NULL
      /\ rear[Its] \in Allocated => IF Used(It) THEN prior[It] = rear[Its]
                                                ELSE next[rear[Its]] = NULL
  BY DEF Sturdy, DelOK, LastOK
<1>3. Used(It)' => next'[It] = NULL
  BY <1>1, <1>2, NotBefore
<1>4. ASSUME rear'[Its] \in Allocated'
      PROVE  IF Used(It)' THEN prior'[It] = rear'[Its] ELSE next'[rear'[Its]] = NULL
  <2>1. CASE key[d] = Its /\ next[d] = NULL
    <3>1. rear'[Its] = prior[d] /\ prior[d] \in Node
      BY <1>1, <1>4, <2>1, Taken, Sets
    <3>2. ~ Used(It)'
      BY <1>1, <1>2, <2>1, OneNext
    <3>3. next'[prior[d]] = NULL
      BY <2>1, <3>1, Taken
    <3> QED BY <3>1, <3>2, <3>3
  <2>2. CASE ~ (key[d] = Its /\ next[d] = NULL)
    <3>1. /\ rear'[Its] = rear[Its] /\ rear[Its] \in Allocated /\ rear[Its] # d
          /\ rear[Its] \in Node
      BY <1>1, <1>4, <2>2, Taken, Sets
    <3>2. CASE Used(It)
      <4>1. It # d /\ Used(It)'
        BY <1>1, <1>2, <2>2, <3>2
      <4>2. It # next[d]
        <5> SUFFICES ASSUME It = next[d] PROVE FALSE
          OBVIOUS
        <5>1. prior[It] = rear[Its] /\ rear[Its] \in Queued
          BY <1>1, <1>2, <3>1, <3>2, <4>1 DEF Queued, Unlinked
        <5>2. prior[It] = d
          BY <1>1, <3>2, <5>1, OneNext
        <5> QED BY <3>1, <5>1, <5>2
      <4> QED BY <1>2, <3>1, <3>2, <4>1, <4>2, Taken
    <3>3. CASE ~ Used(It)
      BY <1>1, <1>2, <3>1, <3>3, NotBefore
    <3> QED BY <3>2, <3>3
  <2> QED BY <2>1, <2>2
<1> QED BY <1>1, <1>3, <1>4 DEF LastOK

\* What is left to do of the deletion of a node in the middle.
LEMMA TakenMiddle ==
  ASSUME Types, Sturdy, NEW d \in Node, Takes(d), Place = "middle_prior", It \in Node
  PROVE  MiddleOK'
<1>1. PICK t \in Node : t = It /\ t # d /\ t \notin Queued /\ t # NULL
  BY Taken, Sets DEF Queued, Unlinked
<1>2. /\ Used(t) /\ prior[t] # NULL
      /\ \A q \in Queued : next[q] # t
      /\ prior[t] \in Allocated =>
           /\ next[t] \in Allocated => Leads(prior[t], next[t])
           /\ next[t] \in Queued => next[t] # front[Its]
           /\ \A q \in Queued : /\ prior[q] # prior[t]
                                /\ prior[q] = t => Leads(prior[t], q)
                                /\ next[q] = next[t] /\ next[q] \in Queued => q = prior[t]
  BY <1>1 DEF Sturdy, DelOK, MiddleOK, Late
<1>3. /\ d \in Queued /\ t # next[d] /\ t = It' /\ Its' = Its /\ Its \in Index
      /\ Used(t)'
      /\ \A q \in Queued' : q \in Queued /\ q # d /\ q \in Node /\ q # t
  <2>1. d \in Queued /\ \A q \in Queued' : q \in Queued /\ q # d /\ q \in Node /\ q # t
    BY <1>1, Taken, Sets
  <2>2. t # next[d]
    BY <1>2, <2>1
  <2>3. t = It' /\ Its' = Its /\ Its \in Index
    BY <1>1, Taken DEF Types, Its
  <2>4. Used(t)'
    BY <1>1, <1>2, Taken DEF Used
  <2> QED BY <2>1, <2>2, <2>3, <2>4
<1>4. prior'[t] = prior[t]
  BY <1>3, Taken
<1>5. ASSUME prior[t] \in Allocated'
      PROVE  /\ next'[t] \in Allocated' => Leads(prior[t], next[t])'
             /\ next'[t] \in Queued' => next'[t] # front'[Its]
             /\ \A q \in Queued' : /\ prior'[q] # prior'[t]
                                   /\ prior'[q] = t => Leads(prior[t], q)'
                                   /\ next'[q] = next'[t] /\ next'[q] \in Queued' =>
                                        q = prior'[t]
  <2>1. PICK a \in Node : a = prior[t] /\ a \in Allocated /\ a # d
    BY <1>5, Taken, Sets
  <2>2. a # prior[d] /\ a = prior'[t]
    BY <1>2, <1>3, <1>4, <2>1
  <2>3. \A x, y : x = prior'[t] /\ Leads(x, y)' => Leads(prior[t], y)'
    BY DEF Leads
  <2>4. \A x, y : x = prior'[t] /\ y = next'[t] /\ Leads(x, y)' =>
                    Leads(prior[t], next[t])'
    BY DEF Leads
  <2>5. ASSUME next'[t] \in Allocated' PROVE Leads(prior[t], next[t])'
    <3>1. CASE t = prior[d]
      <4>1. PICK n : n = next[d]
        OBVIOUS
      <4>2. Leads(a, d)
        BY <1>2, <1>3, <2>1, <3>1
      <4>3. Leads(a, n)'
        BY <2>2, <4>1, <4>2, LeadsOn
      <4> QED BY <2>2, <2>4, <3>1, <4>1, <4>3, Taken
    <3>2. CASE t # prior[d]
      <4>1. PICK n : n = next[t]
        OBVIOUS
      <4>2. Leads(a, n) /\ n = next'[t]
        BY <1>2, <2>1, <2>5, <3>2, <4>1, Taken
      <4>3. Leads(a, n)'
        BY <2>2, <4>2, LeadsKept
      <4> QED BY <2>2, <2>4, <4>2, <4>3
    <3> QED BY <3>1, <3>2
  <2>6. ASSUME NEW q \in Queued' PROVE prior'[q] # prior'[t]
    BY <1>2, <1>3, <2>1, <2>2, Taken
  <2>7. ASSUME NEW q \in Queued', prior'[q] = t PROVE Leads(prior[t], q)'
    <3>1. CASE q = next[d]
      <4>1. prior[d] = t
        BY <1>3, <2>7, <3>1, Taken
      <4>2. Leads(a, d)
        BY <1>2, <1>3, <2>1, <4>1
      <4>3. Leads(a, q)'
        BY <2>2, <3>1, <4>2, LeadsOn
      <4> QED BY <2>2, <2>3, <4>3
    <3>2. CASE q # next[d]
      <4>1. Leads(a, q)
        BY <1>2, <1>3, <2>1, <2>7, <3>2, Taken
      <4>2. Leads(a, q)'
        BY <2>2, <4>1, LeadsKept
      <4> QED BY <2>2, <2>3, <4>2
    <3> QED BY <3>1, <3>2
  <2>8. ASSUME NEW q \in Queued', next'[q] = next'[t], next'[q] \in Queued'
        PROVE  q = prior'[t]
    <3>1. \A x, y \in Queued : next[x] = next[y] /\ next[x] \in Queued => x = y
      BY OneNext
    <3>2. CASE t = prior[d]
      BY <1>1, <1>3, <2>8, <3>1, <3>2, Taken
    <3>3. CASE t # prior[d]
      BY <1>1, <1>2, <1>3, <2>1, <2>2, <2>8, <3>1, <3>3, Taken
    <3> QED BY <3>2, <3>3
  <2>9. ASSUME next'[t] \in Queued', next'[t] = front'[Its] PROVE FALSE
    <3>0. front'[Its] = IF Its = key[d] /\ prior[d] = NULL THEN next[d] ELSE front[Its]
      BY <1>3, Taken
    <3>1. CASE t = prior[d]
      <4>1. next'[t] = next[d] /\ next[d] \in Queued /\ prior[d] # NULL
        BY <1>1, <1>3, <2>9, <3>1, Taken
      <4>2. front[Its] = next[d]
        BY <2>9, <3>0, <4>1
      <4> QED BY <1>3, <4>1, <4>2 DEF Sturdy, FrontOK
    <3>2. CASE t # prior[d]
      <4>1. next'[t] = next[t] /\ next[t] \in Queued /\ next[t] # front[Its]
        BY <1>1, <1>2, <1>3, <2>1, <2>9, <3>2, Taken
      <4>2. Its = key[d] /\ prior[d] = NULL /\ next[t] = next[d]
        BY <2>9, <3>0, <4>1
      <4> QED BY <1>2, <1>3, <2>1, <4>1, <4>2
    <3> QED BY <3>1, <3>2
  <2> QED BY <2>5, <2>6, <2>7, <2>8, <2>9
<1>6. \A x, q : x = t /\ Leads(prior[x], q)' => Leads(prior[It], q)'
  BY <1>3 DEF Leads
<1>7. \A x : x = t /\ Leads(prior[x], next[x])' => Leads(prior[It], next[It])'
  BY <1>3 DEF Leads
<1> QED BY <1>2, <1>3, <1>4, <1>5, <1>6, <1>7 DEF MiddleOK

LEMMA TakenDel ==
  ASSUME Types, Sturdy, NEW d \in Node, Takes(d), Place \in Halves => It \in Node
  PROVE  DelOK'
<1>1. /\ d \in Queued /\ Place' = Place /\ It' = It /\ Its' = Its
      /\ Place \in Unlinked => d # It
      /\ Used(It)' <=> Used(It) /\ It # d
      /\ \A x : In(x)' = In(x) \ {d}
      /\ In(Its)' = In(Its) \ {d}
      /\ \A n \in Queued' : n \in Queued /\ n \in Node
  <2>1. In(Its)' = In(Its) \ {d}
    BY Taken DEF In
  <2> QED BY <2>1, Taken, Sets
<1>2. ASSUME Place' \in Late, Used(It)'
      PROVE  (\A x \in Index : front'[x] # It') /\ \A n \in Queued' : next'[n] # It'
  <2>1. /\ \A x \in Index : front[x] # It
        /\ \A n \in Queued : next[n] # It
    BY <1>1, <1>2 DEF Sturdy, DelOK
  <2> QED BY <1>1, <2>1, Taken
<1>3. Place' = "del_only" => In(Its)' \subseteq {It'}
  BY <1>1 DEF Sturdy, DelOK
<1>4. ASSUME Place' = "del_last", Used(It)' PROVE next'[It'] = NULL
  <2>1. It \in Node /\ next[It] = NULL
    BY <1>1, <1>4 DEF Sturdy, DelOK, Used
  <2> QED BY <1>1, <2>1, NotBefore
<1>5. ASSUME Place' = "del_head", Used(It)' PROVE prior'[It'] = NULL
  <2>1. It \in Node /\ prior[It] = NULL /\ It \in Queued
    BY <1>1, <1>5, Sets DEF Sturdy, DelOK, Used, Queued, Unlinked
  <2>2. front[key[It]] = It /\ key[It] \in Index
    BY <2>1 DEF Sturdy, PriorOK, Types
  <2>3. It # next[d]
    BY <1>1, <2>1, <2>2 DEF Sturdy, FrontOK
  <2> QED BY <1>1, <2>1, <2>3, Taken
<1>6. Place' = "only_rear" => In(Its)' = {}
  BY <1>1 DEF Sturdy, DelOK
<1>7. Place' = "last_next" => LastOK'
  BY <1>1, TakenLast DEF Halves
<1>8. Place' = "middle_prior" => MiddleOK'
  BY <1>1, TakenMiddle DEF Halves
<1> QED BY <1>2, <1>3, <1>4, <1>5, <1>6, <1>7, <1>8 DEF DelOK

LEMMA TakenSturdy ==
  ASSUME Types, Sturdy, NEW d \in Node, Takes(d), Place \in Halves => It \in Node
  PROVE  Sturdy'
BY TakenReached, TakenFresh, TakenPrior, TakenNext, TakenFront, TakenRear, TakenAdd, TakenDel
   DEF Sturdy

\* The lists stay doubly linked.
LEMMA TakenDoubly ==
  ASSUME Types, Sturdy, NEW d \in Node, Takes(d), NEW x \in Index,
         Doubly(front[x], rear[x], In(x))
  PROVE  Doubly(front[x], rear[x], In(x))'
<1>1. /\ front[x] # NULL => front[x] \in In(x)
      /\ rear[x] # NULL => rear[x] \in In(x)
      /\ front[x] = NULL <=> rear[x] = NULL
      /\ \A n \in In(x) : /\ prior[n] = NULL <=> front[x] = n
                          /\ prior[n] # NULL => prior[n] \in In(x) /\ next[prior[n]] = n
                          /\ next[n] = NULL <=> rear[x] = n
                          /\ next[n] # NULL => next[n] \in In(x) /\ prior[next[n]] = n
  BY DEF Doubly
<1>2. /\ d # NULL /\ In(x)' = In(x) \ {d}
      /\ d \in In(x) <=> x = key[d]
      /\ \A n \in In(x) : n \in Node /\ n # NULL /\ key[n] = x
      /\ front'[x] = IF x = key[d] /\ prior[d] = NULL THEN next[d] ELSE front[x]
      /\ rear'[x] = IF x = key[d] /\ next[d] = NULL THEN prior[d] ELSE rear[x]
  <2>1. In(x)' = In(x) \ {d}
    BY Taken DEF In
  <2> QED BY <2>1, Taken, Sets DEF In
<1>3. \A n \in In(x) : /\ next'[n] = IF n = prior[d] THEN next[d] ELSE next[n]
                       /\ prior'[n] = IF n = next[d] THEN prior[d] ELSE prior[n]
  BY <1>2, Taken
<1>4. CASE x # key[d]
  <2>1. \A n \in In(x) : n # prior[d] /\ n # next[d]
    BY <1>2, <1>4 DEF Sturdy, SameList
  <2>2. In(x)' = In(x) /\ front'[x] = front[x] /\ rear'[x] = rear[x]
    BY <1>2, <1>4
  <2>3. \A n \in In(x)' : next'[n] = next[n] /\ prior'[n] = prior[n]
    BY <1>3, <2>1, <2>2
  <2> QED BY <1>1, <2>2, <2>3 DEF Doubly
<1>5. CASE x = key[d]
  <2>0. d \in In(x)
    BY <1>2, <1>5
  <2>1. /\ prior[d] # NULL => prior[d] \in In(x)' /\ next[prior[d]] = d
        /\ next[d] # NULL => next[d] \in In(x)' /\ prior[next[d]] = d
    <3>1. next[d] # d
      <4> SUFFICES ASSUME next[d] = d PROVE FALSE
        OBVIOUS
      <4> DEFINE S == In(x) \ {d}
      <4>1. front[x] \in S \cup {NULL} /\ \A n \in S : next[n] \in S \cup {NULL}
        BY <1>1, <1>2, <2>0
      <4>2. HoldsNext(S) /\ S \in SUBSET Node
        BY <1>2, <4>1 DEF HoldsNext
      <4>3. In(x) \subseteq S
        BY <4>1, <4>2 DEF Sturdy, Reached, Covers
      <4> QED BY <2>0, <4>3
    <3>2. prior[d] # d
      BY <1>1, <1>2, <2>0, <3>1
    <3> QED BY <1>1, <1>2, <2>0, <3>1, <3>2
  <2>2. /\ front'[x] # NULL => front'[x] \in In(x)'
        /\ rear'[x] # NULL => rear'[x] \in In(x)'
        /\ front'[x] = NULL <=> rear'[x] = NULL
    BY <1>1, <1>2, <1>5, <2>0, <2>1
  <2>3. ASSUME NEW n \in In(x)'
        PROVE  /\ prior'[n] = NULL <=> front'[x] = n
               /\ prior'[n] # NULL => prior'[n] \in In(x)' /\ next'[prior'[n]] = n
    <3>1. n \in In(x) /\ n # d
      BY <1>2, <2>3
    <3>2. CASE n = next[d]
      <4>1. prior'[n] = prior[d] /\ n # NULL
        BY <1>2, <1>3, <3>1, <3>2
      <4> QED BY <1>1, <1>2, <1>3, <1>5, <2>0, <2>1, <3>1, <3>2, <4>1
    <3>3. CASE n # next[d]
      <4>1. prior'[n] = prior[n] /\ prior[n] # d
        BY <1>1, <1>2, <1>3, <3>1, <3>3
      <4>2. prior[n] # NULL => next'[prior[n]] = n
        <5>1. prior[n] # NULL => prior[n] # prior[d]
          BY <1>1, <1>2, <2>0, <3>1
        <5> QED BY <1>1, <1>3, <3>1, <5>1
      <4> QED BY <1>1, <1>2, <1>5, <2>0, <3>1, <3>3, <4>1, <4>2
    <3> QED BY <3>2, <3>3
  <2>4. ASSUME NEW n \in In(x)'
        PROVE  /\ next'[n] = NULL <=> rear'[x] = n
               /\ next'[n] # NULL => next'[n] \in In(x)' /\ prior'[next'[n]] = n
    <3>1. n \in In(x) /\ n # d
      BY <1>2, <2>4
    <3>2. CASE n = prior[d]
      <4>1. next'[n] = next[d] /\ n # NULL
        BY <1>2, <1>3, <3>1, <3>2
      <4> QED BY <1>1, <1>2, <1>3, <1>5, <2>0, <2>1, <3>1, <3>2, <4>1
    <3>3. CASE n # prior[d]
      <4>1. next'[n] = next[n] /\ next[n] # d
        BY <1>1, <1>2, <1>3, <2>0, <3>1, <3>3
      <4>2. next[n] # NULL => prior'[next[n]] = n
        <5>1. next[n] # NULL => next[n] # next[d]
          BY <1>1, <1>2, <2>0, <3>1
        <5> QED BY <1>1, <1>3, <3>1, <5>1
      <4> QED BY <1>1, <1>2, <1>5, <2>0, <3>1, <3>3, <4>1, <4>2
    <3> QED BY <3>2, <3>3
  <2> QED BY <2>2, <2>3, <2>4 DEF Doubly
<1> QED BY <1>4, <1>5

\* No walk loses what is ahead of it, not even one that is at the node.
LEMMA TakenWalking ==
  ASSUME Types, Sturdy, NEW d \in Node, Takes(d), NEW b \in Actor, Walking(b),
         pc'[b] = pc[b] \/ (pc[b] = "expired" /\ pc'[b] = "next"),
         UNCHANGED <<i, temp, checked>>
  PROVE  Walking(b)'
<1>1. \A x : In(x)' \subseteq In(x)
  BY Taken
<1>2. pc'[b] \in Walked => pc[b] \in Walked
  BY DEF Walked
<1>3. pc[b] = "check" <=> pc'[b] = "check"
  OBVIOUS
<1>4. ASSUME pc'[b] \in Walked PROVE Covers(Ahead(b), i[b], checked[b])'
  <2>1. Covers(Ahead(b), i[b], checked[b])
    BY <1>2, <1>4 DEF Walking
  <2>2. PICK p, q : p = Ahead(b) /\ q = Ahead(b)'
    OBVIOUS
  <2>3. Covers(q, i[b], checked[b])'
    <3>1. CASE pc[b] = "check"
      <4>1. p = q
        BY <1>3, <2>2, <3>1 DEF Ahead
      <4> QED BY <2>1, <2>2, <4>1, TakenCovers
    <3>2. CASE pc[b] # "check"
      <4>1. PICK n \in Node : n = temp[b]
        BY <1>2, <1>4, <3>2 DEF Walking
      <4>2. p = next[n] /\ q = IF n = prior[d] THEN next[d] ELSE next[n]
        BY <1>3, <2>2, <3>2, <4>1, Taken DEF Ahead
      <4>3. CASE n = prior[d]
        BY <2>1, <2>2, <4>2, <4>3, TakenPast, Sets
      <4>4. CASE n # prior[d]
        BY <2>1, <2>2, <4>2, <4>4, TakenCovers
      <4> QED BY <4>3, <4>4
    <3> QED BY <3>1, <3>2
  <2> QED BY <2>2, <2>3 DEF Covers
<1>5. \A x \in Index : In(x) \subseteq checked[b] => In(x)' \subseteq checked'[b]
  BY <1>1
<1>6. pc'[b] \in Walked => \A x \in Index : x < i'[b] => In(x)' \subseteq checked'[b]
  BY <1>2, <1>5 DEF Walking
<1>7. pc'[b] \in Walked \ {"check"} => temp'[b] \in Node
  BY <1>2, <1>3 DEF Walking
<1>8. pc'[b] = "clear" => \A x \in Index : In(x)' \subseteq checked'[b]
  BY <1>5 DEF Walking
<1> QED BY <1>4, <1>6, <1>7, <1>8 DEF Walking

LEMMA TakenTypes ==
  ASSUME Types, NEW d \in Node, Takes(d)
  PROVE  /\ heap' \in [Node -> {"unused", "used", "freed"}] /\ key' \in [Node -> Index]
         /\ prior' \in [Node -> Pointer] /\ next' \in [Node -> Pointer]
         /\ front' \in [Index -> Pointer] /\ rear' \in [Index -> Pointer]
         /\ \A n \in Node : heap[n] # "unused" => heap'[n] # "unused"
<1>1. prior[d] \in Pointer /\ next[d] \in Pointer /\ key[d] \in Index
  BY DEF Types
<1>2. heap' \in [Node -> {"unused", "used", "freed"}] /\ key' \in [Node -> Index]
  BY DEF Takes, DelCollNode, Types
<1>3. prior' \in [Node -> Pointer] /\ next' \in [Node -> Pointer]
  BY <1>1 DEF Takes, DelCollNode, Unlink, Types
<1>4. front' \in [Index -> Pointer] /\ rear' \in [Index -> Pointer]
  BY <1>1 DEF Takes, DelCollNode, Unlink, Types
<1>5. \A n \in Node : heap[n] # "unused" => heap'[n] # "unused"
  BY DEF Takes, DelCollNode, Types
<1> QED BY <1>2, <1>3, <1>4, <1>5

\* The handler deletes a node that has expired.
LEMMA DeleteStep ==
  ASSUME LInv, DeleteExpired, Interrupts, UNCHANGED fault
  PROVE  LInv'
<1> USE DEF LInv
<1>1. PICK d \in Node : d = temp["handler"] /\ DelCollNode(d)
  BY DEF DeleteExpired, DelCollNode, Used
<1>2. /\ pc["handler"] = "expired" /\ pc'["handler"] = "next" /\ Place' = Place /\ It' = It
      /\ pc'["main"] = pc["main"] /\ UNCHANGED <<i, temp, checked>>
      /\ pc' \in [Actor -> {"idle", "clear", "close", "closed"} \cup Adding \cup Walked]
  BY Sets DEF DeleteExpired, At, GoTo, Types, Place, It, Walked
<1>3. Takes(d)
  <2>1. d \in Allocated
    BY <1>1, Sets DEF DelCollNode
  <2>2. Place \in Unlinked /\ Used(It) => d # It
    BY <1>1, <1>2 DEF Passes, Walked
  <2>3. d \in Queued
    BY <2>1, <2>2, Sets DEF Queued
  <2> QED BY <1>1, <1>2, <2>3 DEF Takes
<1>4. Types'
  BY <1>2, <1>3, TakenTypes, Sets DEF Types, Adding
<1>5. Sturdy'
  <2>1. Place \in Halves => It \in Node
    BY Sets DEF Walking, Place, It, Walked, Halves
  <2> QED BY <1>3, <2>1, TakenSturdy
<1>6. \A b \in Actor : Walking(b)'
  BY <1>2, <1>3, TakenWalking, Sets
<1>7. Ahead("handler")' = next[d]
  <2>1. Ahead("handler")' = next'[d]
    BY <1>1, <1>2 DEF Ahead
  <2> QED BY <1>3, <2>1, Taken
<1>8. Passes'
  <2> SUFFICES ASSUME Place' \in Unlinked, Used(It)' PROVE Passes'
    BY DEF Passes
  <2>1. Place \in Unlinked /\ Used(It) /\ d \in Queued /\ It' = It
    BY <1>2, <1>3, Taken
  <2>2. next[d] # It
    BY <2>1, NotOut
  <2> QED BY <1>2, <1>7, <2>1, <2>2 DEF Passes
<1>9. Closing'
  BY <1>2 DEF Closing, Types
<1>10. Whole'
  <2> SUFFICES ASSUME ~ interrupted'
               PROVE  /\ Place' = "idle" \/ pc'["handler"] = "idle"
                      /\ LinksOK' /\ ~ fault'
                      /\ \A b \in Actor : Sound(b)'
    BY DEF Whole
  <2>1. LinksOK /\ ~ fault /\ Place = "idle"
    BY <1>2, OneIdle
  <2>2. \A x \in Index : Doubly(front[x], rear[x], In(x))
    BY <2>1 DEF LinksOK, Halves
  <2>3. \A x \in Index : Doubly(front[x], rear[x], In(x))'
    BY <1>3, <2>2, TakenDoubly
  <2>4. LinksOK'
    BY <1>2, <2>1, <2>3 DEF LinksOK, ItsOK, Cases, Halves
  <2>5. next[d] = NULL \/ next[d] \in Queued'
    <3>1. key[d] \in Index /\ d \in In(key[d])
      BY <1>3, Taken DEF In
    <3>2. PICK x \in Index : x = key[d] /\ Doubly(front[x], rear[x], In(x))
      BY <2>2, <3>1
    <3>3. next[d] = NULL \/ next[d] \in In(x)
      BY <3>1, <3>2 DEF Doubly
    <3>4. next[d] # d
      <4> SUFFICES ASSUME next[d] = d PROVE FALSE
        OBVIOUS
      <4> DEFINE S == In(x) \ {d}
      <4>1. front[x] \in S \cup {NULL} /\ \A n \in S : next[n] \in S \cup {NULL}
        BY <3>1, <3>2, <1>3, Taken, Sets DEF Doubly, In
      <4>2. HoldsNext(S) /\ S \in SUBSET Node
        BY <4>1, Sets DEF HoldsNext, In
      <4>3. In(x) \subseteq S
        BY <4>1, <4>2 DEF Sturdy, Reached, Covers
      <4> QED BY <3>1, <3>2, <4>3
    <3> QED BY <1>3, <3>3, <3>4, Taken DEF In
  <2>6. Sound("handler")'
    BY <1>2, <1>7, <2>5 DEF Sound, Halves
  <2>7. Sound("main")'
    BY <1>2, <2>1 DEF Sound, Halves, Place
  <2> QED BY <1>2, <2>1, <2>4, <2>6, <2>7, Sets
<1> QED BY <1>4, <1>5, <1>6, <1>8, <1>9, <1>10

\* del_dly_map frees the first node of a list.
LEMMA DelFrontStep ==
  ASSUME LInv, DelFront, Interrupts, UNCHANGED fault
  PROVE  LInv'
<1> USE DEF LInv
<1>1. PICK d \in Node : d = First /\ DelCollNode(d)
  BY DEF DelFront, DelCollNode, Used
<1>2. /\ pc["main"] = "close" /\ Place = "close" /\ pc["handler"] = "idle"
      /\ UNCHANGED <<pc, i, temp, checked, Place, It>>
  BY DEF DelFront, At, walkVars, Place, It
<1>3. Takes(d)
  <2>1. d \in Allocated
    BY <1>1, Sets DEF DelCollNode
  <2>2. d \in Queued
    BY <1>2, <2>1 DEF Queued, Unlinked
  <2> QED BY <1>1, <1>2, <2>2 DEF Takes
<1>4. Types'
  BY <1>2, <1>3, TakenTypes DEF Types, Adding
<1>5. Sturdy'
  BY <1>2, <1>3, TakenSturdy DEF Halves
<1>6. \A b \in Actor : Walking(b)'
  BY <1>2, <1>3, TakenWalking
<1>7. Passes' /\ Closing'
  BY <1>2, <1>3, Taken DEF Passes, Closing, Unlinked
<1>8. Whole'
  <2> SUFFICES ASSUME ~ interrupted'
               PROVE  LinksOK' /\ ~ fault' /\ \A b \in Actor : Sound(b)'
    BY <1>2 DEF Whole
  <2>1. LinksOK /\ ~ fault
    BY OneIdle
  <2>2. \A x \in Index : Doubly(front[x], rear[x], In(x))
    BY <1>2, <2>1 DEF LinksOK, Halves
  <2>3. \A x \in Index : Doubly(front[x], rear[x], In(x))'
    BY <1>3, <2>2, TakenDoubly
  <2>4. LinksOK'
    BY <1>2, <2>1, <2>3 DEF LinksOK, ItsOK, Cases, Halves
  <2>5. \A b \in Actor : Sound(b)'
    BY <1>2, Sets DEF Sound, Halves, Place
  <2> QED BY <2>1, <2>4, <2>5
<1> QED BY <1>4, <1>5, <1>6, <1>7, <1>8

----------------------------------------------------------------------------
(***************************************************************************)
(* add_coll_node of main.                                                  *)
(***************************************************************************)
\* main does a step of add_coll_node or del_coll_node.
LEMMA MainStep ==
  ASSUME LInv, Interrupts, UNCHANGED fault,
         pc["handler"] = "idle", pc'["handler"] = "idle", Place' \notin {"close", "closed"},
         Types', Sturdy', Walking("main")', ~ interrupted => LinksOK' /\ Sound("main")'
  PROVE  LInv'
<1>1. Walking("handler")' /\ Sound("handler")' /\ Passes'
  BY DEF Walking, Sound, Passes, Walked, Cases, Halves
<1>2. Whole'
  BY <1>1, Sets, OneIdle DEF Whole
<1> QED BY <1>1, <1>2, Sets DEF LInv, Closing

\* It stays at its node.
LEMMA MainTypes ==
  ASSUME LInv, UNCHANGED <<key, i, temp, checked>>, pc["handler"] = "idle",
         NEW p \in Adding \cup Walked, GoTo("main", p), p \in Adding => Place \in Adding,
         heap' \in [Node -> {"unused", "used", "freed"}],
         \A n \in Node : heap[n] # "unused" => heap'[n] # "unused",
         prior' \in [Node -> Pointer], next' \in [Node -> Pointer],
         front' \in [Index -> Pointer], rear' \in [Index -> Pointer]
  PROVE  Types' /\ Place' = p /\ pc'["handler"] = "idle" /\ It' = It
<1>1. /\ pc' \in [Actor -> {"idle", "clear", "close", "closed"} \cup Adding \cup Walked]
      /\ pc'["main"] = p /\ pc'["handler"] = "idle"
  BY Sets DEF GoTo, LInv, Types
<1>2. Place' = p /\ It' = It
  BY <1>1 DEF Place, It
<1>3. p \in Adding => It \in Node /\ heap'[It] # "unused" /\ i["main"] = 0
  BY Sets DEF LInv, Types, Place
<1>4. i["handler"] = 0
  BY Sets DEF LInv, Types
<1>5. p \notin {"idle", "close", "closed"}
  BY DEF Adding, Walked, Cases, Halves
<1>6. \A a \in Actor : pc'[a] \in {"idle"} \cup Adding => i[a] = 0
  BY <1>1, <1>3, <1>4, <1>5, Sets
<1> QED BY <1>1, <1>2, <1>3, <1>5, <1>6 DEF LInv, Types

\* The call of main is over.
LEMMA ReturnTypes ==
  ASSUME LInv, UNCHANGED <<heap, key>>, pc["handler"] = "idle", Return("main"),
         prior' \in [Node -> Pointer], next' \in [Node -> Pointer],
         front' \in [Index -> Pointer], rear' \in [Index -> Pointer]
  PROVE  Types' /\ Place' = "idle" /\ pc'["handler"] = "idle"
<1>1. /\ pc' \in [Actor -> {"idle", "clear", "close", "closed"} \cup Adding \cup Walked]
      /\ pc'["main"] = "idle" /\ pc'["handler"] = "idle"
  BY Sets DEF Return, GoTo, LInv, Types
<1>2. 0 \in Index
  BY SizeAssumption DEF Index
<1>3. /\ i' \in [Actor -> Index] /\ temp' \in [Actor -> Pointer]
      /\ checked' \in [Actor -> SUBSET Node]
      /\ \A a \in Actor : i'[a] = 0
  BY <1>2, Sets DEF Return, LInv, Types, Pointer
<1> QED BY <1>1, <1>3 DEF LInv, Types, Place, Adding

\* No node is allocated or freed.
LEMMA SameNodes ==
  ASSUME UNCHANGED <<heap, key, temp>>
  PROVE  /\ Allocated' = Allocated /\ Freed' = Freed /\ It' = It /\ Its' = Its
         /\ Used(It)' <=> Used(It)
         /\ \A n : n \in Queued' <=> n \in Allocated /\ (n = It => Place' \notin Unlinked)
         /\ \A n : n \in Queued <=> n \in Allocated /\ (n = It => Place \notin Unlinked)
         /\ \A x, n : n \in In(x)' <=> n \in Queued' /\ key[n] = x
<1>1. Allocated' = Allocated /\ Freed' = Freed /\ It' = It
  BY DEF Allocated, Freed, It
<1>2. Its' = Its
  BY <1>1 DEF Its
<1>3. Used(It)' <=> Used(It)
  BY <1>1 DEF Used
<1> QED BY <1>1, <1>2, <1>3 DEF Queued, In

LEMMA SameNext ==
  ASSUME next' = next, Freed' = Freed
  PROVE  /\ \A S : HoldsNext(S)' <=> HoldsNext(S)
         /\ \A m, n : Leads(m, n)' <=> Leads(m, n)
BY DEF HoldsNext, Leads

LEMMA AddNodeStep ==
  ASSUME LInv, NEW t \in Node, NEW y \in Index, AddNode(t, y), Interrupts, UNCHANGED fault
  PROVE  LInv'
<1> USE DEF LInv
<1>1. /\ Place = "idle" /\ pc["handler"] = "idle" /\ pc'["handler"] = "idle"
      /\ It' = t /\ heap[t] = "unused" /\ t # NULL
      /\ Place' = IF front[y] = NULL THEN "add_front" ELSE "add_prior"
      /\ UNCHANGED <<prior, next, front, rear, i, checked>>
      /\ \A n \in Node : heap'[n] = IF n = t THEN "used" ELSE heap[n]
      /\ \A n \in Node : key'[n] = IF n = t THEN y ELSE key[n]
      /\ pc' \in [Actor -> {"idle", "clear", "close", "closed"} \cup Adding \cup Walked]
      /\ temp' \in [Actor -> Pointer]
  BY Sets DEF AddNode, At, GoTo, Types, Place, It, Adding, Pointer
<1>2. Its' = y
  BY <1>1 DEF Its
<1>3. Apart(t) /\ prior[t] = NULL
  BY <1>1 DEF Sturdy, Fresh
<1>4. Types'
  <2>1. /\ heap' \in [Node -> {"unused", "used", "freed"}] /\ key' \in [Node -> Index]
    BY DEF AddNode, Types
  <2>2. \A a \in Actor : i[a] = 0
    BY <1>1, Sets DEF Types, Place
  <2> QED BY <1>1, <2>1, <2>2 DEF Types, Adding
<1>5. /\ Queued' = Queued /\ Freed' = Freed /\ Queued = Allocated
      /\ Allocated' = Allocated \cup {t} /\ t \notin Allocated
      /\ \A n \in Queued : n \in Node /\ n # t /\ n # NULL
  <2>1. \A n : n \in Allocated' <=> n \in Allocated \cup {t}
    BY <1>1 DEF Allocated
  <2>2. \A n : n \in Freed' <=> n \in Freed
    BY <1>1 DEF Freed
  <2>3. t \notin Allocated
    BY <1>1 DEF Allocated
  <2>4. \A n : n \in Queued <=> n \in Allocated
    BY <1>1 DEF Queued, Unlinked
  <2>5. \A n : n \in Queued' <=> n \in Allocated
    BY <1>1, <2>1, <2>3 DEF Queued, Unlinked
  <2> QED BY <2>1, <2>2, <2>3, <2>4, <2>5, Sets
<1>6. /\ \A S : HoldsNext(S)' <=> HoldsNext(S)
      /\ \A m, n : Leads(m, n)' <=> Leads(m, n)
      /\ \A n : Apart(n)' <=> Apart(n)
      /\ \A f, r, S : Doubly(f, r, S)' <=> Doubly(f, r, S)
      /\ \A x : In(x)' = In(x)
  <2>1. \A x, n : n \in In(x)' <=> n \in In(x)
    BY <1>1, <1>5 DEF In
  <2>2. \A x : In(x)' = In(x)
    BY <2>1
  <2>3. /\ \A n : Apart(n)' <=> Apart(n)
        /\ \A f, r, S : Doubly(f, r, S)' <=> Doubly(f, r, S)
    BY <1>1 DEF Apart, Doubly
  <2> QED BY <1>1, <1>5, <2>2, <2>3, SameNext
<1>7. SameList'
  <2>1. /\ \A n \in Node : prior[n] # t /\ next[n] # t
        /\ \A x \in Index : front[x] # t /\ rear[x] # t
        /\ next[t] = NULL
    BY <1>3 DEF Apart
  <2>2. /\ \A n \in Node : prior[n] \in Pointer /\ next[n] \in Pointer
        /\ \A x \in Index : front[x] \in Pointer /\ rear[x] \in Pointer
    BY DEF Types
  <2> QED BY <1>1, <1>3, <2>1, <2>2 DEF Sturdy, SameList, Pointer
<1>8. Reached'
  BY <1>1, <1>6 DEF Sturdy, Reached, Covers
<1>9. Fresh'
  <2>1. \A n \in Node : heap'[n] = "unused" => heap[n] = "unused"
    BY <1>1
  <2>2. Used(It)' /\ Apart(It)'
    BY <1>1, <1>3, <1>6 DEF Used, Apart
  <2> QED BY <1>1, <1>6, <2>1, <2>2 DEF Sturdy, Fresh
<1>10. PriorOK'
  <2>1. \A n \in Queued : prior[n] # t /\ key'[n] = key[n]
    BY <1>1, <1>3, <1>5 DEF Apart
  <2> QED BY <1>1, <1>5, <1>6, <2>1 DEF Sturdy, PriorOK
<1>11. NextOK' /\ FrontOK'
  <2>1. \A n \in Queued : key'[n] = key[n]
    BY <1>1, <1>5
  <2> QED BY <1>1, <1>5, <2>1 DEF Sturdy, NextOK, FrontOK
<1>12. RearOK'
  <2>1. \A x \in Index : rear[x] # t
    BY <1>3 DEF Apart
  <2> QED BY <1>1, <1>5, <1>6, <2>1 DEF Sturdy, RearOK
<1>13. AddOK'
  <2>1. front[y] = NULL => In(y) = {}
    BY Exhausted DEF Sturdy, Reached
  <2>2. front[y] = NULL => In(Its)' = {}
    BY <1>2, <1>6, <2>1 DEF In
  <2> QED BY <1>1, <1>3, <2>2 DEF AddOK
<1>14. DelOK'
  BY <1>1 DEF DelOK, Late
<1>15. Walking("main")' /\ Sound("main")'
  BY <1>1 DEF Walking, Sound, Place, Walked, Cases, Halves
<1>16. ~ interrupted => LinksOK'
  <2> SUFFICES ASSUME ~ interrupted PROVE LinksOK'
    OBVIOUS
  <2>1. \A x \in Index : Doubly(front[x], rear[x], In(x))
    BY <1>1 DEF Whole, LinksOK, Halves
  <2>2. \A x \in Index : Doubly(front[x], rear[x], In(x))'
    BY <1>1, <1>6, <2>1 DEF Doubly
  <2>3. front[y] # NULL => rear[y] # NULL
    BY <2>1 DEF Doubly
  <2> QED BY <1>1, <1>2, <2>2, <2>3 DEF LinksOK, ItsOK, Cases, Halves
<1>17. Sturdy'
  BY <1>7, <1>8, <1>9, <1>10, <1>11, <1>12, <1>13, <1>14 DEF Sturdy
<1>18. Place' \notin {"close", "closed"}
  BY <1>1
<1> QED BY <1>1, <1>4, <1>15, <1>16, <1>17, <1>18, MainStep

\* main is at a node that it has allocated.
LEMMA NewNode ==
  ASSUME LInv, Place \in Adding
  PROVE  /\ It \in Node /\ It # NULL /\ Its \in Index /\ heap[It] # "unused"
         /\ Place \in Early => heap[It] = "used" /\ Used(It) /\ Apart(It)
BY Sets DEF LInv, Types, Its, Sturdy, Fresh, Used

LEMMA SetFrontStep ==
  ASSUME LInv, SetFront, Interrupts, UNCHANGED fault
  PROVE  LInv'
<1> USE DEF LInv
<1>1. /\ Place = "add_front" /\ pc["handler"] = "idle" /\ GoTo("main", "add_first")
      /\ UNCHANGED <<heap, key, prior, next, rear, i, temp, checked>>
  BY DEF SetFront, At, Place
<1>2. PICK t \in Node, y \in Index :
        /\ t = It /\ y = Its /\ t # NULL /\ Used(t) /\ Apart(t) /\ heap[t] = "used"
        /\ key[t] = y /\ In(y) = {} /\ prior[t] = NULL
  BY <1>1, NewNode DEF Adding, Early, Sturdy, AddOK, Its
<1>3. \A x \in Index : front'[x] = IF x = y THEN t ELSE front[x]
  BY <1>2 DEF SetFront, Types
<1>4. Types' /\ Place' = "add_first" /\ pc'["handler"] = "idle" /\ It' = t
  <2>1. front' \in [Index -> Pointer]
    BY <1>2 DEF SetFront, Types, Pointer
  <2> QED BY <1>1, <1>2, <2>1, MainTypes DEF Adding, Types
<1>5. /\ Allocated' = Allocated /\ Freed' = Freed /\ Its' = y /\ Used(It)'
      /\ Queued' = Queued \cup {t} /\ t \notin Queued
      /\ \A x : In(x)' = IF x = y THEN {t} ELSE In(x)
      /\ \A n \in Queued : n \in Node /\ n # NULL /\ n # t /\ key[n] # y /\ key[n] \in Index
  <2>1. \A n : n \in Queued' <=> n \in Queued \cup {t}
    BY <1>1, <1>2, <1>4, Sets, SameNodes DEF Unlinked
  <2>2. t \notin Queued
    BY <1>1, <1>2 DEF Queued, Unlinked
  <2>3. \A x, n : n \in In(x)' <=> IF x = y THEN n = t ELSE n \in In(x)
    BY <1>1, <1>2, <2>1, SameNodes DEF In
  <2>4. \A n \in Queued : n \in Node /\ n # NULL /\ n # t /\ key[n] # y /\ key[n] \in Index
    BY <1>2, <2>2, Sets DEF In, Types
  <2>5. \A x : In(x)' = IF x = y THEN {t} ELSE In(x)
    BY <2>3
  <2> QED BY <1>1, <1>2, <2>1, <2>2, <2>4, <2>5, SameNodes
<1>6. /\ \A S : HoldsNext(S)' <=> HoldsNext(S)
      /\ \A m, n : Leads(m, n)' <=> Leads(m, n)
  BY <1>1, <1>5, SameNext
<1>7. /\ \A n \in Node : next[n] # t /\ prior[n] # t
      /\ \A x \in Index : front[x] # t /\ rear[x] # t
      /\ next[t] = NULL
  BY <1>2 DEF Apart
<1>8. SameList'
  BY <1>1, <1>2, <1>3 DEF Sturdy, SameList
<1>9. Reached'
  <2> SUFFICES ASSUME NEW x \in Index PROVE Covers(front[x], x, {})'
    BY DEF Reached
  <2>1. CASE x = y
    BY <1>2, <1>3, <1>5, <2>1 DEF Covers
  <2>2. CASE x # y
    BY <1>3, <1>5, <1>6, <2>2 DEF Sturdy, Reached, Covers
  <2> QED BY <2>1, <2>2
<1>10. Fresh'
  <2>1. \A n \in Node : heap[n] = "unused" => Apart(n)'
    BY <1>1, <1>2, <1>3 DEF Sturdy, Fresh, Apart
  <2> QED BY <1>1, <1>4, <2>1 DEF Sturdy, Fresh, Early
<1>11. PriorOK'
  BY <1>1, <1>2, <1>3, <1>4, <1>5, <1>6, NullAssumption DEF Sturdy, PriorOK, Allocated
<1>12. NextOK'
  <2>1. ASSUME NEW m \in Queued', NEW n \in Queued', next[m] = next[n], key[m] = key[n],
               next[m] \in Queued' \cup {NULL}
        PROVE  m = n
    BY <1>2, <1>5, <1>7, <2>1 DEF Sturdy, NextOK
  <2>2. ASSUME NEW m \in Queued', NEW n \in Queued', next[m] = n,
               prior[n] \in Queued' \cup {NULL}
        PROVE  prior[n] = m
    BY <1>2, <1>5, <1>7, <2>2 DEF Sturdy, NextOK
  <2> QED BY <1>1, <2>1, <2>2 DEF NextOK
<1>13. FrontOK'
  <2> SUFFICES ASSUME NEW x \in Index, front'[x] \in Queued'
               PROVE  /\ prior[front'[x]] \notin Queued'
                      /\ \A n \in Queued' : next[n] # front'[x]
    BY <1>1 DEF FrontOK
  <2>1. CASE x = y
    BY <1>2, <1>3, <1>5, <1>7, <2>1
  <2>2. CASE x # y
    BY <1>3, <1>5, <1>7, <2>2 DEF Sturdy, FrontOK
  <2> QED BY <2>1, <2>2
<1>14. RearOK'
  BY <1>1, <1>2, <1>4, <1>5 DEF Sturdy, RearOK
<1>15. AddOK' /\ DelOK'
  <2>1. In(Its)' \subseteq {It'}
    BY <1>4, <1>5 DEF In
  <2> QED BY <1>1, <1>2, <1>3, <1>4, <1>5, <1>7, <2>1 DEF AddOK, DelOK, Late
<1>16. Walking("main")' /\ Sound("main")'
  BY <1>4 DEF Walking, Sound, Place, Walked, Cases, Halves
<1>17. ~ interrupted => LinksOK'
  <2> SUFFICES ASSUME ~ interrupted PROVE LinksOK'
    OBVIOUS
  <2>1. \A x \in Index \ {y} : Doubly(front[x], rear[x], In(x))'
    <3> SUFFICES ASSUME NEW x \in Index \ {y} PROVE Doubly(front[x], rear[x], In(x))'
      OBVIOUS
    <3>1. Doubly(front[x], rear[x], In(x))
      BY <1>1 DEF Whole, LinksOK, Halves
    <3> QED BY <1>1, <1>3, <1>5, <3>1 DEF Doubly
  <2>2. Doubly(front[Its], It, In(Its))'
    <3>1. In(Its)' = {t}
      BY <1>5 DEF In
    <3> QED BY <1>1, <1>2, <1>3, <1>4, <1>5, <1>7, <3>1 DEF Doubly
  <2> QED BY <1>2, <1>4, <1>5, <2>1, <2>2 DEF LinksOK, ItsOK, Cases, Halves
<1>18. Sturdy'
  BY <1>8, <1>9, <1>10, <1>11, <1>12, <1>13, <1>14, <1>15 DEF Sturdy
<1> QED BY <1>1, <1>4, <1>16, <1>17, <1>18, MainStep

LEMMA SetRearToFrontStep ==
  ASSUME LInv, SetRearToFront, Interrupts, UNCHANGED fault
  PROVE  LInv'
<1> USE DEF LInv
<1>1. /\ Place = "add_first" /\ pc["handler"] = "idle" /\ Return("main")
      /\ UNCHANGED <<heap, key, prior, next, front>>
  BY DEF SetRearToFront, At, Place
<1>2. PICK t \in Node, y \in Index :
        /\ t = It /\ y = Its /\ t # NULL /\ heap[t] # "unused" /\ key[t] = y
        /\ In(y) \subseteq {t}
        /\ IF Used(t) THEN front[y] = t /\ next[t] = NULL ELSE front[y] = NULL
  BY <1>1, NewNode DEF Adding, Sturdy, AddOK, Its
<1>3. \A x \in Index : rear'[x] = IF x = y THEN front[y] ELSE rear[x]
  BY <1>2 DEF SetRearToFront, Types
<1>4. Types' /\ Place' = "idle" /\ pc'["handler"] = "idle"
  <2>1. rear' \in [Index -> Pointer]
    BY <1>2 DEF SetRearToFront, Types
  <2> QED BY <1>1, <2>1, ReturnTypes DEF Types
<1>5. /\ Allocated' = Allocated /\ Freed' = Freed /\ Queued' = Queued
      /\ \A x : In(x)' = In(x)
      /\ \A n \in Queued : n \in Node /\ n # NULL
  <2>1. Allocated' = Allocated /\ Freed' = Freed
    BY <1>1 DEF Allocated, Freed
  <2>2. Queued' = Queued
    BY <1>1, <1>4, <2>1 DEF Queued, Unlinked
  <2>3. \A x : In(x)' = In(x)
    BY <1>1, <2>2 DEF In
  <2> QED BY <2>1, <2>2, <2>3, Sets
<1>6. /\ \A S : HoldsNext(S)' <=> HoldsNext(S)
      /\ \A m, n : Leads(m, n)' <=> Leads(m, n)
  BY <1>1, <1>5, SameNext
<1>7. SameList' /\ Reached'
  BY <1>1, <1>2, <1>3, <1>5, <1>6 DEF Sturdy, SameList, Reached, Covers
<1>8. Fresh'
  <2>1. \A n \in Node : heap[n] = "unused" => Apart(n)'
    BY <1>1, <1>2, <1>3 DEF Sturdy, Fresh, Apart
  <2> QED BY <1>1, <1>4, <2>1 DEF Sturdy, Fresh, Early
<1>9. PriorOK'
  BY <1>1, <1>4, <1>5, <1>6 DEF Sturdy, PriorOK
<1>10. NextOK' /\ FrontOK'
  BY <1>1, <1>5 DEF Sturdy, NextOK, FrontOK
<1>11. RearOK'
  <2> SUFFICES ASSUME NEW x \in Index
               PROVE  /\ rear'[x] = NULL => In(x) = {}
                      /\ rear'[x] \in Allocated => next[rear'[x]] = NULL
    BY <1>1, <1>5 DEF RearOK
  <2>1. CASE x = y
    BY <1>2, <1>3, <2>1, Sets DEF In
  <2>2. CASE x # y
    BY <1>1, <1>2, <1>3, <2>2 DEF Sturdy, RearOK
  <2> QED BY <2>1, <2>2
<1>12. AddOK' /\ DelOK'
  BY <1>4 DEF AddOK, DelOK, Late
<1>13. Walking("main")' /\ Sound("main")'
  BY <1>4 DEF Walking, Sound, Place, Walked, Cases, Halves
<1>14. ~ interrupted => LinksOK'
  <2> SUFFICES ASSUME ~ interrupted PROVE LinksOK'
    OBVIOUS
  <2>1. \A x \in Index : x # y => Doubly(front[x], rear[x], In(x))
    BY <1>1, <1>2 DEF Whole, LinksOK
  <2>2. Doubly(front[y], t, In(y))
    BY <1>1, <1>2 DEF Whole, LinksOK, ItsOK
  <2>3. front[y] = t
    BY <1>2, <2>2, Sets DEF Doubly, In
  <2>4. \A x \in Index : Doubly(front[x], rear[x], In(x))'
    BY <1>1, <1>3, <1>5, <2>1, <2>2, <2>3 DEF Doubly
  <2> QED BY <1>4, <2>4 DEF LinksOK, ItsOK, Cases, Halves
<1>15. Sturdy'
  BY <1>7, <1>8, <1>9, <1>10, <1>11, <1>12 DEF Sturdy
<1> QED BY <1>1, <1>4, <1>13, <1>14, <1>15, MainStep

LEMMA SetPriorStep ==
  ASSUME LInv, SetPrior, Interrupts, UNCHANGED fault
  PROVE  LInv'
<1> USE DEF LInv
<1>1. /\ Place = "add_prior" /\ pc["handler"] = "idle" /\ GoTo("main", "add_link")
      /\ UNCHANGED <<heap, key, next, front, rear, i, temp, checked>>
  BY DEF SetPrior, At, Place
<1>2. PICK t \in Node, y \in Index :
        /\ t = It /\ y = Its /\ t # NULL /\ Used(t) /\ Apart(t) /\ heap[t] = "used"
        /\ key[t] = y
  BY <1>1, NewNode DEF Adding, Early, Its
<1>3. \A n \in Node : prior'[n] = IF n = t THEN rear[y] ELSE prior[n]
  BY <1>2 DEF SetPrior, Types
<1>4. Types' /\ Place' = "add_link" /\ pc'["handler"] = "idle" /\ It' = t
  <2>1. prior' \in [Node -> Pointer]
    BY <1>2 DEF SetPrior, Types
  <2> QED BY <1>1, <1>2, <2>1, MainTypes DEF Adding, Types
<1>5. /\ Allocated' = Allocated /\ Freed' = Freed /\ Its' = y /\ Used(It)'
      /\ Queued' = Queued /\ \A x : In(x)' = In(x)
      /\ \A n \in Queued : n \in Node /\ n # NULL /\ n # t /\ prior'[n] = prior[n]
  <2>1. \A n : n \in Queued' <=> n \in Queued
    BY <1>1, <1>2, <1>4, SameNodes DEF Unlinked
  <2>2. t \notin Queued
    BY <1>1, <1>2 DEF Queued, Unlinked
  <2>3. Queued' = Queued
    BY <2>1
  <2>4. \A x : In(x)' = In(x)
    BY <1>1, <2>3 DEF In
  <2> QED BY <1>1, <1>2, <1>3, <2>2, <2>3, <2>4, Sets, SameNodes
<1>6. /\ \A S : HoldsNext(S)' <=> HoldsNext(S)
      /\ \A m, n : Leads(m, n)' <=> Leads(m, n)
  BY <1>1, <1>5, SameNext
<1>7. SameList' /\ Reached'
  BY <1>1, <1>2, <1>3, <1>5, <1>6 DEF Sturdy, SameList, Reached, Covers
<1>8. Fresh'
  <2>1. \A n \in Node : heap[n] = "unused" => Apart(n)' /\ prior'[n] = NULL
    BY <1>1, <1>2, <1>3 DEF Sturdy, Fresh, Apart
  <2>2. Apart(It)'
    BY <1>1, <1>2, <1>3, <1>4 DEF Apart
  <2> QED BY <1>1, <1>5, <2>1, <2>2 DEF Fresh
<1>9. PriorOK'
  <2>1. ASSUME NEW n \in Queued, prior'[n] \in Allocated PROVE Leads(prior[n], n)'
    <3>1. PICK b : b = prior'[n] /\ b = prior[n]
      BY <1>5
    <3>2. Leads(b, n)'
      BY <1>6, <2>1, <3>1 DEF Sturdy, PriorOK
    <3> QED BY <3>1, <3>2 DEF Leads
  <2> QED BY <1>1, <1>4, <1>5, <2>1 DEF Sturdy, PriorOK
<1>10. NextOK' /\ FrontOK' /\ RearOK'
  BY <1>1, <1>4, <1>5 DEF Sturdy, NextOK, FrontOK, RearOK
<1>11. AddOK' /\ DelOK'
  <2>1. rear[y] = NULL => In(y) = {}
    BY <1>1 DEF Sturdy, RearOK
  <2>2. prior'[It'] = NULL => In(Its)' = {}
    BY <1>2, <1>3, <1>4, <1>5, <2>1 DEF In
  <2> QED BY <1>1, <1>2, <1>3, <1>4, <1>5, <2>2 DEF AddOK, DelOK, Late
<1>12. Walking("main")' /\ Sound("main")'
  BY <1>4 DEF Walking, Sound, Place, Walked, Cases, Halves
<1>13. ~ interrupted => LinksOK'
  <2> SUFFICES ASSUME ~ interrupted PROVE LinksOK'
    OBVIOUS
  <2>1. (\A x \in Index : Doubly(front[x], rear[x], In(x))) /\ rear[y] # NULL
    BY <1>1, <1>2 DEF Whole, LinksOK, ItsOK, Halves
  <2>2. \A x \in Index : \A n \in In(x) : prior'[n] = prior[n]
    BY <1>5 DEF In
  <2>3. \A x \in Index : Doubly(front[x], rear[x], In(x))'
    <3> SUFFICES ASSUME NEW x \in Index PROVE Doubly(front[x], rear[x], In(x))'
      OBVIOUS
    <3>1. /\ Doubly(front[x], rear[x], In(x))
          /\ \A n \in In(x) : prior'[n] = prior[n]
          /\ In(x)' = In(x) /\ front'[x] = front[x] /\ rear'[x] = rear[x] /\ next' = next
      BY <1>1, <1>5, <2>1, <2>2
    <3> QED BY <3>1 DEF Doubly
  <2> QED BY <1>1, <1>2, <1>3, <1>4, <1>5, <2>1, <2>3 DEF LinksOK, ItsOK, Cases, Halves
<1>14. Sturdy'
  BY <1>7, <1>8, <1>9, <1>10, <1>11 DEF Sturdy
<1> QED BY <1>1, <1>4, <1>12, <1>13, <1>14, MainStep

LEMMA LinkRearStep ==
  ASSUME LInv, LinkRear, Interrupts, UNCHANGED fault
  PROVE  LInv'
<1> USE DEF LInv
<1>1. /\ Place = "add_link" /\ pc["handler"] = "idle" /\ GoTo("main", "add_rear")
      /\ UNCHANGED <<heap, key, prior, front, rear, i, temp, checked>>
  BY DEF LinkRear, At, Place
<1>2. PICK t \in Node, y \in Index, r \in Node :
        /\ t = It /\ y = Its /\ t # NULL /\ Used(t) /\ Apart(t) /\ heap[t] = "used"
        /\ key[t] = y /\ r = rear[y] /\ heap[r] = "used" /\ r # NULL
        /\ prior[t] = NULL => In(y) = {}
        /\ prior[t] \in Allocated => prior[t] = r
  BY <1>1, NewNode, NullAssumption DEF LinkRear, Adding, Early, Its, Used, Sturdy, AddOK
<1>3. \A n \in Node : next'[n] = IF n = r THEN t ELSE next[n]
  BY <1>2 DEF LinkRear, Types
<1>4. Types' /\ Place' = "add_rear" /\ pc'["handler"] = "idle" /\ It' = t
  <2>1. next' \in [Node -> Pointer]
    BY <1>2 DEF LinkRear, Types, Pointer
  <2> QED BY <1>1, <1>2, <2>1, MainTypes DEF Adding, Types
<1>5. /\ \A n \in Node : next[n] # t /\ prior[n] # t
      /\ \A x \in Index : front[x] # t /\ rear[x] # t
      /\ next[t] = NULL /\ r # t
  BY <1>2 DEF Apart
<1>6. /\ Allocated' = Allocated /\ Freed' = Freed /\ Its' = y /\ Used(It)'
      /\ Queued' = Queued \cup {t} /\ t \notin Queued /\ r \in Queued /\ key[r] = y
      /\ \A x : In(x)' = IF x = y THEN In(x) \cup {t} ELSE In(x)
      /\ \A n \in Queued : n \in Node /\ n # NULL /\ n # t
      /\ Queued' \subseteq Allocated
  <2>1. \A n : n \in Queued' <=> n \in Queued \cup {t}
    BY <1>1, <1>2, <1>4, Sets, SameNodes DEF Unlinked
  <2>2. t \notin Queued
    BY <1>1, <1>2 DEF Queued, Unlinked
  <2>3. r \in Queued
    BY <1>2, <1>5 DEF Queued, Allocated
  <2>4. key[r] = y
    BY <1>2 DEF Sturdy, SameList
  <2>5. \A x, n : n \in In(x)' <=> IF x = y THEN n \in In(x) \cup {t} ELSE n \in In(x)
    BY <1>1, <1>2, <2>1, SameNodes DEF In
  <2>6. \A x : In(x)' = IF x = y THEN In(x) \cup {t} ELSE In(x)
    BY <2>5
  <2>7. Queued' \subseteq Allocated
    BY <1>1, SameNodes
  <2> QED BY <1>1, <1>2, <2>1, <2>2, <2>3, <2>4, <2>6, <2>7, Sets, SameNodes
<1>7. /\ next[r] = NULL /\ prior[t] # NULL
      /\ prior[t] \in Queued' => prior[t] = r
  <2>1. next[r] = NULL
    BY <1>1, <1>2, <1>6, Sets DEF Sturdy, RearOK
  <2>2. r \in In(y)
    BY <1>6 DEF In
  <2> QED BY <1>2, <1>6, <2>1, <2>2
<1>8. ASSUME NEW m \in Node, NEW n \in Queued, Leads(m, n) PROVE m # r /\ Leads(m, n)'
  <2>1. PICK F \in SUBSET Freed : /\ next[m] \in F \cup {n}
                                  /\ \A f \in F : next[f] \in F \cup {n}
    BY <1>8 DEF Leads
  <2>2. r \notin F /\ F \subseteq Node /\ NULL \notin F
    BY <1>6, Sets
  <2>3. m # r
    BY <1>6, <1>7, <2>1, <2>2
  <2>4. next'[m] = next[m] /\ \A f \in F : next'[f] = next[f]
    BY <1>3, <2>2, <2>3
  <2>5. F \in SUBSET Freed'
    BY <1>6
  <2> QED BY <2>1, <2>3, <2>4, <2>5 DEF Leads
<1>9. SameList'
  BY <1>1, <1>2, <1>3, <1>6 DEF Sturdy, SameList
<1>10. Reached'
  <2> SUFFICES ASSUME NEW x \in Index, NEW S \in SUBSET Node, HoldsNext(S)',
                      front[x] \in S \cup {NULL}
               PROVE  In(x)' \subseteq S
    BY <1>1 DEF Reached, Covers
  <2>1. \A n \in S : next'[n] \in S \cup {NULL}
    BY DEF HoldsNext
  <2>2. HoldsNext(S)
    BY <1>3, <1>7, <2>1 DEF HoldsNext
  <2>3. In(x) \subseteq S
    BY <2>2 DEF Sturdy, Reached, Covers
  <2>4. x = y => t \in S
    <3>1. x = y => r \in S
      BY <1>6, <2>3 DEF In
    <3> QED BY <1>2, <1>3, <2>1, <3>1
  <2> QED BY <1>6, <2>3, <2>4
<1>11. Fresh'
  <2>1. \A n \in Node : heap[n] = "unused" => Apart(n)'
    BY <1>1, <1>2, <1>3 DEF Sturdy, Fresh, Apart
  <2> QED BY <1>1, <1>4, <2>1 DEF Sturdy, Fresh, Early
<1>12. PriorOK'
  <2>1. ASSUME NEW n \in Queued', prior[n] = NULL PROVE front[key[n]] = n
    BY <1>6, <1>7, <2>1 DEF Sturdy, PriorOK
  <2>2. ASSUME NEW n \in Queued', prior[n] \in Allocated PROVE Leads(prior[n], n)'
    <3>1. PICK a \in Node : a = prior[n]
      BY <2>2, Sets
    <3>2. CASE n = t
      <4>1. a = r /\ {} \in SUBSET Freed'
        BY <1>2, <2>2, <3>1, <3>2
      <4>2. next'[prior'[n]] \in {} \cup {n}
        BY <1>1, <1>3, <3>1, <3>2, <4>1
      <4> QED BY <4>1, <4>2 DEF Leads
    <3>3. CASE n # t
      <4>1. n \in Queued /\ Leads(a, n)
        BY <1>6, <2>2, <3>1, <3>3 DEF Sturdy, PriorOK
      <4>2. Leads(a, n)'
        BY <1>8, <4>1
      <4> QED BY <1>1, <3>1, <4>2 DEF Leads
    <3> QED BY <3>2, <3>3
  <2>3. ASSUME NEW n \in Queued, prior[n] = r PROVE FALSE
    <3>1. Leads(r, n)
      BY <1>6, <2>3, Sets DEF Sturdy, PriorOK
    <3> QED BY <1>2, <1>8, <3>1
  <2>4. ASSUME NEW m \in Queued', NEW n \in Queued', prior[m] = prior[n],
               prior[m] \in Allocated
        PROVE  m = n
    BY <1>2, <1>6, <2>3, <2>4 DEF Sturdy, PriorOK
  <2> QED BY <1>1, <1>4, <1>6, <2>1, <2>2, <2>4 DEF PriorOK
<1>13. \A n \in Queued' : n \in Node /\ next'[n] = IF n = r THEN t ELSE next[n]
  BY <1>2, <1>3, <1>6
<1>14. NextOK'
  <2>1. ASSUME NEW m \in Queued', NEW n \in Queued', next'[m] = next'[n], key[m] = key[n],
               next'[m] \in Queued' \cup {NULL}
        PROVE  m = n
    <3>1. \A q \in Queued : next[q] = NULL /\ key[q] = y => q = r
      BY <1>6, <1>7, OneNext
    <3>2. CASE m = t \/ n = t
      BY <1>2, <1>5, <1>6, <1>13, <2>1, <3>1, <3>2
    <3>3. CASE m = r \/ n = r
      BY <1>2, <1>5, <1>6, <1>13, <2>1, <3>3
    <3>4. CASE m \notin {t, r} /\ n \notin {t, r}
      <4>1. m \in Queued /\ n \in Queued /\ next[m] = next[n] /\ next[m] \in Queued \cup {NULL}
        BY <1>5, <1>6, <1>13, <2>1, <3>4
      <4> QED BY <2>1, <4>1 DEF Sturdy, NextOK
    <3> QED BY <3>2, <3>3, <3>4
  <2>2. ASSUME NEW m \in Queued', NEW n \in Queued', next'[m] = n,
               prior[n] \in Queued' \cup {NULL}
        PROVE  prior[n] = m
    <3>1. CASE m = r
      BY <1>7, <1>13, <2>2, <3>1
    <3>2. CASE m = t
      BY <1>2, <1>5, <1>6, <1>13, <2>2, <3>2
    <3>3. CASE m \notin {t, r}
      <4>1. m \in Queued /\ n \in Queued /\ next[m] = n /\ prior[n] \in Queued \cup {NULL}
        BY <1>5, <1>6, <1>13, <2>2, <3>3
      <4> QED BY <4>1 DEF Sturdy, NextOK
    <3> QED BY <3>1, <3>2, <3>3
  <2> QED BY <1>1, <2>1, <2>2 DEF NextOK
<1>15. FrontOK'
  <2> SUFFICES ASSUME NEW x \in Index, front[x] \in Queued'
               PROVE  /\ prior[front[x]] \notin Queued'
                      /\ \A n \in Queued' : next'[n] # front[x]
    BY <1>1 DEF FrontOK
  <2>1. PICK h \in Queued : h = front[x]
    BY <1>5, <1>6
  <2>2. prior[h] \notin Queued /\ \A n \in Queued : next[n] # h
    BY <2>1 DEF Sturdy, FrontOK
  <2> QED BY <1>5, <1>6, <1>13, <2>1, <2>2
<1>16. RearOK'
  <2> SUFFICES ASSUME NEW x \in Index, x # y
               PROVE  /\ rear[x] = NULL => In(x) = {}
                      /\ rear[x] \in Allocated => next'[rear[x]] = NULL
    BY <1>1, <1>2, <1>4, <1>6 DEF RearOK
  <2>1. rear[x] \in Allocated => rear[x] # r /\ rear[x] \in Node
    BY <1>6, Sets DEF Sturdy, SameList
  <2> QED BY <1>1, <1>3, <2>1 DEF Sturdy, RearOK
<1>17. AddOK' /\ DelOK'
  BY <1>3, <1>4, <1>5 DEF AddOK, DelOK, Late
<1>18. Walking("main")' /\ Sound("main")'
  BY <1>4 DEF Walking, Sound, Place, Walked, Cases, Halves
<1>19. ~ interrupted => LinksOK'
  <2> SUFFICES ASSUME ~ interrupted PROVE LinksOK'
    OBVIOUS
  <2>1. (\A x \in Index : Doubly(front[x], rear[x], In(x))) /\ prior[t] = r
    BY <1>1, <1>2 DEF Whole, LinksOK, ItsOK, Halves
  <2>2. ASSUME NEW x \in Index, x # y PROVE Doubly(front[x], rear[x], In(x))'
    <3>1. Doubly(front[x], rear[x], In(x)) /\ In(x)' = In(x)
      BY <1>6, <2>1, <2>2
    <3>2. \A n \in In(x) : next'[n] = next[n]
      BY <1>3, <1>6, <2>2 DEF In
    <3>3. \A n \in In(x) : prior[n] # NULL => next'[prior[n]] = next[prior[n]]
      <4>1. \A n \in In(x) : prior[n] # NULL => prior[n] \in In(x)
        BY <3>1 DEF Doubly
      <4> QED BY <3>2, <4>1
    <3> QED BY <1>1, <3>1, <3>2, <3>3 DEF Doubly
  <2>3. Doubly(front[Its], It, In(Its))'
    <3>1. PICK f \in In(y) :
          /\ f = front[y] /\ f # NULL
          /\ \A n \in In(y) :
                  /\ prior[n] = NULL <=> f = n
                  /\ prior[n] # NULL => prior[n] \in In(y) /\ next[prior[n]] = n
                  /\ next[n] = NULL <=> r = n
                  /\ next[n] # NULL => next[n] \in In(y) /\ prior[next[n]] = n
      BY <1>2, <2>1 DEF Doubly
    <3>2. In(y)' = In(y) \cup {t} /\ r \in In(y)
      BY <1>6 DEF In
    <3>3. \A n \in In(y) : n \in Queued /\ n \in Node /\ n # t /\ n # NULL
      BY <1>6 DEF In
    <3>4. ASSUME NEW n \in In(y)'
          PROVE  /\ prior[n] = NULL <=> f = n
                 /\ prior[n] # NULL => prior[n] \in In(y)' /\ next'[prior[n]] = n
      <4>1. CASE n = t
        BY <1>2, <1>3, <2>1, <3>2, <3>3, <4>1
      <4>2. CASE n # t
        <5>1. n \in In(y) /\ prior[n] # r
          BY <1>5, <1>7, <3>1, <3>2, <3>3, <4>2, <1>2
        <5> QED BY <1>3, <3>1, <3>2, <3>3, <5>1
      <4> QED BY <4>1, <4>2
    <3>5. ASSUME NEW n \in In(y)'
          PROVE  /\ next'[n] = NULL <=> t = n
                 /\ next'[n] # NULL => next'[n] \in In(y)' /\ prior[next'[n]] = n
      <4>1. CASE n = t
        BY <1>2, <1>3, <1>5, <4>1
      <4>2. CASE n = r
        BY <1>2, <1>3, <1>5, <1>6, <2>1, <3>2, <4>2
      <4>3. CASE n # t /\ n # r
        <5>1. n \in In(y) /\ next'[n] = next[n]
          BY <1>3, <3>2, <3>3, <4>3
        <5> QED BY <3>1, <3>2, <4>3, <5>1
      <4> QED BY <4>1, <4>2, <4>3
    <3>6. front'[Its'] = f /\ It' = t /\ In(Its)' = In(y)'
      BY <1>1, <1>4, <1>6, <3>1 DEF In
    <3> QED BY <1>1, <1>2, <3>1, <3>2, <3>4, <3>5, <3>6 DEF Doubly
  <2> QED BY <1>4, <1>6, <2>2, <2>3 DEF LinksOK, ItsOK, Cases, Halves
<1>20. Sturdy'
  BY <1>9, <1>10, <1>11, <1>12, <1>14, <1>15, <1>16, <1>17 DEF Sturdy
<1> QED BY <1>1, <1>4, <1>18, <1>19, <1>20, MainStep

LEMMA SetRearStep ==
  ASSUME LInv, SetRear, Interrupts, UNCHANGED fault
  PROVE  LInv'
<1> USE DEF LInv
<1>1. /\ Place = "add_rear" /\ pc["handler"] = "idle" /\ Return("main")
      /\ UNCHANGED <<heap, key, prior, next, front>>
  BY DEF SetRear, At, Place
<1>2. PICK t \in Node, y \in Index :
        /\ t = It /\ y = Its /\ t # NULL /\ heap[t] # "unused" /\ key[t] = y
        /\ Used(t) => next[t] = NULL
  BY <1>1, NewNode DEF Adding, Sturdy, AddOK, Its
<1>3. \A x \in Index : rear'[x] = IF x = y THEN t ELSE rear[x]
  BY <1>2 DEF SetRear, Types
<1>4. Types' /\ Place' = "idle" /\ pc'["handler"] = "idle"
  <2>1. rear' \in [Index -> Pointer]
    BY <1>2 DEF SetRear, Types, Pointer
  <2> QED BY <1>1, <2>1, ReturnTypes DEF Types
<1>5. /\ Allocated' = Allocated /\ Freed' = Freed /\ Queued' = Queued
      /\ \A x : In(x)' = In(x)
      /\ \A n \in Queued : n \in Node /\ n # NULL
  <2>1. Allocated' = Allocated /\ Freed' = Freed
    BY <1>1 DEF Allocated, Freed
  <2>2. Queued' = Queued
    BY <1>1, <1>4, <2>1 DEF Queued, Unlinked
  <2>3. \A x : In(x)' = In(x)
    BY <1>1, <2>2 DEF In
  <2> QED BY <2>1, <2>2, <2>3, Sets
<1>6. /\ \A S : HoldsNext(S)' <=> HoldsNext(S)
      /\ \A m, n : Leads(m, n)' <=> Leads(m, n)
  BY <1>1, <1>5, SameNext
<1>7. SameList' /\ Reached'
  BY <1>1, <1>2, <1>3, <1>5, <1>6 DEF Sturdy, SameList, Reached, Covers
<1>8. Fresh'
  <2>1. \A n \in Node : heap[n] = "unused" => Apart(n)'
    BY <1>1, <1>2, <1>3 DEF Sturdy, Fresh, Apart
  <2> QED BY <1>1, <1>4, <2>1 DEF Sturdy, Fresh, Early
<1>9. PriorOK'
  BY <1>1, <1>4, <1>5, <1>6 DEF Sturdy, PriorOK
<1>10. NextOK' /\ FrontOK'
  BY <1>1, <1>5 DEF Sturdy, NextOK, FrontOK
<1>11. RearOK'
  <2> SUFFICES ASSUME NEW x \in Index
               PROVE  /\ rear'[x] = NULL => In(x) = {}
                      /\ rear'[x] \in Allocated => next[rear'[x]] = NULL
    BY <1>1, <1>5 DEF RearOK
  <2>1. CASE x = y
    BY <1>2, <1>3, <2>1, Sets
  <2>2. CASE x # y
    BY <1>1, <1>2, <1>3, <2>2 DEF Sturdy, RearOK
  <2> QED BY <2>1, <2>2
<1>12. AddOK' /\ DelOK'
  BY <1>4 DEF AddOK, DelOK, Late
<1>13. Walking("main")' /\ Sound("main")'
  BY <1>4 DEF Walking, Sound, Place, Walked, Cases, Halves
<1>14. ~ interrupted => LinksOK'
  <2> SUFFICES ASSUME ~ interrupted PROVE LinksOK'
    OBVIOUS
  <2>1. \A x \in Index : x # y => Doubly(front[x], rear[x], In(x))
    BY <1>1, <1>2 DEF Whole, LinksOK
  <2>2. Doubly(front[y], t, In(y))
    BY <1>1, <1>2 DEF Whole, LinksOK, ItsOK
  <2>3. \A x \in Index : Doubly(front[x], rear[x], In(x))'
    BY <1>1, <1>3, <1>5, <2>1, <2>2 DEF Doubly
  <2> QED BY <1>4, <2>3 DEF LinksOK, ItsOK, Cases, Halves
<1>15. Sturdy'
  BY <1>7, <1>8, <1>9, <1>10, <1>11, <1>12 DEF Sturdy
<1> QED BY <1>1, <1>4, <1>13, <1>14, <1>15, MainStep

----------------------------------------------------------------------------
(***************************************************************************)
(* del_coll_node of main.                                                  *)
(***************************************************************************)
\* The node of its walk, that main deletes or has freed.
LEMMA WalkedNode ==
  ASSUME LInv, Place \in Walked \ {"check"}
  PROVE  /\ It \in Node /\ It # NULL /\ Its \in Index /\ key[It] = Its
         /\ \A x \in Index : x < i["main"] => In(x) \subseteq checked["main"]
         /\ Covers(next[It], i["main"], checked["main"])
BY Sets DEF LInv, Types, Walking, Ahead, Place, It, Its

\* The walk of main has as much ahead as before.
LEMMA MainOn ==
  ASSUME LInv, Place \in Walked \ {"check"}, Place' \in Walked \ {"check"},
         UNCHANGED <<i, temp, checked>>, \A x \in Index : In(x)' \subseteq In(x),
         Covers(next[It], i["main"], checked["main"])'
  PROVE  Walking("main")'
<1>1. It' = It /\ pc'["main"] = Place' /\ Ahead("main")' = next'[It']
  BY DEF It, Ahead, Place, Walked
<1>2. Covers(Ahead("main"), i["main"], checked["main"])'
  BY <1>1 DEF Covers
<1> QED BY <1>1, <1>2, WalkedNode DEF Walking, It, Walked, Cases, Halves

LEMMA CoversKept ==
  ASSUME next' = next, NEW x, In(x)' \subseteq In(x), NEW pos, NEW C, Covers(pos, x, C)
  PROVE  Covers(pos, x, C)'
BY DEF Covers, HoldsNext

\* It stays at a place where only pointers to its node, or prior, are changed.
LEMMA MainStays ==
  ASSUME LInv, Place \in Walked \ {"check"}, Place' \in Walked \ {"check"},
         UNCHANGED <<i, temp, checked, next>>, \A x \in Index : In(x)' \subseteq In(x)
  PROVE  Walking("main")'
<1>1. i["main"] \in Index
  BY Sets DEF LInv, Types
<1> PICK pos : pos = next[It]
  OBVIOUS
<1> PICK x : x = i["main"]
  OBVIOUS
<1> PICK C : C = checked["main"]
  OBVIOUS
<1>2. Covers(pos, x, C)'
  BY <1>1, CoversKept, WalkedNode
<1>3. Covers(next[It], i["main"], checked["main"])'
  BY <1>1, <1>2 DEF Covers, It
<1> QED BY <1>3, MainOn

LEMMA TestCaseStep ==
  ASSUME LInv, TestCase, Interrupts, UNCHANGED fault
  PROVE  LInv'
<1> USE DEF LInv
<1>1. /\ Place \in {"expired", "not_only", "not_last"} /\ pc["handler"] = "idle"
      /\ UNCHANGED <<heap, key, prior, next, front, rear, i, temp, checked>>
  BY DEF TestCase, At, Place, listVars
<1>2. PICK t \in Node, y \in Index : t = It /\ y = Its /\ heap[t] = "used" /\ key[t] = y
  BY <1>1, WalkedNode DEF TestCase, Used, Walked, Cases, Halves
<1>3. PICK p \in {"del_only", "not_only", "del_last", "not_last", "del_head", "del_middle"} :
        /\ GoTo("main", p)
        /\ p = "del_only" => prior[t] = NULL /\ next[t] = NULL
        /\ p = "not_only" => prior[t] # NULL \/ next[t] # NULL
        /\ p = "del_last" => prior[t] # NULL /\ next[t] = NULL
        /\ p = "not_last" => Place = "not_only" /\ (prior[t] = NULL \/ next[t] # NULL)
        /\ p = "del_head" => prior[t] = NULL /\ next[t] # NULL
        /\ p = "del_middle" => Place = "not_last" /\ (prior[t] # NULL \/ next[t] = NULL)
  BY <1>2 DEF TestCase, At, Place
<1>4. Types' /\ Place' = p /\ pc'["handler"] = "idle" /\ It' = It
  <2>1. p \in Walked /\ p \notin Adding
    BY DEF Walked, Adding, Cases, Halves
  <2> QED BY <1>1, <1>3, <2>1, MainTypes DEF Types
<1>5. Calm /\ Its' = Its
  BY <1>1, <1>4 DEF Calm, Settled, Cases, Its
<1>6. UNCHANGED listVars
  BY DEF TestCase
<1>7. Sturdy'
  <2>1. ASSUME p = "del_only" PROVE In(y) \subseteq {t}
    <3>1. t \in Queued
      BY <1>1, <1>2 DEF Queued, Allocated, Unlinked
    <3>2. front[y] = t
      BY <1>2, <1>3, <2>1, <3>1 DEF Sturdy, PriorOK
    <3>3. HoldsNext({t}) /\ {t} \in SUBSET Node
      BY <1>3, <2>1 DEF HoldsNext
    <3> QED BY <3>2, <3>3 DEF Sturdy, Reached, Covers
  <2>2. p = "del_only" => In(Its)' \subseteq {It'}
    BY <1>2, <1>4, <1>5, <1>6, <2>1, Kept DEF In
  <2>3. DelOK'
    BY <1>1, <1>2, <1>3, <1>4, <2>2 DEF DelOK, Late
  <2> QED BY <1>5, <1>6, <2>3, StillSturdy
<1>8. Walking("main")' /\ Sound("main")'
  <2>1. Place \in Walked \ {"check"} /\ Place' \in Walked \ {"check"}
    BY <1>1, <1>4 DEF Walked, Cases, Halves
  <2>2. Walking("main")'
    BY <1>1, <1>5, <1>6, <2>1, MainStays, Kept
  <2> QED BY <1>4, <2>2 DEF Sound, Place, Halves
<1>9. ~ interrupted => LinksOK'
  <2> SUFFICES ASSUME ~ interrupted PROVE LinksOK'
    OBVIOUS
  <2>1. (\A x \in Index : Doubly(front[x], rear[x], In(x))) /\ ItsOK
    BY <1>1 DEF Whole, LinksOK, Halves
  <2>2. \A x \in Index : Doubly(front[x], rear[x], In(x))'
    BY <1>1, <1>5, <1>6, <2>1, Kept DEF Doubly
  <2>3. ItsOK'
    BY <1>1, <1>2, <1>3, <1>4, <2>1 DEF ItsOK, Cases, Halves, Used
  <2> QED BY <2>2, <2>3 DEF LinksOK
<1>10. Place' \notin {"close", "closed"}
  BY <1>4
<1> QED BY <1>1, <1>4, <1>7, <1>8, <1>9, <1>10, MainStep

\* next of a is led past t, which is not in its list any more.
LEMMA CoversCut ==
  ASSUME NEW t \in Node, NEW a \in Node, NEW F \in SUBSET Freed,
         next[a] \in F \cup {t}, \A f \in F : next[f] \in F \cup {t},
         \A m \in Node : next'[m] = IF m = a THEN next[t] ELSE next[m],
         NEW x, In(x)' \subseteq In(x) \ {t}, NEW pos, NEW C, Covers(pos, x, C)
  PROVE  Covers(pos, x, C)'
<1> SUFFICES ASSUME NEW S \in SUBSET Node, HoldsNext(S)', pos \in S \cup {NULL}
             PROVE  In(x)' \subseteq S \cup C
  BY DEF Covers
<1>1. \A m \in S : next'[m] \in S \cup {NULL}
  BY DEF HoldsNext
<1>2. CASE a \notin S
  <2>1. HoldsNext(S)
    BY <1>1, <1>2 DEF HoldsNext
  <2> QED BY <2>1 DEF Covers
<1>3. CASE a \in S
  <2> DEFINE T == S \cup F \cup {t}
  <2>1. next[t] \in S \cup {NULL}
    BY <1>1, <1>3
  <2>2. \A m \in S : next[m] \in T \cup {NULL}
    BY <1>1
  <2>3. HoldsNext(T) /\ T \in SUBSET Node
    BY <2>1, <2>2, Sets DEF HoldsNext
  <2>4. In(x) \subseteq T \cup C
    BY <2>3 DEF Covers
  <2>5. In(x) \cap F = {}
    BY Sets DEF In
  <2> QED BY <2>4, <2>5
<1> QED BY <1>2, <1>3

LEMMA LeadsCut ==
  ASSUME NEW a \in Allocated, \A m \in Node : m # a => next'[m] = next[m], Freed' = Freed,
         NEW p \in Node, p # a, NEW q, Leads(p, q)
  PROVE  Leads(p, q)'
<1>1. PICK G \in SUBSET Freed : /\ next[p] \in G \cup {q}
                                /\ \A f \in G : next[f] \in G \cup {q}
  BY DEF Leads
<1>2. next'[p] = next[p] /\ \A f \in G : next'[f] = next[f]
  BY Sets
<1> QED BY <1>1, <1>2 DEF Leads

\* The node leaves its list, or it is where it was.
LEMMA OutNow ==
  ASSUME UNCHANGED <<heap, key, temp>>, Place \notin Unlinked, Place' \in Unlinked
  PROVE  /\ Allocated' = Allocated /\ Freed' = Freed /\ It' = It /\ Its' = Its
         /\ Used(It)' <=> Used(It)
         /\ Queued = Allocated /\ Queued' = Queued \ {It}
         /\ \A x : In(x)' = In(x) \ {It}
<1>1. \A n : n \in Queued <=> n \in Allocated
  BY SameNodes
<1>2. \A n : n \in Queued' <=> n \in Queued \ {It}
  BY <1>1, SameNodes
<1>3. Queued = Allocated /\ Queued' = Queued \ {It}
  BY <1>1, <1>2
<1>4. \A x : In(x)' = In(x) \ {It}
  BY <1>3 DEF In
<1> QED BY <1>3, <1>4, SameNodes

LEMMA InStill ==
  ASSUME UNCHANGED <<heap, key, temp>>, Place \in Unlinked <=> Place' \in Unlinked
  PROVE  /\ Allocated' = Allocated /\ Freed' = Freed /\ It' = It /\ Its' = Its
         /\ Used(It)' <=> Used(It)
         /\ Queued' = Queued /\ \A x : In(x)' = In(x)
<1>1. \A n : n \in Queued' <=> n \in Queued
  BY SameNodes
<1>2. Queued' = Queued
  BY <1>1
<1>3. \A x : In(x)' = In(x)
  BY <1>2 DEF In
<1> QED BY <1>2, <1>3, SameNodes

\* A list whose nodes keep their pointers.
LEMMA DoublySame ==
  ASSUME NEW f, NEW r, NEW S, Doubly(f, r, S),
         \A n \in S : next'[n] = next[n] /\ prior'[n] = prior[n]
  PROVE  Doubly(f, r, S)'
<1>1. \A n \in S : /\ prior[n] = NULL <=> f = n
                   /\ prior[n] # NULL => prior[n] \in S /\ next[prior[n]] = n
                   /\ next[n] = NULL <=> r = n
                   /\ next[n] # NULL => next[n] \in S /\ prior[next[n]] = n
  BY DEF Doubly
<1>2. \A n \in S : /\ prior'[n] # NULL => prior'[n] \in S /\ next'[prior'[n]] = n
                   /\ next'[n] # NULL => next'[n] \in S /\ prior'[next'[n]] = n
  BY <1>1
<1> QED BY <1>1, <1>2 DEF Doubly

\* A node in a doubly linked list is not its own neighbour.
LEMMA NotItself ==
  ASSUME Sturdy, NEW x \in Index, Doubly(front[x], rear[x], In(x)), NEW t \in In(x)
  PROVE  next[t] # t /\ prior[t] # t
<1>1. /\ front[x] # NULL => front[x] \in In(x)
      /\ \A n \in In(x) : /\ prior[n] = NULL <=> front[x] = n
                          /\ prior[n] # NULL => prior[n] \in In(x) /\ next[prior[n]] = n
                          /\ next[n] # NULL => next[n] \in In(x) /\ prior[next[n]] = n
  BY DEF Doubly
<1>2. \A n \in In(x) : n \in Node /\ n # NULL
  BY Sets DEF In
<1>3. next[t] # t
  <2> SUFFICES ASSUME next[t] = t PROVE FALSE
    OBVIOUS
  <2> DEFINE S == In(x) \ {t}
  <2>1. front[x] \in S \cup {NULL} /\ \A n \in S : next[n] \in S \cup {NULL}
    BY <1>1, <1>2
  <2>2. HoldsNext(S) /\ S \in SUBSET Node
    BY <1>2, <2>1 DEF HoldsNext
  <2>3. In(x) \subseteq S
    BY <2>1, <2>2 DEF Sturdy, Reached, Covers
  <2> QED BY <2>3
<1> QED BY <1>1, <1>2, <1>3

LEMMA DelOnlyFirst ==
  ASSUME LInv, DelFirst, Place = "del_only", Interrupts, UNCHANGED fault
  PROVE  LInv'
<1> USE DEF LInv
<1>1. /\ pc["handler"] = "idle" /\ GoTo("main", "only_rear")
      /\ front' = [front EXCEPT ![Its] = NULL]
      /\ UNCHANGED <<heap, key, prior, next, rear, i, temp, checked>>
  BY DEF DelFirst, At, Place
<1>2. PICK t \in Node, y \in Index : t = It /\ y = Its /\ t # NULL /\ key[t] = y
  BY WalkedNode DEF Walked, Cases
<1>3. \A x \in Index : front'[x] = IF x = y THEN NULL ELSE front[x]
  BY <1>1, <1>2 DEF Types
<1>4. Types' /\ Place' = "only_rear" /\ pc'["handler"] = "idle"
  <2>1. front' \in [Index -> Pointer]
    BY <1>1, <1>2 DEF Types, Pointer
  <2> QED BY <1>1, <2>1, MainTypes DEF Adding, Walked, Halves, Types
<1>5. /\ Allocated' = Allocated /\ Freed' = Freed /\ It' = t /\ Its' = y
      /\ Used(It)' <=> Used(It)
      /\ Queued' = Queued \ {t} /\ \A x : In(x)' = In(x) \ {t}
      /\ In(y) \subseteq {t} /\ \A n \in Queued : n \in Node /\ n # NULL /\ key[n] \in Index
      /\ \A n \in Queued' : key[n] # y
  <2>1. In(y) \subseteq {t}
    BY <1>2 DEF Sturdy, DelOK
  <2>2. Queued' = Queued \ {t} /\ \A x : In(x)' = In(x) \ {t}
    BY <1>1, <1>2, <1>4, OutNow DEF Unlinked
  <2>3. \A n \in Queued : n \in Node /\ n # NULL /\ key[n] \in Index
    BY Sets DEF Types
  <2>4. \A n \in Queued' : key[n] # y
    BY <2>1, <2>2 DEF In
  <2> QED BY <1>1, <1>2, <2>1, <2>2, <2>3, <2>4, SameNodes
<1>6. /\ \A S : HoldsNext(S)' <=> HoldsNext(S)
      /\ \A m, n : Leads(m, n)' <=> Leads(m, n)
  BY <1>1, <1>5, SameNext
<1>7. SameList'
  BY <1>1, <1>3 DEF Sturdy, SameList
<1>8. Reached'
  <2> SUFFICES ASSUME NEW x \in Index, NEW S \in SUBSET Node, HoldsNext(S),
                      front'[x] \in S \cup {NULL}
               PROVE  In(x)' \subseteq S
    BY <1>6 DEF Reached, Covers
  <2>1. CASE x = y
    BY <1>5, <2>1
  <2>2. CASE x # y
    BY <1>3, <1>5, <2>2 DEF Sturdy, Reached, Covers
  <2> QED BY <2>1, <2>2
<1>9. Fresh'
  <2>1. \A n \in Node : heap[n] = "unused" => Apart(n)'
    BY <1>1, <1>3, NullAssumption DEF Sturdy, Fresh, Apart
  <2> QED BY <1>1, <1>4, <2>1 DEF Sturdy, Fresh, Early
<1>10. PriorOK'
  <2>1. \A n \in Queued' : prior[n] = NULL => front'[key[n]] = n
    BY <1>3, <1>5 DEF Sturdy, PriorOK
  <2> QED BY <1>1, <1>4, <1>5, <1>6, <2>1 DEF Sturdy, PriorOK
<1>11. NextOK'
  BY <1>1, <1>5 DEF Sturdy, NextOK
<1>12. FrontOK'
  BY <1>1, <1>3, <1>5, Sets DEF Sturdy, FrontOK
<1>13. RearOK'
  BY <1>1, <1>4, <1>5 DEF Sturdy, RearOK
<1>14. AddOK' /\ DelOK'
  <2>1. \A x \in Index : front'[x] # t
    BY <1>2, <1>3 DEF Sturdy, SameList
  <2>2. \A n \in Queued' : next[n] # t
    BY <1>2, <1>5 DEF Sturdy, SameList
  <2>3. In(Its)' = {}
    BY <1>5 DEF In
  <2> QED BY <1>1, <1>4, <1>5, <2>1, <2>2, <2>3 DEF AddOK, DelOK
<1>15. Walking("main")'
  BY <1>1, <1>4, <1>5, MainStays DEF Walked, Cases, Halves
<1>16. ~ interrupted => LinksOK' /\ Sound("main")'
  <2> SUFFICES ASSUME ~ interrupted PROVE LinksOK' /\ Sound("main")'
    OBVIOUS
  <2>1. (\A x \in Index : Doubly(front[x], rear[x], In(x))) /\ next[t] = NULL /\ Used(It)
    BY <1>2 DEF Whole, LinksOK, ItsOK, Halves, Cases
  <2>2. ASSUME NEW x \in Index, x # y PROVE Doubly(front[x], rear[x], In(x))'
    <3>1. In(x)' = In(x)
      BY <1>2, <1>5, <2>2 DEF In
    <3> QED BY <1>1, <1>3, <2>1, <2>2, <3>1 DEF Doubly
  <2>3. LinksOK'
    BY <1>2, <1>3, <1>4, <1>5, <2>1, <2>2 DEF LinksOK, ItsOK, Cases, Halves
  <2>4. Ahead("main")' = NULL
    BY <1>1, <1>2, <1>4, <2>1 DEF Ahead, Place, It
  <2> QED BY <1>4, <2>3, <2>4 DEF Sound, Place
<1>17. Sturdy'
  BY <1>7, <1>8, <1>9, <1>10, <1>11, <1>12, <1>13, <1>14 DEF Sturdy
<1>18. Place' \notin {"close", "closed"}
  BY <1>4
<1> QED BY <1>1, <1>4, <1>15, <1>16, <1>17, <1>18, MainStep

LEMMA DelLastFirst ==
  ASSUME LInv, DelFirst, Place = "del_last", Interrupts, UNCHANGED fault
  PROVE  LInv'
<1> USE DEF LInv
<1>1. /\ pc["handler"] = "idle" /\ GoTo("main", "last_next") /\ Used(It)
      /\ rear' = [rear EXCEPT ![Its] = prior[It]]
      /\ UNCHANGED <<heap, key, prior, next, front, i, temp, checked>>
  BY DEF DelFirst, At, Place
<1>2. PICK t \in Node, y \in Index :
        t = It /\ y = Its /\ t # NULL /\ key[t] = y /\ next[t] = NULL
  BY <1>1, WalkedNode DEF Walked, Cases, Sturdy, DelOK
<1>3. \A x \in Index : rear'[x] = IF x = y THEN prior[t] ELSE rear[x]
  BY <1>1, <1>2 DEF Types
<1>4. Types' /\ Place' = "last_next" /\ pc'["handler"] = "idle"
  <2>1. rear' \in [Index -> Pointer]
    BY <1>1, <1>2 DEF Types
  <2> QED BY <1>1, <2>1, MainTypes DEF Adding, Walked, Halves, Types
<1>5. /\ Allocated' = Allocated /\ Freed' = Freed /\ It' = t /\ Its' = y
      /\ Used(It)' /\ Queued' = Queued /\ \A x : In(x)' = In(x)
  BY <1>1, <1>2, <1>4, InStill DEF Unlinked
<1>6. /\ \A S : HoldsNext(S)' <=> HoldsNext(S)
      /\ \A m, n : Leads(m, n)' <=> Leads(m, n)
  BY <1>1, <1>5, SameNext
<1>7. SameList' /\ Reached'
  BY <1>1, <1>2, <1>3, <1>5, <1>6 DEF Sturdy, SameList, Reached, Covers
<1>8. Fresh'
  <2>1. \A n \in Node : heap[n] = "unused" => Apart(n)'
    BY <1>1, <1>2, <1>3 DEF Sturdy, Fresh, Apart
  <2> QED BY <1>1, <1>4, <2>1 DEF Sturdy, Fresh, Early
<1>9. PriorOK'
  BY <1>1, <1>4, <1>5, <1>6 DEF Sturdy, PriorOK
<1>10. NextOK' /\ FrontOK'
  BY <1>1, <1>5 DEF Sturdy, NextOK, FrontOK
<1>11. RearOK'
  BY <1>1, <1>3, <1>4, <1>5 DEF Sturdy, RearOK
<1>12. AddOK' /\ DelOK'
  <2>1. LastOK'
    BY <1>1, <1>2, <1>3, <1>5 DEF LastOK
  <2> QED BY <1>4, <2>1 DEF AddOK, DelOK, Late
<1>13. Walking("main")'
  BY <1>1, <1>4, <1>5, MainStays DEF Walked, Cases, Halves
<1>14. ~ interrupted => LinksOK' /\ Sound("main")'
  <2> SUFFICES ASSUME ~ interrupted PROVE LinksOK' /\ Sound("main")'
    OBVIOUS
  <2>1. (\A x \in Index : Doubly(front[x], rear[x], In(x))) /\ prior[t] # NULL
    BY <1>2 DEF Whole, LinksOK, ItsOK, Halves, Cases
  <2>2. \A x \in Index : x # y => Doubly(front[x], rear[x], In(x))'
    BY <1>1, <1>3, <1>5, <2>1 DEF Doubly
  <2>3. t \in In(y)
    BY <1>1, <1>2 DEF In, Queued, Allocated, Used, Unlinked
  <2>4. rear[y] = t
    BY <1>2, <2>1, <2>3 DEF Doubly
  <2>5. Doubly(front[Its], It, In(Its))'
    <3>1. Doubly(front[y], t, In(y))
      BY <2>1, <2>4
    <3>2. In(Its)' = In(y)
      BY <1>5 DEF In
    <3> QED BY <1>1, <1>5, <3>1, <3>2 DEF Doubly
  <2>6. LinksOK'
    BY <1>1, <1>2, <1>3, <1>4, <1>5, <2>1, <2>2, <2>5 DEF LinksOK, ItsOK, Cases, Halves
  <2>7. Ahead("main")' = NULL
    BY <1>1, <1>2, <1>4 DEF Ahead, Place, It
  <2> QED BY <1>4, <2>6, <2>7 DEF Sound, Place
<1>15. Sturdy'
  BY <1>7, <1>8, <1>9, <1>10, <1>11, <1>12 DEF Sturdy
<1>16. Place' \notin {"close", "closed"}
  BY <1>4
<1> QED BY <1>1, <1>4, <1>13, <1>14, <1>15, <1>16, MainStep

LEMMA DelHeadFirst ==
  ASSUME LInv, DelFirst, Place = "del_head", Interrupts, UNCHANGED fault
  PROVE  LInv'
<1> USE DEF LInv
<1>1. /\ pc["handler"] = "idle" /\ GoTo("main", "head_prior") /\ Used(It)
      /\ front' = [front EXCEPT ![Its] = next[It]]
      /\ UNCHANGED <<heap, key, prior, next, rear, i, temp, checked>>
  BY DEF DelFirst, At, Place
<1>2. PICK t \in Node, y \in Index :
        t = It /\ y = Its /\ t # NULL /\ key[t] = y /\ prior[t] = NULL
  BY <1>1, WalkedNode DEF Walked, Cases, Sturdy, DelOK
<1>3. \A x \in Index : front'[x] = IF x = y THEN next[t] ELSE front[x]
  BY <1>1, <1>2 DEF Types
<1>4. Types' /\ Place' = "head_prior" /\ pc'["handler"] = "idle"
  <2>1. front' \in [Index -> Pointer]
    BY <1>1, <1>2 DEF Types
  <2> QED BY <1>1, <2>1, MainTypes DEF Adding, Walked, Halves, Types
<1>5. /\ Allocated' = Allocated /\ Freed' = Freed /\ It' = t /\ Its' = y /\ Used(It)'
      /\ Queued' = Queued \ {t} /\ \A x : In(x)' = In(x) \ {t}
      /\ \A n \in Queued : n \in Node /\ n # NULL /\ key[n] \in Index
      /\ t \in Queued /\ t \in In(y) /\ front[y] = t
  <2>1. /\ Allocated' = Allocated /\ Freed' = Freed /\ It' = t /\ Its' = y /\ Used(It)'
        /\ Queued' = Queued \ {t} /\ \A x : In(x)' = In(x) \ {t}
    BY <1>1, <1>2, <1>4, OutNow DEF Unlinked
  <2>2. t \in Queued
    BY <1>1, <1>2 DEF Queued, Allocated, Used, Unlinked
  <2>3. front[y] = t
    BY <1>2, <2>2 DEF Sturdy, PriorOK
  <2> QED BY <1>2, <2>1, <2>2, <2>3, Sets DEF Types, In
<1>6. /\ \A S : HoldsNext(S)' <=> HoldsNext(S)
      /\ \A m, n : Leads(m, n)' <=> Leads(m, n)
  BY <1>1, <1>5, SameNext
<1>7. \A n \in Queued : next[n] # t
  BY <1>5 DEF Sturdy, FrontOK
<1>8. SameList'
  BY <1>1, <1>2, <1>3 DEF Sturdy, SameList
<1>9. Reached'
  <2> SUFFICES ASSUME NEW x \in Index, NEW S \in SUBSET Node, HoldsNext(S),
                      front'[x] \in S \cup {NULL}
               PROVE  In(x)' \subseteq S
    BY <1>6 DEF Reached, Covers
  <2>1. CASE x = y
    <3>1. HoldsNext(S \cup {t}) /\ S \cup {t} \in SUBSET Node
      BY <1>3, <2>1 DEF HoldsNext
    <3>2. In(x) \subseteq S \cup {t}
      BY <1>5, <2>1, <3>1 DEF Sturdy, Reached, Covers
    <3> QED BY <1>5, <3>2
  <2>2. CASE x # y
    BY <1>3, <1>5, <2>2 DEF Sturdy, Reached, Covers
  <2> QED BY <2>1, <2>2
<1>10. Fresh'
  <2>1. \A n \in Node : heap[n] = "unused" => Apart(n)'
    BY <1>1, <1>2, <1>3 DEF Sturdy, Fresh, Apart
  <2> QED BY <1>1, <1>4, <2>1 DEF Sturdy, Fresh, Early
<1>11. PriorOK'
  <2>1. \A n \in Queued' : prior[n] = NULL => front'[key[n]] = n /\ key[n] # y
    BY <1>3, <1>5 DEF Sturdy, PriorOK
  <2> QED BY <1>1, <1>4, <1>5, <1>6, <2>1 DEF Sturdy, PriorOK
<1>12. NextOK'
  BY <1>1, <1>5 DEF Sturdy, NextOK
<1>13. FrontOK'
  <2> SUFFICES ASSUME NEW x \in Index, front'[x] \in Queued'
               PROVE  /\ prior[front'[x]] \notin Queued'
                      /\ \A n \in Queued' : next[n] # front'[x]
    BY <1>1 DEF FrontOK
  <2>1. CASE x = y
    BY <1>3, <1>5, <2>1, OneNext
  <2>2. CASE x # y
    BY <1>3, <1>5, <2>2 DEF Sturdy, FrontOK
  <2> QED BY <2>1, <2>2
<1>14. RearOK'
  BY <1>1, <1>4, <1>5 DEF Sturdy, RearOK
<1>15. AddOK' /\ DelOK'
  <2>1. \A x \in Index : front'[x] # t
    BY <1>2, <1>3, <1>5, <1>7 DEF Sturdy, SameList
  <2> QED BY <1>1, <1>4, <1>5, <1>7, <2>1 DEF AddOK, DelOK
<1>16. Walking("main")'
  BY <1>1, <1>4, <1>5, MainStays DEF Walked, Cases, Halves
<1>17. ~ interrupted => LinksOK' /\ Sound("main")'
  <2> SUFFICES ASSUME ~ interrupted PROVE LinksOK' /\ Sound("main")'
    OBVIOUS
  <2>1. (\A x \in Index : Doubly(front[x], rear[x], In(x))) /\ next[t] # NULL
    BY <1>2 DEF Whole, LinksOK, ItsOK, Halves, Cases
  <2>2. ASSUME NEW x \in Index, x # y PROVE Doubly(front[x], rear[x], In(x))'
    <3>1. In(x)' = In(x)
      BY <1>2, <1>5, <2>2 DEF In
    <3> QED BY <1>1, <1>3, <2>1, <2>2, <3>1 DEF Doubly
  <2>3. Doubly(It, rear[Its], In(Its) \cup {It})'
    <3>1. Doubly(t, rear[y], In(y))
      BY <1>5, <2>1
    <3>2. In(Its)' \cup {It'} = In(y)
      BY <1>5 DEF In
    <3> QED BY <1>1, <1>5, <3>1, <3>2 DEF Doubly
  <2>4. LinksOK'
    BY <1>1, <1>2, <1>3, <1>4, <1>5, <2>1, <2>2, <2>3 DEF LinksOK, ItsOK, Cases, Halves
  <2>5. next[t] \in Queued'
    BY <1>5, <1>7, <2>1 DEF Doubly, In
  <2>6. Ahead("main")' \in Queued'
    BY <1>1, <1>2, <1>4, <2>5 DEF Ahead, Place, It
  <2> QED BY <1>4, <2>4, <2>6 DEF Sound, Place
<1>18. Sturdy'
  BY <1>8, <1>9, <1>10, <1>11, <1>12, <1>13, <1>14, <1>15 DEF Sturdy
<1>19. Place' \notin {"close", "closed"}
  BY <1>4
<1> QED BY <1>1, <1>4, <1>16, <1>17, <1>18, <1>19, MainStep

LEMMA DelMiddleFirst ==
  ASSUME LInv, DelFirst, Place = "del_middle", Interrupts, UNCHANGED fault
  PROVE  LInv'
<1> USE DEF LInv
<1>1. /\ pc["handler"] = "idle" /\ GoTo("main", "middle_prior")
      /\ Used(It) /\ Used(prior[It])
      /\ next' = [next EXCEPT ![prior[It]] = next[It]]
      /\ UNCHANGED <<heap, key, prior, front, rear, i, temp, checked>>
  BY DEF DelFirst, At, Place
<1>2. PICK t \in Node, y \in Index, a \in Node :
        /\ t = It /\ y = Its /\ t # NULL /\ key[t] = y /\ heap[t] = "used"
        /\ a = prior[t] /\ heap[a] = "used" /\ a # NULL
  BY <1>1, WalkedNode, NullAssumption DEF Walked, Cases, Used
<1> PICK n : n = next[t]
  OBVIOUS
<1>3. \A m \in Node : next'[m] = IF m = a THEN n ELSE next[m]
  BY <1>1, <1>2 DEF Types
<1>4. Types' /\ Place' = "middle_prior" /\ pc'["handler"] = "idle"
  <2>1. next' \in [Node -> Pointer]
    BY <1>1, <1>2 DEF Types
  <2> QED BY <1>1, <2>1, MainTypes DEF Adding, Walked, Halves, Types
<1>5. /\ Allocated' = Allocated /\ Freed' = Freed /\ It' = t /\ Its' = y /\ Used(It)'
      /\ Queued' = Queued \ {t} /\ \A x : In(x)' = In(x) \ {t}
      /\ \A m \in Queued : m \in Node /\ m # NULL /\ m \in Allocated /\ key[m] \in Index
      /\ t \in Queued /\ t \in In(y) /\ a \in Queued /\ key[a] = y
  <2>1. /\ Allocated' = Allocated /\ Freed' = Freed /\ It' = t /\ Its' = y /\ Used(It)'
        /\ Queued = Allocated /\ Queued' = Queued \ {t} /\ \A x : In(x)' = In(x) \ {t}
    BY <1>1, <1>2, <1>4, OutNow DEF Unlinked
  <2>2. t \in Queued /\ a \in Queued
    BY <1>2, <2>1 DEF Allocated
  <2>3. key[a] = y
    BY <1>2 DEF Sturdy, SameList
  <2> QED BY <1>2, <2>1, <2>2, <2>3, Sets DEF Types, In
<1>6. PICK F \in SUBSET Freed : /\ next[a] \in F \cup {t}
                                /\ \A f \in F : next[f] \in F \cup {t}
  <2>1. Leads(prior[t], t)
    BY <1>2, <1>5 DEF Sturdy, PriorOK
  <2> QED BY <1>2, <2>1 DEF Leads
<1>7. \A p, q \in Queued : prior[p] = prior[q] /\ prior[p] \in Allocated => p = q
  BY DEF Sturdy, PriorOK
<1>8. /\ \A p, q \in Queued : next[p] = next[q] /\ key[p] = key[q]
                                /\ next[p] \in Queued \cup {NULL} => p = q
      /\ \A p, q \in Queued : next[p] = q /\ prior[q] \in Queued \cup {NULL} => prior[q] = p
  BY DEF Sturdy, NextOK
<1>9. SameList'
  BY <1>1, <1>2, <1>3, <1>5 DEF Sturdy, SameList
<1>10. ASSUME NEW pos, NEW x, NEW C, Covers(pos, x, C) PROVE Covers(pos, x, C)'
  BY <1>3, <1>5, <1>6, <1>10, CoversCut
<1>11. Reached'
  <2> SUFFICES ASSUME NEW x \in Index PROVE Covers(front[x], x, {})'
    BY DEF Reached
  <2> PICK f : f = front[x]
    OBVIOUS
  <2>1. Covers(f, x, {})'
    BY <1>10 DEF Sturdy, Reached
  <2> QED BY <1>1, <2>1 DEF Covers
<1>12. Fresh'
  <2>1. \A m \in Node : heap[m] = "unused" => Apart(m)'
    BY <1>1, <1>2, <1>3 DEF Sturdy, Fresh, Apart
  <2> QED BY <1>1, <1>4, <2>1 DEF Sturdy, Fresh, Early
<1>13. PriorOK'
  <2>1. ASSUME NEW p \in Queued', prior[p] \in Allocated PROVE Leads(prior[p], p)'
    <3>1. PICK b \in Node : b = prior[p] /\ b # a
      BY <1>2, <1>5, <1>7, <2>1, Sets
    <3>2. Leads(b, p)
      BY <1>5, <2>1, <3>1 DEF Sturdy, PriorOK
    <3>3. Leads(b, p)'
      BY <1>3, <1>5, <3>1, <3>2, LeadsCut
    <3> QED BY <1>1, <3>1, <3>3 DEF Leads
  <2> QED BY <1>1, <1>4, <1>5, <2>1 DEF Sturdy, PriorOK
<1>14. NextOK'
  <2>1. ASSUME NEW p \in Queued', NEW q \in Queued', next'[p] = next'[q], key[p] = key[q],
               next'[p] \in Queued' \cup {NULL}
        PROVE  p = q
    BY <1>2, <1>3, <1>5, <1>8, <2>1
  <2>2. ASSUME NEW p \in Queued', NEW q \in Queued', next'[p] = q,
               prior[q] \in Queued' \cup {NULL}
        PROVE  prior[q] = p
    BY <1>2, <1>3, <1>5, <1>8, <2>2
  <2> QED BY <1>1, <2>1, <2>2 DEF NextOK
<1>15. /\ \A x \in Index : front[x] # t
       /\ \A p \in Queued' : next'[p] # t
  BY <1>2, <1>3, <1>5, <1>8 DEF Sturdy, FrontOK
<1>16. FrontOK'
  BY <1>1, <1>3, <1>5 DEF Sturdy, FrontOK
<1>17. RearOK'
  <2>1. next[a] # NULL
    BY <1>5, <1>6, Sets
  <2>2. ASSUME NEW x \in Index, rear[x] \in Allocated PROVE next'[rear[x]] = NULL
    BY <1>3, <2>1, <2>2, Sets DEF Sturdy, RearOK
  <2>3. \A x \in Index : rear[x] = NULL => In(x)' = {}
    BY <1>5 DEF Sturdy, RearOK
  <2> QED BY <1>1, <1>5, <2>2, <2>3 DEF RearOK
<1>18. next'[t] = n /\ next'[a] = n
  BY <1>2, <1>3
<1>19. MiddleOK'
  <2>1. \A x, z : x = a /\ Leads(x, z)' => Leads(prior[It], z)'
    BY <1>1, <1>2, <1>5 DEF Leads
  <2>2. Leads(prior[It], next[It])'
    <3>1. {} \in SUBSET Freed' /\ next'[prior'[It']] \in {} \cup {next'[It']}
      BY <1>1, <1>2, <1>5, <1>18
    <3> QED BY <3>1 DEF Leads
  <2>3. ASSUME NEW q \in Queued' PROVE prior[q] # a
    BY <1>2, <1>5, <1>7
  <2>4. ASSUME NEW q \in Queued', prior[q] = t PROVE Leads(prior[It], q)'
    <3>1. Leads(t, q)
      BY <1>5, <2>4 DEF Sturdy, PriorOK
    <3>2. PICK G \in SUBSET Freed : /\ n \in G \cup {q}
                                    /\ \A f \in G : next[f] \in G \cup {q}
      BY <3>1 DEF Leads
    <3>3. \A f \in G : next'[f] = next[f]
      BY <1>3, <1>5, Sets
    <3>4. Leads(a, q)'
      BY <1>5, <1>18, <3>2, <3>3 DEF Leads
    <3> QED BY <2>1, <3>4
  <2>5. ASSUME NEW q \in Queued', next'[q] = n, n \in Queued' PROVE q = a
    <3>1. q = a \/ (next[q] = next[t] /\ next[q] \in Queued)
      BY <1>3, <1>5, <2>5
    <3> QED BY <1>5, <3>1, OneNext
  <2>6. n \in Queued' => n # front[y]
    BY <1>5 DEF Sturdy, FrontOK
  <2> QED BY <1>1, <1>2, <1>5, <1>18, <2>2, <2>3, <2>4, <2>5, <2>6 DEF MiddleOK
<1>20. AddOK' /\ DelOK'
  BY <1>1, <1>4, <1>5, <1>15, <1>19 DEF AddOK, DelOK
<1>21. Walking("main")'
  <2>1. i["main"] \in Index /\ next'[It'] = n
    BY <1>5, <1>18, Sets DEF Types
  <2> PICK x : x = i["main"]
    OBVIOUS
  <2> PICK C : C = checked["main"]
    OBVIOUS
  <2>2. Covers(n, x, C)
    BY <1>2, WalkedNode DEF Walked, Cases
  <2>3. Covers(n, x, C)'
    BY <1>10, <2>2
  <2>4. Covers(next[It], i["main"], checked["main"])'
    BY <1>1, <2>1, <2>3 DEF Covers
  <2> QED BY <1>1, <1>4, <1>5, <2>4, MainOn DEF Walked, Cases, Halves
<1>22. ~ interrupted => LinksOK' /\ Sound("main")'
  <2> SUFFICES ASSUME ~ interrupted PROVE LinksOK' /\ Sound("main")'
    OBVIOUS
  <2>1. (\A x \in Index : Doubly(front[x], rear[x], In(x))) /\ n # NULL
    BY <1>2 DEF Whole, LinksOK, ItsOK, Halves, Cases
  <2>2. ASSUME NEW x \in Index, x # y PROVE Doubly(front[x], rear[x], In(x))'
    <3>1. In(x)' = In(x) /\ \A m \in In(x) : m \in Node /\ m # a
      BY <1>2, <1>5, <2>2 DEF In
    <3> PICK f : f = front[x]
      OBVIOUS
    <3> PICK r : r = rear[x]
      OBVIOUS
    <3> PICK S : S = In(x)
      OBVIOUS
    <3>2. Doubly(f, r, S)'
      BY <1>1, <1>3, <2>1, <3>1, DoublySame
    <3> QED BY <1>1, <3>1, <3>2 DEF Doubly
  <2>3. DoublyBut(It, front[Its], rear[Its], In(Its))'
    <3>1. next[t] # t /\ prior[t] # t
      BY <1>5, <2>1, NotItself
    <3>2. /\ front[y] \in In(y) /\ rear[y] \in In(y)
          /\ \A p \in In(y) :
               /\ prior[p] = NULL <=> front[y] = p
               /\ prior[p] # NULL => prior[p] \in In(y) /\ next[prior[p]] = p
               /\ next[p] = NULL <=> rear[y] = p
               /\ next[p] # NULL => next[p] \in In(y) /\ prior[next[p]] = p
      <4>1. Doubly(front[y], rear[y], In(y)) /\ front[y] # NULL
        BY <1>5, <2>1, Exhausted DEF Sturdy, Reached
      <4> QED BY <4>1 DEF Doubly
    <3>3. /\ a \in In(y) /\ n \in In(y) /\ a # t /\ n # t
          /\ front[y] # t /\ rear[y] # t
          /\ next[a] = t /\ prior[n] = t
      BY <1>2, <1>5, <2>1, <3>1, <3>2
    <3>4. \A p \in In(y) : p \in Node
      BY <1>5 DEF In
    <3>5. In(Its)' = In(y) \ {t}
      BY <1>5 DEF In
    <3>6. ASSUME NEW p \in In(y) \ {t}
          PROVE  /\ prior[p] = NULL <=> front[y] = p
                 /\ prior[p] # NULL /\ p # n =>
                      prior[p] \in In(y) \ {t} /\ next'[prior[p]] = p
      <4>1. ASSUME prior[p] # NULL, p # n
            PROVE  prior[p] \in In(y) \ {t} /\ next'[prior[p]] = p
        <5>1. prior[p] \in In(y) /\ next[prior[p]] = p /\ prior[p] # t /\ prior[p] # a
          BY <3>2, <3>3, <4>1
        <5> QED BY <1>3, <3>4, <5>1
      <4> QED BY <3>2, <4>1
    <3>7. ASSUME NEW p \in In(y) \ {t}
          PROVE  /\ next'[p] = NULL <=> rear[y] = p
                 /\ next'[p] # NULL /\ p # a =>
                      next'[p] \in In(y) \ {t} /\ prior[next'[p]] = p
      <4>1. next'[p] = IF p = a THEN n ELSE next[p]
        BY <1>3, <3>4
      <4>2. CASE p = a
        BY <2>1, <3>2, <3>3, <4>1, <4>2, <1>2
      <4>3. CASE p # a
        <5>1. next[p] # t
          BY <1>2, <3>2, <4>3
        <5> QED BY <3>2, <4>1, <4>3, <5>1
      <4> QED BY <4>2, <4>3
    <3> QED BY <1>1, <1>2, <1>5, <1>18, <3>2, <3>3, <3>5, <3>6, <3>7 DEF DoublyBut
  <2>4. LinksOK'
    BY <1>2, <1>4, <1>5, <2>2, <2>3 DEF LinksOK, ItsOK, Cases, Halves
  <2>5. n \in Queued'
    <3>1. n \in In(y) /\ n # t
      BY <1>5, <2>1, NotItself DEF Doubly
    <3> QED BY <1>5, <3>1 DEF In
  <2>6. Ahead("main")' \in Queued'
    <3>1. Ahead("main")' = next'[It']
      BY <1>4 DEF Ahead, Place, It
    <3> QED BY <1>5, <1>18, <2>5, <3>1
  <2> QED BY <1>4, <2>4, <2>6 DEF Sound, Place
<1>23. Sturdy'
  BY <1>9, <1>11, <1>12, <1>13, <1>14, <1>16, <1>17, <1>20 DEF Sturdy
<1>24. Place' \notin {"close", "closed"}
  BY <1>4
<1> QED BY <1>1, <1>4, <1>21, <1>22, <1>23, <1>24, MainStep

\* The second assignment is over: the walk goes on as it would have.
LEMMA FreeSound ==
  ASSUME LInv, ~ interrupted, Place \in Halves, Place' = "free",
         UNCHANGED <<heap, temp>>, next'[It] = next[It], Queued' = Queued
  PROVE  Sound("main")'
<1>1. Used(It) /\ (next[It] = NULL \/ next[It] \in Queued)
  BY Sets DEF LInv, Whole, LinksOK, ItsOK, Sound, Ahead, Place, It, Halves
<1>2. Ahead("main")' = next'[It] /\ Used(temp["main"])'
  BY <1>1 DEF Ahead, Place, It, Used
<1> QED BY <1>1, <1>2 DEF Sound, Place

LEMMA DelOnlySecond ==
  ASSUME LInv, DelSecond, Place = "only_rear", Interrupts, UNCHANGED fault
  PROVE  LInv'
<1> USE DEF LInv
<1>1. /\ pc["handler"] = "idle" /\ GoTo("main", "free")
      /\ rear' = [rear EXCEPT ![Its] = NULL]
      /\ UNCHANGED <<heap, key, prior, next, front, i, temp, checked>>
  BY DEF DelSecond, At, Place
<1>2. PICK t \in Node, y \in Index :
        t = It /\ y = Its /\ t # NULL /\ key[t] = y /\ In(y) = {}
  BY WalkedNode DEF Walked, Halves, Sturdy, DelOK
<1>3. \A x \in Index : rear'[x] = IF x = y THEN NULL ELSE rear[x]
  BY <1>1, <1>2 DEF Types
<1>4. Types' /\ Place' = "free" /\ pc'["handler"] = "idle"
  <2>1. rear' \in [Index -> Pointer]
    BY <1>1, <1>2 DEF Types, Pointer
  <2> QED BY <1>1, <2>1, MainTypes DEF Adding, Walked, Types
<1>5. /\ Allocated' = Allocated /\ Freed' = Freed /\ It' = t /\ Its' = y
      /\ Used(It)' <=> Used(It)
      /\ Queued' = Queued /\ \A x : In(x)' = In(x)
  BY <1>1, <1>2, <1>4, InStill DEF Unlinked
<1>6. /\ \A S : HoldsNext(S)' <=> HoldsNext(S)
      /\ \A m, n : Leads(m, n)' <=> Leads(m, n)
  BY <1>1, <1>5, SameNext
<1>7. SameList' /\ Reached'
  BY <1>1, <1>3, <1>5, <1>6 DEF Sturdy, SameList, Reached, Covers
<1>8. Fresh'
  <2>1. \A n \in Node : heap[n] = "unused" => Apart(n)'
    BY <1>1, <1>3, NullAssumption DEF Sturdy, Fresh, Apart
  <2> QED BY <1>1, <1>4, <2>1 DEF Sturdy, Fresh, Early
<1>9. PriorOK'
  BY <1>1, <1>4, <1>5, <1>6 DEF Sturdy, PriorOK
<1>10. NextOK' /\ FrontOK'
  BY <1>1, <1>5 DEF Sturdy, NextOK, FrontOK
<1>11. RearOK'
  BY <1>1, <1>2, <1>3, <1>4, <1>5, Sets DEF Sturdy, RearOK
<1>12. AddOK' /\ DelOK'
  BY <1>1, <1>2, <1>4, <1>5 DEF Sturdy, AddOK, DelOK, Late
<1>13. Walking("main")'
  BY <1>1, <1>4, <1>5, MainStays DEF Walked, Cases, Halves
<1>14. ~ interrupted => LinksOK' /\ Sound("main")'
  <2> SUFFICES ASSUME ~ interrupted PROVE LinksOK' /\ Sound("main")'
    OBVIOUS
  <2>1. (\A x \in Index : x # y => Doubly(front[x], rear[x], In(x))) /\ front[y] = NULL
    BY <1>2 DEF Whole, LinksOK, ItsOK, Halves, Cases
  <2>2. \A x \in Index : Doubly(front[x], rear[x], In(x))'
    BY <1>1, <1>2, <1>3, <1>5, <2>1 DEF Doubly
  <2>3. LinksOK'
    BY <1>4, <2>2 DEF LinksOK, ItsOK, Cases, Halves
  <2> QED BY <1>1, <1>4, <1>5, <2>3, FreeSound DEF Halves
<1>15. Sturdy'
  BY <1>7, <1>8, <1>9, <1>10, <1>11, <1>12 DEF Sturdy
<1>16. Place' \notin {"close", "closed"}
  BY <1>4
<1> QED BY <1>1, <1>4, <1>13, <1>14, <1>15, <1>16, MainStep

\* The handler has deleted the last node, and next of the one before is NULL.
LEMMA DelLastGone ==
  ASSUME LInv, DelSecond, Place = "last_next", ~ Used(It), Interrupts, UNCHANGED fault
  PROVE  LInv'
<1> USE DEF LInv
<1>1. /\ pc["handler"] = "idle" /\ GoTo("main", "free") /\ Used(rear[Its])
      /\ next' = [next EXCEPT ![rear[Its]] = NULL]
      /\ UNCHANGED <<heap, key, prior, front, rear, i, temp, checked>>
  BY DEF DelSecond, At, Place
<1>2. PICK t \in Node, y \in Index, r \in Node :
        /\ t = It /\ y = Its /\ t # NULL /\ key[t] = y /\ heap[t] # "used"
        /\ r = rear[y] /\ heap[r] = "used" /\ next[r] = NULL
  BY <1>1, WalkedNode DEF Walked, Halves, Used, Sturdy, DelOK, LastOK, Allocated
<1>3. next' = next
  BY <1>1, <1>2 DEF Types
<1>4. Types' /\ Place' = "free" /\ pc'["handler"] = "idle"
  BY <1>1, <1>3, MainTypes DEF Adding, Walked, Types
<1>5. /\ Allocated' = Allocated /\ Freed' = Freed /\ It' = t /\ Its' = y /\ ~ Used(It)'
      /\ Queued' = Queued /\ \A x : In(x)' = In(x)
  <2>1. t \notin Allocated
    BY <1>2 DEF Allocated
  <2>2. Queued' = Queued \ {t} /\ t \notin Queued /\ \A x : In(x)' = In(x) \ {t} /\ t \notin In(x)
    BY <1>1, <1>2, <1>4, <2>1, OutNow, Sets DEF Unlinked, In
  <2>3. Queued' = Queued /\ \A x : In(x)' = In(x)
    BY <2>2
  <2> QED BY <1>1, <1>2, <2>3, SameNodes
<1>6. /\ \A S : HoldsNext(S)' <=> HoldsNext(S)
      /\ \A m, n : Leads(m, n)' <=> Leads(m, n)
  BY <1>3, <1>5, SameNext
<1>7. SameList' /\ Reached'
  BY <1>1, <1>3, <1>5, <1>6 DEF Sturdy, SameList, Reached, Covers
<1>8. Fresh'
  BY <1>1, <1>3, <1>4 DEF Sturdy, Fresh, Apart, Early
<1>9. PriorOK'
  BY <1>1, <1>4, <1>5, <1>6 DEF Sturdy, PriorOK
<1>10. NextOK' /\ FrontOK'
  BY <1>1, <1>3, <1>5 DEF Sturdy, NextOK, FrontOK
<1>11. RearOK'
  BY <1>1, <1>2, <1>3, <1>4, <1>5, NullAssumption DEF Sturdy, RearOK
<1>12. AddOK' /\ DelOK'
  BY <1>4, <1>5 DEF AddOK, DelOK
<1>13. Walking("main")'
  BY <1>1, <1>3, <1>4, <1>5, MainStays DEF Walked, Cases, Halves
<1>14. interrupted
  BY DEF Whole, LinksOK, ItsOK, Halves
<1>15. Sturdy'
  BY <1>7, <1>8, <1>9, <1>10, <1>11, <1>12 DEF Sturdy
<1>16. Place' \notin {"close", "closed"}
  BY <1>4
<1> QED BY <1>1, <1>4, <1>13, <1>14, <1>15, <1>16, MainStep

LEMMA DelLastSecond ==
  ASSUME LInv, DelSecond, Place = "last_next", Used(It), Interrupts, UNCHANGED fault
  PROVE  LInv'
<1> USE DEF LInv
<1>1. /\ pc["handler"] = "idle" /\ GoTo("main", "free") /\ Used(rear[Its])
      /\ next' = [next EXCEPT ![rear[Its]] = NULL]
      /\ UNCHANGED <<heap, key, prior, front, rear, i, temp, checked>>
  BY DEF DelSecond, At, Place
<1>2. PICK t \in Node, y \in Index, r \in Node :
        /\ t = It /\ y = Its /\ t # NULL /\ key[t] = y /\ heap[t] = "used"
        /\ next[t] = NULL /\ prior[t] = r
        /\ r = rear[y] /\ heap[r] = "used" /\ r # NULL
  BY <1>1, WalkedNode, NullAssumption
     DEF Walked, Halves, Used, Sturdy, DelOK, LastOK, Allocated
<1>3. \A m \in Node : next'[m] = IF m = r THEN NULL ELSE next[m]
  BY <1>1, <1>2 DEF Types
<1>4. Types' /\ Place' = "free" /\ pc'["handler"] = "idle"
  <2>1. next' \in [Node -> Pointer]
    BY <1>1, <1>2 DEF Types, Pointer
  <2> QED BY <1>1, <2>1, MainTypes DEF Adding, Walked, Types
<1>5. /\ Allocated' = Allocated /\ Freed' = Freed /\ It' = t /\ Its' = y /\ Used(It)'
      /\ Queued' = Queued \ {t} /\ \A x : In(x)' = In(x) \ {t}
      /\ \A m \in Queued : m \in Node /\ m # NULL /\ m \in Allocated /\ key[m] \in Index
      /\ t \in Queued /\ t \in In(y) /\ r \in Queued /\ key[r] = y
  <2>1. /\ Allocated' = Allocated /\ Freed' = Freed /\ It' = t /\ Its' = y /\ Used(It)'
        /\ Queued = Allocated /\ Queued' = Queued \ {t} /\ \A x : In(x)' = In(x) \ {t}
    BY <1>1, <1>2, <1>4, OutNow DEF Unlinked
  <2>2. t \in Queued /\ r \in Queued
    BY <1>2, <2>1 DEF Allocated
  <2>3. key[r] = y
    BY <1>2 DEF Sturdy, SameList
  <2> QED BY <1>2, <2>1, <2>2, <2>3, Sets DEF Types, In
<1>6. PICK F \in SUBSET Freed : /\ next[r] \in F \cup {t}
                                /\ \A f \in F : next[f] \in F \cup {t}
  <2>1. Leads(prior[t], t)
    BY <1>2, <1>5 DEF Sturdy, PriorOK
  <2> QED BY <1>2, <2>1 DEF Leads
<1>7. /\ \A p, q \in Queued : prior[p] = prior[q] /\ prior[p] \in Allocated => p = q
      /\ r # t
  <2>1. r # t
    BY <1>2, <1>6, Sets
  <2> QED BY <2>1 DEF Sturdy, PriorOK
<1>8. /\ \A p, q \in Queued : next[p] = next[q] /\ key[p] = key[q]
                                /\ next[p] \in Queued \cup {NULL} => p = q
      /\ \A p, q \in Queued : next[p] = q /\ prior[q] \in Queued \cup {NULL} => prior[q] = p
  BY DEF Sturdy, NextOK
<1>9. SameList'
  BY <1>1, <1>2, <1>3, <1>5 DEF Sturdy, SameList
<1>10. ASSUME NEW pos, NEW x, NEW C, Covers(pos, x, C) PROVE Covers(pos, x, C)'
  <2>1. \A m \in Node : next'[m] = IF m = r THEN next[t] ELSE next[m]
    BY <1>2, <1>3
  <2> QED BY <1>5, <1>6, <1>10, <2>1, CoversCut
<1>11. Reached'
  <2> SUFFICES ASSUME NEW x \in Index PROVE Covers(front[x], x, {})'
    BY DEF Reached
  <2> PICK f : f = front[x]
    OBVIOUS
  <2>1. Covers(f, x, {})'
    BY <1>10 DEF Sturdy, Reached
  <2> QED BY <1>1, <2>1 DEF Covers
<1>12. Fresh'
  <2>1. \A m \in Node : heap[m] = "unused" => Apart(m)'
    BY <1>1, <1>2, <1>3, NullAssumption DEF Sturdy, Fresh, Apart
  <2> QED BY <1>1, <1>4, <2>1 DEF Sturdy, Fresh, Early
<1>13. PriorOK'
  <2>1. ASSUME NEW p \in Queued', prior[p] \in Allocated PROVE Leads(prior[p], p)'
    <3>1. PICK b \in Node : b = prior[p] /\ b # r
      BY <1>2, <1>5, <1>7, <2>1, Sets
    <3>2. Leads(b, p)
      BY <1>5, <2>1, <3>1 DEF Sturdy, PriorOK
    <3>3. Leads(b, p)'
      BY <1>3, <1>5, <3>1, <3>2, LeadsCut
    <3> QED BY <1>1, <3>1, <3>3 DEF Leads
  <2> QED BY <1>1, <1>4, <1>5, <2>1 DEF Sturdy, PriorOK
<1>14. NextOK'
  <2>1. ASSUME NEW p \in Queued', NEW q \in Queued', next'[p] = next'[q], key[p] = key[q],
               next'[p] \in Queued' \cup {NULL}
        PROVE  p = q
    BY <1>2, <1>3, <1>5, <1>8, <2>1
  <2>2. ASSUME NEW p \in Queued', NEW q \in Queued', next'[p] = q,
               prior[q] \in Queued' \cup {NULL}
        PROVE  prior[q] = p
    BY <1>3, <1>5, <1>8, <2>2
  <2> QED BY <1>1, <2>1, <2>2 DEF NextOK
<1>15. /\ \A x \in Index : front[x] # t
       /\ \A p \in Queued' : next'[p] # t
  BY <1>2, <1>3, <1>5, <1>8 DEF Sturdy, FrontOK
<1>16. FrontOK'
  BY <1>1, <1>3, <1>5 DEF Sturdy, FrontOK
<1>17. RearOK'
  <2>1. ASSUME NEW x \in Index, rear[x] \in Allocated PROVE next'[rear[x]] = NULL
    BY <1>2, <1>3, <2>1, Sets DEF Sturdy, RearOK
  <2>2. \A x \in Index : rear[x] = NULL => In(x)' = {}
    BY <1>2, <1>5 DEF Sturdy, RearOK
  <2> QED BY <1>1, <1>5, <2>1, <2>2 DEF RearOK
<1>18. AddOK' /\ DelOK'
  BY <1>1, <1>4, <1>5, <1>15 DEF AddOK, DelOK
<1>19. next'[t] = NULL
  BY <1>2, <1>3
<1>20. Walking("main")'
  <2>1. i["main"] \in Index /\ next'[It'] = NULL
    BY <1>5, <1>19, Sets DEF Types
  <2> PICK x : x = i["main"]
    OBVIOUS
  <2> PICK C : C = checked["main"]
    OBVIOUS
  <2>2. Covers(NULL, x, C)
    BY <1>2, WalkedNode DEF Walked, Halves
  <2>3. Covers(NULL, x, C)'
    BY <1>10, <2>2
  <2>4. Covers(next[It], i["main"], checked["main"])'
    BY <1>1, <2>1, <2>3 DEF Covers
  <2> QED BY <1>1, <1>4, <1>5, <2>4, MainOn DEF Walked, Cases, Halves
<1>21. ~ interrupted => LinksOK' /\ Sound("main")'
  <2> SUFFICES ASSUME ~ interrupted PROVE LinksOK' /\ Sound("main")'
    OBVIOUS
  <2>1. /\ \A x \in Index : x # y => Doubly(front[x], rear[x], In(x))
        /\ Doubly(front[y], t, In(y))
    BY <1>2 DEF Whole, LinksOK, ItsOK, Halves, Cases
  <2>2. ASSUME NEW x \in Index, x # y PROVE Doubly(front[x], rear[x], In(x))'
    <3>1. In(x)' = In(x) /\ \A m \in In(x) : m \in Node /\ m # r
      BY <1>2, <1>5, <2>2 DEF In
    <3> PICK f : f = front[x]
      OBVIOUS
    <3> PICK z : z = rear[x]
      OBVIOUS
    <3> PICK S : S = In(x)
      OBVIOUS
    <3>2. Doubly(f, z, S)'
      BY <1>1, <1>3, <2>1, <2>2, <3>1, DoublySame
    <3> QED BY <1>1, <3>1, <3>2 DEF Doubly
  <2>3. Doubly(front[y], rear[y], In(y))'
    <3>1. /\ front[y] \in In(y) /\ front[y] # NULL
          /\ \A p \in In(y) :
               /\ prior[p] = NULL <=> front[y] = p
               /\ prior[p] # NULL => prior[p] \in In(y) /\ next[prior[p]] = p
               /\ next[p] = NULL <=> t = p
               /\ next[p] # NULL => next[p] \in In(y) /\ prior[next[p]] = p
      BY <1>2, <1>5, <2>1 DEF Doubly
    <3>2. front[y] # t /\ r \in In(y) /\ next[r] = t
      BY <1>2, <1>5, <3>1
    <3>3. \A p \in In(y) : p \in Node /\ p # NULL
      BY <1>5 DEF In
    <3>4. ASSUME NEW p \in In(y) \ {t}
          PROVE  /\ prior[p] = NULL <=> front[y] = p
                 /\ prior[p] # NULL => prior[p] \in In(y) \ {t} /\ next'[prior[p]] = p
      <4>1. ASSUME prior[p] # NULL PROVE prior[p] \in In(y) \ {t} /\ next'[prior[p]] = p
        <5>1. prior[p] \in In(y) /\ next[prior[p]] = p /\ prior[p] # t /\ prior[p] # r
          BY <1>2, <3>1, <3>2, <3>3, <4>1
        <5> QED BY <1>3, <3>3, <5>1
      <4> QED BY <3>1, <4>1
    <3>5. ASSUME NEW p \in In(y) \ {t}
          PROVE  /\ next'[p] = NULL <=> r = p
                 /\ next'[p] # NULL => next'[p] \in In(y) \ {t} /\ prior[next'[p]] = p
      <4>1. next'[p] = IF p = r THEN NULL ELSE next[p]
        BY <1>3, <3>3
      <4> QED BY <1>2, <3>1, <4>1
    <3> QED BY <1>1, <1>2, <1>5, <1>7, <3>1, <3>2, <3>4, <3>5 DEF Doubly
  <2>4. LinksOK'
    BY <1>4, <2>2, <2>3 DEF LinksOK, ItsOK, Cases, Halves
  <2>5. Ahead("main")' = NULL
    BY <1>4, <1>5, <1>19 DEF Ahead, Place, It
  <2>6. Used(temp["main"])'
    BY <1>5 DEF It
  <2> QED BY <1>4, <2>4, <2>5, <2>6 DEF Sound, Place
<1>22. Sturdy'
  BY <1>9, <1>11, <1>12, <1>13, <1>14, <1>16, <1>17, <1>18 DEF Sturdy
<1>23. Place' \notin {"close", "closed"}
  BY <1>4
<1> QED BY <1>1, <1>4, <1>20, <1>21, <1>22, <1>23, MainStep

LEMMA DelHeadSecond ==
  ASSUME LInv, DelSecond, Place = "head_prior", Interrupts, UNCHANGED fault
  PROVE  LInv'
<1> USE DEF LInv
<1>1. /\ pc["handler"] = "idle" /\ GoTo("main", "free") /\ Used(front[Its])
      /\ prior' = [prior EXCEPT ![front[Its]] = NULL]
      /\ UNCHANGED <<heap, key, next, front, rear, i, temp, checked>>
  BY DEF DelSecond, At, Place
<1>2. PICK t \in Node, y \in Index, h \in Node :
        /\ t = It /\ y = Its /\ t # NULL /\ key[t] = y
        /\ h = front[y] /\ heap[h] = "used" /\ h # NULL /\ key[h] = y
        /\ Used(t) => (\A x \in Index : front[x] # t) /\ \A n \in Queued : next[n] # t
  BY <1>1, WalkedNode, NullAssumption
     DEF Walked, Halves, Used, Sturdy, DelOK, Late, SameList
<1>3. \A n \in Node : prior'[n] = IF n = h THEN NULL ELSE prior[n]
  BY <1>1, <1>2 DEF Types
<1>4. Types' /\ Place' = "free" /\ pc'["handler"] = "idle"
  <2>1. prior' \in [Node -> Pointer]
    BY <1>1, <1>2 DEF Types, Pointer
  <2> QED BY <1>1, <2>1, MainTypes DEF Adding, Walked, Types
<1>5. /\ Allocated' = Allocated /\ Freed' = Freed /\ It' = t /\ Its' = y
      /\ Used(It)' <=> Used(It)
      /\ Queued' = Queued /\ \A x : In(x)' = In(x)
      /\ h # t /\ h \in Queued
      /\ \A n \in Queued : n \in Node /\ n # NULL
  <2>1. h # t
    BY <1>2 DEF Used
  <2>2. h \in Queued
    BY <1>2, <2>1 DEF Queued, Allocated
  <2> QED BY <1>1, <1>2, <1>4, <2>1, <2>2, InStill, Sets DEF Unlinked
<1>6. /\ \A S : HoldsNext(S)' <=> HoldsNext(S)
      /\ \A m, n : Leads(m, n)' <=> Leads(m, n)
  BY <1>1, <1>5, SameNext
<1>7. SameList' /\ Reached'
  BY <1>1, <1>3, <1>5, <1>6 DEF Sturdy, SameList, Reached, Covers
<1>8. Fresh'
  <2>1. \A n \in Node : heap[n] = "unused" => Apart(n)' /\ prior'[n] = NULL
    <3> SUFFICES ASSUME NEW n \in Node, heap[n] = "unused"
                 PROVE  Apart(n)' /\ prior'[n] = NULL
      OBVIOUS
    <3>1. Apart(n) /\ prior[n] = NULL /\ n # NULL
      BY NullAssumption DEF Sturdy, Fresh
    <3> QED BY <1>1, <1>3, <3>1 DEF Apart
  <2> QED BY <1>1, <1>4, <2>1 DEF Fresh, Early
<1>9. PriorOK'
  <2>1. ASSUME NEW n \in Queued, prior'[n] = NULL PROVE front[key[n]] = n
    BY <1>2, <1>3, <1>5, <2>1 DEF Sturdy, PriorOK
  <2>2. ASSUME NEW n \in Queued, prior'[n] \in Allocated
        PROVE  n # h /\ prior'[n] = prior[n]
    BY <1>3, <1>5, <2>2, Sets
  <2>3. ASSUME NEW n \in Queued, prior'[n] \in Allocated PROVE Leads(prior[n], n)'
    <3>1. PICK b : b = prior'[n] /\ b = prior[n]
      BY <2>2, <2>3
    <3>2. Leads(b, n)'
      BY <1>6, <2>3, <3>1 DEF Sturdy, PriorOK
    <3> QED BY <3>1, <3>2 DEF Leads
  <2>4. ASSUME NEW m \in Queued, NEW n \in Queued, prior'[m] = prior'[n],
               prior'[m] \in Allocated
        PROVE  m = n
    BY <2>2, <2>4 DEF Sturdy, PriorOK
  <2> QED BY <1>1, <1>4, <1>5, <2>1, <2>3, <2>4 DEF PriorOK
<1>10. NextOK'
  <2>1. ASSUME NEW m \in Queued, NEW n \in Queued, next[m] = n, prior'[n] \in Queued \cup {NULL}
        PROVE  prior'[n] = m
    <3>1. n # h
      BY <1>2, <1>5, <2>1 DEF Sturdy, FrontOK
    <3>2. prior'[n] = prior[n]
      BY <1>3, <1>5, <3>1
    <3> QED BY <2>1, <3>2 DEF Sturdy, NextOK
  <2> QED BY <1>1, <1>5, <2>1 DEF Sturdy, NextOK
<1>11. FrontOK'
  <2>1. ASSUME NEW x \in Index, front[x] \in Queued PROVE prior'[front[x]] \notin Queued
    BY <1>3, <1>5, <2>1 DEF Sturdy, FrontOK
  <2> QED BY <1>1, <1>5, <2>1 DEF Sturdy, FrontOK
<1>12. RearOK'
  BY <1>1, <1>4, <1>5 DEF Sturdy, RearOK
<1>13. AddOK' /\ DelOK'
  BY <1>1, <1>2, <1>4, <1>5 DEF AddOK, DelOK
<1>14. Walking("main")'
  BY <1>1, <1>4, <1>5, MainStays DEF Walked, Cases, Halves
<1>15. ~ interrupted => LinksOK' /\ Sound("main")'
  <2> SUFFICES ASSUME ~ interrupted PROVE LinksOK' /\ Sound("main")'
    OBVIOUS
  <2>1. /\ \A x \in Index : x # y => Doubly(front[x], rear[x], In(x))
        /\ Doubly(t, rear[y], In(y) \cup {t}) /\ h = next[t] /\ Used(t)
    BY <1>2 DEF Whole, LinksOK, ItsOK, Halves, Cases
  <2>2. t \notin In(y)
    BY <1>2 DEF In, Queued, Unlinked
  <2>3. ASSUME NEW x \in Index, x # y PROVE Doubly(front[x], rear[x], In(x))'
    <3>1. In(x)' = In(x) /\ \A m \in In(x) : m \in Node /\ m # h
      BY <1>2, <1>5, <2>3 DEF In
    <3> PICK f : f = front[x]
      OBVIOUS
    <3> PICK z : z = rear[x]
      OBVIOUS
    <3> PICK S : S = In(x)
      OBVIOUS
    <3>2. Doubly(f, z, S)'
      BY <1>1, <1>3, <2>1, <2>3, <3>1, DoublySame
    <3> QED BY <1>1, <3>1, <3>2 DEF Doubly
  <2>4. Doubly(front[y], rear[y], In(y))'
    <3>1. /\ rear[y] # NULL /\ rear[y] \in In(y) \cup {t}
          /\ \A p \in In(y) \cup {t} :
               /\ prior[p] = NULL <=> t = p
               /\ prior[p] # NULL => prior[p] \in In(y) \cup {t} /\ next[prior[p]] = p
               /\ next[p] = NULL <=> rear[y] = p
               /\ next[p] # NULL => next[p] \in In(y) \cup {t} /\ prior[next[p]] = p
      BY <1>2, <2>1 DEF Doubly
    <3>2. h \in In(y) /\ rear[y] \in In(y) /\ prior[h] = t
      BY <1>2, <1>5, <2>1, <3>1
    <3>3. \A p \in In(y) : p \in Node
      BY <1>5 DEF In
    <3>4. ASSUME NEW p \in In(y)
          PROVE  /\ prior'[p] = NULL <=> h = p
                 /\ prior'[p] # NULL => prior'[p] \in In(y) /\ next[prior'[p]] = p
      BY <1>3, <2>1, <2>2, <3>1, <3>3
    <3>5. ASSUME NEW p \in In(y)
          PROVE  /\ next[p] = NULL <=> rear[y] = p
                 /\ next[p] # NULL => next[p] \in In(y) /\ prior'[next[p]] = p
      <4>1. ASSUME next[p] # NULL PROVE next[p] \in In(y) /\ next[p] # h
        <5>1. p # NULL /\ p # t
          BY <2>2, <3>3, NullAssumption
        <5>2. next[p] \in In(y) \cup {t} /\ prior[next[p]] = p
          BY <3>1, <4>1
        <5> QED BY <3>1, <3>2, <5>1, <5>2
      <4> QED BY <1>3, <3>1, <3>3, <4>1
    <3> QED BY <1>1, <1>2, <1>5, <3>1, <3>2, <3>4, <3>5 DEF Doubly
  <2>5. LinksOK'
    BY <1>4, <2>3, <2>4 DEF LinksOK, ItsOK, Cases, Halves
  <2> QED BY <1>1, <1>4, <1>5, <2>5, FreeSound DEF Halves
<1>16. Sturdy'
  BY <1>7, <1>8, <1>9, <1>10, <1>11, <1>12, <1>13 DEF Sturdy
<1>17. Place' \notin {"close", "closed"}
  BY <1>4
<1> QED BY <1>1, <1>4, <1>14, <1>15, <1>16, <1>17, MainStep

LEMMA DelMiddleSecond ==
  ASSUME LInv, DelSecond, Place = "middle_prior", Interrupts, UNCHANGED fault
  PROVE  LInv'
<1> USE DEF LInv
<1>1. /\ pc["handler"] = "idle" /\ GoTo("main", "free") /\ Used(It) /\ Used(next[It])
      /\ prior' = [prior EXCEPT ![next[It]] = prior[It]]
      /\ UNCHANGED <<heap, key, next, front, rear, i, temp, checked>>
  BY DEF DelSecond, At, Place
<1>2. PICK t \in Node, y \in Index, n \in Node :
        /\ t = It /\ y = Its /\ t # NULL /\ key[t] = y /\ heap[t] = "used" /\ Used(t)
        /\ n = next[t] /\ heap[n] = "used" /\ n # NULL /\ key[n] = y
        /\ (\A x \in Index : front[x] # t) /\ \A m \in Queued : next[m] # t
        /\ prior[t] # NULL
        /\ prior[t] \in Allocated =>
             /\ Leads(prior[t], n)
             /\ n \in Queued => n # front[y]
             /\ \A q \in Queued : /\ prior[q] # prior[t]
                                  /\ next[q] = n /\ n \in Queued => q = prior[t]
  <2>1. /\ It \in Node /\ It # NULL /\ Its \in Index /\ key[It] = Its
    BY WalkedNode DEF Walked, Halves
  <2>2. next[It] \in Allocated
    BY <1>1, Sets
  <2> QED BY <1>1, <2>1, <2>2, NullAssumption
          DEF Used, Sturdy, DelOK, MiddleOK, Late, SameList
<1>3. \A m \in Node : prior'[m] = IF m = n THEN prior[t] ELSE prior[m]
  BY <1>1, <1>2 DEF Types
<1>4. Types' /\ Place' = "free" /\ pc'["handler"] = "idle"
  <2>1. prior' \in [Node -> Pointer]
    BY <1>1, <1>2 DEF Types
  <2> QED BY <1>1, <2>1, MainTypes DEF Adding, Walked, Types
<1>5. /\ Allocated' = Allocated /\ Freed' = Freed /\ It' = t /\ Its' = y
      /\ Used(It)' <=> Used(It)
      /\ Queued' = Queued /\ \A x : In(x)' = In(x)
      /\ t \notin Queued /\ n \in Allocated
      /\ \A m \in Queued : m \in Node /\ m # NULL
  <2>1. t \notin Queued /\ n \in Allocated
    BY <1>2 DEF Queued, Unlinked, Allocated
  <2> QED BY <1>1, <1>2, <1>4, <2>1, InStill, Sets DEF Unlinked
<1>6. /\ \A S : HoldsNext(S)' <=> HoldsNext(S)
      /\ \A p, q : Leads(p, q)' <=> Leads(p, q)
  BY <1>1, <1>5, SameNext
<1>7. SameList' /\ Reached'
  BY <1>1, <1>2, <1>3, <1>5, <1>6 DEF Sturdy, SameList, Reached, Covers
<1>8. Fresh'
  <2>1. \A m \in Node : heap[m] = "unused" => Apart(m)' /\ prior'[m] = NULL
    <3> SUFFICES ASSUME NEW m \in Node, heap[m] = "unused"
                 PROVE  Apart(m)' /\ prior'[m] = NULL
      OBVIOUS
    <3>1. Apart(m) /\ prior[m] = NULL /\ m # n
      BY <1>2 DEF Sturdy, Fresh
    <3> QED BY <1>1, <1>2, <1>3, <3>1 DEF Apart
  <2> QED BY <1>1, <1>4, <2>1 DEF Fresh, Early
<1>9. PriorOK'
  <2>1. ASSUME NEW p \in Queued, prior'[p] = NULL PROVE front[key[p]] = p
    BY <1>2, <1>3, <1>5, <2>1 DEF Sturdy, PriorOK
  <2>2. ASSUME NEW p \in Queued, prior'[p] \in Allocated PROVE Leads(prior[p], p)'
    <3>1. PICK b : b = prior'[p]
      OBVIOUS
    <3>2. Leads(b, p)
      BY <1>2, <1>3, <1>5, <2>2, <3>1 DEF Sturdy, PriorOK
    <3>3. Leads(b, p)'
      BY <1>6, <3>2
    <3> QED BY <3>1, <3>3 DEF Leads
  <2>3. ASSUME NEW p \in Queued, NEW q \in Queued, prior'[p] = prior'[q],
               prior'[p] \in Allocated
        PROVE  p = q
    BY <1>2, <1>3, <1>5, <2>3 DEF Sturdy, PriorOK
  <2> QED BY <1>1, <1>4, <1>5, <2>1, <2>2, <2>3 DEF PriorOK
<1>10. NextOK'
  <2>1. ASSUME NEW p \in Queued, NEW q \in Queued, next[p] = q, prior'[q] \in Queued \cup {NULL}
        PROVE  prior'[q] = p
    BY <1>2, <1>3, <1>5, <2>1, Sets DEF Sturdy, NextOK
  <2> QED BY <1>1, <1>5, <2>1 DEF Sturdy, NextOK
<1>11. FrontOK'
  <2>1. ASSUME NEW x \in Index, front[x] \in Queued PROVE prior'[front[x]] \notin Queued
    <3>1. CASE front[x] = n
      <4>1. x = y
        BY <1>2, <3>1 DEF Sturdy, SameList
      <4> QED BY <1>2, <1>3, <2>1, <3>1, <4>1, Sets
    <3>2. CASE front[x] # n
      BY <1>3, <1>5, <2>1, <3>2 DEF Sturdy, FrontOK
    <3> QED BY <3>1, <3>2
  <2> QED BY <1>1, <1>5, <2>1 DEF Sturdy, FrontOK
<1>12. RearOK'
  BY <1>1, <1>4, <1>5 DEF Sturdy, RearOK
<1>13. AddOK' /\ DelOK'
  BY <1>1, <1>2, <1>4, <1>5 DEF AddOK, DelOK
<1>14. Walking("main")'
  BY <1>1, <1>4, <1>5, MainStays DEF Walked, Cases, Halves
<1>15. ~ interrupted => LinksOK' /\ Sound("main")'
  <2> SUFFICES ASSUME ~ interrupted PROVE LinksOK' /\ Sound("main")'
    OBVIOUS
  <2>1. /\ \A x \in Index : x # y => Doubly(front[x], rear[x], In(x))
        /\ DoublyBut(t, front[y], rear[y], In(y))
    BY <1>2 DEF Whole, LinksOK, ItsOK, Halves, Cases
  <2>2. PICK a \in In(y) : a = prior[t] /\ next[a] = n /\ n \in In(y)
    BY <1>2, <2>1 DEF DoublyBut
  <2>3. ASSUME NEW x \in Index, x # y PROVE Doubly(front[x], rear[x], In(x))'
    <3>1. In(x)' = In(x) /\ \A m \in In(x) : m \in Node /\ m # n
      BY <1>2, <1>5, <2>3 DEF In
    <3> PICK f : f = front[x]
      OBVIOUS
    <3> PICK z : z = rear[x]
      OBVIOUS
    <3> PICK S : S = In(x)
      OBVIOUS
    <3>2. Doubly(f, z, S)'
      BY <1>1, <1>3, <2>1, <2>3, <3>1, DoublySame
    <3> QED BY <1>1, <3>1, <3>2 DEF Doubly
  <2>4. Doubly(front[y], rear[y], In(y))'
    <3>1. /\ front[y] \in In(y) /\ rear[y] \in In(y) /\ prior[n] = t
          /\ \A p \in In(y) :
               /\ prior[p] = NULL <=> front[y] = p
               /\ prior[p] # NULL /\ p # n => prior[p] \in In(y) /\ next[prior[p]] = p
               /\ next[p] = NULL <=> rear[y] = p
               /\ next[p] # NULL /\ p # a => next[p] \in In(y) /\ prior[next[p]] = p
      BY <1>2, <2>1, <2>2 DEF DoublyBut
    <3>2. \A p \in In(y) : p \in Node /\ p # NULL /\ p \in Queued /\ key[p] = y
      BY <1>5 DEF In
    <3>3. ASSUME NEW p \in In(y)
          PROVE  /\ prior'[p] = NULL <=> front[y] = p
                 /\ prior'[p] # NULL => prior'[p] \in In(y) /\ next[prior'[p]] = p
      <4>1. prior'[p] = IF p = n THEN a ELSE prior[p]
        BY <1>3, <2>2, <3>2
      <4> QED BY <1>2, <2>2, <3>1, <3>2, <4>1
    <3>4. ASSUME NEW p \in In(y)
          PROVE  /\ next[p] = NULL <=> rear[y] = p
                 /\ next[p] # NULL => next[p] \in In(y) /\ prior'[next[p]] = p
      <4>1. CASE p = a
        BY <1>2, <1>3, <2>2, <3>1, <4>1
      <4>2. CASE p # a
        <5>1. ASSUME next[p] # NULL
              PROVE  next[p] \in In(y) /\ prior[next[p]] = p /\ next[p] # n
          <6>1. next[p] \in In(y) /\ prior[next[p]] = p
            BY <3>1, <4>2, <5>1
          <6>2. next[p] # n
            BY <2>2, <3>2, <4>2, OneNext
          <6> QED BY <6>1, <6>2
        <5> QED BY <1>3, <3>1, <3>2, <5>1
      <4> QED BY <4>1, <4>2
    <3> QED BY <1>1, <1>2, <1>5, <3>1, <3>2, <3>3, <3>4 DEF Doubly
  <2>5. LinksOK'
    BY <1>4, <2>3, <2>4 DEF LinksOK, ItsOK, Cases, Halves
  <2> QED BY <1>1, <1>4, <1>5, <2>5, FreeSound DEF Halves
<1>16. Sturdy'
  BY <1>7, <1>8, <1>9, <1>10, <1>11, <1>12, <1>13 DEF Sturdy
<1>17. Place' \notin {"close", "closed"}
  BY <1>4
<1> QED BY <1>1, <1>4, <1>14, <1>15, <1>16, <1>17, MainStep

LEMMA FreeNodeStep ==
  ASSUME LInv, FreeNode, Interrupts, UNCHANGED fault
  PROVE  LInv'
<1> USE DEF LInv
<1>1. /\ Place = "free" /\ pc["handler"] = "idle" /\ GoTo("main", "next") /\ Used(It)
      /\ UNCHANGED <<key, prior, next, front, rear, i, temp, checked>>
  BY DEF FreeNode, At, Place
<1>2. PICK t \in Node : t = It /\ t # NULL /\ heap[t] = "used"
  BY <1>1, WalkedNode DEF Walked, Used
<1>3. \A n \in Node : heap'[n] = IF n = t THEN "freed" ELSE heap[n]
  BY <1>2 DEF FreeNode, Types
<1>4. Types' /\ Place' = "next" /\ pc'["handler"] = "idle"
  <2>1. heap' \in [Node -> {"unused", "used", "freed"}]
    BY DEF FreeNode, Types
  <2> QED BY <1>1, <1>3, <2>1, MainTypes DEF Adding, Walked, Types
<1>5. /\ Allocated' = Allocated \ {t} /\ Freed' = Freed \cup {t}
      /\ Queued' = Queued /\ \A x : In(x)' = In(x)
      /\ \A n \in Queued : n \in Node
  <2>1. \A n : n \in Allocated' <=> n \in Allocated \ {t}
    BY <1>3 DEF Allocated
  <2>2. \A n : n \in Freed' <=> n \in Freed \cup {t}
    BY <1>3 DEF Freed
  <2>3. \A n : n \in Queued <=> n \in Allocated \ {t}
    BY <1>1, <1>2 DEF Queued, Unlinked
  <2>4. \A n : n \in Queued' <=> n \in Allocated'
    BY <1>4 DEF Queued, Unlinked
  <2>5. Queued' = Queued
    BY <2>1, <2>3, <2>4
  <2>6. \A x : In(x)' = In(x)
    BY <1>1, <2>5 DEF In
  <2> QED BY <2>1, <2>2, <2>5, <2>6, Sets
<1>6. /\ \A S : HoldsNext(S)' <=> HoldsNext(S)
      /\ \A m, n : Leads(m, n) => Leads(m, n)'
  BY <1>1, <1>5 DEF HoldsNext, Leads
<1>7. SameList' /\ Reached'
  BY <1>1, <1>5, <1>6 DEF Sturdy, SameList, Reached, Covers
<1>8. Fresh'
  BY <1>1, <1>3, <1>4 DEF Sturdy, Fresh, Apart, Early
<1>9. PriorOK'
  <2>1. ASSUME NEW n \in Queued, prior[n] \in Allocated PROVE Leads(prior[n], n)'
    <3>1. PICK b : b = prior[n]
      OBVIOUS
    <3>2. Leads(b, n)'
      BY <1>6, <2>1, <3>1 DEF Sturdy, PriorOK
    <3> QED BY <1>1, <3>1, <3>2 DEF Leads
  <2> QED BY <1>1, <1>4, <1>5, <2>1 DEF Sturdy, PriorOK
<1>10. NextOK' /\ FrontOK'
  BY <1>1, <1>5 DEF Sturdy, NextOK, FrontOK
<1>11. RearOK'
  BY <1>1, <1>4, <1>5 DEF Sturdy, RearOK
<1>12. AddOK' /\ DelOK'
  BY <1>4 DEF AddOK, DelOK, Late
<1>13. Walking("main")'
  BY <1>1, <1>4, <1>5, MainStays DEF Walked, Cases, Halves
<1>14. ~ interrupted => LinksOK' /\ Sound("main")'
  <2> SUFFICES ASSUME ~ interrupted PROVE LinksOK' /\ Sound("main")'
    OBVIOUS
  <2>1. \A x \in Index : Doubly(front[x], rear[x], In(x))
    BY <1>1 DEF Whole, LinksOK, Halves
  <2>2. \A x \in Index : Doubly(front[x], rear[x], In(x))'
    BY <1>1, <1>5, <2>1 DEF Doubly
  <2>3. LinksOK'
    BY <1>4, <2>2 DEF LinksOK, ItsOK, Cases, Halves
  <2>4. next[It] = NULL \/ next[It] \in Queued
    BY <1>1, Sets DEF Whole, Sound, Ahead, Place, It
  <2>5. Ahead("main")' = next[It]
    BY <1>1, <1>4 DEF Ahead, Place, It
  <2> QED BY <1>4, <1>5, <2>3, <2>4, <2>5 DEF Sound, Place, Halves
<1>15. Sturdy'
  BY <1>7, <1>8, <1>9, <1>10, <1>11, <1>12 DEF Sturdy
<1>16. Place' \notin {"close", "closed"}
  BY <1>4
<1> QED BY <1>1, <1>4, <1>13, <1>14, <1>15, <1>16, MainStep

LEMMA DelFirstStep ==
  ASSUME LInv, DelFirst, Interrupts, UNCHANGED fault
  PROVE  LInv'
<1>1. Place \in {"del_only", "del_last", "del_head", "del_middle"}
  BY DEF DelFirst, At, Place
<1> QED BY <1>1, DelOnlyFirst, DelLastFirst, DelHeadFirst, DelMiddleFirst

LEMMA DelSecondStep ==
  ASSUME LInv, DelSecond, Interrupts, UNCHANGED fault
  PROVE  LInv'
<1>1. Place \in {"only_rear", "last_next", "head_prior", "middle_prior"}
  BY DEF DelSecond, At, Place
<1> QED BY <1>1, DelOnlySecond, DelLastGone, DelLastSecond, DelHeadSecond, DelMiddleSecond

----------------------------------------------------------------------------
(***************************************************************************)
(* del_dly_map of main.                                                    *)
(***************************************************************************)
\* What is left to show of a step of main outside of a walk.
LEMMA CloseTypes ==
  ASSUME LInv, UNCHANGED <<heap, key, prior, next, front, temp, checked>>,
         pc["handler"] = "idle", i' \in [Actor -> Index], i'["handler"] = i["handler"],
         NEW p \in {"close", "closed"}, pc' = pc \/ GoTo("main", p), pc'["main"] = p,
         rear' \in [Index -> Pointer]
  PROVE  Types' /\ Place' = p /\ pc'["handler"] = "idle"
<1>1. /\ pc' \in [Actor -> {"idle", "clear", "close", "closed"} \cup Adding \cup Walked]
      /\ pc'["handler"] = "idle"
  BY Sets DEF GoTo, LInv, Types
<1>2. Place' = p
  BY DEF Place
<1>3. p \notin Adding /\ p # "idle" /\ i["handler"] = 0
  BY Sets DEF LInv, Types, Adding
<1>4. \A a \in Actor : pc'[a] \in {"idle"} \cup Adding => i'[a] = 0
  BY <1>3, Sets
<1> QED BY <1>1, <1>2, <1>3, <1>4 DEF LInv, Types

LEMMA CloseStep ==
  ASSUME LInv, Close, Interrupts, UNCHANGED fault
  PROVE  LInv'
<1> USE DEF LInv
<1>1. /\ Place = "idle" /\ pc["handler"] = "idle" /\ GoTo("main", "close")
      /\ UNCHANGED <<heap, key, prior, next, front, rear, i, temp, checked>>
  BY DEF Close, At, Place, listVars
<1>2. Types' /\ Place' = "close" /\ pc'["handler"] = "idle"
  <2>1. pc'["main"] = "close"
    BY <1>1, Sets DEF GoTo, Types
  <2> QED BY <1>1, <2>1, CloseTypes DEF Types
<1>3. Calm /\ UNCHANGED listVars
  BY <1>1, <1>2 DEF Calm, Settled, listVars
<1>4. Sturdy'
  BY <1>2, <1>3, StillSturdy DEF Cases
<1>5. \A a \in Actor : Walking(a)' /\ Sound(a)'
  BY <1>2, Sets DEF Walking, Sound, Place, Walked, Cases, Halves
<1>6. Passes'
  BY <1>2 DEF Passes, Walked, Cases, Halves
<1>7. Closing'
  <2>1. i'["main"] = 0
    BY <1>1, Sets DEF Types, Place
  <2> QED BY <1>2, <2>1 DEF Closing, Index
<1>8. Whole'
  <2> SUFFICES ASSUME ~ interrupted' PROVE Whole'
    BY DEF Whole
  <2>1. LinksOK /\ ~ fault
    BY OneIdle
  <2>2. \A x \in Index : Doubly(front[x], rear[x], In(x))
    BY <1>1, <2>1 DEF LinksOK, Halves
  <2>3. \A x \in Index : Doubly(front[x], rear[x], In(x))'
    BY <1>3, <2>2, Kept DEF Doubly, listVars
  <2>4. LinksOK'
    BY <1>2, <2>3 DEF LinksOK, ItsOK, Cases, Halves
  <2> QED BY <1>2, <1>5, <2>1, <2>4 DEF Whole
<1> QED BY <1>2, <1>4, <1>5, <1>6, <1>7, <1>8

LEMMA ClosedStep ==
  ASSUME LInv, Closed, Interrupts, UNCHANGED fault
  PROVE  LInv'
<1> USE DEF LInv
<1>1. /\ Place = "close" /\ pc["handler"] = "idle" /\ front[i["main"]] = NULL
      /\ UNCHANGED <<heap, key, prior, next, front, temp, checked>>
  BY DEF Closed, At, Place, First
<1>2. PICK y \in Index : y = i["main"]
  BY Sets DEF Types
<1>3. \A x \in Index : rear'[x] = IF x = y THEN NULL ELSE rear[x]
  BY <1>2 DEF Closed, Types
<1>4. PICK p \in {"close", "closed"} :
        /\ Types' /\ Place' = p /\ pc'["handler"] = "idle"
        /\ p = "close" => i'["main"] = y + 1
        /\ p = "closed" => y = DELAY_MAP_SIZE - 1
  <2>1. rear' \in [Index -> Pointer]
    BY <1>2 DEF Closed, Types, Pointer
  <2>2. CASE i["main"] < DELAY_MAP_SIZE - 1
    <3>1. i["main"] + 1 \in Index
      BY <1>2, <2>2, SizeAssumption DEF Index
    <3>2. i' \in [Actor -> Index] /\ i'["handler"] = i["handler"] /\ i'["main"] = y + 1
      BY <1>2, <2>2, <3>1, Sets DEF Closed, Types
    <3>3. pc' = pc /\ pc'["main"] = "close"
      BY <1>1, <2>2 DEF Closed, Place
    <3>4. Types' /\ Place' = "close" /\ pc'["handler"] = "idle"
      BY <1>1, <2>1, <3>2, <3>3, CloseTypes
    <3> QED BY <3>2, <3>4
  <2>3. CASE ~ (i["main"] < DELAY_MAP_SIZE - 1)
    <3>1. GoTo("main", "closed") /\ i' = i /\ pc'["main"] = "closed"
      BY <2>3, Sets DEF Closed, GoTo, Types
    <3>2. Types' /\ Place' = "closed" /\ pc'["handler"] = "idle"
      BY <1>1, <2>1, <3>1, CloseTypes DEF Types
    <3>3. y = DELAY_MAP_SIZE - 1
      BY <1>2, <2>3, SizeAssumption DEF Index
    <3> QED BY <3>2, <3>3
  <2> QED BY <2>2, <2>3
<1>5. /\ Allocated' = Allocated /\ Freed' = Freed /\ Queued' = Queued
      /\ \A x : In(x)' = In(x)
      /\ In(y) = {}
  <2>1. In(y) = {}
    <3>1. Covers(front[y], y, {}) /\ front[y] = NULL
      BY <1>1, <1>2 DEF Sturdy, Reached
    <3> QED BY <3>1, Exhausted
  <2> QED BY <1>1, <1>4, <2>1, InStill DEF Unlinked
<1>6. /\ \A S : HoldsNext(S)' <=> HoldsNext(S)
      /\ \A m, n : Leads(m, n)' <=> Leads(m, n)
  BY <1>1, <1>5, SameNext
<1>7. SameList' /\ Reached'
  BY <1>1, <1>3, <1>5, <1>6 DEF Sturdy, SameList, Reached, Covers
<1>8. Fresh'
  <2>1. \A n \in Node : heap[n] = "unused" => Apart(n)'
    BY <1>1, <1>3, NullAssumption DEF Sturdy, Fresh, Apart
  <2> QED BY <1>1, <1>4, <2>1 DEF Sturdy, Fresh, Early
<1>9. PriorOK'
  BY <1>1, <1>4, <1>5, <1>6 DEF Sturdy, PriorOK
<1>10. NextOK' /\ FrontOK'
  BY <1>1, <1>5 DEF Sturdy, NextOK, FrontOK
<1>11. RearOK'
  BY <1>1, <1>3, <1>4, <1>5, Sets DEF Sturdy, RearOK
<1>12. AddOK' /\ DelOK'
  BY <1>4 DEF AddOK, DelOK, Late
<1>13. \A a \in Actor : Walking(a)' /\ Sound(a)'
  BY <1>4, Sets DEF Walking, Sound, Place, Walked, Cases, Halves
<1>14. Passes'
  BY <1>4 DEF Passes, Walked, Cases, Halves
<1>15. Closing'
  <2>1. \A x \in Index : x < y + 1 => In(x) = {}
    <3>1. \A x \in Index : x < y + 1 => x < y \/ x = y
      BY DEF Index
    <3> QED BY <1>1, <1>2, <1>5, <3>1 DEF Closing
  <2>2. y = DELAY_MAP_SIZE - 1 => \A x \in Index : x < y + 1
    BY SizeAssumption DEF Index
  <2> QED BY <1>4, <1>5, <2>1, <2>2 DEF Closing
<1>16. Whole'
  <2> SUFFICES ASSUME ~ interrupted' PROVE Whole'
    BY DEF Whole
  <2>1. LinksOK /\ ~ fault
    BY OneIdle
  <2>2. \A x \in Index : Doubly(front[x], rear[x], In(x))
    BY <1>1, <2>1 DEF LinksOK, Halves
  <2>3. \A x \in Index : Doubly(front[x], rear[x], In(x))'
    BY <1>1, <1>2, <1>3, <1>5, <2>2 DEF Doubly
  <2>4. LinksOK'
    BY <1>4, <2>3 DEF LinksOK, ItsOK, Cases, Halves
  <2> QED BY <1>4, <1>13, <2>1, <2>4 DEF Whole
<1>17. Sturdy'
  BY <1>7, <1>8, <1>9, <1>10, <1>11, <1>12 DEF Sturdy
<1> QED BY <1>4, <1>13, <1>14, <1>15, <1>16, <1>17

----------------------------------------------------------------------------
(***************************************************************************)
(* The theorems.                                                           *)
(***************************************************************************)
\* The lists and the walks stay as they are.
LEMMA Untouched ==
  ASSUME LInv, UNCHANGED <<listVars, walkVars>>
  PROVE  /\ Types' /\ Sturdy' /\ Passes' /\ Closing'
         /\ \A a \in Actor : Walking(a)' /\ (Sound(a) => Sound(a)')
         /\ LinksOK => LinksOK'
<1> USE DEF LInv
<1>1. /\ UNCHANGED <<heap, key, prior, next, front, rear, pc, i, temp, checked>>
      /\ UNCHANGED <<Place, It, Its, listVars>>
  BY DEF listVars, walkVars, Place, It, Its
<1>2. Calm
  BY <1>1 DEF Calm
<1>3. Sturdy'
  BY <1>1, <1>2, StillSturdy
<1>4. Types'
  BY <1>1 DEF Types
<1>5. \A a \in Actor : Walking(a)' /\ (Sound(a) => Sound(a)')
  BY <1>1, <1>2, WaitsOn
<1>6. Passes'
  <2>1. Ahead("handler")' = Ahead("handler") /\ (Used(It)' <=> Used(It))
    BY <1>1 DEF Ahead, Used
  <2> QED BY <1>1, <2>1 DEF Passes
<1>7. Closing'
  BY <1>1, <1>2, Kept DEF Closing
<1>8. ASSUME LinksOK PROVE LinksOK'
  <2>1. \A x \in Index : In(x)' = In(x)
    BY <1>1, <1>2, Kept
  <2>2. In(Its)' = In(Its) /\ (Used(It)' <=> Used(It))
    BY <1>1, <1>2, Kept DEF In, Used
  <2>3. Doubly(front[Its], It, In(Its)) => Doubly(front[Its], It, In(Its))'
    BY <1>1, <2>2 DEF Doubly
  <2>4. Doubly(It, rear[Its], In(Its) \cup {It}) => Doubly(It, rear[Its], In(Its) \cup {It})'
    BY <1>1, <2>2 DEF Doubly
  <2>5. DoublyBut(It, front[Its], rear[Its], In(Its))
          => DoublyBut(It, front[Its], rear[Its], In(Its))'
    BY <1>1, <2>2 DEF DoublyBut
  <2>6. ItsOK'
    BY <1>1, <1>8, <2>2, <2>3, <2>4, <2>5 DEF LinksOK, ItsOK
  <2>7. \A x \in Index : ~ (Place \in {"add_first", "add_rear"} \cup Halves /\ x = Its)
                           => Doubly(front[x], rear[x], In(x))'
    BY <1>1, <1>8, <2>1 DEF LinksOK, Doubly
  <2> QED BY <1>1, <2>6, <2>7 DEF LinksOK
<1> QED BY <1>3, <1>4, <1>5, <1>6, <1>7, <1>8

\* A node in a doubly linked list has neighbours that are in it.
LEMMA NextTo ==
  ASSUME NEW x \in Index, Doubly(front[x], rear[x], In(x)), NEW t \in In(x)
  PROVE  Used(t) /\ \A n \in Neighbours(t) : Used(n)
BY Sets DEF Doubly, Neighbours, In

\* Until the handler comes inside a call of main, what an actor goes through is
\* in use.
LEMMA NothingFreed ==
  ASSUME LInv, ~ interrupted, NEW a \in Actor, At(a, pc[a]), NEW n \in Touched(a)
  PROVE  Used(n)
<1> USE DEF LInv
<1>1. /\ LinksOK /\ Sound(a) /\ (Place = "idle" \/ pc["handler"] = "idle")
  BY DEF Whole
<1>2. /\ \A x \in Index : In(x) \subseteq Queued
      /\ \A t \in Queued : Used(t)
  BY Sets DEF In
<1>3. CASE pc[a] = "check"
  <2>1. Touched(a) = {temp[a]} \ {NULL}
    BY <1>3 DEF Touched
  <2>2. Ahead(a) = temp[a] /\ (Ahead(a) = NULL \/ Ahead(a) \in Queued)
    BY <1>1, <1>3 DEF Sound, Ahead
  <2> QED BY <1>2, <2>1, <2>2
<1>4. CASE pc[a] = "expired" /\ a = "handler"
  <2>1. Touched(a) = {temp[a]} \cup Neighbours(temp[a])
    BY <1>4 DEF Touched
  <2>2. Used(temp[a]) /\ Place = "idle"
    BY <1>1, <1>4 DEF Sound
  <2>3. temp[a] \in Queued
    BY <2>2, Sets DEF Queued, Unlinked
  <2>4. PICK x \in Index : temp[a] \in In(x)
    BY <2>3, Sets DEF In, Types
  <2>5. Doubly(front[x], rear[x], In(x))
    BY <1>1, <2>2 DEF LinksOK, Halves
  <2> QED BY <2>1, <2>4, <2>5, NextTo
<1>5. CASE a = "main"
  <2> PICK t : t = It
    OBVIOUS
  <2> PICK y : y = Its
    OBVIOUS
  <2>0. pc[a] = Place /\ temp[a] = t /\ key[temp[a]] = y
    BY <1>5 DEF Place, It, Its
  <2>1. CASE Place = "expired"
    <3>1. Touched(a) = {t}
      BY <1>5, <2>0, <2>1 DEF Touched
    <3> QED BY <1>1, <2>0, <2>1, <3>1 DEF Sound
  <2>2. CASE Place = "add_link"
    <3>1. Touched(a) = {rear[y]} /\ y \in Index
      BY <2>0, <2>2, NewNode DEF Touched, Adding
    <3>2. Doubly(front[y], rear[y], In(y)) /\ rear[y] # NULL
      BY <1>1, <2>2, <3>1 DEF LinksOK, ItsOK, Halves
    <3> QED BY <1>2, <3>1, <3>2 DEF Doubly
  <2>3. CASE Place \in {"not_only", "not_last", "del_last", "del_head", "free"}
    <3>1. Touched(a) = {t}
      BY <2>0, <2>3 DEF Touched
    <3>2. Used(t)
      BY <1>1, <2>0, <2>3 DEF LinksOK, ItsOK, Sound, Cases
    <3> QED BY <3>1, <3>2
  <2>4. CASE Place = "del_middle"
    <3>1. Touched(a) = {t, prior[t]}
      BY <2>0, <2>4 DEF Touched
    <3>2. Used(t) /\ prior[t] # NULL /\ t \in In(y) /\ y \in Index
      BY <1>1, <2>4, Sets DEF LinksOK, ItsOK, Cases, In, Queued, Unlinked, Types, Its
    <3>3. Doubly(front[y], rear[y], In(y))
      BY <1>1, <2>4, <3>2 DEF LinksOK, Halves
    <3> QED BY <3>1, <3>2, <3>3, NextTo DEF Neighbours
  <2>5. CASE Place = "last_next"
    <3>1. Touched(a) = {rear[y]}
      BY <2>0, <2>5 DEF Touched
    <3>2. Used(t) /\ t \in In(y) /\ y \in Index
      BY <1>1, <2>5, Sets DEF LinksOK, ItsOK, Halves, In, Queued, Unlinked, Types, Its
    <3>3. Doubly(front[y], t, In(y)) /\ rear[y] = prior[t] /\ rear[y] # NULL
      BY <1>1, <2>5 DEF LinksOK, ItsOK
    <3> QED BY <1>2, <3>1, <3>2, <3>3 DEF Doubly
  <2>6. CASE Place = "head_prior"
    <3>1. Touched(a) = {front[y]}
      BY <2>0, <2>6 DEF Touched
    <3>2. Used(t) /\ y \in Index
      BY <1>1, <2>6, Sets DEF LinksOK, ItsOK, Halves, Types, Its
    <3>3. Doubly(t, rear[y], In(y) \cup {t}) /\ front[y] = next[t] /\ front[y] # NULL
      BY <1>1, <2>6 DEF LinksOK, ItsOK
    <3>4. front[y] \in In(y) \cup {t}
      BY <3>3 DEF Doubly
    <3> QED BY <1>2, <3>1, <3>2, <3>4
  <2>7. CASE Place = "middle_prior"
    <3>1. Touched(a) = {t, next[t]}
      BY <2>0, <2>7 DEF Touched
    <3>2. Used(t) /\ y \in Index
      BY <1>1, <2>7, Sets DEF LinksOK, ItsOK, Halves, Types, Its
    <3>3. next[t] \in In(y)
      BY <1>1, <2>7 DEF LinksOK, ItsOK, DoublyBut
    <3> QED BY <1>2, <3>1, <3>2, <3>3
  <2>8. CASE Place = "close"
    <3>1. First # NULL /\ n \in {First} \cup Neighbours(First)
      BY <2>0, <2>8 DEF Touched
    <3>2. PICK x \in Index : x = i["main"]
      BY Sets DEF Types
    <3>3. Doubly(front[x], rear[x], In(x))
      BY <1>1, <2>8, <3>2 DEF LinksOK, Halves
    <3>4. First \in In(x)
      BY <3>1, <3>2, <3>3 DEF Doubly, First
    <3> QED BY <3>1, <3>3, <3>4, NextTo
  <2>9. CASE Place \notin {"check", "expired", "add_link", "not_only", "not_last", "del_last",
                           "del_head", "free", "del_middle", "last_next", "head_prior",
                           "middle_prior", "close"}
    <3>1. Touched(a) = {}
      BY <2>0, <2>9 DEF Touched
    <3> QED BY <3>1
  <2> QED BY <1>3, <2>0, <2>1, <2>2, <2>3, <2>4, <2>5, <2>6, <2>7, <2>8, <2>9
<1>6. CASE a = "handler" /\ pc[a] \notin {"check", "expired"}
  <2>1. pc[a] \in {"idle", "clear", "next"}
    BY <1>6 DEF Types
  <2>2. Touched(a) = {}
    BY <2>1 DEF Touched
  <2> QED BY <2>2
<1> QED BY <1>3, <1>4, <1>5, <1>6, Sets

LEMMA FaultStep ==
  ASSUME LInv, NEW a \in Actor, UseFreed(a), Interrupts
  PROVE  LInv'
<1>1. interrupted /\ interrupted'
  BY NothingFreed DEF UseFreed, Interrupts
<1>2. UNCHANGED <<listVars, walkVars>>
  BY DEF UseFreed
<1> QED BY <1>1, <1>2, Untouched DEF LInv, Whole

LEMMA InitLists == Init => LInv
<1> SUFFICES ASSUME Init PROVE LInv
  OBVIOUS
<1>1. Place = "idle" /\ pc["handler"] = "idle" /\ It = NULL
  BY Sets DEF Init, Place, It
<1>2. /\ Queued = {} /\ Allocated = {} /\ \A x : In(x) = {}
  BY DEF Init, Queued, Allocated, In
<1>3. Types
  <2>1. 0 \in Index
    BY SizeAssumption DEF Index
  <2> QED BY <1>1, <2>1 DEF Init, Types, Pointer, Adding
<1>4. Sturdy
  <2>1. SameList /\ Reached
    BY <1>2 DEF Init, SameList, Reached, Covers
  <2>2. Fresh
    BY <1>1, NullAssumption DEF Init, Fresh, Apart, Early
  <2>3. PriorOK /\ NextOK /\ FrontOK
    BY <1>2 DEF Init, PriorOK, NextOK, FrontOK
  <2>4. RearOK
    BY <1>2 DEF RearOK
  <2>5. AddOK /\ DelOK
    BY <1>1 DEF AddOK, DelOK, Late
  <2> QED BY <2>1, <2>2, <2>3, <2>4, <2>5 DEF Sturdy
<1>5. \A a \in Actor : pc[a] = "idle"
  BY DEF Init
<1>6. \A a \in Actor : Walking(a) /\ Sound(a)
  BY <1>5 DEF Walking, Sound, Walked, Cases, Halves
<1>7. Passes /\ Closing
  BY <1>1 DEF Passes, Closing, Unlinked
<1>8. LinksOK
  <2>1. \A x \in Index : Doubly(front[x], rear[x], In(x))
    BY <1>2 DEF Init, Doubly
  <2> QED BY <1>1, <2>1 DEF LinksOK, ItsOK, Cases, Halves
<1> QED BY <1>1, <1>3, <1>4, <1>6, <1>7, <1>8 DEF LInv, Whole, Init

\* Every step keeps the invariant.
LEMMA ListsPreserved == LInv /\ [Next]_vars => LInv'
<1> SUFFICES ASSUME LInv, [Next]_vars PROVE LInv'
  OBVIOUS
<1>1. CASE UNCHANGED vars
  <2>1. UNCHANGED <<listVars, walkVars, fault, interrupted, Place>> /\ pc' = pc
    BY <1>1 DEF vars, walkVars, Place
  <2> QED BY <2>1, Untouched DEF LInv, Whole
<1>2. CASE Next
  <2>1. Interrupts
    BY <1>2 DEF Next, Interrupts
  <2>2. ASSUME Add, UNCHANGED fault PROVE LInv'
    BY <2>1, <2>2, AddNodeStep, SetFrontStep, SetRearToFrontStep, SetPriorStep,
       LinkRearStep, SetRearStep DEF Add
  <2>3. ASSUME Delete, UNCHANGED fault PROVE LInv'
    BY <2>1, <2>3, TestCaseStep, DelFirstStep, DelSecondStep, FreeNodeStep, DeleteStep
       DEF Delete
  <2>4. ASSUME NEW a \in Actor, Walk(a), UNCHANGED fault PROVE LInv'
    BY <2>1, <2>4, StartStep, CheckStep, EndStep, AdvanceStep, NextListStep DEF Walk
  <2>5. ASSUME Close \/ DelFront \/ Closed, UNCHANGED fault PROVE LInv'
    BY <2>1, <2>5, CloseStep, DelFrontStep, ClosedStep
  <2>6. ASSUME NEW a \in Actor, UseFreed(a) PROVE LInv'
    BY <2>1, <2>6, FaultStep
  <2> QED BY <1>2, <2>2, <2>3, <2>4, <2>5, <2>6 DEF Next, Step
<1> QED BY <1>1, <1>2

\* The lists and the walks are as they should be in every state.
THEOREM ListInvariance == Spec => []LInv
<1> QED BY InitLists, ListsPreserved, PTL DEF Spec

\* The lists of add_coll_node and del_coll_node, with the handler between any two
\* assignments of main: while no freed memory was used no node falls out of its
\* list, and none is left by del_dly_map; until the handler comes inside a call of
\* main no freed memory is used, and whenever main is not in the middle of
\* add_coll_node or del_coll_node the lists are doubly linked.
THEOREM MapIsSound == Spec => []MapOK
<1>1. LInv => MapOK
  <2> SUFFICES ASSUME LInv PROVE MapOK
    OBVIOUS
  <2> USE DEF LInv
  <2>0. \A n \in Node : Used(n) => (InMap(n) <=> n \in Queued)
    BY Sets DEF InMap, Queued, Place
  <2>1. TypeOK
    BY DEF Types, TypeOK
  <2>2. NoFault
    BY DEF Whole, NoFault
  <2>3. NoLeak
    <3> SUFFICES ASSUME pc["main"] = "closed", NEW n \in Node, heap[n] = "used" PROVE FALSE
      BY DEF NoLeak
    <3>1. Place = "closed" /\ n \in Queued
      BY DEF Place, Queued, Allocated, Unlinked
    <3>2. PICK x \in Index : n \in In(x)
      BY <3>1 DEF Types, In
    <3> QED BY <3>1, <3>2 DEF Closing
  <2>4. NoneLost
    <3> SUFFICES ASSUME NEW n \in Node, InMap(n), NEW S \in SUBSET Node, HoldsNext(S),
                        front[key[n]] \in S \cup {NULL}
                 PROVE  n \in S
      BY DEF NoneLost, Listed
    <3>1. PICK x \in Index : x = key[n] /\ n \in In(x)
      BY <2>0 DEF Types, In, InMap
    <3> QED BY <3>1 DEF Sturdy, Reached, Covers
  <2>5. ListOK
    <3> SUFFICES ASSUME ~ interrupted,
                        pc["main"] \in {"idle", "check", "next", "expired", "clear"},
                        NEW n \in Node, Used(n)
                 PROVE  /\ prior[n] = NULL <=> front[key[n]] = n
                        /\ prior[n] # NULL => Used(prior[n]) /\ next[prior[n]] = n
                        /\ next[n] = NULL <=> rear[key[n]] = n
                        /\ next[n] # NULL => Used(next[n]) /\ prior[next[n]] = n
      BY DEF ListOK
    <3>1. n \in Queued
      BY Sets DEF Queued, Unlinked, Place
    <3>2. PICK x \in Index : x = key[n] /\ n \in In(x)
      BY <3>1 DEF Types, In
    <3>3. Doubly(front[x], rear[x], In(x))
      BY DEF Whole, LinksOK, Place, Halves
    <3>4. \A m \in In(x) : Used(m)
      BY Sets DEF In
    <3> QED BY <3>2, <3>3, <3>4 DEF Doubly
  <2> QED BY <2>1, <2>2, <2>3, <2>4, <2>5 DEF MapOK
<1> QED BY <1>1, ListInvariance, PTL

\* send_frm writes an RTS only after ck_collision was called for every node that
\* is in the lists, also when the nodes main has its pointer at, or behind it, were
\* deleted by the handler.
THEOREM WalksComplete == Spec => []WalkComplete
<1>1. LInv => WalkComplete
  <2> SUFFICES ASSUME LInv, NEW a \in Actor, pc[a] = "clear", NEW n \in Node, InMap(n)
               PROVE  n \in checked[a]
    BY DEF WalkComplete
  <2>1. n \in Queued
    BY Sets DEF LInv, InMap, Queued, Place
  <2>2. PICK x \in Index : n \in In(x)
    BY <2>1 DEF LInv, Types, In
  <2> QED BY <2>2 DEF LInv, Walking
<1> QED BY <1>1, ListInvariance, PTL
=============================================================================

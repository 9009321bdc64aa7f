------------------------------ MODULE CollList ------------------------------
(***************************************************************************)
(* The lists of collision nodes of dly_map[] with their pointers           *)
(* (dly_map_man.c): add_coll_node, the walk of ck_coll_map, which deletes  *)
(* nodes that have expired and then reads their next, and del_dly_map.     *)
(* send_frm(RTS) walks the lists in main and in the handler that retries   *)
(* an RTS: two actors.  main runs one assignment of add_coll_node and      *)
(* del_coll_node per step, and the handler may interrupt it between any    *)
(* two; main stands still meanwhile, so that the handler's del_coll_node   *)
(* is one step.  Some properties hold only until the handler comes inside  *)
(* a call of main (interrupted).                                           *)
(*                                                                         *)
(* What ck_collision finds for a node is left open (CollisionCheck has the *)
(* arithmetic).  free leaves next as it was: the C library writes into the *)
(* first words of freed memory only.  Memory is never used for a second    *)
(* node, so that any other use of freed memory shows; the program is       *)
(* undefined from there, and the model stops.                              *)
(*                                                                         *)
(* A definition named Op_Suffix is operator Op with a plausible bug; the   *)
(* properties are tried against it.                                        *)
(***************************************************************************)
EXTENDS Integers, FiniteSets, Sequences

CONSTANTS Node, NULL, DELAY_MAP_SIZE

ASSUME NullAssumption == NULL \notin Node
ASSUME SizeAssumption == DELAY_MAP_SIZE \in Nat \ {0}

VARIABLES
  heap,           \* [Node -> {"unused", "used", "freed"}]
  key,            \* [Node -> Index] dly_harsh(src_dst_addr)
  prior, next,    \* the pointers of a node
  front, rear,    \* [Index -> Pointer] dly_map[]
  pc, i,          \* [Actor -> ...] place, and the list of a walk
  temp,           \* [Actor -> Pointer] the node it checks, adds or deletes
  checked,        \* [Actor -> SUBSET Node] nodes ck_collision was called for
  fault,          \* freed memory or NULL was used
  interrupted     \* the handler has walked while main was not idle

listVars == <<heap, key, prior, next, front, rear>>
walkVars == <<pc, i, temp, checked>>
vars     == <<listVars, walkVars, fault, interrupted>>

Index   == 0 .. (DELAY_MAP_SIZE - 1)
Pointer == Node \cup {NULL}
Actor   == {"main", "handler"}

Init == /\ heap = [n \in Node |-> "unused"] /\ key = [n \in Node |-> 0]
        /\ prior = [n \in Node |-> NULL] /\ next = [n \in Node |-> NULL]
        /\ front = [x \in Index |-> NULL] /\ rear = [x \in Index |-> NULL]
        /\ pc = [a \in Actor |-> "idle"] /\ i = [a \in Actor |-> 0]
        /\ temp = [a \in Actor |-> NULL]
        /\ checked = [a \in Actor |-> {}]
        /\ fault = FALSE /\ interrupted = FALSE

Used(n) == n \in Node /\ heap[n] = "used"

\* main stands still while the handler runs on top of it.
At(a, place) == pc[a] = place /\ (a = "main" => pc["handler"] = "idle")

GoTo(a, place) == pc' = [pc EXCEPT ![a] = place]

\* The call is over, and its variables are gone.
Return(a) == /\ GoTo(a, "idle")
             /\ temp' = [temp EXCEPT ![a] = NULL]
             /\ checked' = [checked EXCEPT ![a] = {}]
             /\ i' = [i EXCEPT ![a] = 0]

----------------------------------------------------------------------------
(***************************************************************************)
(* add_coll_node of main, for a frame that was heard.                      *)
(***************************************************************************)
\* main's node and its list.
It  == temp["main"]
Its == key[It]

AddNode(n, x) ==
  /\ At("main", "idle") /\ heap[n] = "unused"
  /\ heap' = [heap EXCEPT ![n] = "used"] /\ key' = [key EXCEPT ![n] = x]
  /\ temp' = [temp EXCEPT !["main"] = n]
  /\ GoTo("main", IF front[x] = NULL THEN "add_front" ELSE "add_prior")
  /\ UNCHANGED <<prior, next, front, rear, i, checked>>

SetFront == /\ At("main", "add_front") /\ GoTo("main", "add_first")
            /\ front' = [front EXCEPT ![Its] = It]
            /\ UNCHANGED <<heap, key, prior, next, rear, i, temp, checked>>

SetRearToFront == /\ At("main", "add_first") /\ Return("main")
                  /\ rear' = [rear EXCEPT ![Its] = front[Its]]
                  /\ UNCHANGED <<heap, key, prior, next, front>>

SetPrior == /\ At("main", "add_prior") /\ GoTo("main", "add_link")
            /\ prior' = [prior EXCEPT ![It] = rear[Its]]
            /\ UNCHANGED <<heap, key, next, front, rear, i, temp, checked>>

LinkRear == /\ At("main", "add_link") /\ Used(rear[Its])
            /\ GoTo("main", "add_rear")
            /\ next' = [next EXCEPT ![rear[Its]] = It]
            /\ UNCHANGED <<heap, key, prior, front, rear, i, temp, checked>>

SetRear_Forgotten == /\ At("main", "add_rear") /\ Return("main")
                     /\ UNCHANGED listVars

SetRear == /\ At("main", "add_rear") /\ Return("main")
           /\ rear' = [rear EXCEPT ![Its] = It]
           /\ UNCHANGED <<heap, key, prior, next, front>>

----------------------------------------------------------------------------
(***************************************************************************)
(* del_coll_node of main: three tests lead to one of four cases, each with *)
(* two assignments and free.                                               *)
(***************************************************************************)
TestCase ==
  /\ \/ /\ At("main", "expired")
        /\ GoTo("main", IF prior[It] = NULL /\ next[It] = NULL
                        THEN "del_only" ELSE "not_only")
     \/ /\ At("main", "not_only")
        /\ GoTo("main", IF prior[It] # NULL /\ next[It] = NULL
                        THEN "del_last" ELSE "not_last")
     \/ /\ At("main", "not_last")
        /\ GoTo("main", IF prior[It] = NULL /\ next[It] # NULL
                        THEN "del_head" ELSE "del_middle")
  /\ Used(It)
  /\ UNCHANGED <<listVars, i, temp, checked>>

DelFirst ==
  /\ \/ /\ At("main", "del_only") /\ GoTo("main", "only_rear")
        /\ front' = [front EXCEPT ![Its] = NULL] /\ UNCHANGED <<next, rear>>
     \/ /\ At("main", "del_last") /\ GoTo("main", "last_next") /\ Used(It)
        /\ rear' = [rear EXCEPT ![Its] = prior[It]] /\ UNCHANGED <<next, front>>
     \/ /\ At("main", "del_head") /\ GoTo("main", "head_prior") /\ Used(It)
        /\ front' = [front EXCEPT ![Its] = next[It]] /\ UNCHANGED <<next, rear>>
     \/ /\ At("main", "del_middle") /\ GoTo("main", "middle_prior")
        /\ Used(It) /\ Used(prior[It])
        /\ next' = [next EXCEPT ![prior[It]] = next[It]]
        /\ UNCHANGED <<front, rear>>
  /\ UNCHANGED <<heap, key, prior, i, temp, checked>>

DelSecond_KeepsPrior ==
  /\ \/ /\ At("main", "only_rear")
        /\ rear' = [rear EXCEPT ![Its] = NULL] /\ UNCHANGED next
     \/ /\ At("main", "last_next") /\ Used(rear[Its])
        /\ next' = [next EXCEPT ![rear[Its]] = NULL] /\ UNCHANGED rear
     \/ At("main", "head_prior") /\ UNCHANGED <<next, rear>>
     \/ At("main", "middle_prior") /\ UNCHANGED <<next, rear>>
  /\ GoTo("main", "free")
  /\ UNCHANGED <<heap, key, prior, front, i, temp, checked>>

DelSecond ==
  /\ \/ /\ At("main", "only_rear")
        /\ rear' = [rear EXCEPT ![Its] = NULL] /\ UNCHANGED <<prior, next>>
     \/ /\ At("main", "last_next") /\ Used(rear[Its])
        /\ next' = [next EXCEPT ![rear[Its]] = NULL] /\ UNCHANGED <<prior, rear>>
     \/ /\ At("main", "head_prior") /\ Used(front[Its])
        /\ prior' = [prior EXCEPT ![front[Its]] = NULL] /\ UNCHANGED <<next, rear>>
     \/ /\ At("main", "middle_prior") /\ Used(It) /\ Used(next[It])
        /\ prior' = [prior EXCEPT ![next[It]] = prior[It]]
        /\ UNCHANGED <<next, rear>>
  /\ GoTo("main", "free")
  /\ UNCHANGED <<heap, key, front, i, temp, checked>>

FreeNode == /\ At("main", "free") /\ Used(It) /\ GoTo("main", "next")
            /\ heap' = [heap EXCEPT ![It] = "freed"]
            /\ UNCHANGED <<key, prior, next, front, rear, i, temp, checked>>

(***************************************************************************)
(* del_coll_node as a whole: p leaves its list between two neighbours.     *)
(***************************************************************************)
Unlink_KeepsFront(p) ==
  LET a == prior[p]
      b == next[p]
  IN /\ next' = [n \in Node |-> IF n = a THEN b ELSE next[n]]
     /\ prior' = [n \in Node |-> IF n = b THEN a ELSE prior[n]]
     /\ rear' = IF b = NULL THEN [rear EXCEPT ![key[p]] = a] ELSE rear
     /\ UNCHANGED front

Unlink(p) ==
  LET a == prior[p]
      b == next[p]
  IN /\ next' = [n \in Node |-> IF n = a THEN b ELSE next[n]]
     /\ prior' = [n \in Node |-> IF n = b THEN a ELSE prior[n]]
     /\ front' = IF a = NULL THEN [front EXCEPT ![key[p]] = b] ELSE front
     /\ rear' = IF b = NULL THEN [rear EXCEPT ![key[p]] = a] ELSE rear

Neighbours(p) == {prior[p], next[p]} \ {NULL}

DelCollNode(p) == /\ Used(p) /\ \A n \in Neighbours(p) : Used(n)
                  /\ Unlink(p)
                  /\ heap' = [heap EXCEPT ![p] = "freed"]
                  /\ UNCHANGED key

----------------------------------------------------------------------------
(***************************************************************************)
(* ck_coll_map.                                                            *)
(***************************************************************************)
\* Once main is in del_dly_map, a timer that sends uses freed buffers and closed
\* logs as well (MacLifetime): no walk of the handler starts there.
StartWalk(a) == /\ At(a, "idle") /\ GoTo(a, "check")
                /\ a = "handler" => pc["main"] \notin {"close", "closed"}
                /\ temp' = [temp EXCEPT ![a] = front[0]]
                /\ UNCHANGED <<listVars, i, checked>>

\* ck_collision finds no collision, or that the node has expired.
Check(a) == /\ At(a, "check") /\ Used(temp[a])
            /\ \E found \in {"next", "expired"} : GoTo(a, found)
            /\ checked' = [checked EXCEPT ![a] = @ \cup {temp[a]}]
            /\ UNCHANGED <<listVars, i, temp>>

\* A collision ends the walk.
Collide(a) == /\ At(a, "check") /\ Used(temp[a])
              /\ Return(a)
              /\ UNCHANGED listVars

DeleteExpired == /\ At("handler", "expired")
                 /\ DelCollNode(temp["handler"])
                 /\ GoTo("handler", "next")
                 /\ UNCHANGED <<i, temp, checked>>

Advance_OfListed(a) ==
  /\ At(a, "next") /\ GoTo(a, "check")
  /\ temp' = [temp EXCEPT ![a] = IF Used(@) THEN next[@] ELSE NULL]
  /\ UNCHANGED <<listVars, i, checked>>

\* The successor is read from the node, which may have been freed.
Advance(a) == /\ At(a, "next") /\ GoTo(a, "check")
              /\ temp' = [temp EXCEPT ![a] = next[@]]
              /\ UNCHANGED <<listVars, i, checked>>

\* The end of a list; after the last one no collision has been found.
NextList(a) ==
  /\ At(a, "check") /\ temp[a] = NULL
  /\ IF i[a] < DELAY_MAP_SIZE - 1
     THEN /\ i' = [i EXCEPT ![a] = @ + 1]
          /\ temp' = [temp EXCEPT ![a] = front[i'[a]]]
          /\ UNCHANGED pc
     ELSE GoTo(a, "clear") /\ UNCHANGED <<i, temp>>
  /\ UNCHANGED <<listVars, checked>>

\* send_frm writes the RTS.
WriteRTS(a) == At(a, "clear") /\ Return(a) /\ UNCHANGED listVars

----------------------------------------------------------------------------
(***************************************************************************)
(* del_dly_map.                                                            *)
(***************************************************************************)
Close == /\ At("main", "idle") /\ GoTo("main", "close")
         /\ UNCHANGED <<listVars, i, temp, checked>>

First == front[i["main"]]

\* prior of the front is NULL, so that del_coll_node moves front on itself, or a
\* freed node, which UseFreed has.
DelFront == /\ At("main", "close")
            /\ DelCollNode(First)
            /\ UNCHANGED walkVars

Closed_TooEarly ==
  /\ At("main", "close") /\ First = NULL
  /\ GoTo("main", "closed")
  /\ UNCHANGED <<listVars, i, temp, checked>>

Closed == /\ At("main", "close") /\ First = NULL
          /\ rear' = [rear EXCEPT ![i["main"]] = NULL]
          /\ IF i["main"] < DELAY_MAP_SIZE - 1
             THEN i' = [i EXCEPT !["main"] = @ + 1] /\ UNCHANGED pc
             ELSE GoTo("main", "closed") /\ UNCHANGED i
          /\ UNCHANGED <<heap, key, prior, next, front, temp, checked>>

----------------------------------------------------------------------------
(***************************************************************************)
(* Freed memory or NULL where an actor goes through a pointer.             *)
(***************************************************************************)
Touched(a) ==
  LET p == temp[a] IN
  CASE pc[a] = "check" -> {p} \ {NULL}
    [] pc[a] = "expired" -> IF a = "handler" THEN {p} \cup Neighbours(p) ELSE {p}
    [] pc[a] = "add_link" -> {rear[key[p]]}
    [] pc[a] \in {"not_only", "not_last", "del_last", "del_head", "free"} -> {p}
    [] pc[a] = "del_middle" -> {p, prior[p]}
    [] pc[a] = "last_next" -> {rear[key[p]]}
    [] pc[a] = "head_prior" -> {front[key[p]]}
    [] pc[a] = "middle_prior" -> {p, next[p]}
    [] pc[a] = "close" -> IF First = NULL THEN {} ELSE {First} \cup Neighbours(First)
    [] OTHER -> {}

UseFreed(a) == /\ At(a, pc[a]) /\ \E n \in Touched(a) : ~ Used(n)
               /\ fault' = TRUE
               /\ UNCHANGED <<listVars, walkVars>>

Add == \/ \E n \in Node, x \in Index : AddNode(n, x)
       \/ SetFront \/ SetRearToFront \/ SetPrior \/ LinkRear \/ SetRear

Delete == TestCase \/ DelFirst \/ DelSecond \/ FreeNode \/ DeleteExpired

Walk(a) == \/ StartWalk(a) \/ Check(a) \/ Collide(a) \/ Advance(a)
           \/ NextList(a) \/ WriteRTS(a)

Step == \/ Add \/ Delete
        \/ \E a \in Actor : Walk(a)
        \/ Close \/ DelFront \/ Closed

Next == /\ ~ fault
        /\ \/ Step /\ UNCHANGED fault
           \/ \E a \in Actor : UseFreed(a)
        /\ interrupted' = (interrupted \/ /\ pc["main"] # "idle"
                                          /\ pc'["handler"] # "idle")

Spec == Init /\ [][Next]_vars

----------------------------------------------------------------------------
\* Types: no walk leaves dly_map[].
TypeOK ==
  /\ heap \in [Node -> {"unused", "used", "freed"}] /\ key \in [Node -> Index]
  /\ {prior, next} \subseteq [Node -> Pointer]
  /\ {front, rear} \subseteq [Index -> Pointer]
  /\ i \in [Actor -> Index] /\ temp \in [Actor -> Pointer]

\* Until the handler comes inside a call of main, freed memory and NULL are not
\* used, although walks read next of nodes they have freed (dly_map_man.c:274).
NoFault == ~ interrupted => ~ fault

\* Until then, whenever main is not in the middle of add_coll_node or
\* del_coll_node, the lists are doubly linked.
ListOK ==
  ~ interrupted /\ pc["main"] \in {"idle", "check", "next", "expired", "clear"} =>
    \A n \in Node : Used(n) =>
      /\ prior[n] = NULL <=> front[key[n]] = n
      /\ prior[n] # NULL => Used(prior[n]) /\ next[prior[n]] = n
      /\ next[n] = NULL <=> rear[key[n]] = n
      /\ next[n] # NULL => Used(next[n]) /\ prior[next[n]] = n

\* One reaches n from the front of its list: it is in every set that has the
\* front, and with a node the next one.
HoldsNext(S) == \A m \in S : next[m] \in S \cup {NULL}

Listed(n) == \A S \in SUBSET Node :
               HoldsNext(S) /\ front[key[n]] \in S \cup {NULL} => n \in S

\* main has allocated n, and not linked it yet, or unlinked it, and not freed it.
Unlinked == {"add_front", "add_prior", "add_link",
             "only_rear", "head_prior", "middle_prior", "free"}

InMap(n) == Used(n) /\ ~ (pc["main"] \in Unlinked /\ n = It)

\* With the handler between any two steps of main, as long as no freed memory
\* was used, no node falls out of its list.
NoneLost == ~ fault => \A n \in Node : InMap(n) => Listed(n)

\* del_dly_map frees every node that is left.
NoLeak == pc["main"] = "closed" => \A n \in Node : heap[n] # "used"

MapOK == TypeOK /\ NoFault /\ ListOK /\ NoneLost /\ NoLeak

\* An RTS is written only after every node of every list has been checked, also
\* when the nodes main has its pointer at, or behind it, were deleted by the
\* handler.
WalkComplete ==
  ~ fault => \A a \in Actor : pc[a] = "clear" =>
    \A n \in Node : InMap(n) => n \in checked[a]
=============================================================================

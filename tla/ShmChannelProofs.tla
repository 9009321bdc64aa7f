------------------------- MODULE ShmChannelProofs -------------------------
(***************************************************************************)
(* Proofs about ShmChannel, for any processes, messages and word counts.   *)
(*                                                                         *)
(* As long as no process starts while another one is in shm_operation,     *)
(* the protected part excludes, also when handlers use the cell, calls are *)
(* interrupted and processes are killed (Exclusion, TypeCorrect).  Without *)
(* handlers and kills the cell implements ShmRegister (ImplementsCell).    *)
(***************************************************************************)
EXTENDS ShmChannel, TLAPS

Location == {"idle", "semaphore_p", "blocked", "failed", "memset",
             "memcpy", "status", "semaphore_v"}

SemType == /\ sem \in Nat /\ undo \in [Process -> {0, 1}]
           /\ up \subseteq Process /\ pc \in [Actor -> Location]

\* Only a process that runs is in shm_operation.
DownIdle == \A a \in Actor : a[1] \notin up => pc[a] = "idle"

\* The invariant of the semaphore.
SInv == SemType /\ DownIdle /\ SemExact /\ MutualExclusion

\* An actor is an actor of a process.
LEMMA ActorProcess == ASSUME NEW a \in Actor PROVE a[1] \in Process
  BY ProcessAssumption DEF Actor, Main, Handler, Process

LEMMA MainActor == ASSUME NEW p \in Process PROVE <<p, "main">> \in Actor
  BY DEF Actor, Main

LEMMA SemInit == Init => SInv
<1> SUFFICES ASSUME Init PROVE SInv
  OBVIOUS
<1>1. \A a \in Actor : ~ Inside(a)
  BY DEF Init, Inside
<1> QED
  BY <1>1 DEF Init, SInv, SemType, DownIdle, SemExact, MutualExclusion,
              Location

\* A step that lets no actor enter or leave the protected part.
LEMMA SemFrame ==
  ASSUME SInv, UNCHANGED <<sem, undo, up>>,
         pc' \in [Actor -> Location],
         \A b \in Actor : (Inside(b))' <=> Inside(b),
         \A b \in Actor : pc'[b] # "idle" => b[1] \in up
  PROVE  SInv'
BY DEF SInv, SemType, DownIdle, SemExact, MutualExclusion

LEMMA StartSem ==
  ASSUME SInv, ~LateStart, NEW p \in Process, Start(p)
  PROVE  SInv'
<1>1. \A a \in Actor : ~ Inside(a) /\ ~ (Inside(a))'
  BY DEF Start, Inside
<1> QED
  BY <1>1 DEF SInv, Start, SemType, DownIdle, SemExact, MutualExclusion

LEMMA EnterSem ==
  ASSUME SInv, NEW a \in Actor, Enter(a)
  PROVE  SInv'
<1> DEFINE p == a[1]
<1>1. p \in Process /\ p \in up
  BY ActorProcess DEF Enter, Runs
<1>2. sem = 1 /\ \A b \in Actor : ~ Inside(b)
  BY <1>1 DEF SInv, SemExact, Enter
<1>3. undo[p] = 0
  BY <1>1, <1>2 DEF SInv, SemExact
<1>4. \A b \in Actor : (Inside(b))' <=> b = a
  BY <1>2 DEF Enter, Inside, SInv, SemType
<1>5. sem' = 0 /\ undo' = [undo EXCEPT ![p] = 1]
  BY <1>1, <1>2, <1>3 DEF Enter, SInv, SemType
<1>6. SemType' /\ DownIdle'
  BY <1>1, <1>5 DEF Enter, SInv, SemType, DownIdle, Location
<1>7. SemExact'
  BY <1>1, <1>2, <1>4, <1>5 DEF SInv, SemType, SemExact, Enter
<1> QED
  BY <1>4, <1>6, <1>7 DEF SInv, MutualExclusion

LEMMA LeaveSem ==
  ASSUME SInv, NEW a \in Actor, Leave(a)
  PROVE  SInv'
<1> DEFINE p == a[1]
<1>1. p \in Process /\ p \in up /\ Inside(a)
  BY ActorProcess DEF Leave, Runs, Inside
<1>2. sem = 0 /\ undo[p] = 1 /\ \A b \in Actor : Inside(b) => b = a
  BY <1>1 DEF SInv, SemExact, MutualExclusion
<1>3. \A b \in Actor : ~ (Inside(b))'
  BY <1>2 DEF Leave, Inside, SInv, SemType
<1>4. sem' = 1 /\ undo' = [undo EXCEPT ![p] = 0]
  BY <1>1, <1>2 DEF Leave, SInv, SemType
<1>5. SemType' /\ DownIdle'
  BY <1>1, <1>4 DEF Leave, SInv, SemType, DownIdle, Location
<1>6. SemExact'
  BY <1>1, <1>2, <1>3, <1>4 DEF SInv, SemType, SemExact, Leave
<1> QED
  BY <1>3, <1>5, <1>6 DEF SInv, MutualExclusion

LEMMA EndsSem ==
  ASSUME SInv, NEW p \in Process, Ends(p)
  PROVE  SInv'
<1>1. \A b \in Actor : (Inside(b))' <=> Inside(b) /\ b[1] # p
  BY DEF Ends, Inside, SInv, SemType
<1>2. DownIdle' /\ pc' \in [Actor -> Location] /\ up' \subseteq Process
  BY DEF Ends, SInv, SemType, DownIdle, Location
<1>3. \A q \in Process : undo'[q] = IF q = p THEN 0 ELSE undo[q]
  BY DEF Ends, SInv, SemType
<1>4. undo' \in [Process -> {0, 1}]
  BY DEF Ends, SInv, SemType
<1>5. \A q \in Process :
        undo'[q] = IF \E a \in Actor : a[1] = q /\ (Inside(a))' THEN 1 ELSE 0
  BY <1>1, <1>3 DEF SInv, SemExact
<1>6. CASE \E a \in Actor : a[1] = p /\ Inside(a)
  <2>1. PICK a \in Actor : a[1] = p /\ Inside(a)
    BY <1>6
  <2>2. p \in up
    BY <2>1 DEF SInv, DownIdle, Inside
  <2>3. sem = 0 /\ undo[p] = 1
    BY <2>1, <2>2 DEF SInv, SemExact
  <2>4. sem' = 1
    BY <2>3 DEF Ends
  <2>5. \A b \in Actor : ~ (Inside(b))'
    BY <1>1, <2>1 DEF SInv, MutualExclusion
  <2> QED
    BY <1>2, <1>4, <1>5, <2>4, <2>5
       DEF SInv, SemType, SemExact, MutualExclusion
<1>7. CASE ~ \E a \in Actor : a[1] = p /\ Inside(a)
  <2>1. undo[p] = 0
    BY <1>7 DEF SInv, SemExact
  <2>2. sem' = sem
    BY <2>1 DEF Ends, SInv, SemType
  <2>3. \A b \in Actor : (Inside(b))' <=> Inside(b)
    BY <1>1, <1>7
  <2>4. up' # {} => up # {}
    BY DEF Ends
  <2> QED
    BY <1>2, <1>4, <1>5, <2>2, <2>3, <2>4
       DEF SInv, SemType, SemExact, MutualExclusion
<1> QED
  BY <1>6, <1>7

\* Every step of shm_operation and of its callers keeps the invariant.
LEMMA SemStep ==
  ASSUME ~LateStart, SInv, [Next]_vars
  PROVE  SInv'
<1>1. CASE UNCHANGED vars
  BY <1>1 DEF vars, semVars, cellVars, argVars, SInv, SemType, DownIdle,
              SemExact, MutualExclusion, Inside
<1>2. ASSUME NEW a \in Actor, Call(a)
      PROVE  SInv'
  <2>1. UNCHANGED <<sem, undo, up>> /\ pc[a] = "idle" /\ a[1] \in up
        /\ pc' = [pc EXCEPT ![a] = "semaphore_p"]
    BY <1>2 DEF Call, CallWrite, CallRead, Runs, semVars
  <2> QED
    BY <2>1, SemFrame DEF SInv, SemType, DownIdle, Inside, Location
<1>3. ASSUME NEW a \in Actor, Block(a)
      PROVE  SInv'
  <2>1. UNCHANGED <<sem, undo, up>> /\ pc[a] = "semaphore_p" /\ a[1] \in up
        /\ pc' = [pc EXCEPT ![a] = "blocked"]
    BY <1>3 DEF Block, Runs, semVars
  <2> QED
    BY <2>1, SemFrame DEF SInv, SemType, DownIdle, Inside, Location
<1>4. ASSUME NEW a \in Actor, Memset(a) \/ Memcpy(a) \/ SetStatus(a)
      PROVE  SInv'
  <2>1. /\ UNCHANGED <<sem, undo, up>> /\ Inside(a) /\ a[1] \in up
        /\ \/ pc' = pc
           \/ \E l \in {"memcpy", "status", "semaphore_v"} :
                pc' = [pc EXCEPT ![a] = l]
    BY <1>4 DEF Memset, Memcpy, SetStatus, Runs, semVars, Inside
  <2> QED
    BY <2>1, SemFrame DEF SInv, SemType, DownIdle, Inside, Location
<1>5. ASSUME NEW p \in Process, Interrupted(p)
      PROVE  SInv'
  <2>1. <<p, "main">> \in Actor
    BY MainActor
  <2>2. UNCHANGED <<sem, undo, up>> /\ pc[<<p, "main">>] = "blocked"
        /\ p \in up /\ pc' = [pc EXCEPT ![<<p, "main">>] = "failed"]
    BY <1>5 DEF Interrupted, semVars
  <2> QED
    BY <2>1, <2>2, SemFrame DEF SInv, SemType, DownIdle, Inside, Location
<1>6. ASSUME NEW p \in Process, Exit(p) \/ Crash(p)
      PROVE  SInv'
  BY <1>6, EndsSem DEF Exit, Crash
<1> QED
  BY <1>1, <1>2, <1>3, <1>4, <1>5, <1>6, StartSem, EnterSem, LeaveSem
     DEF Next, Step

(***************************************************************************)
(* Two actors are never in the protected part of shm_operation at once,    *)
(* and the semaphore and what the kernel would undo agree with who is in   *)
(* it, for any number of processes, with handlers, interrupted calls and   *)
(* kills, as long as no process starts while another one is in a call.     *)
(***************************************************************************)
THEOREM Exclusion ==
  ASSUME ~LateStart
  PROVE  Spec => [](MutualExclusion /\ SemExact)
<1>1. SInv => MutualExclusion /\ SemExact
  BY DEF SInv
<1> QED
  BY <1>1, SemInit, SemStep, PTL DEF Spec

----------------------------------------------------------------------------
(***************************************************************************)
(* The types of the other variables.                                       *)
(***************************************************************************)
CellType == /\ status \in Writer \cup {NONE} /\ data \in Data
            /\ pos \in [Actor -> Word] /\ want \in [Actor -> Msg \cup {NONE}]
            /\ buf \in [Process -> Data] /\ got \in Data

\* A writer in a call has a message, and copies no word beyond its last.
CallOK == \A a \in Actor :
            /\ a[1] \in Writer /\ pc[a] # "idle" => want[a] \in Msg
            /\ pc[a] = "memcpy" => pos[a] <= LastWord(a)

TInv == SInv /\ CellType /\ CallOK

\* The contents of cell and buffers have their type.
LEMMA DataTyped ==
  /\ Blank \in Data
  /\ \A m \in Msg : Whole(m) \in Data
  /\ \A d \in Data, w \in Word : d[w] \in Msg \cup {Zero}
BY DEF Blank, Whole, Data

\* The last word of a copy is a word of the cell.
LEMMA LastWordTyped ==
  ASSUME NEW a \in Actor, a[1] \in Writer => want[a] \in Msg
  PROVE  LastWord(a) \in Word
<1>1. a[1] \in Process
  BY ActorProcess
<1>2. CASE a[1] = Reader
  BY <1>2, MsgAssumption DEF LastWord, Word
<1>3. CASE a[1] # Reader
  <2>1. want[a] \in Msg
    BY <1>1, <1>3 DEF Process
  <2> QED
    BY <1>3, <2>1, MsgAssumption DEF LastWord, Word
<1> QED
  BY <1>2, <1>3

LEMMA TypeInit == Init => TInv
<1> SUFFICES ASSUME Init PROVE TInv
  OBVIOUS
<1>1. 1 \in Word
  BY MsgAssumption DEF Word
<1>2. CellType
  BY <1>1, DataTyped DEF Init, CellType
<1> QED
  BY <1>2, SemInit DEF TInv, CallOK, Init

LEMMA TypeStep ==
  ASSUME ~LateStart, TInv, [Next]_vars
  PROVE  TInv'
<1> USE DEF TInv, CellType, CallOK
<1>0. SInv' /\ SemType /\ SemType'
  BY SemStep DEF SInv
<1>1. CASE UNCHANGED vars
  BY <1>0, <1>1 DEF vars, semVars, cellVars, argVars, LastWord
<1>2. ASSUME NEW p \in Process, Start(p)
      PROVE  TInv'
  BY <1>0, <1>2, DataTyped DEF Start, cellVars, argVars, LastWord
<1>3. ASSUME NEW a \in Actor, NEW m \in Msg, CallWrite(a, m)
      PROVE  TInv'
  <2>1. Whole(m) \in Data /\ a[1] \in Process
    BY DataTyped, ActorProcess
  <2>2. CellType'
    BY <1>3, <2>1 DEF CallWrite, cellVars
  <2>3. \A b \in Actor : want'[b] = (IF b = a THEN m ELSE want[b])
                         /\ pc'[b] = (IF b = a THEN "semaphore_p" ELSE pc[b])
                         /\ pos'[b] = pos[b]
    BY <1>3, <1>0 DEF CallWrite, SemType
  <2> QED
    BY <1>0, <2>2, <2>3 DEF LastWord
<1>4. ASSUME NEW a \in Actor, CallRead(a)
      PROVE  TInv'
  <2>1. a[1] \notin Writer /\ CellType'
    BY <1>4, ProcessAssumption DEF CallRead, cellVars, argVars
  <2>2. want' = want /\ pos' = pos
        /\ \A b \in Actor : pc'[b] = (IF b = a THEN "semaphore_p" ELSE pc[b])
    BY <1>0, <1>4 DEF CallRead, argVars, SemType
  <2> QED
    BY <1>0, <2>1, <2>2 DEF LastWord
<1>5. ASSUME NEW a \in Actor, Enter(a) \/ Block(a)
      PROVE  TInv'
  <2>1. CellType' /\ want' = want /\ pos' = pos
        /\ pc[a] \in {"semaphore_p", "blocked"}
    BY <1>5 DEF Enter, Block, cellVars, argVars
  <2>2. \A b \in Actor : b # a => pc'[b] = pc[b]
    BY <1>0, <1>5 DEF Enter, Block, SemType
  <2>3. pc'[a] \in {"memset", "blocked"}
    BY <1>0, <1>5 DEF Enter, Block, SemType
  <2> QED
    BY <1>0, <2>1, <2>2, <2>3 DEF LastWord
<1>6. ASSUME NEW p \in Process, Interrupted(p)
      PROVE  TInv'
  <2> DEFINE a == <<p, "main">>
  <2>1. a \in Actor /\ a[1] = p
    BY MainActor
  <2>2. CellType' /\ want' = want /\ pos' = pos /\ pc[a] = "blocked"
        /\ \A b \in Actor : pc'[b] = (IF b = a THEN "failed" ELSE pc[b])
    BY <1>0, <1>6, <2>1 DEF Interrupted, cellVars, argVars, SemType
  <2> HIDE DEF a
  <2> QED
    BY <1>0, <2>1, <2>2 DEF LastWord
<1>7. ASSUME NEW a \in Actor, Memset(a)
      PROVE  TInv'
  <2>1. a[1] \in Process /\ (a[1] \in Writer => want[a] \in Msg)
    BY <1>7, ActorProcess DEF Memset
  <2>2. LastWord(a) \in Word /\ 1 \in Word
    BY <2>1, LastWordTyped, MsgAssumption DEF Word
  <2>3. CellType' /\ want' = want
    BY <1>7, <2>1, <2>2, DataTyped DEF Memset
  <2>4. \A b \in Actor : pos'[b] = (IF b = a THEN 1 ELSE pos[b])
                         /\ pc'[b] = (IF b = a THEN "memcpy" ELSE pc[b])
    BY <1>0, <1>7 DEF Memset, SemType
  <2>5. pc[a] = "memset"
    BY <1>7 DEF Memset
  <2> QED
    BY <1>0, <2>2, <2>3, <2>4, <2>5 DEF LastWord, Word
<1>8. ASSUME NEW a \in Actor, Memcpy(a)
      PROVE  TInv'
  <2>1. a[1] \in Process /\ (a[1] \in Writer => want[a] \in Msg)
        /\ pc[a] = "memcpy"
    BY <1>8, ActorProcess DEF Memcpy
  <2>2. LastWord(a) \in Word /\ pos[a] \in Word /\ pos[a] <= LastWord(a)
    BY <2>1, LastWordTyped
  <2>3. buf[a[1]] \in Data /\ Reader \in Process
        /\ buf[a[1]][pos[a]] \in Msg \cup {Zero}
        /\ data[pos[a]] \in Msg \cup {Zero}
    BY <2>1, <2>2, DataTyped DEF Process
  <2>4. data' \in Data /\ buf' \in [Process -> Data]
    <3>1. /\ data \in Data /\ buf \in [Process -> Data]
      BY <1>0, <2>2, <2>3 DEF CellType
    <3>2. \A d \in Data, w \in Word, m \in Msg \cup {Zero} :
            [d EXCEPT ![w] = m] \in Data
      BY DEF Data
    <3>3. CASE a[1] = Reader
      <4>1. data' = data
            /\ buf' = [buf EXCEPT ![Reader] =
                         [buf[Reader] EXCEPT ![pos[a]] = data[pos[a]]]]
        BY <1>8, <3>3 DEF Memcpy
      <4> QED
        BY <2>2, <2>3, <3>1, <3>2, <3>3, <4>1
    <3>4. CASE a[1] # Reader
      <4>1. buf' = buf
            /\ data' = [data EXCEPT ![pos[a]] = buf[a[1]][pos[a]]]
        BY <1>8, <3>4 DEF Memcpy
      <4> QED
        BY <2>2, <2>3, <3>1, <3>2, <4>1
    <3> QED
      BY <3>3, <3>4
  <2>5. want' = want /\ status' = status /\ got' = got
    BY <1>8 DEF Memcpy
  <2>6. /\ \A b \in Actor : b # a => pos'[b] = pos[b] /\ pc'[b] = pc[b]
        /\ \/ pc'[a] = "status" /\ pos' = pos
           \/ /\ pc' = pc
              /\ pos' = [pos EXCEPT ![a] = pos[a] + 1]
              /\ pos[a] # LastWord(a)
    BY <1>0, <1>8 DEF Memcpy, SemType
  <2>7. CASE pc'[a] = "status" /\ pos' = pos
    BY <1>0, <2>1, <2>4, <2>5, <2>6, <2>7 DEF LastWord
  <2>8. CASE pc' = pc /\ pos' = [pos EXCEPT ![a] = pos[a] + 1]
             /\ pos[a] # LastWord(a)
    <3>1. pos[a] + 1 \in Word /\ pos[a] + 1 <= LastWord(a)
      BY <2>2, <2>8, MsgAssumption DEF Word
    <3>2. pos' \in [Actor -> Word] /\ pos'[a] <= LastWord(a)
          /\ \A b \in Actor : b # a => pos'[b] = pos[b]
      BY <2>8, <3>1
    <3> QED
      BY <1>0, <2>1, <2>4, <2>5, <2>8, <3>2 DEF LastWord
  <2> QED
    BY <2>6, <2>7, <2>8
<1>9. ASSUME NEW a \in Actor, SetStatus(a)
      PROVE  TInv'
  <2>1. a[1] \in Process /\ pc[a] = "status" /\ Reader \in Process
    BY <1>9, ActorProcess DEF SetStatus, Process
  <2>2. CellType' /\ want' = want /\ pos' = pos
    BY <1>9, <2>1 DEF SetStatus, argVars, Process
  <2>3. \A b \in Actor :
          pc'[b] = (IF b = a THEN "semaphore_v" ELSE pc[b])
    BY <1>0, <1>9 DEF SetStatus, SemType
  <2> QED
    BY <1>0, <2>1, <2>2, <2>3 DEF LastWord
<1>10. ASSUME NEW a \in Actor, Leave(a)
       PROVE  TInv'
  <2>1. CellType' /\ pos' = pos
    BY <1>10 DEF Leave, cellVars
  <2>2. \A b \in Actor : pc'[b] = (IF b = a THEN "idle" ELSE pc[b])
                         /\ want'[b] = (IF b = a THEN NONE ELSE want[b])
    BY <1>0, <1>10 DEF Leave, SemType
  <2> QED
    BY <1>0, <2>1, <2>2 DEF LastWord
<1>11. ASSUME NEW p \in Process, Exit(p) \/ Crash(p)
       PROVE  TInv'
  <2>1. CellType' /\ pos' = pos
    BY <1>11 DEF Exit, Crash, Ends, cellVars
  <2>2. \A b \in Actor : pc'[b] = (IF b[1] = p THEN "idle" ELSE pc[b])
                         /\ want'[b] = (IF b[1] = p THEN NONE ELSE want[b])
    BY <1>0, <1>11 DEF Exit, Crash, Ends, SemType
  <2> QED
    BY <1>0, <2>1, <2>2 DEF LastWord
<1> QED
  BY <1>1, <1>2, <1>3, <1>4, <1>5, <1>6, <1>7, <1>8, <1>9, <1>10, <1>11
     DEF Next, Call, Step

(***************************************************************************)
(* Every variable keeps its type: no word is copied from or to a place     *)
(* outside of the cell, and the semaphore is never negative.               *)
(***************************************************************************)
THEOREM TypeCorrect ==
  ASSUME ~LateStart
  PROVE  Spec => []TypeOK
<1>1. TInv => TypeOK
  BY DEF TInv, SInv, SemType, CellType, TypeOK, Location
<1> QED
  BY <1>1, TypeInit, TypeStep, PTL DEF Spec

----------------------------------------------------------------------------
(***************************************************************************)
(* The content of the cell, without handlers and kills.                    *)
(***************************************************************************)
\* A cell into which the first k words of message m have been copied.
Copied(m, k) == [w \in Word |-> IF w <= k THEN m ELSE Zero]

\* A writer in a call: its buffer, and what it has written of the cell.
WriterOK == \A a \in Actor : a[1] \in Writer =>
  /\ pc[a] # "idle" => buf[a[1]] = Whole(want[a])
  /\ pc[a] = "memcpy" => data = Copied(want[a], pos[a] - 1)
  /\ pc[a] \in {"status", "semaphore_v"} => data = Whole(want[a])
  /\ pc[a] = "semaphore_v" => status # NONE

\* The reader in a call: there is a message until it resets status.
ReaderOK == \A a \in Actor : a[1] = Reader =>
  /\ pc[a] \in {"semaphore_p", "blocked", "memset", "memcpy", "status"}
       => status # NONE
  /\ pc[a] = "memcpy" => \A w \in Word : w < pos[a] => buf[Reader][w] = data[w]
  /\ pc[a] = "status" => buf[Reader] = data

WriterInside == \E a \in Actor : a[1] \in Writer /\ Inside(a)

\* Between two writes the cell holds a whole message, or its status is 0.
CellWhole == ~ WriterInside /\ status # NONE => \E m \in Msg : data = Whole(m)

RInv == TInv /\ WriterOK /\ ReaderOK /\ CellWhole

\* Nobody fills the first word of an empty cell: messages are told apart.
LEMMA WholeOne ==
  ASSUME NEW m \in Msg
  PROVE  /\ Whole(m)[1] = m /\ Whole(m) # Blank /\ 1 \in Word
         /\ Whole(m) = Copied(m, Size[m]) /\ Blank = Copied(m, 0)
         /\ \A n \in Msg : Whole(m) = Whole(n) => m = n
<1>1. 1 \in Word /\ \A n \in Msg : Size[n] >= 1
  BY MsgAssumption DEF Word
<1>2. Whole(m)[1] = m /\ \A n \in Msg : Whole(n)[1] = n
  BY <1>1 DEF Whole
<1>3. Whole(m) # Blank
  BY <1>1, <1>2, MsgAssumption DEF Blank
<1>4. \A w \in Word : ~ (w <= 0)
  BY MsgAssumption DEF Word
<1>5. Blank = Copied(m, 0)
  BY <1>4 DEF Blank, Copied
<1> QED
  BY <1>1, <1>2, <1>3, <1>5 DEF Whole, Copied

\* The message of the cell is the one it holds.
LEMMA CellMsgIs ==
  ASSUME NEW m \in Msg, data = Whole(m)
  PROVE  CellMsg = IF status # NONE THEN m ELSE NONE
BY WholeOne DEF CellMsg

LEMMA GotMsgIs ==
  ASSUME NEW m \in Msg, got = Whole(m)
  PROVE  GotMsg = m
BY WholeOne DEF GotMsg

LEMMA WritingIs ==
  ASSUME MutualExclusion, NEW a \in Actor, a[1] \in Writer, Inside(a)
  PROVE  Writing = want[a]
<1>1. \A b \in Actor : b[1] \in Writer /\ Inside(b) <=> b = a
  BY DEF MutualExclusion
<1>2. a = CHOOSE b \in Actor : b[1] \in Writer /\ Inside(b)
  BY <1>1
<1> QED
  BY <1>2 DEF Writing

LEMMA WritingNone ==
  ASSUME \A a \in Actor : ~ (a[1] \in Writer /\ Inside(a))
  PROVE  Writing = NONE
BY DEF Writing

\* The same after a step.
LEMMA CellMsgAfter ==
  ASSUME NEW m \in Msg, data' = Whole(m)
  PROVE  CellMsg' = IF status' # NONE THEN m ELSE NONE
BY WholeOne DEF CellMsg

LEMMA WritingAfter ==
  ASSUME MutualExclusion', NEW a \in Actor, a[1] \in Writer, (Inside(a))'
  PROVE  Writing' = want'[a]
<1>1. \A b \in Actor : b[1] \in Writer /\ (Inside(b))' <=> b = a
  BY DEF MutualExclusion
<1>2. a = CHOOSE b \in Actor : b[1] \in Writer /\ (Inside(b))'
  BY <1>1
<1> QED
  BY <1>2 DEF Writing

LEMMA WritingNoneAfter ==
  ASSUME \A a \in Actor : ~ (a[1] \in Writer /\ (Inside(a))')
  PROVE  Writing' = NONE
BY DEF Writing

\* Who writes what stays the same.
LEMMA WritingFrame ==
  ASSUME MutualExclusion, MutualExclusion',
         \A a \in Actor : a[1] \in Writer => ((Inside(a))' <=> Inside(a)),
         \A a \in Actor : a[1] \in Writer /\ Inside(a) => want'[a] = want[a]
  PROVE  Writing' = Writing
<1>1. CASE WriterInside
  <2>1. PICK a \in Actor : a[1] \in Writer /\ Inside(a)
    BY <1>1 DEF WriterInside
  <2> QED
    BY <2>1, WritingIs, WritingAfter
<1>2. CASE ~ WriterInside
  BY <1>2, WritingNone, WritingNoneAfter DEF WriterInside
<1> QED
  BY <1>1, <1>2

\* Without handlers an actor is the main program of its process.
LEMMA OneActor ==
  ASSUME HandlerWriter = {}
  PROVE  \A a, b \in Actor : a[1] = b[1] => a = b
BY DEF Actor, Main, Handler

\* An actor outside of the protected part that stays outside.
LEMMA OutsideStep ==
  ASSUME RInv, TInv', HandlerWriter = {},
         NEW a \in Actor, ~ Inside(a), ~ (Inside(a))',
         UNCHANGED <<status, data, got, pos>>,
         \A b \in Actor : b # a => /\ pc'[b] = pc[b] /\ want'[b] = want[b]
                                   /\ buf'[b[1]] = buf[b[1]],
         a[1] \in Writer /\ pc'[a] # "idle" => buf'[a[1]] = Whole(want'[a]),
         a[1] = Reader /\ pc'[a] \in {"semaphore_p", "blocked"}
           => status # NONE
  PROVE  RInv' /\ UNCHANGED Register!vars
<1>1. \A b \in Actor : (Inside(b))' <=> Inside(b)
  BY DEF Inside
<1>2. Writing' = Writing
  BY <1>1, WritingFrame DEF RInv, TInv, SInv
<1>3. CellMsg' = CellMsg /\ GotMsg' = GotMsg
  BY DEF CellMsg, GotMsg
<1>4. CellWhole'
  BY <1>1 DEF RInv, CellWhole, WriterInside
<1>5. WriterOK'
  <2> SUFFICES ASSUME NEW b \in Actor, b[1] \in Writer
               PROVE  /\ pc'[b] # "idle" => buf'[b[1]] = Whole(want'[b])
                      /\ pc'[b] = "memcpy" =>
                           data' = Copied(want'[b], pos'[b] - 1)
                      /\ pc'[b] \in {"status", "semaphore_v"} =>
                           data' = Whole(want'[b])
                      /\ pc'[b] = "semaphore_v" => status' # NONE
    BY DEF WriterOK, Copied, Whole
  <2>1. CASE b = a
    BY <2>1 DEF Inside
  <2>2. CASE b # a
    BY <2>2 DEF RInv, WriterOK
  <2> QED
    BY <2>1, <2>2
<1>6. ReaderOK'
  <2> SUFFICES ASSUME NEW b \in Actor, b[1] = Reader
               PROVE  /\ pc'[b] \in {"semaphore_p", "blocked", "memset",
                                     "memcpy", "status"} => status' # NONE
                      /\ pc'[b] = "memcpy" => \A w \in Word :
                           w < pos'[b] => buf'[Reader][w] = data'[w]
                      /\ pc'[b] = "status" => buf'[Reader] = data'
    BY DEF ReaderOK
  <2>1. CASE b = a
    BY <2>1 DEF Inside
  <2>2. CASE b # a
    BY <2>2 DEF RInv, ReaderOK
  <2> QED
    BY <2>1, <2>2
<1> QED
  BY <1>2, <1>3, <1>4, <1>5, <1>6 DEF RInv, Register!vars

LEMMA StartCell ==
  ASSUME RInv, TInv', ~LateStart, NEW p \in Process, Start(p)
  PROVE  RInv' /\ (Register!Clear \/ UNCHANGED Register!vars)
<1>1. pc' = pc /\ \A a \in Actor : pc[a] = "idle"
  BY DEF Start
<1>2. Writing = NONE /\ Writing' = NONE
  BY <1>1, WritingNone, WritingNoneAfter DEF Inside
<1>3. got' = got /\ GotMsg' = GotMsg
  BY DEF Start, GotMsg
<1>4. WriterOK' /\ ReaderOK'
  BY <1>1 DEF WriterOK, ReaderOK
<1>5. CASE status' = NONE /\ data' = Blank
  BY <1>2, <1>3, <1>4, <1>5 DEF RInv, CellWhole, Register!Clear, CellMsg
<1>6. CASE UNCHANGED cellVars
  <2>1. CellMsg' = CellMsg
    BY <1>6 DEF CellMsg, cellVars
  <2>2. CellWhole'
    BY <1>1, <1>6 DEF RInv, CellWhole, WriterInside, Inside, cellVars
  <2> QED
    BY <1>2, <1>3, <1>4, <2>1, <2>2 DEF RInv, Register!vars
<1> QED
  BY <1>5, <1>6 DEF Start

LEMMA EnterCell ==
  ASSUME RInv, TInv', HandlerWriter = {}, NEW a \in Actor, Enter(a)
  PROVE  RInv' /\ ((\E m \in Msg : Register!Begin(m))
                   \/ UNCHANGED Register!vars)
<1>0. TInv /\ SInv /\ SemType /\ SemExact /\ MutualExclusion
      /\ MutualExclusion' /\ a[1] \in Process
  BY ActorProcess DEF RInv, TInv, SInv
<1>1. pc' = [pc EXCEPT ![a] = "memset"] /\ pc[a] \in {"semaphore_p", "blocked"}
      /\ UNCHANGED <<status, data, pos, want, buf, got>> /\ a[1] \in up
      /\ sem > 0
  BY DEF Enter, cellVars, argVars, Runs
<1>2. \A b \in Actor : ~ Inside(b)
  BY <1>0, <1>1 DEF SemExact
<1>3. \A b \in Actor : (Inside(b))' <=> b = a
  BY <1>0, <1>1, <1>2 DEF Inside, SemType
<1>4. CellMsg' = CellMsg /\ GotMsg' = GotMsg /\ Writing = NONE
  BY <1>1, <1>2, WritingNone DEF CellMsg, GotMsg
<1>5. \A b \in Actor : b # a => pc'[b] = pc[b]
  BY <1>0, <1>1 DEF SemType
<1>6. pc'[a] = "memset"
  BY <1>0, <1>1 DEF SemType
<1>7. WriterOK'
  BY <1>1, <1>5, <1>6 DEF RInv, WriterOK, Copied, Whole
<1>8. ReaderOK'
  BY <1>1, <1>5, <1>6 DEF RInv, ReaderOK
<1>9. CASE a[1] \in Writer
  <2>1. want[a] \in Msg
    BY <1>0, <1>1, <1>9 DEF TInv, CallOK
  <2>2. Writing' = want[a]
    BY <1>0, <1>1, <1>3, <1>9, WritingAfter
  <2>3. CellWhole'
    BY <1>3, <1>9 DEF CellWhole, WriterInside
  <2> QED
    BY <1>4, <1>7, <1>8, <2>1, <2>2, <2>3 DEF RInv, Register!Begin
<1>10. CASE a[1] \notin Writer
  <2>1. Writing' = NONE
    BY <1>3, <1>10, WritingNoneAfter
  <2>2. CellWhole'
    BY <1>1, <1>2, <1>3, <1>10 DEF RInv, CellWhole, WriterInside
  <2> QED
    BY <1>4, <1>7, <1>8, <2>1, <2>2 DEF RInv, Register!vars
<1> QED
  BY <1>9, <1>10

\* What is common to the steps of a writer in the protected part.
LEMMA WriterStep ==
  ASSUME RInv, TInv', HandlerWriter = {},
         NEW a \in Actor, a[1] \in Writer, Inside(a), (Inside(a))',
         \A b \in Actor : b # a => pc'[b] = pc[b],
         UNCHANGED <<want, buf, got>>,
         pc'[a] = "memcpy" => data' = Copied(want[a], pos'[a] - 1),
         pc'[a] \in {"status", "semaphore_v"} => data' = Whole(want[a]),
         pc'[a] = "semaphore_v" => status' # NONE,
         status' = status \/ status' # NONE,
         CellMsg' \in {NONE, want[a]}
  PROVE  RInv' /\ Register!Change
<1>0. TInv /\ MutualExclusion /\ MutualExclusion' /\ want[a] \in Msg
      /\ NONE \notin Msg
  BY MsgAssumption DEF RInv, TInv, SInv, CallOK, Inside
<1>1. \A b \in Actor : b # a => ~ Inside(b) /\ ~ (Inside(b))'
  BY <1>0 DEF MutualExclusion, Inside
<1>2. Writing = want[a] /\ Writing' = want[a]
  BY <1>0, WritingIs, WritingAfter
<1>3. WriterOK'
  <2> SUFFICES ASSUME NEW b \in Actor, b[1] \in Writer
               PROVE  /\ pc'[b] # "idle" => buf'[b[1]] = Whole(want'[b])
                      /\ pc'[b] = "memcpy" =>
                           data' = Copied(want'[b], pos'[b] - 1)
                      /\ pc'[b] \in {"status", "semaphore_v"} =>
                           data' = Whole(want'[b])
                      /\ pc'[b] = "semaphore_v" => status' # NONE
    BY DEF WriterOK, Copied, Whole
  <2>1. CASE b = a
    BY <2>1 DEF RInv, WriterOK, Inside
  <2>2. CASE b # a
    BY <1>1, <2>2 DEF RInv, WriterOK, Inside
  <2> QED
    BY <2>1, <2>2
<1>4. ReaderOK'
  <2> SUFFICES ASSUME NEW b \in Actor, b[1] = Reader
               PROVE  /\ pc'[b] \in {"semaphore_p", "blocked", "memset",
                                     "memcpy", "status"} => status' # NONE
                      /\ pc'[b] = "memcpy" => \A w \in Word :
                           w < pos'[b] => buf'[Reader][w] = data'[w]
                      /\ pc'[b] = "status" => buf'[Reader] = data'
    BY DEF ReaderOK
  <2>1. b # a
    BY ProcessAssumption
  <2> QED
    BY <1>1, <2>1 DEF RInv, ReaderOK, Inside
<1>5. CellWhole'
  BY DEF CellWhole, WriterInside
<1>6. GotMsg' = GotMsg
  BY DEF GotMsg
<1> QED
  BY <1>0, <1>2, <1>3, <1>4, <1>5, <1>6 DEF RInv, Register!Change

LEMMA WriterMemset ==
  ASSUME RInv, TInv', HandlerWriter = {},
         NEW a \in Actor, a[1] \in Writer, Memset(a)
  PROVE  RInv' /\ Register!Change
<1>0. TInv /\ SemType /\ want[a] \in Msg /\ a[1] # Reader
  BY ProcessAssumption DEF RInv, TInv, SInv, CallOK, Memset
<1>1. /\ data' = Blank /\ pc[a] = "memset" /\ pc'[a] = "memcpy"
      /\ pos'[a] = 1 /\ UNCHANGED <<want, buf, got, status>>
      /\ \A b \in Actor : b # a => pc'[b] = pc[b]
  BY <1>0 DEF Memset, SemType, TInv, CellType
<1>2. data' = Copied(want[a], pos'[a] - 1)
  BY <1>0, <1>1, WholeOne
<1>3. CellMsg' = NONE
  BY <1>1, WholeOne DEF CellMsg
<1> QED
  BY <1>1, <1>2, <1>3, WriterStep DEF Inside

LEMMA WriterMemcpy ==
  ASSUME RInv, TInv', HandlerWriter = {},
         NEW a \in Actor, a[1] \in Writer, Memcpy(a)
  PROVE  RInv' /\ Register!Change
<1> DEFINE m == want[a]
           k == pos[a]
<1>0. /\ TInv /\ SemType /\ m \in Msg /\ a[1] # Reader /\ pc[a] = "memcpy"
      /\ k \in Word /\ k <= Size[m] /\ Size[m] \in Word /\ a[1] \in Process
  BY ProcessAssumption, MsgAssumption, ActorProcess
     DEF RInv, TInv, SInv, CallOK, Memcpy, CellType, LastWord, Word
<1>1. /\ data = Copied(m, k - 1) /\ buf[a[1]] = Whole(m)
  BY <1>0 DEF RInv, WriterOK
<1>2. buf[a[1]][k] = m
  BY <1>0, <1>1 DEF Whole
<1>3. data' = [data EXCEPT ![k] = m] /\ UNCHANGED <<want, buf, got, status>>
  BY <1>0, <1>2 DEF Memcpy
<1>4. data' = Copied(m, k)
  <2>1. \A w \in Word : (w <= k) <=> (w <= k - 1 \/ w = k)
    BY <1>0 DEF Word
  <2> QED
    BY <1>0, <1>1, <1>3, <2>1 DEF Copied
<1>5. /\ \A b \in Actor : b # a => pc'[b] = pc[b]
      /\ \/ k = Size[m] /\ pc'[a] = "status"
         \/ k # Size[m] /\ pc'[a] = "memcpy" /\ pos'[a] = k + 1
  BY <1>0 DEF Memcpy, LastWord, SemType, TInv, CellType
<1>6. /\ pc'[a] = "memcpy" => data' = Copied(want[a], pos'[a] - 1)
      /\ pc'[a] = "status" => data' = Whole(want[a])
  <2>1. CASE k = Size[m] /\ pc'[a] = "status"
    BY <1>0, <1>4, <2>1, WholeOne
  <2>2. CASE pc'[a] = "memcpy" /\ pos'[a] = k + 1
    <3>1. pos'[a] - 1 = k
      BY <1>0, <2>2 DEF Word
    <3> QED
      BY <1>4, <2>2, <3>1
  <2> QED
    BY <1>5, <2>1, <2>2
<1>7. data'[1] = m
  BY <1>0, <1>4, WholeOne DEF Copied, Word
<1>8. CellMsg' \in {NONE, m}
  <2>1. \A n \in Msg : data' = Whole(n) => n = m
    BY <1>7, WholeOne
  <2> QED
    BY <2>1 DEF CellMsg
<1> QED
  BY <1>0, <1>3, <1>5, <1>6, <1>8, WriterStep DEF Inside

LEMMA WriterStatus ==
  ASSUME RInv, TInv', HandlerWriter = {},
         NEW a \in Actor, a[1] \in Writer, SetStatus(a)
  PROVE  RInv' /\ Register!Change
<1>0. TInv /\ SemType /\ want[a] \in Msg /\ a[1] # Reader /\ pc[a] = "status"
  BY ProcessAssumption DEF RInv, TInv, SInv, CallOK, SetStatus
<1>1. data = Whole(want[a])
  BY <1>0 DEF RInv, WriterOK
<1>2. /\ status' = a[1] /\ status' # NONE /\ pc'[a] = "semaphore_v"
      /\ UNCHANGED <<want, buf, got, data>>
      /\ \A b \in Actor : b # a => pc'[b] = pc[b]
  BY <1>0, ProcessAssumption DEF SetStatus, SemType, argVars
<1>3. CellMsg' = want[a]
  BY <1>0, <1>1, <1>2, CellMsgAfter
<1> QED
  BY <1>0, <1>1, <1>2, <1>3, WriterStep DEF Inside

LEMMA WriterLeave ==
  ASSUME RInv, TInv', HandlerWriter = {},
         NEW a \in Actor, a[1] \in Writer, Leave(a)
  PROVE  RInv' /\ Register!End
<1>0. /\ TInv /\ SemType /\ want[a] \in Msg /\ a[1] # Reader
      /\ pc[a] = "semaphore_v" /\ MutualExclusion /\ NONE \notin Msg
  BY ProcessAssumption, MsgAssumption DEF RInv, TInv, SInv, CallOK, Leave
<1>1. data = Whole(want[a]) /\ status # NONE
  BY <1>0 DEF RInv, WriterOK
<1>2. CellMsg = want[a] /\ Writing = want[a]
  BY <1>0, <1>1, CellMsgIs, WritingIs DEF Inside
<1>3. /\ UNCHANGED <<status, data, pos, buf, got>> /\ pc'[a] = "idle"
      /\ \A b \in Actor : b # a => pc'[b] = pc[b] /\ want'[b] = want[b]
  BY <1>0 DEF Leave, SemType, TInv, CellType, cellVars
<1>4. \A b \in Actor : ~ (Inside(b))'
  BY <1>0, <1>3 DEF Inside, MutualExclusion
<1>5. Writing' = NONE /\ CellMsg' = CellMsg /\ GotMsg' = GotMsg
  BY <1>3, <1>4, WritingNoneAfter DEF CellMsg, GotMsg
<1>6. WriterOK'
  BY <1>3 DEF RInv, WriterOK, Copied, Whole
<1>7. ReaderOK'
  BY <1>0, <1>3 DEF RInv, ReaderOK
<1>8. CellWhole'
  BY <1>0, <1>1, <1>3 DEF CellWhole, Whole
<1> QED
  BY <1>0, <1>2, <1>5, <1>6, <1>7, <1>8 DEF RInv, Register!End

\* The steps of the reader up to the reset of status leave the cell alone.
LEMMA ReaderStep ==
  ASSUME RInv, TInv', HandlerWriter = {},
         NEW a \in Actor, a[1] = Reader, Memset(a) \/ Memcpy(a) \/ Leave(a)
  PROVE  RInv' /\ UNCHANGED Register!vars
<1>0. /\ TInv /\ SemType /\ MutualExclusion /\ MutualExclusion'
      /\ Reader \notin Writer /\ Reader \in Process
  BY ProcessAssumption DEF RInv, TInv, SInv, Process
<1>1. /\ UNCHANGED <<status, data, got>> /\ Inside(a)
      /\ \A b \in Actor : b # a => pc'[b] = pc[b] /\ want'[b] = want[b]
      /\ \A b \in Actor : b # a => pos'[b] = pos[b]
      /\ \A p \in Process : p # Reader => buf'[p] = buf[p]
  BY <1>0 DEF Memset, Memcpy, Leave, SemType, TInv, CellType, Inside, cellVars
<1>2. \A b \in Actor : b[1] \in Writer => b # a /\ b[1] # Reader
                                          /\ b[1] \in Process
  BY <1>0, ActorProcess
<1>3. Writing' = Writing
  BY <1>0, <1>1, <1>2, WritingFrame DEF Inside
<1>4. CellMsg' = CellMsg /\ GotMsg' = GotMsg
  BY <1>1 DEF CellMsg, GotMsg
<1>5. WriterOK'
  BY <1>1, <1>2 DEF RInv, WriterOK, Copied, Whole
<1>6. CellWhole'
  <2>1. WriterInside' <=> WriterInside
    BY <1>1, <1>2 DEF WriterInside, Inside
  <2> QED
    BY <1>1, <2>1 DEF RInv, CellWhole, Whole
<1>7. ReaderOK'
  <2> SUFFICES ASSUME NEW b \in Actor, b[1] = Reader
               PROVE  /\ pc'[b] \in {"semaphore_p", "blocked", "memset",
                                     "memcpy", "status"} => status' # NONE
                      /\ pc'[b] = "memcpy" => \A w \in Word :
                           w < pos'[b] => buf'[Reader][w] = data'[w]
                      /\ pc'[b] = "status" => buf'[Reader] = data'
    BY DEF ReaderOK
  <2>0. b = a
    BY OneActor
  <2>1. CASE Memset(a)
    <3>1. pos'[a] = 1 /\ pc'[a] = "memcpy" /\ pc[a] = "memset"
      BY <1>0, <2>1 DEF Memset, SemType, TInv, CellType
    <3>2. \A w \in Word : ~ (w < 1)
      BY MsgAssumption DEF Word
    <3> QED
      BY <1>1, <2>0, <3>1, <3>2 DEF RInv, ReaderOK
  <2>2. CASE Leave(a)
    <3>1. pc'[a] = "idle"
      BY <1>0, <2>2 DEF Leave, SemType
    <3> QED
      BY <2>0, <3>1
  <2>3. CASE Memcpy(a)
    <3> DEFINE k == pos[a]
    <3>1. /\ pc[a] = "memcpy" /\ k \in Word /\ buf[Reader] \in Data
          /\ data \in Data /\ status # NONE
          /\ \A w \in Word : w < k => buf[Reader][w] = data[w]
      BY <1>0, <2>3 DEF Memcpy, TInv, CellType, RInv, ReaderOK
    <3>2. buf'[Reader] = [buf[Reader] EXCEPT ![k] = data[k]]
      BY <1>0, <2>3 DEF Memcpy, TInv, CellType
    <3>3. \A w \in Word : w < k + 1 <=> (w < k \/ w = k)
      BY <3>1, MsgAssumption DEF Word
    <3>4. \A w \in Word : w < k + 1 => buf'[Reader][w] = data[w]
      BY <3>1, <3>2, <3>3 DEF Data
    <3>5. \/ k = Words /\ pc'[a] = "status"
          \/ k # Words /\ pc'[a] = "memcpy" /\ pos'[a] = k + 1
      BY <1>0, <2>3 DEF Memcpy, LastWord, SemType, TInv, CellType
    <3>6. k = Words => buf'[Reader] = data
      <4>1. k = Words => \A w \in Word : w < k + 1
        BY <3>1, MsgAssumption DEF Word
      <4>2. buf'[Reader] \in Data
        BY <1>0 DEF TInv, CellType
      <4> QED
        BY <3>1, <3>4, <4>1, <4>2 DEF Data
    <3> QED
      BY <1>1, <2>0, <3>1, <3>4, <3>5, <3>6
  <2> QED
    BY <2>1, <2>2, <2>3
<1> QED
  BY <1>3, <1>4, <1>5, <1>6, <1>7 DEF RInv, Register!vars

LEMMA ReaderStatus ==
  ASSUME RInv, TInv', HandlerWriter = {},
         NEW a \in Actor, a[1] = Reader, SetStatus(a)
  PROVE  RInv' /\ Register!Read
<1>0. /\ TInv /\ SemType /\ MutualExclusion /\ MutualExclusion'
      /\ Reader \notin Writer /\ pc[a] = "status" /\ NONE \notin Msg
  BY ProcessAssumption, MsgAssumption DEF RInv, TInv, SInv, SetStatus
<1>1. status # NONE /\ buf[Reader] = data
  BY <1>0 DEF RInv, ReaderOK
<1>2. /\ status' = NONE /\ got' = data
      /\ UNCHANGED <<data, pos, want, buf>> /\ pc'[a] = "semaphore_v"
      /\ \A b \in Actor : b # a => pc'[b] = pc[b]
  BY <1>0, <1>1 DEF SetStatus, SemType, argVars
<1>3. \A b \in Actor : b[1] \in Writer => ~ Inside(b) /\ ~ (Inside(b))'
  BY <1>0, <1>2 DEF MutualExclusion, Inside
<1>4. Writing = NONE /\ Writing' = NONE
  BY <1>3, WritingNone, WritingNoneAfter
<1>5. PICK m \in Msg : data = Whole(m)
  BY <1>1, <1>3 DEF RInv, CellWhole, WriterInside
<1>6. CellMsg = m /\ CellMsg' = NONE
  BY <1>1, <1>2, <1>5, CellMsgIs DEF CellMsg
<1>7. GotMsg' = m
  BY <1>2, <1>5, WholeOne DEF GotMsg
<1>8. \A b \in Actor : b[1] = Reader => b = a
  BY OneActor
<1>9. ReaderOK'
  BY <1>2, <1>8 DEF ReaderOK
<1>10. WriterOK'
  BY <1>0, <1>2, <1>3 DEF RInv, WriterOK, Copied, Whole, Inside
<1>11. CellWhole'
  BY <1>2 DEF CellWhole
<1> QED
  BY <1>0, <1>4, <1>6, <1>7, <1>9, <1>10, <1>11 DEF RInv, Register!Read

\* A call, a wait and the end of a process.
LEMMA OutsideSteps ==
  ASSUME RInv, TInv', HandlerWriter = {}, NEW a \in Actor,
         \/ Call(a) \/ Block(a)
         \/ a[2] = "main" /\ (Interrupted(a[1]) \/ Exit(a[1]))
  PROVE  RInv' /\ UNCHANGED Register!vars
<1>0. /\ TInv /\ SemType /\ CellType /\ a[1] \in Process
      /\ Reader \notin Writer /\ NONE \notin Msg
      /\ \A b \in Actor : b # a => b[1] # a[1] /\ b[1] \in Process
  BY ProcessAssumption, MsgAssumption, ActorProcess, OneActor
     DEF RInv, TInv, SInv
<1>1. ASSUME NEW m \in Msg, CallWrite(a, m)
      PROVE  RInv' /\ UNCHANGED Register!vars
  <2>1. /\ a[1] \in Writer /\ pc[a] = "idle" /\ pc'[a] = "semaphore_p"
        /\ UNCHANGED <<status, data, got, pos>>
        /\ buf'[a[1]] = Whole(m) /\ want'[a] = m
        /\ \A b \in Actor : b # a => /\ pc'[b] = pc[b] /\ want'[b] = want[b]
                                     /\ buf'[b[1]] = buf[b[1]]
    BY <1>0, <1>1 DEF CallWrite, SemType, CellType, cellVars
  <2> QED
    BY <1>0, <2>1, OutsideStep DEF Inside
<1>2. CASE CallRead(a)
  <2>1. /\ a[1] = Reader /\ pc[a] = "idle" /\ pc'[a] = "semaphore_p"
        /\ UNCHANGED <<status, data, got, pos, want, buf>> /\ status # NONE
        /\ \A b \in Actor : b # a => pc'[b] = pc[b]
    BY <1>0, <1>2 DEF CallRead, SemType, cellVars, argVars
  <2> QED
    BY <1>0, <2>1, OutsideStep DEF Inside
<1>3. CASE Block(a)
  <2>1. /\ pc[a] = "semaphore_p" /\ pc'[a] = "blocked"
        /\ UNCHANGED <<status, data, got, pos, want, buf>>
        /\ \A b \in Actor : b # a => pc'[b] = pc[b]
    BY <1>0, <1>3 DEF Block, SemType, cellVars, argVars
  <2> QED
    BY <2>1, OutsideStep DEF Inside, RInv, WriterOK, ReaderOK
<1>4. CASE a[2] = "main" /\ (Interrupted(a[1]) \/ Exit(a[1]))
  <2>1. a = <<a[1], "main">>
    BY <1>4 DEF Actor, Main, Handler
  <2>2. CASE Interrupted(a[1])
    <3>1. /\ pc[a] = "blocked" /\ pc'[a] = "failed"
          /\ UNCHANGED <<status, data, got, pos, want, buf>>
          /\ \A b \in Actor : b # a => pc'[b] = pc[b]
      BY <1>0, <2>1, <2>2 DEF Interrupted, SemType, cellVars, argVars
    <3> QED
      BY <3>1, OutsideStep DEF Inside, RInv, WriterOK
  <2>3. CASE Exit(a[1])
    <3>1. /\ pc[a] = "failed" /\ pc'[a] = "idle"
          /\ UNCHANGED <<status, data, got, pos, buf>>
          /\ \A b \in Actor : b # a => pc'[b] = pc[b] /\ want'[b] = want[b]
      BY <1>0, <2>1, <2>3 DEF Exit, Ends, SemType, CellType, cellVars
    <3> QED
      BY <3>1, OutsideStep DEF Inside
  <2> QED
    BY <1>4, <2>2, <2>3
<1> QED
  BY <1>1, <1>2, <1>3, <1>4 DEF Call

LEMMA CellInit == Init => RInv /\ Register!Init
<1> SUFFICES ASSUME Init PROVE RInv /\ Register!Init
  OBVIOUS
<1>1. \A a \in Actor : pc[a] = "idle" /\ ~ Inside(a)
  BY DEF Init, Inside
<1>2. CellMsg = NONE /\ Writing = NONE
  BY <1>1 DEF Init, CellMsg, Writing
<1>3. GotMsg = NONE
  BY WholeOne DEF Init, GotMsg
<1>4. WriterOK /\ ReaderOK /\ CellWhole
  BY <1>1 DEF Init, WriterOK, ReaderOK, CellWhole
<1> QED
  BY <1>2, <1>3, <1>4, TypeInit DEF RInv, Register!Init

LEMMA CellStep ==
  ASSUME ~LateStart, ~Crashes, HandlerWriter = {}, RInv, [Next]_vars
  PROVE  RInv' /\ [Register!Next]_(Register!vars)
<1>0. TInv'
  BY TypeStep DEF RInv
<1>1. CASE UNCHANGED vars
  <2>1. RInv'
    BY <1>0, <1>1 DEF vars, semVars, cellVars, argVars, RInv, WriterOK,
       ReaderOK, CellWhole, WriterInside, Inside, Whole, Copied
  <2>2. UNCHANGED Register!vars
    BY <1>1 DEF vars, semVars, cellVars, argVars, Register!vars, CellMsg,
       GotMsg, Writing, Inside
  <2> QED
    BY <2>1, <2>2
<1>2. ASSUME NEW a \in Actor, Call(a) \/ Block(a)
      PROVE  RInv' /\ UNCHANGED Register!vars
  BY <1>0, <1>2, OutsideSteps
<1>3. ASSUME NEW a \in Actor, Enter(a)
      PROVE  RInv' /\ [Register!Next]_(Register!vars)
  BY <1>0, <1>3, EnterCell DEF Register!Next
<1>4. ASSUME NEW a \in Actor, Step(a)
      PROVE  RInv' /\ [Register!Next]_(Register!vars)
  <2>1. a[1] \in Writer \/ a[1] = Reader
    BY ActorProcess DEF Process
  <2>2. CASE a[1] \in Writer
    BY <1>0, <1>4, <2>2, WriterMemset, WriterMemcpy, WriterStatus, WriterLeave
       DEF Step, Register!Next
  <2>3. CASE a[1] = Reader
    BY <1>0, <1>4, <2>3, ReaderStep, ReaderStatus DEF Step, Register!Next
  <2> QED
    BY <2>1, <2>2, <2>3
<1>5. ASSUME NEW p \in Process, Start(p)
      PROVE  RInv' /\ [Register!Next]_(Register!vars)
  BY <1>0, <1>5, StartCell DEF Register!Next
<1>6. ASSUME NEW p \in Process, Interrupted(p) \/ Exit(p)
      PROVE  RInv' /\ UNCHANGED Register!vars
  <2> DEFINE a == <<p, "main">>
  <2>1. a \in Actor /\ a[1] = p /\ a[2] = "main"
    BY MainActor
  <2> HIDE DEF a
  <2> QED
    BY <1>0, <1>6, <2>1, OutsideSteps
<1>7. ASSUME NEW p \in Process, Crash(p)
      PROVE  FALSE
  BY <1>7 DEF Crash
<1> QED
  BY <1>1, <1>2, <1>3, <1>4, <1>5, <1>6, <1>7 DEF Next

(***************************************************************************)
(* A cell that is used by main programs only, none of which is killed,     *)
(* implements ShmRegister, whatever the order of their calls and of the    *)
(* steps in them: a message is read whole and once, or overwritten whole.  *)
(***************************************************************************)
THEOREM ImplementsCell ==
  ASSUME ~LateStart, ~Crashes, HandlerWriter = {}
  PROVE  Spec => RegisterSpec
<1>1. Init => RInv /\ Register!Init
  BY CellInit
<1>2. RInv /\ [Next]_vars => RInv' /\ [Register!Next]_(Register!vars)
  BY CellStep
<1>3. [Register!Next]_(Register!vars)
        => [\/ Register!Next
            \/ Replaced \/ Torn
            \/ up' # up /\ Register!Abort]_<<CellMsg, Writing, GotMsg>>
  BY DEF Register!vars
<1> QED
  BY <1>1, <1>2, <1>3, PTL DEF Spec, RegisterSpec
=============================================================================

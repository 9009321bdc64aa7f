----------------------------- MODULE ShmChannel -----------------------------
(***************************************************************************)
(* One cell of shared memory and its semaphore (shm_man.c, the same in     *)
(* both processes), as the cells between the layers and the cell that      *)
(* stands for the acoustic channel use it: processes that write it, one    *)
(* that polls status and reads it.  shm_operation is modelled step by      *)
(* step, with the words of a message copied one at a time.                 *)
(*                                                                         *)
(* SIGALRM may run a handler that writes the cell on top of the main       *)
(* program of its process (HandlerWriter); both fill the same buffer.      *)
(* Every process has the alarm, so a semop that sleeps is interrupted and  *)
(* fails, which ends the process.  A process may also be killed at any     *)
(* point (Crashes); the kernel then undoes its operations on the           *)
(* semaphore, as SEM_UNDO asks.                                            *)
(*                                                                         *)
(* A definition named Op_Suffix is operator Op with a plausible bug; the   *)
(* properties are tried against it.                                        *)
(***************************************************************************)
EXTENDS Integers

CONSTANTS
  Writer,         \* processes that write the cell
  Reader,         \* the process that reads it
  HandlerWriter,  \* writers whose signal handler writes it too
  Msg, Words,     \* messages; the words of shm->data
  Size,           \* [Msg -> 1..Words] data_size of a message
  Zero, NONE,
  Crashes,        \* processes may be killed
  LateStart       \* a process may start while another one is in shm_operation

ASSUME ProcessAssumption == /\ Reader \notin Writer
                            /\ HandlerWriter \subseteq Writer
                            /\ NONE \notin Writer
ASSUME MsgAssumption == /\ Words \in Nat \ {0}
                        /\ Size \in [Msg -> 1..Words]
                        /\ Zero \notin Msg /\ NONE \notin Msg
ASSUME FaultAssumption == Crashes \in BOOLEAN /\ LateStart \in BOOLEAN

Process == Writer \cup {Reader}
Main    == Process \X {"main"}
Handler == HandlerWriter \X {"handler"}
Actor   == Main \cup Handler
Word    == 1..Words
Data    == [Word -> Msg \cup {Zero}]

Blank    == [w \in Word |-> Zero]
Whole(m) == [w \in Word |-> IF w <= Size[m] THEN m ELSE Zero]

VARIABLES
  sem,      \* value of the semaphore
  undo,     \* [Process -> Int] what the kernel adds to it when a process ends
  status,   \* shm->status: the process that wrote the message, NONE for 0
  data,     \* shm->data
  up,       \* the processes that run
  pc, pos,  \* where an actor is in shm_operation, the next word it copies
  want,     \* the message an actor writes
  buf,      \* [Process -> Data] the buffer a process passes to shm_operation
  got       \* the content of the buffer after the last read

semVars  == <<sem, undo>>
cellVars == <<status, data>>
argVars  == <<want, buf>>
vars     == <<semVars, cellVars, up, pc, pos, argVars, got>>

Init == /\ sem = 0 /\ undo = [p \in Process |-> 0]
        /\ status = NONE /\ data = Blank
        /\ up = {}
        /\ pc = [a \in Actor |-> "idle"] /\ pos = [a \in Actor |-> 1]
        /\ want = [a \in Actor |-> NONE]
        /\ buf = [p \in Process |-> Blank]
        /\ got = Blank

\* Between semaphore_p and semaphore_v.
Inside(a) == pc[a] \in {"memset", "memcpy", "status", "semaphore_v"}

\* An actor makes a step only while its process runs, and main only while
\* the handler of its process does not.
Runs(a) == /\ a[1] \in up
           /\ a[2] = "main" /\ a[1] \in HandlerWriter
                => pc[<<a[1], "handler">>] = "idle"

----------------------------------------------------------------------------
(***************************************************************************)
(* initialize_shm and initialize_sem: the semaphore is set to 1 whoever    *)
(* uses it, and the kernel forgets what it would have undone.  Some        *)
(* processes also clear the cell, without the semaphore.                   *)
(***************************************************************************)
Start(p) ==
  /\ p \notin up
  /\ LateStart \/ \A a \in Actor : pc[a] = "idle"
  /\ up' = up \cup {p}
  /\ sem' = 1 /\ undo' = [q \in Process |-> 0]
  /\ \/ status' = NONE /\ data' = Blank
     \/ UNCHANGED cellVars
  /\ UNCHANGED <<pc, pos, argVars, got>>

\* A caller fills its buffer with a message and calls shm_operation.
CallWrite(a, m) ==
  /\ a[1] \in Writer /\ Runs(a) /\ pc[a] = "idle"
  /\ a[2] = "handler" => pc[<<a[1], "main">>] # "blocked"
  /\ buf' = [buf EXCEPT ![a[1]] = Whole(m)]
  /\ want' = [want EXCEPT ![a] = m]
  /\ pc' = [pc EXCEPT ![a] = "semaphore_p"]
  /\ UNCHANGED <<semVars, cellVars, up, pos, got>>

\* The reader polls status before it calls shm_operation.
CallRead(a) ==
  /\ a[1] = Reader /\ Runs(a) /\ pc[a] = "idle"
  /\ status # NONE
  /\ pc' = [pc EXCEPT ![a] = "semaphore_p"]
  /\ UNCHANGED <<semVars, cellVars, up, pos, argVars, got>>

Enter_NoWait(a) ==
  /\ pc[a] \in {"semaphore_p", "blocked"} /\ Runs(a)
  /\ sem' = sem - 1 /\ undo' = [undo EXCEPT ![a[1]] = @ + 1]
  /\ pc' = [pc EXCEPT ![a] = "memset"]
  /\ UNCHANGED <<cellVars, up, pos, argVars, got>>

Enter_NoUndo(a) ==
  /\ pc[a] \in {"semaphore_p", "blocked"} /\ Runs(a) /\ sem > 0
  /\ sem' = sem - 1
  /\ pc' = [pc EXCEPT ![a] = "memset"]
  /\ UNCHANGED <<undo, cellVars, up, pos, argVars, got>>

Enter(a) ==
  /\ pc[a] \in {"semaphore_p", "blocked"} /\ Runs(a) /\ sem > 0
  /\ sem' = sem - 1 /\ undo' = [undo EXCEPT ![a[1]] = @ + 1]
  /\ pc' = [pc EXCEPT ![a] = "memset"]
  /\ UNCHANGED <<cellVars, up, pos, argVars, got>>

Block(a) ==
  /\ pc[a] = "semaphore_p" /\ Runs(a) /\ sem = 0
  /\ pc' = [pc EXCEPT ![a] = "blocked"]
  /\ UNCHANGED <<semVars, cellVars, up, pos, argVars, got>>

\* The alarm interrupts a semop of main that sleeps.  Handlers are not
\* interrupted: the signal is blocked while they run.
Interrupted(p) ==
  /\ p \in up /\ pc[<<p, "main">>] = "blocked"
  /\ pc' = [pc EXCEPT ![<<p, "main">>] = "failed"]
  /\ UNCHANGED <<semVars, cellVars, up, pos, argVars, got>>

----------------------------------------------------------------------------
(***************************************************************************)
(* The protected part of shm_operation.                                    *)
(***************************************************************************)
Memset_KeepsData(a) ==
  /\ pc[a] = "memset" /\ Runs(a)
  /\ IF a[1] = Reader
     THEN buf' = [buf EXCEPT ![Reader] = Blank]
     ELSE UNCHANGED buf
  /\ pos' = [pos EXCEPT ![a] = 1]
  /\ pc' = [pc EXCEPT ![a] = "memcpy"]
  /\ UNCHANGED <<semVars, cellVars, up, want, got>>

Memset(a) ==
  /\ pc[a] = "memset" /\ Runs(a)
  /\ IF a[1] = Reader
     THEN buf' = [buf EXCEPT ![Reader] = Blank] /\ UNCHANGED data
     ELSE data' = Blank /\ UNCHANGED buf
  /\ pos' = [pos EXCEPT ![a] = 1]
  /\ pc' = [pc EXCEPT ![a] = "memcpy"]
  /\ UNCHANGED <<semVars, status, up, want, got>>

\* The last word that is copied: a reader copies the whole cell.
LastWord(a) == IF a[1] = Reader THEN Words ELSE Size[want[a]]

Memcpy(a) ==
  /\ pc[a] = "memcpy" /\ Runs(a)
  /\ IF a[1] = Reader
     THEN /\ buf' = [buf EXCEPT ![Reader][pos[a]] = data[pos[a]]]
          /\ UNCHANGED data
     ELSE /\ data' = [data EXCEPT ![pos[a]] = buf[a[1]][pos[a]]]
          /\ UNCHANGED buf
  /\ IF pos[a] = LastWord(a)
     THEN pc' = [pc EXCEPT ![a] = "status"] /\ UNCHANGED pos
     ELSE pos' = [pos EXCEPT ![a] = @ + 1] /\ UNCHANGED pc
  /\ UNCHANGED <<semVars, status, up, want, got>>

SetStatus(a) ==
  /\ pc[a] = "status" /\ Runs(a)
  /\ IF a[1] = Reader
     THEN status' = NONE /\ got' = buf[Reader]
     ELSE status' = a[1] /\ UNCHANGED got
  /\ pc' = [pc EXCEPT ![a] = "semaphore_v"]
  /\ UNCHANGED <<semVars, data, up, pos, argVars>>

Leave(a) ==
  /\ pc[a] = "semaphore_v" /\ Runs(a)
  /\ sem' = sem + 1 /\ undo' = [undo EXCEPT ![a[1]] = @ - 1]
  /\ pc' = [pc EXCEPT ![a] = "idle"]
  /\ want' = [want EXCEPT ![a] = NONE]
  /\ UNCHANGED <<cellVars, up, pos, buf, got>>

----------------------------------------------------------------------------
(***************************************************************************)
(* A process ends: by exit(EXIT_FAILURE) when its semop has failed, or     *)
(* because it is killed.                                                   *)
(***************************************************************************)
Ends_NoUndo(p) ==
  /\ up' = up \ {p}
  /\ undo' = [undo EXCEPT ![p] = 0]
  /\ pc' = [a \in Actor |-> IF a[1] = p THEN "idle" ELSE pc[a]]
  /\ want' = [a \in Actor |-> IF a[1] = p THEN NONE ELSE want[a]]
  /\ UNCHANGED <<sem, cellVars, pos, buf, got>>

Ends(p) ==
  /\ up' = up \ {p}
  /\ sem' = sem + undo[p] /\ undo' = [undo EXCEPT ![p] = 0]
  /\ pc' = [a \in Actor |-> IF a[1] = p THEN "idle" ELSE pc[a]]
  /\ want' = [a \in Actor |-> IF a[1] = p THEN NONE ELSE want[a]]
  /\ UNCHANGED <<cellVars, pos, buf, got>>

Exit(p) == pc[<<p, "main">>] = "failed" /\ Runs(<<p, "main">>) /\ Ends(p)

Crash(p) == Crashes /\ p \in up /\ Ends(p)

----------------------------------------------------------------------------
Step(a) == Memset(a) \/ Memcpy(a) \/ SetStatus(a) \/ Leave(a)

Call(a) == (\E m \in Msg : CallWrite(a, m)) \/ CallRead(a)

Next == \/ \E a \in Actor : Call(a) \/ Enter(a) \/ Block(a) \/ Step(a)
        \/ \E p \in Process : Start(p) \/ Interrupted(p) \/ Exit(p) \/ Crash(p)

Spec == Init /\ [][Next]_vars

(***************************************************************************)
(* The scheduler runs every process, and main goes on between two alarms:  *)
(* they are 100 ms apart.  The kernel wakes the processes that sleep in    *)
(* semop in turn, so that each gets the semaphore if it is set free again  *)
(* and again.  A process whose semop failed exits.                         *)
(***************************************************************************)
GoesOn(a) == Enter(a) \/ Step(a) \/ (a[2] = "main" /\ Exit(a[1]))

Fairness == \A a \in Actor : SF_vars(GoesOn(a))

FairSpec == Spec /\ Fairness

----------------------------------------------------------------------------
\* The types of the variables.
TypeOK ==
  /\ sem \in Nat /\ undo \in [Process -> {0, 1}]
  /\ status \in Writer \cup {NONE} /\ data \in Data
  /\ up \subseteq Process
  /\ pc \in [Actor -> {"idle", "semaphore_p", "blocked", "failed", "memset",
                       "memcpy", "status", "semaphore_v"}]
  /\ pos \in [Actor -> Word] /\ want \in [Actor -> Msg \cup {NONE}]
  /\ buf \in [Process -> Data] /\ got \in Data

(***************************************************************************)
(* "Enter protection mode, protect the reading process" (shm_man.c): no    *)
(* two actors are in the protected part at once.                           *)
(***************************************************************************)
MutualExclusion == \A a, b \in Actor : Inside(a) /\ Inside(b) => a = b

(***************************************************************************)
(* While any process runs, the semaphore is free unless an actor is in the *)
(* protected part, and the kernel would give back exactly what the process *)
(* of that actor has taken: neither an exit nor a kill leaves it taken.    *)
(***************************************************************************)
SemExact ==
  /\ up # {} => sem = IF \E a \in Actor : Inside(a) THEN 0 ELSE 1
  /\ \A p \in Process :
       undo[p] = IF \E a \in Actor : a[1] = p /\ Inside(a) THEN 1 ELSE 0

\* A handler waits for the semaphore that main of its own process holds, which
\* it has interrupted: neither goes on any more.
WaitsForItself(p) ==
  /\ p \in HandlerWriter
  /\ pc[<<p, "handler">>] \in {"semaphore_p", "blocked"}
  /\ Inside(<<p, "main">>)

(***************************************************************************)
(* Every call of shm_operation returns, or its process ends, even when     *)
(* processes are killed in the protected part, with one exception: that a  *)
(* handler waits for its own process, and the others wait with it.         *)
(***************************************************************************)
OperationEnds ==
  \A a \in Actor :
    pc[a] # "idle" ~> (pc[a] = "idle" \/ \E p \in Process : WaitsForItself(p))

(***************************************************************************)
(* The cell implements ShmRegister.                                        *)
(***************************************************************************)
CellMsg == IF status # NONE /\ \E m \in Msg : data = Whole(m)
           THEN CHOOSE m \in Msg : data = Whole(m) ELSE NONE

Writing == IF \E a \in Actor : a[1] \in Writer /\ Inside(a)
           THEN want[CHOOSE a \in Actor : a[1] \in Writer /\ Inside(a)]
           ELSE NONE

GotMsg == IF \E m \in Msg : got = Whole(m)
          THEN CHOOSE m \in Msg : got = Whole(m) ELSE NONE

Register == INSTANCE ShmRegister WITH cell <- CellMsg, writing <- Writing,
                                      got <- GotMsg

\* A handler has filled the buffer main of its process is writing from.
Replaced == \E w \in HandlerWriter :
              /\ want[<<w, "main">>] # NONE
              /\ buf[w] # Whole(want[<<w, "main">>])

\* The writer was killed, and left part of its message where another one was.
Torn == /\ status # NONE
        /\ ~ \E a \in Actor : a[1] \in Writer /\ Inside(a)
        /\ ~ \E m \in Msg : data = Whole(m)

(***************************************************************************)
(* The reader gets every message whole and once, as it was written, unless *)
(* a handler replaces it while main writes it, or its writer is killed.    *)
(***************************************************************************)
RegisterSpec ==
  /\ Register!Init
  /\ [][\/ Register!Next
        \/ Replaced \/ Torn
        \/ up' # up /\ Register!Abort]_<<CellMsg, Writing, GotMsg>>
=============================================================================

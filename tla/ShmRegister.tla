---------------------------- MODULE ShmRegister ----------------------------
(***************************************************************************)
(* What a cell of shared memory promises to the processes that exchange    *)
(* messages through it: it holds one message; a message stays until it is  *)
(* read or another one is written; a read takes the whole message, and     *)
(* takes it once.  A message that has not been read may be overwritten.    *)
(***************************************************************************)
CONSTANTS Msg, NONE

VARIABLES cell,     \* the message that can be read, or NONE
          writing,  \* the message that is being written, or NONE
          got       \* the message that was read last, or NONE

vars == <<cell, writing, got>>

Init == cell = NONE /\ writing = NONE /\ got = NONE

Begin(m) == /\ writing = NONE /\ writing' = m
            /\ UNCHANGED <<cell, got>>

\* While m is being written the cell holds nothing or m, or still its last
\* message.
Change == /\ writing # NONE
          /\ cell' \in {NONE, writing}
          /\ UNCHANGED <<writing, got>>

End == /\ writing # NONE /\ cell = writing
       /\ writing' = NONE
       /\ UNCHANGED <<cell, got>>

Read == /\ writing = NONE /\ cell # NONE
        /\ got' = cell /\ cell' = NONE
        /\ UNCHANGED writing

\* A process that starts may clear the cell.
Clear == /\ writing = NONE
         /\ cell' = NONE
         /\ UNCHANGED <<writing, got>>

Next == (\E m \in Msg : Begin(m)) \/ Change \/ End \/ Read \/ Clear

\* A fault, not part of Next: the writer is killed, and its message may have
\* been written or not.
Abort == /\ writing # NONE
         /\ writing' = NONE
         /\ UNCHANGED <<cell, got>>

Spec == Init /\ [][Next]_vars
=============================================================================

--------------------------- MODULE AtomicBuffers ---------------------------
(***************************************************************************)
(* What getInputBuffer(), setOutputBuffer() and the other accesses to the  *)
(* buffers of a DeviceConnection promise their callers: each reads or      *)
(* writes all its bytes at one moment.  A byte is known by the number of   *)
(* the write that stored it.                                               *)
(***************************************************************************)
EXTENDS Naturals

CONSTANTS Threads, Buffers, Cells

VARIABLES
  value,    \* value[b][c]: the byte c of buffer b
  result,   \* result[t]: what the last read of thread t returned
  writes    \* the number of the last write

vars == <<value, result, writes>>

Init ==
  /\ value = [b \in Buffers |-> [c \in Cells |-> 0]]
  /\ result = [t \in Threads |-> [c \in Cells |-> 0]]
  /\ writes = 0

Write(b, cells) ==
  /\ writes' = writes + 1
  /\ value' = [a \in Buffers |-> [c \in Cells |->
                 IF a = b /\ c \in cells THEN writes' ELSE value[a][c]]]
  /\ UNCHANGED result

\* A read of some bytes leaves the caller's other bytes alone.
Read(t, b, cells) ==
  /\ result' = [result EXCEPT ![t] =
                  [c \in Cells |-> IF c \in cells THEN value[b][c] ELSE result[t][c]]]
  /\ UNCHANGED <<value, writes>>

Next ==
  \E b \in Buffers, cells \in SUBSET Cells :
    Write(b, cells) \/ \E t \in Threads : Read(t, b, cells)

Spec == Init /\ [][Next]_vars
=============================================================================

--------------------------- MODULE DeviceBuffers ---------------------------
(***************************************************************************)
(* input_buffer_ and output_buffer_ of one DeviceConnection, byte by byte, *)
(* between the cyclic thread, which receives into the one and sends from   *)
(* the other, and the thread of ros2_control.                              *)
(*                                                                         *)
(* memcpy() and the assignment of vectors copy their bytes in any order    *)
(* and at any pace; only the two mutexes keep a copy from meeting a write. *)
(* A byte is known by the number of the write that stored it.  The buffers *)
(* keep their sizes (EthernetIPSystem has the output_size of 0).           *)
(***************************************************************************)
EXTENDS Naturals

CONSTANTS
  Size,        \* the bytes of either assembly
  Fields,      \* the bytes of each field: what readInput(), writeOutput() touch
  MaxWrites    \* bound on the writes to both buffers

Cells == 1 .. Size
ASSUME SizeAssumption == Size \in Nat
ASSUME FieldsAssumption == Fields \subseteq SUBSET Cells
ASSUME MaxWritesAssumption == MaxWrites \in Nat

Threads == {"cyclic", "control"}
Buffers == {"input", "output"}

VARIABLES
  owner,    \* owner[b]: who holds input_mutex_ and output_mutex_
  buf,      \* buf[b][c]: the byte c of the buffer
  doing,    \* doing[t]: the access that runs in thread t
  at,       \* at[t]: the buffer it is made to
  cells,    \* cells[t]: the bytes it is for
  left,     \* left[t]: those it has yet to copy
  stamp,    \* stamp[t]: the number of the write, if it is one
  copy,     \* copy[t]: what the thread has read
  result,   \* result[t]: what its last finished read returned
  writes    \* the number of the last write

access == <<doing, at, cells, left, stamp>>
vars == <<owner, buf, access, copy, result, writes>>

Nobody == "nobody"

TypeOK ==
  /\ owner \in [Buffers -> Threads \cup {Nobody}]
  /\ buf \in [Buffers -> [Cells -> 0 .. writes]]
  /\ doing \in [Threads -> {"nothing", "read", "write"}]
  /\ at \in [Threads -> Buffers]
  /\ cells \in [Threads -> SUBSET Cells]
  /\ left \in [Threads -> SUBSET Cells]
  /\ stamp \in [Threads -> 0 .. writes]
  /\ copy \in [Threads -> [Cells -> 0 .. writes]]
  /\ result \in [Threads -> [Cells -> 0 .. writes]]
  /\ writes \in Nat

Init ==
  /\ owner = [b \in Buffers |-> Nobody]
  /\ buf = [b \in Buffers |-> [c \in Cells |-> 0]]
  /\ doing = [t \in Threads |-> "nothing"]
  /\ at = [t \in Threads |-> "input"]
  /\ cells = [t \in Threads |-> {}]
  /\ left = [t \in Threads |-> {}]
  /\ stamp = [t \in Threads |-> 0]
  /\ copy = [t \in Threads |-> [c \in Cells |-> 0]]
  /\ result = copy
  /\ writes = 0

---------------------------------------------------------------------------
(* Every access is: lock, copy the bytes, unlock. *)

\* An access without its lock_guard.
FreeAnyhow(b) == TRUE

Free(b) == owner[b] = Nobody

Begin(t, op, b, set) ==
  /\ doing[t] = "nothing" /\ Free(b)
  /\ owner' = [owner EXCEPT ![b] = t]
  /\ doing' = [doing EXCEPT ![t] = op]
  /\ at' = [at EXCEPT ![t] = b]
  /\ cells' = [cells EXCEPT ![t] = set]
  /\ left' = [left EXCEPT ![t] = set]

BeginRead(t, b, set) ==
  /\ Begin(t, "read", b, set)
  /\ copy' = [copy EXCEPT ![t] = result[t]]
  /\ UNCHANGED <<buf, stamp, result, writes>>

BeginWrite(t, b, set) ==
  /\ writes < MaxWrites
  /\ Begin(t, "write", b, set)
  /\ writes' = writes + 1
  /\ stamp' = [stamp EXCEPT ![t] = writes']
  /\ UNCHANGED <<buf, copy, result>>

CopyIn(t, c) ==
  /\ doing[t] = "write" /\ c \in left[t]
  /\ left' = [left EXCEPT ![t] = @ \ {c}]
  /\ buf' = [buf EXCEPT ![at[t]][c] = stamp[t]]
  /\ UNCHANGED <<owner, doing, at, cells, stamp, copy, result, writes>>

CopyOut(t, c) ==
  /\ doing[t] = "read" /\ c \in left[t]
  /\ left' = [left EXCEPT ![t] = @ \ {c}]
  /\ copy' = [copy EXCEPT ![t][c] = buf[at[t]][c]]
  /\ UNCHANGED <<owner, buf, doing, at, cells, stamp, result, writes>>

EndWrite(t) ==
  /\ doing[t] = "write" /\ left[t] = {}
  /\ owner' = [owner EXCEPT ![at[t]] = Nobody]
  /\ doing' = [doing EXCEPT ![t] = "nothing"]
  /\ UNCHANGED <<buf, at, cells, left, stamp, copy, result, writes>>

EndRead(t) ==
  /\ doing[t] = "read" /\ left[t] = {}
  /\ owner' = [owner EXCEPT ![at[t]] = Nobody]
  /\ doing' = [doing EXCEPT ![t] = "nothing"]
  /\ result' = [result EXCEPT ![t] = copy[t]]
  /\ UNCHANGED <<buf, at, cells, left, stamp, copy, writes>>

---------------------------------------------------------------------------
(* The accesses of the cyclic thread. *)

\* Without std::min(), and copied to the end of the buffer.
PacketBytesUnbounded(len) == 1 .. len
PacketBytesAtEnd(len) == {c \in Cells : c > Size - len}

\* A packet may be shorter or longer than the buffer.
PacketBytes(len) == {c \in Cells : c =< len}

UpdateInputBuffer ==
  \E len \in 0 .. Size + 1 : BeginWrite("cyclic", "input", PacketBytes(len))

\* In tick(), for setDataToSend().
PushOutput == BeginRead("cyclic", "output", Cells)

(* The accesses of the ros2_control thread. *)

GetInputBuffer == BeginRead("control", "input", Cells)
ReadInput == \E field \in Fields : BeginRead("control", "input", field)
SetOutputBuffer == BeginWrite("control", "output", Cells)
WriteOutput == \E field \in Fields : BeginWrite("control", "output", field)

Next ==
  \/ UpdateInputBuffer \/ PushOutput
  \/ GetInputBuffer \/ ReadInput \/ SetOutputBuffer \/ WriteOutput
  \/ \E t \in Threads :
       \/ \E c \in Cells : CopyIn(t, c) \/ CopyOut(t, c)
       \/ EndWrite(t) \/ EndRead(t)

Spec == Init /\ [][Next]_vars

---------------------------------------------------------------------------
(***************************************************************************)
(* The accesses are atomic.  A write counts from the moment it has the     *)
(* mutex, for nobody can look before it is through; a read counts when it  *)
(* returns, for nothing has changed since it began.                        *)
(***************************************************************************)
Value(b, c) ==
  LET t == owner[b]
  IN IF t # Nobody /\ doing[t] = "write" /\ c \in left[t] THEN stamp[t] ELSE buf[b][c]

Atomic == INSTANCE AtomicBuffers
  WITH value <- [b \in Buffers |-> [c \in Cells |-> Value(b, c)]]

\* Whatever the two threads overlap, no caller of getInputBuffer() or
\* readInput() sees a part of a packet without the rest of it, and no
\* packet is sent with a part of a setOutputBuffer() or writeOutput().
ImplementsAtomicBuffers == Atomic!Spec

\* A packet shorter than the buffer replaces its head and leaves older
\* bytes behind it: a reader may see bytes of several packets, but never an
\* older one in front of a newer one.
HeadIsNewest ==
  doing["control"] = "read" /\ at["control"] = "input" =>
    \A c, d \in cells["control"] \ left["control"] :
      c < d => copy["control"][c] >= copy["control"][d]

\* What the proofs need: the mutexes say who does what where, and a read
\* that runs has copied what is in the buffer.
LocksTellAccess ==
  \A t \in Threads, b \in Buffers :
    owner[b] = t <=> doing[t] # "nothing" /\ at[t] = b

LeftOfCells == \A t \in Threads : left[t] \subseteq cells[t]

CopiesCurrent ==
  \A t \in Threads, c \in Cells :
    doing[t] = "read" /\ c \in cells[t] \ left[t] => copy[t][c] = buf[at[t]][c]

CopiesOthers ==
  \A t \in Threads, c \in Cells :
    doing[t] = "read" /\ c \notin cells[t] \ left[t] => copy[t][c] = result[t][c]

BuffersInv ==
  TypeOK /\ LocksTellAccess /\ LeftOfCells /\ CopiesCurrent /\ CopiesOthers

HeadOfBufferIsNewest ==
  \A c, d \in Cells : c < d => Value("input", c) >= Value("input", d)

=============================================================================

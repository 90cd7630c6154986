------------------------ MODULE DeviceBuffers_proofs ------------------------
(***************************************************************************)
(* Proofs about DeviceBuffers, for every size of the assemblies, all       *)
(* fields and any number of writes.                                        *)
(***************************************************************************)
EXTENDS DeviceBuffers, TLAPS

LEMMA InitInv == Init => BuffersInv
  BY SizeAssumption DEF Init, BuffersInv, TypeOK, LocksTellAccess, LeftOfCells,
     CopiesCurrent, CopiesOthers, Threads, Buffers, Nobody

(***************************************************************************)
(* Every disjunct of Next is one of six kinds of step.                     *)
(***************************************************************************)
LEMMA StepKinds ==
  ASSUME Next
  PROVE  \E t \in Threads :
           \/ \E b \in Buffers, S \in SUBSET Cells :
                \/ BeginRead(t, b, S)
                \/ BeginWrite(t, b, S) /\ (b = "input" =>
                     \E len \in 0 .. Size + 1 : S = PacketBytes(len))
           \/ \E c \in Cells : CopyIn(t, c) \/ CopyOut(t, c)
           \/ EndWrite(t) \/ EndRead(t)
  <1>1. "cyclic" \in Threads /\ "control" \in Threads
        /\ "input" \in Buffers /\ "output" \in Buffers /\ "output" # "input"
    BY DEF Threads, Buffers
  <1>2. \A len : PacketBytes(len) \in SUBSET Cells
    BY DEF PacketBytes
  <1>3. CASE UpdateInputBuffer
    BY <1>1, <1>2, <1>3 DEF UpdateInputBuffer
  <1>4. CASE PushOutput \/ GetInputBuffer \/ SetOutputBuffer
    <2>1. Cells \in SUBSET Cells
      OBVIOUS
    <2> QED BY <1>1, <1>4, <2>1 DEF PushOutput, GetInputBuffer, SetOutputBuffer
  <1>5. CASE ReadInput \/ WriteOutput
    BY <1>1, <1>5, FieldsAssumption DEF ReadInput, WriteOutput
  <1>6. CASE \E t \in Threads : (\E c \in Cells : CopyIn(t, c) \/ CopyOut(t, c))
                                \/ EndWrite(t) \/ EndRead(t)
    BY <1>6
  <1> QED BY <1>3, <1>4, <1>5, <1>6 DEF Next

LEMMA TypeStep == TypeOK /\ [Next]_vars => TypeOK'
  <1> SUFFICES ASSUME TypeOK, [Next]_vars PROVE TypeOK'
    OBVIOUS
  <1>1. CASE UNCHANGED vars
    BY <1>1 DEF TypeOK, vars, access
  <1>2. ASSUME NEW t \in Threads, NEW b \in Buffers, NEW S \in SUBSET Cells,
               BeginRead(t, b, S)
        PROVE  TypeOK'
    BY <1>2 DEF TypeOK, BeginRead, Begin
  <1>3. ASSUME NEW t \in Threads, NEW b \in Buffers, NEW S \in SUBSET Cells,
               BeginWrite(t, b, S)
        PROVE  TypeOK'
    <2>1. writes' \in Nat /\ writes' = writes + 1 /\ 0 .. writes \subseteq 0 .. writes'
      BY <1>3 DEF TypeOK, BeginWrite
    <2>2. stamp' \in [Threads -> 0 .. writes']
      BY <1>3, <2>1 DEF TypeOK, BeginWrite
    <2>3. /\ buf' \in [Buffers -> [Cells -> 0 .. writes']]
          /\ copy' \in [Threads -> [Cells -> 0 .. writes']]
          /\ result' \in [Threads -> [Cells -> 0 .. writes']]
      BY <1>3, <2>1 DEF TypeOK, BeginWrite
    <2> QED BY <1>3, <2>1, <2>2, <2>3 DEF TypeOK, BeginWrite, Begin
  <1>4. ASSUME NEW t \in Threads, NEW c \in Cells, CopyIn(t, c) PROVE TypeOK'
    <2>1. at[t] \in Buffers /\ stamp[t] \in 0 .. writes
      BY DEF TypeOK
    <2>2. buf' \in [Buffers -> [Cells -> 0 .. writes]]
      BY <1>4, <2>1 DEF TypeOK, CopyIn
    <2> QED BY <1>4, <2>2 DEF TypeOK, CopyIn
  <1>5. ASSUME NEW t \in Threads, NEW c \in Cells, CopyOut(t, c) PROVE TypeOK'
    <2>1. buf[at[t]][c] \in 0 .. writes
      BY DEF TypeOK
    <2> QED BY <1>5, <2>1 DEF TypeOK, CopyOut
  <1>6. ASSUME NEW t \in Threads, EndWrite(t) \/ EndRead(t) PROVE TypeOK'
    BY <1>6 DEF TypeOK, EndWrite, EndRead
  <1> QED BY <1>1, <1>2, <1>3, <1>4, <1>5, <1>6, StepKinds

LEMMA LockStep == TypeOK /\ LocksTellAccess /\ [Next]_vars => LocksTellAccess'
  <1> SUFFICES ASSUME TypeOK, LocksTellAccess, [Next]_vars PROVE LocksTellAccess'
    OBVIOUS
  <1>0. Nobody \notin Threads
    BY DEF Threads, Nobody
  <1>1. CASE UNCHANGED vars
    BY <1>1 DEF LocksTellAccess, vars, access
  <1>2. ASSUME NEW t \in Threads, NEW b \in Buffers, NEW S \in SUBSET Cells,
               NEW op \in {"read", "write"}, Begin(t, op, b, S)
        PROVE  LocksTellAccess'
    BY <1>0, <1>2 DEF TypeOK, LocksTellAccess, Begin, Free
  <1>3. ASSUME NEW t \in Threads, NEW c \in Cells, CopyIn(t, c) \/ CopyOut(t, c)
        PROVE  LocksTellAccess'
    BY <1>3 DEF LocksTellAccess, CopyIn, CopyOut
  <1>4. ASSUME NEW t \in Threads, EndWrite(t) \/ EndRead(t) PROVE LocksTellAccess'
    BY <1>0, <1>4 DEF TypeOK, LocksTellAccess, EndWrite, EndRead
  <1> QED BY <1>1, <1>2, <1>3, <1>4, StepKinds DEF BeginRead, BeginWrite

(***************************************************************************)
(* A copy under way holds what the buffer holds: the only write that could *)
(* change the buffer would have to hold the same mutex.                    *)
(***************************************************************************)
LEMMA CopyStep == BuffersInv /\ [Next]_vars => CopiesCurrent' /\ CopiesOthers'
  <1> SUFFICES ASSUME BuffersInv, [Next]_vars PROVE CopiesCurrent' /\ CopiesOthers'
    OBVIOUS
  <1> USE DEF BuffersInv
  <1>1. CASE UNCHANGED vars
    BY <1>1 DEF CopiesCurrent, CopiesOthers, vars, access
  <1>2. ASSUME NEW t \in Threads, NEW b \in Buffers, NEW S \in SUBSET Cells,
               BeginRead(t, b, S)
        PROVE  CopiesCurrent' /\ CopiesOthers'
    BY <1>2 DEF TypeOK, CopiesCurrent, CopiesOthers, BeginRead, Begin
  <1>3. ASSUME NEW t \in Threads, NEW b \in Buffers, NEW S \in SUBSET Cells,
               BeginWrite(t, b, S)
        PROVE  CopiesCurrent' /\ CopiesOthers'
    BY <1>3 DEF TypeOK, CopiesCurrent, CopiesOthers, BeginWrite, Begin
  <1>4. ASSUME NEW t \in Threads, NEW c \in Cells, CopyIn(t, c)
        PROVE  CopiesCurrent' /\ CopiesOthers'
    <2>1. ASSUME NEW u \in Threads, doing[u] = "read" PROVE at[u] # at[t]
      <3>1. owner[at[u]] = u /\ owner[at[t]] = t /\ u # t
        BY <1>4, <2>1 DEF TypeOK, LocksTellAccess, CopyIn
      <3> QED BY <3>1
    <2>2. ASSUME NEW u \in Threads, doing[u] = "read"
          PROVE  buf'[at[u]] = buf[at[u]]
      <3>1. at[u] \in Buffers /\ at[u] # at[t]
        BY <2>1, <2>2 DEF TypeOK
      <3>2. buf' = [buf EXCEPT ![at[t]] = [buf[at[t]] EXCEPT ![c] = stamp[t]]]
        BY <1>4 DEF CopyIn
      <3> QED BY <3>1, <3>2 DEF TypeOK
    <2>3. \A u \in Threads : doing[u] = "read" => left'[u] = left[u]
      BY <1>4 DEF TypeOK, CopyIn
    <2>4. UNCHANGED <<doing, at, cells, copy, result>>
      BY <1>4 DEF CopyIn
    <2> QED BY <2>2, <2>3, <2>4 DEF CopiesCurrent, CopiesOthers
  <1>5. ASSUME NEW t \in Threads, NEW c \in Cells, CopyOut(t, c)
        PROVE  CopiesCurrent' /\ CopiesOthers'
    <2>1. c \in cells[t]
      BY <1>5 DEF LeftOfCells, CopyOut
    <2> QED BY <1>5, <2>1 DEF TypeOK, CopiesCurrent, CopiesOthers, CopyOut
  <1>6. ASSUME NEW t \in Threads, EndWrite(t) \/ EndRead(t)
        PROVE  CopiesCurrent' /\ CopiesOthers'
    <2>1. \A u \in Threads :
             doing'[u] = "read" => u # t /\ doing[u] = "read" /\ result'[u] = result[u]
      BY <1>6 DEF TypeOK, EndWrite, EndRead
    <2>2. UNCHANGED <<buf, at, cells, left, copy>>
      BY <1>6 DEF EndWrite, EndRead
    <2> QED BY <2>1, <2>2 DEF CopiesCurrent, CopiesOthers
  <1> QED BY <1>1, <1>2, <1>3, <1>4, <1>5, <1>6, StepKinds

LEMMA LeftStep == TypeOK /\ LeftOfCells /\ [Next]_vars => LeftOfCells'
  <1> SUFFICES ASSUME TypeOK, LeftOfCells, [Next]_vars PROVE LeftOfCells'
    OBVIOUS
  <1>1. CASE UNCHANGED vars
    BY <1>1 DEF LeftOfCells, vars, access
  <1>2. ASSUME NEW t \in Threads, NEW b \in Buffers, NEW S \in SUBSET Cells,
               NEW op \in {"read", "write"}, Begin(t, op, b, S)
        PROVE  LeftOfCells'
    BY <1>2 DEF TypeOK, LeftOfCells, Begin
  <1>3. ASSUME NEW t \in Threads, NEW c \in Cells, CopyIn(t, c) \/ CopyOut(t, c)
        PROVE  LeftOfCells'
    <2>1. cells' = cells /\ left' = [left EXCEPT ![t] = left[t] \ {c}]
      BY <1>3 DEF CopyIn, CopyOut
    <2> QED BY <2>1 DEF TypeOK, LeftOfCells
  <1>4. ASSUME NEW t \in Threads, EndWrite(t) \/ EndRead(t) PROVE LeftOfCells'
    BY <1>4 DEF LeftOfCells, EndWrite, EndRead
  <1> QED BY <1>1, <1>2, <1>3, <1>4, StepKinds DEF BeginRead, BeginWrite

(***************************************************************************)
(* Types, mutexes and copies: the inductive invariant.                     *)
(***************************************************************************)
THEOREM Invariance == Spec => []BuffersInv
  <1>1. BuffersInv /\ [Next]_vars => BuffersInv'
    BY TypeStep, LockStep, LeftStep, CopyStep DEF BuffersInv
  <1> QED BY InitInv, <1>1, PTL DEF Spec

\* The buffers and the copies hold numbers of writes already made.
THEOREM TypeCorrect == Spec => []TypeOK
  BY Invariance, PTL DEF BuffersInv

-----------------------------------------------------------------------------
(* The mapped value of a buffer changes when a write begins, and only then. *)

LEMMA ValueType ==
  ASSUME BuffersInv
  PROVE  \A b \in Buffers, c \in Cells : Value(b, c) \in 0 .. writes
  BY DEF BuffersInv, TypeOK, Value

LEMMA ValueOfWrite ==
  ASSUME BuffersInv, NEW t \in Threads, NEW b \in Buffers, NEW S \in SUBSET Cells,
         BeginWrite(t, b, S)
  PROVE  \A a \in Buffers, c \in Cells :
           Value(a, c)' = IF a = b /\ c \in S THEN writes' ELSE Value(a, c)
  <1> SUFFICES ASSUME NEW a \in Buffers, NEW c \in Cells
               PROVE  Value(a, c)' = IF a = b /\ c \in S THEN writes' ELSE Value(a, c)
    OBVIOUS
  <1>0. Nobody \notin Threads
    BY DEF Threads, Nobody
  <1>1. CASE a = b
    BY <1>0, <1>1 DEF BuffersInv, TypeOK, Value, BeginWrite, Begin, Free
  <1>2. CASE a # b
    <2>1. owner[a] # t
      BY <1>2 DEF BuffersInv, LocksTellAccess, BeginWrite, Begin
    <2>2. owner'[a] = owner[a] /\ buf' = buf
      BY <1>2 DEF BuffersInv, TypeOK, BeginWrite, Begin
    <2> QED BY <1>2, <2>1, <2>2 DEF BuffersInv, TypeOK, Value, BeginWrite, Begin
  <1> QED BY <1>1, <1>2

LEMMA ValueKept ==
  ASSUME BuffersInv, NEW t \in Threads,
         \/ \E b \in Buffers, S \in SUBSET Cells : BeginRead(t, b, S)
         \/ \E c \in Cells : CopyIn(t, c) \/ CopyOut(t, c)
         \/ EndWrite(t) \/ EndRead(t)
  PROVE  \A a \in Buffers, c \in Cells : Value(a, c)' = Value(a, c)
  <1> SUFFICES ASSUME NEW a \in Buffers, NEW c \in Cells
               PROVE  Value(a, c)' = Value(a, c)
    OBVIOUS
  <1> USE DEF BuffersInv
  <1>0. Nobody \notin Threads
    BY DEF Threads, Nobody
  <1>1. ASSUME NEW b \in Buffers, NEW S \in SUBSET Cells, BeginRead(t, b, S)
        PROVE  Value(a, c)' = Value(a, c)
    <2>1. owner[a] # t
      BY <1>1 DEF LocksTellAccess, BeginRead, Begin
    <2> QED BY <1>0, <1>1, <2>1 DEF TypeOK, Value, BeginRead, Begin, Free
  <1>2. ASSUME NEW d \in Cells, CopyIn(t, d) PROVE Value(a, c)' = Value(a, c)
    <2>1. owner[a] = t <=> at[t] = a
      BY <1>2 DEF LocksTellAccess, CopyIn
    <2>2. CASE owner[a] = t
      BY <1>0, <1>2, <2>1, <2>2 DEF TypeOK, Value, CopyIn
    <2>3. CASE owner[a] # t
      BY <1>2, <2>1, <2>3 DEF TypeOK, Value, CopyIn
    <2> QED BY <2>2, <2>3
  <1>3. ASSUME NEW d \in Cells, CopyOut(t, d) PROVE Value(a, c)' = Value(a, c)
    BY <1>3 DEF TypeOK, Value, CopyOut
  <1>4. ASSUME EndWrite(t) \/ EndRead(t) PROVE Value(a, c)' = Value(a, c)
    <2>1. owner[a] = t <=> at[t] = a
      BY <1>4 DEF LocksTellAccess, EndWrite, EndRead
    <2> QED BY <1>0, <1>4, <2>1 DEF TypeOK, Value, EndWrite, EndRead
  <1> QED BY <1>1, <1>2, <1>3, <1>4

-----------------------------------------------------------------------------
(***************************************************************************)
(* The buffers with their mutexes implement the atomic ones.               *)
(***************************************************************************)
LEMMA AtomicStep == BuffersInv /\ [Next]_vars => [Atomic!Next]_(Atomic!vars)
  <1> SUFFICES ASSUME BuffersInv, [Next]_vars PROVE [Atomic!Next]_(Atomic!vars)
    OBVIOUS
  <1> DEFINE value == [b \in Buffers |-> [c \in Cells |-> Value(b, c)]]
  <1>1. CASE UNCHANGED vars
    BY <1>1 DEF vars, access, Value, Atomic!vars
  <1>2. ASSUME NEW t \in Threads, NEW b \in Buffers, NEW S \in SUBSET Cells,
               BeginWrite(t, b, S)
        PROVE  Atomic!Write(b, S)
    <2>1. value' = [a \in Buffers |-> [c \in Cells |->
                      IF a = b /\ c \in S THEN writes' ELSE value[a][c]]]
      <3>1. \A a \in Buffers, c \in Cells :
               Value(a, c)' = IF a = b /\ c \in S THEN writes' ELSE value[a][c]
        BY <1>2, ValueOfWrite
      <3> QED BY <3>1
    <2> QED BY <1>2, <2>1 DEF Atomic!Write, BeginWrite
  <1>3. ASSUME NEW t \in Threads, EndRead(t) PROVE Atomic!Read(t, at[t], cells[t])
    <2>1. value' = value
      BY <1>3, ValueKept
    <2>2. \A c \in Cells : Value(at[t], c) = buf[at[t]][c]
      BY <1>3 DEF BuffersInv, TypeOK, LocksTellAccess, Value, EndRead
    <2>3. copy[t] = [c \in Cells |-> IF c \in cells[t] THEN value[at[t]][c]
                                                      ELSE result[t][c]]
      BY <1>3, <2>2 DEF BuffersInv, TypeOK, CopiesCurrent, CopiesOthers, EndRead
    <2> QED BY <1>3, <2>1, <2>3 DEF Atomic!Read, EndRead
  <1>4. ASSUME NEW t \in Threads,
               \/ \E b \in Buffers, S \in SUBSET Cells : BeginRead(t, b, S)
               \/ \E c \in Cells : CopyIn(t, c) \/ CopyOut(t, c)
               \/ EndWrite(t)
        PROVE  UNCHANGED Atomic!vars
    <2>1. value' = value
      BY <1>4, ValueKept
    <2>2. UNCHANGED <<result, writes>>
      BY <1>4 DEF BeginRead, CopyIn, CopyOut, EndWrite
    <2> QED BY <2>1, <2>2 DEF Atomic!vars
  <1>5. ASSUME NEW t \in Threads, EndRead(t)
        PROVE  at[t] \in Buffers /\ cells[t] \in SUBSET Cells
    BY DEF BuffersInv, TypeOK
  <1> QED BY <1>1, <1>2, <1>3, <1>4, <1>5, StepKinds DEF Atomic!Next

\* Every access to a buffer is atomic, for every size and all fields.
THEOREM Refinement == Spec => ImplementsAtomicBuffers
  <1>1. Init => Atomic!Init
    BY DEF Init, Atomic!Init, Value, Nobody
  <1> QED BY <1>1, AtomicStep, Invariance, PTL DEF Spec, ImplementsAtomicBuffers, Atomic!Spec

-----------------------------------------------------------------------------
(***************************************************************************)
(* Only packets are written to the input buffer, and a packet numbers its  *)
(* head higher than everything else.                                       *)
(***************************************************************************)
LEMMA HeadStep ==
  BuffersInv /\ HeadOfBufferIsNewest /\ [Next]_vars => HeadOfBufferIsNewest'
  <1> SUFFICES ASSUME BuffersInv, HeadOfBufferIsNewest, [Next]_vars
               PROVE  HeadOfBufferIsNewest'
    OBVIOUS
  <1>0. "input" \in Buffers
    BY DEF Buffers
  <1>1. CASE UNCHANGED vars
    BY <1>1 DEF HeadOfBufferIsNewest, Value, vars, access
  <1>2. ASSUME NEW t \in Threads, NEW b \in Buffers, NEW S \in SUBSET Cells,
               BeginWrite(t, b, S),
               b = "input" => \E len \in 0 .. Size + 1 : S = PacketBytes(len)
        PROVE  HeadOfBufferIsNewest'
    <2>1. SUFFICES ASSUME NEW c \in Cells, NEW d \in Cells, c < d
                   PROVE  Value("input", c)' >= Value("input", d)'
      BY DEF HeadOfBufferIsNewest
    <2>2. /\ Value("input", c) \in 0 .. writes
          /\ Value("input", d) \in 0 .. writes
          /\ Value("input", c) >= Value("input", d)
      BY <1>0, <2>1, ValueType DEF HeadOfBufferIsNewest
    <2>3. writes' = writes + 1 /\ writes \in Nat
      BY <1>2 DEF BuffersInv, TypeOK, BeginWrite
    <2>4. b = "input" /\ d \in S => c \in S
      BY <1>2, <2>1, SizeAssumption DEF PacketBytes, Cells
    <2>5. \A e \in Cells : Value("input", e)' =
             IF b = "input" /\ e \in S THEN writes' ELSE Value("input", e)
      BY <1>0, <1>2, ValueOfWrite
    <2> QED BY <2>2, <2>3, <2>4, <2>5
  <1>3. ASSUME NEW t \in Threads,
               \/ \E b \in Buffers, S \in SUBSET Cells : BeginRead(t, b, S)
               \/ \E c \in Cells : CopyIn(t, c) \/ CopyOut(t, c)
               \/ EndWrite(t) \/ EndRead(t)
        PROVE  HeadOfBufferIsNewest'
    BY <1>0, <1>3, ValueKept DEF HeadOfBufferIsNewest
  <1> QED BY <1>1, <1>2, <1>3, StepKinds

\* What a reader of the input buffer has copied is never older in front than
\* behind.
THEOREM HeadsAreNewest == Spec => []HeadIsNewest
  <1>1. Init => HeadOfBufferIsNewest
    BY DEF Init, HeadOfBufferIsNewest, Value, Nobody, Buffers
  <1>2. BuffersInv /\ HeadOfBufferIsNewest => HeadIsNewest
    <2> SUFFICES ASSUME BuffersInv, HeadOfBufferIsNewest,
                        doing["control"] = "read", at["control"] = "input",
                        NEW c \in cells["control"] \ left["control"],
                        NEW d \in cells["control"] \ left["control"], c < d
                 PROVE  copy["control"][c] >= copy["control"][d]
      BY DEF HeadIsNewest
    <2>1. "control" \in Threads /\ "input" \in Buffers
      BY DEF Threads, Buffers
    <2>2. owner["input"] = "control" /\ c \in Cells /\ d \in Cells
      BY <2>1 DEF BuffersInv, TypeOK, LocksTellAccess
    <2>3. Value("input", c) = buf["input"][c] /\ Value("input", d) = buf["input"][d]
      BY <2>2 DEF Value
    <2>4. copy["control"][c] = buf["input"][c] /\ copy["control"][d] = buf["input"][d]
      BY <2>1, <2>2 DEF BuffersInv, CopiesCurrent
    <2> QED BY <2>2, <2>3, <2>4 DEF HeadOfBufferIsNewest
  <1> QED BY <1>1, <1>2, HeadStep, Invariance, PTL DEF Spec
=============================================================================

---------------------------- MODULE AssemblyMap ----------------------------
(***************************************************************************)
(* ethernetip_master::AssemblyMap: the table that packs the fields of a    *)
(* device into the bytes of an assembly, at work on an output buffer.      *)
(*                                                                         *)
(* A buffer is a function from bit addresses, 8 * byte + bit, to 0 or 1.   *)
(* The hosts are little-endian, so bit i of a field's value is bit i after *)
(* the field's offset, whatever its type.  A double is counted in halves:  *)
(* 3 stands for 1.5.  That is enough to tell truncation from rounding, and *)
(* every format here represents such numbers exactly.                      *)
(***************************************************************************)
EXTENDS Integers, Sequences, FiniteSetsExt

CONSTANTS
  Layout,        \* the field mappings, in the order of the YAML file
  TotalSizes,    \* the sizes in bytes the YAML file may give, 0 for none
  Commands,      \* field name -> the doubles, in halves, written to it
  MaxWrites      \* bound: calls of write() and writeOutput()

Names == {Layout[i].name : i \in DOMAIN Layout}

ASSUME LayoutAssumption ==
  /\ Layout \in Seq([name : STRING, type : STRING, offset : Nat, bit : Nat])
  /\ Layout # <<>>
ASSUME TotalSizesAssumption == TotalSizes \subseteq Nat
ASSUME MaxWritesAssumption == MaxWrites \in Nat

---------------------------------------------------------------------------
(* The table. *)

\* typeSize(); 0 for a bool, which takes one bit.
TypeSize(type) ==
  CASE type \in {"float64", "double"} -> 8
    [] type \in {"float32", "float", "int32", "uint32"} -> 4
    [] type \in {"int16", "uint16"} -> 2
    [] type \in {"int8", "uint8"} -> 1
    [] type = "bool" -> 0
    [] OTHER -> 4

\* fields_: of two mappings with the same name the last one stays.
Fields == [n \in Names |-> Layout[Max({i \in DOMAIN Layout : Layout[i].name = n})]]

FieldEnd(f) == f.offset + Max({TypeSize(f.type), 1})

\* A bool taken for a field without size.
BufferSizeWithoutBools(total) ==
  IF total > 0 THEN total
  ELSE Max({Layout[i].offset + TypeSize(Layout[i].type) : i \in DOMAIN Layout})

BufferSize(total) ==
  IF total > 0 THEN total ELSE Max({FieldEnd(Layout[i]) : i \in DOMAIN Layout})

\* A size given in the YAML file is taken as it is; the accessors rely on it
\* to hold the fields.
ASSUME SizeAssumption ==
  \A total \in TotalSizes \ {0} : \A n \in Names : FieldEnd(Fields[n]) <= total

Integral == {"int32", "uint32", "int16", "uint16", "int8", "uint8"}
Signed == {"int32", "int16", "int8"}
Floats == {"float64", "double", "float32", "float"}

First(f) == 8 * f.offset

\* The bit of its byte that a bool is kept in, if any: 1u << bit_offset has
\* none in the byte from 8 on.  From 32 on the shift is undefined; the
\* machines in Targets shift by bit_offset modulo 32, back into the byte.
BoolBit(f) == {f.bit % 32} \cap (0 .. 7)

\* The bits a setter of f stores.  setValue() ignores a type it does not know.
BitsOf(f) ==
  IF f.type = "bool" THEN {First(f) + k : k \in BoolBit(f)}
  ELSE IF f.type \in Integral \cup Floats
       THEN First(f) .. (First(f) + 8 * TypeSize(f.type) - 1)
       ELSE {}

---------------------------------------------------------------------------
(* Numbers and their bits. *)

\* Bit i of an integer in two's complement.  (The division is done in two
\* parts because TLC's integers are 32 bits wide.)
Bit(v, i) ==
  IF ((v \div 2^(i \div 2)) \div 2^(i - (i \div 2))) % 2 = 1 THEN 1 ELSE 0

\* A conversion from double to an integer type truncates towards zero.
Truncated(d) == IF d < 0 THEN -((-d) \div 2) ELSE d \div 2

\* Out of range the conversion is undefined.  Compiled code converts to 32
\* or 64 bits and keeps the low ones; where it has an instruction for
\* unsigned integers, as on AArch64, a negative number becomes 0 first.
Targets == {"x86-64", "AArch64"}
Cast(machine, type, d) ==
  IF machine = "AArch64" /\ type \notin Signed /\ d < 0 THEN 0 ELSE Truncated(d)

\* IEEE 754: a fraction of "fraction" bits below "exponent" bits and a sign.
Format(type) ==
  IF type \in {"float64", "double"}
  THEN [fraction |-> 52, exponent |-> 11, bias |-> 1023]
  ELSE [fraction |-> 23, exponent |-> 8, bias |-> 127]

Abs(x) == IF x < 0 THEN -x ELSE x
\* Bound: a double is below 2^32 halves.
Log2(m) == CHOOSE e \in 0 .. 31 : 2^e <= m /\ m < 2^(e + 1)

FloatBit(F, d, i) ==
  LET e == Log2(Abs(d))
      sign == F.fraction + F.exponent
  IN IF d = 0 THEN 0
     ELSE IF i = sign THEN IF d < 0 THEN 1 ELSE 0
     ELSE IF i >= F.fraction THEN Bit(e - 1 + F.bias, i - F.fraction)
     ELSE IF F.fraction - i <= e THEN Bit(Abs(d), e - (F.fraction - i)) ELSE 0

\* The bit a setter of f stores at bit address a when given d.
StoredBit(machine, f, d, a) ==
  IF f.type = "bool" THEN IF d # 0 THEN 1 ELSE 0
  ELSE IF f.type \in Integral THEN Bit(Cast(machine, f.type, d), a - First(f))
  ELSE FloatBit(Format(f.type), d, a - First(f))

\* buf[offset] = val for a bool.
SetWholeByte(machine, buffer, f, d) ==
  [a \in DOMAIN buffer |->
     IF a \in BitsOf(f) THEN StoredBit(machine, f, d, a)
     ELSE IF f.type = "bool" /\ a \div 8 = f.offset THEN 0 ELSE buffer[a]]

\* The memcpy of an int for every integer type.
SetWideInteger(machine, buffer, f, d) ==
  [a \in DOMAIN buffer |->
     IF \/ a \in BitsOf(f)
        \/ f.type \in Integral /\ a \in First(f) .. (First(f) + 31)
     THEN StoredBit(machine, f, d, a) ELSE buffer[a]]

SetValue(machine, buffer, f, d) ==
  [a \in DOMAIN buffer |->
     IF a \in BitsOf(f) THEN StoredBit(machine, f, d, a) ELSE buffer[a]]

\* The bit at address a after all bits were cleared and every field set in
\* its turn.
PackedBit(machine, values, a) ==
  LET covering == {i \in DOMAIN Layout : a \in BitsOf(Fields[Layout[i].name])}
      n == Layout[Max(covering)].name
  IN IF covering = {} THEN 0 ELSE StoredBit(machine, Fields[n], values[n], a)

\* A buffer of the computed size instead of the configured one.
PackComputedSize(machine, size, values) ==
  [a \in 0 .. (8 * BufferSize(0) - 1) |-> PackedBit(machine, values, a)]

\* prepareOutput() on a buffer of "size" bytes.
Pack(machine, size, values) ==
  [a \in 0 .. (8 * size - 1) |-> PackedBit(machine, values, a)]

\* The number whose bits are p, the highest one negative if signed.
IntValue(p, width, signed) ==
  LET from[i \in 0 .. (width - 1)] ==
        IF i = width - 1 THEN IF signed THEN -p[i] ELSE p[i]
        ELSE 2 * from[i + 1] + p[i]
  IN from[0]

FloatValue(F, p) ==
  LET E == IntValue([i \in 0 .. (F.exponent - 1) |-> p[F.fraction + i]],
                    F.exponent, FALSE)
      leading[k \in 0 .. F.fraction] ==
        IF k = 0 THEN 1 ELSE 2 * leading[k - 1] + p[F.fraction - k]
      m == leading[E - F.bias + 1]
  IN IF E = 0 THEN 0 ELSE IF p[F.fraction + F.exponent] = 1 THEN -m ELSE m

\* getValue(), in halves.
GetValue(buffer, f) ==
  LET width == 8 * TypeSize(f.type)
      p == [i \in 0 .. (width - 1) |-> buffer[First(f) + i]]
  IN IF f.type = "bool"
     THEN IF \E a \in BitsOf(f) : buffer[a] = 1 THEN 2 ELSE 0
     ELSE IF f.type \in Integral THEN 2 * IntValue(p, width, f.type \in Signed)
     ELSE IF f.type \in Floats THEN FloatValue(Format(f.type), p)
     ELSE 0

\* What an integer of this type can hold, by arithmetic instead of bits.
Span(type) == 2^(8 * TypeSize(type) - 2)
InRange(type, v) ==
  (v \div Span(type)) \in IF type \in Signed THEN -2 .. 1 ELSE 0 .. 3

\* The doubles for which Cast() and FloatBit() say what the hardware does: a
\* conversion to 32 bits keeps the low bits of a number that fits into them,
\* and a float has 24 bits for the number's own.
Convertible(type, d) ==
  /\ type \in {"float32", "float"} => Abs(d) < 2^24
  /\ type \in {"float64", "double"} => Abs(d) \div 2^16 < 2^16
  /\ type \in Integral =>
       \/ InRange("int32", Truncated(d))
       \/ type = "uint32" /\ InRange("uint32", Truncated(d))

ASSUME CommandsAssumption ==
  \A n \in Names : \A d \in Commands[n] :
    d \in Int /\ Convertible(Fields[n].type, d)

---------------------------------------------------------------------------
VARIABLES
  target,      \* the machine the code is compiled for
  totalSize,   \* output_size of the YAML file
  buf,         \* output_buffer_
  commands,    \* command_values_ of the plugin, in halves
  record,      \* history: what each field should read as
  writes       \* bound: calls so far

vars == <<target, totalSize, buf, commands, record, writes>>

Addresses == 0 .. (8 * BufferSize(totalSize) - 1)

\* Types: the buffer never changes its size.
TypeOK ==
  /\ target \in Targets
  /\ totalSize \in TotalSizes
  /\ buf \in [Addresses -> {0, 1}]
  /\ commands \in [Names -> Int]
  /\ record \in [Names -> Int]
  /\ writes \in 0 .. MaxWrites

Init ==
  /\ target \in Targets
  /\ totalSize \in TotalSizes
  /\ buf = [a \in Addresses |-> 0]
  /\ commands = [n \in Names |-> 0]
  /\ record = [n \in Names |-> 0]
  /\ writes = 0

\* What a field of this type holds of d.
Wrapped(type, v) ==
  LET low == IF type \in Signed THEN -2 * Span(type) ELSE 0
  IN ((v - low) % (4 * Span(type))) + low
Held(f, d) ==
  LET v == Cast(target, f.type, d)
  IN CASE f.type = "bool" -> IF d # 0 /\ BoolBit(f) # {} THEN 2 ELSE 0
       [] f.type \in Integral ->
            2 * IF InRange(f.type, v) THEN v ELSE Wrapped(f.type, v)
       [] f.type \in Floats -> d
       [] OTHER -> 0

\* DeviceConnection::writeOutput(): one field of the buffer.
WriteOutput(n, d) ==
  /\ writes < MaxWrites
  /\ writes' = writes + 1
  /\ buf' = SetValue(target, buf, Fields[n], d)
  /\ record' = [record EXCEPT ![n] = Held(Fields[n], d)]
  /\ UNCHANGED <<target, totalSize, commands>>

\* EthernetIPSystem::write() with a new command for one field.  The buffer
\* is replaced by a fresh one of the configured size.  (With no size given
\* it is empty: module EthernetIPSystem.)
Write(n, d) ==
  /\ writes < MaxWrites
  /\ totalSize > 0
  /\ writes' = writes + 1
  /\ commands' = [commands EXCEPT ![n] = d]
  /\ buf' = Pack(target, totalSize, commands')
  /\ record' = [m \in Names |-> Held(Fields[m], commands'[m])]
  /\ UNCHANGED <<target, totalSize>>

Next ==
  \E n \in Names : \E d \in Commands[n] : WriteOutput(n, d) \/ Write(n, d)

Spec == Init /\ [][Next]_vars

---------------------------------------------------------------------------
(* Properties. *)

\* The code allocates bufferSize() bytes and the accessors trust it: every
\* field lies inside, a bool in the last byte too.
FieldsInBuffer ==
  \A n \in Names : BitsOf(Fields[n]) \subseteq Addresses

\* The fields share no bit, as bools in one byte do not.  Nothing in the code
\* sees to it: it is up to the YAML file.
DisjointFields ==
  \A n, m \in Names : n # m => BitsOf(Fields[n]) \cap BitsOf(Fields[m]) = {}

\* If so, the buffer behaves as a record with a member per field: whatever
\* was written through setValue() before, and to whichever fields, getValue()
\* gives for each one the last value written to it, as far as its type can
\* hold it.
BufferIsARecord ==
  \A n \in Names : GetValue(buf, Fields[n]) = record[n]

\* Bits that belong to no field, which the device may give a meaning of its
\* own, are sent as 0 for ever: no setter reaches beyond its field.
SpareBitsStayZero ==
  \A a \in Addresses :
    (\A n \in Names : a \notin BitsOf(Fields[n])) => buf[a] = 0

=============================================================================

--------------------------- MODULE MCAssemblyMap ---------------------------
(***************************************************************************)
(* A layout with every type and the edges that matter: bools at both ends  *)
(* of a byte, one with a bit_offset outside it, one whose bit_offset comes *)
(* back into it, a bool alone in the last byte, a spare byte, a type the   *)
(* code does not know.                                                     *)
(***************************************************************************)
EXTENDS AssemblyMap

At(name, type, offset, bit) ==
  [name |-> name, type |-> type, offset |-> offset, bit |-> bit]

MCLayout == <<
  At("ready", "bool", 0, 0),  At("fault", "bool", 0, 7),
  At("ghost", "bool", 0, 9),  At("round", "bool", 0, 34),
  At("i8", "int8", 1, 0),     At("u8", "uint8", 2, 0),
  At("i16", "int16", 4, 0),   At("u16", "uint16", 6, 0),
  At("i32", "int32", 8, 0),   At("u32", "uint32", 12, 0),
  At("f32", "float32", 16, 0), At("f64", "double", 20, 0),
  At("odd", "int64", 28, 0),  At("last", "bool", 32, 0) >>

\* In halves.  The smallest and largest numbers of the short types, fractions
\* on both sides of zero, -1 with all its bits, numbers out of range.
MCCommands == [n \in Names |->
  CASE n \in {"ready", "fault", "ghost", "round", "last"} -> {0, 1}
    [] n = "i8" -> {-256, -3, 300}
    [] n = "u8" -> {511, -3, 600}
    [] n = "i16" -> {-65536, 65534}
    [] n = "u16" -> {131071, 515}
    [] n = "i32" -> {-2, 1000000001}
    [] n = "u32" -> {2000000001}
    [] n = "f32" -> {-3, 1000001}
    [] n = "f64" -> {1, -2001}
    [] OTHER -> {4}]

MCTotalSizes == {0, 36}

ASSUME MCLayoutIsDisjoint == DisjointFields

=============================================================================

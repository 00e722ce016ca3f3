---------------------------- MODULE MCOpBuilder ----------------------------
(***************************************************************************)
(* Root structures of up to three members that differ in what the builder  *)
(* tells apart: alignment below, equal to or above a byte, whole bytes or  *)
(* not, strings, and arrays of them.                                       *)
(***************************************************************************)
EXTENDS OpBuilder

Field(kind, align, size, depth, dynamic) ==
    [kind |-> kind, align |-> align, size |-> size, depth |-> depth, dynamic |-> dynamic]

Members ==
    {Field("bits", 1, 3, 0, {}), Field("bits", 4, 6, 0, {}), Field("bits", 8, 8, 0, {}),
     Field("bits", 32, 13, 0, {}), Field("bytes", 8, 8, 0, {}),
     Field("bits", 1, 3, 1, {}), Field("bits", 8, 5, 1, {0}), Field("bits", 8, 5, 2, {}),
     Field("bits", 2, 5, 1, {0}), Field("bytes", 8, 8, 2, {0}),
     Field("bits", 8, 5, 2, {0, 1})}

SomeStructures ==
    [min_align : {1, 8},
     members : [1 .. 1 -> Members] \cup [1 .. 2 -> Members] \cup [1 .. 3 -> Members]]

=============================================================================

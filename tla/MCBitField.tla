----------------------------- MODULE MCBitField -----------------------------
(***************************************************************************)
(* Fields over up to three units of four bits: they begin and end at every *)
(* bit of a unit, fill units exactly, and have each C type up to the one   *)
(* of four units.                                                          *)
(***************************************************************************)
EXTENDS BitField

BothOrders == {"le", "be"}

=============================================================================

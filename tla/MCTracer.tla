------------------------------ MODULE MCTracer ------------------------------
(***************************************************************************)
(* Instances of the tracer for TLC.  Sizes and offsets are in bits and     *)
(* have the magnitude of real configurations.                              *)
(***************************************************************************)
EXTENDS TracerRefinement

(* An event record with a header and a payload. *)
Er(header_align, header_size, payload_align, payload_size) ==
    [header |-> [align |-> header_align, size |-> header_size],
     common_ctx |-> NoPart, specific_ctx |-> NoPart,
     payload |-> [align |-> payload_align, size |-> payload_size]]

(* Byte-packed event records of 64, 96 and 168 bits.  In a packet of 256   *)
(* bits with 96 bits of header, 64 + 96 bits fill the packet, 96 + 96 do   *)
(* not fit, and 168 never fit.                                             *)
PackedRecords == {Er(8, 8, 8, 56), Er(8, 8, 8, 88), Er(8, 8, 8, 160)}

(* Records whose size depends on where they start: each takes at most 96   *)
(* bits.                                                                   *)
MixedRecords == {Er(8, 11, 8, 32), Er(8, 8, 64, 32)}

(* The last record takes 160 bits in an empty packet, 136 after the second  *)
(* one and 168 after the first one: its payload is aligned to 64 bits.      *)
TightRecords == {Er(8, 8, 8, 48), Er(8, 8, 8, 80), Er(8, 8, 64, 128)}

=============================================================================

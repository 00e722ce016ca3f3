------------------------------- MODULE Layout -------------------------------
(***************************************************************************)
(* Bit layout of an event record.  A root structure field starts at the    *)
(* first offset that satisfies its alignment, and its alignment is the     *)
(* largest alignment of its members, so the offsets inside the structure   *)
(* do not depend on where it starts.  For the values of one call a root    *)
(* structure is therefore a "part": its alignment and its size in bits.    *)
(*                                                                         *)
(* An event record is up to four parts, in this order: the header, the     *)
(* common context, the specific context and the payload.  A part the       *)
(* configuration leaves out is NoPart.                                     *)
(***************************************************************************)
EXTENDS Integers

(* A part: alignment (a positive number of bits) and size in bits. *)
Part == [align : Nat \ {0}, size : Nat]

NoPart == [align |-> 1, size |-> 0]

(* The four parts of the event record one call of a tracing function writes. *)
EventRecord == [header : Part, common_ctx : Part, specific_ctx : Part, payload : Part]

(* _ALIGN: the smallest multiple of align that is not below at. *)
AlignUp(at, align) == at + ((-at) % align)

(* The offset after a part that is written from offset at. *)
Put(at, part) == AlignUp(at, part.align) + part.size

(* The offset after a whole event record that is written from offset at. *)
ErEnd(at, er) ==
    Put(Put(Put(Put(at, er.header), er.common_ctx), er.specific_ctx), er.payload)

(* Mutants of ErSize: the alignment of the parts left out; the operands of  *)
(* the subtraction swapped.                                                *)
ErSizeUnaligned(at, er) ==
    er.header.size + er.common_ctx.size + er.specific_ctx.size + er.payload.size
ErSizeSwapped(at, er) == at - ErEnd(at, er)

(* _er_size_DST_ERT: what the record takes when it starts at offset at. *)
ErSize(at, er) == ErEnd(at, er) - at

=============================================================================

-------------------------- MODULE TracerRefinement --------------------------
(***************************************************************************)
(* The tracer implements the data stream it promises.                      *)
(***************************************************************************)
EXTENDS Tracer

(* The calls whose event records packet p holds. *)
Calls(p) == [i \in DOMAIN p.ers |-> p.ers[i].id]

(* The fields of a packet of the back end that the reader relies on. *)
AbstractPacket(p) ==
    [calls |-> Calls(p), seq_num |-> p.seq_num, discarded |-> p.events_discarded]

DS == INSTANCE DataStream WITH
    enabled <- ctx.is_tracing_enabled,
    calls <- Len(fate),
    pending <- IF ctx.packet_is_open THEN Calls(ctx.buf) ELSE << >>,
    discarded <- ctx.events_discarded,
    stream <- [i \in DOMAIN backend |-> AbstractPacket(backend[i])]

(* Every run of the tracer is one of the data stream: calls are recorded   *)
(* in order, none is lost or delivered twice, and sequence numbers and     *)
(* snapshots of the discarded counter are exact (the tracing functions,    *)
(* open_packet, close_packet and the platform callbacks together).         *)
ImplementsDataStream == DS!Spec

=============================================================================

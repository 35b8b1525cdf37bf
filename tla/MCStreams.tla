----------------------------- MODULE MCStreams -----------------------------
(* The pose streams of one slot on a small instance.                       *)
EXTENDS StreamSlots
=============================================================================

----------------------------- MODULE MCStreams -----------------------------
(* Streams with two bytes and a pattern that begins again at its end.       *)
EXTENDS Streams
CONSTANTS a, b
MCPattern == <<a, b, a>>
=============================================================================

---------------------------- MODULE MCAggregates ----------------------------
(* A small instance of the aggregates for TLC; see the cfg files. *)
EXTENDS AggregatesInv

(* A gap of more than two steps, and two blocks close together. *)
MCTimestamps == <<3, 12, 13>>
=============================================================================

-------------------------- MODULE MCTelemetrySender -------------------------
(***************************************************************************)
(* TelemetrySender on small instances: its configurations give the bounds. *)
(***************************************************************************)
EXTENDS TelemetrySender
=============================================================================

----------------------------- MODULE MCAisAlert -----------------------------
(* Instances of AisAlert: one ship and one search and rescue transmitter. *)
EXTENDS AisAlert

CONSTANTS v, s
=============================================================================

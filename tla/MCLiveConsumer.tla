-------------------------- MODULE MCLiveConsumer --------------------------
(* Small instances of LiveConsumer for TLC. *)
EXTENDS LiveConsumer, TLC

CONSTANTS b1, b2
===========================================================================

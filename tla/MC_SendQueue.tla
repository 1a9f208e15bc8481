---------------------------- MODULE MC_SendQueue ----------------------------
(* Small instances of SendQueue: the cfgs give the sizes. *)
EXTENDS SendQueue
=============================================================================

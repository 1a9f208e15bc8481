-------------------------- MODULE MC_Availability --------------------------
(* A small instance of Availability: the command module, with calls enough *)
(* to be started, stopped and started again, and a module with a pipe.     *)
EXTENDS Availability

CONSTANTS c, p

Calls == c :> 3 @@ p :> 2
=============================================================================

--------------------------- MODULE MC_PipeServer ---------------------------
(* A small instance of PipeServer.                                         *)
EXTENDS PipeServer

=============================================================================

--------------------------- MODULE MC_PipeClient ---------------------------
(* A small instance of PipeClient.  Handles are model values; no symmetry, *)
(* as the run checks liveness.                                             *)
EXTENDS PipeClient

=============================================================================

--------------------------- MODULE MC_IsoReceive ---------------------------
(* Small instances of IsoReceive: the header of four bytes, telegrams that  *)
(* are a bare header, one byte longer, and longer than two headers.         *)
EXTENDS IsoReceive
=============================================================================

----------------------------- MODULE MC_IsoConn -----------------------------
(* Small instances of IsoConn.  Handles are interchangeable, and so are     *)
(* acceptance objects: the specification never tells two of them apart.     *)
EXTENDS IsoConn, TLC

Symmetry == Permutations(Fds) \cup Permutations(Accs)

=============================================================================

----------------------------- MODULE MC_TcpConn -----------------------------
(* Small instances of TcpConn. *)
EXTENDS TcpConn, TLC

\* Objects and handles are interchangeable; so are the peers.
Symmetry == Permutations(Addr) \cup Permutations(Accs) \cup Permutations(Fds)
=============================================================================

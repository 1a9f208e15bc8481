--------------------------- MODULE MC_IsoServer ----------------------------
(* Two modules whose TSAPs, of two digits, are each other's swapped: the   *)
(* first is found under 01 and 10, the second under 10 and 01.  Peers ask  *)
(* for these and for others.                                               *)
EXTENDS IsoServer, TLC

CONSTANTS m1, m2

Ports == m1 :> <<1>> @@ m2 :> <<1, 0>>
Partners == m1 :> <<1, 0>> @@ m2 :> <<1>>

Asked == {<<0, 1>>, <<1, 0>>, <<1, 1>>}

Symmetry == Permutations(Accs)
=============================================================================

--------------------------- MODULE OrderedChannel ---------------------------
(***************************************************************************)
(* What sending to an accepted peer promises: telegrams 1, 2, 3, ... are   *)
(* handed over and go out in that order.  Any of them may be lost; none    *)
(* overtakes another, and none goes out twice.                             *)
(***************************************************************************)
EXTENDS Naturals, Sequences

VARIABLES handed,   \* telegrams handed over so far
          begun     \* the telegrams of which something has gone out, in order

Increasing(s) == \A i, j \in 1..Len(s) : i < j => s[i] < s[j]

ChannelInit == handed = 0 /\ begun = <<>>

\* One more telegram may be handed over, and some of the waiting ones go out.
ChannelNext ==
    /\ handed' \in {handed, handed + 1}
    /\ begun' \in Seq(1..handed')
    /\ Increasing(begun')
    /\ Len(begun) <= Len(begun')
    /\ \A i \in 1..Len(begun) : begun'[i] = begun[i]

ChannelSpec == ChannelInit /\ [][ChannelNext]_<<handed, begun>>
=============================================================================

-------------------------------- MODULE Queues --------------------------------
(***************************************************************************)
(* Taking elements out of a list by their value, as list.remove and        *)
(* deque.remove do in backend/alert/router.py and under the locks of       *)
(* asyncio.  It is SelectSeq, in a form that can be reasoned about: the    *)
(* n-th element that stays is that at the position with n positions kept   *)
(* up to it.                                                               *)
(***************************************************************************)
EXTENDS Integers, FiniteSets, Sequences

Kept(seq, gone) == {i \in 1..Len(seq) : seq[i] \notin gone}

Rank(seq, gone, i) == Cardinality({k \in Kept(seq, gone) : k <= i})

Without(seq, gone) ==
    [n \in 1..Cardinality(Kept(seq, gone)) |->
        seq[CHOOSE i \in Kept(seq, gone) : Rank(seq, gone, i) = n]]

=============================================================================

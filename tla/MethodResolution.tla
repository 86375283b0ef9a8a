-------------------------- MODULE MethodResolution --------------------------
(* mro_for_bases() (_internal/_decorators.py): the C3 linearization of the  *)
(* bases of a class, which the code uses where a type has no __mro__ and    *)
(* which the classes of Python have anyway.  bases gives the bases of each  *)
(* class in order.                                                          *)
EXTENDS Integers, Sequences

InTail(c, seq) == \E i \in 2..Len(seq) : seq[i] = c

RECURSIVE MergeSeqs(_)
MergeSeqs(seqs) ==
  LET nonEmpty == SelectSeq(seqs, LAMBDA s : s # <<>>)
      heads == {i \in DOMAIN nonEmpty : \A j \in DOMAIN nonEmpty : ~InTail(nonEmpty[i][1], nonEmpty[j])}
      first == CHOOSE i \in heads : \A j \in heads : i <= j
      candidate == nonEmpty[first][1]
  IN  IF nonEmpty = <<>> \/ heads = {} THEN <<>>
      ELSE <<candidate>> \o MergeSeqs([i \in DOMAIN nonEmpty |->
             IF nonEmpty[i][1] = candidate THEN Tail(nonEmpty[i]) ELSE nonEmpty[i]])

RECURSIVE Mro(_, _)
Mro(c, bases) ==
  <<c>> \o MergeSeqs(Append([i \in DOMAIN bases[c] |-> Mro(bases[c][i], bases)], bases[c]))
=============================================================================

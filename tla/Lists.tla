--------------------------------- MODULE Lists ---------------------------------
(***************************************************************************)
(* Lists as Python filters and sums them.  Kept is SelectSeq of Sequences, *)
(* written as a fold: what a fold keeps can be proved, and nothing can be  *)
(* proved of SelectSeq.                                                    *)
(***************************************************************************)
EXTENDS Naturals, Sequences, SequencesExt

(* The elements that pass the test, in their order. *)
Kept(Test(_), list) ==
  FoldLeft(LAMBDA kept, e : IF Test(e) THEN Append(kept, e) ELSE kept, <<>>, list)

SumOf(numbers) == FoldLeft(+, 0, numbers)

Joined(lists) == FoldLeft(\o, <<>>, lists)
=============================================================================

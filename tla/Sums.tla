-------------------------------- MODULE Sums --------------------------------
(***************************************************************************)
(* Folds over finite sets: the sum of the values f[x] for x in the set S,  *)
(* and a loop over the numbers of S from the least to the greatest.        *)
(***************************************************************************)
EXTENDS FiniteSetsExt, Folds

Sum(S, f) == MapThenSumSet(LAMBDA x : f[x], S)

InOrder(op(_, _), base, S) == MapThenFoldSet(op, base, LAMBDA n : n, LAMBDA T : Max(T), S)
=============================================================================

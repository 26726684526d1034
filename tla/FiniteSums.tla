----------------------------- MODULE FiniteSums -----------------------------
(***************************************************************************)
(* Sums of the values of a function, for the byte counts of the saver and  *)
(* of request bodies.                                                      *)
(***************************************************************************)
EXTENDS Integers, FiniteSetsExt

\* sum(...) over the elements of S.
SumOver(f, S) == MapThenSumSet(LAMBDA k : f[k], S)

Total(f) == SumOver(f, DOMAIN f)
=============================================================================

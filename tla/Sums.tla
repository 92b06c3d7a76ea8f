--------------------------------- MODULE Sums ---------------------------------
(***************************************************************************)
(* The sum of the values of a function over a set, which the properties    *)
(* about money are stated with.  SumTheorems proves its laws.              *)
(***************************************************************************)
EXTENDS FiniteSetsExt

SumOver(f, S) == MapThenSumSet(LAMBDA x : f[x], S)
=============================================================================

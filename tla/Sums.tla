-------------------------------- MODULE Sums --------------------------------
(***************************************************************************)
(* Sums of integers over the first n positions of a function.  The ledger  *)
(* code adds amounts up while it walks a map or a log; here each such walk  *)
(* is a sum over positions, written as a recursive function so that the    *)
(* theorems of DataTheorems can be proved about it.                         *)
(***************************************************************************)
EXTENDS Integers

\* f[1] + ... + f[n]; 0 when n = 0.
SumTo(f, n) ==
    LET s[i \in 0..n] == IF i = 0 THEN 0 ELSE s[i - 1] + f[i]
    IN  s[n]

\* The larger and the smaller of two integers.
Larger(x, y) == IF x >= y THEN x ELSE y
Smaller(x, y) == IF x <= y THEN x ELSE y
=============================================================================

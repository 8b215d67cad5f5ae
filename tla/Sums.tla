-------------------------------- MODULE Sums --------------------------------
(* Sums of numbers that the program keeps in a counter. *)
EXTENDS Integers

\* f[1] + ... + f[n].
SumUpTo(f, n) ==
    LET upto[i \in 0..n] == IF i = 0 THEN 0 ELSE upto[i - 1] + f[i]
    IN  upto[n]
=============================================================================

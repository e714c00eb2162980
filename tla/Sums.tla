-------------------------------- MODULE Sums --------------------------------
(* The sum f[1] + ... + f[n] of numbers *)
EXTENDS Integers

SumTo(f, n) ==
    LET sum[i \in 0..n] == IF i = 0 THEN 0 ELSE sum[i - 1] + f[i]
    IN  sum[n]
=============================================================================

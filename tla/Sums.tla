--------------------------------- MODULE Sums ---------------------------------
(* Sums of sequences of numbers, as recursive functions: what the walks over      *)
(* nested descriptors add up.                                                     *)
EXTENDS Integers, Sequences

\* The sums of the first numbers of a sequence, and that of all.
Sums(seq) ==
    LET sum[n \in 0 .. Len(seq)] == IF n = 0 THEN 0 ELSE sum[n - 1] + seq[n] IN sum
Sum(seq) == Sums(seq)[Len(seq)]
===============================================================================

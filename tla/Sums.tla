------------------------------- MODULE Sums -------------------------------
(***************************************************************************)
(* Sums of finite sequences of integers: the SUM(...) of the ledger and of *)
(* the quantity chain.  A recursive function, so that it can be both       *)
(* evaluated by TLC and reasoned about by TLAPS (see Sums_proofs).         *)
(***************************************************************************)
EXTENDS Integers

\* f[1] + ... + f[n]
SumUpTo(f, n) ==
    LET s[i \in 0..n] == IF i = 0 THEN 0 ELSE s[i - 1] + f[i]
    IN  s[n]

=============================================================================

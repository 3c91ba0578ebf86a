---------------------------- MODULE MCRepeatQueue ----------------------------
(* Small instances of RepeatQueue for TLC.                                  *)
EXTENDS RepeatQueue, TLC

CONSTANTS s0, s1, e1, e2

\* s0 gives up after the first failed retry, s1 after one more.
MCMaxAttempts == (s0 :> 0) @@ (s1 :> 1)
\* An even and a growing delay.
MCDelay == (s0 :> [a \in 0 .. 1 |-> 1]) @@ (s1 :> [a \in 0 .. 2 |-> IF a = 2 THEN 2 ELSE a])
MCClass == (e1 :> "class") @@ (e2 :> "class")

RowSymmetry == Permutations(Ids)
=============================================================================

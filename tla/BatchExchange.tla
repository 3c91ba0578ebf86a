---------------------------- MODULE BatchExchange ----------------------------
(***************************************************************************)
(* What internal/pkg/stream promises its two callers: batches go to the    *)
(* client one at a time, an answer is the answer to the batch that is      *)
(* out, and once a batch ended without its answer the stream answers       *)
(* nothing any more, so that question and answer never drift apart.        *)
(***************************************************************************)
EXTENDS Naturals

CONSTANTS
  Writers,   \* the goroutines that send batches over the stream
  Nobody     \* the writer of a stream that is free

VARIABLES
  asker,    \* the writer whose batch is out
  out,      \* number of that batch; kept after the batch has ended
  answer,   \* the batch the last accepted answer was about
  broken    \* a batch has ended without its answer

vars == <<asker, out, answer, broken>>

Init == asker = Nobody /\ out = 0 /\ answer = 0 /\ broken = FALSE

\* Batch numbers are never used twice, but numbers may be skipped.
Ask(w) ==
  /\ asker = Nobody
  /\ asker' = w
  /\ out' \in Nat /\ out' > out
  /\ answer' = 0
  /\ UNCHANGED broken

Answer ==
  /\ asker # Nobody
  /\ ~broken
  /\ answer' = out
  /\ asker' = Nobody
  /\ UNCHANGED <<out, broken>>

Lose ==
  /\ asker # Nobody
  /\ broken' = TRUE
  /\ asker' = Nobody
  /\ UNCHANGED <<out, answer>>

Next == (\E w \in Writers : Ask(w)) \/ Answer \/ Lose

Spec == Init /\ [][Next]_vars

=============================================================================

----------------------------- MODULE MCRetryStats -----------------------------
(* A small instance of RetryStats for TLC, with a class that has another one. *)
EXTENDS RetryStats

\* 1: 'order_5fe8a3b2c1'.  Its digit after '_' is replaced, but not its other characters, which are
\* no word of their own: 3: 'order_<N>fe8a3b2c1'.  They are one after the '>', so that the class of
\* that is 2: 'order_<N><HEX>'.
MCClass == <<3, 2, 2>>

=============================================================================

----------------------------- MODULE MCConnStore -----------------------------
(* The instances TLC checks.  With two streams and two ids the streams are those of
   two consumers, or of one that connected again before its first stream was noticed
   to be dead. *)
EXTENDS ConnStore, TLC

StreamSymmetry == Permutations(Streams)
=============================================================================

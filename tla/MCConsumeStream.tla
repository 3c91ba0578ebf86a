--------------------------- MODULE MCConsumeStream ---------------------------
(* The instance TLC checks; the values of the constants are in the .cfg files. *)
EXTENDS ConsumeStream
=============================================================================

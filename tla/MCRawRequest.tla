--------------------------- MODULE MCRawRequest ---------------------------
(* Instances of RawRequest for TLC. *)
EXTENDS RawRequest

NothingOrThree == {0, 3}
=============================================================================

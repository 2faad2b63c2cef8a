--------------------------- MODULE MCComponentPage ---------------------------
(* One letter: the names a and aa, one a prefix of the other. *)
EXTENDS ComponentPage

MCLetters == {"a"}
=============================================================================

---------------------------- MODULE MCISBReader ----------------------------
(* Model-checking instances of ISBReader.                                  *)
EXTENDS ISBReader
=============================================================================

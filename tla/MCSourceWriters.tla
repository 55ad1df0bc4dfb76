-------------------------- MODULE MCSourceWriters --------------------------
(* TLC instance of SourceWriters.                                           *)
EXTENDS SourceWriters
=============================================================================

---------------------------- MODULE MCTestRunner -----------------------------
(* TLC instances of TestRunner.                                             *)
EXTENDS TestRunner
=============================================================================

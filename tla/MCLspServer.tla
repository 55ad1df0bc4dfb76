----------------------------- MODULE MCLspServer -----------------------------
(* TLC instances of LspServer: a document that may import lib, and lib.     *)
EXTENDS LspServer
=============================================================================

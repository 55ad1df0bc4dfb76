------------------------ MODULE MCInstallTransaction ------------------------
(* TLC instance of InstallTransaction.  In the .cfg files file 1 is the     *)
(* launcher; the other files belong to the old version, the new one or both. *)
EXTENDS InstallTransaction
=============================================================================

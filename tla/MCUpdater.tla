------------------------------ MODULE MCUpdater ------------------------------
(* TLC instance of Updater with interchangeable installers.                 *)
EXTENDS Updater, TLC

Symmetry == Permutations(Installers)
=============================================================================

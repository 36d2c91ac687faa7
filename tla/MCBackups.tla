------------------------------- MODULE MCBackups -------------------------------
(* Backups for TLC: two retention runs, which are interchangeable, delete    *)
(* them while releases and restores come and go.                             *)
EXTENDS BackupRetention, TLC

Symmetry == Permutations(Runs)
=============================================================================

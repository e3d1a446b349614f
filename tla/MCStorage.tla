----------------------------- MODULE MCStorage ------------------------------
(* Instances of Storage for TLC: those of FileSync.                         *)
EXTENDS MCFileSync, Storage
=============================================================================

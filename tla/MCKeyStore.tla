----------------------------- MODULE MCKeyStore -----------------------------
(* Three commands at a time, each of which may create the key.              *)
EXTENDS KeyStore, TLC

(* No definition tells one command from another.                            *)
SameProcs == Permutations(Procs)
=============================================================================

---------------------------- MODULE MCController ----------------------------
(* The workers of a job are interchangeable. *)
EXTENDS SftpController, TLC

Symmetry == Permutations(Workers)
=============================================================================

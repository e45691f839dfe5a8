----------------------------- MODULE MCDatabase -----------------------------
(* Database for TLC: two users, and ids that they may take from each other. *)
EXTENDS Database, TLC

UserSymmetry == Permutations(Users)
=============================================================================

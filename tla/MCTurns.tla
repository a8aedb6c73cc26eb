------------------------------ MODULE MCTurns ------------------------------
(* Small instances of Turns: one key shared by every send, or one per send. *)
EXTENDS Turns, TLC

CONSTANTS s1, s2, s3, r1, r2, k1, k2, k3

SameKey == [s \in Send |-> k1]
=============================================================================

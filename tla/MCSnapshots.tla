---------------------------- MODULE MCSnapshots ----------------------------
(* Small instances of Snapshots: the registry and two user files. *)
EXTENDS Snapshots, TLC

CONSTANTS acct, u1, u2, worker, flush

PathOrder == (acct :> 0) @@ (u1 :> 1) @@ (u2 :> 2)
=============================================================================

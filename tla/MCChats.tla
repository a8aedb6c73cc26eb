------------------------------ MODULE MCChats ------------------------------
(* Small instances of Chats: every send has a key of its own. *)
EXTENDS Chats, TLC

CONSTANTS s1, s2, b1, b2, k1, k2

OwnKeys == (s1 :> k1) @@ (s2 :> k2)
=============================================================================

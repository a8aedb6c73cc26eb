------------------------------- MODULE MCDoor -------------------------------
(* Small instances of Door. *)
EXTENDS Door

Local == [private |-> FALSE, public |-> FALSE, pinned |-> FALSE, allowed |-> {}, workers |-> 1,
          redis |-> "none", cross |-> FALSE, secure |-> FALSE, blocked |-> FALSE]
Hosted == [Local EXCEPT !.private = TRUE, !.public = TRUE, !.secure = TRUE]
Split == [Hosted EXCEPT !.cross = TRUE]
\* Third-party cookies are blocked, in private mode and in a public demo.
NoCookies == [Split EXCEPT !.blocked = TRUE]
Demo == [NoCookies EXCEPT !.private = FALSE, !.allowed = {"open"}]
\* One that does not start: two workers that would count on their own.
Uncounted == [Hosted EXCEPT !.workers = 2]
TheDeployments == {Hosted, Split, NoCookies, Demo, Uncounted}
=============================================================================

------------------------------ MODULE MCAccess ------------------------------
(***************************************************************************)
(* Accounts, the pages of a browser, approvals, rate limits, lessons, and  *)
(* the provider cascade, on small instances that share nothing.            *)
(***************************************************************************)
EXTENDS Accounts, Approvals, RateLimit, Lessons, Cascade, MCDoor, TLC

CONSTANTS u1, u2, q1, r1, r2, r3, r4, a, b, m1, t1, t2, c1, c2, op, tab1, tab2, a1, a2, ann

\* Cascade: two tiers that every failure cools for one tick.
Tiers == <<t1, t2>>
Windows == [kind \in Failure |-> {1}]
\* RateLimit: r3 is served by another process.
Servers == (r1 :> 1) @@ (r2 :> 1) @@ (r3 :> 2) @@ (r4 :> 1)

\* Nothing is asked of a table that a save has spoiled, or of lessons saved from
\* a stale copy; neither ever recovers, so such behaviours are not followed.
StillAsked == ~spoiled /\ ~stale

VARIABLE part   \* the component that runs in this behaviour
Parts == {"accounts", "approvals", "rate", "lessons", "cascade", "door"}
everything == <<part, vars, approvalVars, rateVars, lessonsVars, cascadeVars, doorVars>>

\* A component that does not run rests in one of its initial states.
AnyInit ==
  /\ part \in Parts
  /\ Init
  /\ ApprovalsInit
  /\ RateInit
  /\ part # "rate" => shared
  /\ LessonsInit
  /\ CascadeInit
  /\ DoorInit
  /\ part # "door" => deployment = Hosted
Runs(p) == part = p /\ part' = p
AnyNext ==
  \/ Runs("accounts") /\ Next /\ UNCHANGED <<doorVars, approvalVars, rateVars, lessonsVars, cascadeVars>>
  \/ Runs("approvals") /\ ApprovalsNext /\ UNCHANGED <<doorVars, vars, rateVars, lessonsVars, cascadeVars>>
  \/ Runs("rate") /\ RateNext /\ UNCHANGED <<doorVars, vars, approvalVars, lessonsVars, cascadeVars>>
  \/ Runs("lessons") /\ LessonsNext /\ UNCHANGED <<doorVars, vars, approvalVars, rateVars, cascadeVars>>
  \/ Runs("cascade") /\ CascadeNext /\ UNCHANGED <<doorVars, vars, approvalVars, rateVars, lessonsVars>>
  \/ Runs("door") /\ DoorNext /\ UNCHANGED <<vars, approvalVars, rateVars, lessonsVars, cascadeVars>>
AnySpec == AnyInit /\ [][AnyNext]_everything
=============================================================================

------------------------------ MODULE OneShot ------------------------------
(***************************************************************************)
(* What the approvals of irreversible tool actions promise: an action is   *)
(* staged, then granted or voided, and a granted one runs once or, when    *)
(* the server dies in between, not at all.  Nothing is staged twice.       *)
(***************************************************************************)
CONSTANT Id

VARIABLE phase

Voided(S) == [i \in Id |-> IF i \in S THEN "void" ELSE phase[i]]

Staged == {i \in Id : phase[i] = "staged"}
Granted == {i \in Id : phase[i] = "granted"}

Init == phase = [i \in Id |-> "new"]

\* A new action is staged; older ones may expire or make room for it.
Stage(i) ==
  /\ phase[i] = "new"
  /\ \E S \in SUBSET Staged : phase' = [Voided(S) EXCEPT ![i] = "staged"]

Void == \E S \in SUBSET Staged : phase' = Voided(S)

Grant(i) == phase[i] = "staged" /\ phase' = [phase EXCEPT ![i] = "granted"]

Run(i) == phase[i] = "granted" /\ phase' = [phase EXCEPT ![i] = "done"]

\* A restart forgets what was granted and had not run.
Forget == phase' = Voided(Granted)

Next == Void \/ Forget \/ \E i \in Id : Stage(i) \/ Grant(i) \/ Run(i)

Spec == Init /\ [][Next]_phase
=============================================================================

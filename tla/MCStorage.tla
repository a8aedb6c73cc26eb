----------------------------- MODULE MCStorage ------------------------------
(***************************************************************************)
(* The vault, uploads and outputs, the knowledge base, and briefs with     *)
(* their documents, on small instances that share nothing.                 *)
(***************************************************************************)
EXTENDS Vault, Files, MCKnowledge, Desk

CONSTANTS w1, w2, w3, u1, u2, o1

Homes == (w1 :> 1) @@ (w2 :> 1) @@ (w3 :> 2)
FileSizes == (u1 :> 1) @@ (u2 :> 3) @@ (o1 :> 1)

VARIABLE part   \* the component that runs in this behaviour
Parts == {"vault", "files", "knowledge", "desk"}
everything == <<part, vaultVars, filesVars, kbVars, deskVars>>

\* A component that does not run rests in one of its initial states.
AnyInit ==
  /\ part \in Parts
  /\ VaultInit
  /\ FilesInit
  /\ KnowledgeInit
  /\ DeskInit
Runs(p) == part = p /\ part' = p
AnyNext ==
  \/ Runs("vault") /\ VaultNext /\ UNCHANGED <<deskVars, filesVars, kbVars>>
  \/ Runs("files") /\ FilesNext /\ UNCHANGED <<deskVars, vaultVars, kbVars>>
  \/ Runs("knowledge") /\ KnowledgeNext /\ UNCHANGED <<deskVars, vaultVars, filesVars>>
  \/ Runs("desk") /\ DeskNext /\ UNCHANGED <<vaultVars, filesVars, kbVars>>

\* The fairness of each component, when it is the one that runs.
AnyFairness ==
  /\ \A w \in Writers : WF_vaultVars(part = "vault" /\ WriterStep(w))
  /\ WF_filesVars(part = "files" /\ SweepStep)
  /\ WF_filesVars(part = "files" /\ PutAside)
  /\ \A f \in Stored : WF_filesVars(part = "files" /\ Age(f))
  /\ \A d \in Docs : WF_kbVars(part = "knowledge" /\ KbStep(d))
  /\ \A d \in Uploaded : WF_kbVars(part = "knowledge" /\ (Reread(d) \/ IngestElsewhere(d)))
  /\ WF_kbVars(part = "knowledge" /\ Drain)
  /\ WF_kbVars(part = "knowledge" /\ SearchStep)
  /\ \A who \in Docs \cup {Search} : WF_kbVars(part = "knowledge" /\ BuildStep(who))
AnySpec == AnyInit /\ [][AnyNext]_everything /\ AnyFairness
=============================================================================

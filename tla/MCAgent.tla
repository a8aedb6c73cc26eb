------------------------------ MODULE MCAgent -------------------------------
(***************************************************************************)
(* One request in the agent, the calls and events of one streamed turn,    *)
(* and the jobs of the code runner, on small instances that share          *)
(* nothing.                                                                *)
(***************************************************************************)
EXTENDS MCAgentTurn, Stream, Workspace

CONSTANTS x, w1, idle, src, j1, j2, script, mainC, otherC, top

\* Workspace: a script, and two C programs in different directories.
TheFolders == (script :> top) @@ (mainC :> src) @@ (otherC :> top)
TheStems == (script :> script) @@ (mainC :> mainC) @@ (otherC :> otherC)

VARIABLE part   \* the component that runs in this behaviour
Parts == {"agent", "stream", "workspace"}
everything == <<part, vars, streamVars, workspaceVars>>

\* A component that does not run rests in one of its initial states.
AnyInit ==
  /\ part \in Parts
  /\ Init
  /\ part # "agent" => ~deep /\ ~force
  /\ StreamInit
  /\ WorkspaceInit
Runs(p) == part = p /\ part' = p
AnyNext ==
  \/ Runs("agent") /\ Next /\ UNCHANGED <<streamVars, workspaceVars>>
  \/ Runs("stream") /\ StreamNext /\ UNCHANGED <<vars, workspaceVars>>
  \/ Runs("workspace") /\ WorkspaceNext /\ UNCHANGED <<vars, streamVars>>

\* The fairness of a request, when it is what runs.
AnySpec == AnyInit /\ [][AnyNext]_everything /\ WF_vars(part = "agent" /\ Step)
=============================================================================

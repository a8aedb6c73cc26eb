----------------------------- MODULE MCHistory ------------------------------
(***************************************************************************)
(* The history endpoints beside sends, a tab of the web client, and        *)
(* lessons from slides, on small instances that share nothing.             *)
(***************************************************************************)
EXTENDS MCChats, Teaching, Client

CONSTANTS algebra, graphs, scan, talkA, talkB

\* Teaching: slide 1 of the second lecture is a picture; the third file cannot be read.
TheCourse == <<algebra, scan, graphs>>
TheUploads == <<graphs, algebra, scan>>
TheSlides == (algebra :> {1, 2}) @@ (graphs :> {2, 3}) @@ (scan :> {})
ThePages == [f \in {algebra, graphs, scan} |-> 0]
TheShapes == (algebra :> "text") @@ (graphs :> "text") @@ (scan :> "unreadable")
TheStems == [f \in {algebra, graphs, scan} |-> f]
OldLesson == [at |-> Unpointed, active |-> Nowhere, header |-> [file |-> algebra, end |-> 1], asks |-> TRUE]
ThePasts == {<<>>, <<OldLesson>>}
TheStrays == {[file |-> algebra, end |-> 2], [file |-> graphs, end |-> 3]}

\* Client: the clicks and the losses of a behaviour are bounded together.
FewClicksAndLosses == clicks + losses <= MaxClicks

VARIABLE part   \* the component that runs in this behaviour
Parts == {"chats", "teaching", "client"}
everything == <<part, allVars, teachingVars, clientVars>>

\* A component that does not run rests in one of its initial states.
AnyInit ==
  /\ part \in Parts
  /\ InitChats
  /\ TeachingInit
  /\ part # "teaching" => history = <<>>
  /\ ClientInit
Runs(p) == part = p /\ part' = p
AnyNext ==
  \/ Runs("chats") /\ NextChats /\ UNCHANGED <<teachingVars, clientVars>>
  \/ Runs("teaching") /\ TeachingNext /\ UNCHANGED <<allVars, clientVars>>
  \/ Runs("client") /\ ClientNext /\ UNCHANGED <<allVars, teachingVars>>
AnySpec == AnyInit /\ [][AnyNext]_everything
=============================================================================

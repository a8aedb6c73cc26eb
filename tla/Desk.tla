-------------------------------- MODULE Desk --------------------------------
(***************************************************************************)
(* Research briefs, projects and generated files (services/research.py,    *)
(* services/storage/store.py, backend/routers/briefs.py, artifacts.py and  *)
(* projects.py).                                                           *)
(*                                                                         *)
(* A brief is saved by the index of an answer in the conversation that is  *)
(* open when the request is served.  A file is made by a tool, and the     *)
(* request that asked for it answers with the newest output that it had    *)
(* not listed before.                                                      *)
(***************************************************************************)
EXTENDS Integers, Sequences, FiniteSets, FiniteSetsExt

CONSTANTS
  Folders,      \* project ids
  Clerks,       \* requests that make files
  NoClerk,       \* a maker that is none of them: a chat turn
  Personal,     \* no project
  KeptMessages, \* messages the open conversation keeps
  MaxSubjects,  \* bound on turns
  MaxBriefs,    \* bound on saved briefs
  MaxOutputs    \* bound on generated files

ASSUME DeskBounds ==
  /\ {KeptMessages, MaxSubjects, MaxBriefs, MaxOutputs} \subseteq Nat
  /\ NoClerk \notin Clerks /\ Personal \notin Folders

VARIABLES
  messages,   \* the open conversation: [role, subject: the turn, sources]
  subjects,   \* turns so far
  folders,    \* projects.json: "none", "active" or "archived"
  briefs,     \* briefs.json, oldest first: [query, answer: turns, folder]
  filing,     \* a save between its checks and the write: [query, answer, folder], or empty
  outputs,    \* registered outputs: [id, by]
  made,       \* outputs so far; ids grow with the time of creation
  clerk       \* what each request does: [at, before: what it listed, said: what it answers,
              \* and as ghosts alone: nobody else made a file meanwhile, blind: no first list]

deskVars == <<messages, subjects, folders, briefs, filing, outputs, made, clerk>>

Idle == [at |-> "idle", before |-> {}, said |-> 0, alone |-> TRUE, blind |-> FALSE]
DeskMessage(role, subject, sources) == [role |-> role, subject |-> subject, sources |-> sources]

DeskInit ==
  /\ messages = <<>> /\ subjects = 0 /\ folders = [p \in Folders |-> "none"]
  /\ briefs = <<>> /\ filing = {} /\ outputs = {} /\ made = 0
  /\ clerk = [c \in Clerks |-> Idle]

deskFiles == <<outputs, made, clerk>>
deskPapers == <<messages, subjects, folders, briefs, filing>>

\* ---- the conversation and the projects ---------------------------------
\* A turn adds a question and an answer, with sources if it searched; the oldest messages go.
Converse(searched) ==
  /\ subjects < MaxSubjects /\ subjects' = subjects + 1
  /\ LET all == messages \o <<DeskMessage("user", subjects + 1, FALSE), DeskMessage("assistant", subjects + 1, searched)>>
     IN  messages' = IF Len(all) > KeptMessages THEN SubSeq(all, Len(all) - KeptMessages + 1, Len(all)) ELSE all
  /\ UNCHANGED <<folders, briefs, filing, deskFiles>>
\* Another conversation is opened, or a new one.
OpenOther == messages # <<>> /\ messages' = <<>> /\ UNCHANGED <<subjects, folders, briefs, filing, deskFiles>>
CreateFolder(p) ==
  /\ folders[p] = "none" /\ folders' = [folders EXCEPT ![p] = "active"]
  /\ UNCHANGED <<messages, subjects, briefs, filing, deskFiles>>
ArchiveFolder(p) ==
  /\ folders[p] # "none" /\ folders' = [folders EXCEPT ![p] = "archived"]
  /\ UNCHANGED <<messages, subjects, briefs, filing, deskFiles>>

\* ---- briefs ------------------------------------------------------------
\* is_brief_eligible
Eligible(i) == i \in DOMAIN messages /\ messages[i].role = "assistant" /\ messages[i].sources
QueryOf(i) == LET asked == {k \in 1..i - 1 : messages[k].role = "user"}
              IN  IF asked = {} THEN 0 ELSE messages[Max(asked)].subject
\* create_brief_from_message: an archived project files under Personal, an unknown one not at all.
CheckBrief(i, p) ==
  /\ Eligible(i) /\ QueryOf(i) # 0 /\ filing = {} /\ Len(briefs) < MaxBriefs
  /\ p # Personal => folders[p] # "none"
  /\ filing' = {[query |-> QueryOf(i), answer |-> messages[i].subject,
                 folder |-> IF p = Personal THEN Personal ELSE IF folders[p] = "active" THEN p ELSE Personal]}
  /\ UNCHANGED <<messages, subjects, folders, briefs, deskFiles>>
\* store.create_brief looks only for the project's existence, then adds under the lock.
FileBrief ==
  /\ \E f \in filing : briefs' = Append(briefs, f)
  /\ filing' = {} /\ UNCHANGED <<messages, subjects, folders, deskFiles>>
DeleteBrief(k) ==
  /\ k \in DOMAIN briefs
  /\ briefs' = [n \in 1..Len(briefs) - 1 |-> IF n < k THEN briefs[n] ELSE briefs[n + 1]]
  /\ UNCHANGED <<messages, subjects, folders, filing, deskFiles>>

\* ---- generated files ---------------------------------------------------
Listed == {o.id : o \in outputs}
Become(c, state) == clerk' = [clerk EXCEPT ![c] = state]
\* generate_docx_from_brief lists the outputs first and refuses if it cannot;
\* regenerate_artifact then takes it that there were none.
ListBefore(c) ==
  /\ clerk[c].at = "idle"
  /\ (briefs # <<>> \/ outputs # {})
  /\ \/ Become(c, [Idle EXCEPT !.at = "make", !.before = Listed,
                               !.alone = \A d \in Clerks : clerk[d].at \notin {"make", "list"}])
     \/ outputs # {} /\ Become(c, [Idle EXCEPT !.at = "make", !.blind = TRUE])
  /\ UNCHANGED <<outputs, made, deskPapers>>
\* Whoever else is between its two lists is no longer alone.
Crowd(c) == [d \in Clerks |-> IF d # c /\ clerk[d].at \in {"make", "list"} THEN [clerk[d] EXCEPT !.alone = FALSE] ELSE clerk[d]]
\* The tool writes and registers the file, or reports a STATUS and nothing is left.
Make(c) ==
  /\ clerk[c].at = "make"
  /\ \/ /\ made < MaxOutputs /\ made' = made + 1
        /\ outputs' = outputs \cup {[id |-> made + 1, by |-> c]}
        /\ clerk' = [Crowd(c) EXCEPT ![c].at = "list"]
     \/ Become(c, Idle) /\ UNCHANGED <<outputs, made>>
  /\ UNCHANGED deskPapers
\* _new_outputs_since: an unreadable registry counts as nothing new.
FaultyFreshOutputs(c) == Listed
FreshOutputs(c) == Listed \ clerk[c].before
AnswerFile(c) ==
  /\ clerk[c].at = "list"
  /\ \/ FreshOutputs(c) # {} /\ Become(c, [clerk[c] EXCEPT !.at = "said", !.said = Max(FreshOutputs(c))])
     \/ Become(c, Idle)
  /\ UNCHANGED <<outputs, made, deskPapers>>
\* A file made by a chat turn; and the deletion of one, or of all, by the user.
TurnMakes ==
  /\ made < MaxOutputs /\ made' = made + 1
  /\ outputs' = outputs \cup {[id |-> made + 1, by |-> NoClerk]}
  /\ clerk' = Crowd(NoClerk) /\ UNCHANGED deskPapers
DeleteOutput(o) == o \in outputs /\ outputs' = outputs \ {o} /\ UNCHANGED <<made, clerk, deskPapers>>
DeleteOutputs == outputs # {} /\ outputs' = {} /\ UNCHANGED <<made, clerk, deskPapers>>
ClerkDone(c) == clerk[c].at = "said" /\ Become(c, Idle) /\ UNCHANGED <<outputs, made, deskPapers>>

DeskNext ==
  \/ \E b \in BOOLEAN : Converse(b)
  \/ OpenOther \/ FileBrief \/ TurnMakes \/ DeleteOutputs
  \/ \E p \in Folders : CreateFolder(p) \/ ArchiveFolder(p)
  \/ \E i \in DOMAIN messages, p \in Folders \cup {Personal} : CheckBrief(i, p)
  \/ \E k \in DOMAIN briefs : DeleteBrief(k)
  \/ \E c \in Clerks : ListBefore(c) \/ Make(c) \/ AnswerFile(c) \/ ClerkDone(c)
  \/ \E o \in outputs : DeleteOutput(o)
DeskSpec == DeskInit /\ [][DeskNext]_deskVars

\* ---- properties --------------------------------------------------------
\* A request that asked for a file answers with the file it made, unless another file was
\* made between its two lists or it could not read the first one.
AnswersWithItsOwnUnlessBeside ==
  \A c \in Clerks : clerk[c].at = "said" /\ clerk[c].alone /\ ~clerk[c].blind =>
    \A o \in outputs : o.id = clerk[c].said => o.by = c
=============================================================================

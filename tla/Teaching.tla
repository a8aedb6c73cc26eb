------------------------------ MODULE Teaching ------------------------------
(***************************************************************************)
(* A lecture in a chat (backend/flow/teaching.py, backend/teach.py and     *)
(* the pointer of backend/flow/turns.py).  Nothing is kept of a lesson     *)
(* but the messages of the chat: each turn reads from them which file is   *)
(* being taught and up to which slide, serves the next slide, and stamps   *)
(* its answer with where the lesson is.                                    *)
(*                                                                         *)
(* A place is [file, end].  An assistant's message is [at: the pointer,    *)
(* NoLesson, or Unpointed in chats from before pointers; active: the       *)
(* place its flag names; header: the place its FILE header names; asks:    *)
(* whether it ends with a question].  What the user says is [kind, file:   *)
(* the file it names, again: "... again", image: a new image].             *)
(***************************************************************************)
EXTENDS Integers, Sequences, FiniteSets, SequencesExt, FiniteSetsExt

CONSTANTS
  Course,      \* the files of the chat, sorted by name
  Uploads,     \* the same files, the newest first
  NoFile,
  Stem,        \* a file's name without its extension
  Slides,      \* the slides of a file that have text
  Pages,       \* for a PDF the number of its pages, for slides 0
  Shape,       \* "text", "unreadable", or "overflow": too large to read inline
  Pasts,       \* what was said before pointers were kept
  Strays,      \* the places an answer may name that are not the window's
  Recent,      \* rounds in the last ten messages
  MaxTurns,    \* bound on turns
  MaxStrays,   \* bound on answers that name another place, refuse, or quote a header
  MaxAsides    \* bound on turns answered without a model, and on deleted files

ASSUME TeachingBounds == /\ Recent \in Nat \ {0} /\ {MaxTurns, MaxStrays, MaxAsides} \subseteq Nat
                         /\ DOMAIN Course \subseteq Nat /\ DOMAIN Uploads \subseteq Nat
                         /\ ToSet(Uploads) = ToSet(Course)
                         /\ NoFile \notin ToSet(Course)
                         /\ \A f \in ToSet(Course) : Slides[f] \subseteq Nat \ {0}

Places == [file : ToSet(Course), end : Nat]
Nowhere == [file |-> NoFile, end |-> 0]
NoLesson == Nowhere
Unpointed == [file |-> NoFile, end |-> -1]
LectureMessage == [at : Places \cup {NoLesson, Unpointed}, active : Places \cup {Nowhere},
            header : Places \cup {Nowhere}, asks : BOOLEAN]

\* Before pointers a flag, where there is one, names the place of the header.
ASSUME PastsAssumption ==
  \A past \in Pasts :
    /\ past \in Seq(LectureMessage)
    /\ \A i \in DOMAIN past : past[i].at = Unpointed /\ past[i].active \in {Nowhere, past[i].header}
ASSUME StraysAssumption == Strays \subseteq Places

VARIABLES
  history,   \* the assistant's messages
  available, \* files whose bytes are still there
  strays, asides,
  taught,    \* ghost: the slides put in front of the model for a lesson
  drifted    \* ghost: some answer named a place it did not serve

teachingVars == <<history, available, strays, asides, taught, drifted>>

Said == [kind : {"teach", "next", "reply", "dontknow", "pace", "task"}, file : ToSet(Course) \cup {NoFile},
         again : BOOLEAN, image : BOOLEAN]
\* Only a request names a file or asks for it again; images come with whatever is said.
Utterances == {u \in Said : /\ u.file # NoFile => u.kind = "teach"
                            /\ u.again => u.file # NoFile
                            /\ u.image => u.kind \in {"next", "reply"}}

\* ---- what the messages say of the lesson -------------------------------
Recently == {i \in DOMAIN history : i > Len(history) - Recent}
\* _pointer_in_recent: the last message alone.
LessonPointer == IF history = <<>> THEN Unpointed ELSE Last(history).at
LiveLesson(p) == p.file # NoFile
\* _teaching_flag_in_recent, _has_teaching_header_in_recent.
Flagged == {i \in Recently : history[i].active # Nowhere}
Flag == IF Flagged = {} THEN Nowhere ELSE history[Max(Flagged)].active
HeaderNear == \E i \in Recently : history[i].header # Nowhere
\* _last_teaching_state: a recent flag, or the last header of all.
Headed == {i \in DOMAIN history : history[i].header # Nowhere}
LastState == IF Flagged # {} THEN Flag ELSE IF Headed = {} THEN Nowhere ELSE history[Max(Headed)].header
\* The pointer decides; only before pointers do the last ten messages.
InSession == IF LessonPointer = Unpointed THEN Flag # Nowhere \/ HeaderNear ELSE LiveLesson(LessonPointer)
\* _last_teaching_ends_with_recall.
Asked == history # <<>> /\ Last(history).header # Nowhere /\ Last(history).asks

\* ---- does this message belong to the lesson? ---------------------------
RecallAnswer(u) == u.kind \in {"reply", "dontknow", "pace"} /\ ~u.image /\ Asked
Continues(u) == InSession /\ (u.kind = "next" \/ RecallAnswer(u))
PaceFeedback(u) == u.kind = "pace" /\ ~u.image /\ HeaderNear
InLesson(u) == u.kind = "teach" \/ Continues(u) \/ PaceFeedback(u)
Holds(u) == u.kind = "dontknow" /\ RecallAnswer(u)

\* ---- _apply_teaching_session -------------------------------------------
Foremost(order, files) == order[Min({i \in DOMAIN order : order[i] \in files})]
\* Files of the stem of the one last taught.
Alike(files) == {f \in files : LastState.file # NoFile /\ Stem[f] = Stem[LastState.file]}
\* The files of the last ten messages; once the upload is older, only the newest file
\* named like that of the running lesson.
Candidates ==
  LET last == LastState.file
      near == IF Len(history) <= Recent THEN available ELSE {}
      alike == Alike(available)
  IN  IF near # {} \/ ~InSession \/ last = NoFile THEN near
      ELSE IF alike = {} THEN {} ELSE {Foremost(Uploads, alike)}

\* A named file, else the one last taught, else one of its stem, else the first ...
Picked(u, cs) ==
  LET last == LastState.file
      alike == Alike(cs)
  IN  IF u.file \in cs THEN u.file
      ELSE IF last \in cs THEN last
      ELSE IF alike # {} THEN Foremost(Course, alike) ELSE Foremost(Course, cs)
\* ... but a live pointer's file comes before them all.
Active(u, cs) == IF LiveLesson(LessonPointer) /\ LessonPointer.file \in cs THEN LessonPointer.file ELSE Picked(u, cs)

\* A plausible bug: the cursor of whatever was taught last, of any file.
FaultyCursor(u, cs) == IF LiveLesson(LessonPointer) THEN LessonPointer.end ELSE LastState.end
Cursor(u, cs) ==
  LET last == LastState
      from == IF LiveLesson(LessonPointer) THEN LessonPointer.end ELSE last.end
      again == IF u.file \in cs /\ u.again THEN 0 ELSE from
      here == IF last.file # NoFile /\ Stem[last.file] # Stem[Active(u, cs)] THEN 0 ELSE again
  IN  IF Holds(u) /\ here > 0 THEN here - 1 ELSE here

\* _extract_teaching_blocks: the slides with text are counted, a PDF's pages are.
Total(f) == IF Shape[f] # "text" THEN 0
            ELSE IF Pages[f] > Cardinality(Slides[f]) THEN Pages[f] ELSE Cardinality(Slides[f])
Exhausted(f, cursor) == Total(f) > 0 /\ cursor >= Total(f)
\* _select_teaching_window: one slide, the first after the cursor.
Window(f, cursor) == IF Shape[f] = "text" THEN {s \in Slides[f] : s > cursor} ELSE {}
Place(f, cursor) == [file |-> f, end |-> Min(Window(f, cursor))]

\* An exhausted file makes way for the next; an unreadable one too, when nothing was
\* taught and none was named.
After(f, cs) == {g \in cs : \E i, j \in DOMAIN Course : i < j /\ Course[i] = f /\ Course[j] = g}
Serve(u, cs, f, cursor) ==
  LET readable == {g \in After(f, cs) : Window(g, 0) # {}}
  IN  IF Window(f, cursor) # {} THEN [does |-> "teach", place |-> Place(f, cursor)]
      ELSE IF Shape[f] = "overflow" THEN [does |-> "overflow", place |-> Nowhere]
      ELSE IF cursor = 0 /\ u.file \notin cs /\ readable # {}
           THEN [does |-> "teach", place |-> Place(Foremost(Course, readable), 0)]
      ELSE [does |-> "stop", place |-> Nowhere]

Stage(u) ==
  LET cs == Candidates
      f == Active(u, cs)
      cursor == Cursor(u, cs)
  IN  IF cs = {}
      THEN [does |-> IF u.kind = "teach" /\ ~InSession THEN "free" ELSE "stop", place |-> Nowhere]
      ELSE IF Exhausted(f, cursor) /\ After(f, cs) # {} THEN Serve(u, cs, Foremost(Course, After(f, cs)), 0)
      ELSE IF Exhausted(f, cursor) /\ u.file \notin cs THEN [does |-> "exam", place |-> Nowhere]
      ELSE Serve(u, cs, f, cursor)

\* ---- the answer and its stamp ------------------------------------------
\* _teaching_meta_for_turn, _awaiting_for_turn: a lesson's answer points where its
\* header does; any other model's answer ends the thread.
Stamped(header, lesson, asks) ==
  LET active == IF lesson THEN header ELSE Nowhere
  IN  [at |-> IF active = Nowhere THEN NoLesson ELSE active, active |-> active, header |-> header, asks |-> asks]
\* _prior_awaiting: an answer without a model carries the pointer of the one before.
Carried == IF LessonPointer # Unpointed THEN LessonPointer
           ELSE IF history = <<>> \/ LastState = Nowhere THEN NoLesson ELSE LastState
Aside == [at |-> Carried, active |-> Nowhere, header |-> Nowhere, asks |-> FALSE]

Answer(m) == Len(history) < MaxTurns /\ history' = Append(history, m)
Stray == strays < MaxStrays /\ strays' = strays + 1

TeachingInit ==
  /\ history \in Pasts /\ available = ToSet(Course)
  /\ strays = 0 /\ asides = 0
  /\ drifted = \E i, j \in DOMAIN history : i < j /\ history[i].active # Nowhere /\ history[j].active # history[j].header
  /\ taught = UNION {{<<history[i].header.file, s>> : s \in 1..history[i].header.end} : i \in DOMAIN history}

\* The header is the window's: the model's own, one put before an answer without, or
\* a repaired one (_maybe_repair_teaching_turn).  Slides of administration ask nothing.
Teach(st) ==
  /\ st.does = "teach"
  /\ \E asks \in BOOLEAN : Answer(Stamped(st.place, TRUE, asks))
  /\ taught' = taught \cup {<<st.place.file, st.place.end>>}
  /\ UNCHANGED <<available, strays, asides, drifted>>
\* A header outside the window that no repair could mend is kept, and so is whatever
\* an answer about a file too large to read, or an exam, says it is.
Mislabel(st) ==
  /\ st.does \in {"teach", "overflow", "exam"} /\ Stray
  /\ \E p \in Strays : Answer(Stamped(p, TRUE, FALSE))
  /\ taught' = IF st.does = "teach" THEN taught \cup {<<st.place.file, st.place.end>>} ELSE taught
  /\ drifted' = TRUE
  /\ UNCHANGED <<available, asides>>
\* A refusal gets no header, and the lesson loses its pointer.
RefuseLesson(st) ==
  /\ st.does \in {"teach", "overflow"} /\ Stray
  /\ Answer(Stamped(Nowhere, TRUE, FALSE))
  /\ UNCHANGED <<available, asides, taught, drifted>>
Examine(st) ==
  /\ st.does = "exam"
  /\ Answer(Stamped(Nowhere, TRUE, TRUE))
  /\ UNCHANGED <<available, strays, asides, taught, drifted>>
\* No verified window: a message without a model, and the pointer stays.
Stop(st) ==
  /\ st.does = "stop"
  /\ Answer(Aside)
  /\ UNCHANGED <<available, strays, asides, taught, drifted>>
\* Everything else the model answers; it may quote a header.
ConverseOnly(st) ==
  /\ st.does = "free"
  /\ \/ Answer(Stamped(Nowhere, FALSE, FALSE)) /\ UNCHANGED <<strays, drifted>>
     \/ Stray /\ drifted' = TRUE /\ \E p \in Strays : Answer(Stamped(p, FALSE, FALSE))
  /\ UNCHANGED <<available, asides, taught>>
\* What becomes of the messages the user may send now.
Stages == {IF InLesson(u) THEN Stage(u) ELSE [does |-> "free", place |-> Nowhere] : u \in Utterances}
Turn(st) == Teach(st) \/ Mislabel(st) \/ RefuseLesson(st) \/ Examine(st) \/ Stop(st) \/ ConverseOnly(st)
\* A greeting, a clarifying question, a turn whose tiers all failed.
AsideTurn ==
  /\ asides < MaxAsides /\ asides' = asides + 1
  /\ Answer(Aside)
  /\ UNCHANGED <<available, strays, taught, drifted>>
\* The user, or the sweep, deletes an upload.
LoseFile(f) ==
  /\ f \in available /\ asides < MaxAsides /\ asides' = asides + 1
  /\ available' = available \ {f}
  /\ UNCHANGED <<history, strays, taught, drifted>>

TeachingNext == (\E st \in Stages : Turn(st)) \/ AsideTurn \/ \E f \in ToSet(Course) : LoseFile(f)
TeachingSpec == TeachingInit /\ [][TeachingNext]_teachingVars

\* ---- properties --------------------------------------------------------
\* A slide of a stem: a lesson was given on it, or on a later slide of a file of that
\* stem that has no such slide (the files of a stem share a cursor).
Covered(stem, s) ==
  \E f \in ToSet(Course) : /\ Stem[f] = stem
                          /\ \/ <<f, s>> \in taught
                             \/ s \notin Slides[f] /\ \E t \in Slides[f] : t > s /\ <<f, t>> \in taught
\* Whatever was asked, failed, deleted or returned to in between, the lesson never points
\* past a slide no lesson was given on, unless an answer named a place it did not serve.
NothingSkippedUnlessDrifted ==
  drifted \/ \A i \in DOMAIN history :
    LET p == history[i].at
    IN  LiveLesson(p) => \A s \in Slides[p.file] : s <= p.end => Covered(Stem[p.file], s)

=============================================================================

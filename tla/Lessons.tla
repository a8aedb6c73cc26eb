------------------------------ MODULE Lessons ------------------------------
(***************************************************************************)
(* Learning from the turns of a user (services/experience.py): a log of    *)
(* episodes (which tools, how it went), the lessons mined from it, and     *)
(* the user who switches lessons off.  Log and lessons are two files;      *)
(* each read and each write is locked or atomic, but what is read is used  *)
(* later, without a lock.                                                  *)
(*                                                                         *)
(* One kind of task; a shape is a sequence of tools.  Weights are in       *)
(* halves: 2 for a clean success, 1 for one that was polished, 0 for what  *)
(* speaks against.                                                         *)
(***************************************************************************)
EXTENDS Integers, Sequences, SequencesExt

CONSTANTS
  Shapes,       \* sequences of tools
  Recorders,    \* threads whose turns end
  MaxEpisodes,  \* EXPERIENCE_MAX_EPISODES
  MineEvery,    \* MINE_EVERY_EPISODES
  MinSupport,   \* LESSON_MIN_SUPPORT
  Margin,       \* LESSON_MARGIN_RATIO
  MaxTurns      \* bound on episodes recorded

ASSUME LessonBounds == /\ MaxEpisodes \in Nat /\ MineEvery \in Nat /\ MinSupport \in Nat /\ MaxTurns \in Nat
                       /\ Margin \in Nat /\ Margin > 1

VARIABLES
  episodes,  \* the log: [shape, weight], oldest first
  lessons,   \* lessons file: the status of each shape, and episodes since it was mined
  recorder,  \* each thread: where it is, and what it read
  panel,     \* the user's request on a lesson, likewise
  turns,     \* episodes recorded so far
  banned,    \* ghost: lessons whose switching off was acknowledged
  stale      \* ghost: lessons were saved from a copy that was out of date

lessonsVars == <<episodes, lessons, recorder, panel, turns, banned, stale>>

NoLessons == [status |-> [s \in Shapes |-> "none"], since |-> 0]
Rest == [at |-> "rest"]

LessonsInit ==
  /\ episodes = <<>> /\ lessons = NoLessons
  /\ recorder = [r \in Recorders |-> Rest] /\ panel = Rest
  /\ turns = 0 /\ banned = {} /\ stale = FALSE

\* ---- mine_lessons: what the log says -----------------------------------
Weights(log, s) == LET of == SelectSeq(log, LAMBDA e : e.shape = s) IN [i \in DOMAIN of |-> of[i].weight]
Support(log, s) == FoldSeq(LAMBDA w, sum : w + sum, 0, Weights(log, s))
Oppose(log, s) == 2 * Len(SelectSeq(Weights(log, s), LAMBDA w : w = 0))
\* The best count, for or against, of another shape of the same task.
Rival(log, s) == FoldSet(LAMBDA n, m : IF n > m THEN n ELSE m, 0,
                         UNION {{Support(log, o), Oppose(log, o)} : o \in Shapes \ {s}})
Greatest(a, b) == IF a > b THEN a ELSE b
Earned(log, s) ==
  /\ Support(log, s) >= 2 * MinSupport
  /\ Support(log, s) >= Margin * Greatest(Greatest(Rival(log, s), Oppose(log, s)), 2)
  /\ Support(log, s) > Oppose(log, s)

\* What mining takes from the log: the shapes in it, and those that have earned trust.
Evidence(log) == [met |-> {e.shape : e \in Range(log)}, earned |-> {s \in Shapes : Earned(log, s)}]

\* Seeded fault: the evidence decides whatever the user said.
FaultyVerdict(found, s, before) ==
  IF s \notin found.met THEN before ELSE IF s \in found.earned THEN "trusted" ELSE "candidate"
Verdict(found, s, before) ==
  IF before = "disabled" THEN "disabled"
  ELSE IF s \notin found.met THEN "none"
  ELSE IF s \in found.earned THEN "trusted" ELSE "candidate"

\* ---- record_episode ----------------------------------------------------
\* The append and the prune hold the lock one after the other.
Record(r) ==
  /\ recorder[r].at = "rest" /\ turns < MaxTurns
  /\ turns' = turns + 1
  /\ \E s \in Shapes, w \in 0..2 : episodes' = Append(episodes, [shape |-> s, weight |-> w])
  /\ recorder' = [recorder EXCEPT ![r] = [at |-> "appended"]]
  /\ UNCHANGED <<lessons, panel, banned, stale>>

LastOf(log, n) == SubSeq(log, Greatest(1, Len(log) - n + 1), Len(log))
Prune(r) ==
  /\ recorder[r].at = "appended"
  /\ episodes' = LastOf(episodes, MaxEpisodes)
  /\ recorder' = [recorder EXCEPT ![r] = [at |-> "pruned"]]
  /\ UNCHANGED <<lessons, panel, turns, banned, stale>>

\* A file that cannot be read counts as empty (_load_state).
Loaded == {lessons, NoLessons}

\* Fewer than MineEvery since the last time: only the count goes up.
Count(r) ==
  /\ recorder[r].at = "pruned"
  /\ \E copy \in Loaded :
       recorder' = [recorder EXCEPT ![r] =
            IF copy.since + 1 >= MineEvery THEN [at |-> "due"]
            ELSE [at |-> "save", from |-> copy, to |-> [copy EXCEPT !.since = @ + 1]]]
  /\ UNCHANGED <<episodes, lessons, panel, turns, banned, stale>>

ReadEpisodes(r) ==
  /\ recorder[r].at = "due"
  /\ recorder' = [recorder EXCEPT ![r] = [at |-> "mining", found |-> Evidence(episodes)]]
  /\ UNCHANGED <<episodes, lessons, panel, turns, banned, stale>>

Mine(r) ==
  /\ recorder[r].at = "mining"
  /\ \E copy \in Loaded :
       recorder' = [recorder EXCEPT ![r] =
            [at |-> "save", from |-> copy,
             to |-> [status |-> [s \in Shapes |-> Verdict(recorder[r].found, s, copy.status[s])], since |-> 0]]]
  /\ UNCHANGED <<episodes, lessons, panel, turns, banned, stale>>

\* _save_state: the whole file, from whatever copy; or nothing, when that fails.
Save(r) ==
  /\ recorder[r].at = "save"
  /\ \/ /\ lessons' = recorder[r].to
        /\ stale' = (stale \/ recorder[r].from # lessons)
     \/ UNCHANGED <<lessons, stale>>
  /\ recorder' = [recorder EXCEPT ![r] = Rest]
  /\ UNCHANGED <<episodes, panel, turns, banned>>

\* ---- amend_last_episode and record_counter_evidence ----------------------
\* The lines are read before the lock is taken: what was appended since is lost.
\* The last episode of the shape counts half from now on; one that failed goes on counting
\* against, one that was only disputed no longer does.
\* (record_counter_evidence is record_episode with weight 0.)
ReadToAmend(r) ==
  /\ recorder[r].at = "rest" /\ episodes # <<>>
  /\ recorder' = [recorder EXCEPT ![r] = [at |-> "amend", log |-> episodes]]
  /\ UNCHANGED <<episodes, lessons, panel, turns, banned, stale>>
Amend(r) ==
  /\ recorder[r].at = "amend"
  /\ \E s \in Shapes :
       LET log == recorder[r].log
           last == SelectLastInSeq(log, LAMBDA e : e.shape = s) IN
       /\ last > 0
       /\ \E w \in IF log[last].weight = 0 THEN 0..1 ELSE {1} : episodes' = [log EXCEPT ![last].weight = w]
  /\ recorder' = [recorder EXCEPT ![r] = Rest]
  /\ UNCHANGED <<lessons, panel, turns, banned, stale>>
NothingToAmend(r) ==
  /\ recorder[r].at = "amend"
  /\ recorder' = [recorder EXCEPT ![r] = Rest]
  /\ UNCHANGED <<episodes, lessons, panel, turns, banned, stale>>

\* Older than the TTL, an episode counts no more.
ExpireLessons ==
  /\ episodes # <<>> /\ episodes' = Tail(episodes)
  /\ UNCHANGED <<lessons, recorder, panel, turns, banned, stale>>

\* ---- the user: disable_lesson --------------------------------------------
\* A lesson that is not there is answered with an error.
Ask(s) ==
  /\ panel.at = "rest" /\ lessons.status[s] # "none"
  /\ panel' = [at |-> "save", shape |-> s, from |-> lessons,
               to |-> [lessons EXCEPT !.status[s] = "disabled"]]
  /\ UNCHANGED <<episodes, lessons, recorder, turns, banned, stale>>
Disable ==
  /\ panel.at = "save"
  /\ \/ /\ lessons' = panel.to
        /\ stale' = (stale \/ panel.from # lessons)
        /\ banned' = banned \cup {panel.shape}
     \/ UNCHANGED <<lessons, stale, banned>>
  /\ panel' = Rest
  /\ UNCHANGED <<episodes, recorder, turns>>

LessonsNext ==
  \/ \E r \in Recorders :
       \/ Record(r) \/ Prune(r) \/ Count(r) \/ ReadEpisodes(r) \/ Mine(r) \/ Save(r)
       \/ ReadToAmend(r) \/ Amend(r) \/ NothingToAmend(r)
  \/ \E s \in Shapes : Ask(s)
  \/ Disable \/ ExpireLessons

LessonsSpec == LessonsInit /\ [][LessonsNext]_lessonsVars

----------------------------------------------------------------------------
\* "Disabled stays disabled" whatever the evidence says, as long as nobody saved the
\* lessons from a copy that was out of date or could not be read.
DisabledStaysUnlessStale ==
  \A s \in banned : lessons.status[s] = "disabled" \/ stale

=============================================================================

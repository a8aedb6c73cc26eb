------------------------------ MODULE Answers -------------------------------
(***************************************************************************)
(* What a chat turn does before a model is asked: it resolves the files    *)
(* of the message (backend/attachments.py), decides which files of the     *)
(* conversation the message means (agent/attachment_gate.py), and answers  *)
(* some messages without a model: a question for the user's name, a        *)
(* clarifying question, a greeting, and, if the operator turned it on, a   *)
(* message whose answer is in the repeat cache (backend/flow/stages.py,    *)
(* turns.py).                                                              *)
(*                                                                         *)
(* A message is [words, kind, names: the file it names, signals: what its  *)
(* words point at]. An answer is the name it calls the user by, or none.   *)
(***************************************************************************)
EXTENDS Integers, Sequences, FiniteSets, SequencesExt

CONSTANTS
  Senders,      \* requests
  Phrases,      \* the messages users write
  Pictures, Papers, Decks,   \* uploads: images, documents, presentations
  NoUpload,
  Names, Nameless,
  Opinions,     \* what the classifier may say, sure of it or not
  CacheOn,      \* PLUTO_REPEAT_CACHE
  GreetingsOn,  \* PLUTO_GREETINGS
  NearRounds,   \* rounds in the last ten messages
  LastRounds,   \* rounds in the last four
  MaxPictures,  \* MAX_IMAGE_ATTACHMENTS
  MaxReused,    \* MAX_ATTACHMENTS_PER_MESSAGE
  MaxRepeats,   \* _REPEAT_CACHE_MAX
  RepeatTTL,    \* _REPEAT_CACHE_TTL_S
  MaxRounds, MaxClock   \* bounds on rounds and on time

ASSUME AnswersBounds ==
  /\ {NearRounds, LastRounds, MaxPictures, MaxReused, MaxRepeats} \subseteq Nat \ {0}
  /\ Opinions \subseteq {"vision", "presentation", "document", "none", "unsure"}
  /\ {RepeatTTL, MaxRounds, MaxClock} \subseteq Nat /\ {CacheOn, GreetingsOn} \subseteq BOOLEAN

VARIABLES
  rounds,    \* the open conversation: the files of each user message
  stored,    \* uploads that are on disk
  myName,    \* the name in memory
  repeats,   \* the repeat cache, oldest entry first: [words, at, answer: a name or none]
  clock,
  asking,    \* what each request is answering
  said       \* ghost: what this step answered, how it came about and what was known

answersVars == <<rounds, stored, myName, repeats, clock, asking, said>>

Uploads == Pictures \cup Papers \cup Decks
NotAsking == [busy |-> FALSE, phrase |-> Nameless, own |-> <<>>, cached |-> FALSE]
NoWords == [from |-> "nothing", kind |-> "other", answer |-> Nameless, known |-> Nameless]

\* ---- files of the conversation -----------------------------------------
TailOf(s, n) == SubSeq(s, IF Len(s) > n THEN Len(s) - n + 1 ELSE 1, Len(s))
\* _iter_recent_valid_uploads: of the last ten messages, still there, each once, at its
\* latest place, no more than the limit.
Recents(files, limit) ==
  LET all == SelectSeq(FlattenSeq(TailOf(rounds, NearRounds)), LAMBDA f : f \in files \cap stored)
      latest == SelectSeq([i \in DOMAIN all |-> [file |-> all[i], at |-> i]],
                          LAMBDA e : ~\E j \in DOMAIN all : j > e.at /\ all[j] = e.file)
  IN  TailOf([i \in DOMAIN latest |-> latest[i].file], limit)
\* _history_image_ids: the last four messages, whether the file is there or not.
LastPicture == LET seen == SelectSeq(FlattenSeq(TailOf(rounds, LastRounds)), LAMBDA f : f \in Pictures)
               IN  TailOf(seen, 1)

\* ---- attachment_gate.decide --------------------------------------------
Use(pictures, others) == [pictures |-> pictures, others |-> others, askBack |-> FALSE]
AskBack == [pictures |-> <<>>, others |-> <<>>, askBack |-> TRUE]
Freshest(s) == TailOf(s, 1)
\* The kind that was named, or the newest of the other kind when there is none of it.
NamedKind(wantsPictures, wantsOthers, pictures, others) ==
  LET p == IF wantsPictures THEN pictures ELSE <<>>
      o == IF wantsOthers THEN others ELSE <<>>
  IN  IF p \o o # <<>> THEN Use(p, o)
      ELSE IF wantsPictures THEN Use(<<>>, Freshest(others)) ELSE Use(Freshest(pictures), <<>>)
\* Two kinds and one pronoun: a model's opinion, else the user is asked.
Judged(opinion, pictures, others) ==
  LET decks == SelectSeq(others, LAMBDA f : f \in Decks)
  IN  CASE opinion = "vision"       -> Use(pictures, <<>>)
        [] opinion = "presentation" -> Use(<<>>, IF decks = <<>> THEN others ELSE decks)
        [] opinion = "document"     -> Use(<<>>, others)
        [] opinion = "none"         -> Use(<<>>, <<>>)
        [] opinion = "unsure"       -> AskBack
Decide(m, pictures, others, opinion) ==
  LET hears(s) == s \in m.signals
      named(files) == SelectSeq(files, LAMBDA f : f = m.names)
      decks == SelectSeq(others, LAMBDA f : f \in Decks)
      exact == hears("the image") \/ hears("the file")
      picture == hears("image")
      other == hears("document") \/ hears("slide") \/ hears("page")
      some == pictures \o others # <<>>
      bothKinds == pictures # <<>> /\ others # <<>>
  IN  IF named(pictures \o others) # <<>> THEN Use(named(pictures), named(others))
      ELSE IF hears("slide") /\ others # <<>> THEN Use(<<>>, Freshest(IF decks = <<>> THEN others ELSE decks))
      ELSE IF hears("page") /\ others # <<>> THEN Use(<<>>, Freshest(others))
      ELSE IF exact THEN NamedKind(hears("the image"), hears("the file"), pictures, others)
      ELSE IF (picture \/ other) /\ (some \/ picture = other) THEN NamedKind(picture, other, pictures, others)
      ELSE IF hears("new topic") THEN Use(<<>>, <<>>)
      ELSE IF hears("uploaded") /\ hears("paper") /\ some
           THEN IF bothKinds THEN AskBack ELSE Use(Freshest(pictures), Freshest(others))
      ELSE IF hears("this") /\ bothKinds THEN Judged(opinion, pictures, others)
      ELSE IF hears("this") THEN Use(Freshest(pictures), Freshest(others))
      ELSE IF hears("uploaded") THEN AskBack
      ELSE Use(<<>>, <<>>)

\* ---- _apply_attachment_gate --------------------------------------------
\* The files the model is given: the message's own, and where it brings none of a kind
\* those of the conversation it means; for "why?" and the like the last image.
Gate(m, own, opinion) ==
  LET myPictures == SelectSeq(own, LAMBDA f : f \in Pictures)
      needsOthers == \A i \in DOMAIN own : own[i] \in Pictures
      decision == IF myPictures = <<>> \/ needsOthers
                  THEN Decide(m, Recents(Pictures, MaxPictures), Recents(Papers \cup Decks, MaxReused), opinion)
                  ELSE Use(<<>>, <<>>)
      seen == IF myPictures # <<>> THEN myPictures ELSE decision.pictures
      drill == seen = <<>> /\ own = <<>> /\ "dispute" \in m.signals /\ {"new topic", "task"} \cap m.signals = {}
  IN  [askBack |-> decision.askBack /\ own = <<>>,
       about |-> ToSet(own) \cup ToSet(IF drill THEN LastPicture ELSE seen)
                 \cup (IF needsOthers THEN ToSet(decision.others) ELSE {})]

\* ---- the repeat cache --------------------------------------------------
\* The key is the words (and user, mode and tier, which are the same here).
Keyed(own) == CacheOn /\ own = <<>>
Hits(m) == {i \in DOMAIN repeats : repeats[i].words = m.words /\ clock - repeats[i].at <= RepeatTTL}
Expired(m) == SelectSeq(repeats, LAMBDA e : e.words # m.words \/ clock - e.at <= RepeatTTL)
Remembered(m, answer) ==
  LET room == TailOf(repeats, MaxRepeats - 1)
      entry == [words |-> m.words, at |-> clock, answer |-> answer]
  IN  IF \E i \in DOMAIN room : room[i].words = m.words
      THEN [i \in DOMAIN room |-> IF room[i].words = m.words THEN entry ELSE room[i]]
      ELSE Append(room, entry)

AnswersInit ==
  /\ rounds = <<>> /\ stored = Uploads /\ myName \in Names \cup {Nameless}
  /\ repeats = <<>> /\ clock = 0
  /\ asking = [s \in Senders |-> NotAsking] /\ said = NoWords

Say(from, m, answer) ==
  said' = [from |-> from, kind |-> m.kind, answer |-> answer, known |-> myName]
Ended(own) == Len(rounds) < MaxRounds /\ rounds' = Append(rounds, own)

\* A plausible bug: the canned reply comes after the cache.
FaultyNameless(m, own) == m.kind = "whoami" /\ myName = Nameless /\ own = <<>> /\ Hits(m) = {}
AsksForNoName(m, own) == m.kind = "whoami" /\ myName = Nameless /\ own = <<>>
\* One send: every own file must be there (_resolve_attachments).
SendMessage(s, m, own, opinion) ==
  LET g == Gate(m, own, opinion)
      greeted == GreetingsOn /\ m.kind = "hello" /\ own = <<>>
      hit == Keyed(own) /\ Hits(m) # {}
  IN  /\ ~asking[s].busy /\ ToSet(own) \subseteq stored
      /\ IF AsksForNoName(m, own) THEN Ended(own) /\ Say("canned", m, Nameless) /\ UNCHANGED <<repeats, asking>>
         ELSE IF g.askBack \/ greeted THEN Ended(own) /\ Say("canned", m, Nameless) /\ UNCHANGED <<repeats, asking>>
         ELSE IF hit
              THEN Ended(own) /\ Say("cache", m, repeats[CHOOSE i \in Hits(m) : TRUE].answer)
                   /\ UNCHANGED <<repeats, asking>>
         ELSE /\ asking' = [asking EXCEPT ![s] =
                    [busy |-> TRUE, phrase |-> m, own |-> own, cached |-> Keyed(own)]]
              /\ repeats' = IF Keyed(own) THEN Expired(m) ELSE repeats
              /\ said' = NoWords /\ UNCHANGED rounds
      /\ UNCHANGED <<stored, myName, clock>>

\* _sanitize_identity_hallucination: with no name in memory none is claimed.
Sanitized(m, names) == IF m.kind = "whoami" /\ myName = Nameless THEN Nameless ELSE names
\* The model answers, with whatever name it likes; a clean answer is remembered.
FinishAnswer(s, names, clean) ==
  LET t == asking[s]
      answer == Sanitized(t.phrase, names)
  IN  /\ t.busy
      /\ Ended(t.own) /\ Say("model", t.phrase, answer)
      /\ repeats' = IF t.cached /\ clean THEN Remembered(t.phrase, answer) ELSE repeats
      /\ asking' = [asking EXCEPT ![s] = NotAsking]
      /\ UNCHANGED <<stored, myName, clock>>
\* Every tier failed: the turn is stored with a marker.  Or its client left.
Break(s) ==
  /\ asking[s].busy
  /\ (Ended(asking[s].own) \/ UNCHANGED rounds)
  /\ asking' = [asking EXCEPT ![s] = NotAsking]
  /\ said' = NoWords /\ UNCHANGED <<stored, myName, repeats, clock>>

\* A new conversation, an upload deleted, the memory changed: by other requests.
StartOver == rounds # <<>> /\ rounds' = <<>> /\ said' = NoWords /\ UNCHANGED <<stored, myName, repeats, clock, asking>>
LoseUpload(f) == f \in stored /\ stored' = stored \ {f} /\ said' = NoWords /\ UNCHANGED <<rounds, myName, repeats, clock, asking>>
Rename(n) == n # myName /\ myName' = n /\ said' = NoWords /\ UNCHANGED <<rounds, stored, repeats, clock, asking>>
AnswersTick == clock < MaxClock /\ clock' = clock + 1 /\ said' = NoWords /\ UNCHANGED <<rounds, stored, myName, repeats, asking>>

AnswersNext ==
  \/ \E s \in Senders, m \in Phrases, o \in Opinions :
       \E own \in {<<>>} \cup {<<f>> : f \in Uploads} : SendMessage(s, m, own, o)
  \/ \E s \in Senders, n \in Names \cup {Nameless}, clean \in BOOLEAN : FinishAnswer(s, n, clean)
  \/ \E s \in Senders : Break(s)
  \/ StartOver \/ AnswersTick
  \/ \E f \in Uploads : LoseUpload(f)
  \/ \E n \in Names \cup {Nameless} : Rename(n)
AnswersSpec == AnswersInit /\ [][AnswersNext]_answersVars

\* ---- properties --------------------------------------------------------
\* "Who am I?" is answered with a name only while memory holds one, whether a model, the
\* cache or neither answers, and whatever is forgotten or renamed in between.
NamedOnlyWhileKnown ==
  said.kind = "whoami" /\ said.answer # Nameless => said.known # Nameless

=============================================================================

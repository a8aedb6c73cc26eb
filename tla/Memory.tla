------------------------------- MODULE Memory -------------------------------
(***************************************************************************)
(* What is remembered of a user (services/memory.py): facts mined from     *)
(* every message at the start of a turn, and the Memory panel, where the   *)
(* user forgets them (backend/routers/memory.py).  A turn loads the file,  *)
(* mines, asks a model how each new fact relates to the old ones, and      *)
(* saves the whole file; no lock spans those steps, so turns of other      *)
(* chats and the panel come in between.                                    *)
(*                                                                         *)
(* A message is a record of what the extractors look at: [by, form: how    *)
(* it names somebody ("sure" for "my name is" or "call me", "verb" for "I  *)
(* am", "bare" for a lone word, "nope" for a rejection and a word,         *)
(* "none"), word, likes: what it likes or hates, asks and claims: whether  *)
(* an assistant asks for a name, and which it states]                      *)
(***************************************************************************)
EXTENDS Integers, Sequences, FiniteSets, SequencesExt

CONSTANTS
  Words,         \* what may be named or liked
  Talk,          \* each chat's messages, in the order they are said
  NonNames,      \* _NON_NAME_WORDS
  Nobody,        \* no name
  Cured,         \* TRUE: the file was written before the guard words were known
  MaxFacts,      \* MAX_FACTS
  MaxHashes,     \* MAX_PROCESSED_HASHES
  MaxForgets,    \* bound on what the user has it forget
  MaxMemFaults   \* bound on failed reads, writes and extractions

Sentence == [by : {"user", "assistant"}, form : {"sure", "verb", "bare", "nope", "none"}, word : Words \cup {Nobody},
             likes : Seq([what : Words, polarity : {"positive", "negative"}, sure : BOOLEAN]),
             asks : BOOLEAN, claims : Words \cup {Nobody}]
ASSUME TalkAssumption ==
  /\ Nobody \notin Words /\ NonNames \subseteq Words
  /\ \A c \in DOMAIN Talk : /\ Talk[c] \in Seq(Sentence)
                           /\ \A i \in DOMAIN Talk[c] : Talk[c][i].form # "none" => Talk[c][i].word \in Words
ASSUME MemoryBounds == MaxFacts \in Nat \ {0} /\ MaxHashes \in Nat /\ MaxForgets \in Nat /\ MaxMemFaults \in Nat

VARIABLES
  memory,    \* structured_memory.json: facts, name, processed digests, failed digests
  miner,     \* each chat's turn: where it is, the message it answers, its copy
  panel,     \* the panel: where it is, the facts it shows, its copy
  memFaults,
  forgotten, \* ghost: what the user made it forget, and has not said again
  strayed    \* ghost: a save overwrote another, or what was mined was forgotten

memoryVars == <<memory, miner, panel, memFaults, forgotten, strayed>>

Chats == DOMAIN Talk
Blank == [facts |-> <<>>, name |-> Nobody, done |-> <<>>, failed |-> {}]
Fact(type, value, polarity, sure) ==
  [type |-> type, key |-> value, value |-> value, polarity |-> polarity, sure |-> sure]

\* ---- extraction --------------------------------------------------------
\* _match_name_verb, guarded: moods and adverbs are no names.
NameFacts(m) ==
  IF m.form \in {"sure", "verb"} /\ m.word \notin NonNames
  THEN <<Fact("name", m.word, "positive", m.form = "sure")>> ELSE <<>>
\* A lone word, or "nope" and a word, is a name only right after the assistant asked
\* for one, or claimed another; it is never sure.
ReplyFacts(m, before) ==
  IF /\ m.word \notin NonNames /\ before.by = "assistant"
     /\ \/ m.form = "bare" /\ before.asks
        \/ m.form = "nope" /\ before.claims \notin {Nobody, m.word}
  THEN <<Fact("name", m.word, "positive", FALSE)>> ELSE <<>>
LikeFacts(m) ==
  [i \in DOMAIN m.likes |-> Fact("preference", m.likes[i].what, m.likes[i].polarity, m.likes[i].sure)]

Silence == [by |-> "user", form |-> "none", word |-> Nobody, likes |-> <<>>, asks |-> FALSE, claims |-> Nobody]
Before(c, i) == IF i = 1 THEN Silence ELSE Talk[c][i - 1]
\* At most one: the two look at different forms.
NamesIn(c, i) == NameFacts(Talk[c][i]) \o ReplyFacts(Talk[c][i], Before(c, i))
Extracted(c, i) == NamesIn(c, i) \o LikeFacts(Talk[c][i])

\* _turn_digest: the chat's first message, the message before and the message.
Digest(c, i) == <<Talk[c][1], Before(c, i), Talk[c][i]>>
SaidIn(c, i) == {f.value : f \in ToSet(Extracted(c, i))}

\* ---- _merge_fact -------------------------------------------------------
Newest(seq, n) == SubSeq(seq, IF Len(seq) > n THEN Len(seq) - n + 1 ELSE 1, Len(seq))
Added(facts, f) == Newest(Append(facts, f), MaxFacts)
\* _resolve_existing: by key, else by value.
Place(facts, f) ==
  LET byKey == SelectInSeq(facts, LAMBDA g : g.type = f.type /\ g.key = f.key) IN
  IF byKey > 0 THEN byKey ELSE SelectInSeq(facts, LAMBDA g : g.type = f.type /\ g.value = f.value)

Superseded(old, f) == f
Confirmed(old, f) == [old EXCEPT !.sure = @ \/ f.sure]

OwnKey == "own"
\* The verdict is a model's; without one it is "new".
Merged(facts, fact, verdict) ==
  LET f == [fact EXCEPT !.key = IF verdict.key = OwnKey THEN @ ELSE verdict.key, !.sure = @ /\ verdict.says # "ambiguous"]
      at == Place(facts, f)
      told == \E i \in DOMAIN facts : facts[i].type = f.type /\ facts[i].value = f.value
  IN  IF verdict.says = "related" THEN (IF told THEN facts ELSE Added(facts, f))
      ELSE IF at = 0 THEN Added(facts, f)
      ELSE [facts EXCEPT ![at] = IF verdict.says = "contradictory" /\ facts[at].polarity # f.polarity
                                 THEN Superseded(facts[at], f) ELSE Confirmed(facts[at], f)]
\* Every fact of a message, one after the other.
AllMerged(facts, new, verdict) ==
  LET upto[n \in 0..Len(new)] == IF n = 0 THEN facts ELSE Merged(upto[n - 1], new[n], verdict)
  IN  upto[Len(new)]

\* One verdict is tried per turn: what it says, and the key it gives (its own, or that
\* of a fact it knows).
Verdicts(facts) ==
  [says : {"equivalent", "related", "contradictory", "ambiguous"},
   key : {OwnKey} \cup {facts[i].key : i \in DOMAIN facts}]

\* A sure name always wins, another only where there is none.
Named(name, new) == IF new # <<>> /\ (name = Nobody \/ new[1].sure) THEN new[1].value ELSE name

\* ---- the turn ----------------------------------------------------------
Unbegun == [at |-> "idle", upto |-> 0]
\* The facts that are in a set.
Kept(facts, good) ==
  LET kept[n \in 0..Len(facts)] ==
        IF n = 0 THEN <<>> ELSE IF facts[n] \in good THEN Append(kept[n - 1], facts[n]) ELSE kept[n - 1]
  IN  kept[Len(facts)]
\* load_structured_memory: names that are guard words are dropped, and the file is
\* written again when there were any.
Healed(mem) ==
  LET facts == Kept(mem.facts, {f \in ToSet(mem.facts) : f.type # "name" \/ f.value \notin NonNames})
      names == Kept(facts, {f \in ToSet(facts) : f.type = "name"}) IN
  [mem EXCEPT !.facts = facts,
              !.name = IF @ \notin NonNames THEN @ ELSE IF names = <<>> THEN Nobody ELSE Last(names).value]

MemoryInit ==
  /\ memory = IF Cured /\ NonNames # {}
              THEN LET w == CHOOSE w \in NonNames : TRUE IN
                   [Blank EXCEPT !.facts = <<Fact("name", w, "positive", FALSE)>>, !.name = w]
              ELSE Blank
  /\ miner = [c \in Chats |-> Unbegun] /\ panel = [at |-> "shut", asked |-> 0]
  /\ memFaults = 0 /\ forgotten = {} /\ strayed = FALSE

Fault == memFaults < MaxMemFaults /\ memFaults' = memFaults + 1

\* The user says the next thing; the turn loads the file.  One that cannot be read
\* counts as empty.
Load(c) ==
  /\ miner[c].at = "idle"
  /\ \E i \in (miner[c].upto + 1)..Len(Talk[c]) :
       /\ Talk[c][i].by = "user"
       /\ \A j \in (miner[c].upto + 1)..(i - 1) : Talk[c][j].by # "user"
       /\ forgotten' = forgotten \ SaidIn(c, i)
       /\ \/ /\ memory' = Healed(memory)
             /\ miner' = [miner EXCEPT ![c] = [at |-> "loaded", upto |-> i, copy |-> Healed(memory), of |-> Healed(memory)]]
             /\ UNCHANGED <<memFaults, strayed>>
          \/ /\ Fault /\ strayed' = TRUE
             /\ miner' = [miner EXCEPT ![c] = [at |-> "loaded", upto |-> i, copy |-> Blank, of |-> memory]]
             /\ UNCHANGED memory
  /\ UNCHANGED panel

\* One message: it is skipped when its digest is there and did not fail; when the
\* extraction raises it counts as failed and is tried again in the next turn.
MineOne(c, i, mem, verdict, raises) ==
  LET d == Digest(c, i)
      done == IF d \in ToSet(mem.done) /\ d \notin mem.failed THEN mem.done ELSE Append(mem.done, d) IN
  IF Talk[c][i].by # "user" \/ done = mem.done THEN mem
  ELSE IF raises THEN [mem EXCEPT !.done = done, !.failed = @ \cup {d}]
  ELSE [facts |-> AllMerged(mem.facts, Extracted(c, i), verdict), name |-> Named(mem.name, NamesIn(c, i)),
        done |-> done, failed |-> mem.failed \ {d}]
\* Every message up to this turn's, in order.
MinedUpto(c, last, mem, verdict, raises) ==
  LET upto[i \in 0..last] == IF i = 0 THEN mem ELSE MineOne(c, i, upto[i - 1], verdict, i = raises)
  IN  upto[last]

\* update_memory_incremental between its load and its save; raises = 0 for a turn in
\* which every extraction works.
Mine(c) ==
  /\ miner[c].at = "loaded"
  /\ \E verdict \in Verdicts(miner[c].copy.facts), raises \in 0..miner[c].upto :
       /\ IF raises = 0 THEN UNCHANGED <<memFaults, strayed>> ELSE Fault /\ strayed' = TRUE
       /\ miner' = [miner EXCEPT ![c].at = "mined",
                      ![c].copy = MinedUpto(c, miner[c].upto, @, verdict, raises)]
  /\ UNCHANGED <<memory, panel, forgotten>>

\* The whole file, with the newest digests only; a failed write is not noticed.
SaveMined(c) ==
  /\ miner[c].at = "mined"
  /\ LET mem == miner[c].copy IN
     \/ /\ memory' = [mem EXCEPT !.done = Newest(@, MaxHashes)]
        /\ strayed' = (strayed \/ memory # miner[c].of \/ Len(mem.done) > MaxHashes)
        /\ UNCHANGED memFaults
     \/ Fault /\ strayed' = TRUE /\ UNCHANGED memory
  /\ miner' = [miner EXCEPT ![c] = [at |-> "idle", upto |-> miner[c].upto]]
  /\ UNCHANGED <<panel, forgotten>>

\* ---- the Memory panel ----------------------------------------------------
Show ==
  /\ panel.at = "shut" /\ panel.asked < MaxForgets /\ memory.facts # <<>>
  /\ memory' = Healed(memory)
  /\ panel' = [at |-> "shown", asked |-> panel.asked + 1, facts |-> Healed(memory).facts]
  /\ UNCHANGED <<miner, memFaults, forgotten, strayed>>

\* delete_memory_fact: the panel sends the place of the fact in the list it shows.  The
\* name goes with a fact of that value.
\* Seeded fault: the name is a field of its own and stays.
FaultyWithout(mem, n) == [mem EXCEPT !.facts = RemoveAt(@, n)]
Without(mem, n) ==
  [mem EXCEPT !.facts = RemoveAt(@, n), !.name = IF @ = mem.facts[n].value THEN Nobody ELSE @]
Point(n) ==
  /\ panel.at = "shown" /\ n \in DOMAIN panel.facts /\ n \in DOMAIN memory.facts
  /\ panel' = [at |-> "save", asked |-> panel.asked, value |-> panel.facts[n].value, copy |-> Without(memory, n), of |-> memory,
               hit |-> memory.facts = panel.facts]
  /\ UNCHANGED <<memory, miner, memFaults, forgotten, strayed>>
\* By its value, through the API: every fact that has it goes.
Name(v) ==
  /\ panel.at = "shown" /\ \E i \in DOMAIN memory.facts : memory.facts[i].value = v
  /\ panel' = [at |-> "save", asked |-> panel.asked, value |-> v, of |-> memory, hit |-> TRUE,
               copy |-> [memory EXCEPT !.facts = Kept(@, {f \in ToSet(@) : f.value # v}),
                                       !.name = IF @ = v THEN Nobody ELSE @]]
  /\ UNCHANGED <<memory, miner, memFaults, forgotten, strayed>>
Forget ==
  /\ panel.at = "save"
  /\ memory' = panel.copy
  /\ strayed' = (strayed \/ memory # panel.of \/ ~panel.hit)
  /\ forgotten' = IF \E i \in DOMAIN panel.copy.facts : panel.copy.facts[i].value = panel.value
                  THEN forgotten ELSE forgotten \cup {panel.value}
  /\ panel' = [at |-> "shut", asked |-> panel.asked]
  /\ UNCHANGED <<miner, memFaults>>

MemoryNext ==
  \/ \E c \in Chats : Load(c) \/ Mine(c) \/ SaveMined(c)
  \/ Show \/ Forget
  \/ \E n \in 1..MaxFacts : Point(n)
  \/ \E i \in DOMAIN memory.facts : Name(memory.facts[i].value)

MemorySpec == MemoryInit /\ [][MemoryNext]_memoryVars

----------------------------------------------------------------------------

\* What the user had it forget is not among the facts and not the user's name until it
\* is said again, unless a save went over another one, the list had moved under the
\* panel, or what had been mined was not recorded.
ForgottenStaysForgottenUnlessStrayed ==
  \/ strayed
  \/ \A v \in forgotten : memory.name # v /\ \A i \in DOMAIN memory.facts : memory.facts[i].value # v
=============================================================================

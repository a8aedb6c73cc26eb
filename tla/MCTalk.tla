------------------------------- MODULE MCTalk -------------------------------
(***************************************************************************)
(* Turns, the answers without a model, memory and the snapshot mirror on   *)
(* small instances that share nothing.                                     *)
(***************************************************************************)
EXTENDS MCTurns, MCSnapshots, Memory, Answers

CONSTANTS sam, zed, often, coffee, espresso, nobody, page, essay, ann, q1, q2, q3, q4

\* Memory: what is said in two conversations.
Says(form, word) == [Silence EXCEPT !.form = form, !.word = word]
Likes(what, polarity, sure) == <<[what |-> what, polarity |-> polarity, sure |-> sure]>>
Pluto == [Silence EXCEPT !.by = "assistant"]
\* "I am often ..." - "What should I call you?" - "Sam, I like coffee".
Chat1 == <<Says("verb", often), [Pluto EXCEPT !.asks = TRUE],
           [Says("bare", sam) EXCEPT !.likes = Likes(coffee, "positive", FALSE)]>>
\* "Call me Zed, remember that I hate espresso" - "You are Zed" - "Nope, Sam".
Chat2 == <<[Says("sure", zed) EXCEPT !.likes = Likes(espresso, "negative", TRUE)],
           [Pluto EXCEPT !.claims = zed], Says("nope", sam)>>
TheWords == {sam, zed, often, coffee, espresso}
Talks == <<Chat1, Chat2>>

\* Answers: four messages.
Phrase(words, kind, names, signals) == [words |-> words, kind |-> kind, names |-> names, signals |-> signals]
ThePhrases == {
  Phrase(q1, "whoami", NoUpload, {}), Phrase(q2, "hello", NoUpload, {}),
  Phrase(q3, "other", NoUpload, {"this", "dispute"}), Phrase(q4, "other", essay, {"document"})}

VARIABLE part   \* the component that runs in this behaviour
Parts == {"turns", "snapshots", "memory", "answers"}
everything == <<part, vars, snapshotVars, memoryVars, answersVars>>

\* A component that does not run rests in one of its initial states.
AnyInit ==
  /\ part \in Parts
  /\ Init
  /\ SnapshotsInit
  /\ MemoryInit
  /\ AnswersInit
  /\ part # "answers" => myName = Nameless
Runs(p) == part = p /\ part' = p
AnyNext ==
  \/ Runs("turns") /\ Next /\ UNCHANGED <<snapshotVars, memoryVars, answersVars>>
  \/ Runs("snapshots") /\ SnapshotsNext /\ UNCHANGED <<vars, memoryVars, answersVars>>
  \/ Runs("memory") /\ MemoryNext /\ UNCHANGED <<vars, snapshotVars, answersVars>>
  \/ Runs("answers") /\ AnswersNext /\ UNCHANGED <<vars, snapshotVars, memoryVars>>

\* The fairness of each component, when it is the one that runs: a send goes on to its end;
\* the mirror's worker wakes up again and again, notify() follows a write at once, and a boot
\* goes on to its end.  Nothing makes a flush happen.
AnyFairness ==
  /\ \A s \in Send : WF_vars(part = "turns" /\ (Refuse(s) \/ Snapshot(s) \/ Complete(s) \/ Fail(s) \/ Abandon(s) \/ Release(s)))
  /\ WF_snapshotVars(part = "snapshots" /\ UploadStep(Worker))
  /\ \A u \in Uploader : WF_snapshotVars(part = "snapshots" /\ (up[u].at # "idle" /\ UploadStep(u)))
  /\ \A f \in File : WF_snapshotVars(part = "snapshots" /\ Notify(f))
  /\ WF_snapshotVars(part = "snapshots" /\ (BootWithoutRestore \/ Download \/ Extract \/ Restored))
AnySpec == AnyInit /\ [][AnyNext]_everything /\ AnyFairness
=============================================================================

------------------------------- MODULE Turns -------------------------------
(***************************************************************************)
(* One user's open conversation (backend/flow/turns.py).  A send claims    *)
(* its key in the double-tap table, reads the conversation under a short   *)
(* lock, works for a long time without any lock and appends its two        *)
(* messages in one locked read-modify-write; a regenerate does the same    *)
(* for a stored answer, and replaces a failed marker in place.  Requests   *)
(* run on threads of one process, which may die and restart at any point.  *)
(*                                                                         *)
(* A message keeps what the properties tell apart: its role, the send      *)
(* whose question it asks or answers, the request that wrote it, whether   *)
(* it is a failed-turn marker, and the teaching pointer (awaiting) it      *)
(* carries.                                                                *)
(***************************************************************************)
EXTENDS Integers, Sequences, FiniteSets

CONSTANTS
  Send,       \* requests of /send and /stream
  Regen,      \* requests of /regenerate
  Key,        \* double-tap keys: same text, files, project and flags
  KeyOf,      \* the key of each send
  MaxMsgs,    \* MAX_MSGS_PER_CHAT
  TTL,        \* _INFLIGHT_TTL_SECONDS, in ticks
  MaxTime     \* bound on the model's clock

ASSUME ActorsAssumption == Send \cap Regen = {}
ASSUME KeyOfAssumption == KeyOf \in [Send -> Key]
ASSUME MaxMsgsAssumption == MaxMsgs \in Nat \ {0}
ASSUME TTLAssumption == TTL \in Nat \ {0}
ASSUME MaxTimeAssumption == MaxTime \in Nat

VARIABLES
  now,      \* the clock
  claims,   \* _INFLIGHT_TURNS: the time of each key's claim, or Free
  current,  \* chats.json: the messages of the open conversation
  pc,       \* where each request is
  seen,     \* what each request read before its long unlocked work
  told,     \* what each request answered its caller
  since,    \* ghost: when each send made its claim
  owner,    \* ghost: the send that made a key's latest claim
  poached   \* ghost: keys whose claim was released by another send

flow == <<claims, since, owner, poached>>
vars == <<now, claims, current, pc, seen, told, since, owner, poached>>

Actor == Send \cup Regen
Free == -1
Pointer == {"none", "lesson"}
Running == {"claimed", "working", "leaving"}
Outcome == {"nothing", "duplicate", "refused", "answered", "canned", "failed",
            "cancelled", "unstored", "lost"}
Stored == {"answered", "canned", "failed"}
View == [index : Nat, question : Send \cup {"none"}, failed : BOOLEAN,
         awaiting : Pointer]
Message == [role : {"user", "assistant"}, question : Send, by : Actor,
            failed : BOOLEAN, awaiting : Pointer]

Unseen == [index |-> 0, question |-> "none", failed |-> FALSE, awaiting |-> "none"]

LastN(s, n) == IF Len(s) <= n THEN s ELSE SubSeq(s, Len(s) - n + 1, Len(s))

\* load_chats shows at most the last MaxMsgs messages of the stored list.
Loaded == LastN(current, MaxMsgs)

\* The pointer of the last assistant message, "none" when there is none.
LastAnswer(msgs) == {i \in DOMAIN msgs : /\ msgs[i].role = "assistant"
                                         /\ \A j \in i + 1..Len(msgs) : msgs[j].role = "user"}
PriorAwaiting(msgs) ==
  IF LastAnswer(msgs) = {} THEN "none" ELSE msgs[CHOOSE i \in LastAnswer(msgs) : TRUE].awaiting

UserMsg(s) == [role |-> "user", question |-> s, by |-> s, failed |-> FALSE,
               awaiting |-> "none"]
Assistant(q, a, fail, aw) ==
  [role |-> "assistant", question |-> q, by |-> a, failed |-> fail, awaiting |-> aw]

\* _append_turn_atomic: one locked read-modify-write of the stored list.
Appended(msgs) == LastN(current \o msgs, MaxMsgs)

\* Seeded fault: the slot is replaced whatever stands there.
FaultyReplaced(i, msg) ==
  IF i \in DOMAIN current THEN [current EXCEPT ![i] = msg] ELSE Append(current, msg)

\* _replace_message_atomic: the slot is replaced when a failed marker is
\* there, and otherwise the message is appended (with no truncation).
Replaced(i, msg) ==
  IF i \in DOMAIN current /\ current[i].role = "assistant" /\ current[i].failed
  THEN [current EXCEPT ![i] = msg]
  ELSE Append(current, msg)

Init ==
  /\ now = 0
  /\ claims = [k \in Key |-> Free]
  /\ current = << >>
  /\ pc = [a \in Actor |-> "idle"]
  /\ seen = [a \in Actor |-> Unseen]
  /\ told = [a \in Actor |-> "nothing"]
  /\ since = [s \in Send |-> 0]
  /\ owner = [k \in Key |-> "nobody"]
  /\ poached = {}

----------------------------------------------------------------------------
(* run_chat *)

\* Seeded fault: a claim expires one tick early.
FaultyLive(k) == claims[k] # Free /\ now - claims[k] < TTL - 1

Live(k) == claims[k] # Free /\ now - claims[k] < TTL

Answers(a, outcome) == told' = [told EXCEPT ![a] = outcome]
Goes(a, where) == pc' = [pc EXCEPT ![a] = where]

\* The same message is already generating: an ephemeral reply, not stored.
Duplicate(s) ==
  /\ pc[s] = "idle"
  /\ Live(KeyOf[s])
  /\ Goes(s, "done") /\ Answers(s, "duplicate")
  /\ UNCHANGED <<now, current, seen, flow>>

\* The claim is taken when absent or expired, and expired claims are pruned.
Claim(s) ==
  /\ pc[s] = "idle"
  /\ ~Live(KeyOf[s])
  /\ claims' = [k \in Key |-> IF k = KeyOf[s] THEN now
                              ELSE IF Live(k) THEN claims[k] ELSE Free]
  /\ since' = [since EXCEPT ![s] = now]
  /\ owner' = [owner EXCEPT ![KeyOf[s]] = s]
  /\ Goes(s, "claimed")
  /\ UNCHANGED <<now, current, seen, told, poached>>

\* A rate limit (429) or an attachment that does not resolve (ValueError):
\* raised before the user's message exists, so nothing is stored.
Refuse(s) ==
  /\ pc[s] = "claimed"
  /\ Goes(s, "leaving") /\ Answers(s, "refused")
  /\ UNCHANGED <<now, current, seen, flow>>

Snapshot(s) ==
  /\ pc[s] = "claimed"
  /\ seen' = [seen EXCEPT ![s].awaiting = PriorAwaiting(Loaded)]
  /\ Goes(s, "working")
  /\ UNCHANGED <<now, current, told, flow>>

Persist(s, failed, awaiting, outcome) ==
  /\ pc[s] = "working"
  /\ current' = Appended(<<UserMsg(s), Assistant(s, s, failed, awaiting)>>)
  /\ Goes(s, "leaving") /\ Answers(s, outcome)
  /\ UNCHANGED <<now, seen, flow>>

\* The model answered; the answer decides whether a lesson is open.
Complete(s) == \E aw \in Pointer : Persist(s, FALSE, aw, "answered")

\* An identity question, a clarification, a greeting or a repeated text is
\* answered without the model and carries the pointer of the snapshot.
Canned(s) == Persist(s, FALSE, seen[s].awaiting, "canned")

\* Every tier failed, the budget ran out or the server is busy.
Fail(s) == Persist(s, TRUE, seen[s].awaiting, "failed")

\* Seeded fault: a cancelled turn leaves its question behind.
FaultyAbandon(s) ==
  /\ pc[s] = "working"
  /\ current' = Appended(<<UserMsg(s)>>)
  /\ Goes(s, "leaving")
  /\ \E outcome \in {"cancelled", "unstored"} : Answers(s, outcome)
  /\ UNCHANGED <<now, seen, flow>>

\* The client went away (TurnCancelled), or the write raised StorageError.
Abandon(s) ==
  /\ pc[s] = "working"
  /\ Goes(s, "leaving")
  /\ \E outcome \in {"cancelled", "unstored"} : Answers(s, outcome)
  /\ UNCHANGED <<now, current, seen, flow>>

\* Seeded fault: the claim is released only when a turn was stored.
FaultyRelease(s) ==
  /\ pc[s] = "leaving"
  /\ claims' = [claims EXCEPT ![KeyOf[s]] = IF told[s] \in Stored THEN Free ELSE @]
  /\ Goes(s, "done")
  /\ UNCHANGED <<now, current, seen, told, since, owner, poached>>

\* The finally clause pops the key, whoever's claim is there by now.
Release(s) ==
  /\ pc[s] = "leaving"
  /\ claims' = [claims EXCEPT ![KeyOf[s]] = Free]
  /\ poached' = IF claims[KeyOf[s]] # Free /\ owner[KeyOf[s]] # s
                THEN poached \cup {KeyOf[s]} ELSE poached
  /\ Goes(s, "done")
  /\ UNCHANGED <<now, current, seen, told, since, owner>>

----------------------------------------------------------------------------
(* regenerate_chat *)

\* A stored answer and the closest user message before it, read under the lock.
RegenSnapshot(r) ==
  /\ pc[r] = "idle"
  /\ \E i \in DOMAIN Loaded, q \in DOMAIN Loaded :
       /\ q < i /\ Loaded[i].role = "assistant" /\ Loaded[q].role = "user"
       /\ \A k \in q + 1..i - 1 : Loaded[k].role = "assistant"
       /\ seen' = [seen EXCEPT ![r] =
            [index |-> i, question |-> Loaded[q].question, failed |-> Loaded[i].failed,
             awaiting |-> PriorAwaiting(SubSeq(Loaded, 1, q - 1))]]
  /\ Goes(r, "working")
  /\ UNCHANGED <<now, current, told, flow>>

\* Rate limited, or an index that names no answer with a question before it.
RegenRefuse(r) ==
  /\ pc[r] = "idle"
  /\ Goes(r, "done") /\ Answers(r, "refused")
  /\ UNCHANGED <<now, current, seen, flow>>

RegenPersist(r, content) ==
  /\ pc[r] = "working"
  /\ current' = content
  /\ Goes(r, "done") /\ Answers(r, "answered")
  /\ UNCHANGED <<now, seen, flow>>

\* The attachment gate asks back: the question is appended.
RegenClarify(r) ==
  RegenPersist(r, Appended(<<Assistant(seen[r].question, r, FALSE, seen[r].awaiting)>>))

\* A fresh answer replaces a failed marker and is appended to a live answer.
RegenAnswer(r) ==
  \E aw \in Pointer :
    LET fresh == Assistant(seen[r].question, r, FALSE, aw)
    IN  RegenPersist(r, IF seen[r].failed THEN Replaced(seen[r].index, fresh)
                                          ELSE Appended(<<fresh>>))

\* The models or the write failed: nothing is stored.
RegenFail(r) ==
  /\ pc[r] = "working"
  /\ Goes(r, "done")
  /\ \E outcome \in {"failed", "unstored"} : Answers(r, outcome)
  /\ UNCHANGED <<now, current, seen, flow>>

----------------------------------------------------------------------------
Tick ==
  /\ now < MaxTime
  /\ now' = now + 1
  /\ UNCHANGED <<claims, current, pc, seen, told, since, owner, poached>>

\* The process dies: its requests and its table are gone, the file is not.
Restart ==
  /\ \E a \in Actor : pc[a] \in Running
  /\ claims' = [k \in Key |-> Free]
  /\ pc' = [a \in Actor |-> IF pc[a] \in Running THEN "done" ELSE pc[a]]
  /\ told' = [a \in Actor |-> IF pc[a] \in Running /\ told[a] = "nothing"
                              THEN "lost" ELSE told[a]]
  /\ UNCHANGED <<now, current, seen, since, owner, poached>>

SendStep(s) ==
  \/ Duplicate(s) \/ Claim(s) \/ Refuse(s) \/ Snapshot(s) \/ Complete(s)
  \/ Canned(s) \/ Fail(s) \/ Abandon(s) \/ Release(s)
RegenStep(r) ==
  \/ RegenSnapshot(r) \/ RegenRefuse(r) \/ RegenClarify(r) \/ RegenAnswer(r)
  \/ RegenFail(r)

Next == (\E s \in Send : SendStep(s)) \/ (\E r \in Regen : RegenStep(r))
        \/ Tick \/ Restart

\* Every model call and every tool round has a deadline, and the finally
\* clause always runs: a request that has started does not stop half way.
Fairness == \A s \in Send : WF_vars(Refuse(s) \/ Snapshot(s) \/ Complete(s)
                                    \/ Fail(s) \/ Abandon(s) \/ Release(s))

Spec == Init /\ [][Next]_vars
FairSpec == Spec /\ Fairness

----------------------------------------------------------------------------
(* Properties *)

\* Every variable keeps its shape.
TypeOK ==
  /\ now \in 0..MaxTime
  /\ claims \in [Key -> 0..MaxTime \cup {Free}]
  /\ current \in Seq(Message)
  /\ pc \in [Actor -> {"idle", "done"} \cup Running]
  /\ seen \in [Actor -> View]
  /\ told \in [Actor -> Outcome]
  /\ since \in [Send -> 0..MaxTime]
  /\ owner \in [Key -> Send \cup {"nobody"}]
  /\ poached \in SUBSET Key

Generating(s) == pc[s] \in {"claimed", "working"}
Young(s) == Generating(s) /\ now - since[s] < TTL

\* "Claim an in-flight turn; False when a live duplicate exists": two sends of
\* one key, both younger than the TTL, never generate side by side.
NoLiveDuplicate ==
  \A s, u \in Send : s # u /\ KeyOf[s] = KeyOf[u] => ~(Young(s) /\ Young(u))

\* The same, except for a key whose claim was popped by a send that had
\* outlived its own claim (_release_inflight does not look whose it is).
NoLiveDuplicateUnlessPoached ==
  \A s, u \in Send : s # u /\ KeyOf[s] = KeyOf[u] /\ KeyOf[s] \notin poached
                     => ~(Young(s) /\ Young(u))

AsksAt(s) == {i \in DOMAIN current : current[i].role = "user" /\ current[i].question = s}

\* run_chat persists both messages before it returns, and only once: a send
\* that was told an answer or a failure has its question in the history with
\* the answer right under it, whatever the other requests append, until
\* the oldest messages are cut off; a send that was told anything else has
\* left no message behind.
PersistedOnceOrNotAtAll ==
  \A s \in Send :
    IF told[s] \in Stored
    THEN \/ AsksAt(s) = {} /\ Len(current) >= MaxMsgs
         \/ \E i \in DOMAIN current : /\ AsksAt(s) = {i} /\ i < Len(current)
                                      /\ current[i + 1].role = "assistant"
    ELSE AsksAt(s) = {} /\ \A i \in DOMAIN current : current[i].by # s

\* A live answer leaves the history only by the cut at its old end: no request
\* overwrites it, however stale the index it works with.
LiveAnswersKept ==
  [][\A i \in DOMAIN current :
       current[i].role = "assistant" /\ ~current[i].failed
       => \/ \E j \in 1..i : j <= Len(current') /\ current'[j] = current[i]
          \/ i <= Len(current) + 2 - MaxMsgs ]_current

\* A message that is being generated does not stay claimed for ever, however
\* its turn ends: the user can always send it again.
ClaimsReleased == \A k \in Key : []<>(claims[k] = Free)
=============================================================================

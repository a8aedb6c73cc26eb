---------------------------- MODULE TurnsProofs ----------------------------
(* Theorems about a chat turn and what carries it: the turn itself, for every *)
(* number of requests and every TTL and cap, the mirror of the data, the      *)
(* stages that answer without the model, and the archive of conversations.    *)
EXTENDS Chats, Snapshots, Answers, FiniteSetTheorems, WellFoundedInduction,
  SequenceTheorems, TLAPS

----------------------------------------------------------------------------
(* What the operators on messages return *)

LEMMA SingletonSeq ==
  ASSUME NEW S, NEW x \in S
  PROVE  <<x>> \in Seq(S)
OBVIOUS

LEMMA LastNType ==
  ASSUME NEW S, NEW s \in Seq(S), NEW n \in Nat \ {0}
  PROVE  LastN(s, n) \in Seq(S)
<1>1. CASE Len(s) <= n
  BY <1>1 DEF LastN
<1>2. CASE ~(Len(s) <= n)
  <2>1. Len(s) \in Nat /\ Len(s) - n + 1 \in 1..Len(s) + 1
    BY <1>2, LenProperties
  <2>2. SubSeq(s, Len(s) - n + 1, Len(s)) \in Seq(S)
    BY <2>1, <1>2, SubSeqProperties
  <2>3. QED BY <2>2, <1>2 DEF LastN
<1>3. QED BY <1>1, <1>2

LEMMA PriorAwaitingType ==
  ASSUME NEW msgs \in Seq(Message)
  PROVE  PriorAwaiting(msgs) \in Pointer
<1>1. CASE LastAnswer(msgs) = {}
  BY <1>1 DEF PriorAwaiting, Pointer
<1>2. CASE LastAnswer(msgs) # {}
  <2>1. PICK i \in DOMAIN msgs : i = (CHOOSE j \in LastAnswer(msgs) : TRUE)
    BY <1>2 DEF LastAnswer
  <2>2. msgs[i] \in Message
    BY <2>1, ElementOfSeq
  <2>3. QED BY <1>2, <2>1, <2>2 DEF PriorAwaiting, Message
<1>3. QED BY <1>1, <1>2

LEMMA AppendedType ==
  ASSUME current \in Seq(Message), NEW msgs \in Seq(Message)
  PROVE  Appended(msgs) \in Seq(Message)
BY LastNType, ConcatProperties, MaxMsgsAssumption DEF Appended

LEMMA ReplacedType ==
  ASSUME current \in Seq(Message), NEW i \in Nat, NEW msg \in Message
  PROVE  Replaced(i, msg) \in Seq(Message)
<1>1. CASE i \in DOMAIN current
  <2>1. [current EXCEPT ![i] = msg] \in Seq(Message)
    BY <1>1, ExceptSeq
  <2>2. Append(current, msg) \in Seq(Message)
    BY AppendProperties
  <2>3. QED BY <2>1, <2>2 DEF Replaced
<1>2. CASE i \notin DOMAIN current
  BY <1>2, AppendProperties DEF Replaced
<1>3. QED BY <1>1, <1>2

LEMMA MessageType ==
  ASSUME NEW q \in Send, NEW a \in Actor, NEW fail \in BOOLEAN, NEW aw \in Pointer
  PROVE  /\ Assistant(q, a, fail, aw) \in Message
         /\ UserMsg(q) \in Message
BY DEF Assistant, UserMsg, Message, Pointer, Actor

LEMMA LoadedType ==
  ASSUME current \in Seq(Message)
  PROVE  Loaded \in Seq(Message)
BY LastNType, MaxMsgsAssumption DEF Loaded

----------------------------------------------------------------------------
(* Type correctness, one step per action *)

LEMMA InitType == Init => TypeOK
<1> SUFFICES ASSUME Init PROVE TypeOK
  OBVIOUS
<1>1. current \in Seq(Message)
  BY EmptySeq DEF Init
<1>2. seen \in [Actor -> View]
  BY DEF Init, Unseen, View, Pointer
<1>3. QED BY <1>1, <1>2, MaxTimeAssumption DEF Init, TypeOK, Free, Outcome, Running

LEMMA PersistType ==
  ASSUME TypeOK, NEW s \in Send, NEW fail \in BOOLEAN, NEW aw \in Pointer,
         NEW outcome \in Outcome, Persist(s, fail, aw, outcome)
  PROVE  TypeOK'
<1>1. s \in Actor
  BY DEF Actor
<1>2. <<UserMsg(s), Assistant(s, s, fail, aw)>> \in Seq(Message)
  BY <1>1, MessageType
<1>3. current' \in Seq(Message)
  BY <1>2, AppendedType DEF Persist, TypeOK
<1>4. told' \in [Actor -> Outcome]
  BY DEF Persist, Answers, TypeOK
<1>5. pc' \in [Actor -> {"idle", "done"} \cup Running]
  BY DEF Persist, Goes, TypeOK, Running
<1>6. QED BY <1>3, <1>4, <1>5 DEF Persist, flow, TypeOK

LEMMA SendType ==
  ASSUME TypeOK, NEW s \in Send, SendStep(s)
  PROVE  TypeOK'
<1>0. s \in Actor /\ KeyOf[s] \in Key
  BY KeyOfAssumption DEF Actor
<1>1. CASE Duplicate(s)
  BY <1>0, <1>1 DEF Duplicate, Goes, Answers, flow, TypeOK, Outcome, Running
<1>2. CASE Claim(s)
  <2>1. claims' \in [Key -> 0..MaxTime \cup {Free}]
    BY <1>2 DEF Claim, TypeOK
  <2>2. since' \in [Send -> 0..MaxTime] /\ owner' \in [Key -> Send \cup {"nobody"}]
    BY <1>0, <1>2 DEF Claim, TypeOK
  <2>3. pc' \in [Actor -> {"idle", "done"} \cup Running]
    BY <1>0, <1>2 DEF Claim, Goes, TypeOK, Running
  <2>4. QED BY <1>2, <2>1, <2>2, <2>3 DEF Claim, TypeOK
<1>3. CASE Refuse(s)
  BY <1>0, <1>3 DEF Refuse, Goes, Answers, flow, TypeOK, Outcome, Running
<1>4. CASE Snapshot(s)
  <2>1. PriorAwaiting(Loaded) \in Pointer
    BY PriorAwaitingType, LoadedType DEF TypeOK
  <2>2. seen' \in [Actor -> View]
    BY <1>0, <1>4, <2>1 DEF Snapshot, TypeOK, View
  <2>3. pc' \in [Actor -> {"idle", "done"} \cup Running]
    BY <1>0, <1>4 DEF Snapshot, Goes, TypeOK, Running
  <2>4. QED BY <1>4, <2>2, <2>3 DEF Snapshot, flow, TypeOK
<1>5. CASE Complete(s)
  BY <1>5, PersistType DEF Complete, Outcome
<1>6. seen[s].awaiting \in Pointer
  BY <1>0 DEF TypeOK, View
<1>7. CASE Canned(s)
  BY <1>6, <1>7, PersistType DEF Canned, Outcome
<1>8. CASE Fail(s)
  BY <1>6, <1>8, PersistType DEF Fail, Outcome
<1>9. CASE Abandon(s)
  BY <1>0, <1>9 DEF Abandon, Goes, Answers, flow, TypeOK, Outcome, Running
<1>10. CASE Release(s)
  BY <1>0, <1>10 DEF Release, Goes, TypeOK, Running, Free
<1>11. QED
  BY <1>1, <1>2, <1>3, <1>4, <1>5, <1>7, <1>8, <1>9, <1>10 DEF SendStep

\* A regenerate at work has found the question it answers.
RegenReady == \A r \in Regen : pc[r] = "working" => seen[r].question \in Send

LEMMA RegenType ==
  ASSUME TypeOK, RegenReady, NEW r \in Regen, RegenStep(r)
  PROVE  TypeOK'
<1>0. r \in Actor
  BY DEF Actor
<1>1. CASE RegenSnapshot(r)
  <2>1. PICK i \in DOMAIN Loaded, q \in DOMAIN Loaded :
           /\ q < i
           /\ Loaded[q].role = "user"
           /\ seen' = [seen EXCEPT ![r] =
                [index |-> i, question |-> Loaded[q].question,
                 failed |-> Loaded[i].failed,
                 awaiting |-> PriorAwaiting(SubSeq(Loaded, 1, q - 1))]]
    BY <1>1 DEF RegenSnapshot
  <2>2. Loaded \in Seq(Message) /\ Loaded[i] \in Message /\ Loaded[q] \in Message
    BY LoadedType, ElementOfSeq DEF TypeOK
  <2>3. i \in Nat /\ q \in 1..Len(Loaded) /\ Len(Loaded) \in Nat
    BY <2>2, LenProperties
  <2>4. SubSeq(Loaded, 1, q - 1) \in Seq(Message)
    BY <2>2, <2>3, SubSeqProperties
  <2>5. PriorAwaiting(SubSeq(Loaded, 1, q - 1)) \in Pointer
    BY <2>4, PriorAwaitingType
  <2>6. Loaded[q].question \in Send /\ Loaded[i].failed \in BOOLEAN
    BY <2>2 DEF Message
  <2>7. seen' \in [Actor -> View]
    BY <1>0, <2>1, <2>3, <2>5, <2>6 DEF TypeOK, View
  <2>8. pc' \in [Actor -> {"idle", "done"} \cup Running]
    BY <1>0, <1>1 DEF RegenSnapshot, Goes, TypeOK, Running
  <2>9. QED BY <1>1, <2>7, <2>8 DEF RegenSnapshot, flow, TypeOK
<1>2. CASE RegenRefuse(r)
  BY <1>0, <1>2 DEF RegenRefuse, Goes, Answers, flow, TypeOK, Outcome, Running
<1>3. ASSUME NEW content \in Seq(Message), RegenPersist(r, content)
      PROVE  TypeOK'
  BY <1>0, <1>3 DEF RegenPersist, Goes, Answers, flow, TypeOK, Outcome, Running
<1>4. seen[r].index \in Nat /\ seen[r].failed \in BOOLEAN /\ seen[r].awaiting \in Pointer
  BY <1>0 DEF TypeOK, View
<1>5. CASE RegenFail(r)
  BY <1>0, <1>5 DEF RegenFail, Goes, Answers, flow, TypeOK, Outcome, Running
<1>6. ASSUME pc[r] = "working", NEW aw \in Pointer
      PROVE  /\ Assistant(seen[r].question, r, FALSE, aw) \in Message
             /\ Appended(<<Assistant(seen[r].question, r, FALSE, aw)>>) \in Seq(Message)
             /\ Replaced(seen[r].index, Assistant(seen[r].question, r, FALSE, aw))
                  \in Seq(Message)
  <2>1. Assistant(seen[r].question, r, FALSE, aw) \in Message
    BY <1>0, <1>6, MessageType DEF RegenReady
  <2>2. <<Assistant(seen[r].question, r, FALSE, aw)>> \in Seq(Message)
    BY <2>1, SingletonSeq
  <2>3. QED BY <1>4, <2>1, <2>2, AppendedType, ReplacedType DEF TypeOK
<1>7. CASE RegenClarify(r)
  <2>1. pc[r] = "working"
    BY <1>7 DEF RegenClarify, RegenPersist
  <2>2. QED BY <1>3, <1>4, <1>6, <1>7, <2>1 DEF RegenClarify
<1>8. CASE RegenAnswer(r)
  <2>1. PICK aw \in Pointer :
           RegenPersist(r, IF seen[r].failed
                           THEN Replaced(seen[r].index, Assistant(seen[r].question, r, FALSE, aw))
                           ELSE Appended(<<Assistant(seen[r].question, r, FALSE, aw)>>))
    BY <1>8 DEF RegenAnswer
  <2>2. pc[r] = "working"
    BY <2>1 DEF RegenPersist
  <2>3. QED BY <1>3, <1>6, <2>1, <2>2
<1>9. QED BY <1>1, <1>2, <1>5, <1>7, <1>8 DEF RegenStep

----------------------------------------------------------------------------
(* The double-tap guard *)

\* A young send still owns its key's claim, unless the claim was poached.
ClaimHeld ==
  \A s \in Send : Young(s) /\ KeyOf[s] \notin poached
                  => claims[KeyOf[s]] = since[s] /\ owner[KeyOf[s]] = s

IInv == TypeOK /\ RegenReady /\ ClaimHeld

LEMMA InitIInv == Init => IInv
<1> SUFFICES ASSUME Init PROVE IInv
  OBVIOUS
<1>1. RegenReady /\ ClaimHeld
  BY DEF Init, RegenReady, ClaimHeld, Young, Generating, Actor
<1>2. QED BY <1>1, InitType DEF IInv

LEMMA NextType == ASSUME IInv, [Next]_vars PROVE TypeOK'
<1>1. ASSUME NEW s \in Send, SendStep(s) PROVE TypeOK'
  BY <1>1, SendType DEF IInv
<1>2. ASSUME NEW r \in Regen, RegenStep(r) PROVE TypeOK'
  BY <1>2, RegenType DEF IInv
<1>3. CASE Tick
  BY <1>3, MaxTimeAssumption DEF Tick, TypeOK, IInv
<1>4. CASE Restart
  BY <1>4 DEF Restart, TypeOK, IInv, Free, Outcome
<1>5. CASE UNCHANGED vars
  BY <1>5 DEF vars, TypeOK, IInv
<1>6. QED BY <1>1, <1>2, <1>3, <1>4, <1>5 DEF Next

LEMMA NextReady == ASSUME IInv, [Next]_vars PROVE RegenReady'
<1>0. TypeOK /\ RegenReady
  BY DEF IInv
<1>1. ASSUME NEW s \in Send, SendStep(s) PROVE RegenReady'
  <2>1. \A r \in Regen : r \in Actor /\ s \in Actor /\ r # s
    BY ActorsAssumption DEF Actor
  <2>2. \A r \in Regen : pc'[r] = pc[r] /\ seen'[r] = seen[r]
    BY <1>0, <1>1, <2>1 DEF SendStep, Duplicate, Claim, Refuse, Snapshot, Complete,
       Canned, Fail, Abandon, Release, Persist, Goes, TypeOK
  <2>3. QED BY <1>0, <2>2 DEF RegenReady
<1>2. ASSUME NEW r \in Regen, RegenStep(r) PROVE RegenReady'
  <2>0. r \in Actor /\ pc \in [Actor -> {"idle", "done"} \cup Running] /\ seen \in [Actor -> View]
    BY <1>0 DEF Actor, TypeOK
  <2>1. \A x \in Regen : x \in Actor
    BY DEF Actor
  <2>2. CASE RegenSnapshot(r)
    <3>1. PICK i \in DOMAIN Loaded, q \in DOMAIN Loaded :
             seen' = [seen EXCEPT ![r] =
               [index |-> i, question |-> Loaded[q].question, failed |-> Loaded[i].failed,
                awaiting |-> PriorAwaiting(SubSeq(Loaded, 1, q - 1))]]
      BY <2>2 DEF RegenSnapshot
    <3>2. Loaded[q] \in Message
      BY <1>0, LoadedType, ElementOfSeq DEF TypeOK
    <3>3. seen'[r].question \in Send
      BY <2>0, <3>1, <3>2 DEF Message
    <3>4. \A x \in Regen : x # r => pc'[x] = pc[x] /\ seen'[x] = seen[x]
      BY <2>0, <2>1, <2>2, <3>1 DEF RegenSnapshot, Goes
    <3>5. QED BY <1>0, <3>3, <3>4 DEF RegenReady
  <2>3. CASE ~RegenSnapshot(r)
    <3>1. seen' = seen /\ pc' = [pc EXCEPT ![r] = "done"]
      BY <1>2, <2>3 DEF RegenStep, RegenRefuse, RegenClarify, RegenAnswer, RegenFail,
         RegenPersist, Goes
    <3>2. \A x \in Regen : pc'[x] = "working" => pc[x] = "working"
      BY <2>0, <2>1, <3>1
    <3>3. QED BY <1>0, <3>1, <3>2 DEF RegenReady
  <2>4. QED BY <2>2, <2>3
<1>3. CASE Tick
  BY <1>0, <1>3 DEF Tick, RegenReady
<1>4. CASE Restart
  BY <1>0, <1>4 DEF Restart, RegenReady, Actor, Running
<1>5. CASE UNCHANGED vars
  BY <1>0, <1>5 DEF vars, RegenReady
<1>6. QED BY <1>1, <1>2, <1>3, <1>4, <1>5 DEF Next

LEMMA NextHeld == ASSUME IInv, [Next]_vars PROVE ClaimHeld'
<1>0. TypeOK /\ ClaimHeld
  BY DEF IInv
<1>1. /\ \A s \in Send : s \in Actor /\ KeyOf[s] \in Key /\ since[s] \in 0..MaxTime
      /\ pc \in [Actor -> {"idle", "done"} \cup Running]
      /\ claims \in [Key -> 0..MaxTime \cup {Free}] /\ owner \in [Key -> Send \cup {"nobody"}]
      /\ since \in [Send -> 0..MaxTime]
      /\ now \in Nat /\ MaxTime \in Nat /\ TTL \in Nat \ {0}
  BY <1>0, KeyOfAssumption, TTLAssumption, MaxTimeAssumption DEF TypeOK, Actor
<1>2. ASSUME NEW u \in Send, SendStep(u) PROVE ClaimHeld'
  <2>1. CASE Claim(u)
    <3>1. /\ now' = now /\ poached' = poached
          /\ claims' = [k \in Key |-> IF k = KeyOf[u] THEN now
                                      ELSE IF Live(k) THEN claims[k] ELSE Free]
          /\ since' = [since EXCEPT ![u] = now] /\ owner' = [owner EXCEPT ![KeyOf[u]] = u]
          /\ pc' = [pc EXCEPT ![u] = "claimed"] /\ ~Live(KeyOf[u])
      BY <2>1 DEF Claim, Goes
    <3>2. SUFFICES ASSUME NEW s \in Send, Young(s)', KeyOf[s] \notin poached'
                   PROVE  claims'[KeyOf[s]] = since'[s] /\ owner'[KeyOf[s]] = s
      BY DEF ClaimHeld
    <3>3. CASE s = u
      BY <1>1, <3>1, <3>3
    <3>4. CASE s # u
      <4>1. Young(s) /\ since'[s] = since[s]
        BY <1>1, <3>1, <3>2, <3>4 DEF Young, Generating
      <4>2. claims[KeyOf[s]] = since[s] /\ owner[KeyOf[s]] = s
        BY <1>0, <3>1, <3>2, <4>1 DEF ClaimHeld
      <4>3. Live(KeyOf[s])
        BY <1>1, <4>1, <4>2 DEF Live, Young, Free
      <4>4. KeyOf[s] # KeyOf[u]
        BY <3>1, <4>3
      <4>5. QED BY <1>1, <3>1, <4>1, <4>2, <4>3, <4>4
    <3>5. QED BY <3>3, <3>4
  <2>2. CASE Release(u)
    <3>1. /\ now' = now /\ since' = since /\ owner' = owner
          /\ pc' = [pc EXCEPT ![u] = "done"] /\ claims' = [claims EXCEPT ![KeyOf[u]] = Free]
          /\ poached' = IF claims[KeyOf[u]] # Free /\ owner[KeyOf[u]] # u
                        THEN poached \cup {KeyOf[u]} ELSE poached
          /\ pc[u] = "leaving"
      BY <2>2 DEF Release, Goes
    <3>2. SUFFICES ASSUME NEW s \in Send, Young(s)', KeyOf[s] \notin poached'
                   PROVE  claims'[KeyOf[s]] = since'[s] /\ owner'[KeyOf[s]] = s
      BY DEF ClaimHeld
    <3>3. s # u /\ Young(s)
      BY <1>1, <3>1, <3>2 DEF Young, Generating
    <3>4. claims[KeyOf[s]] = since[s] /\ owner[KeyOf[s]] = s
      BY <1>0, <3>1, <3>2, <3>3 DEF ClaimHeld
    <3>5. KeyOf[s] # KeyOf[u]
      BY <1>1, <3>1, <3>2, <3>3, <3>4 DEF Free
    <3>6. QED BY <1>1, <3>1, <3>4, <3>5
  <2>3. CASE ~Claim(u) /\ ~Release(u)
    <3>1. UNCHANGED <<now, claims, since, owner, poached>>
      BY <1>2, <2>3 DEF SendStep, Duplicate, Refuse, Snapshot, Complete, Canned, Fail,
         Abandon, Persist, flow
    <3>2. \A s \in Send : Generating(s)' => Generating(s)
      BY <1>1, <1>2, <2>3 DEF SendStep, Duplicate, Refuse, Snapshot, Complete, Canned, Fail,
         Abandon, Persist, Goes, Generating
    <3>3. QED BY <1>0, <3>1, <3>2 DEF ClaimHeld, Young
  <2>4. QED BY <2>1, <2>2, <2>3
<1>3. ASSUME NEW r \in Regen, RegenStep(r) PROVE ClaimHeld'
  <2>1. UNCHANGED <<now, claims, since, owner, poached>>
    BY <1>3 DEF RegenStep, RegenSnapshot, RegenRefuse, RegenClarify, RegenAnswer, RegenFail,
       RegenPersist, flow
  <2>2. \A s \in Send : s # r /\ pc'[s] = pc[s]
    BY <1>1, <1>3, ActorsAssumption DEF RegenStep, RegenSnapshot, RegenRefuse, RegenClarify,
       RegenAnswer, RegenFail, RegenPersist, Goes
  <2>3. QED BY <1>0, <2>1, <2>2 DEF ClaimHeld, Young, Generating
<1>4. CASE Tick
  BY <1>0, <1>1, <1>4 DEF Tick, ClaimHeld, Young, Generating
<1>5. CASE Restart
  BY <1>1, <1>5 DEF Restart, ClaimHeld, Young, Generating, Running
<1>6. CASE UNCHANGED vars
  BY <1>0, <1>6 DEF vars, ClaimHeld, Young, Generating
<1>7. QED BY <1>2, <1>3, <1>4, <1>5, <1>6 DEF Next

LEMMA IInvSafe == IInv => NoLiveDuplicateUnlessPoached
BY DEF IInv, ClaimHeld, NoLiveDuplicateUnlessPoached

----------------------------------------------------------------------------

LEMMA IInvInvariant == Spec => []IInv
<1>1. Init => IInv
  BY InitIInv
<1>2. IInv /\ [Next]_vars => IInv'
  BY NextType, NextReady, NextHeld DEF IInv
<1>3. QED BY <1>1, <1>2, PTL DEF Spec

(* The variables keep their types in every run, whatever the number of     *)
(* requests: in particular the stored history only ever holds messages.    *)
THEOREM TypeCorrect == Spec => []TypeOK
<1>1. IInv => TypeOK
  BY DEF IInv
<1>2. QED BY <1>1, IInvInvariant, PTL

(* The double-tap guard admits no live duplicate of a message, for any     *)
(* number of sends and any TTL, as long as no send that outlived its claim *)
(* has popped the claim of another one.                                    *)
THEOREM NoDuplicateTheorem == Spec => []NoLiveDuplicateUnlessPoached
<1>1. QED BY IInvSafe, IInvInvariant, PTL

----------------------------------------------------------------------------
(* The stored history *)

\* What the cut leaves is the end of the list.
LEMMA LastNIsSuffix ==
  ASSUME NEW S, NEW s \in Seq(S), NEW n \in Nat \ {0}
  PROVE  \E d \in Nat :
           /\ d <= Len(s) /\ Len(LastN(s, n)) = Len(s) - d
           /\ d = 0 \/ d = Len(s) - n
           /\ \A i \in 1..Len(LastN(s, n)) : LastN(s, n)[i] = s[i + d]
<1>0. Len(s) \in Nat
  BY LenProperties
<1>1. CASE Len(s) <= n
  <2>1. LastN(s, n) = s
    BY <1>1 DEF LastN
  <2>2. WITNESS 0 \in Nat
  <2>3. QED BY <1>0, <2>1
<1>2. CASE ~(Len(s) <= n)
  <2> DEFINE d == Len(s) - n
  <2>1. d \in Nat /\ d + 1 \in 1..Len(s) + 1 /\ d <= Len(s)
    BY <1>0, <1>2
  <2>2. LastN(s, n) = SubSeq(s, d + 1, Len(s))
    BY <1>2 DEF LastN
  <2>3. /\ Len(SubSeq(s, d + 1, Len(s))) = Len(s) - d
        /\ \A i \in 1..Len(s) - d : SubSeq(s, d + 1, Len(s))[i] = s[i + d]
    BY <1>0, <2>1, SubSeqProperties
  <2>4. QED BY <2>1, <2>2, <2>3
<1>3. QED BY <1>1, <1>2

IsAsk(msg) == msg.role = "user"
\* A list of messages and what the requests were told: every question is one
\* of a send that was told so, stands once, and has an answer under it; every
\* send that was told so has its question there, or the list has been cut.
Paired(msgs) ==
  \A i \in DOMAIN msgs : IsAsk(msgs[i]) =>
    /\ msgs[i].by = msgs[i].question
    /\ i + 1 \in DOMAIN msgs /\ ~IsAsk(msgs[i + 1])
AskedOnce(msgs) ==
  \A i, j \in DOMAIN msgs :
    IsAsk(msgs[i]) /\ IsAsk(msgs[j]) /\ msgs[i].question = msgs[j].question => i = j
ByTheStored(msgs, tells) ==
  \A i \in DOMAIN msgs : msgs[i].by \in Send => tells[msgs[i].by] \in Stored
AskedUnlessCut(msgs, tells) ==
  \A s \in Send : tells[s] \in Stored =>
    Len(msgs) >= MaxMsgs \/ \E i \in DOMAIN msgs : IsAsk(msgs[i]) /\ msgs[i].question = s
Whole(msgs, tells) ==
  Paired(msgs) /\ AskedOnce(msgs) /\ ByTheStored(msgs, tells) /\ AskedUnlessCut(msgs, tells)

LEMMA CutKeepsWhole ==
  ASSUME NEW msgs \in Seq(Message), NEW tells, Whole(msgs, tells)
  PROVE  Whole(LastN(msgs, MaxMsgs), tells)
<1> DEFINE cut == LastN(msgs, MaxMsgs)
<1>0. MaxMsgs \in Nat \ {0} /\ Len(msgs) \in Nat /\ DOMAIN msgs = 1..Len(msgs)
  BY MaxMsgsAssumption, LenProperties
<1>1. PICK d \in Nat :
           /\ d <= Len(msgs) /\ Len(cut) = Len(msgs) - d
           /\ d = 0 \/ d = Len(msgs) - MaxMsgs
           /\ \A i \in 1..Len(cut) : cut[i] = msgs[i + d]
  BY <1>0, LastNIsSuffix
<1>2. cut \in Seq(Message)
  BY <1>0, LastNType
<1>3. DOMAIN cut = 1..Len(cut) /\ Len(cut) \in Nat
  BY <1>2, LenProperties
<1> HIDE DEF cut
<1> DEFINE n == Len(msgs)
           k == Len(cut)
<1> HIDE DEF n, k
<1>a. n \in Nat /\ k \in Nat /\ k = n - d /\ (d = 0 \/ d = n - MaxMsgs)
  BY <1>0, <1>1, <1>3 DEF n, k
<1>b. DOMAIN msgs = 1..n /\ DOMAIN cut = 1..k
  BY <1>0, <1>3 DEF n, k
<1>4. \A i \in DOMAIN cut : i \in Nat /\ i + d \in DOMAIN msgs /\ cut[i] = msgs[i + d]
  <2>1. \A i \in 1..k : i \in Nat /\ i + d \in 1..n
    BY <1>a
  <2>2. QED BY <1>1, <1>b, <2>1 DEF k
<1>5. \A i \in DOMAIN msgs : i > d => i - d \in DOMAIN cut /\ cut[i - d] = msgs[i]
  <2>1. \A i \in 1..n : i > d => i - d \in 1..k /\ (i - d) + d = i
    BY <1>a
  <2>2. QED BY <1>4, <1>b, <2>1
<1>6. Paired(cut)
  <2> SUFFICES ASSUME NEW i \in DOMAIN cut, IsAsk(cut[i])
               PROVE  /\ cut[i].by = cut[i].question
                      /\ i + 1 \in DOMAIN cut /\ ~IsAsk(cut[i + 1])
    BY DEF Paired
  <2>1. msgs[i + d].by = msgs[i + d].question /\ (i + d) + 1 \in DOMAIN msgs /\ ~IsAsk(msgs[(i + d) + 1])
    BY <1>4 DEF Whole, Paired
  <2>2. i + 1 \in DOMAIN cut /\ cut[i + 1] = msgs[(i + d) + 1]
    <3>1. (i + d) + 1 > d /\ ((i + d) + 1) - d = i + 1
      BY <1>4
    <3>2. QED BY <1>5, <2>1, <3>1
  <2>3. QED BY <1>4, <2>1, <2>2
<1>7. AskedOnce(cut)
  <2> SUFFICES ASSUME NEW i \in DOMAIN cut, NEW j \in DOMAIN cut,
                      IsAsk(cut[i]), IsAsk(cut[j]), cut[i].question = cut[j].question
               PROVE  i = j
    BY DEF AskedOnce
  <2>1. i + d = j + d
    BY <1>4 DEF Whole, AskedOnce
  <2>2. QED BY <1>4, <2>1
<1>8. ByTheStored(cut, tells)
  BY <1>4 DEF Whole, ByTheStored
<1>9. AskedUnlessCut(cut, tells)
  <2> SUFFICES ASSUME NEW s \in Send, tells[s] \in Stored, ~(Len(cut) >= MaxMsgs)
               PROVE  \E i \in DOMAIN cut : IsAsk(cut[i]) /\ cut[i].question = s
    BY DEF AskedUnlessCut
  <2>1. d = 0
    BY <1>0, <1>a DEF k
  <2>2. ~(Len(msgs) >= MaxMsgs)
    BY <1>0, <1>1, <2>1
  <2>3. PICK i \in DOMAIN msgs : IsAsk(msgs[i]) /\ msgs[i].question = s
    BY <2>2 DEF Whole, AskedUnlessCut
  <2>4. i > d /\ i - d = i
    BY <1>0, <2>1
  <2>5. QED BY <1>5, <2>3, <2>4
<1>10. QED BY <1>6, <1>7, <1>8, <1>9 DEF cut, Whole

\* An answer of a regenerate, put at the end.
LEMMA AnswerKeepsWhole ==
  ASSUME NEW msgs \in Seq(Message), NEW tells, Whole(msgs, tells),
         NEW msg \in Message, ~IsAsk(msg), msg.by \notin Send
  PROVE  Whole(Append(msgs, msg), tells)
<1> DEFINE more == Append(msgs, msg)
<1>1. /\ Len(msgs) \in Nat /\ DOMAIN msgs = 1..Len(msgs)
      /\ Len(more) = Len(msgs) + 1 /\ DOMAIN more = 1..Len(msgs) + 1
      /\ more[Len(msgs) + 1] = msg /\ \A i \in DOMAIN msgs : more[i] = msgs[i]
  BY LenProperties, AppendProperties
<1> HIDE DEF more
<1>2. \A i \in DOMAIN more : i \in DOMAIN msgs \/ (i = Len(msgs) + 1 /\ more[i] = msg)
  BY <1>1
<1>3. DOMAIN msgs \subseteq DOMAIN more
  BY <1>1
<1>4. Paired(more)
  BY <1>1, <1>2, <1>3 DEF Whole, Paired
<1>5. AskedOnce(more)
  BY <1>1, <1>2 DEF Whole, AskedOnce
<1>6. ByTheStored(more, tells)
  BY <1>1, <1>2 DEF Whole, ByTheStored
<1>7. AskedUnlessCut(more, tells)
  <2> SUFFICES ASSUME NEW s \in Send, tells[s] \in Stored, ~(Len(more) >= MaxMsgs)
               PROVE  \E i \in DOMAIN more : IsAsk(more[i]) /\ more[i].question = s
    BY DEF AskedUnlessCut
  <2>1. ~(Len(msgs) >= MaxMsgs)
    BY <1>1, MaxMsgsAssumption
  <2>2. QED BY <1>1, <1>3, <2>1 DEF Whole, AskedUnlessCut
<1>8. QED BY <1>4, <1>5, <1>6, <1>7 DEF more, Whole

\* An answer of a regenerate, put in the place of another.
LEMMA SwapKeepsWhole ==
  ASSUME NEW msgs \in Seq(Message), NEW tells, Whole(msgs, tells), NEW i \in DOMAIN msgs,
         ~IsAsk(msgs[i]), NEW msg \in Message, ~IsAsk(msg), msg.by \notin Send
  PROVE  Whole([msgs EXCEPT ![i] = msg], tells)
<1> DEFINE new == [msgs EXCEPT ![i] = msg]
<1>1. /\ DOMAIN new = DOMAIN msgs /\ new[i] = msg
      /\ \A j \in DOMAIN msgs : j # i => new[j] = msgs[j]
  OBVIOUS
<1>2. Len(new) = Len(msgs)
  BY ExceptSeq
<1> HIDE DEF new
<1>3. Paired(new)
  BY <1>1 DEF Whole, Paired
<1>4. AskedOnce(new)
  BY <1>1 DEF Whole, AskedOnce
<1>5. ByTheStored(new, tells)
  BY <1>1 DEF Whole, ByTheStored
<1>6. AskedUnlessCut(new, tells)
  BY <1>1, <1>2 DEF Whole, AskedUnlessCut
<1>7. QED BY <1>3, <1>4, <1>5, <1>6 DEF new, Whole

\* The two messages of a send that has left nothing so far.
LEMMA TurnKeepsWhole ==
  ASSUME NEW msgs \in Seq(Message), NEW tells, NEW tells2, Whole(msgs, tells), NEW s \in Send,
         tells[s] \notin Stored, tells2[s] \in Stored, \A u \in Send : u # s => tells2[u] = tells[u],
         NEW ask \in Message, IsAsk(ask), ask.by = s, ask.question = s,
         NEW answer \in Message, ~IsAsk(answer), answer.by = s
  PROVE  Whole(msgs \o <<ask, answer>>, tells2)
<1> DEFINE more == msgs \o <<ask, answer>>
           n == Len(msgs)
<1>0. <<ask, answer>> \in Seq(Message) /\ Len(<<ask, answer>>) = 2
      /\ <<ask, answer>>[1] = ask /\ <<ask, answer>>[2] = answer
  OBVIOUS
<1>1. /\ n \in Nat /\ DOMAIN msgs = 1..n /\ Len(more) = n + 2 /\ more \in Seq(Message)
  BY <1>0, LenProperties, ConcatProperties
<1>2. DOMAIN more = 1..n + 2
  BY <1>1, LenProperties
<1>3. more[n + 1] = ask /\ more[n + 2] = answer /\ \A i \in DOMAIN msgs : more[i] = msgs[i]
  BY <1>0, <1>1, ConcatProperties
<1> HIDE DEF more
<1>4. \A i \in DOMAIN more : \/ i \in DOMAIN msgs
                             \/ i = n + 1 /\ more[i] = ask
                             \/ i = n + 2 /\ more[i] = answer
  BY <1>1, <1>2, <1>3
<1>5. DOMAIN msgs \subseteq DOMAIN more /\ n + 1 \in DOMAIN more /\ n + 2 \in DOMAIN more
  BY <1>1, <1>2
<1>6. \A i \in DOMAIN msgs : msgs[i].by # s /\ (IsAsk(msgs[i]) => msgs[i].question # s)
  BY DEF Whole, ByTheStored, Paired
<1>7. Paired(more)
  <2> SUFFICES ASSUME NEW i \in DOMAIN more, IsAsk(more[i])
               PROVE  more[i].by = more[i].question /\ i + 1 \in DOMAIN more /\ ~IsAsk(more[i + 1])
    BY DEF Paired
  <2>1. CASE i \in DOMAIN msgs
    BY <1>3, <1>5, <2>1 DEF Whole, Paired
  <2>2. CASE i = n + 1
    BY <1>1, <1>3, <1>5, <2>2
  <2>3. QED BY <1>4, <2>1, <2>2
<1>8. AskedOnce(more)
  BY <1>1, <1>3, <1>4, <1>6 DEF Whole, AskedOnce
<1>9. ByTheStored(more, tells2)
  BY <1>3, <1>4, <1>6 DEF Whole, ByTheStored
<1>10. AskedUnlessCut(more, tells2)
  <2> SUFFICES ASSUME NEW u \in Send, tells2[u] \in Stored, ~(Len(more) >= MaxMsgs)
               PROVE  \E i \in DOMAIN more : IsAsk(more[i]) /\ more[i].question = u
    BY DEF AskedUnlessCut
  <2>1. CASE u = s
    BY <1>3, <1>5, <2>1
  <2>2. CASE u # s
    <3>1. ~(Len(msgs) >= MaxMsgs) /\ tells[u] \in Stored
      BY <1>1, <2>2, MaxMsgsAssumption
    <3>2. QED BY <1>3, <1>5, <3>1 DEF Whole, AskedUnlessCut
  <2>3. QED BY <2>1, <2>2
<1>11. QED BY <1>7, <1>8, <1>9, <1>10 DEF more, Whole

\* A send that has not got as far has been told nothing.
NotYet == \A s \in Send : pc[s] \in {"idle", "claimed", "working"} => told[s] = "nothing"
HistInv == IInv /\ NotYet /\ Whole(current, told)

LEMMA HistInitially == Init => HistInv
<1> SUFFICES ASSUME Init PROVE HistInv
  OBVIOUS
<1>1. Whole(current, told)
  BY DEF Init, Whole, Paired, AskedOnce, ByTheStored, AskedUnlessCut, Stored, Actor
<1>2. NotYet
  BY DEF Init, NotYet, Actor
<1>3. QED BY <1>1, <1>2, InitIInv DEF HistInv

LEMMA SilenceKeepsWhole ==
  ASSUME HistInv, UNCHANGED current,
         \A s \in Send : told'[s] \in Stored <=> told[s] \in Stored
  PROVE  Whole(current, told)'
BY DEF HistInv, Whole, Paired, AskedOnce, ByTheStored, AskedUnlessCut

\* Nobody is told anything but in the steps that follow.
LEMMA PersistKeepsWhole ==
  ASSUME HistInv, NEW s \in Send, NEW fail \in BOOLEAN, NEW aw \in Pointer,
         NEW outcome \in Stored, Persist(s, fail, aw, outcome)
  PROVE  NotYet' /\ Whole(current, told)'
<1>0. s \in Actor /\ TypeOK /\ pc[s] = "working" /\ pc' = [pc EXCEPT ![s] = "leaving"]
      /\ told' = [told EXCEPT ![s] = outcome]
      /\ current' = Appended(<<UserMsg(s), Assistant(s, s, fail, aw)>>)
  BY DEF HistInv, IInv, Persist, Goes, Answers, Actor
<1>1. \A u \in Send : u \in Actor
  BY DEF Actor
<1>2. /\ \A u \in Send : u # s => told'[u] = told[u] /\ pc'[u] = pc[u]
      /\ told'[s] = outcome /\ pc'[s] = "leaving"
  BY <1>0, <1>1 DEF TypeOK
<1>3. NotYet'
  BY <1>2 DEF HistInv, NotYet
<1>4. told[s] \notin Stored
  BY <1>0 DEF HistInv, NotYet, Stored
<1>5. /\ UserMsg(s) \in Message /\ Assistant(s, s, fail, aw) \in Message
      /\ IsAsk(UserMsg(s)) /\ UserMsg(s).by = s /\ UserMsg(s).question = s
      /\ ~IsAsk(Assistant(s, s, fail, aw)) /\ Assistant(s, s, fail, aw).by = s
  BY <1>0, MessageType DEF IsAsk, UserMsg, Assistant
<1> DEFINE two == <<UserMsg(s), Assistant(s, s, fail, aw)>>
<1>6. Whole(current \o two, told')
  <2>1. current \in Seq(Message) /\ Whole(current, told)
    BY <1>0 DEF HistInv, TypeOK
  <2>2. told'[s] \in Stored /\ \A u \in Send : u # s => told'[u] = told[u]
    BY <1>2
  <2>3. QED BY <2>1, <2>2, <1>4, <1>5, TurnKeepsWhole
<1>7. current \o two \in Seq(Message)
  BY <1>0, <1>5, ConcatProperties DEF TypeOK
<1> HIDE DEF two
<1>8. Whole(LastN(current \o two, MaxMsgs), told')
  BY <1>6, <1>7, CutKeepsWhole
<1>9. QED BY <1>0, <1>3, <1>8 DEF Appended, two

LEMMA RegenKeepsWhole ==
  ASSUME HistInv, NEW r \in Regen, RegenStep(r)
  PROVE  NotYet' /\ Whole(current, told)'
<1>0. r \in Actor /\ r \notin Send /\ TypeOK /\ \A u \in Send : u \in Actor /\ u # r
  BY ActorsAssumption DEF HistInv, IInv, Actor
<1>1. ASSUME \A u \in Send : told'[u] = told[u] /\ pc'[u] = pc[u]
      PROVE  NotYet' /\ (UNCHANGED current => Whole(current, told)')
    BY <1>1, SilenceKeepsWhole DEF HistInv, NotYet
<1>2. CASE RegenSnapshot(r) \/ RegenRefuse(r) \/ RegenFail(r)
  BY <1>0, <1>1, <1>2 DEF RegenSnapshot, RegenRefuse, RegenFail, Goes, Answers, TypeOK
<1>3. ASSUME NEW content, RegenPersist(r, content)
      PROVE  pc[r] = "working" /\ current' = content /\ NotYet' /\ (Whole(content, told) => Whole(current, told)')
  <2>1. \A u \in Send : told'[u] = told[u] /\ pc'[u] = pc[u]
    BY <1>0, <1>3 DEF RegenPersist, Goes, Answers, TypeOK
  <2>2. pc[r] = "working" /\ current' = content
    BY <1>3 DEF RegenPersist
  <2>3. Whole(content, told) => Whole(current', told')
    BY <2>1, <2>2 DEF Whole, Paired, AskedOnce, ByTheStored, AskedUnlessCut
  <2>4. QED BY <1>1, <2>1, <2>2, <2>3
<1>4. ASSUME pc[r] = "working", NEW aw \in Pointer
      PROVE  /\ Whole(Appended(<<Assistant(seen[r].question, r, FALSE, aw)>>), told)
             /\ Whole(Replaced(seen[r].index, Assistant(seen[r].question, r, FALSE, aw)), told)
  <2> DEFINE msg == Assistant(seen[r].question, r, FALSE, aw)
  <2>1. msg \in Message /\ ~IsAsk(msg) /\ msg.by \notin Send
    <3>1. seen[r].question \in Send
      BY <1>4 DEF HistInv, IInv, RegenReady
    <3>2. msg \in Message
      BY <1>0, <3>1, MessageType
    <3>3. QED BY <1>0, <3>2 DEF IsAsk, Assistant
  <2> HIDE DEF msg
  <2>2. current \in Seq(Message) /\ Whole(current, told)
    BY <1>0 DEF HistInv, TypeOK
  <2>3. Whole(Append(current, msg), told) /\ Append(current, msg) \in Seq(Message)
    BY <2>1, <2>2, AnswerKeepsWhole, AppendProperties
  <2>4. current \o <<msg>> = Append(current, msg)
    BY <2>1, <2>2, AppendIsConcat
  <2>5. Whole(Appended(<<msg>>), told)
    BY <2>3, <2>4, CutKeepsWhole DEF Appended
  <2>6. Whole(Replaced(seen[r].index, msg), told)
    <3>1. CASE seen[r].index \in DOMAIN current /\ current[seen[r].index].role = "assistant"
      <4>1. Whole([current EXCEPT ![seen[r].index] = msg], told)
        BY <2>1, <2>2, <3>1, SwapKeepsWhole DEF IsAsk
      <4>2. QED BY <2>3, <4>1 DEF Replaced
    <3>2. CASE ~(seen[r].index \in DOMAIN current /\ current[seen[r].index].role = "assistant")
      BY <2>3, <3>2 DEF Replaced
    <3>3. QED BY <3>1, <3>2
  <2>7. QED BY <2>5, <2>6 DEF msg
<1>5. CASE RegenClarify(r)
  <2>1. seen[r].awaiting \in Pointer
    BY <1>0 DEF TypeOK, View
  <2>2. QED BY <1>3, <1>4, <1>5, <2>1 DEF RegenClarify
<1>6. CASE RegenAnswer(r)
  <2>1. PICK aw \in Pointer :
           RegenPersist(r, IF seen[r].failed
                           THEN Replaced(seen[r].index, Assistant(seen[r].question, r, FALSE, aw))
                           ELSE Appended(<<Assistant(seen[r].question, r, FALSE, aw)>>))
    BY <1>6 DEF RegenAnswer
  <2>2. QED BY <1>3, <1>4, <2>1
<1>7. QED BY <1>2, <1>5, <1>6 DEF RegenStep

LEMMA SendKeepsWhole ==
  ASSUME HistInv, NEW s \in Send, SendStep(s)
  PROVE  NotYet' /\ Whole(current, told)'
<1>0. s \in Actor /\ TypeOK /\ \A u \in Send : u \in Actor
  BY DEF HistInv, IInv, Actor
<1>1. seen[s].awaiting \in Pointer
  BY <1>0 DEF TypeOK, View
<1>2. CASE Complete(s)
  BY <1>2, PersistKeepsWhole DEF Complete, Stored
<1>3. CASE Canned(s)
  BY <1>1, <1>3, PersistKeepsWhole DEF Canned, Stored
<1>4. CASE Fail(s)
  BY <1>1, <1>4, PersistKeepsWhole DEF Fail, Stored
<1>5. ASSUME UNCHANGED current,
             \/ told' = told \/ \E outcome \in Outcome \ Stored : told' = [told EXCEPT ![s] = outcome] /\ told[s] = "nothing",
             \/ pc' = [pc EXCEPT ![s] = "leaving"] \/ pc' = [pc EXCEPT ![s] = "done"]
             \/ told' = told /\ (pc' = [pc EXCEPT ![s] = "claimed"] \/ pc' = [pc EXCEPT ![s] = "working"])
                             /\ pc[s] \in {"idle", "claimed"}
      PROVE  NotYet' /\ Whole(current, told)'
  <2>1. \A u \in Send : u # s => told'[u] = told[u] /\ pc'[u] = pc[u]
    BY <1>0, <1>5 DEF TypeOK
  <2>2. told'[s] \in Stored <=> told[s] \in Stored
    BY <1>0, <1>5 DEF TypeOK, Stored
  <2>3. NotYet'
    <3>1. \/ pc'[s] \in {"leaving", "done"}
          \/ told'[s] = told[s] /\ pc[s] \in {"idle", "claimed"}
      BY <1>0, <1>5 DEF TypeOK
    <3>2. QED BY <2>1, <3>1 DEF HistInv, NotYet
  <2>4. \A u \in Send : told'[u] \in Stored <=> told[u] \in Stored
    BY <2>1, <2>2
  <2>5. QED BY <1>5, <2>3, <2>4, SilenceKeepsWhole
<1>6. pc[s] \in {"idle", "claimed", "working"} => told[s] = "nothing"
  BY DEF HistInv, NotYet
<1>7. CASE Duplicate(s)
  BY <1>5, <1>6, <1>7 DEF Duplicate, Goes, Answers, Outcome, Stored
<1>8. CASE Claim(s) \/ Snapshot(s)
  BY <1>5, <1>8 DEF Claim, Snapshot, Goes
<1>9. CASE Refuse(s)
  BY <1>5, <1>6, <1>9 DEF Refuse, Goes, Answers, Outcome, Stored
<1>10. CASE Abandon(s)
  BY <1>5, <1>6, <1>10 DEF Abandon, Goes, Answers, Outcome, Stored
<1>11. CASE Release(s)
  BY <1>5, <1>11 DEF Release, Goes
<1>12. QED
  BY <1>2, <1>3, <1>4, <1>7, <1>8, <1>9, <1>10, <1>11 DEF SendStep

LEMMA HistKept == HistInv /\ [Next]_vars => HistInv'
<1> SUFFICES ASSUME HistInv, [Next]_vars PROVE NotYet' /\ Whole(current, told)'
  BY NextType, NextReady, NextHeld DEF HistInv, IInv
<1>1. CASE \E s \in Send : SendStep(s)
  BY <1>1, SendKeepsWhole
<1>2. CASE \E r \in Regen : RegenStep(r)
  BY <1>2, RegenKeepsWhole
<1>3. CASE Restart
  <2>1. \A s \in Send : s \in Actor
    BY DEF Actor
  <2>2. \A s \in Send : told'[s] \in Stored <=> told[s] \in Stored
    BY <1>3, <2>1 DEF Restart, Stored
  <2>3. \A s \in Send : pc'[s] = "idle" => pc[s] = "idle" /\ told'[s] = told[s]
    BY <1>3, <2>1 DEF Restart, Running
  <2>4. \A s \in Send : pc'[s] \notin {"claimed", "working"}
    BY <1>3, <2>1 DEF Restart, Running
  <2>5. NotYet'
    BY <2>3, <2>4 DEF HistInv, NotYet
  <2>6. UNCHANGED current
    BY <1>3 DEF Restart
  <2>7. QED BY <2>2, <2>5, <2>6, SilenceKeepsWhole
<1>4. CASE Tick \/ UNCHANGED vars
  BY <1>4, SilenceKeepsWhole DEF Tick, vars, HistInv, NotYet
<1>5. QED BY <1>1, <1>2, <1>3, <1>4 DEF Next

(* A send that was told an answer or a failure has its question in the     *)
(* history once, with an answer under it, until the oldest messages are    *)
(* cut off; one that was told anything else has left nothing: for any      *)
(* number of sends, regenerates and restarts and any cap.                  *)
THEOREM PersistedTheorem == Spec => []PersistedOnceOrNotAtAll
<1>1. HistInv => PersistedOnceOrNotAtAll
  <2> SUFFICES ASSUME HistInv, NEW s \in Send
               PROVE IF told[s] \in Stored
                     THEN \/ AsksAt(s) = {} /\ Len(current) >= MaxMsgs
                          \/ \E i \in DOMAIN current : /\ AsksAt(s) = {i} /\ i < Len(current)
                                                       /\ current[i + 1].role = "assistant"
                     ELSE AsksAt(s) = {} /\ \A i \in DOMAIN current : current[i].by # s
    BY DEF PersistedOnceOrNotAtAll
  <2>0. /\ current \in Seq(Message) /\ DOMAIN current = 1..Len(current) /\ Len(current) \in Nat
        /\ \A i \in DOMAIN current : current[i] \in Message
    BY LenProperties, ElementOfSeq DEF HistInv, IInv, TypeOK
  <2>1. CASE told[s] \in Stored
    <3>1. CASE AsksAt(s) = {}
      BY <2>1, <3>1 DEF HistInv, Whole, AskedUnlessCut, AsksAt, IsAsk
    <3>2. CASE AsksAt(s) # {}
      <4>1. PICK i \in DOMAIN current : IsAsk(current[i]) /\ current[i].question = s
        BY <3>2 DEF AsksAt, IsAsk
      <4>2. AsksAt(s) = {i}
        BY <4>1 DEF HistInv, Whole, AskedOnce, AsksAt, IsAsk
      <4>3. i + 1 \in DOMAIN current /\ ~IsAsk(current[i + 1])
        BY <4>1 DEF HistInv, Whole, Paired
      <4>4. i < Len(current) /\ current[i + 1].role = "assistant"
        <5>1. current[i + 1] \in Message
          BY <2>0, <4>3
        <5>2. QED BY <2>0, <4>3, <5>1 DEF IsAsk, Message
      <4>5. QED BY <2>1, <4>2, <4>4
    <3>3. QED BY <3>1, <3>2
  <2>2. CASE told[s] \notin Stored
    <3>1. \A i \in DOMAIN current : current[i].by # s
      BY <2>2 DEF HistInv, Whole, ByTheStored
    <3>2. AsksAt(s) = {}
      BY <3>1 DEF HistInv, Whole, Paired, AsksAt, IsAsk
    <3>3. QED BY <2>2, <3>1, <3>2
  <2>3. QED BY <2>1, <2>2
<1>2. QED BY <1>1, HistInitially, HistKept, PTL DEF Spec

\* A message is still there, no lower than it was, or the cut has reached it.
StaysOrIsCut(i) ==
  \/ \E j \in 1..i : j <= Len(current') /\ current'[j] = current[i]
  \/ i <= Len(current) + 2 - MaxMsgs

LEMMA AppendedMoves ==
  ASSUME current \in Seq(Message), NEW msgs \in Seq(Message), Len(msgs) <= 2,
         current' = Appended(msgs), NEW i \in DOMAIN current
  PROVE  StaysOrIsCut(i)
<1> DEFINE full == current \o msgs
           n == Len(current)
           k == Len(current')
<1>1. n \in Nat /\ i \in 1..n /\ Len(msgs) \in Nat /\ Len(msgs) <= 2 /\ MaxMsgs \in Nat \ {0}
  BY LenProperties, MaxMsgsAssumption
<1>2. full \in Seq(Message) /\ Len(full) = n + Len(msgs) /\ full[i] = current[i]
  BY <1>1, ConcatProperties
<1> HIDE DEF full
<1>3. current' = LastN(full, MaxMsgs)
  BY DEF Appended, full
<1>4. PICK d \in Nat :
           /\ d <= Len(full) /\ Len(LastN(full, MaxMsgs)) = Len(full) - d
           /\ d = 0 \/ d = Len(full) - MaxMsgs
           /\ \A j \in 1..Len(LastN(full, MaxMsgs)) : LastN(full, MaxMsgs)[j] = full[j + d]
  BY <1>1, <1>2, LastNIsSuffix
<1>5. k = n + Len(msgs) - d /\ \A j \in 1..k : current'[j] = full[j + d]
  BY <1>1, <1>2, <1>3, <1>4
<1> HIDE DEF n, k
<1>6. CASE i > d
  <2>1. i - d \in 1..i /\ i - d <= k /\ i - d \in 1..k /\ (i - d) + d = i
    BY <1>1, <1>5, <1>6
  <2>2. current'[i - d] = current[i]
    BY <1>2, <1>5, <2>1
  <2>3. QED BY <2>1, <2>2 DEF StaysOrIsCut, k
<1>7. CASE ~(i > d)
  <2>1. d = n + Len(msgs) - MaxMsgs
    BY <1>1, <1>2, <1>4, <1>7
  <2>2. i <= n + 2 - MaxMsgs
    BY <1>1, <1>7, <2>1
  <2>3. QED BY <2>2 DEF StaysOrIsCut, n
<1>8. QED BY <1>6, <1>7

LEMMA AnswersKept ==
  ASSUME IInv, [Next]_vars, NEW i \in DOMAIN current, current[i].role = "assistant", ~current[i].failed
  PROVE  StaysOrIsCut(i)
<1>0. current \in Seq(Message) /\ DOMAIN current = 1..Len(current) /\ Len(current) \in Nat /\ i \in 1..i
  BY LenProperties DEF IInv, TypeOK
<1>1. CASE UNCHANGED current
  BY <1>0, <1>1 DEF StaysOrIsCut
<1>2. ASSUME NEW s \in Send, NEW fail \in BOOLEAN, NEW aw \in Pointer, NEW outcome, Persist(s, fail, aw, outcome)
      PROVE  StaysOrIsCut(i)
  <2>1. UserMsg(s) \in Message /\ Assistant(s, s, fail, aw) \in Message
    BY MessageType DEF Actor
  <2>2. current' = Appended(<<UserMsg(s), Assistant(s, s, fail, aw)>>)
    BY <1>2 DEF Persist
  <2>3. <<UserMsg(s), Assistant(s, s, fail, aw)>> \in Seq(Message)
        /\ Len(<<UserMsg(s), Assistant(s, s, fail, aw)>>) <= 2
    BY <2>1
  <2>4. QED BY <1>0, <2>2, <2>3, AppendedMoves
<1>3. ASSUME NEW s \in Send, SendStep(s) PROVE StaysOrIsCut(i)
  <2>1. seen[s].awaiting \in Pointer
    BY DEF IInv, TypeOK, View, Actor
  <2>2. CASE Complete(s) \/ Canned(s) \/ Fail(s)
    BY <1>2, <2>1, <2>2 DEF Complete, Canned, Fail
  <2>3. CASE ~(Complete(s) \/ Canned(s) \/ Fail(s))
    BY <1>1, <1>3, <2>3 DEF SendStep, Duplicate, Claim, Refuse, Snapshot, Abandon, Release
  <2>4. QED BY <2>2, <2>3
<1>4. ASSUME NEW r \in Regen, RegenStep(r) PROVE StaysOrIsCut(i)
  <2>1. ASSUME pc[r] = "working", NEW aw \in Pointer,
               \/ current' = Appended(<<Assistant(seen[r].question, r, FALSE, aw)>>)
               \/ current' = Replaced(seen[r].index, Assistant(seen[r].question, r, FALSE, aw))
        PROVE  StaysOrIsCut(i)
    <3> DEFINE msg == Assistant(seen[r].question, r, FALSE, aw)
    <3>1. msg \in Message
      BY <2>1, MessageType DEF IInv, RegenReady, Actor
    <3> HIDE DEF msg
    <3>2. CASE current' = Appended(<<msg>>)
      <4>1. <<msg>> \in Seq(Message) /\ Len(<<msg>>) <= 2
        BY <3>1
      <4>2. QED BY <1>0, <3>2, <4>1, AppendedMoves
    <3>3. CASE current' = Append(current, msg)
      <4>1. Len(current') = Len(current) + 1 /\ current'[i] = current[i]
        BY <1>0, <3>1, <3>3, AppendProperties
      <4>2. i <= Len(current')
        BY <1>0, <4>1
      <4>3. QED BY <1>0, <4>1, <4>2 DEF StaysOrIsCut
    <3>4. ASSUME NEW k \in DOMAIN current, current[k].failed, current' = [current EXCEPT ![k] = msg]
          PROVE  StaysOrIsCut(i)
      <4>1. current'[i] = current[i]
        BY <1>0, <3>4
      <4>2. Len(current') = Len(current)
        BY <1>0, <3>1, <3>4, ExceptSeq
      <4>3. QED BY <1>0, <4>1, <4>2 DEF StaysOrIsCut
    <3>5. QED BY <2>1, <3>2, <3>3, <3>4 DEF Replaced, msg
  <2>2. CASE RegenClarify(r)
    <3>1. seen[r].awaiting \in Pointer
      BY DEF IInv, TypeOK, View, Actor
    <3>2. QED BY <2>1, <2>2, <3>1 DEF RegenClarify, RegenPersist
  <2>3. CASE RegenAnswer(r)
    <3>1. PICK aw \in Pointer :
             RegenPersist(r, IF seen[r].failed
                             THEN Replaced(seen[r].index, Assistant(seen[r].question, r, FALSE, aw))
                             ELSE Appended(<<Assistant(seen[r].question, r, FALSE, aw)>>))
      BY <2>3 DEF RegenAnswer
    <3>2. QED BY <2>1, <3>1 DEF RegenPersist
  <2>4. QED BY <1>1, <1>4, <2>2, <2>3 DEF RegenStep, RegenSnapshot, RegenRefuse, RegenFail
<1>5. CASE Tick \/ Restart \/ UNCHANGED vars
  BY <1>1, <1>5 DEF Tick, Restart, vars
<1>6. QED BY <1>3, <1>4, <1>5 DEF Next

(* A live answer leaves the history only by the cut at its old end, for any *)
(* number of requests and however stale the indexes that they work with.    *)
THEOREM LiveAnswersTheorem == Spec => LiveAnswersKept
<1>1. IInv /\ [Next]_vars =>
        [\A i \in DOMAIN current :
           current[i].role = "assistant" /\ ~current[i].failed
           => \/ \E j \in 1..i : j <= Len(current') /\ current'[j] = current[i]
              \/ i <= Len(current) + 2 - MaxMsgs ]_current
  BY AnswersKept DEF StaysOrIsCut
<1>2. QED BY <1>1, IInvInvariant, PTL DEF Spec, LiveAnswersKept

----------------------------------------------------------------------------
(* The mirror in object storage *)

Written == [File -> 0..writes]
UploadStates == {"idle", "unfit", "scanned", "built", "put"}
Upload == [at : UploadStates, fp : Written, archive : Written]
MirrorTypeOK ==
  /\ writes \in Nat
  /\ disk \in Written /\ remote \in Written /\ lastFp \in Written
  /\ up \in [Uploader -> Upload] /\ todo \in SUBSET File /\ unnotified \in SUBSET File
  /\ proc \in {"down", "restoring", "up"}
  /\ proc # "up" => ~dirty /\ unnotified = {} /\ \A u \in Uploader : up[u].at = "idle"

\* Without an overlap one upload is under way at a time, and the mark is set
\* until it ends.
Busy(u) == up[u].at # "idle"
OneAtATime ==
  /\ \A u, v \in Uploader : Busy(u) /\ Busy(v) => u = v
  /\ \A u \in Uploader : Busy(u) => dirty

\* No content returns: once a write has come between, the directory is neither
\* what a scan saw nor what was last uploaded.
ScansTruthful ==
  \A u \in Uploader :
    /\ up[u].at \in {"scanned", "built", "put"} => (disk = lastFp => up[u].fp = disk)
    /\ up[u].at \in {"built", "put"} => up[u].fp # lastFp
    /\ up[u].at = "built" => (disk = up[u].fp => up[u].archive = disk)
    /\ up[u].at = "put" => (disk = up[u].fp => remote = disk)
Mirrored ==
  slipped \/ /\ disk = lastFp => remote = disk
             /\ proc # "up" => remote = disk
             /\ ~dirty /\ unnotified = {} /\ Fit(disk) => remote = disk
MirrorInv ==
  MirrorTypeOK /\ (overlapped \/ (OneAtATime /\ ScansTruthful /\ Mirrored))

\* One name for each way to be between two contents.
LEMMA WrittenGrows ==
  ASSUME writes \in Nat, writes' \in Nat, writes <= writes'
  PROVE  /\ Written \subseteq Written'
         /\ Upload \subseteq Upload'
<1>1. 0..writes \subseteq 0..writes'
  OBVIOUS
<1>2. Written \subseteq Written'
  BY <1>1 DEF Written
<1>3. QED BY <1>2 DEF Upload

LEMMA RestingType == ASSUME writes \in Nat PROVE Empty \in Written /\ Resting \in Upload /\ Resting.at = "idle"
BY DEF Empty, Written, Resting, Upload, UploadStates

LEMMA UploadType ==
  ASSUME NEW c \in Upload
  PROVE  /\ c.at \in UploadStates /\ c.fp \in Written /\ c.archive \in Written
         /\ \A at \in UploadStates : [c EXCEPT !.at = at] \in Upload
         /\ \A at \in UploadStates, a \in Written : [c EXCEPT !.at = at, !.archive = a] \in Upload
         /\ \A at \in UploadStates, fp \in Written : [c EXCEPT !.at = at, !.fp = fp] \in Upload
BY DEF Upload

LEMMA MirrorInitially == SnapshotsInit => MirrorInv
<1> SUFFICES ASSUME SnapshotsInit PROVE MirrorInv
  OBVIOUS
<1>1. MirrorTypeOK
  <2>1. writes \in Nat
    BY DEF SnapshotsInit
  <2>2. QED BY <2>1, RestingType DEF SnapshotsInit, MirrorTypeOK, Absent, Unknown
<1>2. \A u \in Uploader : up[u].at = "idle"
  BY DEF SnapshotsInit, Resting
<1>3. OneAtATime /\ ScansTruthful
  BY <1>2 DEF OneAtATime, Busy, ScansTruthful
<1>4. Mirrored
  BY DEF SnapshotsInit, Mirrored, Absent
<1>5. QED BY <1>1, <1>3, <1>4 DEF MirrorInv

LEMMA WriteStep ==
  ASSUME MirrorInv, NEW f \in File, Write(f)
  PROVE  MirrorInv'
<1>1. MirrorTypeOK /\ writes \in Nat
  BY DEF MirrorInv, MirrorTypeOK
<1>2. /\ writes' = writes + 1 /\ disk' = [disk EXCEPT ![f] = writes + 1] /\ unnotified' = unnotified \cup {f}
      /\ proc = "up" /\ UNCHANGED <<remote, proc, todo, dirty, lastFp, up, slipped, overlapped>>
  BY DEF Write
<1>3. Written \subseteq Written' /\ Upload \subseteq Upload'
  BY <1>1, <1>2, WrittenGrows
<1>4. disk' \in Written'
  BY <1>1, <1>2 DEF MirrorTypeOK, Written
<1>5. MirrorTypeOK'
  BY <1>1, <1>2, <1>3, <1>4 DEF MirrorTypeOK
<1>6. \A d \in Written : disk' # d
  BY <1>1, <1>2 DEF MirrorTypeOK, Written
<1>7. \A u \in Uploader : up[u].fp \in Written
  BY <1>1, UploadType DEF MirrorTypeOK
<1>8. ASSUME ~overlapped PROVE OneAtATime' /\ ScansTruthful' /\ Mirrored'
  <2>1. OneAtATime /\ ScansTruthful
    BY <1>8 DEF MirrorInv
  <2>2. OneAtATime'
    BY <1>2, <2>1 DEF OneAtATime, Busy
  <2>3. ScansTruthful'
    BY <1>1, <1>2, <1>6, <1>7, <2>1 DEF ScansTruthful, MirrorTypeOK
  <2>4. Mirrored'
    BY <1>1, <1>2, <1>6 DEF Mirrored, MirrorTypeOK
  <2>5. QED BY <2>2, <2>3, <2>4
<1>9. QED BY <1>2, <1>5, <1>8 DEF MirrorInv

LEMMA NotifyStep ==
  ASSUME MirrorInv, NEW f \in File, Notify(f)
  PROVE  MirrorInv'
<1>1. /\ unnotified' = unnotified \ {f} /\ dirty' = TRUE /\ f \in unnotified
      /\ UNCHANGED <<disk, remote, proc, todo, lastFp, up, writes, slipped, overlapped>>
  BY DEF Notify
<1>2. Written' = Written /\ Upload' = Upload
  BY <1>1 DEF Written, Upload
<1>3. MirrorTypeOK'
  BY <1>1, <1>2 DEF MirrorInv, MirrorTypeOK
<1>4. ASSUME ~overlapped PROVE OneAtATime' /\ ScansTruthful' /\ Mirrored'
  <2>1. OneAtATime /\ ScansTruthful /\ Mirrored /\ MirrorTypeOK
    BY <1>4 DEF MirrorInv
  <2>2. proc = "up"
    BY <1>1, <2>1 DEF MirrorTypeOK
  <2>3. QED BY <1>1, <2>1, <2>2 DEF OneAtATime, Busy, ScansTruthful, Mirrored
<1>5. QED BY <1>1, <1>3, <1>4 DEF MirrorInv

\* An upload that goes on, or gives up with the mark as it was.
LEMMA MirrorTypeKept ==
  ASSUME MirrorTypeOK, NEW u \in Uploader, NEW c \in Upload, up' = [up EXCEPT ![u] = c],
         UNCHANGED <<disk, proc, todo, unnotified, writes>>, proc = "up",
         remote' \in Written, lastFp' \in Written
  PROVE  /\ MirrorTypeOK' /\ up'[u] = c
         /\ \A v \in Uploader : v # u => up'[v] = up[v]
<1>1. Written' = Written /\ Upload' = Upload
  BY DEF Written, Upload
<1>2. QED BY <1>1 DEF MirrorTypeOK

\* Only a running process uploads.
LEMMA OnlyUp == ASSUME MirrorTypeOK, NEW u \in Uploader, Busy(u) PROVE proc = "up"
BY DEF MirrorTypeOK, Busy

LEMMA StartStep ==
  ASSUME MirrorInv, NEW u \in Uploader, Start(u)
  PROVE  MirrorInv'
<1>1. MirrorTypeOK /\ up[u] \in Upload /\ disk \in Written /\ writes \in Nat
  BY DEF MirrorInv, MirrorTypeOK
<1>2. /\ proc = "up" /\ up[u].at = "idle" /\ dirty
      /\ overlapped' = (overlapped \/ \E v \in Uploader : up[v].at # "idle")
      /\ UNCHANGED <<disk, proc, todo, unnotified, writes, remote, dirty, lastFp, slipped>>
  BY DEF Start, unmoved
<1>3. PICK c \in Upload : up' = [up EXCEPT ![u] = c] /\ (c.at = "unfit" \/ (c.at = "scanned" /\ c.fp = disk))
  <2>1. CASE Fit(disk)
    <3>1. [Resting EXCEPT !.at = "scanned", !.fp = disk] \in Upload
      BY <1>1, RestingType, UploadType DEF UploadStates
    <3>2. [Resting EXCEPT !.at = "scanned", !.fp = disk].at = "scanned" /\ [Resting EXCEPT !.at = "scanned", !.fp = disk].fp = disk
      BY DEF Resting
    <3>3. QED BY <2>1, <3>1, <3>2 DEF Start
  <2>2. CASE ~Fit(disk)
    <3>1. [up[u] EXCEPT !.at = "unfit"] \in Upload
      BY <1>1, UploadType DEF UploadStates
    <3>4. [up[u] EXCEPT !.at = "unfit"].at = "unfit"
      BY <1>1 DEF Upload
    <3>2. up' = [up EXCEPT ![u] = [up[u] EXCEPT !.at = "unfit"]]
      BY <2>2 DEF Start, Moves
    <3>3. QED BY <3>1, <3>2, <3>4
  <2>3. QED BY <2>1, <2>2
<1>4. MirrorTypeOK' /\ up'[u] = c /\ \A v \in Uploader : v # u => up'[v] = up[v]
  BY <1>1, <1>2, <1>3, MirrorTypeKept DEF MirrorTypeOK
<1>5. ASSUME ~overlapped' PROVE OneAtATime' /\ ScansTruthful' /\ Mirrored'
  <2>1. Mirrored /\ \A v \in Uploader : up[v].at = "idle"
    BY <1>2, <1>5 DEF MirrorInv
  <2>2. \A v \in Uploader : v # u => up'[v].at = "idle"
    BY <1>4, <2>1
  <2>3. OneAtATime'
    BY <1>2, <2>2 DEF OneAtATime, Busy
  <2>4. ScansTruthful'
    BY <1>2, <1>3, <1>4, <2>2 DEF ScansTruthful
  <2>5. Mirrored'
    BY <1>2, <2>1 DEF Mirrored
  <2>6. QED BY <2>3, <2>4, <2>5
<1>6. QED BY <1>4, <1>5 DEF MirrorInv

\* The end of the one upload there is.
LEMMA RestsKeeps ==
  ASSUME MirrorInv, NEW u \in Uploader, Busy(u), Rests(u),
         UNCHANGED <<disk, proc, todo, unnotified, writes, remote, overlapped>>,
         lastFp' \in Written,
         ~overlapped => (slipped' \/ /\ disk = lastFp' => remote = disk
                                     /\ ~dirty' /\ unnotified = {} /\ Fit(disk) => remote = disk)
  PROVE  MirrorInv'
<1>1. MirrorTypeOK /\ writes \in Nat /\ remote \in Written /\ proc = "up"
  BY OnlyUp DEF MirrorInv, MirrorTypeOK
<1>2. MirrorTypeOK' /\ up'[u] = Resting /\ \A v \in Uploader : v # u => up'[v] = up[v]
  BY <1>1, RestingType, MirrorTypeKept DEF Rests
<1>3. ASSUME ~overlapped PROVE OneAtATime' /\ ScansTruthful' /\ Mirrored'
  <2>1. OneAtATime
    BY <1>3 DEF MirrorInv
  <2>2. \A v \in Uploader : up'[v].at = "idle"
    BY <1>1, <1>2, <2>1, RestingType DEF OneAtATime, Busy
  <2>3. OneAtATime' /\ ScansTruthful'
    BY <2>2 DEF OneAtATime, Busy, ScansTruthful
  <2>4. Mirrored'
    BY <1>1, <1>3 DEF Mirrored
  <2>5. QED BY <2>3, <2>4
<1>4. QED BY <1>2, <1>3 DEF MirrorInv

LEMMA EndSteps ==
  ASSUME MirrorInv, NEW u \in Uploader,
         SkipUnfit(u) \/ SkipUnchanged(u) \/ Commit(u) \/ UploadFails(u)
  PROVE  MirrorInv'
<1>1. MirrorTypeOK /\ lastFp \in Written /\ up[u].fp \in Written
  BY UploadType DEF MirrorInv, MirrorTypeOK
<1>2. /\ Busy(u) /\ Rests(u) /\ UNCHANGED <<disk, proc, todo, unnotified, writes, remote, overlapped>>
  BY DEF SkipUnfit, SkipUnchanged, Commit, UploadFails, unmoved, Busy
<1>3. ASSUME NEW d \in Written, unnotified = {}, ~Misses(d) PROVE disk = d
  BY <1>1, <1>3 DEF Misses, MirrorTypeOK, Written
<1>4. CASE SkipUnfit(u)
  BY <1>1, <1>2, <1>4, RestsKeeps DEF SkipUnfit, MirrorInv, Mirrored
<1>5. CASE SkipUnchanged(u)
  <2>1. lastFp' = lastFp /\ slipped' = (slipped \/ Misses(lastFp))
    BY <1>5 DEF SkipUnchanged
  <2>2. ~overlapped => (slipped' \/ /\ disk = lastFp' => remote = disk
                                    /\ ~dirty' /\ unnotified = {} /\ Fit(disk) => remote = disk)
    BY <1>1, <1>3, <2>1 DEF MirrorInv, Mirrored
  <2>3. QED BY <1>1, <1>2, <2>1, <2>2, RestsKeeps
<1>6. CASE Commit(u)
  <2>1. lastFp' = up[u].fp /\ slipped' = Misses(remote) /\ up[u].at = "put"
    BY <1>6 DEF Commit
  <2>2. ~overlapped => (disk = lastFp' => remote = disk)
    BY <2>1 DEF MirrorInv, ScansTruthful
  <2>3. remote \in Written
    BY <1>1 DEF MirrorTypeOK
  <2>4. slipped' \/ (unnotified = {} => remote = disk)
    BY <1>3, <2>1, <2>3
  <2>5. QED BY <1>1, <1>2, <2>1, <2>2, <2>4, RestsKeeps
<1>7. CASE UploadFails(u)
  <2>1. UNCHANGED <<lastFp, dirty, slipped>>
    BY <1>7 DEF UploadFails
  <2>2. QED BY <1>1, <1>2, <2>1, RestsKeeps DEF MirrorInv, Mirrored
<1>8. QED BY <1>4, <1>5, <1>6, <1>7

LEMMA BuildStep ==
  ASSUME MirrorInv, NEW u \in Uploader, Build(u)
  PROVE  MirrorInv'
<1>1. MirrorTypeOK /\ up[u] \in Upload
  BY DEF MirrorInv, MirrorTypeOK
<1>2. /\ up[u].at = "scanned" /\ up[u].fp # lastFp
      /\ UNCHANGED <<disk, proc, todo, unnotified, writes, remote, dirty, lastFp, slipped, overlapped>>
  BY DEF Build, unmoved
<1> DEFINE a == [f \in File |-> IF up[u].fp[f] = 0 THEN 0 ELSE disk[f]]
<1>3. a \in Written /\ (disk = up[u].fp => a = disk)
  BY <1>1 DEF MirrorTypeOK, Written, Upload
<1>4. up' = [up EXCEPT ![u] = [up[u] EXCEPT !.at = "built", !.archive = a]]
  BY <1>1 DEF Build, MirrorTypeOK, Upload
<1> HIDE DEF a
<1> DEFINE c == [up[u] EXCEPT !.at = "built", !.archive = a]
<1>5. c \in Upload /\ c.at = "built" /\ c.fp = up[u].fp /\ c.archive = a
  <2>1. c \in Upload
    BY <1>1, <1>3, UploadType DEF UploadStates
  <2>2. c.at = "built" /\ c.fp = up[u].fp /\ c.archive = a
    BY <1>1 DEF Upload
  <2>3. QED BY <2>1, <2>2
<1> HIDE DEF c
<1>6. MirrorTypeOK' /\ up'[u] = c /\ \A v \in Uploader : v # u => up'[v] = up[v]
  <2>1. up' = [up EXCEPT ![u] = c]
    BY <1>4 DEF c
  <2>2. proc = "up"
    BY <1>1, <1>2, OnlyUp DEF Busy
  <2>3. QED BY <1>1, <1>2, <1>5, <2>1, <2>2, MirrorTypeKept DEF MirrorTypeOK
<1>7. ASSUME ~overlapped PROVE OneAtATime' /\ ScansTruthful' /\ Mirrored'
  <2>1. OneAtATime /\ ScansTruthful /\ Mirrored
    BY <1>7 DEF MirrorInv
  <2>2. OneAtATime'
    BY <1>2, <1>5, <1>6, <2>1 DEF OneAtATime, Busy
  <2>3. ScansTruthful'
    BY <1>2, <1>3, <1>5, <1>6, <2>1 DEF ScansTruthful
  <2>4. Mirrored'
    BY <1>2, <2>1 DEF Mirrored
  <2>5. QED BY <2>2, <2>3, <2>4
<1>8. QED BY <1>2, <1>6, <1>7 DEF MirrorInv

LEMMA PutStep ==
  ASSUME MirrorInv, NEW u \in Uploader, Put(u)
  PROVE  MirrorInv'
<1>1. MirrorTypeOK /\ up[u] \in Upload
  BY DEF MirrorInv, MirrorTypeOK
<1>2. /\ up[u].at = "built" /\ remote' = up[u].archive
      /\ UNCHANGED <<disk, proc, todo, unnotified, writes, dirty, lastFp, slipped, overlapped>>
  BY DEF Put, unmoved
<1> DEFINE c == [up[u] EXCEPT !.at = "put"]
<1>3. c \in Upload /\ c.at = "put" /\ c.fp = up[u].fp /\ remote' \in Written
  <2>1. c \in Upload /\ remote' \in Written
    BY <1>1, <1>2, UploadType DEF UploadStates
  <2>2. c.at = "put" /\ c.fp = up[u].fp
    BY <1>1 DEF Upload
  <2>3. QED BY <2>1, <2>2
<1>4. up' = [up EXCEPT ![u] = c]
  BY DEF Put, Moves
<1> HIDE DEF c
<1>5. MirrorTypeOK' /\ up'[u] = c /\ proc = "up" /\ \A v \in Uploader : v # u => up'[v] = up[v]
  <2>1. proc = "up"
    BY <1>1, <1>2, OnlyUp DEF Busy
  <2>2. QED BY <1>1, <1>2, <1>3, <1>4, <2>1, MirrorTypeKept DEF MirrorTypeOK
<1>6. ASSUME ~overlapped PROVE OneAtATime' /\ ScansTruthful' /\ Mirrored'
  <2>1. OneAtATime /\ ScansTruthful
    BY <1>6 DEF MirrorInv
  <2>2. \A v \in Uploader : v # u => up'[v].at = "idle"
    BY <1>2, <1>5, <2>1 DEF OneAtATime, Busy
  <2>3. dirty
    BY <1>2, <2>1 DEF OneAtATime, Busy
  <2>4. OneAtATime'
    BY <1>2, <2>2, <2>3 DEF OneAtATime, Busy
  <2>5. ScansTruthful'
    BY <1>2, <1>3, <1>5, <2>1, <2>2 DEF ScansTruthful
  <2>6. disk # lastFp
    BY <1>2, <2>1 DEF ScansTruthful
  <2>7. Mirrored'
    BY <1>2, <1>5, <2>3, <2>6 DEF Mirrored
  <2>8. QED BY <2>4, <2>5, <2>7
<1>7. QED BY <1>2, <1>5, <1>6 DEF MirrorInv

\* While nothing is uploaded only the directory and the mark matter.
LEMMA IdleKeeps ==
  ASSUME MirrorTypeOK', overlapped' = overlapped, \A u \in Uploader : up'[u].at = "idle", overlapped \/ Mirrored'
  PROVE  MirrorInv'
BY DEF MirrorInv, OneAtATime, Busy, ScansTruthful

LEMMA RestartSteps ==
  ASSUME MirrorInv, Crash \/ BootWithoutRestore \/ Download \/ Extract \/ Restored \/ RestoreFails
  PROVE  MirrorInv'
<1>1. MirrorTypeOK /\ writes \in Nat
  BY DEF MirrorInv, MirrorTypeOK
<1>2. CASE Crash
  <2>1. PICK keep \in {File, {Accounts}, {}} : disk' = [f \in File |-> IF f \in keep THEN disk[f] ELSE 0]
    BY <1>2 DEF Crash
  <2>2. /\ proc' = "down" /\ todo' = {} /\ dirty' = FALSE /\ unnotified' = {} /\ lastFp' = Unknown
        /\ up' = [u \in Uploader |-> Resting] /\ slipped' = (slipped \/ disk' # remote)
        /\ UNCHANGED <<remote, writes, overlapped>>
    BY <1>2 DEF Crash
  <2>3. disk' \in Written
    BY <1>1, <2>1 DEF MirrorTypeOK, Written
  <2>4. Written' = Written /\ Upload' = Upload
    BY <2>2 DEF Written, Upload
  <2>5. \A u \in Uploader : up'[u].at = "idle"
    BY <1>1, <2>2, RestingType
  <2>6. MirrorTypeOK'
    BY <1>1, <2>2, <2>3, <2>4, <2>5, RestingType DEF MirrorTypeOK, Unknown
  <2>7. Mirrored'
    BY <2>2 DEF Mirrored
  <2>8. QED BY <2>2, <2>5, <2>6, <2>7, IdleKeeps
<1>3. CASE BootWithoutRestore \/ Download \/ Extract \/ Restored \/ RestoreFails
  <2>1. proc # "up" /\ UNCHANGED <<remote, dirty, unnotified, up, writes, overlapped>>
    BY <1>3 DEF BootWithoutRestore, Download, Extract, Restored, RestoreFails, procVars
  <2>2. Written' = Written /\ Upload' = Upload
    BY <2>1 DEF Written, Upload
  <2>3. ~dirty /\ unnotified = {} /\ \A u \in Uploader : up[u].at = "idle"
    BY <1>1, <2>1 DEF MirrorTypeOK
  <2>4. /\ disk' \in Written /\ lastFp' \in Written /\ todo' \in SUBSET File
        /\ slipped' \/ ((slipped \/ remote = disk) => remote' = disk')
    <3>1. CASE Extract
      <4>1. PICK f \in todo : disk' = [disk EXCEPT ![f] = remote[f]] /\ todo' = todo \ {f}
        BY <3>1 DEF Extract
      <4>2. f \in File /\ UNCHANGED <<lastFp, slipped>>
        BY <1>1, <3>1, <4>1 DEF MirrorTypeOK, Extract, procVars
      <4>3. disk' \in Written
        BY <1>1, <4>1, <4>2 DEF MirrorTypeOK, Written
      <4>4. remote = disk => remote = disk'
        BY <1>1, <4>1, <4>2 DEF MirrorTypeOK, Written
      <4>5. QED BY <1>1, <2>1, <4>1, <4>2, <4>3, <4>4 DEF MirrorTypeOK
    <3>2. CASE Restored
      BY <1>1, <2>1, <3>2 DEF Restored, MirrorTypeOK
    <3>3. CASE BootWithoutRestore \/ Download \/ RestoreFails
      BY <1>1, <2>1, <3>3 DEF BootWithoutRestore, Download, RestoreFails, procVars, MirrorTypeOK
    <3>4. QED BY <1>3, <3>1, <3>2, <3>3
  <2>5. MirrorTypeOK'
    <3>1. proc' \in {"down", "restoring", "up"}
      BY <1>3, <2>1 DEF BootWithoutRestore, Download, Extract, Restored, RestoreFails
    <3>2. QED BY <1>1, <2>1, <2>2, <2>3, <2>4, <3>1 DEF MirrorTypeOK
  <2>6. ASSUME ~overlapped PROVE Mirrored'
    BY <2>1, <2>4, <2>6 DEF MirrorInv, Mirrored
  <2>7. QED BY <2>1, <2>3, <2>5, <2>6, IdleKeeps
<1>4. QED BY <1>2, <1>3

LEMMA MirrorStep ==
  ASSUME MirrorInv, [SnapshotsNext]_snapshotVars
  PROVE  MirrorInv'
<1>1. CASE UNCHANGED snapshotVars
  BY <1>1 DEF snapshotVars, MirrorInv, MirrorTypeOK, Written, Upload, OneAtATime, Busy, ScansTruthful, Mirrored
<1>2. CASE SnapshotsNext
  BY <1>2, WriteStep, NotifyStep, StartStep, EndSteps, BuildStep, PutStep, RestartSteps DEF SnapshotsNext, UploadStep
<1>3. QED BY <1>1, <1>2

\* When the data is not dirty storage holds every notified write, for any number
\* of files, uploaders, writes, crashes and failed transfers, unless the mark
\* was dropped over a write or two uploads overlapped.
THEOREM MirroredTheorem == SnapshotsSpec => []CleanMeansMirroredUnlessSlipped
<1>1. MirrorInv => CleanMeansMirroredUnlessSlipped
  BY DEF MirrorInv, Mirrored, CleanMeansMirroredUnlessSlipped, Quiet
<1>2. QED BY <1>1, MirrorInitially, MirrorStep, PTL DEF SnapshotsSpec

----------------------------------------------------------------------------
(* What reached storage stays there *)

\* An archive has only what the directory has, and while no restore has lost
\* anything the directory has all that storage has.
Covers(d, e) == \A f \in File : e[f] # 0 => d[f] # 0
ArchivesCover ==
  \A u \in Uploader :
    /\ up[u].at \in {"scanned", "built", "put"} => Covers(disk, up[u].fp)
    /\ up[u].at \in {"built", "put"} => Covers(disk, up[u].archive)
    /\ up[u].at = "scanned" => Covers(up[u].fp, remote)
    /\ up[u].at = "built" => Covers(up[u].archive, remote)
Recoverable ==
  /\ proc = "up" => Covers(disk, remote)
  /\ proc = "down" /\ Fit(disk) => Covers(disk, remote)
\* What a restore has not extracted yet it still has to.
Extracting == proc = "restoring" => \A f \in File : remote[f] # 0 => f \in todo \/ disk[f] # 0
KeepInv ==
  MirrorInv /\ Extracting /\ (botched \/ overlapped \/ (ArchivesCover /\ Recoverable))

LEMMA KeepInitially == SnapshotsInit => KeepInv
<1> SUFFICES ASSUME SnapshotsInit PROVE KeepInv
  OBVIOUS
<1>1. \A u \in Uploader : up[u].at = "idle"
  BY DEF SnapshotsInit, Resting
<1>2. ArchivesCover
  BY <1>1 DEF ArchivesCover
<1>3. Recoverable
  BY DEF SnapshotsInit, Recoverable, Covers, Absent
<1>4. Extracting
  BY DEF SnapshotsInit, Extracting
<1>5. QED BY <1>2, <1>3, <1>4, MirrorInitially DEF KeepInv

\* While the process runs no file leaves the directory.
LEMMA KeepWrites ==
  ASSUME KeepInv, NEW f \in File, Write(f) \/ Notify(f), ~botched', ~overlapped'
  PROVE  ArchivesCover' /\ Recoverable'
<1>1. MirrorTypeOK /\ ArchivesCover /\ Recoverable
  BY DEF KeepInv, MirrorInv, Write, Notify
<1>2. proc = "up" /\ UNCHANGED <<remote, proc, up>>
  BY <1>1 DEF Write, Notify, MirrorTypeOK
<1>3. \A e : Covers(disk, e) => Covers(disk', e)
  BY <1>1 DEF Write, Notify, Covers, MirrorTypeOK, Written
<1>4. ArchivesCover'
  BY <1>1, <1>2, <1>3 DEF ArchivesCover, Covers
<1>5. Recoverable'
  BY <1>1, <1>2, <1>3 DEF Recoverable, Covers
<1>6. QED BY <1>4, <1>5

LEMMA KeepUploads ==
  ASSUME KeepInv, NEW u \in Uploader, UploadStep(u) \/ UploadFails(u), ~botched', ~overlapped'
  PROVE  ArchivesCover' /\ Recoverable'
<1>1. /\ MirrorTypeOK /\ ArchivesCover /\ Recoverable /\ up[u] \in Upload
      /\ OneAtATime
  BY DEF KeepInv, MirrorInv, MirrorTypeOK, UploadStep, Start, SkipUnfit, SkipUnchanged, Build, Put, Commit, UploadFails
<1>2. UNCHANGED <<disk, proc, todo>> /\ proc = "up"
  BY <1>1, OnlyUp DEF UploadStep, Start, SkipUnfit, SkipUnchanged, Build, Put, Commit, UploadFails, unmoved, Busy
<1>3. CASE Rests(u) /\ remote' = remote
  <2>1. up'[u].at = "idle" /\ \A v \in Uploader : v # u => up'[v] = up[v]
    BY <1>1, <1>3 DEF Rests, Resting, MirrorTypeOK
  <2>2. ArchivesCover'
    BY <1>1, <1>2, <1>3, <2>1 DEF ArchivesCover, Covers
  <2>3. Recoverable'
    BY <1>1, <1>2, <1>3 DEF Recoverable, Covers
  <2>4. QED BY <2>2, <2>3
<1>4. CASE Start(u)
  <2>1. remote' = remote /\ \A v \in Uploader : v # u => up'[v] = up[v]
    BY <1>1, <1>4 DEF Start, MirrorTypeOK, Moves
  <2>2. up'[u].at = "unfit" \/ (up'[u].at = "scanned" /\ up'[u].fp = disk)
    BY <1>1, <1>4 DEF Start, MirrorTypeOK, Moves, Upload, Resting
  <2>3. Covers(disk, disk) /\ Covers(disk, remote)
    BY <1>1, <1>2 DEF Covers, Recoverable
  <2>4. ArchivesCover'
    BY <1>1, <1>2, <2>1, <2>2, <2>3 DEF ArchivesCover, Covers
  <2>5. Recoverable'
    BY <1>1, <1>2, <2>1 DEF Recoverable, Covers
  <2>6. QED BY <2>4, <2>5
<1>5. CASE Build(u)
  <2> DEFINE a == [f \in File |-> IF up[u].fp[f] = 0 THEN 0 ELSE disk[f]]
  <2>1. remote' = remote /\ \A v \in Uploader : v # u => up'[v] = up[v]
    BY <1>1, <1>5 DEF Build, MirrorTypeOK
  <2>2. up'[u].at = "built" /\ up'[u].fp = up[u].fp /\ up'[u].archive = a
    BY <1>1, <1>5 DEF Build, MirrorTypeOK, Upload
  <2>3. Covers(disk, up[u].fp) /\ Covers(up[u].fp, remote)
    BY <1>1, <1>5 DEF ArchivesCover, Build
  <2>4. Covers(disk, a) /\ Covers(a, remote)
    BY <2>3 DEF Covers
  <2> HIDE DEF a
  <2>5. ArchivesCover'
    BY <1>1, <1>2, <2>1, <2>2, <2>3, <2>4 DEF ArchivesCover, Covers
  <2>6. Recoverable'
    BY <1>1, <1>2, <2>1 DEF Recoverable, Covers
  <2>7. QED BY <2>5, <2>6
<1>6. CASE Put(u)
  <2>1. remote' = up[u].archive /\ up[u].at = "built" /\ \A v \in Uploader : v # u => up'[v] = up[v]
    BY <1>1, <1>6 DEF Put, MirrorTypeOK, Moves
  <2>2. up'[u].at = "put" /\ up'[u].fp = up[u].fp /\ up'[u].archive = up[u].archive
    BY <1>1, <1>6 DEF Put, MirrorTypeOK, Upload, Moves
  <2>3. \A v \in Uploader : v # u => up[v].at = "idle"
    BY <1>1, <2>1 DEF OneAtATime, Busy
  <2>4. ArchivesCover'
    BY <1>1, <1>2, <2>1, <2>2, <2>3 DEF ArchivesCover, Covers
  <2>5. Recoverable'
    BY <1>1, <1>2, <2>1 DEF Recoverable, Covers, ArchivesCover
  <2>6. QED BY <2>4, <2>5
<1>7. QED
  BY <1>3, <1>4, <1>5, <1>6 DEF UploadStep, SkipUnfit, SkipUnchanged, Commit, UploadFails

LEMMA KeepRestarts ==
  ASSUME KeepInv, Crash \/ BootWithoutRestore \/ Download \/ Extract \/ Restored \/ RestoreFails,
         ~botched', ~overlapped'
  PROVE  ArchivesCover' /\ Recoverable'
<1>1. MirrorTypeOK
  BY DEF KeepInv, MirrorInv
<1>2. ArchivesCover'
  <2>1. \A u \in Uploader : up'[u].at = "idle"
    BY <1>1 DEF Crash, BootWithoutRestore, Download, Extract, Restored, RestoreFails, procVars, Resting, MirrorTypeOK
  <2>2. QED BY <2>1 DEF ArchivesCover
<1>3. ~overlapped
  BY DEF Crash, BootWithoutRestore, Download, Extract, Restored, RestoreFails
<1>4. CASE Crash
  <2>1. PICK keep \in {File, {Accounts}, {}} : disk' = [f \in File |-> IF f \in keep THEN disk[f] ELSE 0]
    BY <1>4 DEF Crash
  <2>2. ~botched /\ proc = "up" /\ proc' = "down" /\ remote' = remote
    BY <1>1, <1>4 DEF Crash, MirrorTypeOK
  <2>3. Covers(disk, remote)
    BY <1>3, <2>2 DEF KeepInv, Recoverable
  <2>4. CASE keep = File
    BY <1>2, <2>1, <2>2, <2>3, <2>4 DEF Recoverable, Covers
  <2>5. CASE keep = {Accounts} \/ keep = {}
    <3>1. \A f \in File : f # Accounts => disk'[f] = 0
      BY <2>1, <2>5
    <3>2. ~Fit(disk')
      <4>1. CASE disk'[Accounts] = 0
        <5>1. disk' = Empty
          BY <2>1, <3>1, <4>1 DEF Empty
        <5>2. QED BY <5>1 DEF Fit, Present
      <4>2. CASE disk'[Accounts] # 0
        <5>1. \A f \in UserFile : disk'[f] = 0
          <6>1. \A f \in UserFile : f \in File
            BY DEF File
          <6>2. QED BY <3>1, <6>1, FileAssumption
        <5>2. QED BY <4>2, <5>1 DEF Fit, Partial
      <4>3. QED BY <4>1, <4>2
    <3>3. QED BY <1>2, <2>2, <3>2 DEF Recoverable
  <2>6. QED BY <2>1, <2>4, <2>5
<1>5. CASE BootWithoutRestore
  BY <1>2, <1>3, <1>5 DEF BootWithoutRestore, KeepInv, Recoverable, Covers, Absent, Empty
<1>6. CASE Download \/ Extract
  BY <1>2, <1>6 DEF Download, Extract, Recoverable
<1>7. CASE Restored
  <2>1. todo = {} /\ proc = "restoring" /\ proc' = "up" /\ UNCHANGED <<disk, remote>>
    BY <1>7 DEF Restored
  <2>2. Covers(disk, remote)
    BY <2>1 DEF KeepInv, Extracting, Covers
  <2>3. QED BY <1>2, <2>1, <2>2 DEF Recoverable, Covers
<1>8. QED
  BY <1>2, <1>4, <1>5, <1>6, <1>7 DEF RestoreFails

LEMMA ExtractingKept ==
  ASSUME KeepInv, [SnapshotsNext]_snapshotVars
  PROVE  Extracting'
<1>1. MirrorTypeOK /\ Extracting
  BY DEF KeepInv, MirrorInv
<1>2. CASE Extract
  <2>1. PICK f \in todo : disk' = [disk EXCEPT ![f] = remote[f]] /\ todo' = todo \ {f}
    BY <1>2 DEF Extract
  <2>2. QED BY <1>1, <1>2, <2>1 DEF Extract, Extracting, MirrorTypeOK, Written
<1>3. CASE Download
  BY <1>3 DEF Download, Extracting
<1>4. CASE Crash \/ BootWithoutRestore \/ Restored \/ RestoreFails
  BY <1>4 DEF Crash, BootWithoutRestore, Restored, RestoreFails, Extracting
<1>5. ASSUME NEW f \in File, Write(f) \/ Notify(f) PROVE Extracting'
  BY <1>1, <1>5 DEF Write, Notify, Extracting, MirrorTypeOK
<1>6. ASSUME NEW u \in Uploader, UploadStep(u) \/ UploadFails(u) PROVE Extracting'
  <2>1. proc' = proc /\ proc = "up"
    BY <1>1, <1>6, OnlyUp DEF UploadStep, Start, SkipUnfit, SkipUnchanged, Build, Put, Commit, UploadFails, unmoved, Busy
  <2>2. QED BY <2>1 DEF Extracting
<1>7. CASE UNCHANGED snapshotVars
  BY <1>1, <1>7 DEF snapshotVars, Extracting
<1>8. QED BY <1>2, <1>3, <1>4, <1>5, <1>6, <1>7 DEF SnapshotsNext

LEMMA KeepStep ==
  ASSUME KeepInv, [SnapshotsNext]_snapshotVars
  PROVE  KeepInv'
<1>1. MirrorInv'
  BY MirrorStep DEF KeepInv
<1>2. ASSUME UNCHANGED snapshotVars, ~botched', ~overlapped' PROVE ArchivesCover' /\ Recoverable'
  BY <1>2 DEF snapshotVars, KeepInv, ArchivesCover, Recoverable, Covers
<1>3. ASSUME ~botched', ~overlapped' PROVE ArchivesCover' /\ Recoverable'
  BY <1>2, <1>3, KeepWrites, KeepUploads, KeepRestarts DEF SnapshotsNext
<1>4. QED BY <1>1, <1>3, ExtractingKept DEF KeepInv

\* A file that reached storage stays there through any number of restarts and
\* restores, unless one of them lost something or uploads overlapped.
THEOREM RemoteKeepsTheorem == SnapshotsSpec => RemoteKeepsFilesUnlessBotched
<1> DEFINE Lost == \E f \in File : remote[f] # 0 /\ remote'[f] = 0
<1>1. ASSUME KeepInv, [SnapshotsNext]_snapshotVars PROVE [Lost => botched \/ overlapped]_remote
  <2>1. CASE \E u \in Uploader : Put(u)
    <3>1. PICK u \in Uploader : Put(u)
      BY <2>1
    <3>2. up[u].at = "built" /\ remote' = up[u].archive
      BY <3>1 DEF Put
    <3>3. QED BY <1>1, <3>2 DEF KeepInv, ArchivesCover, Covers
  <2>2. CASE ~\E u \in Uploader : Put(u)
    <3>1. remote' = remote
      BY <1>1, <2>2 DEF SnapshotsNext, UploadStep, Write, Notify, Start, SkipUnfit, SkipUnchanged, Build,
         Commit, UploadFails, Crash, BootWithoutRestore, Download, Extract, Restored, RestoreFails, snapshotVars
    <3>2. QED BY <3>1
  <2>3. QED BY <2>1, <2>2
<1>2. QED BY <1>1, KeepInitially, KeepStep, PTL DEF SnapshotsSpec, RemoteKeepsFilesUnlessBotched

----------------------------------------------------------------------------
(* Answers without the model *)

\* A named answer to "who am I" comes from a model or from the cache. The model's is
\* sanitized; the cache answers only messages that bring no file, and those the
\* canned reply takes first when no name is known.
LEMMA SendNamesTheKnown ==
  ASSUME NEW s \in Senders, NEW m \in Phrases, NEW own, NEW o \in Opinions, SendMessage(s, m, own, o)
  PROVE  NamedOnlyWhileKnown'
<1> DEFINE g == Gate(m, own, o)
           greeted == GreetingsOn /\ m.kind = "hello" /\ own = <<>>
           hit == Keyed(own) /\ Hits(m) # {}
<1>1. CASE AsksForNoName(m, own)
  <2>1. Say("canned", m, Nameless)
    BY <1>1 DEF SendMessage
  <2>2. QED BY <2>1 DEF Say, NamedOnlyWhileKnown
<1>2. CASE ~AsksForNoName(m, own) /\ (g.askBack \/ greeted)
  <2>1. Say("canned", m, Nameless)
    BY <1>2, Zenon DEF SendMessage
  <2>2. QED BY <2>1 DEF Say, NamedOnlyWhileKnown
<1>3. CASE ~AsksForNoName(m, own) /\ ~(g.askBack \/ greeted) /\ hit
  <2>1. Say("cache", m, repeats[CHOOSE i \in Hits(m) : TRUE].answer)
    BY <1>3, Zenon DEF SendMessage
  <2>2. m.kind = "whoami" => myName # Nameless
    BY <1>3 DEF AsksForNoName, Keyed
  <2>3. QED BY <2>1, <2>2 DEF Say, NamedOnlyWhileKnown
<1>4. CASE ~AsksForNoName(m, own) /\ ~(g.askBack \/ greeted) /\ ~hit
  <2>1. said' = NoWords
    BY <1>4, Zenon DEF SendMessage
  <2>2. QED BY <2>1 DEF NoWords, NamedOnlyWhileKnown
<1>5. QED BY <1>1, <1>2, <1>3, <1>4

LEMMA FinishNamesTheKnown ==
  ASSUME NEW s \in Senders, NEW names, NEW clean \in BOOLEAN, FinishAnswer(s, names, clean)
  PROVE  NamedOnlyWhileKnown'
<1> DEFINE p == asking[s].phrase
<1>1. Say("model", p, Sanitized(p, names))
  BY DEF FinishAnswer
<1>2. p.kind = "whoami" /\ Sanitized(p, names) # Nameless => myName # Nameless
  BY DEF Sanitized
<1>3. QED BY <1>1, <1>2 DEF Say, NamedOnlyWhileKnown

LEMMA AnswersStep == NamedOnlyWhileKnown /\ [AnswersNext]_answersVars => NamedOnlyWhileKnown'
<1> SUFFICES ASSUME NamedOnlyWhileKnown, [AnswersNext]_answersVars PROVE NamedOnlyWhileKnown'
  OBVIOUS
<1>1. CASE \E s \in Senders, m \in Phrases, o \in Opinions :
             \E own \in {<<>>} \cup {<<f>> : f \in Uploads} : SendMessage(s, m, own, o)
  BY <1>1, SendNamesTheKnown
<1>2. CASE \E s \in Senders, n \in Names \cup {Nameless}, clean \in BOOLEAN : FinishAnswer(s, n, clean)
  BY <1>2, FinishNamesTheKnown
<1>3. CASE \/ \E s \in Senders : Break(s)
           \/ StartOver \/ AnswersTick
           \/ \E f \in Uploads : LoseUpload(f)
           \/ \E n \in Names \cup {Nameless} : Rename(n)
  <2>1. said' = NoWords
    BY <1>3 DEF Break, StartOver, AnswersTick, LoseUpload, Rename
  <2>2. QED BY <2>1 DEF NoWords, NamedOnlyWhileKnown
<1>4. CASE UNCHANGED answersVars
  BY <1>4 DEF answersVars, NamedOnlyWhileKnown
<1>5. QED BY <1>1, <1>2, <1>3, <1>4 DEF AnswersNext

\* "Who am I?" is answered with a name only while memory holds one: whatever the model
\* claims, whatever the cache remembers, and however names come and go in between.
THEOREM NamedTheorem == AnswersSpec => []NamedOnlyWhileKnown
<1>1. AnswersInit => NamedOnlyWhileKnown
  BY DEF AnswersInit, NoWords, NamedOnlyWhileKnown
<1>2. QED BY <1>1, AnswersStep, PTL DEF AnswersSpec

----------------------------------------------------------------------------
(* Filtering a list *)

LEMMA Climbs ==
  ASSUME NEW L \in Nat, NEW P, 0 \in P, \A n \in 0..L - 1 : n \in P => n + 1 \in P
  PROVE  \A n \in 0..L : n \in P
<1> DEFINE T == {n \in 0..L : n \notin P}
<1> SUFFICES ASSUME T # {} PROVE FALSE
  OBVIOUS
<1>1. T \subseteq Nat
  OBVIOUS
<1>2. PICK t \in T : \A u \in T : ~(<<u, t>> \in OpToRel(<, Nat))
  <2> HIDE DEF T
  <2>1. QED BY <1>1, NatLessThanWellFounded, WFMin
<1>3. t \in 0..L /\ t \notin P /\ t # 0
  OBVIOUS
<1>4. t - 1 \in 0..L - 1 /\ t - 1 < t /\ t - 1 + 1 = t
  BY <1>3
<1>5. t - 1 \notin T
  BY <1>2, <1>4, <1>1 DEF OpToRel
<1>6. t - 1 \in P
  BY <1>4, <1>5
<1>7. t - 1 + 1 \in P
  BY <1>4, <1>6
<1>8. QED BY <1>3, <1>4, <1>7

LEMMA LeastOf ==
  ASSUME NEW S \in SUBSET Nat, S # {}
  PROVE  \E t \in S : \A u \in S : t <= u
<1>1. PICK t \in S : \A u \in S : ~(<<u, t>> \in OpToRel(<, Nat))
  BY NatLessThanWellFounded, WFMin
<1>2. \A u \in S : ~(u < t)
  BY <1>1 DEF OpToRel
<1>3. \A a, b \in Nat : ~(a < b) => b <= a
  OBVIOUS
<1>4. \A u \in S : t <= u
  BY <1>2, <1>3
<1>5. QED BY <1>4

\* Values each made from the one before, in L steps.
Steps(S, L) == [S \X (1..L) -> S]
Runs(S, base, step, L) ==
  {f \in [0..L -> S] : f[0] = base /\ \A n \in 1..L : f[n] = step[<<f[n - 1], n>>]}
LEMMA Iterates ==
  ASSUME NEW L \in Nat, NEW S, NEW base \in S, NEW step \in Steps(S, L)
  PROVE  Runs(S, base, step, L) # {}
<1> DEFINE Upto(m) == \E f \in [0..m -> S] : f[0] = base /\ \A n \in 1..m : f[n] = step[<<f[n - 1], n>>]
           P == {m \in Nat : Upto(m)}
<1>1. 0 \in P
  <2> DEFINE g == [n \in 0..0 |-> base]
  <2>1. g \in [0..0 -> S] /\ g[0] = base /\ 1..0 = {}
    OBVIOUS
  <2> HIDE DEF g
  <2>2. Upto(0)
    BY <2>1
  <2>3. QED BY <2>2
<1>2. ASSUME NEW m \in 0..L - 1, m \in P PROVE m + 1 \in P
  <2>1. PICK f \in [0..m -> S] : f[0] = base /\ \A n \in 1..m : f[n] = step[<<f[n - 1], n>>]
    BY <1>2
  <2> DEFINE g == [n \in 0..m + 1 |-> IF n = m + 1 THEN step[<<f[m], m + 1>>] ELSE f[n]]
  <2>2. f[m] \in S /\ m + 1 \in 1..L /\ m \in Nat
    OBVIOUS
  <2>3. step[<<f[m], m + 1>>] \in S
    BY <2>2 DEF Steps
  <2>4. g \in [0..m + 1 -> S]
    BY <2>3
  <2>5. g[0] = base
    BY <2>1, <2>2
  <2>6. ASSUME NEW n \in 1..m + 1 PROVE g[n] = step[<<g[n - 1], n>>]
    <3>1. CASE n = m + 1
      <4>0. n - 1 = m /\ m \in 0..m + 1 /\ m # m + 1
        BY <3>1, <2>2
      <4>1. n - 1 = m /\ g[m] = f[m]
        BY <4>0
      <4>2. g[n] = step[<<f[m], n>>]
        BY <3>1, <2>2
      <4>3. QED BY <4>1, <4>2
    <3>2. CASE n # m + 1
      <4>1. n \in 1..m /\ n - 1 \in 0..m
        BY <3>2, <2>2
      <4>2. g[n] = f[n] /\ g[n - 1] = f[n - 1]
        BY <4>1, <2>2
      <4>3. QED BY <4>1, <4>2, <2>1
    <3>3. QED BY <3>1, <3>2
  <2> HIDE DEF g
  <2>7. Upto(m + 1)
    BY <2>4, <2>5, <2>6
  <2>8. QED BY <2>2, <2>7
<1> HIDE DEF P
<1>3. L \in P
  BY <1>1, <1>2, Climbs
<1>4. QED BY <1>3 DEF P, Runs

IdOf(c) == c.id

\* Without scans the list once and keeps what has another id.
LEMMA WithoutRuns ==
  ASSUME NEW T, NEW list \in Seq(T), NEW gone
  PROVE  \E k \in [0..Len(list) -> Seq(T)] :
           /\ Without(list, gone) = k[Len(list)] /\ k[0] = <<>>
           /\ \A n \in 1..Len(list) :
                k[n] = IF IdOf(list[n]) = gone THEN k[n - 1] ELSE Append(k[n - 1], list[n])
<1> DEFINE L == Len(list)
           step == [x \in Seq(T) \X (1..L) |->
                      IF IdOf(list[x[2]]) = gone THEN x[1] ELSE Append(x[1], list[x[2]])]
           F(g) == [n \in 0..L |-> IF n = 0 THEN <<>>
                                   ELSE IF IdOf(list[n]) = gone THEN g[n - 1]
                                   ELSE Append(g[n - 1], list[n])]
           k == CHOOSE g : g = F(g)
<1>1. L \in Nat /\ \A n \in 1..L : list[n] \in T
  BY LenProperties, ElementOfSeq
<1>2. step \in [Seq(T) \X (1..L) -> Seq(T)]
  BY <1>1, AppendProperties
<1>3. PICK f \in [0..L -> Seq(T)] : f[0] = <<>> /\ \A n \in 1..L : f[n] = step[<<f[n - 1], n>>]
  <2>1. step \in Steps(Seq(T), L) /\ <<>> \in Seq(T)
    BY <1>2 DEF Steps
  <2>2. Runs(Seq(T), <<>>, step, L) # {}
    BY <1>1, <2>1, Iterates
  <2> HIDE DEF step, L
  <2>3. QED BY <2>2 DEF Runs
<1>4. ASSUME NEW n \in 1..L
      PROVE  f[n] = IF IdOf(list[n]) = gone THEN f[n - 1] ELSE Append(f[n - 1], list[n])
  <2> HIDE DEF step, L
  <2>0. n - 1 \in 0..L
    BY <1>1
  <2>1. f[n - 1] \in Seq(T)
    BY <2>0
  <2>2. <<f[n - 1], n>> \in Seq(T) \X (1..L)
    BY <2>1
  <2>3. QED BY <1>3, <2>2 DEF step
<1>5. f = F(f)
  <2>1. \A n \in 0..L : n = 0 \/ n \in 1..L
    BY <1>1
  <2>2. \A n \in 0..L : f[n] = IF n = 0 THEN <<>> ELSE IF IdOf(list[n]) = gone THEN f[n - 1]
                               ELSE Append(f[n - 1], list[n])
    BY <1>3, <1>4, <2>1
  <2>3. QED BY <2>2
<1>6. k = F(k)
  BY <1>5
<1>7. Without(list, gone) = k[L]
  BY DEF Without, IdOf
<1>8. k[0] = <<>> /\ \A n \in 1..L : k[n] = IF IdOf(list[n]) = gone THEN k[n - 1]
                                            ELSE Append(k[n - 1], list[n])
  <2> HIDE DEF k
  <2>1. \A n \in 0..L : k[n] = IF n = 0 THEN <<>> ELSE IF IdOf(list[n]) = gone THEN k[n - 1]
                               ELSE Append(k[n - 1], list[n])
    BY <1>6
  <2>2. 0 \in 0..L /\ \A n \in 1..L : n \in 0..L /\ n # 0
    BY <1>1
  <2>3. QED BY <2>1, <2>2
<1>9. \A n \in 0..L : k[n] \in Seq(T)
  <2> HIDE DEF k, L
  <2> DEFINE P == {n \in 0..L : k[n] \in Seq(T)}
  <2>1. 0 \in P
    <3>1. 0 \in 0..L /\ k[0] = <<>>
      BY <1>1, <1>8
    <3>2. \A x : x = <<>> => x \in Seq(T)
      OBVIOUS
    <3>3. QED BY <3>1, <3>2
  <2>2. ASSUME NEW n \in 0..L - 1, n \in P PROVE n + 1 \in P
    <3>1. n + 1 \in 1..L /\ n + 1 \in 0..L /\ n + 1 - 1 = n /\ k[n] \in Seq(T)
      BY <2>2, <1>1
    <3>2. k[n + 1] = IF IdOf(list[n + 1]) = gone THEN k[n] ELSE Append(k[n], list[n + 1])
      BY <3>1, <1>8
    <3>3. list[n + 1] \in T
      BY <3>1, <1>1
    <3>4. Append(k[n], list[n + 1]) \in Seq(T)
      BY <3>1, <3>3, AppendProperties
    <3>5. k[n + 1] \in Seq(T)
      BY <3>1, <3>2, <3>4
    <3>6. QED BY <3>1, <3>5
  <2> HIDE DEF P
  <2>3. \A n \in 0..L : n \in P
    BY <1>1, <2>1, <2>2, Climbs
  <2>4. QED BY <2>3 DEF P
<1>10. k \in [0..L -> Seq(T)]
  <2> HIDE DEF k
  <2>1. k = [n \in 0..L |-> k[n]]
    BY <1>6
  <2>2. QED BY <2>1, <1>9
<1> HIDE DEF k
<1>11. QED BY <1>7, <1>8, <1>10

\* No two conversations of the list share an id.
Distinct(list) == \A i, j \in DOMAIN list : IdOf(list[i]) = IdOf(list[j]) => i = j

\* What Without returns: the others, all of them, as distinct as before.
LEMMA WithoutFacts ==
  ASSUME NEW T, NEW list \in Seq(T), NEW gone
  PROVE  /\ Without(list, gone) \in Seq(T)
         /\ Len(Without(list, gone)) <= Len(list)
         /\ \A i \in DOMAIN Without(list, gone) :
              /\ IdOf(Without(list, gone)[i]) # gone
              /\ \E j \in DOMAIN list : Without(list, gone)[i] = list[j]
         /\ \A j \in DOMAIN list :
              IdOf(list[j]) # gone => \E i \in DOMAIN Without(list, gone) : Without(list, gone)[i] = list[j]
         /\ Distinct(list) => Distinct(Without(list, gone))
<1> DEFINE L == Len(list)
<1>1. L \in Nat /\ DOMAIN list = 1..L /\ \A n \in 1..L : list[n] \in T
  BY LenProperties, ElementOfSeq
<1>2. PICK k \in [0..Len(list) -> Seq(T)] :
           /\ Without(list, gone) = k[Len(list)] /\ k[0] = <<>>
           /\ \A n \in 1..Len(list) :
                k[n] = IF IdOf(list[n]) = gone THEN k[n - 1] ELSE Append(k[n - 1], list[n])
  BY WithoutRuns
<1> HIDE DEF L
<1> DEFINE Within(n) == /\ Len(k[n]) <= n
                        /\ \A i \in 1..Len(k[n]) : IdOf(k[n][i]) # gone /\ \E j \in 1..n : k[n][i] = list[j]
           Others(n) == \A j \in 1..n : IdOf(list[j]) # gone => \E i \in 1..Len(k[n]) : k[n][i] = list[j]
           Apart(n) == Distinct(list) =>
                         \A i, j \in 1..Len(k[n]) : IdOf(k[n][i]) = IdOf(k[n][j]) => i = j
           P == {n \in 0..L : Within(n) /\ Others(n) /\ Apart(n)}
<1>9. /\ k \in [0..L -> Seq(T)] /\ Without(list, gone) = k[L]
      /\ \A n \in 1..L : k[n] = IF IdOf(list[n]) = gone THEN k[n - 1] ELSE Append(k[n - 1], list[n])
  BY <1>2 DEF L
<1>3. 0 \in P
  BY <1>1, <1>2
<1>4. ASSUME NEW n \in 0..L - 1, n \in P PROVE n + 1 \in P
  <2>1. n \in Nat /\ n \in 0..L /\ n + 1 \in 1..L /\ n + 1 \in 0..L /\ n + 1 - 1 = n /\ k[n] \in Seq(T)
    BY <1>1, <1>9
  <2>2. k[n + 1] = IF IdOf(list[n + 1]) = gone THEN k[n] ELSE Append(k[n], list[n + 1])
    BY <2>1, <1>9
  <2>3. list[n + 1] \in T /\ n + 1 \in 1..n + 1 /\ \A j \in 1..n : j \in 1..n + 1 /\ j \in 1..L /\ j # n + 1
    BY <2>1, <1>1
  <2>4. Len(k[n]) \in Nat
    BY <2>1, LenProperties
  <2>5. Within(n) /\ Others(n) /\ Apart(n)
    BY <1>4
  <2>6. \A i \in 1..n + 1 : i = n + 1 \/ i \in 1..n
    BY <2>1
  <2>7. CASE IdOf(list[n + 1]) # gone
    <3> DEFINE a == Append(k[n], list[n + 1])
               m == Len(k[n]) + 1
    <3>1. Len(a) = m /\ a[m] = list[n + 1] /\ \A i \in 1..Len(k[n]) : a[i] = k[n][i]
      BY <2>1, <2>3, AppendProperties
    <3>2. k[n + 1] = a
      BY <2>2, <2>7
    <3>3. \A i \in 1..m : i = m \/ i \in 1..Len(k[n])
      BY <2>4
    <3>4. m \in 1..m /\ \A i \in 1..Len(k[n]) : i \in 1..m
      BY <2>4
    <3>5. m <= n + 1
      BY <2>1, <2>4, <2>5
    <3> HIDE DEF a, m
    <3>6. Within(n + 1)
      <4>1. ASSUME NEW i \in 1..m PROVE IdOf(a[i]) # gone /\ \E j \in 1..n + 1 : a[i] = list[j]
        <5>1. CASE i = m
          BY <5>1, <3>1, <2>3, <2>7
        <5>2. CASE i \in 1..Len(k[n])
          <6>1. PICK j \in 1..n : k[n][i] = list[j]
            BY <5>2, <2>5
          <6>2. a[i] = k[n][i] /\ IdOf(k[n][i]) # gone /\ j \in 1..n + 1
            BY <5>2, <3>1, <2>3, <2>5
          <6>3. QED BY <6>1, <6>2
        <5>3. QED BY <5>1, <5>2, <3>3
      <4>2. QED BY <4>1, <3>1, <3>2, <3>5
    <3>7. Others(n + 1)
      <4>1. ASSUME NEW j \in 1..n + 1, IdOf(list[j]) # gone PROVE \E i \in 1..m : a[i] = list[j]
        <5>1. CASE j = n + 1
          BY <5>1, <3>1, <3>4
        <5>2. CASE j \in 1..n
          <6>1. PICK i \in 1..Len(k[n]) : k[n][i] = list[j]
            BY <5>2, <4>1, <2>5
          <6>2. QED BY <6>1, <3>1, <3>4
        <5>3. QED BY <5>1, <5>2, <2>6
      <4>2. QED BY <4>1, <3>1, <3>2
    <3>8. Apart(n + 1)
      <4> SUFFICES ASSUME Distinct(list), NEW i \in 1..m, NEW j \in 1..m, IdOf(a[i]) = IdOf(a[j])
                   PROVE  i = j
        BY <3>1, <3>2
      <4>1. ASSUME NEW h \in 1..Len(k[n]) PROVE IdOf(k[n][h]) # IdOf(list[n + 1])
        <5>1. PICK g \in 1..n : k[n][h] = list[g]
          BY <2>5
        <5>2. g # n + 1 /\ g \in DOMAIN list /\ n + 1 \in DOMAIN list
          BY <1>1, <2>1, <2>3
        <5>3. QED BY <5>1, <5>2 DEF Distinct
      <4>2. CASE i = m /\ j = m
        BY <4>2
      <4>3. CASE i = m /\ j \in 1..Len(k[n])
        BY <4>1, <4>3, <3>1
      <4>4. CASE i \in 1..Len(k[n]) /\ j = m
        BY <4>1, <4>4, <3>1
      <4>5. CASE i \in 1..Len(k[n]) /\ j \in 1..Len(k[n])
        BY <4>5, <3>1, <2>5
      <4>6. QED BY <4>2, <4>3, <4>4, <4>5, <3>3
    <3>9. QED BY <3>6, <3>7, <3>8, <2>1
  <2>8. CASE IdOf(list[n + 1]) = gone
    <3>1. k[n + 1] = k[n]
      BY <2>2, <2>8
    <3>2. Within(n + 1)
      <4>1. Len(k[n]) <= n + 1
        BY <2>1, <2>4, <2>5
      <4>2. QED BY <4>1, <3>1, <2>3, <2>5
    <3>3. Others(n + 1)
      BY <3>1, <2>5, <2>6, <2>8
    <3>4. Apart(n + 1)
      BY <3>1, <2>5
    <3>5. QED BY <3>2, <3>3, <3>4, <2>1
  <2>9. QED BY <2>7, <2>8
<1> HIDE DEF P
<1>5. L \in P
  <2>1. \A n \in 0..L : n \in P
    BY <1>1, <1>3, <1>4, Climbs
  <2>2. L \in 0..L
    BY <1>1
  <2>3. QED BY <2>1, <2>2
<1>6. k[L] \in Seq(T) /\ DOMAIN k[L] = 1..Len(k[L])
  BY <1>1, <1>9, LenProperties
<1>7. Within(L) /\ Others(L) /\ Apart(L)
  BY <1>5 DEF P
<1>8. QED
  <2>1. Len(k[L]) <= L
    BY <1>7
  <2>2. \A i \in DOMAIN k[L] : IdOf(k[L][i]) # gone /\ \E j \in DOMAIN list : k[L][i] = list[j]
    BY <1>1, <1>6, <1>7
  <2>3. \A j \in DOMAIN list : IdOf(list[j]) # gone => \E i \in DOMAIN k[L] : k[L][i] = list[j]
    BY <1>1, <1>6, <1>7
  <2>4. Distinct(list) => Distinct(k[L])
    BY <1>6, <1>7 DEF Distinct
  <2>5. QED BY <1>9, <1>6, <2>1, <2>2, <2>3, <2>4 DEF L

----------------------------------------------------------------------------
(* The archive of conversations *)

\* Every save takes a fresh id, whether it uses it or not.
Saves == Cardinality({b \in Browse : bpc[b] = "saved"})
Listed(list, n) ==
  list \in Seq(Record) /\ Distinct(list) /\ \A i \in DOMAIN list : IdOf(list[i]) <= n
Copy == [chats : Seq(Record), current : Seq(Message)]
PlaceOf == [Browse -> {"idle", "loaded", "saved", "gone"}]

\* The ids of a list, stored or loaded, are distinct and were all made by saves done by now.
ChatsInv ==
  /\ IInv
  /\ stamp \in 0..MaxStamp /\ bpc \in PlaceOf /\ copy \in [Browse -> Copy]
  /\ Listed(chats, Saves)
  /\ \A b \in Browse : Listed(copy[b].chats, Saves)

LEMMA RecordFacts ==
  ASSUME NEW c \in Record
  PROVE  IdOf(c) \in Nat /\ c.messages \in Seq(Message)
BY DEF Record, IdOf

LEMMA ArchivedFacts ==
  ASSUME NEW msgs \in Seq(Message), NEW id \in Nat, stamp' \in 0..MaxStamp
  PROVE  /\ Archived(msgs, id) \in Record
         /\ IdOf(Archived(msgs, id)) = id /\ Archived(msgs, id).messages = msgs
BY DEF Archived, Record, IdOf

LEMMA FirstNFacts ==
  ASSUME NEW T, NEW list \in Seq(T), NEW n \in Nat \ {0}
  PROVE  /\ FirstN(list, n) \in Seq(T)
         /\ \A i \in DOMAIN FirstN(list, n) : i \in DOMAIN list /\ FirstN(list, n)[i] = list[i]
         /\ Len(list) <= n => FirstN(list, n) = list
<1>1. Len(list) \in Nat /\ DOMAIN list = 1..Len(list)
  BY LenProperties
<1>2. CASE Len(list) <= n
  BY <1>2 DEF FirstN
<1>3. CASE ~(Len(list) <= n)
  <2>1. FirstN(list, n) = SubSeq(list, 1, n)
    BY <1>3 DEF FirstN
  <2>2. 1 \in 1..Len(list) + 1 /\ n \in 0..Len(list) /\ n - 1 + 1 = n
    BY <1>1, <1>3
  <2>3. /\ SubSeq(list, 1, n) \in Seq(T) /\ Len(SubSeq(list, 1, n)) = n
        /\ \A i \in 1..n : SubSeq(list, 1, n)[i] = list[i]
    <3>1. \A i \in 1..n : 1 + i - 1 = i
      OBVIOUS
    <3>2. QED BY <2>2, <1>1, <3>1, SubSeqProperties
  <2>4. DOMAIN SubSeq(list, 1, n) = 1..n
    BY <2>3, LenProperties
  <2>5. \A i \in 1..n : i \in 1..Len(list)
    BY <1>1, <1>3
  <2>6. QED BY <1>1, <1>3, <2>1, <2>3, <2>4, <2>5
<1>4. QED BY <1>2, <1>3

LEMMA FirstNListed ==
  ASSUME NEW m \in Nat, NEW list, Listed(list, m)
  PROVE  Listed(FirstN(list, MaxChats), m)
<1>1. /\ FirstN(list, MaxChats) \in Seq(Record)
      /\ \A i \in DOMAIN FirstN(list, MaxChats) :
           i \in DOMAIN list /\ FirstN(list, MaxChats)[i] = list[i]
  BY FirstNFacts, MaxChatsAssumption DEF Listed
<1>2. QED BY <1>1 DEF Listed, Distinct

LEMMA WithoutListed ==
  ASSUME NEW m \in Nat, NEW list, Listed(list, m), NEW id
  PROVE  Listed(Without(list, id), m)
<1>1. list \in Seq(Record) /\ Distinct(list)
  BY DEF Listed
<1>2. /\ Without(list, id) \in Seq(Record) /\ Distinct(Without(list, id))
      /\ \A i \in DOMAIN Without(list, id) : \E j \in DOMAIN list : Without(list, id)[i] = list[j]
  BY <1>1, WithoutFacts
<1>3. QED BY <1>2 DEF Listed

\* The new record is first, and behind it the others.
LEMMA Headed ==
  ASSUME NEW record \in Record, NEW rest \in Seq(Record)
  PROVE  /\ <<record>> \o rest \in Seq(Record)
         /\ Len(<<record>> \o rest) = Len(rest) + 1
         /\ 1 \in DOMAIN (<<record>> \o rest) /\ (<<record>> \o rest)[1] = record
         /\ \A i \in DOMAIN rest : /\ i + 1 \in DOMAIN (<<record>> \o rest)
                                   /\ (<<record>> \o rest)[i + 1] = rest[i]
         /\ \A i \in DOMAIN (<<record>> \o rest) :
              i = 1 \/ (i - 1 \in DOMAIN rest /\ (<<record>> \o rest)[i] = rest[i - 1])
<1> DEFINE whole == <<record>> \o rest
<1>1. <<record>> \in Seq(Record) /\ Len(<<record>>) = 1 /\ <<record>>[1] = record
  BY SingletonSeq
<1>2. /\ whole \in Seq(Record) /\ Len(whole) = Len(<<record>>) + Len(rest)
      /\ \A i \in 1..Len(whole) : whole[i] = IF i <= Len(<<record>>) THEN <<record>>[i]
                                             ELSE rest[i - Len(<<record>>)]
  BY <1>1, ConcatProperties
<1>3. Len(rest) \in Nat /\ DOMAIN rest = 1..Len(rest) /\ DOMAIN whole = 1..Len(whole)
  BY <1>2, LenProperties
<1> HIDE DEF whole
<1>4. Len(whole) = Len(rest) + 1
  BY <1>1, <1>2, <1>3
<1>5. 1 \in DOMAIN whole /\ whole[1] = record
  BY <1>1, <1>2, <1>3, <1>4
<1>6. ASSUME NEW i \in DOMAIN rest PROVE i + 1 \in DOMAIN whole /\ whole[i + 1] = rest[i]
  <2>1. i \in 1..Len(rest) /\ i + 1 \in 1..Len(whole) /\ ~(i + 1 <= 1) /\ i + 1 - 1 = i
    BY <1>3, <1>4
  <2>2. QED BY <2>1, <1>1, <1>2, <1>3
<1>7. ASSUME NEW i \in DOMAIN whole, i # 1 PROVE i - 1 \in DOMAIN rest /\ whole[i] = rest[i - 1]
  <2>1. i \in 1..Len(whole) /\ i - 1 \in 1..Len(rest) /\ ~(i <= 1)
    BY <1>3, <1>4, <1>7
  <2>2. QED BY <2>1, <1>1, <1>2, <1>3
<1>8. QED BY <1>2, <1>4, <1>5, <1>6, <1>7 DEF whole

LEMMA OnTopListed ==
  ASSUME NEW n \in Nat, NEW m \in Nat, n <= m, NEW list, Listed(list, n),
         NEW record \in Record, IdOf(record) <= m
  PROVE  Listed(OnTop(record, list), m)
<1> DEFINE rest == Without(list, record.id)
           whole == <<record>> \o rest
<1>1. list \in Seq(Record) /\ Distinct(list) /\ record.id = IdOf(record)
  BY DEF Listed, IdOf
<1>2. Listed(rest, n)
  BY WithoutListed
<1>3. \A i \in DOMAIN rest : IdOf(rest[i]) # IdOf(record)
  BY <1>1, WithoutFacts
<1>4. rest \in Seq(Record)
  BY <1>2 DEF Listed
<1>5. /\ whole \in Seq(Record) /\ 1 \in DOMAIN whole /\ whole[1] = record
      /\ \A i \in DOMAIN whole : i = 1 \/ (i - 1 \in DOMAIN rest /\ whole[i] = rest[i - 1])
  BY <1>4, Headed
<1>6. DOMAIN whole \subseteq Nat
  BY <1>5, LenProperties
<1>7. \A i \in DOMAIN rest : IdOf(rest[i]) \in Nat /\ IdOf(rest[i]) <= n
  BY <1>2, <1>4, ElementOfSeq, RecordFacts, LenProperties DEF Listed
<1> HIDE DEF rest, whole
<1>8. \A i \in DOMAIN whole : IdOf(whole[i]) <= m
  <2> SUFFICES ASSUME NEW i \in DOMAIN whole PROVE IdOf(whole[i]) <= m
    OBVIOUS
  <2>1. CASE i = 1
    BY <2>1, <1>5
  <2>2. CASE i # 1
    <3>1. i - 1 \in DOMAIN rest /\ whole[i] = rest[i - 1]
      BY <2>2, <1>5
    <3>2. IdOf(rest[i - 1]) \in Nat /\ IdOf(rest[i - 1]) <= n
      BY <3>1, <1>7
    <3>3. QED BY <3>1, <3>2
  <2>3. QED BY <2>1, <2>2
<1>9. Distinct(whole)
  <2> SUFFICES ASSUME NEW i \in DOMAIN whole, NEW j \in DOMAIN whole, IdOf(whole[i]) = IdOf(whole[j])
               PROVE  i = j
    BY DEF Distinct
  <2>1. CASE i = 1 /\ j = 1
    BY <2>1
  <2>2. CASE i = 1 /\ j # 1
    BY <2>2, <1>3, <1>5
  <2>3. CASE i # 1 /\ j = 1
    BY <2>3, <1>3, <1>5
  <2>4. CASE i # 1 /\ j # 1
    <3>1. /\ i - 1 \in DOMAIN rest /\ j - 1 \in DOMAIN rest
          /\ IdOf(rest[i - 1]) = IdOf(rest[j - 1])
      BY <2>4, <1>5
    <3>2. i - 1 = j - 1
      BY <3>1, <1>2 DEF Listed, Distinct
    <3>3. QED BY <3>2, <1>6
  <2>5. QED BY <2>1, <2>2, <2>3, <2>4
<1>10. Listed(whole, m)
  BY <1>5, <1>8, <1>9 DEF Listed
<1>11. QED BY <1>10, FirstNListed DEF OnTop, whole, rest

\* While the archive has room, only the record of the same id makes way.
LEMMA OnTopKeeps ==
  ASSUME NEW list \in Seq(Record), NEW record \in Record, Len(list) < MaxChats
  PROVE  /\ \E i \in DOMAIN OnTop(record, list) : OnTop(record, list)[i] = record
         /\ \A j \in DOMAIN list :
              IdOf(list[j]) # IdOf(record)
                => \E i \in DOMAIN OnTop(record, list) : OnTop(record, list)[i] = list[j]
<1> DEFINE rest == Without(list, IdOf(record))
           whole == <<record>> \o rest
<1>1. /\ rest \in Seq(Record) /\ Len(rest) <= Len(list)
      /\ \A j \in DOMAIN list :
           IdOf(list[j]) # IdOf(record) => \E i \in DOMAIN rest : rest[i] = list[j]
  BY WithoutFacts
<1> HIDE DEF rest
<1>2. /\ whole \in Seq(Record) /\ Len(whole) = Len(rest) + 1
      /\ 1 \in DOMAIN whole /\ whole[1] = record
      /\ \A i \in DOMAIN rest : i + 1 \in DOMAIN whole /\ whole[i + 1] = rest[i]
  BY <1>1, Headed
<1> HIDE DEF whole
<1>3. Len(whole) <= MaxChats
  BY <1>1, <1>2, LenProperties, MaxChatsAssumption
<1>4. FirstN(whole, MaxChats) = whole
  BY <1>2, <1>3, FirstNFacts, MaxChatsAssumption
<1>5. OnTop(record, list) = whole
  BY <1>4 DEF OnTop, whole, rest, IdOf
<1>6. ASSUME NEW j \in DOMAIN list, IdOf(list[j]) # IdOf(record)
      PROVE  \E i \in DOMAIN whole : whole[i] = list[j]
  <2>1. PICK i \in DOMAIN rest : rest[i] = list[j]
    BY <1>1, <1>6
  <2>2. QED BY <2>1, <1>2
<1>7. QED BY <1>2, <1>5, <1>6

\* The origin is one of the archived conversations that the open one continues.
LEMMA OriginFacts ==
  ASSUME NEW c \in Copy, OriginId(c) # Fresh
  PROVE  \E i \in DOMAIN c.chats :
           IsPrefixOf(c.chats[i].messages, c.current) /\ OriginId(c) = IdOf(c.chats[i])
<1> DEFINE long(i) == Len(c.chats[i].messages)
           origins == {i \in DOMAIN c.chats : IsPrefixOf(c.chats[i].messages, c.current)}
           longest == {i \in origins : \A j \in origins :
                         Len(c.chats[j].messages) <= Len(c.chats[i].messages)}
<1>1. /\ c.chats \in Seq(Record) /\ c.current \in Seq(Message)
      /\ Len(c.current) \in Nat /\ DOMAIN c.chats \subseteq Nat
  BY LenProperties DEF Copy
<1>2. \A i \in DOMAIN c.chats : long(i) \in Nat
  BY <1>1, ElementOfSeq, RecordFacts, LenProperties
<1>3. \A i \in origins : long(i) <= Len(c.current)
  BY DEF IsPrefixOf
<1>4. OriginId(c) = IF origins = {} THEN Fresh
                    ELSE c.chats[CHOOSE i \in longest : \A j \in longest : i <= j].id
  BY DEF OriginId
<1>5. origins # {}
  <2> HIDE DEF origins, longest
  <2>1. QED BY <1>4
<1>6. longest # {}
  <2> DEFINE gaps == {Len(c.current) - long(i) : i \in origins}
  <2>1. gaps \in SUBSET Nat /\ gaps # {}
    <3>1. \A i \in origins : Len(c.current) - long(i) \in Nat
      <4> SUFFICES ASSUME NEW i \in origins PROVE Len(c.current) - long(i) \in Nat
        OBVIOUS
      <4>1. long(i) \in Nat /\ long(i) <= Len(c.current)
        BY <1>2, <1>3
      <4> HIDE DEF long
      <4>2. QED BY <4>1, <1>1
    <3> HIDE DEF origins, long
    <3>2. QED BY <3>1, <1>5
  <2>2. PICK t \in gaps : \A u \in gaps : t <= u
    <3> HIDE DEF gaps
    <3>1. QED BY <2>1, LeastOf
  <2>3. PICK i \in origins : t = Len(c.current) - long(i)
    <3> HIDE DEF origins, long
    <3>1. QED OBVIOUS
  <2>4. \A j \in origins : long(j) <= long(i)
    <3> SUFFICES ASSUME NEW j \in origins PROVE long(j) <= long(i)
      OBVIOUS
    <3>1. t <= Len(c.current) - long(j)
      <4> HIDE DEF origins, long
      <4>1. QED BY <2>2
    <3>2. long(i) \in Nat /\ long(j) \in Nat
      BY <1>2
    <3> HIDE DEF origins, long
    <3>3. QED BY <1>1, <2>3, <3>1, <3>2
  <2>5. QED BY <2>4
<1>7. longest \in SUBSET Nat
  BY <1>1
<1>8. \E i \in longest : \A j \in longest : i <= j
  <2> HIDE DEF longest
  <2>1. QED BY <1>6, <1>7, LeastOf
<1>9. PICK i \in longest : i = CHOOSE h \in longest : \A j \in longest : h <= j
  <2> HIDE DEF longest
  <2>1. QED BY <1>8
<1>10. OriginId(c) = c.chats[i].id
  <2> HIDE DEF longest, origins
  <2>1. QED BY <1>4, <1>5, <1>9
<1>11. i \in origins
  OBVIOUS
<1>12. QED BY <1>10, <1>11 DEF IdOf

----------------------------------------------------------------------------
(* What browsing keeps *)

Says(s, m) == \E i \in DOMAIN s : m = Content(s)[i]

LEMMA MessagesOfFacts ==
  ASSUME NEW list, NEW msgs, NEW m
  PROVE  m \in MessagesOf(list, msgs)
           <=> Says(msgs, m) \/ \E i \in DOMAIN list : Says(list[i].messages, m)
BY DEF MessagesOf, Says

LEMMA SameContent ==
  ASSUME NEW s, NEW t, Content(s) = Content(t), NEW m, Says(s, m)
  PROVE  Says(t, m)
<1>1. DOMAIN Content(s) = DOMAIN s /\ DOMAIN Content(t) = DOMAIN t
  BY DEF Content
<1>2. QED BY <1>1 DEF Says

LEMMA PrefixSaid ==
  ASSUME NEW s \in Seq(Message), NEW t \in Seq(Message), IsPrefixOf(s, t), NEW m, Says(s, m)
  PROVE  Says(t, m)
<1>1. /\ Len(s) \in Nat /\ DOMAIN s = 1..Len(s)
      /\ Len(t) \in Nat /\ DOMAIN t = 1..Len(t) /\ Len(s) <= Len(t)
  BY LenProperties DEF IsPrefixOf
<1>2. PICK i \in 1..Len(s) : m = Content(s)[i]
  BY <1>1 DEF Says
<1>3. i \in 1..Len(t)
  BY <1>1
<1>4. s[i] = t[i]
  <2>1. SubSeq(t, 1, Len(s)) = s
    BY DEF IsPrefixOf
  <2>2. 1 \in 1..Len(t) + 1 /\ Len(s) \in 0..Len(t) /\ Len(s) - 1 + 1 = Len(s) /\ 1 + i - 1 = i
    BY <1>1
  <2>3. SubSeq(t, 1, Len(s))[i] = t[1 + i - 1]
    BY <1>1, <2>2, SubSeqProperties
  <2>4. QED BY <2>1, <2>2, <2>3
<1>5. Content(s)[i] = Content(t)[i]
  BY <1>1, <1>3, <1>4 DEF Content
<1>6. QED BY <1>1, <1>2, <1>3, <1>5 DEF Says

LEMMA SavesFacts ==
  ASSUME ChatsInv
  PROVE  Saves \in Nat /\ Fresh = Saves + 1
<1>1. IsFiniteSet({b \in Browse : bpc[b] = "saved"})
  BY BrowseAssumption, FS_Subset
<1>2. Saves \in Nat
  BY <1>1, FS_CardinalityType DEF Saves
<1>3. QED BY <1>2 DEF Fresh, Saves

LEMMA BrowsingStep ==
  ASSUME ChatsInv, NEW b \in Browse, OpenChat(b) \/ NewChat(b),
         copy[b] = [chats |-> chats, current |-> current], Len(chats) < MaxChats
  PROVE  MessagesOf(chats, current) \subseteq MessagesOf(chats', current')
<1>0. /\ chats \in Seq(Record) /\ Distinct(chats) /\ current \in Seq(Message)
      /\ \A i \in DOMAIN chats : IdOf(chats[i]) <= Saves
      /\ copy[b].chats = chats /\ copy[b].current = current /\ copy[b] \in Copy
      /\ stamp \in 0..MaxStamp
  BY DEF ChatsInv, Listed, IInv, TypeOK, Copy
<1>1. Saves \in Nat /\ Fresh = Saves + 1
  BY SavesFacts
<1>2. \A i \in DOMAIN chats : IdOf(chats[i]) \in Nat /\ chats[i].messages \in Seq(Message)
  BY <1>0, ElementOfSeq, RecordFacts, LenProperties
<1>3. \A i \in DOMAIN chats : IdOf(chats[i]) # Fresh
  BY <1>0, <1>1, <1>2
<1>4. SUFFICES ASSUME NEW m, m \in MessagesOf(chats, current)
               PROVE  m \in MessagesOf(chats', current')
  OBVIOUS
<1>5. Says(current, m) \/ \E i \in DOMAIN chats : Says(chats[i].messages, m)
  BY <1>4, MessagesOfFacts
<1>6. SUFFICES \E i \in DOMAIN chats' : Says(chats'[i].messages, m)
  BY MessagesOfFacts
\* The open conversation is archived under an id that is fresh or its origin's.
<1>7. ASSUME NEW id \in Nat, stamp' \in 0..MaxStamp,
             chats' = FirstN(OnTop(Archived(current, id), chats), MaxChats),
             \A i \in DOMAIN chats :
               IdOf(chats[i]) = id => IsPrefixOf(chats[i].messages, current)
      PROVE  \E i \in DOMAIN chats' : Says(chats'[i].messages, m)
  <2> DEFINE record == Archived(current, id)
             top == OnTop(record, chats)
  <2>1. record \in Record /\ IdOf(record) = id /\ record.messages = current
    BY <1>0, <1>7, ArchivedFacts
  <2> HIDE DEF record
  <2>2. /\ \E i \in DOMAIN top : top[i] = record
        /\ \A j \in DOMAIN chats :
             IdOf(chats[j]) # IdOf(record) => \E i \in DOMAIN top : top[i] = chats[j]
    BY <1>0, <2>1, OnTopKeeps
  <2>3. top = FirstN(<<record>> \o Without(chats, record.id), MaxChats)
    BY DEF OnTop
  <2>4. chats' = top
    <3>1. Without(chats, record.id) \in Seq(Record) /\ Len(Without(chats, record.id)) <= Len(chats)
      BY <1>0, WithoutFacts
    <3>2. /\ <<record>> \o Without(chats, record.id) \in Seq(Record)
          /\ Len(<<record>> \o Without(chats, record.id)) = Len(Without(chats, record.id)) + 1
      BY <2>1, <3>1, Headed
    <3>3. Len(<<record>> \o Without(chats, record.id)) <= MaxChats
      BY <1>0, <3>1, <3>2, LenProperties, MaxChatsAssumption
    <3>4. top = <<record>> \o Without(chats, record.id)
      BY <2>3, <3>2, <3>3, FirstNFacts, MaxChatsAssumption
    <3> HIDE DEF top
    <3>5. FirstN(top, MaxChats) = top
      BY <3>2, <3>3, <3>4, FirstNFacts, MaxChatsAssumption
    <3>6. QED BY <1>7, <3>5 DEF top, record
  <2> HIDE DEF top
  <2>5. CASE Says(current, m)
    BY <2>1, <2>2, <2>4, <2>5
  <2>6. CASE \E i \in DOMAIN chats : Says(chats[i].messages, m)
    <3>1. PICK i \in DOMAIN chats : Says(chats[i].messages, m)
      BY <2>6
    <3>2. CASE IdOf(chats[i]) # id
      BY <2>1, <2>2, <2>4, <3>1, <3>2
    <3>3. CASE IdOf(chats[i]) = id
      <4>1. Says(current, m)
        BY <1>0, <1>2, <1>7, <3>1, <3>3, PrefixSaid
      <4>2. QED BY <4>1, <2>5
    <3>4. QED BY <3>2, <3>3
  <2>7. QED BY <1>5, <2>5, <2>6
<1>8. ClockMoves => stamp' \in 0..MaxStamp
  BY <1>0, MaxStampAssumption DEF ClockMoves
<1>9. CASE NewChat(b)
  <2>1. /\ chats' = FirstN(OnTop(Archived(current, Fresh), chats), MaxChats)
        /\ stamp' \in 0..MaxStamp
    BY <1>0, <1>8, <1>9 DEF NewChat, Save
  <2>2. QED BY <1>1, <1>3, <1>7, <2>1
<1>10. CASE OpenChat(b)
  <2>1. PICK i \in DOMAIN chats :
           IF current = << >> \/ AlreadySaved(copy[b])
           THEN Save(b, chats, chats[i].messages)
           ELSE /\ ClockMoves
                /\ Save(b, OnTop(Archived(current, OriginId(copy[b])), chats), chats[i].messages)
    BY <1>0, <1>10 DEF OpenChat
  <2>2. CASE current = << >> \/ AlreadySaved(copy[b])
    <3>1. chats' = chats
      BY <1>0, <2>1, <2>2, FirstNFacts, MaxChatsAssumption, LenProperties DEF Save
    <3>2. CASE Says(current, m)
      <4>1. current # << >>
        BY <3>2 DEF Says
      <4>2. PICK j \in DOMAIN chats : Content(chats[j].messages) = Content(current)
        BY <1>0, <2>2, <4>1 DEF AlreadySaved
      <4>3. Says(chats[j].messages, m)
        BY <3>2, <4>2, SameContent
      <4>4. QED BY <3>1, <4>2, <4>3
    <3>3. QED BY <1>5, <3>1, <3>2
  <2>3. CASE ~(current = << >> \/ AlreadySaved(copy[b]))
    <3> DEFINE id == OriginId(copy[b])
    <3>1. chats' = FirstN(OnTop(Archived(current, id), chats), MaxChats) /\ stamp' \in 0..MaxStamp
      BY <1>8, <2>1, <2>3 DEF Save
    <3>2. id \in Nat /\ \A j \in DOMAIN chats :
                          IdOf(chats[j]) = id => IsPrefixOf(chats[j].messages, current)
      <4>1. CASE id = Fresh
        BY <1>1, <1>3, <4>1
      <4>2. CASE id # Fresh
        <5>1. PICK j \in DOMAIN chats :
                IsPrefixOf(chats[j].messages, current) /\ id = IdOf(chats[j])
          BY <1>0, <4>2, OriginFacts
        <5>2. QED BY <1>0, <1>2, <5>1 DEF Distinct
      <4>3. QED BY <4>1, <4>2
    <3> HIDE DEF id
    <3>3. QED BY <1>7, <3>1, <3>2
  <2>4. QED BY <2>1, <2>2, <2>3
<1>11. QED BY <1>9, <1>10

----------------------------------------------------------------------------
(* The archive's invariant, one lemma per request *)

LEMMA InitChatsInv == InitChats => ChatsInv
<1> SUFFICES ASSUME InitChats PROVE ChatsInv
  OBVIOUS
<1>1. IInv
  BY InitIInv DEF InitChats
<1>2. << >> \in Seq(Record) /\ << >> \in Seq(Message)
  BY EmptySeq
<1>3. \A n : Listed(<< >>, n)
  BY <1>2 DEF Listed, Distinct
<1>4. stamp \in 0..MaxStamp /\ bpc \in PlaceOf /\ copy \in [Browse -> Copy]
  BY <1>2, MaxStampAssumption DEF InitChats, PlaceOf, Copy, NoCopy
<1>5. chats = << >> /\ \A b \in Browse : copy[b].chats = << >>
  BY DEF InitChats, NoCopy
<1>6. Listed(chats, Saves) /\ \A b \in Browse : Listed(copy[b].chats, Saves)
  BY <1>3, <1>5
<1>7. QED BY <1>1, <1>4, <1>6 DEF ChatsInv

LEMMA ListedLater ==
  ASSUME NEW n \in Nat, NEW m \in Nat, n <= m, NEW list, Listed(list, n)
  PROVE  Listed(list, m)
<1>1. \A i \in DOMAIN list : IdOf(list[i]) \in Nat /\ IdOf(list[i]) <= n
  BY ElementOfSeq, RecordFacts, LenProperties DEF Listed
<1>2. \A i \in DOMAIN list : IdOf(list[i]) <= m
  BY <1>1
<1>3. QED BY <1>2 DEF Listed

\* A save of well-formed lists, whose ids are older than the save or its own.
LEMMA SaveInv ==
  ASSUME ChatsInv, NEW b \in Browse, NEW list, NEW msgs \in Seq(Message),
         Save(b, list, msgs), Listed(list, Saves + 1), stamp' \in 0..MaxStamp
  PROVE  ChatsInv'
<1>1. Saves \in Nat /\ Saves + 1 \in Nat
  BY SavesFacts
<1>2. Saves' = Saves + 1
  <2> DEFINE done == {a \in Browse : bpc[a] = "saved"}
  <2>1. IsFiniteSet(done) /\ b \notin done
    BY BrowseAssumption, FS_Subset DEF Save
  <2>2. {a \in Browse : bpc'[a] = "saved"} = done \cup {b}
    BY DEF Save, ChatsInv, PlaceOf
  <2> HIDE DEF done
  <2>3. Cardinality(done \cup {b}) = Cardinality(done) + 1
    BY <2>1, FS_AddElement
  <2>4. Saves' = Cardinality({a \in Browse : bpc'[a] = "saved"})
    BY DEF Saves
  <2>5. QED BY <2>2, <2>3, <2>4 DEF Saves, done
<1>3. IInv'
  <2>1. LastN(msgs, MaxMsgs) \in Seq(Message)
    BY LastNType, MaxMsgsAssumption
  <2>2. TypeOK'
    BY <2>1 DEF Save, ChatsInv, IInv, TypeOK
  <2>3. RegenReady'
    BY DEF Save, ChatsInv, IInv, RegenReady
  <2>4. ClaimHeld'
    BY DEF Save, ChatsInv, IInv, ClaimHeld, Young, Generating
  <2>5. QED BY <2>2, <2>3, <2>4 DEF IInv
<1>4. bpc' \in PlaceOf
  BY DEF Save, ChatsInv, PlaceOf
<1>5. NoCopy \in Copy /\ Listed(NoCopy.chats, Saves + 1)
  <2>1. << >> \in Seq(Record) /\ << >> \in Seq(Message)
    BY EmptySeq
  <2>2. QED BY <2>1 DEF NoCopy, Copy, Listed, Distinct
<1>6. copy' \in [Browse -> Copy]
  BY <1>5 DEF Save, ChatsInv
<1>7. Listed(chats', Saves + 1)
  BY <1>1, FirstNListed DEF Save
<1>8. ASSUME NEW a \in Browse PROVE Listed(copy'[a].chats, Saves + 1)
  <2>1. CASE a = b
    BY <1>5, <2>1 DEF Save, ChatsInv
  <2>2. CASE a # b
    <3>1. copy'[a] = copy[a] /\ Listed(copy[a].chats, Saves)
      BY <2>2 DEF Save, ChatsInv
    <3>2. QED BY <1>1, <3>1, ListedLater
  <2>3. QED BY <2>1, <2>2
<1>9. Listed(chats', Saves') /\ \A a \in Browse : Listed(copy'[a].chats, Saves')
  BY <1>2, <1>7, <1>8
<1>10. Listed(chats, Saves)' /\ \A a \in Browse : Listed(copy[a].chats, Saves)'
  BY <1>9 DEF Listed, Distinct
<1>11. QED BY <1>3, <1>4, <1>6, <1>10 DEF ChatsInv, PlaceOf, Copy

LEMMA BrowseStepInv ==
  ASSUME ChatsInv, NEW b \in Browse, BrowseStep(b)
  PROVE  ChatsInv'
<1> DEFINE c == copy[b]
<1>0. /\ c \in Copy /\ c.chats \in Seq(Record) /\ c.current \in Seq(Message)
      /\ Listed(c.chats, Saves) /\ stamp \in 0..MaxStamp
  BY DEF ChatsInv, Copy
<1>1. Saves \in Nat /\ Saves + 1 \in Nat /\ Saves <= Saves + 1 /\ Fresh = Saves + 1
  BY SavesFacts
<1>2. \A i \in DOMAIN c.chats :
        /\ c.chats[i] \in Record /\ IdOf(c.chats[i]) \in Nat /\ IdOf(c.chats[i]) <= Saves
        /\ c.chats[i].messages \in Seq(Message)
  BY <1>0, ElementOfSeq, RecordFacts, LenProperties DEF Listed
<1>3. ClockMoves => stamp' \in 0..MaxStamp
  BY <1>0, MaxStampAssumption DEF ClockMoves
<1>4. Listed(c.chats, Saves + 1)
  BY <1>0, <1>1, ListedLater
<1>5. << >> \in Seq(Message)
  BY EmptySeq
<1>6. ASSUME NEW id \in Nat, id <= Saves + 1, stamp' \in 0..MaxStamp
      PROVE  Listed(OnTop(Archived(c.current, id), c.chats), Saves + 1)
  BY <1>0, <1>1, <1>6, ArchivedFacts, OnTopListed
<1>7. CASE Load(b)
  <2>1. Loaded \in Seq(Message)
    BY LoadedType DEF ChatsInv, IInv, TypeOK
  <2>2. IInv' /\ stamp' \in 0..MaxStamp /\ bpc' \in PlaceOf
    <3>1. TypeOK'
      BY <1>7 DEF Load, vars, ChatsInv, IInv, TypeOK
    <3>2. RegenReady' /\ ClaimHeld'
      BY <1>7 DEF Load, vars, ChatsInv, IInv, RegenReady, ClaimHeld, Young, Generating
    <3>3. QED BY <1>0, <1>7, <3>1, <3>2 DEF Load, ChatsInv, IInv, PlaceOf
  <2>3. [chats |-> chats, current |-> Loaded] \in Copy
    BY <2>1 DEF ChatsInv, Listed, Copy
  <2>4. copy' \in [Browse -> Copy]
    BY <1>7, <2>3 DEF Load, ChatsInv
  <2>5. {a \in Browse : bpc'[a] = "saved"} = {a \in Browse : bpc[a] = "saved"}
    BY <1>7 DEF Load, ChatsInv, PlaceOf
  <2>6. Saves' = Saves
    BY <2>5 DEF Saves
  <2>7. \A a \in Browse : copy'[a].chats = chats \/ copy'[a] = copy[a]
    BY <1>7 DEF Load, ChatsInv
  <2>8. \A a \in Browse : Listed(copy'[a].chats, Saves)
    BY <2>7 DEF ChatsInv
  <2>9. Listed(chats, Saves)' /\ \A a \in Browse : Listed(copy[a].chats, Saves)'
    BY <1>7, <2>6, <2>8 DEF Load, ChatsInv, Listed, Distinct
  <2>10. QED BY <2>2, <2>4, <2>9 DEF ChatsInv, PlaceOf, Copy
<1>8. CASE GiveUp(b)
  <2>1. /\ TypeOK' /\ RegenReady' /\ ClaimHeld'
    <3>1. TypeOK'
      BY <1>8 DEF GiveUp, vars, ChatsInv, IInv, TypeOK
    <3>2. RegenReady' /\ ClaimHeld'
      BY <1>8 DEF GiveUp, vars, ChatsInv, IInv, RegenReady, ClaimHeld, Young, Generating
    <3>3. QED BY <3>1, <3>2
  <2>2. stamp' \in 0..MaxStamp /\ bpc' \in PlaceOf
    BY <1>0, <1>8 DEF GiveUp, ChatsInv, PlaceOf
  <2>3. NoCopy \in Copy /\ Listed(NoCopy.chats, Saves)
    <3>1. << >> \in Seq(Record)
      BY EmptySeq
    <3>2. QED BY <1>5, <3>1 DEF NoCopy, Copy, Listed, Distinct
  <2>4. copy' \in [Browse -> Copy]
    BY <1>8, <2>3 DEF GiveUp, ChatsInv
  <2>5. {a \in Browse : bpc'[a] = "saved"} = {a \in Browse : bpc[a] = "saved"}
    BY <1>8 DEF GiveUp, ChatsInv, PlaceOf
  <2>6. Saves' = Saves
    BY <2>5 DEF Saves
  <2>7. \A a \in Browse : copy'[a] = NoCopy \/ copy'[a] = copy[a]
    BY <1>8 DEF GiveUp, ChatsInv
  <2>8. \A a \in Browse : Listed(copy'[a].chats, Saves)
    BY <2>3, <2>7 DEF ChatsInv
  <2>9. Listed(chats, Saves)' /\ \A a \in Browse : Listed(copy[a].chats, Saves)'
    BY <1>8, <2>6, <2>8 DEF GiveUp, ChatsInv, Listed, Distinct
  <2>10. QED BY <2>1, <2>2, <2>4, <2>9 DEF ChatsInv, IInv, PlaceOf, Copy
<1>9. CASE NewChat(b)
  <2>1. Save(b, OnTop(Archived(c.current, Fresh), c.chats), << >>) /\ stamp' \in 0..MaxStamp
    BY <1>3, <1>9 DEF NewChat
  <2>2. Listed(OnTop(Archived(c.current, Fresh), c.chats), Saves + 1)
    BY <1>1, <1>6, <2>1
  <2>3. QED BY <1>5, <2>1, <2>2, SaveInv
<1>10. CASE OpenChat(b)
  <2>1. PICK i \in DOMAIN c.chats :
           IF c.current = << >> \/ AlreadySaved(c)
           THEN Save(b, c.chats, c.chats[i].messages) /\ UNCHANGED stamp
           ELSE /\ ClockMoves
                /\ Save(b, OnTop(Archived(c.current, OriginId(c)), c.chats), c.chats[i].messages)
    BY <1>10 DEF OpenChat
  <2>2. CASE c.current = << >> \/ AlreadySaved(c)
    BY <1>0, <1>2, <1>4, <2>1, <2>2, SaveInv
  <2>3. CASE ~(c.current = << >> \/ AlreadySaved(c))
    <3>1. OriginId(c) \in Nat /\ OriginId(c) <= Saves + 1
      <4>1. CASE OriginId(c) = Fresh
        BY <1>1, <4>1
      <4>2. CASE OriginId(c) # Fresh
        <5>1. PICK j \in DOMAIN c.chats : OriginId(c) = IdOf(c.chats[j])
          BY <1>0, <4>2, OriginFacts
        <5>2. IdOf(c.chats[j]) \in Nat /\ IdOf(c.chats[j]) <= Saves
          BY <1>2
        <5>3. QED BY <1>1, <5>1, <5>2
      <4>3. QED BY <4>1, <4>2
    <3>2. stamp' \in 0..MaxStamp
      BY <1>3, <2>1, <2>3
    <3>3. Listed(OnTop(Archived(c.current, OriginId(c)), c.chats), Saves + 1)
      BY <1>6, <3>1, <3>2
    <3>4. QED BY <1>2, <2>1, <2>3, <3>2, <3>3, SaveInv
  <2>4. QED BY <2>2, <2>3
<1>11. CASE RenameChat(b)
  <2>1. PICK i \in DOMAIN c.chats :
           Save(b, [c.chats EXCEPT ![i].title = "renamed"], c.current) /\ UNCHANGED stamp
    BY <1>11 DEF RenameChat
  <2> DEFINE named == [c.chats[i] EXCEPT !.title = "renamed"]
             list == [c.chats EXCEPT ![i] = named]
  <2>2. named \in Record /\ IdOf(named) = IdOf(c.chats[i])
    BY <1>2 DEF Record, IdOf
  <2>3. list = [c.chats EXCEPT ![i].title = "renamed"]
    OBVIOUS
  <2> HIDE DEF named
  <2>4. list \in Seq(Record)
    BY <1>0, <2>2, ExceptSeq
  <2>5. \A j \in DOMAIN list : j \in DOMAIN c.chats /\ IdOf(list[j]) = IdOf(c.chats[j])
    BY <1>0, <2>2
  <2> HIDE DEF list
  <2>6. Listed(list, Saves + 1)
    BY <1>4, <2>4, <2>5 DEF Listed, Distinct
  <2>7. QED BY <1>0, <2>1, <2>3, <2>6, SaveInv
<1>12. CASE DeleteChat(b)
  <2>1. PICK id \in Ids(c.chats) : Save(b, Without(c.chats, id), c.current) /\ UNCHANGED stamp
    BY <1>12 DEF DeleteChat
  <2>2. Listed(Without(c.chats, id), Saves + 1)
    BY <1>1, <1>4, WithoutListed
  <2>3. QED BY <1>0, <2>1, <2>2, SaveInv
<1>13. CASE TruncateCurrent(b)
  <2>1. PICK n \in 0..Len(c.current) :
           Save(b, c.chats, SubSeq(c.current, 1, n)) /\ UNCHANGED stamp
    BY <1>13 DEF TruncateCurrent
  <2>2. 1 \in 1..Len(c.current) + 1 /\ Len(c.current) \in Nat
    BY <1>0, LenProperties
  <2>3. SubSeq(c.current, 1, n) \in Seq(Message)
    BY <1>0, <2>2, SubSeqProperties
  <2>4. QED BY <1>0, <1>4, <2>1, <2>3, SaveInv
<1>14. QED
  BY <1>7, <1>8, <1>9, <1>10, <1>11, <1>12, <1>13 DEF BrowseStep

LEMMA ChatsInvStep ==
  ASSUME ChatsInv, [NextChats]_allVars
  PROVE  ChatsInv'
<1>1. ASSUME [Next]_vars, UNCHANGED chatVars PROVE ChatsInv'
  <2>1. IInv'
    BY <1>1, NextType, NextReady, NextHeld DEF ChatsInv, IInv
  <2>2. stamp' = stamp /\ bpc' = bpc /\ copy' = copy /\ chats' = chats
    BY <1>1 DEF chatVars
  <2>3. Saves' = Saves
    BY <2>2 DEF Saves
  <2>4. Listed(chats, Saves)' /\ \A a \in Browse : Listed(copy[a].chats, Saves)'
    BY <2>2, <2>3 DEF ChatsInv, Listed, Distinct
  <2>5. QED BY <2>1, <2>2, <2>4 DEF ChatsInv, PlaceOf, Copy
<1>2. ASSUME NEW b \in Browse, BrowseStep(b) PROVE ChatsInv'
  BY <1>2, BrowseStepInv
<1>3. CASE UNCHANGED allVars
  BY <1>1, <1>3 DEF allVars
<1>4. QED BY <1>1, <1>2, <1>3 DEF NextChats

(* However sends, regenerates and browsing interleave, for any number of   *)
(* requests and any cap on the archive: a request that opens a chat or     *)
(* starts a new one from a fresh copy, with room in the archive, loses no  *)
(* message: ids are distinct, and the one conversation an archived one     *)
(* replaces is one it continues.                                           *)
THEOREM BrowsingTheorem == SpecChats => BrowsingKeepsMessages
<1> DEFINE Keeps == \A b \in Browse :
             /\ OpenChat(b) \/ NewChat(b)
             /\ copy[b] = [chats |-> chats, current |-> current]
             /\ Len(chats) < MaxChats
             => MessagesOf(chats, current) \subseteq MessagesOf(chats', current')
<1>1. InitChats => ChatsInv
  BY InitChatsInv
<1>2. ChatsInv /\ [NextChats]_allVars => ChatsInv'
  BY ChatsInvStep
<1>3. ChatsInv => [Keeps]_allVars
  BY BrowsingStep
<1>4. QED BY <1>1, <1>2, <1>3, PTL DEF SpecChats, BrowsingKeepsMessages
=============================================================================

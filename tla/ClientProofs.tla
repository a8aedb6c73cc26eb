---------------------------- MODULE ClientProofs ----------------------------
(* Theorems about a tab of the web client, for any number of conversations,    *)
(* texts, calls, clicks and losses: what it shows when it is quiet, and that   *)
(* what is typed is kept.                                                      *)
EXTENDS Client, Teaching, SequenceTheorems, WellFoundedInduction, TLAPS

----------------------------------------------------------------------------
(* The invariant *)

Line == {m \in [who : {"user", "answer", "failed"}, text : Nat] : m.who = "user" \/ m.text = NoText}
Kinds == {"sent", "redo", "redone", "again", "open", "new", "delete", "truncate"}
CallType == {c \in [kind : Kinds, thread : Threads, index : Nat, of : Nat, text : Nat] :
               IF c.kind = "truncate" THEN c.index # 0 ELSE c.text = NoText}
ReplyType == [call : CallType, thread : Seq(Line), stale : BOOLEAN, lost : BOOLEAN]
SenderType == [at : {"rest", "upload", "stream", "refresh", "cut", "stopped"}, text : Nat,
               turn : {"none", "runs", "refused", "stored"}, seen : BOOLEAN]
BubbleType == [text : Nat, answer : {"none", "waiting", "partial", "error"}]
EditorType == {e \in [index : Nat, of : Nat, text : Nat] : e = Shut \/ e.index # 0}

ClientTypeOK ==
  /\ saved \in [Threads -> Seq(Line)] /\ opened \in Threads /\ running \subseteq Nat
  /\ shown \in Seq(Line) /\ bubble \in BubbleType /\ box \in Nat
  /\ sender \in SenderType /\ editor \in EditorType
  /\ asked \subseteq CallType /\ replies \subseteq ReplyType
  /\ typed \subseteq Texts
  /\ behind \in BOOLEAN /\ hurried \in BOOLEAN

\* Where a send is tells what is known of its turn.
SenderOK ==
  /\ sender.at = "rest" => sender = Resting
  /\ sender.at = "upload" => sender.turn = "none"
  /\ sender.at = "refresh" => sender.turn = "stored"

\* A reply that nothing has overtaken holds what the server has.
Fresh(r) == r.lost \/ r.stale \/ r.thread = saved[opened]

\* The tab shows what the server has, or is due to be told.
Retelling == {"redo", "redone", "again"}
Due ==
  \/ sender.turn = "stored"
  \/ \E r \in replies : r.call.kind \in Retelling \/ (r.call.kind \in {"open", "new"} /\ ~r.lost)
  \/ \E c \in asked : c.kind \in {"redone", "again"}
ViewOK == behind \/ shown = saved[opened] \/ Due

ViewInv == ClientTypeOK /\ SenderOK /\ (\A r \in replies : Fresh(r)) /\ ViewOK

\* The editor stands at a message that is shown, or at the one after them.
EditorOK ==
  \/ editor = Shut
  \/ editor.index \in DOMAIN shown /\ shown[editor.index] = Question(editor.of)
  \/ editor.index = Len(shown) + 1

\* Unless calls have crossed, a cut is alone and meets the message it was meant for.
Meets(c) == c.index \in DOMAIN saved[opened] => saved[opened][c.index] = Question(c.of)
AloneOK == \A c \in asked : c.kind = "truncate" /\ ~hurried => asked = {c} /\ replies = {} /\ Meets(c)

\* Only a send that waits for its refresh has one under way, and has but one.
Waits == sender.at \in {"refresh", "cut", "stopped"}
SentOK ==
  /\ \A c \in asked : c.kind = "sent" => Waits /\ c = Refresh("sent") /\ \A r \in replies : r.call.kind # "sent"
  /\ \A r \in replies : r.call.kind = "sent" =>
       Waits /\ \A q \in replies : q.call.kind = "sent" => q = r

StoredOK == sender.turn = "stored" => sender.text \in OnServer \cup dropped \cup mislaid \cup {NoText}

KeepInv == ViewInv /\ EditorOK /\ AloneOK /\ SentOK /\ StoredOK /\ TypedKeptUnlessMislaid

----------------------------------------------------------------------------
(* Types *)

LEMMA CallTypes ==
  /\ \A kind \in Kinds \ {"truncate"}, c \in Threads, i \in Nat : Call(kind, c, i, NoText, NoText) \in CallType
  /\ \A kind \in Kinds \ {"truncate"} : Refresh(kind) \in CallType /\ Refresh(kind).kind = kind
                                         /\ Refresh(kind).text = NoText
BY FirstAssumption DEF Call, CallType, Kinds, Refresh, NoText

LEMMA CallFields ==
  ASSUME NEW c \in CallType
  PROVE  /\ c.kind \in Kinds /\ c.thread \in Threads /\ c.index \in Nat /\ c.of \in Nat /\ c.text \in Nat
         /\ c.kind = "truncate" => c.index # 0
         /\ c.kind # "truncate" => c.text = NoText
BY DEF CallType

LEMMA ReplyFields ==
  ASSUME NEW r \in ReplyType
  PROVE  /\ r.call \in CallType /\ r.thread \in Seq(Line) /\ r.stale \in BOOLEAN /\ r.lost \in BOOLEAN
         /\ \A b \in BOOLEAN : /\ [r EXCEPT !.stale = b] \in ReplyType /\ [r EXCEPT !.stale = b].call = r.call
                               /\ [r EXCEPT !.stale = b].lost = r.lost /\ [r EXCEPT !.stale = b].thread = r.thread
                               /\ [r EXCEPT !.stale = b].stale = b
BY DEF ReplyType

LEMMA LostType ==
  ASSUME NEW c \in CallType
  PROVE  Lost(c) \in ReplyType /\ Lost(c).call = c /\ Lost(c).lost
BY EmptySeq DEF ReplyType, Lost

LEMMA NewReplyType ==
  ASSUME NEW c \in CallType, NEW thread \in Seq(Line), NEW lost \in BOOLEAN
  PROVE  [call |-> c, thread |-> thread, stale |-> FALSE, lost |-> lost] \in ReplyType
BY DEF ReplyType

LEMMA SenderFields ==
  ASSUME NEW s \in SenderType
  PROVE  /\ s.text \in Nat
         /\ \A at \in {"rest", "upload", "stream", "refresh", "cut", "stopped"} :
              /\ [s EXCEPT !.at = at] \in SenderType /\ [s EXCEPT !.at = at].at = at
              /\ [s EXCEPT !.at = at].text = s.text /\ [s EXCEPT !.at = at].turn = s.turn
         /\ \A turn \in {"none", "runs", "refused", "stored"} :
              /\ [s EXCEPT !.turn = turn] \in SenderType /\ [s EXCEPT !.turn = turn].at = s.at
              /\ [s EXCEPT !.turn = turn].text = s.text /\ [s EXCEPT !.turn = turn].turn = turn
         /\ /\ [s EXCEPT !.seen = TRUE] \in SenderType /\ [s EXCEPT !.seen = TRUE].at = s.at
            /\ [s EXCEPT !.seen = TRUE].text = s.text /\ [s EXCEPT !.seen = TRUE].turn = s.turn
BY DEF SenderType

LEMMA RestingType == Resting \in SenderType /\ Resting.at = "rest" /\ Resting.text = NoText /\ Resting.turn = "none"
BY DEF Resting, SenderType, NoText

LEMMA ShutType == Shut \in EditorType /\ Shut.text = NoText
BY DEF Shut, EditorType, NoText

LEMMA SaidTypes ==
  /\ \A t \in Nat : Question(t) \in Line /\ Question(t).text = t
  /\ \A who \in {"answer", "failed"} : Reply(who) \in Line /\ Reply(who).text = NoText
  /\ NoText \in Nat /\ Texts \subseteq Nat \ {NoText}
BY DEF Question, Reply, Line, NoText, Texts

LEMMA PairSeq ==
  ASSUME NEW S, NEW x \in S, NEW y \in S
  PROVE  <<x, y>> \in Seq(S)
OBVIOUS

LEMMA StoredSeq ==
  ASSUME NEW thread \in Seq(Line), NEW t \in Nat, NEW who \in {"answer", "failed"}
  PROVE  thread \o <<Question(t), Reply(who)>> \in Seq(Line)
<1>1. <<Question(t), Reply(who)>> \in Seq(Line)
  BY SaidTypes, PairSeq
<1>2. QED BY <1>1, ConcatProperties

\* A thread is its head and what lies beyond.
LEMMA CutThread ==
  ASSUME ClientTypeOK, NEW c \in CallType, c.kind = "truncate", ~Refused(c)
  PROVE  /\ Cut(c) \in Seq(Line) /\ Beyond(c) \in Seq(Line)
         /\ Len(Beyond(c)) = Len(saved[opened]) + 1 - c.index
         /\ Len(Cut(c)) = c.index - 1
         /\ \A i \in 1..c.index - 1 : Cut(c)[i] = saved[opened][i]
         /\ \A i \in 1..Len(Beyond(c)) : Beyond(c)[i] = saved[opened][c.index + i - 1]
<1> DEFINE s == saved[opened]
           k == c.index
<1>1. s \in Seq(Line) /\ k \in Nat \ {0}
  BY CallFields DEF ClientTypeOK
<1>2. Len(s) \in Nat /\ k <= Len(s) + 1
  BY <1>1, LenProperties DEF Refused
<1>3. \A i \in 1..Len(s) : s[i] \in Line
  BY <1>1, ElementOfSeq
<1> HIDE DEF s, k
<1>4. /\ SubSeq(s, 1, k - 1) \in Seq(Line)
      /\ Len(SubSeq(s, 1, k - 1)) = IF 1 <= k - 1 THEN k - 1 - 1 + 1 ELSE 0
      /\ \A i \in 1..k - 1 - 1 + 1 : SubSeq(s, 1, k - 1)[i] = s[1 + i - 1]
  <2>1. k - 1 \in Int /\ 1 \in Int /\ \A i \in 1..k - 1 : s[i] \in Line
    BY <1>1, <1>2, <1>3
  <2> HIDE DEF s, k
  <2>2. QED BY <2>1, SubSeqProperties
<1>5. /\ SubSeq(s, k, Len(s)) \in Seq(Line)
      /\ Len(SubSeq(s, k, Len(s))) = IF k <= Len(s) THEN Len(s) - k + 1 ELSE 0
      /\ \A i \in 1..Len(s) - k + 1 : SubSeq(s, k, Len(s))[i] = s[k + i - 1]
  <2>1. k \in Int /\ Len(s) \in Int /\ \A i \in k..Len(s) : s[i] \in Line
    BY <1>1, <1>2, <1>3
  <2>2. QED BY <2>1, SubSeqProperties
<1>6. /\ Len(SubSeq(s, k, Len(s))) = Len(s) + 1 - k
      /\ Len(SubSeq(s, 1, k - 1)) = k - 1
      /\ \A i \in 1..k - 1 : SubSeq(s, 1, k - 1)[i] = s[i]
      /\ \A i \in 1..Len(SubSeq(s, k, Len(s))) : SubSeq(s, k, Len(s))[i] = s[k + i - 1]
  BY <1>1, <1>2, <1>4, <1>5
<1>7. QED BY <1>4, <1>5, <1>6 DEF Cut, Beyond, s, k

LEMMA CutsNothing ==
  ASSUME ClientTypeOK, NEW c \in CallType, c.kind = "truncate", ~Refused(c), Beyond(c) = <<>>
  PROVE  Cut(c) = saved[opened]
<1> DEFINE s == saved[opened]
<1>1. s \in Seq(Line) /\ c.index \in Nat
  BY CallFields DEF ClientTypeOK
<1>2. Len(s) \in Nat /\ Cut(c) \in Seq(Line)
  BY <1>1, LenProperties, CutThread
<1>3. Len(s) + 1 - c.index = 0 /\ Len(Cut(c)) = c.index - 1 /\ \A i \in 1..c.index - 1 : Cut(c)[i] = s[i]
  BY CutThread, EmptySeq
<1> HIDE DEF s
<1>4. Len(Cut(c)) = Len(s) /\ \A i \in 1..Len(s) : Cut(c)[i] = s[i]
  BY <1>1, <1>2, <1>3
<1>5. Cut(c) = s
  BY <1>1, <1>2, <1>4, SeqEqual
<1>6. QED BY <1>5 DEF s

LEMMA RegeneratedThread ==
  ASSUME ClientTypeOK, NEW c \in CallType
  PROVE  /\ Regenerated(c) \in Seq(Line)
         /\ TextsOf(Regenerated(c)) = TextsOf(saved[opened])
<1> DEFINE s == saved[opened]
           a == Reply("answer")
<1>1. s \in Seq(Line) /\ a \in Line /\ a.text = NoText /\ c.index \in Nat
  BY SaidTypes, CallFields DEF ClientTypeOK
<1>2. Len(s) \in Nat /\ DOMAIN s = 1..Len(s) /\ \A i \in 1..Len(s) : s[i] \in Line
  BY <1>1, LenProperties, ElementOfSeq
<1> HIDE DEF s, a
<1>3. CASE c.index \in DOMAIN s /\ s[c.index].who = "failed"
  <2>1. Regenerated(c) = [s EXCEPT ![c.index] = a]
    BY <1>3 DEF Regenerated, s, a
  <2> DEFINE e == [s EXCEPT ![c.index] = a]
  <2>2. e \in Seq(Line) /\ Len(e) = Len(s) /\ \A j \in 1..Len(s) : e[j] = IF j = c.index THEN a ELSE s[j]
    BY <1>1, <1>2, <1>3, ExceptSeq
  <2>3. DOMAIN e = 1..Len(s)
    BY <2>2, LenProperties
  <2>4. s[c.index].text = NoText
    BY <1>2, <1>3 DEF Line
  <2> HIDE DEF e
  <2>5. \A j \in 1..Len(s) : e[j].text = s[j].text
    BY <1>1, <2>2, <2>4
  <2>6. TextsOf(e) = TextsOf(s)
    BY <1>2, <2>3, <2>5 DEF TextsOf
  <2>7. QED BY <2>1, <2>2, <2>6 DEF e, s
<1>4. CASE ~(c.index \in DOMAIN s /\ s[c.index].who = "failed")
  <2>1. Regenerated(c) = Append(s, a)
    BY <1>4 DEF Regenerated, s, a
  <2> DEFINE e == Append(s, a)
  <2>2. /\ e \in Seq(Line) /\ Len(e) = Len(s) + 1
        /\ \A j \in 1..Len(s) : e[j] = s[j]
        /\ e[Len(s) + 1] = a
    BY <1>1, AppendProperties
  <2>3. DOMAIN e = 1..Len(s) + 1
    BY <2>2, LenProperties
  <2> HIDE DEF e
  <2>4. DOMAIN e = DOMAIN s \cup {Len(s) + 1}
    BY <1>2, <2>3
  <2>5. {e[j].text : j \in DOMAIN e} = {s[j].text : j \in DOMAIN s} \cup {NoText}
    BY <1>1, <1>2, <2>2, <2>4
  <2>6. TextsOf(e) = TextsOf(s)
    BY <2>5 DEF TextsOf
  <2>7. QED BY <2>1, <2>2, <2>6 DEF e, s
<1>5. QED BY <1>3, <1>4

LEMMA RefreshTypes ==
  /\ Refresh("sent") \in CallType /\ Refresh("redone") \in CallType /\ Refresh("again") \in CallType
BY CallTypes DEF Kinds

LEMMA RenderTypes ==
  ASSUME NEW thread \in Seq(Line), Render(thread)
  PROVE  shown' \in Seq(Line) /\ bubble' \in BubbleType /\ editor' \in EditorType
BY ShutType DEF Render, BubbleType, NoBubble, NoText

LEMMA MarkTypes ==
  ASSUME bubble \in BubbleType, NEW answer \in {"none", "partial", "error"}, Mark(answer)
  PROVE  bubble' \in BubbleType
BY DEF Mark, BubbleType, NoBubble

LEMMA CommitTypes ==
  ASSUME NEW text \in Nat, Commit(text), running \subseteq Nat
  PROVE  /\ box' \in Nat /\ bubble' \in BubbleType /\ sender' \in SenderType /\ running' \subseteq Nat
         /\ sender'.at = "stream" /\ sender'.turn \in {"runs", "refused"} /\ sender'.text = text
         /\ text \in running'
BY DEF Commit, BubbleType, SenderType, NoText

\* What a call that is handled makes of the conversations, and its reply.
LEMMA HandleTypes ==
  ASSUME ClientTypeOK, NEW c \in asked, Handle(c)
  PROVE  /\ c \in CallType /\ saved' \in [Threads -> Seq(Line)] /\ opened' \in Threads
         /\ replies' \subseteq ReplyType /\ asked' = asked \ {c}
<1>1. c \in CallType /\ c.thread \in Threads
  BY CallFields DEF ClientTypeOK
<1>2. saved' \in [Threads -> Seq(Line)] /\ opened' \in Threads
  <2>1. CASE saved' = saved /\ opened' = c.thread
    BY <1>1, <2>1 DEF ClientTypeOK
  <2>2. CASE UNCHANGED <<saved, opened>>
    BY <2>2 DEF ClientTypeOK
  <2>3. CASE saved' = [saved EXCEPT ![c.thread] = IF c.thread = opened THEN @ ELSE <<>>] /\ UNCHANGED opened
    BY <2>3, <1>1, EmptySeq DEF ClientTypeOK
  <2>4. CASE c.kind = "truncate" /\ saved' = [saved EXCEPT ![opened] = Cut(c)] /\ UNCHANGED opened
    <3>1. Cut(c) \in Seq(Line)
      BY <1>1, <2>4, CutThread DEF Handle
    <3>2. QED BY <2>4, <3>1 DEF ClientTypeOK
  <2>5. CASE saved' = [saved EXCEPT ![opened] = Regenerated(c)] /\ UNCHANGED opened
    <3>1. Regenerated(c) \in Seq(Line)
      BY <1>1, RegeneratedThread
    <3>2. QED BY <2>5, <3>1 DEF ClientTypeOK
  <2>6. QED BY <2>1, <2>2, <2>3, <2>4, <2>5 DEF Handle
<1>3. [call |-> c, thread |-> saved'[opened'], stale |-> FALSE, lost |-> FALSE] \in ReplyType
  BY <1>1, <1>2, NewReplyType
<1>4. \A r \in replies : [r EXCEPT !.stale = (@ \/ saved # saved' \/ opened # opened')] \in ReplyType
  BY ReplyFields DEF ClientTypeOK, ReplyType
<1>5. QED BY <1>1, <1>2, <1>3, <1>4 DEF Handle, Answered

\* The editor opens at a message that is shown, or at the one after them.
LEMMA EditableTypes ==
  ASSUME ClientTypeOK, NEW m \in Editable
  PROVE  /\ m.index \in Nat \ {0} /\ m.of \in Nat
         /\ \/ m.index \in DOMAIN shown /\ shown[m.index] = Question(m.of)
            \/ m.index = Len(shown) + 1
<1>1. Len(shown) \in Nat /\ DOMAIN shown = 1..Len(shown) /\ \A i \in 1..Len(shown) : shown[i] \in Line
  BY LenProperties, ElementOfSeq DEF ClientTypeOK
<1>2. CASE \E i \in DOMAIN shown : shown[i].who = "user" /\ m = [index |-> i, of |-> shown[i].text]
  <2>1. PICK i \in DOMAIN shown : shown[i].who = "user" /\ m = [index |-> i, of |-> shown[i].text]
    BY <1>2
  <2>2. m.index = i /\ m.of = shown[i].text /\ i \in Nat \ {0} /\ shown[i] \in Line
    BY <1>1, <2>1
  <2>3. shown[i] = Question(shown[i].text) /\ shown[i].text \in Nat
    BY <2>1, <2>2 DEF Line, Question
  <2>4. QED BY <2>1, <2>2, <2>3
<1>3. CASE m = [index |-> Len(shown) + 1, of |-> bubble.text]
  BY <1>1, <1>3 DEF ClientTypeOK, BubbleType
<1>4. QED BY <1>2, <1>3 DEF Editable

LEMMA TypeStep ==
  ASSUME ClientTypeOK, ClientNext
  PROVE  ClientTypeOK'
<1>1. CASE \E t \in Texts : Type(t)
  BY <1>1, SaidTypes DEF ClientTypeOK, Type, serverVars
<1>2. CASE \E t \in Texts : Rewrite(t)
  <2>1. PICK t \in Texts : Rewrite(t)
    BY <1>2
  <2>2. t \in Nat
    BY SaidTypes
  <2>3. [editor EXCEPT !.text = t] \in EditorType
    BY <2>1, <2>2 DEF ClientTypeOK, EditorType, Rewrite
  <2>4. QED BY <2>1, <2>3 DEF ClientTypeOK, Rewrite, serverVars
<1>3. CASE \E t \in Texts, who \in {"answer", "failed"} : TurnStored(t, who)
  <2>1. PICK t \in Texts, who \in {"answer", "failed"} : TurnStored(t, who)
    BY <1>3
  <2>2. saved[opened] \o <<Question(t), Reply(who)>> \in Seq(Line)
    BY SaidTypes, StoredSeq DEF ClientTypeOK
  <2>3. [sender EXCEPT !.turn = "stored"] \in SenderType
    BY DEF ClientTypeOK, SenderType
  <2>4. \A r \in replies : [r EXCEPT !.stale = TRUE] \in ReplyType
    BY ReplyFields DEF ClientTypeOK
  <2>5. QED BY <2>1, <2>2, <2>3, <2>4 DEF ClientTypeOK, TurnStored
<1>4. CASE \E t \in Texts : TurnRefused(t)
  <2>1. [sender EXCEPT !.turn = "refused"] \in SenderType
    BY DEF ClientTypeOK, SenderType
  <2>2. QED BY <1>4, <2>1 DEF ClientTypeOK, TurnRefused
<1>5. CASE SendText
  BY <1>5, CommitTypes DEF ClientTypeOK, SendText
<1>6. CASE SendFiles
  BY <1>6 DEF ClientTypeOK, SendFiles, SenderType, serverVars, ghostVars
<1>7. CASE Uploaded
  BY <1>7, CommitTypes, SenderFields DEF ClientTypeOK, Uploaded
<1>8. CASE UploadFails
  BY <1>8, RestingType DEF ClientTypeOK, UploadFails, serverVars
<1>9. CASE TextArrives
  <2>1. [sender EXCEPT !.seen = TRUE] \in SenderType
    BY DEF ClientTypeOK, SenderType
  <2>2. bubble' \in BubbleType
    BY <1>9, MarkTypes DEF ClientTypeOK, TextArrives
  <2>3. QED BY <1>9, <2>1, <2>2 DEF ClientTypeOK, TextArrives, serverVars, ghostVars
<1>10. CASE StreamDone
  <2>1. [sender EXCEPT !.at = "refresh"] \in SenderType
    BY DEF ClientTypeOK, SenderType
  <2>2. QED BY <1>10, <2>1, RefreshTypes DEF ClientTypeOK, StreamDone, Ask, serverVars
<1>11. CASE StreamCut
  <2>1. [sender EXCEPT !.at = "cut"] \in SenderType
    BY DEF ClientTypeOK, SenderType
  <2>2. QED BY <1>11, <2>1, RefreshTypes DEF ClientTypeOK, StreamCut, Ask, serverVars
<1>12. CASE StreamFails
  <2>1. bubble' \in BubbleType
    BY <1>12, MarkTypes DEF ClientTypeOK, StreamFails
  <2>2. box' \in Nat
    BY <1>12, SenderFields DEF ClientTypeOK, StreamFails, Restore
  <2>3. QED BY <1>12, <2>1, <2>2, RestingType DEF ClientTypeOK, StreamFails, serverVars
<1>13. CASE StopStream
  <2>1. [sender EXCEPT !.at = "stopped"] \in SenderType
    BY DEF ClientTypeOK, SenderType
  <2>2. QED BY <1>13, <2>1, RefreshTypes DEF ClientTypeOK, StopStream, Ask, serverVars
<1>14. CASE \E kind \in {"open", "new", "delete"}, c \in Threads : ClickSidebar(kind, c)
  <2>1. PICK kind \in {"open", "new", "delete"}, c \in Threads : ClickSidebar(kind, c)
    BY <1>14
  <2>2. Call(kind, c, 0, NoText, NoText) \in CallType
    BY CallTypes DEF Kinds
  <2>3. QED BY <2>1, <2>2 DEF ClientTypeOK, ClickSidebar, Ask, serverVars
<1>15. CASE \E i \in 1..MaxLength : ClickRegenerate(i)
  <2>1. PICK i \in 1..MaxLength : ClickRegenerate(i)
    BY <1>15
  <2>2. i \in Nat
    BY <2>1
  <2>3. Call("redo", First, i, NoText, NoText) \in CallType
    BY <2>2, CallTypes, FirstAssumption DEF Kinds
  <2>4. QED BY <2>1, <2>3 DEF ClientTypeOK, ClickRegenerate, Ask, serverVars
<1>16. CASE \E m \in Editable : StartEdit(m)
  <2>1. PICK m \in Editable : StartEdit(m)
    BY <1>16
  <2>2. m.index \in Nat \ {0} /\ m.of \in Nat
    BY <2>1, EditableTypes
  <2>3. [index |-> m.index, of |-> m.of, text |-> NoText] \in EditorType
    BY <2>2 DEF EditorType, NoText
  <2>4. QED BY <2>1, <2>3 DEF ClientTypeOK, StartEdit, serverVars, ghostVars
<1>17. CASE CancelEdit
  BY <1>17, RenderTypes DEF ClientTypeOK, CancelEdit, serverVars
<1>18. CASE SaveEdit
  <2>1. Call("truncate", First, editor.index, editor.of, IF editor.text = NoText THEN editor.of ELSE editor.text)
          \in CallType
    BY <1>18, FirstAssumption DEF ClientTypeOK, SaveEdit, Call, CallType, Kinds, EditorType
  <2>2. QED BY <1>18, <2>1 DEF ClientTypeOK, SaveEdit, Ask, serverVars
<1>19. CASE \E c \in asked : Handle(c)
  <2>1. PICK c \in asked : Handle(c)
    BY <1>19
  <2>2. QED BY <2>1, HandleTypes DEF ClientTypeOK, Handle
<1>20. CASE \E c \in asked : CallFails(c)
  <2>1. PICK c \in asked : CallFails(c)
    BY <1>20
  <2>2. Lost(c) \in ReplyType
    BY LostType DEF ClientTypeOK
  <2>3. QED BY <2>1, <2>2 DEF ClientTypeOK, CallFails, serverVars, ghostVars
<1>21. CASE \E r \in replies : ReplyLost(r)
  <2>1. PICK r \in replies : ReplyLost(r)
    BY <1>21
  <2>2. Lost(r.call) \in ReplyType
    BY LostType, ReplyFields DEF ClientTypeOK
  <2>3. behind' \in BOOLEAN
    BY <2>1 DEF ReplyLost
  <2>4. QED BY <2>1, <2>2, <2>3 DEF ClientTypeOK, ReplyLost, serverVars
<1>22. CASE \E r \in replies : SendEnds(r)
  <2>1. PICK r \in replies : SendEnds(r)
    BY <1>22
  <2>2. r.thread \in Seq(Line) /\ r.stale \in BOOLEAN
    BY ReplyFields DEF ClientTypeOK
  <2>3. shown' \in Seq(Line) /\ bubble' \in BubbleType /\ editor' \in EditorType
    BY <2>1, <2>2, RenderTypes, MarkTypes DEF ClientTypeOK, SendEnds
  <2>4. sender.text \in Nat
    BY SenderFields DEF ClientTypeOK
  <2>5. box' = box \/ Restore(sender.text)
    BY <2>1 DEF SendEnds
  <2>6. box' \in Nat
    BY <2>4, <2>5 DEF ClientTypeOK, Restore
  <2>7. QED BY <2>1, <2>2, <2>3, <2>6, RestingType DEF ClientTypeOK, SendEnds, serverVars
<1>23. CASE \E r \in replies : EditGoesOn(r)
  <2>1. PICK r \in replies : EditGoesOn(r)
    BY <1>23
  <2>2. r.call.text \in Nat
    BY ReplyFields, CallFields DEF ClientTypeOK
  <2>3. CASE r.lost
    BY <2>1, <2>3, RenderTypes DEF ClientTypeOK, EditGoesOn
  <2>4. CASE ~r.lost /\ Busy
    BY <2>1, <2>4 DEF ClientTypeOK, EditGoesOn
  <2>5. CASE ~r.lost /\ ~Busy
    BY <2>1, <2>2, <2>5, CommitTypes DEF ClientTypeOK, EditGoesOn
  <2>6. QED BY <2>3, <2>4, <2>5
<1>24. CASE \E r \in replies : Show(r)
  <2>1. PICK r \in replies : Show(r)
    BY <1>24
  <2>2. r.thread \in Seq(Line) /\ r.stale \in BOOLEAN
    BY ReplyFields DEF ClientTypeOK
  <2>3. shown' \in Seq(Line) /\ bubble' \in BubbleType /\ editor' \in EditorType
    BY <2>1, <2>2, RenderTypes DEF ClientTypeOK, Show
  <2>4. QED BY <2>1, <2>2, <2>3 DEF ClientTypeOK, Show, serverVars
<1>25. CASE \E r \in replies : SidebarFails(r)
  BY <1>25 DEF ClientTypeOK, SidebarFails, serverVars, ghostVars
<1>26. CASE \E r \in replies : RedoRefreshes(r)
  BY <1>26, RefreshTypes DEF ClientTypeOK, RedoRefreshes, serverVars, ghostVars
<1>27. QED BY <1>1, <1>2, <1>3, <1>4, <1>5, <1>6, <1>7, <1>8, <1>9, <1>10, <1>11, <1>12, <1>13,
      <1>14, <1>15, <1>16, <1>17, <1>18, <1>19, <1>20, <1>21, <1>22, <1>23, <1>24, <1>25, <1>26 DEF ClientNext

----------------------------------------------------------------------------
(* What the tab shows *)

LEMMA SenderStep ==
  ASSUME ClientTypeOK, SenderOK, ClientNext
  PROVE  SenderOK'
<1>1. CASE UNCHANGED sender
  BY <1>1 DEF SenderOK
<1>2. CASE \E t \in Texts, who \in {"answer", "failed"} : TurnStored(t, who)
  <2>1. sender' = sender \/ (sender.at = "stream" /\ sender' = [sender EXCEPT !.turn = "stored"])
    BY <1>2 DEF TurnStored, Hears
  <2>2. [sender EXCEPT !.turn = "stored"].at = sender.at
    BY SenderFields DEF ClientTypeOK
  <2>3. QED BY <2>1, <2>2 DEF SenderOK
<1>3. CASE \E t \in Texts : TurnRefused(t)
  <2>1. sender' = sender \/ (sender.at = "stream" /\ sender' = [sender EXCEPT !.turn = "refused"])
    BY <1>3 DEF TurnRefused, Hears
  <2>2. [sender EXCEPT !.turn = "refused"].at = sender.at
    BY SenderFields DEF ClientTypeOK
  <2>3. QED BY <2>1, <2>2 DEF SenderOK
<1>4. CASE SendText
  BY <1>4, CommitTypes DEF SenderOK, ClientTypeOK, SendText
<1>5. CASE SendFiles
  BY <1>5 DEF SenderOK, SendFiles
<1>6. CASE Uploaded
  <2>1. sender.text \in Nat
    BY SenderFields DEF ClientTypeOK
  <2>2. QED BY <1>6, <2>1, CommitTypes DEF SenderOK, ClientTypeOK, Uploaded
<1>7. CASE UploadFails
  BY <1>7 DEF SenderOK, UploadFails, Resting
<1>8. CASE TextArrives
  BY <1>8, SenderFields DEF SenderOK, ClientTypeOK, TextArrives, Hears
<1>9. CASE StreamDone
  BY <1>9, SenderFields DEF SenderOK, ClientTypeOK, StreamDone
<1>10. CASE StreamCut
  BY <1>10, SenderFields DEF SenderOK, ClientTypeOK, StreamCut
<1>11. CASE StreamFails
  BY <1>11 DEF SenderOK, StreamFails, Resting
<1>12. CASE StopStream
  BY <1>12, SenderFields DEF SenderOK, ClientTypeOK, StopStream
<1>13. CASE \E r \in replies : SendEnds(r)
  BY <1>13 DEF SenderOK, SendEnds, Resting
<1>14. CASE \E r \in replies : EditGoesOn(r)
  <2>1. PICK r \in replies : EditGoesOn(r)
    BY <1>14
  <2>2. r.call.text \in Nat
    BY ReplyFields, CallFields DEF ClientTypeOK
  <2>3. sender' = sender \/ Commit(r.call.text)
    BY <2>1 DEF EditGoesOn
  <2>4. QED BY <2>2, <2>3, CommitTypes DEF SenderOK, ClientTypeOK
<1>15. QED BY <1>1, <1>2, <1>3, <1>4, <1>5, <1>6, <1>7, <1>8, <1>9, <1>10, <1>11, <1>12, <1>13,
      <1>14
  DEF ClientNext, Type, Rewrite, ClickSidebar, ClickRegenerate, StartEdit, CancelEdit, SaveEdit,
      Handle, CallFails, ReplyLost, Show, SidebarFails, RedoRefreshes, serverVars, ghostVars

\* Whatever changes what the server has open makes the replies under way stale.
LEMMA FreshStep ==
  ASSUME ClientTypeOK, \A r \in replies : Fresh(r), ClientNext
  PROVE  (\A r \in replies : Fresh(r))'
<1>1. CASE UNCHANGED <<saved, opened>> /\ replies' \subseteq replies
  BY <1>1 DEF Fresh
<1>2. CASE \E t \in Texts, who \in {"answer", "failed"} : TurnStored(t, who)
  <2>1. \A r \in replies : [r EXCEPT !.stale = TRUE].stale
    BY ReplyFields DEF ClientTypeOK
  <2>2. QED BY <1>2, <2>1 DEF TurnStored, Fresh
<1>3. CASE \E c \in asked : Handle(c)
  <2>1. PICK c \in asked : Handle(c)
    BY <1>3
  <2> DEFINE reply == [call |-> c, thread |-> saved'[opened'], stale |-> FALSE, lost |-> FALSE]
             moved == saved # saved' \/ opened # opened'
             older(r) == [r EXCEPT !.stale = r.stale \/ moved]
  <2>2. replies' = {older(r) : r \in replies} \cup {reply}
    BY <2>1 DEF Handle, Answered
  <2>3. reply.thread = saved'[opened']
    OBVIOUS
  <2>4. moved \in BOOLEAN
    OBVIOUS
  <2>5. ~moved => saved' = saved /\ opened' = opened
    OBVIOUS
  <2> HIDE DEF moved
  <2>6. \A r \in replies : /\ older(r).stale = (r.stale \/ moved)
                           /\ older(r).lost = r.lost /\ older(r).thread = r.thread
    BY <2>4, ReplyFields DEF ClientTypeOK
  <2> HIDE DEF older, reply
  <2>7. \A r \in replies : older(r).lost \/ older(r).stale \/ older(r).thread = saved'[opened']
    BY <2>5, <2>6 DEF Fresh
  <2>8. QED BY <2>2, <2>3, <2>7 DEF Fresh
<1>4. CASE \E c \in asked : CallFails(c)
  <2>1. PICK c \in asked : CallFails(c)
    BY <1>4
  <2>2. Lost(c).lost
    BY LostType DEF ClientTypeOK
  <2>3. QED BY <2>1, <2>2 DEF CallFails, Fresh, serverVars
<1>5. CASE \E r \in replies : ReplyLost(r)
  <2>1. PICK r \in replies : ReplyLost(r)
    BY <1>5
  <2>2. Lost(r.call).lost
    BY LostType, ReplyFields DEF ClientTypeOK
  <2>3. QED BY <2>1, <2>2 DEF ReplyLost, Fresh, serverVars
<1>6. QED BY <1>1, <1>2, <1>3, <1>4, <1>5
  DEF ClientNext, Type, Rewrite, TurnRefused, SendText, SendFiles, Uploaded, UploadFails,
      TextArrives, StreamDone, StreamCut, StreamFails, StopStream, ClickSidebar, ClickRegenerate,
      StartEdit, CancelEdit, SaveEdit, SendEnds, EditGoesOn, Show, SidebarFails, RedoRefreshes,
      serverVars, ghostVars

\* Whatever makes the view differ from what the server has is told by a reply, or
\* leaves the tab behind.
LEMMA ViewStep ==
  ASSUME ViewInv, ClientNext
  PROVE  ViewOK'
<1>1. CASE /\ UNCHANGED <<saved, opened, shown, behind, sender, replies>> /\ asked \subseteq asked'
  BY <1>1 DEF ViewInv, ViewOK, Due
<1>2. CASE \E t \in Texts, who \in {"answer", "failed"} : TurnStored(t, who)
  <2>1. PICK t \in Texts, who \in {"answer", "failed"} : TurnStored(t, who)
    BY <1>2
  <2>2. CASE Hears(t)
    <3>1. sender' = [sender EXCEPT !.turn = "stored"]
      BY <2>1, <2>2 DEF TurnStored
    <3>2. sender'.turn = "stored"
      BY <3>1, SenderFields DEF ViewInv, ClientTypeOK
    <3>3. QED BY <3>2 DEF ViewOK, Due
  <2>3. CASE ~Hears(t)
    BY <2>1, <2>3 DEF TurnStored, ViewOK
  <2>4. QED BY <2>2, <2>3
<1>3. CASE \E t \in Texts : TurnRefused(t)
  <2>1. sender' = sender \/ sender.turn # "stored"
    BY <1>3 DEF TurnRefused, Hears
  <2>2. UNCHANGED <<saved, opened, shown, behind, replies, asked>>
    BY <1>3 DEF TurnRefused
  <2>3. QED BY <2>1, <2>2 DEF ViewInv, ViewOK, Due
<1>4. CASE SendText
  <2>1. sender.turn # "stored"
    BY <1>4 DEF ViewInv, SenderOK, SendText, Busy, Resting
  <2>2. QED BY <1>4, <2>1 DEF ViewInv, ViewOK, Due, SendText
<1>5. CASE SendFiles
  <2>1. sender.turn # "stored"
    BY <1>5 DEF ViewInv, SenderOK, SendFiles, Busy, Resting
  <2>2. QED BY <1>5, <2>1 DEF ViewInv, ViewOK, Due, SendFiles, serverVars, ghostVars
<1>6. CASE Uploaded
  <2>1. sender.turn # "stored"
    BY <1>6 DEF ViewInv, SenderOK, Uploaded
  <2>2. QED BY <1>6, <2>1 DEF ViewInv, ViewOK, Due, Uploaded
<1>7. CASE UploadFails
  <2>1. sender.turn # "stored"
    BY <1>7 DEF ViewInv, SenderOK, UploadFails
  <2>2. QED BY <1>7, <2>1 DEF ViewInv, ViewOK, Due, UploadFails, serverVars
<1>8. CASE TextArrives
  <2>1. sender'.turn = sender.turn
    BY <1>8, SenderFields DEF ViewInv, ClientTypeOK, TextArrives
  <2>2. QED BY <1>8, <2>1 DEF ViewInv, ViewOK, Due, TextArrives, serverVars, ghostVars
<1>9. CASE StreamDone
  <2>1. sender'.turn = sender.turn
    BY <1>9, SenderFields DEF ViewInv, ClientTypeOK, StreamDone
  <2>2. QED BY <1>9, <2>1 DEF ViewInv, ViewOK, Due, StreamDone, Ask, serverVars
<1>10. CASE StreamCut
  <2>1. sender'.turn = sender.turn
    BY <1>10, SenderFields DEF ViewInv, ClientTypeOK, StreamCut
  <2>2. QED BY <1>10, <2>1 DEF ViewInv, ViewOK, Due, StreamCut, Ask, serverVars
<1>11. CASE StreamFails
  BY <1>11 DEF ViewInv, ViewOK, Due, StreamFails, serverVars
<1>12. CASE StopStream
  <2>1. sender'.turn = sender.turn
    BY <1>12, SenderFields DEF ViewInv, ClientTypeOK, StopStream
  <2>2. QED BY <1>12, <2>1 DEF ViewInv, ViewOK, Due, StopStream, Ask, serverVars
<1>13. CASE CancelEdit
  BY <1>13 DEF ViewInv, ViewOK, Due, CancelEdit, Render, serverVars
<1>14. CASE \E c \in asked : Handle(c)
  <2>1. PICK c \in asked : Handle(c)
    BY <1>14
  <2>2. c \in CallType
    BY DEF ViewInv, ClientTypeOK
  <2> DEFINE reply == [call |-> c, thread |-> saved'[opened'], stale |-> FALSE, lost |-> FALSE]
  <2>3. /\ reply \in replies' /\ asked' = asked \ {c} /\ UNCHANGED <<sender, shown>>
        /\ \A r \in replies : \E q \in replies' : q.call = r.call /\ q.lost = r.lost
    <3>1. \A r \in replies : LET q == [r EXCEPT !.stale = (@ \/ saved # saved' \/ opened # opened')]
                             IN q.call = r.call /\ q.lost = r.lost
      BY DEF ViewInv, ClientTypeOK, ReplyType
    <3>2. QED BY <2>1, <3>1 DEF Handle, Answered
  <2>4. reply.call = c /\ ~reply.lost
    OBVIOUS
  <2> HIDE DEF reply
  <2>5. Due => Due'
    <3>1. CASE sender.turn = "stored"
      BY <2>3, <3>1 DEF Due
    <3>2. CASE \E r \in replies : r.call.kind \in Retelling \/ (r.call.kind \in {"open", "new"} /\ ~r.lost)
      BY <2>3, <3>2 DEF Due
    <3>3. CASE \E d \in asked : d.kind \in {"redone", "again"}
      BY <2>3, <2>4, <3>3 DEF Due, Retelling
    <3>4. QED BY <3>1, <3>2, <3>3 DEF Due
  <2>6. CASE c.kind \in {"open", "new", "redo"}
    BY <2>3, <2>4, <2>6 DEF ViewOK, Due, Retelling
  <2>7. CASE c.kind \in {"sent", "redone", "again"}
    BY <2>1, <2>3, <2>5, <2>7 DEF ViewInv, ViewOK, Handle
  <2>8. CASE c.kind = "delete"
    <3>1. saved'[opened'] = saved[opened] /\ (behind => behind')
      BY <2>1, <2>8 DEF ViewInv, ClientTypeOK, Handle
    <3>2. QED BY <2>3, <2>5, <3>1 DEF ViewInv, ViewOK
  <2>9. CASE c.kind = "truncate"
    <3>1. CASE Beyond(c) # <<>>
      BY <2>1, <2>9, <3>1 DEF Handle, ViewOK
    <3>2. CASE Beyond(c) = <<>>
      <4>1. Cut(c) = saved[opened]
        BY <2>1, <2>2, <2>9, <3>2, CutsNothing DEF ViewInv, Handle
      <4>2. saved'[opened'] = saved[opened] /\ (behind => behind')
        BY <2>1, <2>9, <4>1 DEF ViewInv, ClientTypeOK, Handle
      <4>3. QED BY <2>3, <2>5, <4>2 DEF ViewInv, ViewOK
    <3>3. QED BY <3>1, <3>2
  <2>10. QED BY <2>1, <2>6, <2>7, <2>8, <2>9 DEF Handle
<1>15. CASE \E c \in asked : CallFails(c)
  <2>1. PICK c \in asked : CallFails(c)
    BY <1>15
  <2>2. Lost(c) \in replies' /\ Lost(c).call = c /\ replies \subseteq replies' /\ asked' = asked \ {c}
    BY <2>1, LostType DEF ViewInv, ClientTypeOK, CallFails
  <2>3. UNCHANGED <<saved, opened, shown, behind, sender>>
    BY <2>1 DEF CallFails, serverVars, ghostVars
  <2>4. QED BY <2>2, <2>3 DEF ViewInv, ViewOK, Due, Retelling
<1>16. CASE \E r \in replies : ReplyLost(r)
  <2>1. PICK r \in replies : ReplyLost(r)
    BY <1>16
  <2>2. Lost(r.call) \in replies' /\ Lost(r.call).call = r.call
    BY <2>1, LostType, ReplyFields DEF ViewInv, ClientTypeOK, ReplyLost
  <2>3. /\ replies \ {r} \subseteq replies' /\ UNCHANGED <<saved, opened, shown, sender, asked>>
        /\ behind' = (behind \/ r.call.kind \in {"open", "new"})
    BY <2>1 DEF ReplyLost, serverVars
  <2>4. QED BY <2>2, <2>3 DEF ViewInv, ViewOK, Due, Retelling
<1>17. CASE \E r \in replies : SendEnds(r)
  <2>1. PICK r \in replies : SendEnds(r)
    BY <1>17
  <2>2. CASE r.lost
    BY <2>1, <2>2 DEF SendEnds, ViewOK
  <2>3. CASE ~r.lost
    BY <2>1, <2>3 DEF ViewInv, Fresh, SendEnds, Render, ViewOK, serverVars
  <2>4. QED BY <2>2, <2>3
<1>18. CASE \E r \in replies : EditGoesOn(r)
  <2>1. PICK r \in replies : EditGoesOn(r)
    BY <1>18
  <2>2. UNCHANGED <<saved, opened, shown, behind, asked>>
    BY <2>1 DEF EditGoesOn, Render
  <2>3. sender' = sender \/ sender.turn # "stored"
    BY <2>1 DEF ViewInv, SenderOK, EditGoesOn, Busy, Resting
  <2>4. replies' = replies \ {r} /\ r.call.kind = "truncate"
    BY <2>1 DEF EditGoesOn
  <2>5. QED BY <2>2, <2>3, <2>4 DEF ViewInv, ViewOK, Due, Retelling
<1>19. CASE \E r \in replies : Show(r)
  <2>1. PICK r \in replies : Show(r)
    BY <1>19
  <2>2. CASE r.lost
    BY <2>1, <2>2 DEF Show, ViewOK
  <2>3. CASE ~r.lost
    BY <2>1, <2>3 DEF ViewInv, Fresh, Show, Render, ViewOK, serverVars
  <2>4. QED BY <2>2, <2>3
<1>20. CASE \E r \in replies : SidebarFails(r)
  <2>1. PICK r \in replies : SidebarFails(r)
    BY <1>20
  <2>2. /\ replies' = replies \ {r} /\ r.lost /\ r.call.kind \in {"open", "new", "delete"}
        /\ UNCHANGED <<saved, opened, shown, behind, asked, sender>>
    BY <2>1 DEF SidebarFails, serverVars, ghostVars
  <2>3. QED BY <2>2 DEF ViewInv, ViewOK, Due, Retelling
<1>21. CASE \E r \in replies : RedoRefreshes(r)
  <2>1. PICK r \in replies : RedoRefreshes(r)
    BY <1>21
  <2>2. Refresh("again").kind = "again" /\ Refresh("redone").kind = "redone"
    BY DEF Refresh, Call
  <2>3. QED BY <2>1, <2>2 DEF RedoRefreshes, ViewOK, Due
<1>22. QED BY <1>1, <1>2, <1>3, <1>4, <1>5, <1>6, <1>7, <1>8, <1>9, <1>10, <1>11, <1>12, <1>13,
      <1>14, <1>15, <1>16, <1>17, <1>18, <1>19, <1>20, <1>21
  DEF ClientNext, Type, Rewrite, ClickSidebar, ClickRegenerate, StartEdit, SaveEdit, serverVars,
      ghostVars, Ask

----------------------------------------------------------------------------
(* The editor, and what its edit cuts *)

LEMMA EditorStep ==
  ASSUME ViewInv, EditorOK, ClientNext
  PROVE  EditorOK'
<1>1. CASE editor' = Shut \/ UNCHANGED <<editor, shown>>
  BY <1>1 DEF EditorOK
<1>2. CASE \E t \in Texts : Rewrite(t)
  <2>1. PICK t \in Texts : Rewrite(t)
    BY <1>2
  <2>2. editor' = [editor EXCEPT !.text = t] /\ shown' = shown /\ editor # Shut
    BY <2>1 DEF Rewrite
  <2>3. editor'.index = editor.index /\ editor'.of = editor.of
    BY <2>2 DEF ViewInv, ClientTypeOK, EditorType
  <2>4. QED BY <2>2, <2>3 DEF EditorOK
<1>3. CASE \E m \in Editable : StartEdit(m)
  <2>1. PICK m \in Editable : StartEdit(m)
    BY <1>3
  <2>2. editor' = [index |-> m.index, of |-> m.of, text |-> NoText] /\ shown' = shown
    BY <2>1 DEF StartEdit
  <2>3. QED BY <2>2, EditableTypes DEF ViewInv, EditorOK
<1>4. QED BY <1>1, <1>2, <1>3
  DEF ClientNext, Type, TurnStored, TurnRefused, SendText, SendFiles, Uploaded, UploadFails,
      TextArrives, StreamDone, StreamCut, StreamFails, StopStream, ClickSidebar, ClickRegenerate,
      CancelEdit, SaveEdit, Handle, CallFails, ReplyLost, SendEnds, EditGoesOn, Show, SidebarFails,
      RedoRefreshes, serverVars, ghostVars, Render

\* What an edit cuts is what its tab showed, when the tab had the server's word.
LEMMA AloneStep ==
  ASSUME ViewInv, EditorOK, AloneOK, ClientNext
  PROVE  AloneOK'
<1>1. CASE hurried' = hurried /\ UNCHANGED <<saved, opened>> /\ asked' \subseteq asked /\ replies' \subseteq replies
  BY <1>1 DEF AloneOK, Meets
<1>2. CASE \E t \in Texts, who \in {"answer", "failed"} : TurnStored(t, who)
  BY <1>2 DEF AloneOK, TurnStored
<1>3. CASE StreamDone
  <2>1. Refresh("sent").kind = "sent"
    BY DEF Refresh, Call
  <2>2. QED BY <1>3, <2>1 DEF AloneOK, StreamDone, Ask
<1>4. CASE StreamCut
  <2>1. Refresh("sent").kind = "sent"
    BY DEF Refresh, Call
  <2>2. QED BY <1>4, <2>1 DEF AloneOK, StreamCut, Ask
<1>5. CASE StopStream
  <2>1. Refresh("sent").kind = "sent"
    BY DEF Refresh, Call
  <2>2. QED BY <1>5, <2>1 DEF AloneOK, StopStream, Ask
<1>6. CASE \E kind \in {"open", "new", "delete"}, c \in Threads : ClickSidebar(kind, c)
  <2>1. PICK kind \in {"open", "new", "delete"}, c \in Threads : ClickSidebar(kind, c)
    BY <1>6
  <2>2. Call(kind, c, 0, NoText, NoText).kind # "truncate"
    BY DEF Call
  <2>3. QED BY <2>1, <2>2 DEF AloneOK, ClickSidebar, Ask
<1>7. CASE \E i \in 1..MaxLength : ClickRegenerate(i)
  <2>1. PICK i \in 1..MaxLength : ClickRegenerate(i)
    BY <1>7
  <2>2. Call("redo", First, i, NoText, NoText).kind # "truncate"
    BY DEF Call
  <2>3. QED BY <2>1, <2>2 DEF AloneOK, ClickRegenerate, Ask
<1>8. CASE SaveEdit
  <2> DEFINE call == Call("truncate", First, editor.index, editor.of,
                          IF editor.text = NoText THEN editor.of ELSE editor.text)
  <2>1. call.index = editor.index /\ call.of = editor.of
    BY DEF Call
  <2> HIDE DEF call
  <2>2. /\ asked' = asked \cup {call} /\ replies' = replies /\ UNCHANGED <<saved, opened>>
        /\ hurried' = (hurried \/ behind \/ asked \cup replies # {})
        /\ ~Busy /\ editor # Shut
    BY <1>8 DEF SaveEdit, Ask, serverVars, call
  <2>3. CASE hurried'
    BY <2>3 DEF AloneOK
  <2>4. CASE ~hurried'
    <3>1. asked = {} /\ replies = {} /\ ~behind
      BY <2>2, <2>4
    <3>2. sender.turn # "stored"
      BY <2>2 DEF ViewInv, SenderOK, Busy, Resting
    <3>3. shown = saved[opened]
      BY <3>1, <3>2 DEF ViewInv, ViewOK, Due
    <3>4. Len(saved[opened]) \in Nat /\ DOMAIN saved[opened] = 1..Len(saved[opened])
      BY LenProperties DEF ViewInv, ClientTypeOK
    <3>5. call.index \in DOMAIN saved[opened] => saved[opened][call.index] = Question(call.of)
      BY <2>1, <2>2, <3>3, <3>4 DEF EditorOK
    <3>6. QED BY <2>2, <3>1, <3>5 DEF AloneOK, Meets
  <2>5. QED BY <2>3, <2>4
<1>9. CASE \E c \in asked : Handle(c)
  <2>1. PICK c \in asked : Handle(c)
    BY <1>9
  <2>2. asked' = asked \ {c} /\ hurried' = hurried
    BY <2>1 DEF Handle, Answered
  <2>3. QED BY <2>2 DEF AloneOK
<1>10. CASE \E c \in asked : CallFails(c)
  BY <1>10 DEF AloneOK, CallFails, ghostVars
<1>11. CASE \E r \in replies : ReplyLost(r)
  BY <1>11 DEF AloneOK, ReplyLost
<1>12. CASE \E r \in replies : RedoRefreshes(r)
  <2>1. \A k : Refresh(k).kind = k
    BY DEF Refresh, Call
  <2>2. QED BY <1>12, <2>1 DEF AloneOK, RedoRefreshes, ghostVars
<1>13. QED BY <1>1, <1>2, <1>3, <1>4, <1>5, <1>6, <1>7, <1>8, <1>9, <1>10, <1>11, <1>12
  DEF ClientNext, Type, Rewrite, TurnRefused, SendText, SendFiles, Uploaded, UploadFails,
      TextArrives, StreamFails, StartEdit, CancelEdit, SendEnds, EditGoesOn, Show, SidebarFails,
      serverVars, ghostVars

LEMMA SentStep ==
  ASSUME ViewInv, SentOK, ClientNext
  PROVE  SentOK'
<1>1. CASE (Waits => Waits') /\ asked' \subseteq asked /\ replies' \subseteq replies
  BY <1>1 DEF SentOK
<1>2. CASE \E t \in Texts, who \in {"answer", "failed"} : TurnStored(t, who)
  <2>1. sender'.at = sender.at
    BY <1>2, SenderFields DEF ViewInv, ClientTypeOK, TurnStored
  <2> DEFINE older(r) == [r EXCEPT !.stale = TRUE]
  <2>2. \A r \in replies : older(r).call = r.call
    BY ReplyFields DEF ViewInv, ClientTypeOK
  <2>3. asked' = asked /\ replies' = {older(r) : r \in replies}
    BY <1>2 DEF TurnStored
  <2> HIDE DEF older
  <2>4. QED BY <2>1, <2>2, <2>3 DEF SentOK, Waits
<1>3. CASE \E t \in Texts : TurnRefused(t)
  <2>1. sender'.at = sender.at
    BY <1>3, SenderFields DEF ViewInv, ClientTypeOK, TurnRefused
  <2>2. QED BY <1>3, <2>1 DEF SentOK, Waits, TurnRefused
<1>4. CASE SendText
  <2>1. ~Waits
    BY <1>4 DEF ViewInv, SenderOK, SendText, Busy, Waits, Resting
  <2>2. QED BY <1>4, <2>1 DEF SentOK, SendText
<1>5. CASE SendFiles
  <2>1. ~Waits
    BY <1>5 DEF ViewInv, SenderOK, SendFiles, Busy, Waits, Resting
  <2>2. QED BY <1>5, <2>1 DEF SentOK, SendFiles
<1>6. CASE Uploaded
  <2>1. ~Waits
    BY <1>6 DEF Uploaded, Hears, Waits
  <2>2. QED BY <1>6, <2>1 DEF SentOK, Uploaded
<1>7. CASE UploadFails
  <2>1. ~Waits
    BY <1>7 DEF UploadFails, Hears, Waits
  <2>2. QED BY <1>7, <2>1 DEF SentOK, UploadFails
<1>8. CASE TextArrives
  <2>1. ~Waits
    BY <1>8 DEF TextArrives, Hears, Waits
  <2>2. QED BY <1>8, <2>1 DEF SentOK, TextArrives
<1>9. CASE StreamDone
  <2>1. sender'.at = "refresh" /\ ~Waits
    BY <1>9, SenderFields DEF ViewInv, ClientTypeOK, Waits, StreamDone
  <2>2. QED BY <1>9, <2>1 DEF SentOK, Waits, StreamDone, Ask
<1>10. CASE StreamCut
  <2>1. sender'.at = "cut" /\ ~Waits
    BY <1>10, SenderFields DEF ViewInv, ClientTypeOK, Waits, StreamCut
  <2>2. QED BY <1>10, <2>1 DEF SentOK, Waits, StreamCut, Ask
<1>11. CASE StreamFails
  <2>1. ~Waits
    BY <1>11 DEF StreamFails, Hears, Waits
  <2>2. QED BY <1>11, <2>1 DEF SentOK, StreamFails
<1>12. CASE StopStream
  <2>1. sender'.at = "stopped" /\ ~Waits
    BY <1>12, SenderFields DEF ViewInv, ClientTypeOK, Waits, StopStream
  <2>2. QED BY <1>12, <2>1 DEF SentOK, Waits, StopStream, Ask
<1>13. CASE \E kind \in {"open", "new", "delete"}, c \in Threads : ClickSidebar(kind, c)
  <2>1. PICK kind \in {"open", "new", "delete"}, c \in Threads : ClickSidebar(kind, c)
    BY <1>13
  <2>2. Call(kind, c, 0, NoText, NoText).kind # "sent"
    BY DEF Call
  <2>3. QED BY <2>1, <2>2 DEF SentOK, Waits, ClickSidebar, Ask
<1>14. CASE \E i \in 1..MaxLength : ClickRegenerate(i)
  <2>1. PICK i \in 1..MaxLength : ClickRegenerate(i)
    BY <1>14
  <2>2. Call("redo", First, i, NoText, NoText).kind # "sent"
    BY DEF Call
  <2>3. QED BY <2>1, <2>2 DEF SentOK, Waits, ClickRegenerate, Ask
<1>15. CASE SaveEdit
  <2> DEFINE call == Call("truncate", First, editor.index, editor.of,
                          IF editor.text = NoText THEN editor.of ELSE editor.text)
  <2>1. call.kind # "sent"
    BY DEF Call
  <2> HIDE DEF call
  <2>2. asked' = asked \cup {call} /\ UNCHANGED <<replies, sender>>
    BY <1>15 DEF SaveEdit, Ask, call
  <2>3. QED BY <2>1, <2>2 DEF SentOK, Waits
<1>16. CASE \E c \in asked : Handle(c)
  <2>1. PICK c \in asked : Handle(c)
    BY <1>16
  <2> DEFINE reply == [call |-> c, thread |-> saved'[opened'], stale |-> FALSE, lost |-> FALSE]
             older(r) == [r EXCEPT !.stale = r.stale \/ (saved # saved' \/ opened # opened')]
  <2>2. replies' = {older(r) : r \in replies} \cup {reply} /\ asked' = asked \ {c} /\ sender' = sender
    BY <2>1 DEF Handle, Answered
  <2>3. reply.call = c
    OBVIOUS
  <2>4. \A r \in replies : older(r).call = r.call
    BY DEF ViewInv, ClientTypeOK, ReplyType
  <2> HIDE DEF older, reply
  <2>5. QED BY <2>2, <2>3, <2>4 DEF SentOK, Waits
<1>17. CASE \E c \in asked : CallFails(c)
  <2>1. PICK c \in asked : CallFails(c)
    BY <1>17
  <2>2. Lost(c).call = c /\ replies' = replies \cup {Lost(c)} /\ asked' = asked \ {c} /\ sender' = sender
    BY <2>1, LostType DEF ViewInv, ClientTypeOK, CallFails
  <2>3. QED BY <2>2 DEF SentOK, Waits
<1>18. CASE \E r \in replies : ReplyLost(r)
  <2>1. PICK r \in replies : ReplyLost(r)
    BY <1>18
  <2>2. /\ Lost(r.call).call = r.call /\ replies' = (replies \ {r}) \cup {Lost(r.call)}
        /\ asked' = asked /\ sender' = sender
    BY <2>1, LostType, ReplyFields DEF ViewInv, ClientTypeOK, ReplyLost
  <2>3. QED BY <2>2 DEF SentOK, Waits
<1>19. CASE \E r \in replies : SendEnds(r)
  <2>1. PICK r \in replies : SendEnds(r)
    BY <1>19
  <2>2. r.call.kind = "sent" /\ replies' = replies \ {r} /\ asked' = asked
    BY <2>1 DEF SendEnds
  <2>3. QED BY <2>2 DEF SentOK
<1>20. CASE \E r \in replies : EditGoesOn(r)
  <2>1. Waits => Waits'
    BY <1>20 DEF EditGoesOn, Waits, Busy
  <2>2. QED BY <1>20, <2>1 DEF SentOK, EditGoesOn
<1>21. CASE \E r \in replies : RedoRefreshes(r)
  <2>1. \A k : Refresh(k).kind = k
    BY DEF Refresh, Call
  <2>2. QED BY <1>21, <2>1 DEF SentOK, Waits, RedoRefreshes
<1>22. QED BY <1>1, <1>2, <1>3, <1>4, <1>5, <1>6, <1>7, <1>8, <1>9, <1>10, <1>11, <1>12, <1>13,
      <1>14, <1>15, <1>16, <1>17, <1>18, <1>19, <1>20, <1>21
  DEF ClientNext, Type, Rewrite, StartEdit, CancelEdit, Show, SidebarFails, serverVars, ghostVars,
      Busy, Waits

----------------------------------------------------------------------------
(* Where the texts are *)

LEMMA TextsStored ==
  ASSUME NEW s \in Seq(Line), NEW t \in Nat, NEW who \in {"answer", "failed"}
  PROVE  TextsOf(s) \cup ({t} \ {NoText}) \subseteq TextsOf(s \o <<Question(t), Reply(who)>>)
<1> DEFINE pair == <<Question(t), Reply(who)>>
           e == s \o pair
<1>1. pair \in Seq(Line) /\ Len(pair) = 2 /\ pair[1] = Question(t) /\ Question(t).text = t
  BY SaidTypes, PairSeq
<1> HIDE DEF pair
<1>2. /\ e \in Seq(Line) /\ Len(e) = Len(s) + 2
      /\ \A i \in 1..Len(s) + 2 : e[i] = IF i <= Len(s) THEN s[i] ELSE pair[i - Len(s)]
  <2>1. /\ e \in Seq(Line) /\ Len(e) = Len(s) + Len(pair)
        /\ \A i \in 1..Len(s) + Len(pair) : e[i] = IF i <= Len(s) THEN s[i] ELSE pair[i - Len(s)]
    BY <1>1, ConcatProperties
  <2> HIDE DEF e
  <2>2. QED BY <1>1, <2>1
<1>3. DOMAIN e = 1..Len(s) + 2 /\ DOMAIN s = 1..Len(s) /\ Len(s) \in Nat
  BY <1>2, LenProperties
<1> HIDE DEF e
<1>4. \A i \in DOMAIN s : i \in DOMAIN e /\ e[i] = s[i]
  BY <1>2, <1>3
<1>5. Len(s) + 1 \in DOMAIN e /\ e[Len(s) + 1] = Question(t)
  BY <1>1, <1>2, <1>3
<1>6. TextsOf(s) \subseteq TextsOf(e)
  BY <1>4 DEF TextsOf
<1>7. {t} \ {NoText} \subseteq TextsOf(e)
  BY <1>1, <1>5 DEF TextsOf
<1>8. QED BY <1>6, <1>7 DEF e, pair

LEMMA TextsCut ==
  ASSUME ClientTypeOK, NEW c \in CallType, c.kind = "truncate", ~Refused(c)
  PROVE  TextsOf(saved[opened]) \subseteq TextsOf(Cut(c)) \cup TextsOf(Beyond(c))
<1> DEFINE s == saved[opened]
           head == Cut(c)
           tail == Beyond(c)
<1>1. s \in Seq(Line) /\ c.index \in Nat \ {0}
  BY CallFields DEF ClientTypeOK
<1>2. /\ head \in Seq(Line) /\ tail \in Seq(Line)
      /\ Len(tail) = Len(s) + 1 - c.index /\ Len(head) = c.index - 1
      /\ \A i \in 1..c.index - 1 : head[i] = s[i]
      /\ \A i \in 1..Len(tail) : tail[i] = s[c.index + i - 1]
  BY CutThread
<1> HIDE DEF s, head, tail
<1>3. /\ Len(s) \in Nat /\ DOMAIN s = 1..Len(s) /\ DOMAIN head = 1..c.index - 1
      /\ DOMAIN tail = 1..Len(tail)
  BY <1>1, <1>2, LenProperties
<1>4. ASSUME NEW i \in DOMAIN s
      PROVE  (\E j \in DOMAIN head : head[j] = s[i]) \/ (\E j \in DOMAIN tail : tail[j] = s[i])
  <2>1. CASE i <= c.index - 1
    BY <1>1, <1>2, <1>3, <1>4, <2>1
  <2>2. CASE ~(i <= c.index - 1)
    <3>1. i \in Nat /\ i <= Len(s) /\ i >= c.index
      BY <1>1, <1>3, <1>4, <2>2
    <3>2. i - c.index + 1 \in 1..Len(tail)
      BY <1>1, <1>2, <1>3, <3>1
    <3>3. c.index + (i - c.index + 1) - 1 = i
      BY <1>1, <3>1
    <3>4. tail[i - c.index + 1] = s[i]
      BY <1>2, <3>2, <3>3
    <3>5. QED BY <1>3, <3>2, <3>4
  <2>3. QED BY <2>1, <2>2
<1>5. TextsOf(s) \subseteq TextsOf(head) \cup TextsOf(tail)
  BY <1>4 DEF TextsOf
<1>6. QED BY <1>5 DEF s, head, tail

\* Unless calls have crossed, a cut meets its message.
LEMMA MissedHurried ==
  ASSUME ViewInv, AloneOK, NEW c \in asked, Missed(c), ~Refused(c)
  PROVE  hurried
<1> SUFFICES ASSUME ~hurried PROVE FALSE
  OBVIOUS
<1>1. c \in CallType /\ c.kind = "truncate" /\ Beyond(c) # <<>> /\ Beyond(c)[1] # Question(c.of)
  BY DEF ViewInv, ClientTypeOK, Missed
<1>2. Meets(c)
  BY <1>1 DEF AloneOK
<1>3. /\ c.index \in Nat \ {0} /\ saved[opened] \in Seq(Line) /\ Len(saved[opened]) \in Nat
      /\ DOMAIN saved[opened] = 1..Len(saved[opened])
  BY <1>1, CallFields, LenProperties DEF ViewInv, ClientTypeOK
<1>4. /\ Beyond(c) \in Seq(Line) /\ Len(Beyond(c)) = Len(saved[opened]) + 1 - c.index
      /\ \A i \in 1..Len(Beyond(c)) : Beyond(c)[i] = saved[opened][c.index + i - 1]
  BY <1>1, CutThread DEF ViewInv
<1>5. Len(Beyond(c)) \in Nat \ {0}
  BY <1>1, <1>4, EmptySeq
<1>6. 1 \in 1..Len(Beyond(c)) /\ c.index + 1 - 1 = c.index
  BY <1>3, <1>5
<1>7. Beyond(c)[1] = saved[opened][c.index]
  BY <1>4, <1>6
<1>8. c.index \in DOMAIN saved[opened]
  BY <1>3, <1>4, <1>5
<1>9. QED BY <1>1, <1>2, <1>7, <1>8 DEF Meets

\* What a call takes off the server is known to be dropped or mislaid.
LEMMA HandleKeeps ==
  ASSUME ViewInv, AloneOK, NEW c \in asked, Handle(c)
  PROVE  OnServer \cup dropped \cup mislaid \subseteq OnServer' \cup dropped' \cup mislaid'
<1>1. c \in CallType /\ c.thread \in Threads /\ opened \in Threads /\ saved \in [Threads -> Seq(Line)]
  BY CallFields DEF ViewInv, ClientTypeOK
<1>2. ~Refused(c) /\ (Missed(c) => hurried)
  BY MissedHurried DEF Handle
<1>3. dropped \cup mislaid \cup Away(c) \subseteq dropped' \cup mislaid'
  BY <1>2 DEF Handle
<1>4. OnServer \subseteq OnServer' \cup Away(c)
  <2>1. CASE UNCHANGED saved
    BY <2>1 DEF OnServer
  <2>2. CASE c.kind = "delete" /\ saved' = [saved EXCEPT ![c.thread] = IF c.thread = opened THEN @ ELSE <<>>]
    <3>1. \A d \in Threads : TextsOf(saved[d]) \subseteq TextsOf(saved'[d]) \cup Away(c)
      BY <1>1, <2>2 DEF Away
    <3>2. QED BY <3>1 DEF OnServer
  <2>3. CASE c.kind = "truncate" /\ saved' = [saved EXCEPT ![opened] = Cut(c)]
    <3>1. TextsOf(saved[opened]) \subseteq TextsOf(Cut(c)) \cup Away(c)
      BY <1>1, <1>2, <2>3, TextsCut DEF ViewInv, Away
    <3>2. \A d \in Threads : TextsOf(saved[d]) \subseteq TextsOf(saved'[d]) \cup Away(c)
      BY <1>1, <2>3, <3>1
    <3>3. QED BY <3>2 DEF OnServer
  <2>4. CASE saved' = [saved EXCEPT ![opened] = Regenerated(c)]
    <3>1. TextsOf(Regenerated(c)) = TextsOf(saved[opened])
      BY <1>1, RegeneratedThread DEF ViewInv
    <3>2. \A d \in Threads : TextsOf(saved[d]) \subseteq TextsOf(saved'[d])
      BY <1>1, <2>4, <3>1
    <3>3. QED BY <3>2 DEF OnServer
  <2>5. QED BY <2>1, <2>2, <2>3, <2>4 DEF Handle
<1>5. QED BY <1>3, <1>4

LEMMA StoredKeeps ==
  ASSUME ViewInv, NEW t \in Texts, NEW who \in {"answer", "failed"}, TurnStored(t, who)
  PROVE  OnServer \cup {t} \subseteq OnServer'
<1>1. saved[opened] \in Seq(Line) /\ t \in Nat /\ t # NoText /\ saved \in [Threads -> Seq(Line)] /\ opened \in Threads
  BY SaidTypes DEF ViewInv, ClientTypeOK
<1>2. TextsOf(saved[opened]) \cup {t} \subseteq TextsOf(saved[opened] \o <<Question(t), Reply(who)>>)
  BY <1>1, TextsStored
<1>3. saved' = [saved EXCEPT ![opened] = saved[opened] \o <<Question(t), Reply(who)>>]
  BY DEF TurnStored
<1>4. /\ \A d \in Threads : TextsOf(saved[d]) \subseteq TextsOf(saved'[d])
      /\ t \in TextsOf(saved'[opened])
  BY <1>1, <1>2, <1>3
<1>5. QED BY <1>1, <1>4 DEF OnServer

LEMMA ServerRests ==
  ASSUME UNCHANGED saved
  PROVE  OnServer' = OnServer
BY DEF OnServer

LEMMA WayGrows ==
  ASSUME asked \subseteq asked', replies \subseteq replies'
  PROVE  OnTheWay \subseteq OnTheWay'
BY DEF OnTheWay

LEMMA WayLosesReply ==
  ASSUME NEW r \in replies, asked \subseteq asked', replies' = replies \ {r}
  PROVE  OnTheWay \subseteq OnTheWay' \cup {r.call.text}
BY DEF OnTheWay

LEMMA StoredStep ==
  ASSUME ViewInv, AloneOK, StoredOK, ClientNext
  PROVE  StoredOK'
<1>1. CASE UNCHANGED <<sender, saved>> /\ dropped \subseteq dropped' /\ mislaid \subseteq mislaid'
  BY <1>1, ServerRests DEF StoredOK
<1>2. CASE \E t \in Texts, who \in {"answer", "failed"} : TurnStored(t, who)
  <2>1. PICK t \in Texts, who \in {"answer", "failed"} : TurnStored(t, who)
    BY <1>2
  <2>2. OnServer \cup {t} \subseteq OnServer'
    BY <2>1, StoredKeeps
  <2>3. /\ dropped' = dropped /\ mislaid' = mislaid /\ sender'.text = sender.text
        /\ sender' = sender \/ sender.text = t
    BY <2>1, SenderFields DEF ViewInv, ClientTypeOK, TurnStored, Hears
  <2>4. QED BY <2>2, <2>3 DEF StoredOK
<1>3. CASE \E t \in Texts : TurnRefused(t)
  <2>1. PICK t \in Texts : TurnRefused(t)
    BY <1>3
  <2>2. sender' = sender \/ sender' = [sender EXCEPT !.turn = "refused"]
    BY <2>1 DEF TurnRefused
  <2>3. sender' = sender \/ sender'.turn # "stored"
    BY <2>2, SenderFields DEF ViewInv, ClientTypeOK
  <2>4. OnServer' = OnServer /\ dropped' = dropped /\ mislaid \subseteq mislaid'
    BY <2>1, ServerRests DEF TurnRefused
  <2>5. QED BY <2>3, <2>4 DEF StoredOK
<1>4. CASE SendText
  <2>1. sender'.turn # "stored"
    BY <1>4 DEF SendText, Commit
  <2>2. QED BY <2>1 DEF StoredOK
<1>5. CASE SendFiles
  <2>1. sender'.turn # "stored"
    BY <1>5 DEF SendFiles, Resting
  <2>2. QED BY <2>1 DEF StoredOK
<1>6. CASE Uploaded
  <2>1. sender'.turn # "stored"
    BY <1>6 DEF Uploaded, Commit
  <2>2. QED BY <2>1 DEF StoredOK
<1>7. CASE UploadFails
  <2>1. sender'.turn # "stored"
    BY <1>7 DEF UploadFails, Resting
  <2>2. QED BY <2>1 DEF StoredOK
<1>8. CASE TextArrives
  <2>1. sender'.turn = sender.turn /\ sender'.text = sender.text
    BY <1>8, SenderFields DEF ViewInv, ClientTypeOK, TextArrives
  <2>2. UNCHANGED <<saved, dropped, mislaid>>
    BY <1>8 DEF TextArrives, serverVars, ghostVars
  <2>3. QED BY <2>1, <2>2, ServerRests DEF StoredOK
<1>9. CASE StreamDone
  <2>1. sender'.turn = sender.turn /\ sender'.text = sender.text
    BY <1>9, SenderFields DEF ViewInv, ClientTypeOK, StreamDone
  <2>2. UNCHANGED <<saved, dropped, mislaid>>
    BY <1>9 DEF StreamDone, serverVars, ghostVars
  <2>3. QED BY <2>1, <2>2, ServerRests DEF StoredOK
<1>10. CASE StreamCut
  <2>1. sender'.turn = sender.turn /\ sender'.text = sender.text
    BY <1>10, SenderFields DEF ViewInv, ClientTypeOK, StreamCut
  <2>2. UNCHANGED <<saved, dropped, mislaid>>
    BY <1>10 DEF StreamCut, serverVars, ghostVars
  <2>3. QED BY <2>1, <2>2, ServerRests DEF StoredOK
<1>11. CASE StreamFails
  <2>1. sender'.turn # "stored"
    BY <1>11 DEF StreamFails, Resting
  <2>2. QED BY <2>1 DEF StoredOK
<1>12. CASE StopStream
  <2>1. sender'.turn = sender.turn /\ sender'.text = sender.text
    BY <1>12, SenderFields DEF ViewInv, ClientTypeOK, StopStream
  <2>2. UNCHANGED <<saved, dropped, mislaid>>
    BY <1>12 DEF StopStream, serverVars, ghostVars
  <2>3. QED BY <2>1, <2>2, ServerRests DEF StoredOK
<1>13. CASE \E c \in asked : Handle(c)
  <2>1. PICK c \in asked : Handle(c)
    BY <1>13
  <2>2. sender' = sender
    BY <2>1 DEF Handle
  <2>3. QED BY <2>1, <2>2, HandleKeeps DEF StoredOK
<1>14. CASE \E r \in replies : SendEnds(r)
  <2>1. sender'.turn # "stored"
    BY <1>14 DEF SendEnds, Resting
  <2>2. QED BY <2>1 DEF StoredOK
<1>15. CASE \E r \in replies : EditGoesOn(r)
  <2>1. UNCHANGED <<saved, dropped>> /\ mislaid \subseteq mislaid'
    BY <1>15 DEF EditGoesOn, Commit
  <2>2. sender' = sender \/ sender'.turn # "stored"
    BY <1>15 DEF EditGoesOn, Commit
  <2>3. QED BY <2>1, <2>2, ServerRests DEF StoredOK
<1>16. QED BY <1>1, <1>2, <1>3, <1>4, <1>5, <1>6, <1>7, <1>8, <1>9, <1>10, <1>11, <1>12, <1>13,
      <1>14, <1>15
  DEF ClientNext, Type, Rewrite, ClickSidebar, ClickRegenerate, StartEdit, CancelEdit, SaveEdit,
      CallFails, ReplyLost, Show, SidebarFails, RedoRefreshes, serverVars, ghostVars

\* What one part of the tab lets go of, another holds, or the server, or it is counted
\* as dropped or mislaid.
LEMMA KeptStep ==
  ASSUME KeepInv, ClientNext
  PROVE  TypedKeptUnlessMislaid'
<1>1. CASE /\ UNCHANGED <<saved, running, box, sender, editor, typed, dropped, mislaid, replies>>
           /\ asked \subseteq asked'
  BY <1>1, ServerRests, WayGrows DEF KeepInv, TypedKeptUnlessMislaid, Held
<1>2. CASE \E t \in Texts : Type(t)
  <2>1. PICK t \in Texts : Type(t)
    BY <1>2
  <2>2. /\ box = NoText \/ box = sender.text
        /\ box' = t /\ typed' = typed \cup {t} /\ t # NoText
        /\ UNCHANGED <<saved, running, sender, editor, asked, replies, dropped, mislaid>>
    BY <2>1, SaidTypes DEF Type, serverVars
  <2>3. QED BY <2>2, ServerRests, WayGrows DEF KeepInv, TypedKeptUnlessMislaid, Held
<1>3. CASE \E t \in Texts : Rewrite(t)
  <2>1. PICK t \in Texts : Rewrite(t)
    BY <1>3
  <2>2. /\ editor.text = NoText /\ editor' = [editor EXCEPT !.text = t] /\ typed' = typed \cup {t} /\ t # NoText
        /\ UNCHANGED <<saved, running, box, sender, asked, replies, dropped, mislaid>>
    BY <2>1, SaidTypes DEF Rewrite, serverVars
  <2>3. editor'.text = t
    BY <2>2 DEF KeepInv, ViewInv, ClientTypeOK, EditorType
  <2>4. QED BY <2>2, <2>3, ServerRests, WayGrows DEF KeepInv, TypedKeptUnlessMislaid, Held
<1>4. CASE \E t \in Texts, who \in {"answer", "failed"} : TurnStored(t, who)
  <2>1. PICK t \in Texts, who \in {"answer", "failed"} : TurnStored(t, who)
    BY <1>4
  <2>2. OnServer \cup {t} \subseteq OnServer'
    BY <2>1, StoredKeeps DEF KeepInv
  <2>3. /\ running' = running \ {t} /\ sender'.text = sender.text
        /\ UNCHANGED <<typed, box, editor, asked, dropped, mislaid>>
    BY <2>1, SenderFields DEF KeepInv, ViewInv, ClientTypeOK, TurnStored
  <2>4. OnTheWay' = OnTheWay
    <3> DEFINE older(r) == [r EXCEPT !.stale = TRUE]
    <3>1. replies' = {older(r) : r \in replies}
      BY <2>1 DEF TurnStored
    <3>2. \A r \in replies : older(r).call = r.call
      BY ReplyFields DEF KeepInv, ViewInv, ClientTypeOK
    <3> HIDE DEF older
    <3>3. QED BY <2>3, <3>1, <3>2 DEF OnTheWay
  <2>5. QED BY <2>2, <2>3, <2>4 DEF KeepInv, TypedKeptUnlessMislaid, Held
<1>5. CASE \E t \in Texts : TurnRefused(t)
  <2>1. PICK t \in Texts : TurnRefused(t)
    BY <1>5
  <2>2. /\ running' = running \ {t} /\ sender'.text = sender.text
        /\ mislaid' = IF t \in Held \cup OnServer THEN mislaid ELSE mislaid \cup {t}
        /\ UNCHANGED <<saved, typed, box, editor, asked, replies, dropped>>
    BY <2>1, SenderFields DEF KeepInv, ViewInv, ClientTypeOK, TurnRefused
  <2>3. Held' = Held
    BY <2>2 DEF Held, OnTheWay
  <2>4. QED BY <2>2, <2>3, ServerRests DEF KeepInv, TypedKeptUnlessMislaid
<1>6. CASE SendText
  <2>1. sender.text = NoText
    BY <1>6 DEF KeepInv, ViewInv, SenderOK, SendText, Busy, Resting
  <2>2. /\ running' = running \cup {box} /\ mislaid \subseteq mislaid'
        /\ UNCHANGED <<saved, typed, editor, asked, replies, dropped>>
    BY <1>6 DEF SendText, Commit
  <2>3. QED BY <2>1, <2>2, ServerRests, WayGrows DEF KeepInv, TypedKeptUnlessMislaid, Held
<1>7. CASE SendFiles
  <2>1. sender.text = NoText
    BY <1>7 DEF KeepInv, ViewInv, SenderOK, SendFiles, Busy, Resting
  <2>2. UNCHANGED <<saved, running, typed, box, editor, asked, replies, dropped, mislaid>>
    BY <1>7 DEF SendFiles, serverVars, ghostVars
  <2>3. QED BY <2>1, <2>2, ServerRests, WayGrows DEF KeepInv, TypedKeptUnlessMislaid, Held
<1>8. CASE Uploaded
  <2>1. /\ running' = running \cup {sender.text} /\ mislaid' = mislaid \cup ({box} \ {sender.text, NoText})
        /\ UNCHANGED <<saved, typed, editor, asked, replies, dropped>>
    BY <1>8 DEF Uploaded, Commit
  <2>2. QED BY <2>1, ServerRests, WayGrows DEF KeepInv, TypedKeptUnlessMislaid, Held
<1>9. CASE UploadFails
  <2>1. /\ dropped' = dropped \cup ({sender.text} \ {box})
        /\ UNCHANGED <<saved, running, typed, box, editor, asked, replies, mislaid>>
    BY <1>9 DEF UploadFails, serverVars
  <2>2. QED BY <2>1, ServerRests, WayGrows DEF KeepInv, TypedKeptUnlessMislaid, Held
<1>10. CASE TextArrives
  <2>1. sender'.text = sender.text
    BY <1>10, SenderFields DEF KeepInv, ViewInv, ClientTypeOK, TextArrives
  <2>2. /\ UNCHANGED <<saved, running, typed, box, editor, dropped, mislaid>>
        /\ asked \subseteq asked' /\ replies \subseteq replies'
    BY <1>10 DEF TextArrives, Ask, serverVars, ghostVars
  <2>3. QED BY <2>1, <2>2, ServerRests, WayGrows DEF KeepInv, TypedKeptUnlessMislaid, Held
<1>11. CASE StreamDone
  <2>1. sender'.text = sender.text
    BY <1>11, SenderFields DEF KeepInv, ViewInv, ClientTypeOK, StreamDone
  <2>2. /\ UNCHANGED <<saved, running, typed, box, editor, dropped, mislaid>>
        /\ asked \subseteq asked' /\ replies \subseteq replies'
    BY <1>11 DEF StreamDone, Ask, serverVars, ghostVars
  <2>3. QED BY <2>1, <2>2, ServerRests, WayGrows DEF KeepInv, TypedKeptUnlessMislaid, Held
<1>12. CASE StreamCut
  <2>1. sender'.text = sender.text
    BY <1>12, SenderFields DEF KeepInv, ViewInv, ClientTypeOK, StreamCut
  <2>2. /\ UNCHANGED <<saved, running, typed, box, editor, dropped, mislaid>>
        /\ asked \subseteq asked' /\ replies \subseteq replies'
    BY <1>12 DEF StreamCut, Ask, serverVars, ghostVars
  <2>3. QED BY <2>1, <2>2, ServerRests, WayGrows DEF KeepInv, TypedKeptUnlessMislaid, Held
<1>13. CASE StreamFails
  <2>1. /\ Restore(sender.text) /\ mislaid' = mislaid \cup RefusedDraft(sender.text)
        /\ UNCHANGED <<saved, running, typed, editor, asked, replies, dropped>>
    BY <1>13 DEF StreamFails, serverVars
  <2>2. {box, sender.text} \subseteq {box', NoText} \cup OnServer \cup running \cup mislaid'
    BY <2>1 DEF Restore, RefusedDraft
  <2>3. QED BY <2>1, <2>2, ServerRests, WayGrows DEF KeepInv, TypedKeptUnlessMislaid, Held
<1>14. CASE StopStream
  <2>1. sender'.text = sender.text
    BY <1>14, SenderFields DEF KeepInv, ViewInv, ClientTypeOK, StopStream
  <2>2. /\ UNCHANGED <<saved, running, typed, box, editor, dropped, mislaid>>
        /\ asked \subseteq asked' /\ replies \subseteq replies'
    BY <1>14 DEF StopStream, Ask, serverVars, ghostVars
  <2>3. QED BY <2>1, <2>2, ServerRests, WayGrows DEF KeepInv, TypedKeptUnlessMislaid, Held
<1>15. CASE \E m \in Editable : StartEdit(m)
  <2>1. /\ UNCHANGED <<saved, running, typed, box, sender, asked, replies, dropped, mislaid>>
        /\ editor.text = NoText
    BY <1>15, ShutType DEF StartEdit, serverVars, ghostVars
  <2>2. QED BY <2>1, ServerRests, WayGrows DEF KeepInv, TypedKeptUnlessMislaid, Held
<1>16. CASE CancelEdit
  <2>1. /\ dropped' = dropped \cup ({editor.text} \ {NoText})
        /\ UNCHANGED <<saved, running, typed, box, sender, asked, replies, mislaid>>
    BY <1>16 DEF CancelEdit, serverVars
  <2>2. QED BY <2>1, ServerRests, WayGrows DEF KeepInv, TypedKeptUnlessMislaid, Held
<1>17. CASE \E c \in asked : Handle(c)
  <2>1. PICK c \in asked : Handle(c)
    BY <1>17
  <2>2. UNCHANGED <<running, typed, box, sender, editor>>
    BY <2>1 DEF Handle
  <2>3. OnTheWay \subseteq OnTheWay'
    <3> DEFINE reply == [call |-> c, thread |-> saved'[opened'], stale |-> FALSE, lost |-> FALSE]
               older(r) == [r EXCEPT !.stale = r.stale \/ (saved # saved' \/ opened # opened')]
    <3>1. replies' = {older(r) : r \in replies} \cup {reply} /\ asked' = asked \ {c}
      BY <2>1 DEF Handle, Answered
    <3>2. reply.call = c
      OBVIOUS
    <3>3. \A r \in replies : older(r).call = r.call
      BY DEF KeepInv, ViewInv, ClientTypeOK, ReplyType
    <3> HIDE DEF older, reply
    <3>4. QED BY <3>1, <3>2, <3>3 DEF OnTheWay
  <2>4. OnServer \cup dropped \cup mislaid \subseteq OnServer' \cup dropped' \cup mislaid'
    BY <2>1, HandleKeeps DEF KeepInv
  <2>5. QED BY <2>2, <2>3, <2>4 DEF KeepInv, TypedKeptUnlessMislaid, Held
<1>18. CASE \E c \in asked : CallFails(c)
  <2>1. PICK c \in asked : CallFails(c)
    BY <1>18
  <2>2. /\ Lost(c).call = c /\ replies' = replies \cup {Lost(c)} /\ asked' = asked \ {c}
        /\ UNCHANGED <<saved, running, typed, box, sender, editor, dropped, mislaid>>
    BY <2>1, LostType DEF KeepInv, ViewInv, ClientTypeOK, CallFails, serverVars, ghostVars
  <2>3. OnTheWay \subseteq OnTheWay'
    BY <2>2 DEF OnTheWay
  <2>4. QED BY <2>2, <2>3, ServerRests DEF KeepInv, TypedKeptUnlessMislaid, Held
<1>19. CASE \E r \in replies : ReplyLost(r)
  <2>1. PICK r \in replies : ReplyLost(r)
    BY <1>19
  <2>2. /\ Lost(r.call).call = r.call /\ replies' = (replies \ {r}) \cup {Lost(r.call)} /\ asked' = asked
        /\ UNCHANGED <<saved, running, typed, box, sender, editor, dropped, mislaid>>
    BY <2>1, LostType, ReplyFields DEF KeepInv, ViewInv, ClientTypeOK, ReplyLost, serverVars
  <2>3. OnTheWay \subseteq OnTheWay'
    BY <2>2 DEF OnTheWay
  <2>4. QED BY <2>2, <2>3, ServerRests DEF KeepInv, TypedKeptUnlessMislaid, Held
<1>20. CASE \E r \in replies : SendEnds(r)
  <2>1. PICK r \in replies : SendEnds(r)
    BY <1>20
  <2>2. /\ UNCHANGED <<saved, running, asked, typed, dropped>> /\ replies' = replies \ {r} /\ r.call.kind = "sent"
        /\ mislaid \subseteq mislaid'
    BY <2>1 DEF SendEnds, serverVars
  <2>3. r.call.text = NoText /\ Waits
    BY <2>2, ReplyFields, CallFields DEF KeepInv, ViewInv, ClientTypeOK, SentOK
  <2>4. OnTheWay \subseteq OnTheWay' \cup {NoText}
    BY <2>2, <2>3, WayLosesReply
  <2>5. {sender.text, box} \subseteq {box', NoText} \cup OnServer \cup running \cup dropped \cup mislaid'
    <3>1. CASE r.lost \/ sender.at = "stopped"
      <4>1. Restore(sender.text) /\ RefusedDraft(sender.text) \subseteq mislaid'
        BY <2>1, <3>1 DEF SendEnds
      <4>2. QED BY <4>1 DEF Restore, RefusedDraft
    <3>2. CASE ~r.lost /\ sender.at = "cut"
      BY <2>1, <3>2 DEF SendEnds
    <3>3. CASE ~r.lost /\ sender.at = "refresh"
      <4>1. sender.text \in OnServer \cup dropped \cup mislaid \cup {NoText}
        BY <3>3 DEF KeepInv, ViewInv, SenderOK, StoredOK
      <4>2. box' = box
        BY <2>1, <3>3 DEF SendEnds
      <4>3. QED BY <2>2, <4>1, <4>2
    <3>4. QED BY <2>3, <3>1, <3>2, <3>3 DEF Waits
  <2>6. {editor.text} \subseteq {editor'.text, sender.text, box, NoText} \cup OnServer \cup running \cup OnTheWay \cup mislaid'
    <3>1. CASE r.lost
      BY <2>1, <3>1 DEF SendEnds
    <3>2. CASE ~r.lost
      BY <2>1, <3>2 DEF SendEnds, WipedText
    <3>3. QED BY <3>1, <3>2
  <2>7. QED BY <2>2, <2>4, <2>5, <2>6, ServerRests DEF KeepInv, TypedKeptUnlessMislaid, Held
<1>21. CASE \E r \in replies : EditGoesOn(r)
  <2>1. PICK r \in replies : EditGoesOn(r)
    BY <1>21
  <2>2. /\ UNCHANGED <<saved, asked, typed, dropped>> /\ replies' = replies \ {r}
    BY <2>1 DEF EditGoesOn
  <2>3. OnTheWay \subseteq OnTheWay' \cup {r.call.text}
    BY <2>2, WayLosesReply
  <2>4. CASE r.lost
    <3>1. /\ UNCHANGED <<box, sender, running>>
          /\ mislaid' = mislaid \cup WipedText \cup ({r.call.text} \ (OnServer \cup running \cup {box, sender.text}))
      BY <2>1, <2>4 DEF EditGoesOn
    <3>2. {editor.text} \subseteq {sender.text, box, NoText} \cup OnServer \cup running \cup OnTheWay \cup mislaid'
      BY <3>1 DEF WipedText
    <3>3. QED BY <2>2, <2>3, <3>1, <3>2, ServerRests DEF KeepInv, TypedKeptUnlessMislaid, Held
  <2>5. CASE ~r.lost /\ Busy
    <3>1. /\ UNCHANGED <<box, sender, running, editor>>
          /\ mislaid' = mislaid \cup ({r.call.text} \ (OnServer \cup running \cup {box, sender.text, editor.text}))
      BY <2>1, <2>5 DEF EditGoesOn
    <3>2. QED BY <2>2, <2>3, <3>1, ServerRests DEF KeepInv, TypedKeptUnlessMislaid, Held
  <2>6. CASE ~r.lost /\ ~Busy
    <3>1. /\ editor' = editor /\ running' = running \cup {r.call.text}
          /\ mislaid' = mislaid \cup ({box} \ {r.call.text, NoText})
      BY <2>1, <2>6 DEF EditGoesOn, Commit
    <3>2. sender.text = NoText
      BY <2>6 DEF KeepInv, ViewInv, SenderOK, Busy, Resting
    <3>3. QED BY <2>2, <2>3, <3>1, <3>2, ServerRests DEF KeepInv, TypedKeptUnlessMislaid, Held
  <2>7. QED BY <2>4, <2>5, <2>6
<1>22. CASE \E r \in replies : Show(r)
  <2>1. PICK r \in replies : Show(r)
    BY <1>22
  <2>2. /\ UNCHANGED <<saved, running, box, sender, asked, typed, dropped>> /\ replies' = replies \ {r}
        /\ r.call.kind # "truncate" /\ mislaid' = mislaid \cup WipedText
    BY <2>1 DEF Show, serverVars
  <2>3. r.call.text = NoText
    BY <2>2, ReplyFields, CallFields DEF KeepInv, ViewInv, ClientTypeOK
  <2>4. OnTheWay \subseteq OnTheWay' \cup {NoText}
    BY <2>2, <2>3, WayLosesReply
  <2>5. {editor.text} \subseteq {sender.text, box, NoText} \cup OnServer \cup running \cup OnTheWay \cup mislaid'
    BY <2>2 DEF WipedText
  <2>6. QED BY <2>2, <2>4, <2>5, ServerRests DEF KeepInv, TypedKeptUnlessMislaid, Held
<1>23. CASE \E r \in replies : SidebarFails(r)
  <2>1. PICK r \in replies : SidebarFails(r)
    BY <1>23
  <2>2. /\ UNCHANGED <<saved, running, box, sender, editor, asked, typed, dropped, mislaid>>
        /\ replies' = replies \ {r} /\ r.call.kind # "truncate"
    BY <2>1 DEF SidebarFails, serverVars, ghostVars
  <2>3. r.call.text = NoText
    BY <2>2, ReplyFields, CallFields DEF KeepInv, ViewInv, ClientTypeOK
  <2>4. OnTheWay \subseteq OnTheWay' \cup {NoText}
    BY <2>2, <2>3, WayLosesReply
  <2>5. QED BY <2>2, <2>4, ServerRests DEF KeepInv, TypedKeptUnlessMislaid, Held
<1>24. CASE \E r \in replies : RedoRefreshes(r)
  <2>1. PICK r \in replies : RedoRefreshes(r)
    BY <1>24
  <2>2. /\ UNCHANGED <<saved, running, box, sender, editor, typed, dropped, mislaid>>
        /\ asked \subseteq asked' /\ replies' = replies \ {r} /\ r.call.kind # "truncate"
    BY <2>1 DEF RedoRefreshes, serverVars, ghostVars
  <2>3. r.call.text = NoText
    BY <2>2, ReplyFields, CallFields DEF KeepInv, ViewInv, ClientTypeOK
  <2>4. OnTheWay \subseteq OnTheWay' \cup {NoText}
    BY <2>2, <2>3, WayLosesReply
  <2>5. QED BY <2>2, <2>4, ServerRests DEF KeepInv, TypedKeptUnlessMislaid, Held
<1>25. QED BY <1>1, <1>2, <1>3, <1>4, <1>5, <1>6, <1>7, <1>8, <1>9, <1>10, <1>11, <1>12, <1>13,
      <1>14, <1>15, <1>16, <1>17, <1>18, <1>19, <1>20, <1>21, <1>22, <1>23, <1>24
  DEF ClientNext, ClickSidebar, ClickRegenerate, SaveEdit, serverVars, ghostVars, Ask

----------------------------------------------------------------------------
(* Theorems *)

LEMMA ViewInvInit ==
  ASSUME ClientInit
  PROVE  ViewInv
<1>1. ClientTypeOK
  BY EmptySeq, RestingType, ShutType, FirstAssumption, SaidTypes DEF ClientInit, ClientTypeOK, BubbleType, NoBubble
<1>2. SenderOK /\ replies = {}
  BY DEF ClientInit, SenderOK, Resting
<1>3. shown = saved[opened]
  BY FirstAssumption DEF ClientInit
<1>4. QED BY <1>1, <1>2, <1>3 DEF ViewInv, ViewOK

LEMMA ViewInvStep ==
  ASSUME ViewInv, ClientNext
  PROVE  ViewInv'
<1>1. ClientTypeOK' /\ SenderOK'
  BY TypeStep, SenderStep DEF ViewInv
<1>2. (\A r \in replies : Fresh(r))'
  BY FreshStep DEF ViewInv
<1>3. ViewOK'
  BY ViewStep
<1>4. QED BY <1>1, <1>2, <1>3 DEF ViewInv

LEMMA ViewInvRests ==
  ASSUME ViewInv, UNCHANGED clientVars
  PROVE  ViewInv'
BY DEF ViewInv, ClientTypeOK, SenderOK, Fresh, ViewOK, Due, clientVars, serverVars, ghostVars

\* With nothing under way the tab shows what the server has open, unless the
\* server's last word failed or was overtaken (render.js:335-406, send.js:205-229).
THEOREM QuietTheorem == ClientSpec => []QuietTabIsTrue
<1>1. ClientInit => ViewInv
  BY ViewInvInit
<1>2. ViewInv /\ [ClientNext]_clientVars => ViewInv'
  BY ViewInvStep, ViewInvRests
<1>3. ViewInv => QuietTabIsTrue
  BY DEF ViewInv, SenderOK, ViewOK, Due, QuietTabIsTrue, Busy, Resting
<1>4. QED BY <1>1, <1>2, <1>3, PTL DEF ClientSpec

\* What is typed stays in the tab or on the server, or is taken away by the user,
\* except where the tab is known to lose it; and an edit never removes another
\* message than its own unless calls crossed (send.js:39-46, 185-188, chat.js:85-90).
THEOREM TypedTheorem == ClientSpec => []TypedKeptUnlessMislaid
<1>1. ClientInit => KeepInv
  <2> SUFFICES ASSUME ClientInit PROVE KeepInv
    OBVIOUS
  <2>1. ViewInv
    BY ViewInvInit
  <2>2. EditorOK /\ AloneOK /\ SentOK /\ StoredOK /\ TypedKeptUnlessMislaid
    BY DEF ClientInit, EditorOK, AloneOK, SentOK, StoredOK, Resting, TypedKeptUnlessMislaid
  <2>3. QED BY <2>1, <2>2 DEF KeepInv
<1>2. KeepInv /\ [ClientNext]_clientVars => KeepInv'
  <2> SUFFICES ASSUME KeepInv, [ClientNext]_clientVars PROVE KeepInv'
    OBVIOUS
  <2>1. CASE ClientNext
    <3>1. ViewInv'
      BY <2>1, ViewInvStep DEF KeepInv
    <3>2. EditorOK' /\ AloneOK'
      BY <2>1, EditorStep, AloneStep DEF KeepInv
    <3>3. SentOK' /\ StoredOK'
      BY <2>1, SentStep, StoredStep DEF KeepInv
    <3>4. QED BY <2>1, <3>1, <3>2, <3>3, KeptStep DEF KeepInv
  <2>2. CASE UNCHANGED clientVars
    <3>1. ViewInv'
      BY <2>2, ViewInvRests DEF KeepInv
    <3>2. EditorOK' /\ AloneOK' /\ SentOK' /\ StoredOK' /\ TypedKeptUnlessMislaid'
      BY <2>2 DEF KeepInv, EditorOK, AloneOK, Meets, SentOK, Waits, StoredOK, TypedKeptUnlessMislaid, Held, OnTheWay,
                  OnServer, clientVars, serverVars, ghostVars
    <3>3. QED BY <3>1, <3>2 DEF KeepInv
  <2>3. QED BY <2>1, <2>2
<1>3. KeepInv => TypedKeptUnlessMislaid
  BY DEF KeepInv
<1>4. QED BY <1>1, <1>2, <1>3, PTL DEF ClientSpec

----------------------------------------------------------------------------
(* Lessons.  Without drift a flag and a header name the same place, so the  *)
(* state of a lesson is its last header whatever is recent, a live pointer  *)
(* is that place, and the cursor of the next turn starts where every slide  *)
(* was given.                                                               *)

TeachingTypeOK ==
  /\ history \in Seq(LectureMessage) /\ available \subseteq ToSet(Course)
  /\ strays \in Nat /\ asides \in Nat /\ drifted \in BOOLEAN

\* Flags and headers name the same places once the first flag is there.
FlagsAgree ==
  /\ \A i \in DOMAIN history : history[i].active \in {Nowhere, history[i].header}
  /\ \A i, j \in DOMAIN history : i < j /\ history[i].active # Nowhere => history[j].active = history[j].header

\* A live pointer is the place of the last header.
PointerIsLast == LiveLesson(LessonPointer) => LessonPointer = LastState

\* Up to the place every slide is covered.
Reached(p) == LiveLesson(p) => \A s \in 1..p.end : Covered(Stem[p.file], s)
AllReached == \A i \in DOMAIN history : Reached(history[i].at) /\ Reached(history[i].header)

TeachingInv == TeachingTypeOK /\ (drifted \/ (FlagsAgree /\ PointerIsLast /\ AllReached))

LEMMA LeastThere ==
  ASSUME NEW S \in SUBSET Nat, S # {}
  PROVE  Min(S) \in S /\ \A x \in S : Min(S) <= x
<1>1. PICK t \in S : \A u \in S : ~(<<u, t>> \in OpToRel(<, Nat))
  BY NatLessThanWellFounded, WFMin
<1>2. \A u \in S : ~(u < t)
  BY <1>1 DEF OpToRel
<1>3. \A a, b \in Nat : ~(a < b) => b <= a
  OBVIOUS
<1>4. \A u \in S : t <= u
  BY <1>2, <1>3
<1>5. QED BY <1>4 DEF Min

\* A set of places in the sequence has a last.
LEMMA LatestThere ==
  ASSUME NEW S \in SUBSET Nat, S # {}, NEW n \in Nat, \A x \in S : x <= n
  PROVE  Max(S) \in S /\ \A x \in S : x <= Max(S)
<1> DEFINE T == {n - x : x \in S}
<1>1. T \subseteq Nat /\ T # {}
  <2>1. \A x \in S : n - x \in Nat
    OBVIOUS
  <2>2. PICK x \in S : TRUE
    OBVIOUS
  <2>3. n - x \in T
    BY <2>2
  <2>4. QED BY <2>1, <2>3
<1>2. PICK t \in T : \A u \in T : t <= u
  <2> HIDE DEF T
  <2>1. QED BY <1>1, LeastThere
<1>4. PICK x \in S : t = n - x
  BY <1>2
<1>5. \A y \in S : x >= y
  <2> SUFFICES ASSUME NEW y \in S PROVE x >= y
    OBVIOUS
  <2>1. n - y \in T
    OBVIOUS
  <2> HIDE DEF T
  <2>2. n - x <= n - y
    BY <1>2, <1>4, <2>1
  <2>3. \A a, b, c \in Int : c - a <= c - b => a >= b
    OBVIOUS
  <2>4. x \in Int /\ y \in Int /\ n \in Int
    OBVIOUS
  <2>5. QED BY <2>2, <2>3, <2>4
<1>6. \E z \in S : \A y \in S : z >= y
  BY <1>5
<1>7. Max(S) \in S /\ \A y \in S : Max(S) >= y
  BY <1>6 DEF Max
<1>8. \A a, b \in Nat : a >= b => b <= a
  OBVIOUS
<1>9. QED BY <1>7, <1>8

LEMMA ForemostThere ==
  ASSUME NEW order \in {Course, Uploads}, NEW S \in SUBSET ToSet(Course), S # {}
  PROVE  Foremost(order, S) \in S
<1> DEFINE I == {i \in DOMAIN order : order[i] \in S}
<1>1. I \subseteq Nat
  BY TeachingBounds
<1>2. I # {}
  BY TeachingBounds DEF ToSet
<1>3. Min(I) \in I
  <2> HIDE DEF I
  <2>1. QED BY <1>1, <1>2, LeastThere
<1>4. QED BY <1>3 DEF Foremost

LEMMA HeadedLast ==
  ASSUME TeachingTypeOK, Headed # {}
  PROVE  /\ Max(Headed) \in DOMAIN history /\ history[Max(Headed)].header # Nowhere
         /\ \A i \in DOMAIN history : i > Max(Headed) => history[i].header = Nowhere
<1>1. Headed \in SUBSET Nat /\ Len(history) \in Nat /\ \A x \in Headed : x <= Len(history)
  BY LenProperties DEF TeachingTypeOK, Headed
<1>2. Max(Headed) \in Headed /\ \A x \in Headed : x <= Max(Headed)
  BY <1>1, LatestThere
<1>3. \A i \in DOMAIN history : i \notin Headed => history[i].header = Nowhere
  BY DEF Headed
<1>4. DOMAIN history \subseteq Nat
  BY LenProperties DEF TeachingTypeOK
<1>5. \A a, b \in Nat : a <= b => ~(a > b)
  OBVIOUS
<1>6. Max(Headed) \in DOMAIN history /\ history[Max(Headed)].header # Nowhere
  BY <1>2 DEF Headed
<1>7. \A i \in DOMAIN history : i > Max(Headed) => i \notin Headed
  BY <1>1, <1>2, <1>4, <1>5, <1>6
<1>8. QED BY <1>3, <1>6, <1>7

\* Without drift the state of the lesson is the last header, whatever is recent.
LEMMA LastStateIsHeader ==
  ASSUME TeachingTypeOK, FlagsAgree
  PROVE  IF Headed = {} THEN LastState = Nowhere ELSE LastState = history[Max(Headed)].header
<1>1. CASE Flagged = {}
  BY <1>1 DEF LastState
<1>2. CASE Flagged # {}
  <2>1. Flagged \in SUBSET Nat /\ Len(history) \in Nat /\ \A x \in Flagged : x <= Len(history)
    BY LenProperties DEF TeachingTypeOK, Flagged, Recently
  <2>2. Max(Flagged) \in Flagged /\ \A x \in Flagged : x <= Max(Flagged)
    BY <2>1, <1>2, LatestThere
  <2> DEFINE f == Max(Flagged)
  <2>3. f \in DOMAIN history /\ history[f].active # Nowhere /\ history[f].active = history[f].header
    BY <2>2 DEF Flagged, Recently, FlagsAgree
  <2>4. f \in Headed
    BY <2>3 DEF Headed
  <2>5. Max(Headed) \in DOMAIN history /\ history[Max(Headed)].header # Nowhere
        /\ \A i \in DOMAIN history : i > Max(Headed) => history[i].header = Nowhere
    BY <2>4, HeadedLast
  <2>6. DOMAIN history = 1..Len(history)
    BY LenProperties DEF TeachingTypeOK
  <2> DEFINE h == Max(Headed)
  <2>7. f \in Nat /\ h \in Nat
    BY <2>3, <2>5, <2>6
  <2>8. ~(f > h)
    BY <2>3, <2>5
  <2>9. ~(f < h)
    <3> SUFFICES ASSUME f < h PROVE FALSE
      OBVIOUS
    <3>1. history[h].active = history[h].header
      BY <2>3, <2>5 DEF FlagsAgree
    <3>2. f > Len(history) - Recent
      BY <2>2 DEF Flagged, Recently
    <3>3. h > Len(history) - Recent
      BY <3>2, <2>1, <2>7, TeachingBounds
    <3>4. h \in Flagged
      BY <3>1, <3>3, <2>5 DEF Flagged, Recently
    <3>5. h <= f
      BY <3>4, <2>2
    <3> HIDE DEF f, h
    <3>6. \A a, b \in Nat : a <= b => ~(b < a)
      OBVIOUS
    <3>7. QED BY <3>5, <3>6, <2>7
  <2>10. f = h
    BY <2>7, <2>8, <2>9
  <2>11. QED BY <2>10, <2>3, <2>4, <1>2 DEF LastState, Flag
<1>3. QED BY <1>1, <1>2

\* The place served: its slide is one of its file, and those before it are covered.
Bridged(p) ==
  /\ p \in Places /\ p.end \in Slides[p.file]
  /\ \A s \in 1..p.end : s # p.end /\ s \in Slides[p.file] => Covered(Stem[p.file], s)

LEMMA WindowBridges ==
  ASSUME NEW f \in ToSet(Course), NEW cursor \in Nat, Window(f, cursor) # {},
         \A s \in 1..cursor : Covered(Stem[f], s)
  PROVE  Bridged(Place(f, cursor))
<1>1. Window(f, cursor) \in SUBSET Nat /\ Window(f, cursor) = {s \in Slides[f] : s > cursor}
  BY TeachingBounds DEF Window
<1>2. Min(Window(f, cursor)) \in Window(f, cursor) /\ \A x \in Window(f, cursor) : Min(Window(f, cursor)) <= x
  BY <1>1, LeastThere
<1> DEFINE e == Min(Window(f, cursor))
<1>3. e \in Nat /\ e \in Slides[f] /\ \A s \in Slides[f] : s > cursor => e <= s
  BY <1>1, <1>2
<1>4. \A s \in 1..e : s # e /\ s \in Slides[f] => Covered(Stem[f], s)
  <2> SUFFICES ASSUME NEW s \in 1..e, s # e, s \in Slides[f] PROVE Covered(Stem[f], s)
    OBVIOUS
  <2> HIDE DEF e
  <2>1. ~(s > cursor)
    BY <1>3
  <2>2. s \in 1..cursor
    BY <2>1, <1>3
  <2>3. QED BY <2>2
<1>5. Place(f, cursor) = [file |-> f, end |-> e]
  BY DEF Place
<1> HIDE DEF e
<1>6. QED BY <1>3, <1>4, <1>5 DEF Bridged, Places

\* What is served comes from the file and cursor it was asked for, or from the start of a file.
LEMMA ServedFrom ==
  ASSUME NEW u, NEW cs \in SUBSET ToSet(Course), NEW f \in ToSet(Course), NEW cursor \in Nat,
         Serve(u, cs, f, cursor).does = "teach"
  PROVE  \E g \in ToSet(Course), c \in Nat :
           /\ Window(g, c) # {} /\ Serve(u, cs, f, cursor).place = Place(g, c)
           /\ c = 0 \/ (g = f /\ c = cursor)
<1> DEFINE readable == {g \in After(f, cs) : Window(g, 0) # {}}
<1>1. CASE Window(f, cursor) # {}
  BY <1>1 DEF Serve
<1>2. CASE Window(f, cursor) = {}
  <2>1. readable # {} /\ Serve(u, cs, f, cursor).place = Place(Foremost(Course, readable), 0)
    BY <1>2 DEF Serve
  <2>2. readable \in SUBSET ToSet(Course)
    BY DEF After
  <2> HIDE DEF readable
  <2>3. Foremost(Course, readable) \in readable
    BY <2>1, <2>2, ForemostThere
  <2>4. Foremost(Course, readable) \in ToSet(Course) /\ Window(Foremost(Course, readable), 0) # {}
    BY <2>2, <2>3 DEF readable
  <2>5. QED BY <2>1, <2>4
<1>3. QED BY <1>1, <1>2

LEMMA CandidatesType == TeachingTypeOK => Candidates \in SUBSET ToSet(Course)
<1> SUFFICES ASSUME TeachingTypeOK PROVE Candidates \in SUBSET ToSet(Course)
  OBVIOUS
<1>1. Alike(available) \in SUBSET ToSet(Course) /\ available \in SUBSET ToSet(Course)
  BY DEF Alike, TeachingTypeOK
<1>2. Alike(available) # {} => Foremost(Uploads, Alike(available)) \in ToSet(Course)
  BY <1>1, ForemostThere
<1>3. QED BY <1>1, <1>2 DEF Candidates

LEMMA ActiveType ==
  ASSUME NEW u, NEW cs \in SUBSET ToSet(Course), cs # {}
  PROVE  Active(u, cs) \in ToSet(Course)
<1>1. Foremost(Course, cs) \in cs
  BY ForemostThere
<1>2. Alike(cs) \in SUBSET ToSet(Course)
  BY DEF Alike
<1>3. Alike(cs) # {} => Foremost(Course, Alike(cs)) \in ToSet(Course)
  BY <1>2, ForemostThere
<1>4. QED BY <1>1, <1>3 DEF Active, Picked

LEMMA LastStateType ==
  ASSUME TeachingTypeOK
  PROVE  LastState \in Places \cup {Nowhere}
<1>1. \A i \in DOMAIN history : history[i] \in LectureMessage
  BY ElementOfSeq, LenProperties DEF TeachingTypeOK
<1>2. Headed # {} => history[Max(Headed)].header \in Places \cup {Nowhere}
  BY <1>1, HeadedLast DEF LectureMessage
<1>3. Flagged # {} => Max(Flagged) \in DOMAIN history
  <2>1. Flagged \in SUBSET Nat /\ Len(history) \in Nat /\ \A x \in Flagged : x <= Len(history)
    BY LenProperties DEF TeachingTypeOK, Flagged, Recently
  <2>2. Flagged # {} => Max(Flagged) \in Flagged
    BY <2>1, LatestThere
  <2>3. QED BY <2>2 DEF Flagged, Recently
<1>4. Flagged # {} => history[Max(Flagged)].active \in Places \cup {Nowhere}
  BY <1>1, <1>3 DEF LectureMessage
<1>5. QED BY <1>2, <1>4 DEF LastState, Flag

\* The state of the lesson is a place up to which every slide is covered.
LEMMA LastStateReached ==
  ASSUME TeachingTypeOK, FlagsAgree, AllReached
  PROVE  LastState \in Places \cup {Nowhere} /\ Reached(LastState)
<1>1. CASE Headed = {}
  <2>1. LastState = Nowhere
    BY <1>1, LastStateIsHeader
  <2>2. QED BY <2>1 DEF Reached, LiveLesson, Nowhere
<1>2. CASE Headed # {}
  <2>1. LastState = history[Max(Headed)].header /\ Max(Headed) \in DOMAIN history
    BY <1>2, LastStateIsHeader, HeadedLast
  <2>2. history[Max(Headed)] \in LectureMessage
    BY <2>1, ElementOfSeq, LenProperties DEF TeachingTypeOK
  <2>3. QED BY <2>1, <2>2 DEF LectureMessage, AllReached
<1>3. QED BY <1>1, <1>2

LEMMA PointerType ==
  ASSUME TeachingTypeOK
  PROVE  LessonPointer \in Places \cup {NoLesson, Unpointed}
<1>1. CASE history = <<>>
  BY <1>1 DEF LessonPointer
<1>2. CASE history # <<>>
  <2>1. Last(history) \in LectureMessage
    BY <1>2, ElementOfSeq, LenProperties, EmptySeq DEF TeachingTypeOK, Last
  <2>2. QED BY <2>1, <1>2 DEF LessonPointer, LectureMessage
<1>3. QED BY <1>1, <1>2

LEMMA CursorType == ASSUME TeachingTypeOK, NEW u, NEW cs PROVE Cursor(u, cs) \in Nat
<1>1. LastState.end \in Nat
  BY LastStateType DEF Places, Nowhere
<1>2. LiveLesson(LessonPointer) => LessonPointer.end \in Nat
  BY PointerType DEF LiveLesson, Places, NoLesson, Nowhere, Unpointed
<1> DEFINE from == IF LiveLesson(LessonPointer) THEN LessonPointer.end ELSE LastState.end
           again == IF u.file \in cs /\ u.again THEN 0 ELSE from
           here == IF LastState.file # NoFile /\ Stem[LastState.file] # Stem[Active(u, cs)] THEN 0 ELSE again
<1>3. here \in Nat
  BY <1>1, <1>2
<1>4. Cursor(u, cs) = IF Holds(u) /\ here > 0 THEN here - 1 ELSE here
  BY DEF Cursor
<1> HIDE DEF here
<1>5. QED BY <1>3, <1>4

LEMMA CursorReached ==
  ASSUME TeachingTypeOK, FlagsAgree, PointerIsLast, AllReached, NEW u, NEW cs
  PROVE  /\ Cursor(u, cs) \in Nat
         /\ \A s \in 1..Cursor(u, cs) : Covered(Stem[Active(u, cs)], s)
<1> DEFINE last == LastState
           from == IF LiveLesson(LessonPointer) THEN LessonPointer.end ELSE last.end
           again == IF u.file \in cs /\ u.again THEN 0 ELSE from
           here == IF last.file # NoFile /\ Stem[last.file] # Stem[Active(u, cs)] THEN 0 ELSE again
<1>1. last \in Places \cup {Nowhere} /\ Reached(last)
  BY LastStateReached
<1>2. from = last.end
  BY DEF PointerIsLast
<1>3. last.end \in Nat /\ (last.file = NoFile => last.end = 0)
  BY <1>1, TeachingBounds DEF Places, Nowhere
<1>4. here = 0 \/ (here = last.end /\ last.file # NoFile /\ Stem[last.file] = Stem[Active(u, cs)])
  BY <1>2, <1>3
<1>5. here \in Nat
  BY <1>3, <1>4
<1>6. \A s \in 1..here : Covered(Stem[Active(u, cs)], s)
  BY <1>1, <1>4 DEF Reached, LiveLesson
<1>7. Cursor(u, cs) = IF Holds(u) /\ here > 0 THEN here - 1 ELSE here
  BY DEF Cursor
<1> HIDE DEF here
<1>8. Cursor(u, cs) \in Nat /\ Cursor(u, cs) <= here
  BY <1>5, <1>7
<1>9. QED BY <1>5, <1>6, <1>8

LEMMA StagedFrom ==
  ASSUME TeachingTypeOK, NEW u, Stage(u).does = "teach"
  PROVE  \E g \in ToSet(Course), c \in Nat :
           /\ Window(g, c) # {} /\ Stage(u).place = Place(g, c)
           /\ c = 0 \/ (g = Active(u, Candidates) /\ c = Cursor(u, Candidates))
<1> DEFINE cs == Candidates
           f == Active(u, cs)
           cursor == Cursor(u, cs)
           next == Foremost(Course, After(f, cs))
<1>1. cs # {} /\ cs \in SUBSET ToSet(Course)
  BY CandidatesType DEF Stage
<1>2. f \in ToSet(Course)
  BY <1>1, ActiveType
<1>3. cursor \in Nat
  BY CursorType
<1>4. After(f, cs) # {} => next \in ToSet(Course)
  <2>1. After(f, cs) \in SUBSET ToSet(Course)
    BY <1>1 DEF After
  <2>2. QED BY <2>1, ForemostThere
<1>5. \/ After(f, cs) # {} /\ Stage(u) = Serve(u, cs, next, 0)
      \/ Stage(u) = Serve(u, cs, f, cursor)
  BY <1>1 DEF Stage
<1>6. CASE Stage(u) = Serve(u, cs, f, cursor)
  <2> HIDE DEF cs, f, cursor
  <2>1. \E g \in ToSet(Course), c \in Nat :
           /\ Window(g, c) # {} /\ Serve(u, cs, f, cursor).place = Place(g, c)
           /\ c = 0 \/ (g = f /\ c = cursor)
    BY <1>6, <1>1, <1>2, <1>3, ServedFrom
  <2>2. QED BY <2>1, <1>6 DEF cs, f, cursor
<1>7. CASE After(f, cs) # {} /\ Stage(u) = Serve(u, cs, next, 0)
  <2> HIDE DEF cs, f, next
  <2>1. \E g \in ToSet(Course), c \in Nat :
           /\ Window(g, c) # {} /\ Serve(u, cs, next, 0).place = Place(g, c)
           /\ c = 0 \/ (g = next /\ c = 0)
    BY <1>7, <1>1, <1>4, ServedFrom
  <2>2. QED BY <2>1, <1>7
<1>8. QED BY <1>5, <1>6, <1>7

LEMMA StageType == ASSUME TeachingTypeOK, NEW u, Stage(u).does = "teach" PROVE Stage(u).place \in Places
<1>1. PICK g \in ToSet(Course), c \in Nat : Window(g, c) # {} /\ Stage(u).place = Place(g, c)
  BY StagedFrom
<1>2. Window(g, c) \in SUBSET Nat
  BY TeachingBounds DEF Window
<1>3. Min(Window(g, c)) \in Nat
  BY <1>1, <1>2, LeastThere
<1>4. QED BY <1>1, <1>3 DEF Place, Places

\* What a turn serves follows what was given before.
LEMMA StageBridges ==
  ASSUME TeachingTypeOK, FlagsAgree, PointerIsLast, AllReached, NEW u, Stage(u).does = "teach"
  PROVE  Bridged(Stage(u).place)
<1>1. PICK g \in ToSet(Course), c \in Nat :
           /\ Window(g, c) # {} /\ Stage(u).place = Place(g, c)
           /\ c = 0 \/ (g = Active(u, Candidates) /\ c = Cursor(u, Candidates))
  BY StagedFrom
<1>2. \A s \in 1..c : Covered(Stem[g], s)
  BY <1>1, CursorReached
<1>3. QED BY <1>1, <1>2, WindowBridges

LEMMA TeachingInitOK == TeachingInit => TeachingInv
<1> SUFFICES ASSUME TeachingInit PROVE TeachingInv
  OBVIOUS
<1>1. history \in Seq(LectureMessage) /\ \A i \in DOMAIN history : history[i].at = Unpointed
                                     /\ history[i].active \in {Nowhere, history[i].header}
  BY PastsAssumption DEF TeachingInit
<1>2. drifted \in BOOLEAN
  BY DEF TeachingInit
<1>3. TeachingTypeOK
  BY <1>1, <1>2 DEF TeachingInit, TeachingTypeOK
<1>4. ASSUME ~drifted PROVE FlagsAgree
  BY <1>1, <1>4 DEF TeachingInit, FlagsAgree
<1>5. PointerIsLast
  <2>1. CASE history = <<>>
    BY <2>1 DEF PointerIsLast, LiveLesson, LessonPointer, Unpointed
  <2>2. CASE history # <<>>
    <3>1. Len(history) \in DOMAIN history
      BY <1>1, <2>2, LenProperties, EmptySeq
    <3>2. LessonPointer = Unpointed
      BY <1>1, <2>2, <3>1 DEF LessonPointer, Last
    <3>3. QED BY <3>2 DEF PointerIsLast, LiveLesson, Unpointed
  <2>3. QED BY <2>1, <2>2
<1>6. AllReached
  <2> SUFFICES ASSUME NEW i \in DOMAIN history PROVE Reached(history[i].at) /\ Reached(history[i].header)
    BY DEF AllReached
  <2>1. Reached(history[i].at)
    BY <1>1 DEF Reached, LiveLesson, Unpointed
  <2>2. history[i] \in LectureMessage
    BY <1>1, ElementOfSeq, LenProperties
  <2>3. SUFFICES ASSUME LiveLesson(history[i].header), NEW s \in 1..history[i].header.end
                 PROVE  Covered(Stem[history[i].header.file], s)
    BY <2>1 DEF Reached
  <2>4. history[i].header.file \in ToSet(Course)
    BY <2>2, <2>3 DEF LectureMessage, Places, LiveLesson, Nowhere
  <2>5. <<history[i].header.file, s>> \in taught
    BY DEF TeachingInit
  <2>6. QED BY <2>4, <2>5 DEF Covered
<1>7. QED BY <1>3, <1>4, <1>5, <1>6 DEF TeachingInv

LEMMA CoveredStays ==
  ASSUME taught \subseteq taught'
  PROVE  \A stem, s : Covered(stem, s) => Covered(stem, s)'
BY DEF Covered

\* One more message: a live pointer is its header, or that of the lesson before.
LEMMA AnswerKeeps ==
  ASSUME TeachingTypeOK, FlagsAgree, AllReached, NEW m \in LectureMessage, history' = Append(history, m),
         TeachingTypeOK', taught \subseteq taught', m.active = m.header, Reached(m.header)',
         LiveLesson(m.at) => m.at = m.header \/ (m.header = Nowhere /\ m.at = LastState)
  PROVE  FlagsAgree' /\ PointerIsLast' /\ AllReached'
<1> DEFINE n == Len(history) + 1
<1>1. /\ Len(history) \in Nat /\ DOMAIN history = 1..Len(history)
      /\ Len(history') = n /\ DOMAIN history' = 1..n /\ history' # <<>>
      /\ history'[n] = m /\ \A i \in DOMAIN history : history'[i] = history[i] /\ i \in DOMAIN history'
  BY AppendProperties, LenProperties, EmptySeq DEF TeachingTypeOK
<1>2. \A i \in DOMAIN history' : i = n \/ i \in DOMAIN history
  BY <1>1
<1>3. FlagsAgree'
  <2>1. \A i \in DOMAIN history' : history'[i].active \in {Nowhere, history'[i].header}
    BY <1>1, <1>2 DEF FlagsAgree
  <2>2. ASSUME NEW i \in DOMAIN history', NEW j \in DOMAIN history', i < j, history'[i].active # Nowhere
        PROVE  history'[j].active = history'[j].header
    <3>1. CASE j = n
      BY <3>1, <1>1
    <3>2. CASE j \in DOMAIN history
      <4>1. i \in DOMAIN history
        BY <2>2, <3>2, <1>1
      <4>2. QED BY <4>1, <3>2, <2>2, <1>1 DEF FlagsAgree
    <3>3. QED BY <3>1, <3>2, <1>2
  <2>3. QED BY <2>1, <2>2 DEF FlagsAgree
<1>4. IF m.header # Nowhere THEN LastState' = m.header ELSE LastState' = LastState
  <2>1. IF Headed' = {} THEN LastState' = Nowhere ELSE LastState' = history'[Max(Headed')].header
    <3>1. (TeachingTypeOK /\ FlagsAgree =>
            IF Headed = {} THEN LastState = Nowhere ELSE LastState = history[Max(Headed)].header)'
      BY LastStateIsHeader, PTL
    <3>2. QED BY <3>1, <1>3
  <2>2. Headed' = {i \in DOMAIN history' : history'[i].header # Nowhere}
    BY DEF Headed
  <2>3. CASE m.header # Nowhere
    <3>1. n \in Headed' /\ Headed' \in SUBSET Nat /\ (\A x \in Headed' : x <= n) /\ n \in Nat
      BY <2>2, <2>3, <1>1
    <3>2. Max(Headed') \in Headed' /\ \A x \in Headed' : x <= Max(Headed')
      BY <3>1, LatestThere
    <3>3. Max(Headed') = n
      <4>1. Max(Headed') \in Nat /\ Max(Headed') <= n /\ n <= Max(Headed')
        BY <3>1, <3>2
      <4>2. \A a, b \in Nat : a <= b /\ b <= a => a = b
        OBVIOUS
      <4>3. QED BY <3>1, <4>1, <4>2
    <3>4. QED BY <2>1, <2>3, <3>1, <3>3, <1>1
  <2>4. CASE m.header = Nowhere
    <3>1. Headed' = Headed
      BY <2>2, <2>4, <1>1, <1>2 DEF Headed
    <3>2. Headed # {} => history'[Max(Headed)].header = history[Max(Headed)].header
      BY HeadedLast, <1>1
    <3>3. IF Headed = {} THEN LastState = Nowhere ELSE LastState = history[Max(Headed)].header
      BY LastStateIsHeader
    <3>4. QED BY <2>1, <2>4, <3>1, <3>2, <3>3
  <2>5. QED BY <2>3, <2>4
<1>5. PointerIsLast'
  <2>1. LessonPointer' = m.at
    BY <1>1 DEF LessonPointer, Last
  <2>2. LiveLesson(m.at) => LastState' = m.at
    BY <1>4 DEF LiveLesson, Nowhere
  <2>3. QED BY <2>1, <2>2 DEF PointerIsLast
<1>6. AllReached'
  <2>1. ASSUME NEW p, Reached(p) PROVE Reached(p)'
    BY <2>1, CoveredStays DEF Reached
  <2>2. Reached(LastState)
    BY LastStateReached
  <2>3. Reached(m.at)'
    <3>1. CASE ~LiveLesson(m.at)
      BY <3>1 DEF Reached
    <3>2. CASE LiveLesson(m.at) /\ m.at = m.header
      BY <3>2
    <3>3. CASE LiveLesson(m.at) /\ m.at = LastState
      BY <3>3, <2>2, CoveredStays DEF Reached
    <3>4. QED BY <3>1, <3>2, <3>3
  <2>4. ASSUME NEW i \in DOMAIN history' PROVE Reached(history[i].at)' /\ Reached(history[i].header)'
    <3>1. CASE i = n
      BY <3>1, <1>1, <2>3 DEF Reached
    <3>2. CASE i \in DOMAIN history
      BY <3>2, <1>1, CoveredStays DEF Reached, AllReached
    <3>3. QED BY <3>1, <3>2, <1>2
  <2>5. QED BY <2>4 DEF AllReached
<1>7. QED BY <1>3, <1>5, <1>6

LEMMA CarriedType ==
  ASSUME TeachingTypeOK
  PROVE  /\ Carried \in Places \cup {NoLesson}
         /\ PointerIsLast /\ LiveLesson(Carried) => Carried = LastState
<1>1. LastState \in Places \cup {Nowhere}
  BY LastStateType
<1>2. LessonPointer \in Places \cup {NoLesson, Unpointed}
  BY PointerType
<1>3. QED BY <1>1, <1>2 DEF Carried, PointerIsLast, LiveLesson, NoLesson, Nowhere

\* The place of a window, a place that is not the window's, or none.
LEMMA StampedType ==
  ASSUME NEW p \in Places \cup {Nowhere}, NEW lesson \in BOOLEAN, NEW asks \in BOOLEAN
  PROVE  /\ Stamped(p, lesson, asks) \in LectureMessage
         /\ Stamped(p, lesson, asks).header = p
         /\ Stamped(p, lesson, asks).active = IF lesson THEN p ELSE Nowhere
         /\ Stamped(p, lesson, asks).at = IF lesson THEN p ELSE Nowhere
BY DEF Stamped, LectureMessage, NoLesson

LEMMA TeachKeeps ==
  ASSUME TeachingInv, NEW st \in Stages, Teach(st)
  PROVE  TeachingInv'
<1>1. PICK u : st = Stage(u) \/ st = [does |-> "free", place |-> Nowhere]
  BY DEF Stages
<1>2. st = Stage(u) /\ Stage(u).does = "teach"
  BY <1>1 DEF Teach
<1>3. PICK asks \in BOOLEAN : Answer(Stamped(st.place, TRUE, asks))
  BY DEF Teach
<1> DEFINE m == Stamped(st.place, TRUE, asks)
<1>4. history' = Append(history, m)
  BY <1>3 DEF Answer
<1>5. CASE ~drifted
  <2>1. TeachingTypeOK /\ FlagsAgree /\ PointerIsLast /\ AllReached
    BY <1>5 DEF TeachingInv
  <2>2. Bridged(st.place)
    BY <2>1, <1>2, StageBridges
  <2>3. m \in LectureMessage /\ m.header = st.place /\ m.active = st.place /\ m.at = st.place
    BY <2>2, StampedType DEF Bridged
  <2>4. TeachingTypeOK'
    BY <2>1, <2>3, <1>4, AppendProperties DEF TeachingTypeOK, Teach
  <2>5. taught' = taught \cup {<<st.place.file, st.place.end>>}
    BY DEF Teach
  <2>6. Reached(st.place)'
    <3> DEFINE p == st.place
    <3>1. SUFFICES ASSUME NEW s \in 1..p.end PROVE Covered(Stem[p.file], s)'
      BY DEF Reached
    <3>2. p.file \in ToSet(Course) /\ p.end \in Nat /\ p.end \in Slides[p.file]
      BY <2>2 DEF Bridged, Places
    <3>3. <<p.file, p.end>> \in taught'
      BY <2>5
    <3> HIDE DEF p
    <3>4. CASE s = p.end
      BY <3>2, <3>3, <3>4 DEF Covered
    <3>5. CASE s # p.end /\ s \in Slides[p.file]
      <4>1. Covered(Stem[p.file], s)
        BY <2>2, <3>5 DEF Bridged, p
      <4>2. QED BY <4>1, <2>5, CoveredStays
    <3>6. CASE s # p.end /\ s \notin Slides[p.file]
      <4>1. p.end > s
        BY <3>6, <3>2
      <4>2. QED BY <3>6, <4>1, <3>2, <3>3 DEF Covered
    <3>7. QED BY <3>4, <3>5, <3>6
  <2>7. Reached(m.header)'
    BY <2>3, <2>6 DEF Reached
  <2> HIDE DEF m
  <2>8. FlagsAgree' /\ PointerIsLast' /\ AllReached'
    BY <2>1, <2>3, <2>4, <2>5, <2>7, <1>4, AnswerKeeps
  <2>9. QED BY <2>4, <2>8 DEF TeachingInv
<1>6. CASE drifted
  <2>1. TeachingTypeOK'
    <3>1. st.place \in Places
      BY <1>2, StageType DEF TeachingInv
    <3>2. m \in LectureMessage
      BY <3>1, StampedType
    <3>3. QED BY <3>2, <1>4, AppendProperties DEF TeachingInv, TeachingTypeOK, Teach
  <2>2. QED BY <2>1, <1>6 DEF TeachingInv, Teach
<1>7. QED BY <1>5, <1>6 DEF TeachingInv, TeachingTypeOK

LEMMA HeaderlessKeeps ==
  ASSUME TeachingInv, NEW m \in LectureMessage, Answer(m), m.header = Nowhere, m.active = Nowhere,
         PointerIsLast /\ LiveLesson(m.at) => m.at = LastState,
         strays' \in Nat, asides' \in Nat, UNCHANGED <<available, taught, drifted>>
  PROVE  TeachingInv'
<1>1. history' = Append(history, m)
  BY DEF Answer
<1>2. TeachingTypeOK'
  BY <1>1, AppendProperties DEF TeachingInv, TeachingTypeOK
<1>3. CASE ~drifted
  <2>1. TeachingTypeOK /\ FlagsAgree /\ PointerIsLast /\ AllReached
    BY <1>3 DEF TeachingInv
  <2>2. Reached(m.header)'
    BY DEF Reached, LiveLesson, Nowhere
  <2>3. FlagsAgree' /\ PointerIsLast' /\ AllReached'
    BY <2>1, <2>2, <1>1, <1>2, AnswerKeeps
  <2>4. QED BY <1>2, <2>3 DEF TeachingInv
<1>4. QED BY <1>2, <1>3 DEF TeachingInv

LEMMA StraysType == strays \in Nat /\ Stray => strays' \in Nat
BY DEF Stray

\* An answer that names a place it did not serve drifts.
LEMMA StrayKeeps ==
  ASSUME TeachingInv, NEW p \in Strays, NEW lesson \in BOOLEAN, Answer(Stamped(p, lesson, FALSE)),
         Stray, drifted' = TRUE, UNCHANGED <<available, asides>>
  PROVE  TeachingInv'
<1>1. Stamped(p, lesson, FALSE) \in LectureMessage
  BY StraysAssumption, StampedType
<1>2. QED BY <1>1, AppendProperties, StraysType DEF TeachingInv, TeachingTypeOK, Answer

LEMMA NowhereKeeps ==
  ASSUME TeachingInv, NEW lesson \in BOOLEAN, NEW asks \in BOOLEAN, Answer(Stamped(Nowhere, lesson, asks)),
         strays' \in Nat, UNCHANGED <<asides, available, taught, drifted>>
  PROVE  TeachingInv'
<1> DEFINE m == Stamped(Nowhere, lesson, asks)
<1>1. m \in LectureMessage /\ m.header = Nowhere /\ m.active = Nowhere /\ m.at = Nowhere
  BY StampedType
<1>2. ~LiveLesson(m.at)
  BY <1>1 DEF LiveLesson, Nowhere
<1>3. asides' \in Nat
  BY DEF TeachingInv, TeachingTypeOK
<1> HIDE DEF m
<1>4. Answer(m)
  BY DEF m
<1>5. QED BY <1>1, <1>2, <1>3, <1>4, HeaderlessKeeps

LEMMA AsideKeeps ==
  ASSUME TeachingInv, Answer(Aside), asides' \in Nat, UNCHANGED <<strays, available, taught, drifted>>
  PROVE  TeachingInv'
<1>1. Carried \in Places \cup {NoLesson} /\ (PointerIsLast /\ LiveLesson(Carried) => Carried = LastState)
  BY CarriedType DEF TeachingInv
<1>2. Aside \in LectureMessage /\ Aside.header = Nowhere /\ Aside.active = Nowhere /\ Aside.at = Carried
  BY <1>1 DEF Aside, LectureMessage
<1>3. strays' \in Nat
  BY DEF TeachingInv, TeachingTypeOK
<1>4. QED BY <1>1, <1>2, <1>3, HeaderlessKeeps

LEMMA TeachingStep == TeachingInv /\ [TeachingNext]_teachingVars => TeachingInv'
<1> SUFFICES ASSUME TeachingInv, [TeachingNext]_teachingVars PROVE TeachingInv'
  OBVIOUS
<1>1. ASSUME NEW st \in Stages, Teach(st) PROVE TeachingInv'
  BY <1>1, TeachKeeps
<1>2. ASSUME NEW st \in Stages, Mislabel(st) PROVE TeachingInv'
  <2>1. PICK p \in Strays : Answer(Stamped(p, TRUE, FALSE))
    BY <1>2 DEF Mislabel
  <2>2. QED BY <1>2, <2>1, StrayKeeps DEF Mislabel
<1>3. ASSUME NEW st \in Stages, RefuseLesson(st) PROVE TeachingInv'
  <2>1. strays' \in Nat
    BY <1>3, StraysType DEF RefuseLesson, TeachingInv, TeachingTypeOK
  <2>2. QED BY <1>3, <2>1, NowhereKeeps DEF RefuseLesson
<1>4. ASSUME NEW st \in Stages, Examine(st) PROVE TeachingInv'
  <2>1. strays' \in Nat
    BY <1>4 DEF Examine, TeachingInv, TeachingTypeOK
  <2>2. QED BY <1>4, <2>1, NowhereKeeps DEF Examine
<1>5. ASSUME NEW st \in Stages, Stop(st) PROVE TeachingInv'
  <2>1. asides' \in Nat
    BY <1>5 DEF Stop, TeachingInv, TeachingTypeOK
  <2>2. QED BY <1>5, <2>1, AsideKeeps DEF Stop
<1>6. ASSUME NEW st \in Stages, ConverseOnly(st) PROVE TeachingInv'
  <2>1. CASE Answer(Stamped(Nowhere, FALSE, FALSE)) /\ UNCHANGED <<strays, drifted>>
    <3>1. strays' \in Nat
      BY <2>1 DEF TeachingInv, TeachingTypeOK
    <3>2. QED BY <1>6, <2>1, <3>1, NowhereKeeps DEF ConverseOnly
  <2>2. CASE Stray /\ drifted' = TRUE /\ \E p \in Strays : Answer(Stamped(p, FALSE, FALSE))
    BY <1>6, <2>2, StrayKeeps DEF ConverseOnly
  <2>3. QED BY <1>6, <2>1, <2>2 DEF ConverseOnly
<1>7. ASSUME AsideTurn PROVE TeachingInv'
  <2>1. asides' \in Nat
    BY <1>7 DEF AsideTurn, TeachingInv, TeachingTypeOK
  <2>2. QED BY <1>7, <2>1, AsideKeeps DEF AsideTurn
<1>8. ASSUME NEW f \in ToSet(Course), LoseFile(f) PROVE TeachingInv'
  <2>1. UNCHANGED <<history, strays, taught, drifted>> /\ available' = available \ {f} /\ asides' = asides + 1
    BY <1>8 DEF LoseFile
  <2>2. TeachingTypeOK'
    BY <2>1 DEF TeachingInv, TeachingTypeOK
  <2>3. UNCHANGED <<LastState, LessonPointer>>
    BY <2>1 DEF LastState, LessonPointer, Flagged, Flag, Headed, Recently
  <2>4. FlagsAgree /\ PointerIsLast /\ AllReached => (FlagsAgree /\ PointerIsLast /\ AllReached)'
    BY <2>1, <2>3 DEF FlagsAgree, PointerIsLast, AllReached, Reached, Covered
  <2>5. QED BY <2>1, <2>2, <2>4 DEF TeachingInv
<1>9. ASSUME UNCHANGED teachingVars PROVE TeachingInv'
  <2>1. UNCHANGED <<history, available, strays, asides, taught, drifted>>
    BY <1>9 DEF teachingVars
  <2>2. UNCHANGED <<LastState, LessonPointer>>
    BY <2>1 DEF LastState, LessonPointer, Flagged, Flag, Headed, Recently
  <2>3. TeachingTypeOK'
    BY <2>1 DEF TeachingInv, TeachingTypeOK
  <2>4. FlagsAgree /\ PointerIsLast /\ AllReached => (FlagsAgree /\ PointerIsLast /\ AllReached)'
    BY <2>1, <2>2 DEF FlagsAgree, PointerIsLast, AllReached, Reached, Covered
  <2>5. QED BY <2>1, <2>3, <2>4 DEF TeachingInv
<1>10. QED
  BY <1>1, <1>2, <1>3, <1>4, <1>5, <1>6, <1>7, <1>8, <1>9 DEF TeachingNext, Turn

\* In every reachable state the messages are what the teaching code writes, a live
\* pointer is the place of the last header, and what it points past was taught.
THEOREM TeachingInvariant == TeachingSpec => []TeachingInv
BY TeachingInitOK, TeachingStep, PTL DEF TeachingSpec

\* A lesson never points past a slide nobody was shown, unless an answer named a place
\* it did not serve.
THEOREM NothingSkipped == TeachingSpec => []NothingSkippedUnlessDrifted
<1>1. TeachingInv => NothingSkippedUnlessDrifted
  <2> SUFFICES ASSUME TeachingInv, ~drifted, NEW i \in DOMAIN history, LiveLesson(history[i].at),
                      NEW s \in Slides[history[i].at.file], s <= history[i].at.end
               PROVE  Covered(Stem[history[i].at.file], s)
    BY DEF NothingSkippedUnlessDrifted
  <2>1. history[i] \in LectureMessage
    BY ElementOfSeq, LenProperties DEF TeachingInv, TeachingTypeOK
  <2>2. history[i].at \in Places
    BY <2>1 DEF LectureMessage, LiveLesson, NoLesson, Nowhere, Unpointed
  <2>3. s \in 1..history[i].at.end
    BY <2>2, TeachingBounds DEF Places
  <2>4. Reached(history[i].at)
    BY DEF TeachingInv, AllReached
  <2>5. QED BY <2>3, <2>4 DEF Reached
<1>2. QED BY <1>1, TeachingInvariant, PTL
=============================================================================

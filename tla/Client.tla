------------------------------- MODULE Client -------------------------------
(***************************************************************************)
(* One tab of the web client (frontend/src): the composer, the send in     *)
(* progress, the inline editor of an old message, and the calls to the     *)
(* history endpoints, whose replies each replace all that the tab shows.   *)
(* Nothing orders those replies.                                           *)
(***************************************************************************)
EXTENDS Naturals, Sequences, FiniteSets

CONSTANTS
  Words,       \* bound: texts entered; they are numbered in that order
  Threads,     \* the user's conversations
  First,       \* the one that is open at the start
  MaxLength,   \* bound: messages in one conversation
  MaxCalls,    \* bound: history calls at one time
  MaxClicks,   \* bound: clicks, those on the send button too
  MaxLosses    \* bound: failed uploads, broken streams and lost calls

ASSUME FirstAssumption == First \in Threads

Texts == 1..Words
NoText == 0

VARIABLES
  saved,       \* the conversations on the server
  opened,      \* the one the server appends to
  running,     \* texts whose turn runs on the server
  shown,       \* what the tab has rendered: `current` of state.js
  bubble,      \* the column below: the optimistic question and its answer
  box,         \* the composer
  sender,      \* the send in progress: sendText
  editor,      \* the inline editor
  asked,       \* calls the server has not handled
  replies,     \* replies under way
  typed,       \* ghost: texts entered
  dropped,     \* ghost: texts removed by the user's own will
  mislaid,     \* ghost: texts that the tab has lost
  behind,      \* ghost: the tab shows something else than the server's last word
  hurried,     \* ghost: a call was made or a turn stored beside another call, or the tab was behind
  clicks, losses

serverVars == <<saved, opened, running>>
ghostVars == <<typed, dropped, mislaid, behind, hurried>>
clientVars == <<serverVars, shown, bubble, box, sender, editor, asked, replies, ghostVars, clicks, losses>>

Question(t) == [who |-> "user", text |-> t]
Reply(who) == [who |-> who, text |-> NoText]
Resting == [at |-> "rest", text |-> NoText, turn |-> "none", seen |-> FALSE]
Shut == [index |-> 0, of |-> NoText, text |-> NoText]   \* `of`: the text it shows at first
NoBubble == [text |-> NoText, answer |-> "none"]
Busy == sender.at # "rest"
TextsOf(thread) == {thread[i].text : i \in DOMAIN thread} \ {NoText}
OnServer == UNION {TextsOf(saved[c]) : c \in Threads}
OnTheWay == {c.text : c \in asked \cup {r.call : r \in replies}}
Held == ({box, editor.text, sender.text} \cup OnTheWay) \ {NoText}

ClientInit ==
  /\ saved = [c \in Threads |-> <<>>]
  /\ opened = First
  /\ running = {}
  /\ shown = <<>> /\ bubble = NoBubble
  /\ box = NoText /\ sender = Resting /\ editor = Shut
  /\ asked = {} /\ replies = {}
  /\ typed = {} /\ dropped = {} /\ mislaid = {}
  /\ behind = FALSE /\ hurried = FALSE
  /\ clicks = 0 /\ losses = 0

Click == clicks < MaxClicks /\ clicks' = clicks + 1
Lose == losses < MaxLosses /\ losses' = losses + 1

(***************************************************************************)
(* Calls: req, and what their callers do with the reply                    *)
(***************************************************************************)
Call(kind, thread, index, of, text) == [kind |-> kind, thread |-> thread, index |-> index, of |-> of, text |-> text]
\* Only the sidebar names a conversation; the other calls mean the open one.
\* refreshChats, after a send ("sent") or a regeneration ("redone", "again").
Refresh(kind) == Call(kind, First, 0, NoText, NoText)
Ask(call) ==
  /\ Cardinality(asked) + Cardinality(replies) < MaxCalls
  /\ call \notin asked
  /\ asked' = asked \cup {call}
  /\ hurried' = (hurried \/ behind \/ asked \cup replies # {})

\* renderChat: the whole column is written anew, an open editor with it.
Render(thread) ==
  /\ shown' = thread
  /\ bubble' = NoBubble
  /\ editor' = Shut
\* The answer's place in the column, which may have been rendered away.
Mark(answer) == bubble' = IF bubble = NoBubble THEN bubble ELSE [bubble EXCEPT !.answer = answer]
WipedText == {editor.text} \ (OnServer \cup running \cup {box, sender.text, NoText} \cup OnTheWay)

\* sendText once the files are on the server: the composer is cleared, the
\* question shown and the stream opened.  A turn of the same words that still
\* runs makes the server refuse (the claim of Turns).
Commit(text) ==
  /\ box' = NoText
  /\ mislaid' = mislaid \cup ({box} \ {text, NoText})
  /\ bubble' = [text |-> text, answer |-> "waiting"]
  /\ sender' = [at |-> "stream", text |-> text, seen |-> FALSE,
                turn |-> IF text \in running THEN "refused" ELSE "runs"]
  /\ running' = running \cup {text}

\* Seeded fault: the files come back, the words do not.
FaultyRestore(text) == box' = box

\* restoreComposer: the draft comes back unless the composer is in use.
Restore(text) == box' = IF box = NoText THEN text ELSE box
RefusedDraft(text) == IF box = NoText \/ text \in OnServer \cup running THEN {} ELSE {text} \ {box}

(***************************************************************************)
(* The composer: send and sendText                                         *)
(***************************************************************************)
\* New words, also over a draft that waits for its upload.
Type(t) ==
  /\ t = Cardinality(typed) + 1
  /\ box = NoText \/ (sender.at = "upload" /\ box = sender.text)
  /\ box' = t
  /\ typed' = typed \cup {t}
  /\ UNCHANGED <<serverVars, shown, bubble, sender, editor, asked, replies, dropped, mislaid, behind, hurried, clicks, losses>>

SendText ==
  /\ ~Busy
  /\ box # NoText
  /\ Click
  /\ Commit(box)
  /\ UNCHANGED <<saved, opened, shown, editor, asked, replies, typed, dropped, behind, hurried, losses>>

SendFiles ==
  /\ ~Busy
  /\ box # NoText
  /\ Click
  /\ sender' = [at |-> "upload", text |-> box, turn |-> "none", seen |-> FALSE]
  /\ UNCHANGED <<serverVars, shown, bubble, box, editor, asked, replies, ghostVars, losses>>

Uploaded ==
  /\ sender.at = "upload"
  /\ Commit(sender.text)
  /\ UNCHANGED <<saved, opened, shown, editor, asked, replies, typed, dropped, behind, hurried, clicks, losses>>

\* The composer keeps what it holds; words typed over the draft have replaced it.
UploadFails ==
  /\ sender.at = "upload"
  /\ Lose
  /\ sender' = Resting
  /\ dropped' = dropped \cup ({sender.text} \ {box})
  /\ UNCHANGED <<serverVars, shown, bubble, box, editor, asked, replies, typed, mislaid, behind, hurried, clicks>>

(***************************************************************************)
(* The stream: streamInto and the two ends of sendText                     *)
(***************************************************************************)
Hears(t) == sender.at = "stream" /\ sender.text = t /\ sender.turn = "runs"

\* The first words of the answer are on the screen, unless the column has been
\* written anew.
TextArrives ==
  /\ Hears(sender.text) /\ ~sender.seen
  /\ sender' = [sender EXCEPT !.seen = TRUE]
  /\ Mark("partial")
  /\ UNCHANGED <<serverVars, shown, box, editor, asked, replies, ghostVars, clicks, losses>>

\* The server stores the turn, with an answer or a failure note, in the
\* conversation that is open by then.  Replies under way do not tell of it.
TurnStored(t, who) ==
  /\ t \in running
  /\ Len(saved[opened]) + 2 <= MaxLength
  /\ running' = running \ {t}
  /\ saved' = [saved EXCEPT ![opened] = @ \o <<Question(t), Reply(who)>>]
  /\ replies' = {[r EXCEPT !.stale = TRUE] : r \in replies}
  /\ behind' = (behind \/ ~Hears(t))
  /\ hurried' = (hurried \/ asked \cup replies # {})
  /\ sender' = IF Hears(t) THEN [sender EXCEPT !.turn = "stored"] ELSE sender
  /\ UNCHANGED <<opened, shown, bubble, box, editor, asked, typed, dropped, mislaid, clicks, losses>>

\* Refused, or cancelled because its client has gone: nothing is stored.
TurnRefused(t) ==
  /\ t \in running
  /\ running' = running \ {t}
  /\ sender' = IF Hears(t) THEN [sender EXCEPT !.turn = "refused"] ELSE sender
  /\ mislaid' = IF t \in Held \cup OnServer THEN mislaid ELSE mislaid \cup {t}
  /\ UNCHANGED <<saved, opened, shown, bubble, box, editor, asked, replies, typed, dropped, behind, hurried, clicks, losses>>

\* The result has come: the send ends with a refresh.
StreamDone ==
  /\ sender.at = "stream" /\ sender.turn = "stored"
  /\ sender' = [sender EXCEPT !.at = "refresh"]
  /\ Ask(Refresh("sent"))
  /\ UNCHANGED <<serverVars, shown, bubble, box, editor, replies, typed, dropped, mislaid, behind, clicks, losses>>

\* The connection is cut after some text: that counts as an answer.
StreamCut ==
  /\ sender.at = "stream" /\ sender.seen
  /\ Lose
  /\ sender' = [sender EXCEPT !.at = "cut"]
  /\ Ask(Refresh("sent"))
  /\ UNCHANGED <<serverVars, shown, bubble, box, editor, replies, typed, dropped, mislaid, behind, clicks>>

\* An error of the server, or a connection lost before any text: no refresh.
StreamFails ==
  /\ sender.at = "stream"
  /\ \/ sender.turn = "refused" /\ UNCHANGED losses
     \/ ~sender.seen /\ Lose
  /\ Mark("error")
  /\ sender' = Resting
  /\ Restore(sender.text)
  /\ mislaid' = mislaid \cup RefusedDraft(sender.text)
  /\ behind' = (behind \/ sender.turn = "stored")
  /\ UNCHANGED <<serverVars, shown, editor, asked, replies, typed, dropped, hurried, clicks>>

\* The stop button: the view is refreshed before the draft is brought back.
StopStream ==
  /\ sender.at = "stream"
  /\ Click
  /\ sender' = [sender EXCEPT !.at = "stopped"]
  /\ Ask(Refresh("sent"))
  /\ UNCHANGED <<serverVars, shown, bubble, box, editor, replies, typed, dropped, mislaid, behind, losses>>

\* The refresh of a send: what was stopped comes back to the composer, what was
\* cut does not.  A refresh that fails counts as a failed send.
SendEnds(r) ==
  /\ r.call.kind = "sent"
  /\ replies' = replies \ {r}
  /\ sender' = Resting
  /\ IF r.lost THEN /\ Mark(IF sender.at = "stopped" THEN "none" ELSE "error")
                    /\ UNCHANGED <<shown, editor>>
               ELSE Render(r.thread)
  /\ behind' = IF r.lost THEN TRUE ELSE r.stale
  /\ LET back == r.lost \/ sender.at = "stopped"
         gone == IF r.lost THEN {} ELSE WipedText
         cut == {sender.text} \ (OnServer \cup running \cup {box})
     IN /\ IF back THEN Restore(sender.text) ELSE UNCHANGED box
        /\ mislaid' = mislaid \cup gone \cup IF back THEN RefusedDraft(sender.text)
                                           ELSE IF sender.at = "cut" THEN cut ELSE {}
  /\ UNCHANGED <<serverVars, asked, typed, dropped, hurried, clicks, losses>>

(***************************************************************************)
(* The sidebar, and the buttons below a message                            *)
(***************************************************************************)
\* openChatById, the new-chat button, the delete entry of a conversation.
ClickSidebar(kind, thread) ==
  /\ Click
  /\ Ask(Call(kind, thread, 0, NoText, NoText))
  /\ UNCHANGED <<serverVars, shown, bubble, box, sender, editor, replies, typed, dropped, mislaid, behind, losses>>

ClickRegenerate(i) ==
  /\ ~Busy
  /\ i \in DOMAIN shown /\ shown[i].who # "user"
  /\ Click
  /\ Ask(Call("redo", First, i, NoText, NoText))
  /\ UNCHANGED <<serverVars, shown, bubble, box, sender, editor, replies, typed, dropped, mislaid, behind, losses>>

\* The messages in the column with their data-i (from 1 here): the optimistic
\* question counts as the one after those rendered.
Editable == {[index |-> i, of |-> shown[i].text] : i \in {j \in DOMAIN shown : shown[j].who = "user"}}
            \cup IF bubble = NoBubble THEN {} ELSE {[index |-> Len(shown) + 1, of |-> bubble.text]}

StartEdit(m) ==
  /\ ~Busy /\ editor = Shut
  /\ Click
  /\ editor' = [index |-> m.index, of |-> m.of, text |-> NoText]
  /\ UNCHANGED <<serverVars, shown, bubble, box, sender, asked, replies, ghostVars, losses>>

Rewrite(t) ==
  /\ editor # Shut /\ editor.text = NoText
  /\ t = Cardinality(typed) + 1
  /\ editor' = [editor EXCEPT !.text = t]
  /\ typed' = typed \cup {t}
  /\ UNCHANGED <<serverVars, shown, bubble, box, sender, asked, replies, dropped, mislaid, behind, hurried,
                 clicks, losses>>

CancelEdit ==
  /\ editor # Shut
  /\ Render(shown)
  /\ dropped' = dropped \cup ({editor.text} \ {NoText})
  /\ UNCHANGED <<serverVars, box, sender, asked, replies, typed, mislaid, behind, hurried, clicks, losses>>

\* Save: the history is cut before the message, then its new words are sent.
SaveEdit ==
  /\ ~Busy /\ editor # Shut
  /\ Ask(Call("truncate", First, editor.index, editor.of, IF editor.text = NoText THEN editor.of ELSE editor.text))
  /\ UNCHANGED <<serverVars, shown, bubble, box, sender, editor, replies, typed, dropped, mislaid, behind, clicks, losses>>

\* The reply to the cut: sendText gives up at once when a send has begun
\* meanwhile, and clears whatever stands in the composer when none has.
EditGoesOn(r) ==
  /\ r.call.kind = "truncate"
  /\ replies' = replies \ {r}
  /\ IF r.lost
       THEN /\ Render(shown)
            /\ mislaid' = mislaid \cup WipedText \cup ({r.call.text} \ (OnServer \cup running \cup {box, sender.text}))
            /\ UNCHANGED <<box, sender, running>>
     ELSE IF Busy
       THEN /\ mislaid' = mislaid \cup ({r.call.text} \ (OnServer \cup running \cup {box, sender.text, editor.text}))
            /\ UNCHANGED <<shown, bubble, editor, box, sender, running>>
     ELSE Commit(r.call.text) /\ UNCHANGED <<shown, editor>>
  /\ UNCHANGED <<saved, opened, asked, typed, dropped, behind, hurried, clicks, losses>>

(***************************************************************************)
(* The server's side of the calls, and their replies                       *)
(***************************************************************************)
\* What a call makes of the open conversation and of which one is open.
Cut(c) == SubSeq(saved[opened], 1, c.index - 1)
Beyond(c) == SubSeq(saved[opened], c.index, Len(saved[opened]))
\* The texts that a cut or a deletion takes away, and a cut that meets another message
\* than the one it was meant for.
Away(c) == IF c.kind = "truncate" THEN TextsOf(Beyond(c))
           ELSE IF c.kind = "delete" /\ c.thread # opened THEN TextsOf(saved[c.thread]) ELSE {}
Missed(c) == c.kind = "truncate" /\ Beyond(c) # <<>> /\ Beyond(c)[1] # Question(c.of)
Regenerated(c) ==
  LET thread == saved[opened]
  IN IF c.index \in DOMAIN thread /\ thread[c.index].who = "failed"
       THEN [thread EXCEPT ![c.index] = Reply("answer")]
       ELSE Append(thread, Reply("answer"))
Refused(c) ==
  \/ (c.kind = "truncate" /\ c.index > Len(saved[opened]) + 1)
  \/ (c.kind = "redo" /\ (c.index \notin DOMAIN saved[opened] \/ saved[opened][c.index].who = "user"))

Answered(c, reply) ==
  /\ asked' = asked \ {c}
  /\ replies' = {[r EXCEPT !.stale = (@ \/ saved # saved' \/ opened # opened')] : r \in replies} \cup {reply}

Handle(c) ==
  /\ c \in asked /\ ~Refused(c)
  /\ \/ c.kind \in {"sent", "redone", "again"} /\ UNCHANGED <<saved, opened>>
     \/ c.kind = "open" /\ opened' = c.thread /\ UNCHANGED saved
     \/ c.kind = "new" /\ saved[c.thread] = <<>> /\ opened' = c.thread /\ UNCHANGED saved
     \/ c.kind = "delete" /\ saved' = [saved EXCEPT ![c.thread] = IF c.thread = opened THEN @ ELSE <<>>] /\ UNCHANGED opened
     \/ c.kind = "truncate" /\ saved' = [saved EXCEPT ![opened] = Cut(c)] /\ UNCHANGED opened
     \/ /\ c.kind = "redo" /\ Len(saved[opened]) < MaxLength
        /\ saved' = [saved EXCEPT ![opened] = Regenerated(c)] /\ UNCHANGED opened
  /\ Answered(c, [call |-> c, thread |-> saved'[opened'], stale |-> FALSE, lost |-> FALSE])
  /\ dropped' = dropped \cup IF Missed(c) THEN {} ELSE Away(c)
  /\ mislaid' = mislaid \cup IF Missed(c) /\ hurried THEN Away(c) ELSE {}
  /\ behind' = (behind \/ (c.kind = "truncate" /\ Beyond(c) # <<>>))
  /\ UNCHANGED <<running, shown, bubble, box, sender, editor, typed, hurried, clicks, losses>>

\* What the tab gets instead of a reply.
Lost(c) == [call |-> c, thread |-> <<>>, stale |-> FALSE, lost |-> TRUE]

\* Refused by the server, lost on the way there, or lost on the way back; in
\* the last case the tab does not learn what its call has done.
CallFails(c) ==
  /\ c \in asked
  /\ IF Refused(c) THEN UNCHANGED losses ELSE Lose
  /\ asked' = asked \ {c}
  /\ replies' = replies \cup {Lost(c)}
  /\ UNCHANGED <<serverVars, shown, bubble, box, sender, editor, ghostVars, clicks>>
ReplyLost(r) ==
  /\ r \in replies /\ ~r.lost
  /\ Lose
  /\ replies' = (replies \ {r}) \cup {Lost(r.call)}
  /\ behind' = (behind \/ r.call.kind \in {"open", "new"})
  /\ UNCHANGED <<serverVars, shown, bubble, box, sender, editor, asked, typed, dropped, mislaid, hurried, clicks>>

\* The reply takes the place of what the tab shows; the last try of a
\* regeneration renders what the tab has when it fails.
Show(r) ==
  /\ r.call.kind \in {"open", "new", "delete", "redone", "again"}
  /\ ~r.lost \/ r.call.kind = "again"
  /\ replies' = replies \ {r}
  /\ Render(IF r.lost THEN shown ELSE r.thread)
  /\ mislaid' = mislaid \cup WipedText
  /\ behind' = IF r.lost THEN TRUE ELSE r.stale
  /\ UNCHANGED <<serverVars, box, sender, asked, typed, dropped, hurried, clicks, losses>>

SidebarFails(r) ==
  /\ r.call.kind \in {"open", "new", "delete"} /\ r.lost
  /\ replies' = replies \ {r}
  /\ UNCHANGED <<serverVars, shown, bubble, box, sender, editor, asked, ghostVars, clicks, losses>>

\* Seeded fault: a regeneration that succeeds does not refresh the view.
FaultyRedo(r) ==
  /\ r.call.kind = "redo"
  /\ replies' = replies \ {r}
  /\ UNCHANGED <<serverVars, shown, bubble, box, sender, editor, asked, ghostVars, clicks, losses>>

\* A regeneration refreshes the view, also when it failed, and then twice.
RedoRefreshes(r) ==
  /\ r.call.kind = "redo" \/ (r.call.kind = "redone" /\ r.lost)
  /\ replies' = replies \ {r}
  /\ asked' = asked \cup {Refresh(IF r.lost THEN "again" ELSE "redone")}
  /\ UNCHANGED <<serverVars, shown, bubble, box, sender, editor, ghostVars, clicks, losses>>

ClientNext ==
  \/ \E t \in Texts : Type(t) \/ Rewrite(t) \/ TurnStored(t, "answer") \/ TurnStored(t, "failed") \/ TurnRefused(t)
  \/ SendText \/ SendFiles \/ Uploaded \/ UploadFails
  \/ TextArrives \/ StreamDone \/ StreamCut \/ StreamFails \/ StopStream
  \/ \E kind \in {"open", "new", "delete"}, c \in Threads : ClickSidebar(kind, c)
  \/ \E i \in 1..MaxLength : ClickRegenerate(i)
  \/ \E m \in Editable : StartEdit(m)
  \/ CancelEdit \/ SaveEdit
  \/ \E c \in asked : Handle(c) \/ CallFails(c)
  \/ \E r \in replies : ReplyLost(r) \/ SendEnds(r) \/ EditGoesOn(r) \/ Show(r) \/ SidebarFails(r) \/ RedoRefreshes(r)
ClientSpec == ClientInit /\ [][ClientNext]_clientVars

(***************************************************************************)
(* Properties                                                              *)
(***************************************************************************)

\* Nothing the user has typed disappears (send.js:39-46, 185-188, chat.js:85-90):
\* it stands somewhere in the tab or on the server, or the user took it away,
\* except where the tab is known to lose it.  An edit removes its own message
\* and what follows, never those of another conversation, unless calls crossed.
TypedKeptUnlessMislaid == typed \subseteq Held \cup OnServer \cup running \cup dropped \cup mislaid

\* With nothing under way the tab shows the conversation that is open on the
\* server, whatever was sent, stopped, regenerated, edited or opened before,
\* unless the last word of the server failed or was overtaken.
QuietTabIsTrue ==
  ~Busy /\ editor = Shut /\ asked \cup replies = {} /\ ~behind => shown = saved[opened]

=============================================================================

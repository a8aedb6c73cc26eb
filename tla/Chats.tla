------------------------------- MODULE Chats -------------------------------
(***************************************************************************)
(* The history endpoints of one user (backend/routers/chats.py) beside     *)
(* the sends and regenerates of Turns.  Every endpoint that writes loads   *)
(* the whole file, edits its copy, and saves the whole copy: nothing is    *)
(* locked between the two, and archiving a long chat even asks a model     *)
(* for a summary in between.  The archive and the open conversation share  *)
(* a file.                                                                 *)
(***************************************************************************)
EXTENDS Turns

CONSTANTS
  Browse,     \* requests to the history endpoints that write
  MaxChats,   \* MAX_STORED_CHATS
  MaxStamp    \* bound on the archive's clock

ASSUME BrowseAssumption == Browse \cap Actor = {} /\ IsFiniteSet(Browse)
ASSUME MaxChatsAssumption == MaxChats \in Nat \ {0}
ASSUME MaxStampAssumption == MaxStamp \in Nat

VARIABLES
  chats,   \* chats.json: the archived conversations, newest first
  stamp,   \* the wall clock that dates archived conversations
  copy,    \* what each history request loaded
  bpc      \* where each history request is

chatVars == <<chats, stamp, copy, bpc>>
allVars == <<vars, chatVars>>

Record == [id : Nat, title : {"first question", "renamed"}, messages : Seq(Message),
           updated_at : 0..MaxStamp]

Fresh == 1 + Cardinality({b \in Browse : bpc[b] = "saved"})
NoCopy == [chats |-> << >>, current |-> << >>]

InitChats == Init /\ chats = << >> /\ stamp = 0
             /\ copy = [b \in Browse |-> NoCopy]
             /\ bpc = [b \in Browse |-> "idle"]

\* Messages without the volatile fields that _content leaves out.
Content(msgs) == [i \in DOMAIN msgs |-> <<msgs[i].role, msgs[i].question, msgs[i].by,
                                          msgs[i].failed>>]
IsPrefixOf(s, t) == Len(s) <= Len(t) /\ SubSeq(t, 1, Len(s)) = s
Ids(list) == {list[i].id : i \in DOMAIN list}
Without(list, id) ==
  LET kept[n \in 0..Len(list)] ==
        IF n = 0 THEN << >>
        ELSE IF list[n].id = id THEN kept[n - 1] ELSE Append(kept[n - 1], list[n])
  IN  kept[Len(list)]
FirstN(s, n) == IF Len(s) <= n THEN s ELSE SubSeq(s, 1, n)

\* archive_current: a record of the open conversation, dated now.
Archived(msgs, id) ==
  [id |-> id, title |-> "first question", messages |-> msgs, updated_at |-> stamp']

\* The clock may stand still between two archives.
ClockMoves == \E d \in {0, 1} : stamp' = stamp + d /\ stamp' <= MaxStamp

\* The new record goes on top of the list, in place of one of the same id.  The
\* sort that follows finds the list in order (NewestFirst) and is stable.
OnTop(record, list) == FirstN(<<record>> \o Without(list, record.id), MaxChats)

Load(b) ==
  /\ bpc[b] = "idle"
  /\ copy' = [copy EXCEPT ![b] = [chats |-> chats, current |-> Loaded]]
  /\ bpc' = [bpc EXCEPT ![b] = "loaded"]
  /\ UNCHANGED <<vars, chats, stamp>>

\* save_chats writes the caller's copy over whatever the file holds by now.
Save(b, list, msgs) ==
  /\ bpc[b] = "loaded"
  /\ chats' = FirstN(list, MaxChats)
  /\ current' = LastN(msgs, MaxMsgs)
  /\ bpc' = [bpc EXCEPT ![b] = "saved"]
  /\ copy' = [copy EXCEPT ![b] = NoCopy]
  /\ UNCHANGED <<now, claims, pc, seen, told, since, owner, poached>>

\* The client never sends the id of the open conversation: a fresh one is made.
NewChat(b) ==
  LET c == copy[b] IN
  /\ c.current # << >>
  /\ ClockMoves
  /\ Save(b, OnTop(Archived(c.current, Fresh), c.chats), << >>)

\* Seeded fault: conversations are compared by their length.
FaultyAlreadySaved(c) == \E i \in DOMAIN c.chats : Len(c.chats[i].messages) = Len(c.current)

AlreadySaved(c) ==
  \E i \in DOMAIN c.chats : Content(c.chats[i].messages) = Content(c.current)

\* The longest archived conversation that the open one continues, if any.
OriginId(c) ==
  LET origins == {i \in DOMAIN c.chats : IsPrefixOf(c.chats[i].messages, c.current)}
      longest == {i \in origins : \A j \in origins :
                    Len(c.chats[j].messages) <= Len(c.chats[i].messages)}
  IN  IF origins = {} THEN Fresh
      ELSE c.chats[CHOOSE i \in longest : \A j \in longest : i <= j].id

\* An archived conversation becomes the open one; the open one is archived
\* first when it differs from every archived one.
OpenChat(b) ==
  LET c == copy[b] IN
  \E i \in DOMAIN c.chats :
    IF c.current = << >> \/ AlreadySaved(c)
    THEN Save(b, c.chats, c.chats[i].messages) /\ UNCHANGED stamp
    ELSE /\ ClockMoves
         /\ Save(b, OnTop(Archived(c.current, OriginId(c)), c.chats), c.chats[i].messages)

RenameChat(b) ==
  LET c == copy[b] IN
  \E i \in DOMAIN c.chats :
    Save(b, [c.chats EXCEPT ![i].title = "renamed"], c.current) /\ UNCHANGED stamp

DeleteChat(b) ==
  LET c == copy[b] IN
  \E id \in Ids(c.chats) : Save(b, Without(c.chats, id), c.current) /\ UNCHANGED stamp

\* Clear keeps nothing of the open conversation, truncate keeps its head.
TruncateCurrent(b) ==
  LET c == copy[b] IN
  \E n \in 0..Len(c.current) :
    Save(b, c.chats, SubSeq(c.current, 1, n)) /\ UNCHANGED stamp

\* 404, 400, an empty conversation or a failed write: nothing is saved.
GiveUp(b) ==
  /\ bpc[b] = "loaded"
  /\ bpc' = [bpc EXCEPT ![b] = "gone"]
  /\ copy' = [copy EXCEPT ![b] = NoCopy]
  /\ UNCHANGED <<vars, chats, stamp>>

BrowseStep(b) ==
  \/ Load(b) \/ NewChat(b) \/ OpenChat(b) \/ RenameChat(b) \/ DeleteChat(b)
  \/ TruncateCurrent(b) \/ GiveUp(b)

NextChats == \/ Next /\ UNCHANGED chatVars
             \/ \E b \in Browse : BrowseStep(b)

SpecChats == InitChats /\ [][NextChats]_allVars

----------------------------------------------------------------------------
(* Properties *)

MessagesOf(list, msgs) ==
  UNION {{Content(s)[i] : i \in DOMAIN s} :
           s \in {list[i].messages : i \in DOMAIN list} \cup {msgs}}

\* Opening a chat or starting a new one loses no message: each stays in the
\* open conversation or in the archive, unless the archive is full or another
\* request has written since the load.
BrowsingKeepsMessages ==
  [][\A b \in Browse :
       /\ OpenChat(b) \/ NewChat(b)
       /\ copy[b] = [chats |-> chats, current |-> current]
       /\ Len(chats) < MaxChats
       => MessagesOf(chats, current) \subseteq MessagesOf(chats', current')]_allVars

\* "Atomic read-modify-write so concurrent turns don't clobber" (save_chats): a
\* history request never takes away a message it had not loaded.
SavesKeepUnseenMessages ==
  [][\A b \in Browse :
       bpc[b] = "loaded" =>
       \A m \in MessagesOf(<< >>, current) \ MessagesOf(copy[b].chats, copy[b].current) :
         m \in MessagesOf(chats', current')]_allVars
=============================================================================

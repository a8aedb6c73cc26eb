------------------------------- MODULE Stream -------------------------------
(***************************************************************************)
(* From a model call to the client's screen (agent/executor.py and the     *)
(* stream handler of backend/routers/chat.py).                             *)
(*                                                                         *)
(* A turn's thread submits one call after the other to a shared pool with  *)
(* a bounded queue and waits for each no longer than its timeout.  A call  *)
(* that is given up on goes on in its pool thread.  Whatever a call        *)
(* writes passes through the turn's TokenStream into a queue of events,    *)
(* which the stream handler sends to the client.                           *)
(***************************************************************************)
EXTENDS Naturals, Sequences

CONSTANTS
  Turn,       \* turns with an open stream
  Worker,     \* threads of the pool
  QueueMax,   \* _BOUNDED_QUEUE_MULTIPLE times the number of threads
  MaxCalls,   \* model calls of one turn (its budget)
  MaxTokens,  \* bound of the model: chunks of text in one call
  Idle        \* stands for no call

Call == Turn \X (1..MaxCalls)

ASSUME PoolAssumption == QueueMax \in Nat \ {0} /\ MaxCalls \in Nat /\ MaxTokens \in Nat
ASSUME IdleAssumption == Idle \notin Call

VARIABLES
  tasks,      \* the pool's queue
  serving,    \* what each pool thread runs
  fate,       \* each call's Future
  sent,       \* chunks each call has written
  orphans,    \* calls given up on before they were done (history)
  streamAt,   \* where the turn's thread is
  call,       \* the number of its latest call
  emitted,    \* TokenStream._emitted
  outcome,    \* what run_chat has left for the handler
  events,     \* queue from the turn to the handler
  handler,    \* the stream handler: sending, ended, or stopped
  shown,      \* the call whose text the client shows, 0 for none
  told,       \* the terminal event the client got
  cancelled,  \* the event that run_chat polls
  streamGone  \* the client has closed the stream

pool == <<tasks, serving, fate, sent>>
thread == <<streamAt, call, outcome, orphans>>
client == <<handler, shown, told, cancelled, streamGone>>
streamVars == <<pool, thread, emitted, events, client>>

Done == {"result", "error"}

StreamInit ==
  /\ tasks = << >> /\ serving = [w \in Worker |-> Idle]
  /\ fate = [c \in Call |-> "none"] /\ sent = [c \in Call |-> 0] /\ orphans = {}
  /\ streamAt = [t \in Turn |-> "ready"] /\ call = [t \in Turn |-> 0]
  /\ emitted = [t \in Turn |-> FALSE] /\ outcome = [t \in Turn |-> "none"]
  /\ events = [t \in Turn |-> << >>]
  /\ handler = [t \in Turn |-> "sending"] /\ shown = [t \in Turn |-> 0]
  /\ told = [t \in Turn |-> "none"]
  /\ cancelled = [t \in Turn |-> FALSE] /\ streamGone = [t \in Turn |-> FALSE]

\* An event names its kind and, if it is text, the number of the call that wrote it.
Put(t, kind, n) == events' = [events EXCEPT ![t] = Append(@, [kind |-> kind, call |-> n])]
Now(t) == <<t, call[t]>>

----------------------------------------------------------------------------
(* The turn's thread *)

\* Seeded fault: the consumer is told only when the call before was answered.
FaultyResetForNewCall(t) ==
  /\ streamAt[t] = "ready" /\ call[t] < MaxCalls
  /\ streamAt' = [streamAt EXCEPT ![t] = "submit"]
  /\ call' = [call EXCEPT ![t] = @ + 1]
  /\ IF emitted[t] /\ fate[Now(t)] = "result"
     THEN Put(t, "reset", 0) /\ emitted' = [emitted EXCEPT ![t] = FALSE]
     ELSE UNCHANGED <<events, emitted>>
  /\ UNCHANGED <<pool, outcome, orphans, client>>

\* reset_for_new_call: text of an earlier call is withdrawn.  Each call is charged
\* to the budget before it is submitted.
ResetForNewCall(t) ==
  /\ streamAt[t] = "ready" /\ call[t] < MaxCalls
  /\ streamAt' = [streamAt EXCEPT ![t] = "submit"]
  /\ call' = [call EXCEPT ![t] = @ + 1]
  /\ IF emitted[t] THEN Put(t, "reset", 0) /\ emitted' = [emitted EXCEPT ![t] = FALSE]
                   ELSE UNCHANGED <<events, emitted>>
  /\ UNCHANGED <<pool, outcome, orphans, client>>

\* submit: a full queue refuses the call at once (ExecutorBusyError).
Submit(t) ==
  /\ streamAt[t] = "submit"
  /\ IF Len(tasks) < QueueMax
     THEN /\ tasks' = Append(tasks, Now(t)) /\ fate' = [fate EXCEPT ![Now(t)] = "queued"]
          /\ streamAt' = [streamAt EXCEPT ![t] = "wait"]
     ELSE streamAt' = [streamAt EXCEPT ![t] = "ready"] /\ UNCHANGED <<tasks, fate>>
  /\ UNCHANGED <<serving, sent, call, outcome, orphans, emitted, events, client>>

\* The call's Future is done: its real outcome is had, in time or at the timeout.
Result(t) ==
  /\ streamAt[t] = "wait" /\ fate[Now(t)] \in Done
  /\ streamAt' = [streamAt EXCEPT ![t] = "ready"]
  /\ UNCHANGED <<pool, call, outcome, orphans, emitted, events, client>>

\* The timeout passes first: the call is left behind, running or still queued.
TimeOut(t) ==
  /\ streamAt[t] = "wait" /\ fate[Now(t)] \notin Done
  /\ streamAt' = [streamAt EXCEPT ![t] = "ready"]
  /\ orphans' = orphans \cup {Now(t)}
  /\ UNCHANGED <<pool, call, outcome, emitted, events, client>>

\* Seeded fault: the handler is woken before the outcome is there for it.
FaultyEnd(t, how) ==
  /\ streamAt[t] = "ready"
  /\ Put(t, "end", 0)
  /\ streamAt' = [streamAt EXCEPT ![t] = "over"]
  /\ UNCHANGED <<pool, call, outcome, orphans, emitted, client>>

\* run_chat returns or raises; its outcome is there before the handler is woken.
EndStream(t, how) ==
  /\ streamAt[t] = "ready"
  /\ \/ how = "payload" /\ call[t] > 0 /\ fate[Now(t)] = "result"
     \/ how = "error"
     \/ how = "cancelled" /\ cancelled[t]
  /\ outcome' = [outcome EXCEPT ![t] = how]
  /\ Put(t, "end", 0)
  /\ streamAt' = [streamAt EXCEPT ![t] = "over"]
  /\ UNCHANGED <<pool, call, orphans, emitted, client>>

----------------------------------------------------------------------------
(* The pool *)

\* A thread takes the oldest task.  Nobody cancels a Future: an orphan is run too.
Take(w) ==
  /\ serving[w] = Idle /\ tasks # << >>
  /\ serving' = [serving EXCEPT ![w] = Head(tasks)]
  /\ fate' = [fate EXCEPT ![Head(tasks)] = "running"]
  /\ tasks' = Tail(tasks)
  /\ UNCHANGED <<sent, thread, emitted, events, client>>

\* A chunk arrives and goes to the turn's consumer, whoever still waits for it.
Emit(w) ==
  LET c == serving[w] IN
  /\ c # Idle /\ sent[c] < MaxTokens
  /\ sent' = [sent EXCEPT ![c] = @ + 1]
  /\ emitted' = [emitted EXCEPT ![c[1]] = TRUE]
  /\ Put(c[1], "token", c[2])
  /\ UNCHANGED <<tasks, serving, fate, thread, client>>

\* The call returns or raises, its first token's deadline included.  The thread
\* survives it.
Finish(w) ==
  /\ serving[w] # Idle
  /\ \E f \in Done : fate' = [fate EXCEPT ![serving[w]] = f]
  /\ serving' = [serving EXCEPT ![w] = Idle]
  /\ UNCHANGED <<tasks, sent, thread, emitted, events, client>>

----------------------------------------------------------------------------
(* The stream handler and its client *)

\* One event is passed on: text replaces what was shown, a reset withdraws it.
Send(t) ==
  /\ handler[t] = "sending" /\ events[t] # << >>
  /\ LET event == Head(events[t]) IN
       /\ handler' = [handler EXCEPT ![t] = IF event.kind = "end" THEN "ended" ELSE @]
       /\ shown' = [shown EXCEPT ![t] = IF event.kind = "end" THEN @ ELSE event.call]
  /\ events' = [events EXCEPT ![t] = Tail(@)]
  /\ UNCHANGED <<pool, thread, emitted, told, cancelled, streamGone>>

\* After the end the outcome is looked at, and one terminal event is sent.
Conclude(t) ==
  /\ handler[t] = "ended"
  /\ handler' = [handler EXCEPT ![t] = "stopped"]
  /\ told' = [told EXCEPT ![t] = IF outcome[t] = "payload" THEN "done" ELSE "error"]
  /\ shown' = [shown EXCEPT ![t] = 0]
  /\ UNCHANGED <<pool, thread, emitted, events, cancelled, streamGone>>

\* Only when no event has come for a second the connection is looked at.
Notice(t) ==
  /\ handler[t] = "sending" /\ events[t] = << >> /\ streamGone[t]
  /\ cancelled' = [cancelled EXCEPT ![t] = TRUE]
  /\ handler' = [handler EXCEPT ![t] = "stopped"]
  /\ UNCHANGED <<pool, thread, emitted, events, shown, told, streamGone>>

\* The client closes its stream.
CloseStream(t) ==
  /\ ~streamGone[t] /\ told[t] = "none" /\ streamGone' = [streamGone EXCEPT ![t] = TRUE]
  /\ UNCHANGED <<pool, thread, emitted, events, handler, shown, told, cancelled>>

----------------------------------------------------------------------------
TurnStep(t) ==
  \/ ResetForNewCall(t) \/ Submit(t) \/ Result(t) \/ TimeOut(t)
  \/ \E how \in {"payload", "error", "cancelled"} : EndStream(t, how)
HandlerStep(t) == Send(t) \/ Conclude(t) \/ Notice(t)
PoolStep(w) == Take(w) \/ Emit(w) \/ Finish(w)

StreamNext ==
  \/ \E t \in Turn : TurnStep(t) \/ HandlerStep(t) \/ CloseStream(t)
  \/ \E w \in Worker : PoolStep(w)

StreamSpec == StreamInit /\ [][StreamNext]_streamVars

----------------------------------------------------------------------------
(* Properties *)

\* Every variable keeps its type, and the queue never outgrows its size.
StreamTypeOK ==
  /\ tasks \in Seq(Call) /\ Len(tasks) <= QueueMax
  /\ serving \in [Worker -> Call \cup {Idle}]
  /\ fate \in [Call -> Done \cup {"none", "queued", "running"}]
  /\ sent \in [Call -> 0..MaxTokens] /\ orphans \subseteq Call
  /\ streamAt \in [Turn -> {"ready", "submit", "wait", "over"}]
  /\ call \in [Turn -> 0..MaxCalls] /\ emitted \in [Turn -> BOOLEAN]
  /\ outcome \in [Turn -> {"none", "payload", "error", "cancelled"}]
  /\ events \in [Turn -> Seq([kind : {"token", "reset", "end"}, call : 0..MaxCalls])]
  /\ handler \in [Turn -> {"sending", "ended", "stopped"}]
  /\ shown \in [Turn -> 0..MaxCalls] /\ told \in [Turn -> {"none", "done", "error"}]
  /\ cancelled \in [Turn -> BOOLEAN] /\ streamGone \in [Turn -> BOOLEAN]

\* Text of one call gives way to text of another only through a reset, "so stale
\* text is never concatenated with fresh text" (TokenStream), unless one of the two
\* calls was given up on and went on writing.
ResetBetweenCallsUnlessOrphaned ==
  [][\A t \in Turn : LET old == shown[t] new == shown'[t] IN
       (old # 0 /\ new # 0 /\ old # new) => (\E c \in orphans : c[1] = t)]_streamVars

\* A client that has stayed is told of an answer exactly when run_chat has returned
\* one.
ToldTheTruth ==
  \A t \in Turn : told[t] # "none" => outcome[t] # "none" /\ (told[t] = "done" <=> outcome[t] = "payload")

=============================================================================

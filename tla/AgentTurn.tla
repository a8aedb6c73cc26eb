----------------------------- MODULE AgentTurn -----------------------------
(***************************************************************************)
(* One request in the agent (agent/runtime.py, toolrun.py, planning.py,    *)
(* answer.py, reflection.py, budget.py): classify, plan, a loop of model   *)
(* calls and tool batches, synthesis, critique, citation check.  One       *)
(* budget covers them all; a client that leaves cancels them all; a tier   *)
(* that fails in the middle is replaced by another.                        *)
(*                                                                         *)
(* Inside a cascade this module keeps only how many calls are placed;      *)
(* which tiers a cascade tries is the subject of Cascade.                  *)
(***************************************************************************)
EXTENDS Integers, FiniteSets

CONSTANTS
  Tier,        \* model tiers
  NoTools,     \* NO_TOOLS_TIERS: never asked with tools bound
  NoTier,      \* stands for None where a tier's name may be missing
  Reader,      \* read-only tools, run in parallel
  Mutator,     \* mutating tools, run one by one after them
  MaxLlm, MaxTools, MaxRounds, MaxPlan, MaxReflect,  \* the budget's limits
  LoopRounds   \* max_rounds of one loop

Tool == Reader \cup Mutator

ASSUME TierAssumption == NoTools \subseteq Tier /\ NoTier \notin Tier
ASSUME ToolAssumption == Reader \cap Mutator = {} /\ IsFiniteSet(Tool)
ASSUME LimitAssumption ==
  /\ MaxLlm \in Nat /\ MaxTools \in Nat /\ MaxRounds \in Nat
  /\ MaxPlan \in Nat /\ MaxReflect \in Nat /\ LoopRounds \in Nat

VARIABLES
  at,        \* where the request is
  deep,      \* deep_mode
  planned,   \* use_planning
  force,     \* force_web_search
  hatches,   \* tables left once the mode's table is down
  left,      \* tiers the answer's cascade has still to try
  tier,      \* the tier of this attempt
  dead,      \* tiers this attempt's provider leaves out (failed)
  pinned,    \* the provider has still to serve the attempt's own tier
  guarded,   \* the loop runs inside plan_then_execute's try
  loop,      \* the loop's own variables
  late,      \* the deadline has passed
  gone,      \* the client has left
  llm, tools, rounds, plans, reflects,  \* what the budget has been charged
  ran,       \* tools that have run
  noted,     \* used_tools
  blame,     \* causes, not its own, for which a tier was marked failed
  credited,  \* final_tier
  author,    \* who wrote the text that is returned
  slips      \* known lapses of this turn (history)

path == <<deep, planned, force>>
attempt == <<hatches, left, tier, dead, pinned, guarded>>
world == <<late, gone>>
charged == <<llm, tools, rounds, plans, reflects>>
record == <<ran, noted>>
text == <<credited, author>>
vars == <<at, path, attempt, loop, world, charged, record, blame, text, slips>>

End == {"answered", "failed", "cancelled"}
Goto(where) == at' = where

\* The loop as run_tool_loop begins it with tier t's model.
Fresh(t) == [used |-> 0, results |-> {}, by |-> NoTier, wrote |-> NoTier,
             last |-> t, key |-> << >>, batch |-> {}, error |-> FALSE]

Init ==
  /\ at = "memory" /\ deep \in BOOLEAN /\ planned = FALSE /\ force \in BOOLEAN
  /\ hatches = (IF deep THEN 1 ELSE 0) /\ left = Tier /\ tier = NoTier /\ dead = {}
  /\ pinned = FALSE /\ guarded = FALSE /\ loop = Fresh(NoTier)
  /\ late = FALSE /\ gone = FALSE
  /\ llm = 0 /\ tools = 0 /\ rounds = 0 /\ plans = 0 /\ reflects = 0
  /\ ran = {} /\ noted = {} /\ blame = {}
  /\ credited = NoTier /\ author = NoTier /\ slips = {}

----------------------------------------------------------------------------
(* Model calls *)

\* _invoke_bounded places a call only if count_llm allows it.  A call that is not
\* allowed is counted too, which changes nothing: none is allowed after it.
Ask == ~late /\ llm < MaxLlm /\ llm' = llm + 1

\* A tier fails inside a cascade, and the cascade goes on.
AskInVain ==
  /\ at \in {"memory", "classify", "summarize", "simple", "plan", "replan", "verify"}
  /\ Ask
  /\ UNCHANGED <<at, path, attempt, loop, world, tools, rounds, plans, reflects, record, blame, text, slips>>

\* Facts are mined from the message; whatever goes wrong is swallowed.
Remember ==
  /\ at = "memory" /\ Goto("classify")
  /\ UNCHANGED <<path, attempt, loop, world, charged, record, blame, text, slips>>

\* A client that has left before anything is done gets nothing.
TurnAway ==
  /\ at = "memory" /\ llm = 0 /\ gone /\ Goto("cancelled")
  /\ UNCHANGED <<path, attempt, loop, world, charged, record, blame, text, slips>>

\* Rules, a model, or a guess when no model answers, say what is asked for.
Classify ==
  /\ at = "classify"
  /\ Ask \/ UNCHANGED llm
  /\ \/ Goto("summarize") /\ planned' \in {FALSE, deep}
     \/ Goto("simple") /\ UNCHANGED planned
  /\ UNCHANGED <<deep, force, attempt, loop, world, tools, rounds, plans, reflects, record, blame, text, slips>>

\* A long history is summarised; without a model it goes as it is.
Summarize ==
  /\ at = "summarize" /\ Goto("attempt")
  /\ Ask \/ UNCHANGED llm
  /\ UNCHANGED <<path, attempt, loop, world, tools, rounds, plans, reflects, record, blame, text, slips>>

\* The budget runs out, or the prompt is too large, where nothing catches it.
Spent ==
  /\ at \in {"classify", "summarize", "simple", "verify"}
  /\ Goto("failed")
  /\ slips' = IF at = "verify" THEN slips \cup {"unverified"} ELSE slips
  /\ UNCHANGED <<path, attempt, loop, world, charged, record, blame, text>>

AnswerDirect ==
  /\ at = "simple" /\ Ask
  /\ Goto("answered")
  /\ \E t \in Tier : credited' = t /\ author' = t
  /\ UNCHANGED <<path, attempt, loop, world, tools, rounds, plans, reflects, record, blame, slips>>

\* Seeded fault: the one more table may be had again and again.
FaultyNextTable ==
  /\ at = "simple" \/ (at = "attempt" /\ left \in {{}, Tier})
  /\ IF hatches > 0
     THEN left' = Tier /\ UNCHANGED <<at, hatches>>
     ELSE Goto("failed") /\ UNCHANGED <<hatches, left>>
  /\ UNCHANGED <<path, tier, dead, pinned, guarded, loop, world, charged, record, blame, text, slips>>

\* No tier of the table answers, or all of them cool down for long: deep mode has
\* one more table.
NextTable ==
  /\ at = "simple" \/ (at = "attempt" /\ left \in {{}, Tier})
  /\ IF hatches > 0
     THEN hatches' = hatches - 1 /\ left' = Tier /\ UNCHANGED at
     ELSE Goto("failed") /\ UNCHANGED <<hatches, left>>
  /\ UNCHANGED <<path, tier, dead, pinned, guarded, loop, world, charged, record, blame, text, slips>>

----------------------------------------------------------------------------
(* Attempts and plans *)

\* Seeded fault: a new attempt forgets what the one before it executed.
FaultyAttempt(t) ==
  /\ at = "attempt" /\ t \in left
  /\ left' = left \ {t} /\ tier' = t /\ dead' = {} /\ pinned' = TRUE /\ guarded' = FALSE
  /\ loop' = Fresh(t) /\ credited' = NoTier /\ noted' = {}
  /\ Goto(IF planned THEN "count" ELSE IF force THEN "search" ELSE "round")
  /\ UNCHANGED <<path, hatches, world, charged, ran, blame, author, slips>>

\* _answer_tooled on the next tier; earlier attempts keep their tools on record.
Attempt(t) ==
  /\ at = "attempt" /\ t \in left
  /\ left' = left \ {t} /\ tier' = t /\ dead' = {} /\ pinned' = TRUE /\ guarded' = FALSE
  /\ loop' = Fresh(t) /\ credited' = NoTier
  /\ Goto(IF planned THEN "count" ELSE IF force THEN "search" ELSE "round")
  /\ UNCHANGED <<path, hatches, world, charged, record, blame, author, slips>>

\* A tier that cannot be built is passed over.
PassOver(t) ==
  /\ at = "attempt" /\ t \in left
  /\ left' = left \ {t}
  /\ UNCHANGED <<at, path, hatches, tier, dead, pinned, guarded, loop, world, charged, record, blame, text, slips>>

\* The plan is charged before anything is caught: a second one ends the turn.
CountPlan ==
  /\ at = "count"
  /\ IF plans < MaxPlan THEN plans' = plans + 1 /\ guarded' = TRUE /\ Goto("plan")
     ELSE Goto("failed") /\ UNCHANGED <<plans, guarded>>
  /\ UNCHANGED <<path, hatches, left, tier, dead, pinned, loop, world, llm, tools, rounds, reflects, record, blame, text, slips>>

\* Cheap tiers first, then this attempt's: a plan is written, or an earlier
\* attempt's is used again.
Plan ==
  /\ at = "plan" /\ Goto("replan")
  /\ Ask \/ (plans > 1 /\ UNCHANGED llm)
  /\ UNCHANGED <<path, attempt, loop, world, tools, rounds, plans, reflects, record, blame, text, slips>>

\* A plan with unknown tools is written once more; a failure is swallowed.
Execute ==
  /\ at = "replan" /\ Goto("round")
  /\ UNCHANGED <<path, attempt, loop, world, charged, record, blame, text, slips>>

Own == {"provider", "error"}

\* Seeded fault: a loop that ends for want of budget is answered by the next tier.
FaultyRaise(cause) ==
  IF guarded
  THEN /\ guarded' = FALSE /\ dead' = dead \cup {tier}
       /\ blame' = blame \cup ({cause} \ Own)
       /\ loop' = Fresh(tier) /\ Goto("round")
  ELSE /\ Goto(IF cause = "cancel" THEN "cancelled" ELSE "attempt")
       /\ blame' = blame \cup ({cause} \ {"error", "provider", "cancel"})
       /\ loop' = Fresh(NoTier) /\ UNCHANGED <<guarded, dead>>

\* What an exception does from inside the loop.  plan_then_execute takes every
\* one for a failed plan: it blames its tier and runs the loop again.  Without it
\* the cascade ends the turn for our own limits and goes on for the rest.
Raise(cause) ==
  IF guarded
  THEN /\ guarded' = FALSE /\ dead' = dead \cup {tier}
       /\ blame' = blame \cup ({cause} \ Own)
       /\ loop' = Fresh(tier) /\ Goto("round")
  ELSE /\ Goto(CASE cause = "cancel" -> "cancelled" [] cause = "budget" -> "failed" [] OTHER -> "attempt")
       /\ loop' = Fresh(NoTier) /\ UNCHANGED <<guarded, dead, blame>>

PlanFails ==
  /\ at = "plan"
  /\ \E cause \in {"budget", "busy", "provider"} : Raise(cause)
  /\ UNCHANGED <<path, hatches, left, tier, pinned, world, charged, record, text, slips>>

----------------------------------------------------------------------------
(* The loop *)

\* force_web_search: the search runs before the first round, on every attempt.
ForcedSearch ==
  /\ at = "search" /\ Goto("round")
  /\ IF ~late /\ tools < MaxTools
     THEN /\ tools' = tools + 1
          /\ \E r \in Reader : ran' = ran \cup {r} /\ noted' = noted \cup {r}
     ELSE UNCHANGED <<tools, record>>
  /\ UNCHANGED <<path, attempt, loop, world, llm, rounds, plans, reflects, blame, text, slips>>

\* The top of the loop stops it for the deadline or for a client that has left.
Stop ==
  /\ at = "round" /\ loop.used < LoopRounds
  /\ \/ late /\ Raise("budget")
     \/ ~late /\ gone /\ Raise("cancel")
  /\ UNCHANGED <<path, hatches, left, tier, pinned, world, charged, record, text, slips>>

\* Rounds are over: the loop's own, or those of the whole request.
OutOfRounds ==
  /\ at = "round" /\ Goto("after")
  /\ loop.used >= LoopRounds \/ (~late /\ ~gone /\ rounds >= MaxRounds)
  /\ UNCHANGED <<path, attempt, loop, world, charged, record, blame, text, slips>>

\* Seeded fault: the loop that runs in place of a plan is not told who has left.
FaultyMayRound ==
  /\ at = "round" /\ loop.used < LoopRounds /\ ~late /\ (gone => planned /\ ~guarded)
  /\ rounds < MaxRounds

\* check_time, the client's poll and count_round all let the round begin.
MayRound == at = "round" /\ loop.used < LoopRounds /\ ~late /\ ~gone /\ rounds < MaxRounds

Served(t) == t \in Tier \ dead /\ (pinned /\ tier \notin dead => t = tier)

\* A tier without tools, or one that cannot bind them, costs a round and no call.
SkipRound(t) ==
  /\ MayRound /\ Served(t)
  /\ rounds' = rounds + 1 /\ pinned' = FALSE
  /\ UNCHANGED <<at, path, hatches, left, tier, dead, guarded, loop, world, llm, tools, plans, reflects, record, blame, text, slips>>

\* No tier can be served: all are left out, cool down for long, or cannot be built
\* and are left out from now on.
NoLiveTier ==
  /\ MayRound /\ (pinned => tier \in dead)
  /\ rounds' = rounds + 1 /\ pinned' = FALSE
  /\ dead' \in {dead, Tier}
  /\ loop' = [loop EXCEPT !.error = TRUE] /\ Goto("after")
  /\ UNCHANGED <<path, hatches, left, tier, guarded, world, llm, tools, plans, reflects, record, blame, text, slips>>

\* The attempt's own tier is served first, then any that is not left out.  From
\* now on it is last_llm.
StartRound(t) ==
  /\ MayRound /\ Served(t) /\ t \notin NoTools
  /\ rounds' = rounds + 1 /\ pinned' = FALSE
  /\ loop' = [loop EXCEPT !.last = t] /\ Goto("call")
  /\ UNCHANGED <<path, hatches, left, tier, dead, guarded, world, llm, tools, plans, reflects, record, blame, text, slips>>

CallSpent ==
  /\ at = "call" /\ Raise("budget")
  /\ UNCHANGED <<path, hatches, left, tier, pinned, world, charged, record, text, slips>>

\* A failed call, a saturated pool among the causes, marks the tier and the round
\* is tried again; so does an answer that is empty or too short.
CallFails ==
  /\ at = "call" /\ Ask /\ Goto("round")
  /\ \/ blame' \in {blame, blame \cup {"busy"}} /\ UNCHANGED loop
     \/ loop' \in {[loop EXCEPT !.by = loop.last, !.key = << >>, !.wrote = w] : w \in {loop.wrote, loop.last}}
        /\ UNCHANGED blame
  /\ UNCHANGED <<path, attempt, world, tools, rounds, plans, reflects, record, text, slips>>

\* The loop returns, and its variables are gone.
Return == Goto("reflect") /\ loop' = Fresh(NoTier)

\* The model answers, and calls no tool.
CallAnswers ==
  /\ at = "call" /\ Ask /\ Return
  /\ credited' = loop.last /\ author' = loop.last
  /\ UNCHANGED <<path, attempt, world, tools, rounds, plans, reflects, record, blame, slips>>

\* The model calls tools, with some text or none; calls leaked as text wipe it.
\* The same calls from the same tier twice in a row end the loop.
CallTools(batch) ==
  /\ at = "call" /\ Ask /\ batch \subseteq Tool /\ batch # {}
  /\ \E w \in {NoTier, loop.wrote, loop.last} :
       loop' = [loop EXCEPT !.used = @ + 1, !.by = loop.last, !.wrote = w,
                            !.key = <<loop.last, batch>>,
                            !.batch = IF loop.key = <<loop.last, batch>> THEN {} ELSE batch]
  /\ Goto(IF loop.key = <<loop.last, batch>> THEN "after" ELSE "tools")
  /\ UNCHANGED <<path, attempt, world, tools, rounds, plans, reflects, record, blame, text, slips>>

\* What may have run when the budget stops a batch: some readers; or all of them
\* and some mutators.
Stopped(batch) ==
  {some \in SUBSET batch :
     /\ some # batch
     /\ some \cap Mutator # {} => batch \cap Reader \subseteq some}

\* _execute_tool_calls_parallel runs the batch, and its tools are noted.  Too much
\* output ends the loop.
RunTools ==
  /\ at = "tools" /\ tools + Cardinality(loop.batch) <= MaxTools
  /\ tools' = tools + Cardinality(loop.batch)
  /\ ran' = ran \cup loop.batch /\ noted' = noted \cup loop.batch
  /\ loop' = [loop EXCEPT !.results = loop.batch, !.batch = {}]
  /\ at' \in {"round", "after"}
  /\ UNCHANGED <<path, attempt, world, llm, rounds, plans, reflects, blame, text, slips>>

\* The budget stops the batch: what has run has no result and is not noted.
CutTools ==
  /\ at = "tools" /\ Goto("after")
  /\ \E some \in Stopped(loop.batch) :
       /\ \/ late /\ tools + Cardinality(some) <= MaxTools
          \/ tools + Cardinality(some) = MaxTools
       /\ tools' = tools + Cardinality(some)
       /\ ran' = ran \cup some
       /\ slips' = IF some \subseteq noted THEN slips ELSE slips \cup {"cut"}
  /\ loop' = [loop EXCEPT !.batch = {}]
  /\ UNCHANGED <<path, attempt, world, llm, rounds, plans, reflects, noted, blame, text>>

----------------------------------------------------------------------------
(* After the loop *)

\* A client that has left gets no synthesis, and an attempt that has produced
\* nothing hands over to the next tier.
GiveUp ==
  /\ at = "after"
  /\ \/ gone /\ Raise("cancel")
     \/ ~gone /\ loop.used = 0 /\ loop.results = {} /\ loop.error /\ Raise("error")
  /\ UNCHANGED <<path, hatches, left, tier, pinned, world, charged, record, text, slips>>

Synthesize ==
  /\ at = "after" /\ ~gone /\ ~(loop.used = 0 /\ loop.results = {} /\ loop.error)
  /\ Goto("synth")
  /\ UNCHANGED <<path, attempt, loop, world, charged, record, blame, text, slips>>

\* Seeded fault: the text goes to the tier of the attempt.
FaultySynthWrites ==
  /\ at = "synth" /\ Ask /\ Return
  /\ credited' = tier /\ author' = loop.last
  /\ slips' = IF loop.by = loop.last THEN slips ELSE slips \cup {"swapped"}
  /\ UNCHANGED <<path, attempt, world, tools, rounds, plans, reflects, record, blame>>

\* The last tier tried writes the synthesis; the last that answered is credited.
SynthWrites ==
  /\ at = "synth" /\ Ask /\ Return
  /\ credited' = IF loop.by = NoTier THEN credited ELSE loop.by
  /\ author' = loop.last
  /\ slips' = IF loop.by = loop.last THEN slips ELSE slips \cup {"swapped"}
  /\ UNCHANGED <<path, attempt, world, tools, rounds, plans, reflects, record, blame>>

\* Its failure is put down to the tier that answered last.
SynthFails ==
  /\ at = "synth" /\ Ask /\ Goto("resynth")
  /\ \/ loop.by = NoTier /\ UNCHANGED blame
     \/ /\ loop.by # NoTier
        /\ blame' \in {blame \cup {"busy"}, IF loop.by = loop.last THEN blame ELSE blame \cup {"stranger"}}
  /\ UNCHANGED <<path, attempt, loop, world, tools, rounds, plans, reflects, record, text, slips>>

\* The other tiers are asked until one writes, or none is left.
ResynthWrites(t) ==
  /\ at = "resynth" /\ t \notin dead /\ Ask /\ Return
  /\ credited' = t /\ author' = t
  /\ UNCHANGED <<path, attempt, world, tools, rounds, plans, reflects, record, blame, slips>>

ResynthFails(t) ==
  /\ at = "resynth" /\ t \notin dead /\ Ask
  /\ blame' \in {blame, blame \cup {"busy"}}
  /\ UNCHANGED <<at, path, attempt, loop, world, tools, rounds, plans, reflects, record, text, slips>>

\* No time, no budget, no tier or no text: partial text is returned, or what the
\* tools gave, or an apology.
Salvage ==
  /\ at \in {"synth", "resynth"} /\ Return
  /\ author' = loop.wrote
  /\ credited' = IF loop.wrote # NoTier THEN loop.wrote
                 ELSE IF loop.results # {} /\ loop.by # NoTier THEN loop.by ELSE credited
  /\ UNCHANGED <<path, attempt, world, charged, record, blame, slips>>

\* Seeded fault: a critique that finds the budget spent ends the turn.
FaultyReflect ==
  /\ at = "reflect" /\ (reflects >= MaxReflect \/ llm >= MaxLlm)
  /\ Goto("failed")
  /\ UNCHANGED <<path, attempt, loop, world, charged, record, blame, text, slips>>

\* One critique, by a cheap tier or this attempt's, may rewrite the draft: only
\* then is its writer credited.  Whatever goes wrong keeps the draft.
Reflect ==
  /\ at = "reflect" /\ Goto("verify")
  /\ reflects' = IF reflects < MaxReflect THEN reflects + 1 ELSE reflects
  /\ \/ UNCHANGED <<llm, text>>
     \/ /\ ~gone /\ reflects < MaxReflect /\ Ask
        /\ \/ \E w \in Tier : credited' = w /\ author' = w
           \/ UNCHANGED text
  /\ UNCHANGED <<path, attempt, loop, world, tools, rounds, plans, record, blame, slips>>

\* A draft that would be criticised is dropped when the client has left.
ReflectCancelled ==
  /\ at = "reflect" /\ gone /\ Goto("cancelled")
  /\ UNCHANGED <<path, attempt, loop, world, charged, record, blame, text, slips>>

\* Links that no search returned are looked at once more, and the turn is over.
Verify ==
  /\ at = "verify" /\ Goto("answered")
  /\ Ask \/ UNCHANGED llm
  /\ UNCHANGED <<path, attempt, loop, world, tools, rounds, plans, reflects, record, blame, text, slips>>

----------------------------------------------------------------------------
\* The deadline passes; the client closes the stream.
Expire == ~late /\ late' = TRUE /\ at \notin End
          /\ UNCHANGED <<at, path, attempt, loop, gone, charged, record, blame, text, slips>>
Leave == ~gone /\ gone' = TRUE /\ at \notin End
         /\ UNCHANGED <<at, path, attempt, loop, late, charged, record, blame, text, slips>>

Step ==
  \/ AskInVain \/ Remember \/ TurnAway \/ Classify \/ Summarize \/ Spent \/ AnswerDirect \/ NextTable
  \/ CountPlan \/ Plan \/ Execute \/ PlanFails
  \/ ForcedSearch \/ Stop \/ OutOfRounds \/ NoLiveTier
  \/ CallSpent \/ CallFails \/ CallAnswers \/ RunTools \/ CutTools
  \/ \E batch \in SUBSET Tool : CallTools(batch)
  \/ GiveUp \/ Synthesize \/ SynthWrites \/ SynthFails \/ Salvage
  \/ Reflect \/ ReflectCancelled \/ Verify
  \/ \E t \in Tier : Attempt(t) \/ PassOver(t) \/ SkipRound(t) \/ StartRound(t) \/ ResynthWrites(t) \/ ResynthFails(t)

Next == Step \/ Expire \/ Leave

Spec == Init /\ [][Next]_vars

\* The request's thread runs: every call and every tool comes back in bounded time.
FairSpec == Spec /\ WF_vars(Step)

----------------------------------------------------------------------------
(* Properties *)

\* Every variable keeps its type, and no limit of the budget is passed, however
\* loops, plans, critiques and fallbacks are nested.
TypeOK ==
  /\ at \in End \cup {"memory", "classify", "summarize", "simple", "attempt", "count", "plan", "replan",
                      "search", "round", "call", "tools", "after", "synth", "resynth", "reflect", "verify"}
  /\ deep \in BOOLEAN /\ planned \in BOOLEAN /\ force \in BOOLEAN
  /\ hatches \in 0..1 /\ left \subseteq Tier /\ tier \in Tier \cup {NoTier}
  /\ dead \subseteq Tier /\ pinned \in BOOLEAN /\ guarded \in BOOLEAN
  /\ loop \in [used : 0..LoopRounds, results : SUBSET Tool, by : Tier \cup {NoTier},
               wrote : Tier \cup {NoTier}, last : Tier \cup {NoTier},
               key : {<< >>} \cup (Tier \X SUBSET Tool), batch : SUBSET Tool, error : BOOLEAN]
  /\ late \in BOOLEAN /\ gone \in BOOLEAN
  /\ llm \in 0..MaxLlm /\ tools \in 0..MaxTools /\ rounds \in 0..MaxRounds
  /\ plans \in 0..MaxPlan /\ reflects \in 0..MaxReflect
  /\ ran \subseteq Tool /\ noted \subseteq Tool
  /\ blame \subseteq {"budget", "cancel", "busy", "stranger"}
  /\ credited \in Tier \cup {NoTier} /\ author \in Tier \cup {NoTier}
  /\ slips \subseteq {"cut", "unverified", "swapped"}

\* A budget that runs out and a client that leaves are not a tier's failure: both
\* exceptions promise that they "never mark tiers failed" (budget.py).
OurLimitsBlameNoTier == blame \cap {"budget", "cancel"} = {}

\* It is so in every turn that does not plan.
OurLimitsBlameNoTierUnlessPlanned == planned \/ OurLimitsBlameNoTier

\* Once a poll has seen that the client has left, no model is called and no tool
\* runs any more: not by a second loop, by a synthesis or by another tier.
NothingForTheGone ==
  [][(at = "cancelled" \/ "cancel" \in blame) => UNCHANGED <<llm, tools, ran>>]_vars

\* Every tool that has run is on record when the turn is over, though its loop was
\* abandoned, unless the budget cut its batch short.
ProvenanceCompleteUnlessCut == at \in End => ran \subseteq noted \/ "cut" \in slips

\* An answer written by a model is credited to the tier that wrote it, unless the
\* synthesis was left to a tier other than the one that answered last.
CreditTruthfulUnlessSwapped ==
  at = "answered" /\ author # NoTier => credited = author \/ "swapped" \in slips

\* Once there is a draft the turn does not fail for want of budget, unless that
\* happens in the check of its links.
DraftKeptUnlessUnverified ==
  [][(at \in {"reflect", "verify"} /\ at' = "failed") => ("unverified" \in slips')]_vars

\* Every turn ends.
TurnEnds == []<>(at = "memory" \/ at \in End)
=============================================================================

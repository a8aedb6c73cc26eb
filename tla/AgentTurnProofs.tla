-------------------------- MODULE AgentTurnProofs --------------------------
(* Theorems about the agent's turn, for every set of tiers and tools and      *)
(* every limit, and about the workspace its tools share, for any number of    *)
(* calls.                                                                     *)
EXTENDS AgentTurn, Workspace, FiniteSetTheorems, TLAPS

USE TierAssumption, LimitAssumption

----------------------------------------------------------------------------
(* Types *)

Where == End \cup {"memory", "classify", "summarize", "simple", "attempt", "count", "plan", "replan",
                   "search", "round", "call", "tools", "after", "synth", "resynth", "reflect", "verify"}

Loop == [used : 0..LoopRounds, results : SUBSET Tool, by : Tier \cup {NoTier},
         wrote : Tier \cup {NoTier}, last : Tier \cup {NoTier},
         key : {<< >>} \cup (Tier \X SUBSET Tool), batch : SUBSET Tool, error : BOOLEAN]

\* The variables' types by group, as the actions change them.
PathType == deep \in BOOLEAN /\ planned \in BOOLEAN /\ force \in BOOLEAN
AttemptType == /\ hatches \in 0..1 /\ left \subseteq Tier /\ tier \in Tier \cup {NoTier}
               /\ dead \subseteq Tier /\ pinned \in BOOLEAN /\ guarded \in BOOLEAN
LoopType == loop \in Loop
WorldType == late \in BOOLEAN /\ gone \in BOOLEAN
ChargedType == /\ llm \in 0..MaxLlm /\ tools \in 0..MaxTools /\ rounds \in 0..MaxRounds
               /\ plans \in 0..MaxPlan /\ reflects \in 0..MaxReflect
RecordType == ran \subseteq Tool /\ noted \subseteq Tool
BlameType == blame \subseteq {"budget", "cancel", "busy", "stranger"}
TextType == credited \in Tier \cup {NoTier} /\ author \in Tier \cup {NoTier}
SlipsType == slips \subseteq {"cut", "unverified", "swapped"}

Types == /\ at \in Where /\ PathType /\ AttemptType /\ LoopType /\ WorldType
         /\ ChargedType /\ RecordType /\ BlameType /\ TextType /\ SlipsType

LEMMA TypesAreTypeOK == Types <=> TypeOK
BY DEF Types, TypeOK, Where, Loop, PathType, AttemptType, LoopType, WorldType, ChargedType,
   RecordType, BlameType, TextType, SlipsType

\* A loop is begun with nothing done in it.
LEMMA FreshType == ASSUME NEW t \in Tier \cup {NoTier} PROVE Fresh(t) \in Loop
BY DEF Fresh, Loop

\* A call that is allowed leaves the count within its limit.
LEMMA AskType == ASSUME ChargedType, Ask PROVE llm' \in 0..MaxLlm
BY DEF ChargedType, Ask

\* Tools are few enough to be counted, however many a call names.
LEMMA CountType ==
  ASSUME NEW S \in SUBSET Tool PROVE IsFiniteSet(S) /\ Cardinality(S) \in Nat
BY ToolAssumption, FS_Subset, FS_CardinalityType

\* In an attempt a tier is at work, and one was last asked: what a loop notes of
\* it would otherwise not have its type.  A call is made for a round that is left.
Trying == {"count", "plan", "replan", "search", "round", "call", "tools", "after", "synth", "resynth"}
Placed ==
  /\ at \in Trying => tier \in Tier /\ loop.last \in Tier
  /\ at = "call" => loop.used < LoopRounds

Causes == {"budget", "cancel", "busy", "provider", "error"}

\* What an exception leaves behind.
LEMMA RaiseType ==
  ASSUME Types, Placed, at \in Trying, NEW cause \in Causes, Raise(cause),
         UNCHANGED <<path, hatches, left, tier, pinned, world, charged, record, text, slips>>
  PROVE  Types' /\ Placed'
<1>0. tier \in Tier /\ dead \subseteq Tier /\ guarded \in BOOLEAN /\ blame \subseteq {"budget", "cancel", "busy", "stranger"}
  BY DEF Placed, Types, AttemptType, BlameType
<1>1. Fresh(tier) \in Loop /\ Fresh(NoTier) \in Loop /\ Fresh(tier).last = tier
  BY <1>0, FreshType DEF Fresh
<1>2. at' \in Where
  BY DEF Raise, Goto, Where, End
<1>3. LoopType'
  BY <1>1 DEF Raise, LoopType
<1>4. guarded' \in BOOLEAN /\ dead' \subseteq Tier
  BY <1>0 DEF Raise
<1>5. BlameType'
  BY <1>0 DEF Raise, BlameType, Causes, Own
<1>6. AttemptType'
  BY <1>4 DEF Types, AttemptType
<1>7. Types'
  BY <1>2, <1>3, <1>5, <1>6 DEF Types, path, world, charged, record, text, PathType, WorldType,
     ChargedType, RecordType, TextType, SlipsType
<1>8. Placed'
  BY <1>0, <1>1 DEF Placed, Raise, Goto, Trying
<1>9. QED BY <1>7, <1>8

LEMMA InitTypes == Init => Types /\ Placed
<1> SUFFICES ASSUME Init PROVE Types /\ Placed
  OBVIOUS
<1>1. LoopType
  BY FreshType DEF Init, LoopType
<1>2. Placed
  BY DEF Init, Placed, Trying
<1>3. hatches \in 0..1
  BY DEF Init
<1>4. PathType /\ AttemptType
  BY <1>3 DEF Init, PathType, AttemptType
<1>5. ChargedType
  BY DEF Init, ChargedType
<1>6. QED BY <1>1, <1>2, <1>4, <1>5 DEF Init, Types, Where, WorldType, RecordType, BlameType, TextType,
          SlipsType

\* An attempt begins.
LEMMA AttemptTypes == ASSUME Types, NEW t \in Tier, Attempt(t) PROVE Types' /\ Placed'
<1>1. Fresh(t) \in Loop /\ Fresh(t).last = t
  BY FreshType DEF Fresh
<1>2. LoopType' /\ AttemptType'
  BY <1>1 DEF Attempt, Types, LoopType, AttemptType
<1>3. Types'
  BY <1>2 DEF Attempt, Goto, Types, Where, path, world, charged, record, text, PathType, WorldType,
     ChargedType, RecordType, BlameType, TextType, SlipsType
<1>4. Placed'
  BY <1>1 DEF Attempt, Goto, Placed
<1>5. QED BY <1>3, <1>4

\* Steps outside the loop, and those that leave its variables alone.
LEMMA CalmTypes ==
  ASSUME Types, Placed,
         \/ AskInVain \/ Remember \/ TurnAway \/ Classify \/ Summarize \/ Spent \/ AnswerDirect
         \/ NextTable \/ CountPlan \/ Plan \/ Execute \/ OutOfRounds \/ Synthesize
         \/ SynthFails \/ Reflect \/ ReflectCancelled \/ Verify \/ Expire \/ Leave
         \/ \E t \in Tier : PassOver(t) \/ SkipRound(t) \/ ResynthFails(t)
  PROVE  Types' /\ Placed'
<1> USE DEF Goto, Types, Where, End, path, attempt, world, charged, record, text, PathType,
        AttemptType, WorldType, ChargedType, RecordType, BlameType, TextType, SlipsType, LoopType,
        Placed, Trying
<1>1. CASE AskInVain
  BY <1>1 DEF AskInVain, Ask
<1>2. CASE Remember \/ TurnAway
  BY <1>2 DEF Remember, TurnAway
<1>3. CASE Execute \/ OutOfRounds \/ Synthesize
  BY <1>3 DEF Execute, OutOfRounds, Synthesize
<1>4. CASE ReflectCancelled
  BY <1>4 DEF ReflectCancelled
<1>5. CASE Classify
  <2>1. llm' \in 0..MaxLlm
    BY <1>5 DEF Classify, Ask
  <2>2. planned' \in BOOLEAN
    BY <1>5, Zenon DEF Classify
  <2>3. QED BY <1>5, <2>1, <2>2 DEF Classify
<1>6. CASE Summarize \/ Plan \/ Verify
  <2>1. llm' \in 0..MaxLlm
    BY <1>6 DEF Summarize, Plan, Verify, Ask
  <2>2. CASE Summarize
    BY <2>1, <2>2 DEF Summarize
  <2>3. CASE Plan
    BY <2>1, <2>3 DEF Plan
  <2>4. CASE Verify
    BY <2>1, <2>4 DEF Verify
  <2>5. QED BY <1>6, <2>2, <2>3, <2>4
<1>7. CASE Spent
  BY <1>7 DEF Spent
<1>8. CASE AnswerDirect
  BY <1>8 DEF AnswerDirect, Ask
<1>9. CASE NextTable
  BY <1>9 DEF NextTable
<1>10. CASE CountPlan
  <2>1. plans' \in 0..MaxPlan
    BY <1>10 DEF CountPlan
  <2>2. guarded' \in BOOLEAN
    BY <1>10, Zenon DEF CountPlan
  <2>3. at' \in Where /\ (at' \in Trying => at \in Trying)
    BY <1>10 DEF CountPlan
  <2>4. QED BY <1>10, <2>1, <2>2, <2>3 DEF CountPlan
<1>11. CASE SynthFails
  <2>1. llm' \in 0..MaxLlm
    BY <1>11 DEF SynthFails, Ask
  <2>2. blame' \subseteq {"budget", "cancel", "busy", "stranger"}
    BY <1>11 DEF SynthFails
  <2>3. QED BY <1>11, <2>1, <2>2 DEF SynthFails
<1>12. CASE Reflect
  BY <1>12 DEF Reflect, Ask
<1>13. CASE Expire
  BY <1>13 DEF Expire
<1>14. CASE Leave
  BY <1>14 DEF Leave
<1>15. ASSUME NEW t \in Tier, PassOver(t) PROVE Types' /\ Placed'
  BY <1>15 DEF PassOver
<1>16. ASSUME NEW t \in Tier, SkipRound(t) PROVE Types' /\ Placed'
  <2>1. rounds' \in 0..MaxRounds
    BY <1>16 DEF SkipRound, MayRound
  <2>2. pinned' \in BOOLEAN /\ at' = at /\ loop' = loop /\ tier' = tier
    BY <1>16 DEF SkipRound
  <2>3. QED BY <1>16, <2>1, <2>2 DEF SkipRound
<1>17. ASSUME NEW t \in Tier, ResynthFails(t) PROVE Types' /\ Placed'
  BY <1>17 DEF ResynthFails, Ask
<1>18. QED BY <1>1, <1>2, <1>3, <1>4, <1>5, <1>6, <1>7, <1>8, <1>9, <1>10, <1>11, <1>12, <1>13, <1>14,
            <1>15, <1>16, <1>17

\* An exception leaves the loop: the steps that raise one.
LEMMA RaisingTypes ==
  ASSUME Types, Placed, PlanFails \/ Stop \/ CallSpent \/ GiveUp
  PROVE  Types' /\ Placed'
<1>1. /\ at \in Trying
      /\ UNCHANGED <<path, hatches, left, tier, pinned, world, charged, record, text, slips>>
  BY DEF PlanFails, Stop, CallSpent, GiveUp, Trying
<1>2. \E cause \in Causes : Raise(cause)
  BY DEF PlanFails, Stop, CallSpent, GiveUp, Causes
<1>3. QED BY <1>1, <1>2, RaiseType

\* Steps that end the loop, or change what it remembers.
LEMMA LoopTypes ==
  ASSUME Types, Placed,
         \/ ForcedSearch \/ NoLiveTier \/ CallFails \/ CallAnswers \/ RunTools \/ CutTools
         \/ SynthWrites \/ Salvage
         \/ \E batch \in SUBSET Tool : CallTools(batch)
         \/ \E t \in Tier : StartRound(t) \/ ResynthWrites(t)
  PROVE  Types' /\ Placed'
<1> USE DEF Goto, Types, Where, path, attempt, world, charged, record, text, PathType,
        AttemptType, WorldType, ChargedType, RecordType, BlameType, TextType, SlipsType, LoopType,
        Placed, Trying
<1>0. Fresh(NoTier) \in Loop /\ loop \in Loop
  BY FreshType
<1>1. CASE ForcedSearch
  <2>1. tools' \in 0..MaxTools
    BY <1>1 DEF ForcedSearch
  <2>2. ran' \subseteq Tool /\ noted' \subseteq Tool
    BY <1>1 DEF ForcedSearch, Tool
  <2>3. QED BY <1>1, <2>1, <2>2 DEF ForcedSearch
<1>2. CASE NoLiveTier
  <2>1. loop' \in Loop /\ loop'.last = loop.last
    BY <1>0, <1>2 DEF NoLiveTier, Loop
  <2>2. rounds' \in 0..MaxRounds
    BY <1>2 DEF NoLiveTier, MayRound
  <2>3. pinned' \in BOOLEAN /\ dead' \subseteq Tier
    BY <1>2 DEF NoLiveTier
  <2>4. tier \in Tier /\ loop.last \in Tier
    BY <1>2 DEF NoLiveTier, MayRound
  <2>5. QED BY <1>2, <2>1, <2>2, <2>3, <2>4 DEF NoLiveTier
<1>3. CASE CallFails
  <2>1. loop.last \in Tier /\ tier \in Tier
    BY <1>3 DEF CallFails
  <2>2. loop' \in Loop /\ loop'.last = loop.last
    <3>1. PICK w \in {loop.wrote, loop.last} :
            loop' \in {loop, [loop EXCEPT !.by = loop.last, !.key = << >>, !.wrote = w]}
      BY <1>3 DEF CallFails
    <3>2. w \in Tier \cup {NoTier}
      BY <1>0, <2>1 DEF Loop
    <3>3. QED BY <1>0, <2>1, <3>1, <3>2 DEF Loop
  <2>3. llm' \in 0..MaxLlm
    BY <1>3 DEF CallFails, Ask
  <2>4. blame' \subseteq {"budget", "cancel", "busy", "stranger"}
    BY <1>3 DEF CallFails
  <2>5. QED BY <1>3, <2>1, <2>2, <2>3, <2>4 DEF CallFails
<1>4. CASE CallAnswers
  <2>1. llm' \in 0..MaxLlm
    BY <1>4 DEF CallAnswers, Ask
  <2>2. QED BY <1>0, <1>4, <2>1 DEF CallAnswers, Return, Loop
<1>5. CASE RunTools
  <2>1. loop.batch \in SUBSET Tool
    BY <1>0 DEF Loop
  <2>2. loop' \in Loop /\ loop'.last = loop.last
    BY <1>0, <1>5, <2>1 DEF RunTools, Loop
  <2>3. tools' \in 0..MaxTools
    BY <1>5, <2>1, CountType DEF RunTools
  <2>4. ran' \subseteq Tool /\ noted' \subseteq Tool
    BY <1>5, <2>1 DEF RunTools
  <2>5. QED BY <1>5, <2>2, <2>3, <2>4 DEF RunTools
<1>6. CASE CutTools
  <2>1. PICK some \in SUBSET loop.batch :
          /\ tools + Cardinality(some) <= MaxTools \/ tools + Cardinality(some) = MaxTools
          /\ tools' = tools + Cardinality(some) /\ ran' = ran \cup some
    BY <1>6 DEF CutTools, Stopped
  <2>2. some \in SUBSET Tool
    BY <1>0 DEF Loop
  <2>3. loop' \in Loop /\ loop'.last = loop.last
    BY <1>0, <1>6 DEF CutTools, Loop
  <2>4. tools' \in 0..MaxTools
    BY <2>1, <2>2, CountType
  <2>5. ran' \subseteq Tool
    BY <2>1, <2>2
  <2>6. slips' \subseteq {"cut", "unverified", "swapped"}
    BY <1>6 DEF CutTools
  <2>7. QED BY <1>6, <2>3, <2>4, <2>5, <2>6 DEF CutTools
<1>7. CASE SynthWrites
  <2>1. llm' \in 0..MaxLlm
    BY <1>7 DEF SynthWrites, Ask
  <2>2. credited' \in Tier \cup {NoTier} /\ author' \in Tier \cup {NoTier}
    BY <1>0, <1>7 DEF SynthWrites, Loop
  <2>3. slips' \subseteq {"cut", "unverified", "swapped"}
    BY <1>7 DEF SynthWrites
  <2>4. QED BY <1>0, <1>7, <2>1, <2>2, <2>3 DEF SynthWrites, Return
<1>8. CASE Salvage
  <2>1. credited' \in Tier \cup {NoTier} /\ author' \in Tier \cup {NoTier}
    BY <1>0, <1>8 DEF Salvage, Loop
  <2>2. QED BY <1>0, <1>8, <2>1 DEF Salvage, Return
<1>9. ASSUME NEW batch \in SUBSET Tool, CallTools(batch) PROVE Types' /\ Placed'
  <2>1. at = "call" /\ Ask
    BY <1>9 DEF CallTools
  <2>2. loop.last \in Tier /\ tier \in Tier /\ loop.used + 1 \in 0..LoopRounds
    BY <1>0, <2>1 DEF Loop
  <2>3. PICK w \in {NoTier, loop.wrote, loop.last} :
          loop' = [loop EXCEPT !.used = @ + 1, !.by = loop.last, !.wrote = w,
                               !.key = <<loop.last, batch>>,
                               !.batch = IF loop.key = <<loop.last, batch>> THEN {} ELSE batch]
    BY <1>9 DEF CallTools
  <2>4. w \in Tier \cup {NoTier} /\ <<loop.last, batch>> \in Tier \X SUBSET Tool
    BY <1>0, <2>2 DEF Loop
  <2>5. loop' \in Loop /\ loop'.last = loop.last
    BY <1>0, <2>2, <2>3, <2>4 DEF Loop
  <2>6. llm' \in 0..MaxLlm
    BY <2>1 DEF Ask
  <2>7. at' \in {"after", "tools"}
    BY <1>9 DEF CallTools
  <2>8. UNCHANGED <<path, attempt, world, tools, rounds, plans, reflects, record, blame, text, slips>>
    BY <1>9 DEF CallTools
  <2>9. QED BY <2>2, <2>5, <2>6, <2>7, <2>8
<1>10. ASSUME NEW t \in Tier, StartRound(t) PROVE Types' /\ Placed'
  <2>1. loop' \in Loop /\ loop'.last = t /\ loop'.used < LoopRounds
    BY <1>0, <1>10 DEF StartRound, MayRound, Loop
  <2>2. rounds' \in 0..MaxRounds
    BY <1>10 DEF StartRound, MayRound
  <2>3. pinned' \in BOOLEAN /\ tier \in Tier
    BY <1>10 DEF StartRound, MayRound
  <2>4. QED BY <1>10, <2>1, <2>2, <2>3 DEF StartRound
<1>11. ASSUME NEW t \in Tier, ResynthWrites(t) PROVE Types' /\ Placed'
  <2>1. llm' \in 0..MaxLlm
    BY <1>11 DEF ResynthWrites, Ask
  <2>2. QED BY <1>0, <1>11, <2>1 DEF ResynthWrites, Return
<1>12. QED BY <1>1, <1>2, <1>3, <1>4, <1>5, <1>6, <1>7, <1>8, <1>9, <1>10, <1>11

LEMMA NextTypes == ASSUME Types, Placed, [Next]_vars PROVE Types' /\ Placed'
<1>1. CASE UNCHANGED vars
  BY <1>1 DEF vars, Types, Placed, path, attempt, world, charged, record, text, PathType,
     AttemptType, WorldType, ChargedType, RecordType, BlameType, TextType, SlipsType, LoopType
<1>2. CASE Next
  BY <1>2, CalmTypes, RaisingTypes, LoopTypes, AttemptTypes DEF Next, Step
<1>3. QED BY <1>1, <1>2

\* Every variable keeps its type, and no limit of the budget is passed, whatever
\* loops, plans and fallbacks are nested.
THEOREM TypeCorrect == Spec => []TypeOK
<1>1. Types /\ Placed /\ [Next]_vars => (Types /\ Placed)'
  BY NextTypes
<1>2. Types /\ Placed => TypeOK
  BY TypesAreTypeOK
<1>3. QED BY InitTypes, <1>1, <1>2, PTL DEF Spec

----------------------------------------------------------------------------
(* Our own limits *)

\* Only a plan guards its loop, planning is decided before anything is blamed, and
\* a turn that does not plan blames no tier for the budget or the client.
Blameless ==
  /\ at \in {"memory", "classify"} => ~planned
  /\ guarded \/ at \in {"count", "plan", "replan"} => planned
  /\ OurLimitsBlameNoTierUnlessPlanned

LEMMA NextBlameless == ASSUME Blameless, [Next]_vars PROVE Blameless'
<1> USE DEF Blameless, OurLimitsBlameNoTierUnlessPlanned, OurLimitsBlameNoTier, Goto, path, attempt
<1>1. CASE \/ AskInVain \/ Remember \/ TurnAway \/ Summarize \/ Spent \/ AnswerDirect \/ NextTable
  BY <1>1 DEF AskInVain, Remember, TurnAway, Summarize, Spent, AnswerDirect, NextTable
<1>2. CASE Classify
  BY <1>2 DEF Classify
<1>3. CASE CountPlan \/ Plan \/ Execute
  BY <1>3 DEF CountPlan, Plan, Execute
<1>4. CASE PlanFails \/ Stop \/ CallSpent \/ GiveUp
  <2>1. PICK cause \in Causes : Raise(cause)
    BY <1>4 DEF PlanFails, Stop, CallSpent, GiveUp, Causes
  <2>2. planned' = planned
    BY <1>4 DEF PlanFails, Stop, CallSpent, GiveUp
  <2>3. CASE guarded
    BY <2>1, <2>2, <2>3 DEF Raise
  <2>4. CASE ~guarded
    BY <2>1, <2>2, <2>4 DEF Raise
  <2>5. QED BY <2>3, <2>4
<1>5. CASE ForcedSearch \/ OutOfRounds \/ NoLiveTier
  BY <1>5 DEF ForcedSearch, OutOfRounds, NoLiveTier
<1>6. CASE CallFails \/ SynthFails
  BY <1>6 DEF CallFails, SynthFails
<1>7. CASE CallAnswers \/ RunTools \/ CutTools
  BY <1>7 DEF CallAnswers, RunTools, CutTools, Return
<1>8. CASE Synthesize \/ SynthWrites \/ Salvage
  BY <1>8 DEF Synthesize, SynthWrites, Salvage, Return
<1>9. CASE Reflect \/ ReflectCancelled \/ Verify
  BY <1>9 DEF Reflect, ReflectCancelled, Verify
<1>10. CASE Expire \/ Leave
  BY <1>10 DEF Expire, Leave
<1>11. ASSUME NEW batch \in SUBSET Tool, CallTools(batch) PROVE Blameless'
  BY <1>11 DEF CallTools
<1>12. ASSUME NEW t \in Tier, Attempt(t) PROVE Blameless'
  BY <1>12 DEF Attempt
<1>13. ASSUME NEW t \in Tier, PassOver(t) \/ SkipRound(t) \/ StartRound(t) PROVE Blameless'
  BY <1>13 DEF PassOver, SkipRound, StartRound
<1>14. ASSUME NEW t \in Tier, ResynthWrites(t) \/ ResynthFails(t) PROVE Blameless'
  BY <1>14 DEF ResynthWrites, ResynthFails, Return
<1>15. CASE UNCHANGED vars
  BY <1>15 DEF vars
<1>16. QED BY <1>1, <1>2, <1>3, <1>4, <1>5, <1>6, <1>7, <1>8, <1>9, <1>10, <1>11, <1>12, <1>13, <1>14,
            <1>15 DEF Next, Step

\* A turn that does not plan marks no tier as failed because the budget ran out or
\* the client left (the except clauses of the loop and the cascade re-raise both).
THEOREM BlamelessTheorem == Spec => []OurLimitsBlameNoTierUnlessPlanned
<1>1. Init => Blameless
  BY DEF Init, Blameless, OurLimitsBlameNoTierUnlessPlanned, OurLimitsBlameNoTier
<1>2. Blameless /\ [Next]_vars => Blameless'
  BY NextBlameless
<1>3. Blameless => OurLimitsBlameNoTierUnlessPlanned
  BY DEF Blameless
<1>4. QED BY <1>1, <1>2, <1>3, PTL DEF Spec

----------------------------------------------------------------------------
(* The client that has left *)

\* A tier is blamed for a client's departure only on the way back to the loop,
\* whose next poll sees it again.
Departing == "cancel" \in blame => gone /\ at \in {"round", "after"} \cup End

LEMMA NextDeparting == ASSUME Departing, [Next]_vars PROVE Departing'
<1> USE DEF Departing, Goto, End, world
<1>1. CASE \/ AskInVain \/ Remember \/ TurnAway \/ Classify \/ Summarize \/ Spent \/ AnswerDirect
           \/ NextTable \/ CountPlan \/ Plan \/ Execute \/ ForcedSearch
  BY <1>1 DEF AskInVain, Remember, TurnAway, Classify, Summarize, Spent, AnswerDirect, NextTable,
     CountPlan, Plan, Execute, ForcedSearch
<1>2. CASE PlanFails \/ CallSpent
  BY <1>2 DEF PlanFails, CallSpent, Raise, Own
<1>3. CASE Stop \/ GiveUp
  BY <1>3 DEF Stop, GiveUp, Raise, Own
<1>4. CASE OutOfRounds \/ Synthesize
  BY <1>4 DEF OutOfRounds, Synthesize
<1>5. CASE NoLiveTier
  BY <1>5 DEF NoLiveTier, MayRound
<1>6. CASE CallFails \/ SynthFails
  BY <1>6 DEF CallFails, SynthFails
<1>7. CASE CallAnswers \/ RunTools \/ CutTools \/ SynthWrites \/ Salvage
  BY <1>7 DEF CallAnswers, RunTools, CutTools, SynthWrites, Salvage, Return
<1>8. CASE Reflect \/ ReflectCancelled \/ Verify
  BY <1>8 DEF Reflect, ReflectCancelled, Verify
<1>9. CASE Expire \/ Leave
  BY <1>9 DEF Expire, Leave
<1>10. ASSUME NEW batch \in SUBSET Tool, CallTools(batch) PROVE Departing'
  BY <1>10 DEF CallTools
<1>11. ASSUME NEW t \in Tier, Attempt(t) \/ PassOver(t) PROVE Departing'
  BY <1>11 DEF Attempt, PassOver
<1>12. ASSUME NEW t \in Tier, SkipRound(t) \/ StartRound(t) PROVE Departing'
  BY <1>12 DEF SkipRound, StartRound, MayRound
<1>13. ASSUME NEW t \in Tier, ResynthWrites(t) \/ ResynthFails(t) PROVE Departing'
  BY <1>13 DEF ResynthWrites, ResynthFails, Return
<1>14. CASE UNCHANGED vars
  BY <1>14 DEF vars
<1>15. QED BY <1>1, <1>2, <1>3, <1>4, <1>5, <1>6, <1>7, <1>8, <1>9, <1>10, <1>11, <1>12, <1>13, <1>14
           DEF Next, Step

\* From such a state only the steps that end the loop or the turn can be taken.
LEMMA NoWorkStep ==
  ASSUME Departing, [Next]_vars, at = "cancelled" \/ "cancel" \in blame
  PROVE  UNCHANGED <<llm, tools, ran>>
<1> USE DEF Departing, End, charged, record
<1>1. CASE \/ AskInVain \/ Remember \/ TurnAway \/ Classify \/ Summarize \/ Spent \/ AnswerDirect
           \/ NextTable \/ CountPlan \/ Plan \/ Execute \/ PlanFails \/ ForcedSearch
  BY <1>1 DEF AskInVain, Remember, TurnAway, Classify, Summarize, Spent, AnswerDirect, NextTable,
     CountPlan, Plan, Execute, PlanFails, ForcedSearch
<1>2. CASE Stop \/ OutOfRounds \/ GiveUp \/ Synthesize \/ CallSpent
  BY <1>2 DEF Stop, OutOfRounds, GiveUp, Synthesize, CallSpent
<1>3. CASE NoLiveTier
  BY <1>3 DEF NoLiveTier, MayRound
<1>4. CASE CallFails \/ CallAnswers \/ RunTools \/ CutTools
  BY <1>4 DEF CallFails, CallAnswers, RunTools, CutTools
<1>5. CASE SynthWrites \/ SynthFails \/ Salvage \/ Reflect \/ ReflectCancelled \/ Verify
  BY <1>5 DEF SynthWrites, SynthFails, Salvage, Reflect, ReflectCancelled, Verify
<1>6. CASE Expire \/ Leave \/ UNCHANGED vars
  BY <1>6 DEF Expire, Leave, vars
<1>7. ASSUME NEW batch \in SUBSET Tool, CallTools(batch) PROVE UNCHANGED <<llm, tools, ran>>
  BY <1>7 DEF CallTools
<1>8. ASSUME NEW t \in Tier, Attempt(t) \/ PassOver(t) \/ ResynthWrites(t) \/ ResynthFails(t)
      PROVE UNCHANGED <<llm, tools, ran>>
  BY <1>8 DEF Attempt, PassOver, ResynthWrites, ResynthFails
<1>9. ASSUME NEW t \in Tier, SkipRound(t) \/ StartRound(t) PROVE UNCHANGED <<llm, tools, ran>>
  BY <1>9 DEF SkipRound, StartRound, MayRound
<1>10. QED BY <1>1, <1>2, <1>3, <1>4, <1>5, <1>6, <1>7, <1>8, <1>9 DEF Next, Step

\* No model is called and no tool runs for a client that a poll has found gone: not
\* even in the loop that plan_then_execute runs after it took that for a failure.
THEOREM NothingForTheGoneTheorem == Spec => NothingForTheGone
<1>1. Init => Departing
  BY DEF Init, Departing
<1>2. Departing /\ [Next]_vars => Departing'
  BY NextDeparting
<1>3. Departing /\ [Next]_vars
      => [(at = "cancelled" \/ "cancel" \in blame) => UNCHANGED <<llm, tools, ran>>]_vars
  BY NoWorkStep
<1>4. QED BY <1>1, <1>2, <1>3, PTL DEF Spec, NothingForTheGone

----------------------------------------------------------------------------
(* What is said of the turn afterwards *)

\* What has run is noted in the same step, unless the batch is cut.
Noted == ran \subseteq noted \/ "cut" \in slips

LEMMA NextNoted == ASSUME Noted, [Next]_vars PROVE Noted'
<1> USE DEF Noted, record
<1>1. CASE ForcedSearch \/ RunTools
  BY <1>1 DEF ForcedSearch, RunTools
<1>2. CASE CutTools
  <2>1. PICK some \in SUBSET loop.batch :
          /\ ran' = ran \cup some /\ noted' = noted
          /\ slips' = IF some \subseteq noted THEN slips ELSE slips \cup {"cut"}
    BY <1>2 DEF CutTools, Stopped
  <2>2. QED BY <2>1
<1>3. CASE Spent \/ SynthWrites
  BY <1>3 DEF Spent, SynthWrites
<1>4. CASE \/ AskInVain \/ Remember \/ TurnAway \/ Classify \/ Summarize \/ AnswerDirect
           \/ NextTable \/ CountPlan \/ Plan \/ Execute \/ PlanFails \/ Stop \/ OutOfRounds
           \/ NoLiveTier \/ CallSpent \/ CallFails \/ CallAnswers
  BY <1>4 DEF AskInVain, Remember, TurnAway, Classify, Summarize, AnswerDirect, NextTable,
     CountPlan, Plan, Execute, PlanFails, Stop, OutOfRounds, NoLiveTier, CallSpent, CallFails,
     CallAnswers
<1>5. CASE \/ GiveUp \/ Synthesize \/ SynthFails \/ Salvage \/ Reflect \/ ReflectCancelled \/ Verify
           \/ Expire \/ Leave \/ UNCHANGED vars
  BY <1>5 DEF GiveUp, Synthesize, SynthFails, Salvage, Reflect, ReflectCancelled, Verify, Expire,
     Leave, vars
<1>6. ASSUME NEW batch \in SUBSET Tool, CallTools(batch) PROVE Noted'
  BY <1>6 DEF CallTools
<1>7. ASSUME NEW t \in Tier,
             \/ Attempt(t) \/ PassOver(t) \/ SkipRound(t) \/ StartRound(t)
             \/ ResynthWrites(t) \/ ResynthFails(t)
      PROVE  Noted'
  BY <1>7 DEF Attempt, PassOver, SkipRound, StartRound, ResynthWrites, ResynthFails
<1>8. QED BY <1>1, <1>2, <1>3, <1>4, <1>5, <1>6, <1>7 DEF Next, Step

\* Tools of abandoned loops and attempts stay on record to the end of the turn.
THEOREM ProvenanceTheorem == Spec => []ProvenanceCompleteUnlessCut
<1>1. Init => Noted
  BY DEF Init, Noted
<1>2. Noted /\ [Next]_vars => Noted'
  BY NextNoted
<1>3. Noted => ProvenanceCompleteUnlessCut
  BY DEF Noted, ProvenanceCompleteUnlessCut
<1>4. QED BY <1>1, <1>2, <1>3, PTL DEF Spec

\* The draft is credited to its writer from its first version on.
DraftCredited ==
  at \in {"reflect", "verify", "answered"} /\ author # NoTier => credited = author \/ "swapped" \in slips

LEMMA NextDraftCredited == ASSUME DraftCredited, [Next]_vars PROVE DraftCredited'
<1> USE DEF DraftCredited, Goto, text
<1>1. CASE AnswerDirect \/ CallAnswers
  BY <1>1 DEF AnswerDirect, CallAnswers
<1>2. CASE SynthWrites \/ Salvage
  BY <1>2 DEF SynthWrites, Salvage
<1>3. CASE Reflect \/ ReflectCancelled \/ Verify \/ Spent
  BY <1>3 DEF Reflect, ReflectCancelled, Verify, Spent
<1>4. CASE \/ AskInVain \/ Remember \/ TurnAway \/ Classify \/ Summarize
           \/ NextTable \/ CountPlan \/ Plan \/ Execute
  BY <1>4 DEF AskInVain, Remember, TurnAway, Classify, Summarize, NextTable, CountPlan, Plan, Execute
<1>5. CASE PlanFails \/ Stop \/ CallSpent \/ GiveUp
  BY <1>5 DEF PlanFails, Stop, CallSpent, GiveUp, Raise
<1>6. CASE \/ ForcedSearch \/ OutOfRounds \/ NoLiveTier \/ CallFails \/ RunTools \/ CutTools
           \/ Synthesize \/ SynthFails
  BY <1>6 DEF ForcedSearch, OutOfRounds, NoLiveTier, CallFails, RunTools, CutTools, Synthesize, SynthFails
<1>7. CASE Expire \/ Leave \/ UNCHANGED vars
  BY <1>7 DEF Expire, Leave, vars
<1>8. ASSUME NEW batch \in SUBSET Tool, CallTools(batch) PROVE DraftCredited'
  BY <1>8 DEF CallTools
<1>9. ASSUME NEW t \in Tier,
             \/ Attempt(t) \/ PassOver(t) \/ SkipRound(t) \/ StartRound(t)
             \/ ResynthWrites(t) \/ ResynthFails(t)
      PROVE  DraftCredited'
  BY <1>9 DEF Attempt, PassOver, SkipRound, StartRound, MayRound, ResynthWrites, ResynthFails
<1>10. QED BY <1>1, <1>2, <1>3, <1>4, <1>5, <1>6, <1>7, <1>8, <1>9 DEF Next, Step

\* The tier that the answer is credited to wrote it, but for the swapped synthesis.
THEOREM CreditTheorem == Spec => []CreditTruthfulUnlessSwapped
<1>1. Init => DraftCredited
  BY DEF Init, DraftCredited
<1>2. DraftCredited /\ [Next]_vars => DraftCredited'
  BY NextDraftCredited
<1>3. DraftCredited => CreditTruthfulUnlessSwapped
  BY DEF DraftCredited, CreditTruthfulUnlessSwapped
<1>4. QED BY <1>1, <1>2, <1>3, PTL DEF Spec

----------------------------------------------------------------------------
(* A draft is kept *)

\* With a draft at hand only four steps of the turn are left, and the clock's and the
\* client's: a step of the loop cannot end it any more.
LEMMA DraftStep ==
  ASSUME [Next]_vars, at \in {"reflect", "verify"}, at' = "failed"
  PROVE  "unverified" \in slips'
<1> USE DEF Goto
<1>1. CASE AskInVain \/ Spent \/ Reflect \/ ReflectCancelled \/ Verify
  BY <1>1 DEF AskInVain, Spent, Reflect, ReflectCancelled, Verify
<1>2. CASE Expire \/ Leave \/ UNCHANGED vars
  BY <1>2 DEF Expire, Leave, vars
<1>3. CASE \/ Remember \/ TurnAway \/ Classify \/ Summarize \/ AnswerDirect \/ NextTable
           \/ CountPlan \/ Plan \/ Execute \/ PlanFails \/ ForcedSearch \/ Stop \/ OutOfRounds
           \/ CallSpent \/ CallFails \/ CallAnswers \/ RunTools \/ CutTools
           \/ GiveUp \/ Synthesize \/ SynthWrites \/ SynthFails \/ Salvage
  BY <1>3 DEF Remember, TurnAway, Classify, Summarize, AnswerDirect, NextTable,
     CountPlan, Plan, Execute, PlanFails, ForcedSearch, Stop, OutOfRounds,
     CallSpent, CallFails, CallAnswers, RunTools, CutTools, GiveUp, Synthesize, SynthWrites, SynthFails, Salvage
<1>4. CASE NoLiveTier
  BY <1>4 DEF NoLiveTier, MayRound
<1>5. ASSUME NEW batch \in SUBSET Tool, CallTools(batch) PROVE FALSE
  BY <1>5 DEF CallTools
<1>6. ASSUME NEW t \in Tier, Attempt(t) \/ PassOver(t) \/ ResynthWrites(t) \/ ResynthFails(t) PROVE FALSE
  BY <1>6 DEF Attempt, PassOver, ResynthWrites, ResynthFails
<1>7. ASSUME NEW t \in Tier, SkipRound(t) \/ StartRound(t) PROVE FALSE
  BY <1>7 DEF SkipRound, StartRound, MayRound
<1>8. QED BY <1>1, <1>2, <1>3, <1>4, <1>5, <1>6, <1>7 DEF Next, Step

\* A turn that has a draft does not fail over its budget, whatever the critique and the
\* check of its links find spent, unless the latter itself runs out.
THEOREM DraftKeptTheorem == Spec => DraftKeptUnlessUnverified
<1>1. [Next]_vars => [(at \in {"reflect", "verify"} /\ at' = "failed") => ("unverified" \in slips')]_vars
  BY DraftStep
<1>2. QED BY <1>1, PTL DEF Spec, DraftKeptUnlessUnverified

----------------------------------------------------------------------------
(* The workspace *)

Errands == {"nothing", "measure", "write", "replace", "delete", "compile", "run", "launch", "running"}
Job == [does : Errands, path : Sources \cup {Unused}, size : Nat, partial : BOOLEAN]
WorkspaceTypeOK ==
  /\ job \in [Jobs -> Job]
  /\ held \in [Jobs -> SUBSET Jobs] /\ executed \in [Jobs -> Jobs \cup {Unused}]
  /\ \A p \in DOMAIN tree : tree[p].text \in Jobs
  /\ \A b \in DOMAIN binaries : binaries[b] \in Jobs

\* Another compiled source goes by the same name.
Twins(j) == \E p \in Compiled : p # job[j].path /\ Binary[p] = Binary[job[j].path]
InCall == {"compile", "run", "launch", "running"}

\* Whoever runs a file has noted all the file has held since, and the binary it will
\* launch was compiled from one of those, by whomever.
Traced(j) ==
  /\ job[j].does \in InCall =>
       held[j] # {} /\ (job[j].path \in DOMAIN tree => tree[job[j].path].text \in held[j])
  /\ job[j].does \in {"compile", "launch"} => job[j].path \in Compiled
  /\ job[j].does = "launch" =>
       /\ BinaryOf(job[j].path) \in DOMAIN binaries
       /\ binaries[BinaryOf(job[j].path)] \in held[j] \/ Twins(j)
  /\ executed[j] # Unused => job[j].does = "running" /\ (executed[j] \in held[j] \/ Twins(j))

WorkspaceInv == WorkspaceTypeOK /\ \A j \in Jobs : Traced(j)

LEMMA JobType ==
  ASSUME NEW t \in Job
  PROVE  /\ t.does \in Errands /\ t.path \in Sources \cup {Unused}
         /\ \A e \in Errands : [t EXCEPT !.does = e] \in Job /\ [t EXCEPT !.does = e].does = e
                               /\ [t EXCEPT !.does = e].path = t.path
BY DEF Job

LEMMA NoJobType == NoJob \in Job /\ NoJob.does = "nothing"
BY DEF NoJob, Job, Errands

\* What one job does with itself, or with a file that is gone, leaves the others alone.
LEMMA OthersTraced ==
  ASSUME WorkspaceInv, NEW k \in Jobs, job'[k] = job[k], held'[k] = held[k], executed'[k] = executed[k],
         \A p \in DOMAIN tree' : p \in DOMAIN tree /\ tree'[p] = tree[p], UNCHANGED binaries
  PROVE  Traced(k)'
BY DEF WorkspaceInv, Traced, Twins

LEMMA IdleTraced ==
  ASSUME NEW k \in Jobs, job'[k].does \notin InCall, executed'[k] = Unused
  PROVE  Traced(k)'
BY DEF Traced, InCall

LEMMA Unlaunched ==
  ASSUME WorkspaceInv, NEW k \in Jobs, job[k].does # "running"
  PROVE  executed[k] = Unused
BY DEF WorkspaceInv, Traced

LEMMA WorkspaceInitially == WorkspaceInit => WorkspaceInv
<1> SUFFICES ASSUME WorkspaceInit PROVE WorkspaceInv
  OBVIOUS
<1>1. WorkspaceTypeOK
  BY NoJobType DEF WorkspaceInit, WorkspaceTypeOK
<1>2. ASSUME NEW j \in Jobs PROVE Traced(j)
  BY NoJobType DEF WorkspaceInit, Traced, InCall
<1>3. QED BY <1>1, <1>2 DEF WorkspaceInv

LEMMA BeginKeeps ==
  ASSUME WorkspaceInv, NEW j \in Jobs, NEW p \in Sources,
         (\E n \in Sizes : BeginWrite(j, p, n)) \/ BeginDelete(j, p) \/ BeginRun(j, p)
  PROVE  WorkspaceInv'
<1>1. WorkspaceTypeOK /\ job[j].does = "nothing"
  BY NoJobType DEF WorkspaceInv, BeginWrite, BeginDelete, BeginRun
<1>2. executed[j] = Unused
  BY <1>1, Unlaunched
<1>3. ASSUME NEW n \in Sizes, BeginWrite(j, p, n) PROVE WorkspaceInv'
  <2>1. [does |-> "measure", path |-> p, size |-> n, partial |-> FALSE] \in Job
    BY WorkspaceBounds DEF Job, Errands
  <2>2. WorkspaceTypeOK'
    BY <1>1, <1>3, <2>1 DEF WorkspaceTypeOK, BeginWrite
  <2>3. Traced(j)'
    BY <1>1, <1>2, <1>3, IdleTraced DEF WorkspaceTypeOK, BeginWrite, InCall
  <2>4. \A k \in Jobs \ {j} : Traced(k)'
    BY <1>1, <1>3, OthersTraced DEF WorkspaceTypeOK, BeginWrite
  <2>5. QED BY <2>2, <2>3, <2>4 DEF WorkspaceInv
<1>4. CASE BeginDelete(j, p)
  <2>1. [NoJob EXCEPT !.does = "delete", !.path = p] \in Job
        /\ [NoJob EXCEPT !.does = "delete", !.path = p].does = "delete"
    BY DEF NoJob, Job, Errands
  <2>2. WorkspaceTypeOK'
    BY <1>1, <1>4, <2>1 DEF WorkspaceTypeOK, BeginDelete
  <2>3. Traced(j)'
    BY <1>1, <1>2, <1>4, <2>1, IdleTraced DEF WorkspaceTypeOK, BeginDelete, InCall
  <2>4. \A k \in Jobs \ {j} : Traced(k)'
    BY <1>1, <1>4, OthersTraced DEF WorkspaceTypeOK, BeginDelete
  <2>5. QED BY <2>2, <2>3, <2>4 DEF WorkspaceInv
<1>5. CASE BeginRun(j, p)
  <2> DEFINE does == IF p \in Compiled THEN "compile" ELSE "run"
             begun == [NoJob EXCEPT !.does = does, !.path = p]
  <2>1. begun \in Job /\ begun.does = does /\ begun.path = p
    <3>1. does \in Errands
      BY DEF Errands
    <3>2. QED BY <3>1 DEF NoJob, Job
  <2>2. job' = [job EXCEPT ![j] = begun] /\ held' = [held EXCEPT ![j] = {tree[p].text}]
        /\ p \in DOMAIN tree /\ UNCHANGED <<tree, binaries, executed>>
    BY <1>5 DEF BeginRun
  <2>3. tree[p].text \in Jobs
    BY <1>1, <2>2 DEF WorkspaceTypeOK
  <2> HIDE DEF begun
  <2>4. WorkspaceTypeOK'
    BY <1>1, <2>1, <2>2, <2>3 DEF WorkspaceTypeOK
  <2>5. job'[j] = begun /\ held'[j] = {tree[p].text} /\ executed'[j] = Unused
    BY <1>1, <1>2, <2>2 DEF WorkspaceTypeOK
  <2>6. Traced(j)'
    BY <2>1, <2>2, <2>5 DEF Traced
  <2>7. \A k \in Jobs \ {j} : Traced(k)'
    BY <1>1, <2>2, OthersTraced DEF WorkspaceTypeOK
  <2>8. QED BY <2>4, <2>6, <2>7 DEF WorkspaceInv
<1>6. QED BY <1>3, <1>4, <1>5

LEMMA EndJobIdles ==
  ASSUME WorkspaceInv, NEW j \in Jobs, EndJob(j)
  PROVE  job' \in [Jobs -> Job] /\ job'[j].does = "nothing" /\ \A k \in Jobs \ {j} : job'[k] = job[k]
BY NoJobType DEF WorkspaceInv, WorkspaceTypeOK, EndJob

LEMMA MoveMoves ==
  ASSUME WorkspaceInv, NEW j \in Jobs, NEW does \in Errands, Move(j, does)
  PROVE  /\ job' \in [Jobs -> Job] /\ job'[j].does = does /\ job'[j].path = job[j].path
         /\ \A k \in Jobs \ {j} : job'[k] = job[k]
<1>1. job \in [Jobs -> Job] /\ job[j] \in Job
  BY DEF WorkspaceInv, WorkspaceTypeOK
<1>2. [job[j] EXCEPT !.does = does] \in Job /\ [job[j] EXCEPT !.does = does].does = does
      /\ [job[j] EXCEPT !.does = does].path = job[j].path
  BY <1>1, JobType
<1>3. QED BY <1>1, <1>2 DEF Move

\* The steps that change no file's content, no binary and nothing executed.
LEMMA AsideKeeps ==
  ASSUME WorkspaceInv, NEW j \in Jobs, job' \in [Jobs -> Job], job[j].does # "running",
         job'[j].does \notin InCall, \A k \in Jobs \ {j} : job'[k] = job[k],
         held' \in [Jobs -> SUBSET Jobs], \A k \in Jobs \ {j} : held'[k] = held[k],
         \A p \in DOMAIN tree' : p \in DOMAIN tree /\ tree'[p] = tree[p], UNCHANGED <<binaries, executed>>
  PROVE  WorkspaceInv'
<1>1. WorkspaceTypeOK'
  BY DEF WorkspaceInv, WorkspaceTypeOK
<1>2. Traced(j)'
  BY Unlaunched, IdleTraced
<1>3. \A k \in Jobs \ {j} : Traced(k)'
  BY OthersTraced
<1>4. QED BY <1>1, <1>2, <1>3 DEF WorkspaceInv

LEMMA WriteKeeps ==
  ASSUME WorkspaceInv, NEW j \in Jobs, Measure(j) \/ WritePartial(j) \/ FailWrite(j) \/ Unlink(j) \/ FailCompile(j)
  PROVE  WorkspaceInv'
<1>1. WorkspaceTypeOK /\ job[j] \in Job
  BY DEF WorkspaceInv, WorkspaceTypeOK
<1>2. held \in [Jobs -> SUBSET Jobs]
  BY <1>1 DEF WorkspaceTypeOK
<1>3. CASE Measure(j)
  <2>1. EndJob(j) \/ Move(j, "write")
    BY <1>3 DEF Measure
  <2>2. job' \in [Jobs -> Job] /\ job'[j].does \notin InCall /\ \A k \in Jobs \ {j} : job'[k] = job[k]
    BY <2>1, EndJobIdles, MoveMoves DEF Errands, InCall
  <2>3. QED BY <1>2, <1>3, <2>2, AsideKeeps DEF Measure
<1>4. CASE WritePartial(j)
  <2>1. CASE EndJob(j)
    <3>1. job'[j].does \notin InCall
      BY <2>1, EndJobIdles DEF InCall
    <3>2. QED BY <1>2, <1>4, <2>1, <3>1, EndJobIdles, AsideKeeps DEF WritePartial
  <2>2. CASE ~EndJob(j)
    <3> DEFINE begun == [job[j] EXCEPT !.does = "replace", !.partial = TRUE]
    <3>1. begun \in Job /\ begun.does = "replace"
      BY <1>1 DEF Job, Errands
    <3>2. job' = [job EXCEPT ![j] = begun]
      BY <1>4, <2>2 DEF WritePartial
    <3> HIDE DEF begun
    <3>3. job' \in [Jobs -> Job] /\ job'[j].does \notin InCall /\ \A k \in Jobs \ {j} : job'[k] = job[k]
      BY <1>1, <3>1, <3>2 DEF WorkspaceTypeOK, InCall
    <3>4. QED BY <1>2, <1>4, <3>3, AsideKeeps DEF WritePartial
  <2>3. QED BY <2>1, <2>2
<1>5. CASE FailWrite(j)
  <2>1. EndJob(j) /\ job[j].does # "running" /\ UNCHANGED <<tree, held, binaries, executed>>
    BY <1>5 DEF FailWrite
  <2>2. job'[j].does \notin InCall
    BY <2>1, EndJobIdles DEF InCall
  <2>3. QED BY <1>2, <2>1, <2>2, EndJobIdles, AsideKeeps
<1>6. CASE Unlink(j)
  <2>1. EndJob(j) /\ job[j].does # "running" /\ UNCHANGED <<held, binaries, executed>>
        /\ tree' = Restrict(tree, DOMAIN tree \ {job[j].path})
    BY <1>6 DEF Unlink
  <2>2. \A p \in DOMAIN tree' : p \in DOMAIN tree /\ tree'[p] = tree[p]
    BY <2>1 DEF Restrict
  <2>3. job'[j].does \notin InCall
    BY <2>1, EndJobIdles DEF InCall
  <2>4. QED BY <1>2, <2>1, <2>2, <2>3, EndJobIdles, AsideKeeps
<1>7. CASE FailCompile(j)
  <2>1. EndJob(j) /\ job[j].does # "running" /\ held' = [held EXCEPT ![j] = {}]
        /\ UNCHANGED <<tree, binaries, executed>>
    BY <1>7 DEF FailCompile, EndCall
  <2>2. job'[j].does \notin InCall
    BY <2>1, EndJobIdles DEF InCall
  <2>3. held' \in [Jobs -> SUBSET Jobs] /\ \A k \in Jobs \ {j} : held'[k] = held[k]
    BY <1>2, <2>1
  <2>4. QED BY <2>1, <2>2, <2>3, EndJobIdles, AsideKeeps
<1>8. QED BY <1>3, <1>4, <1>5, <1>6, <1>7

LEMMA ReplaceKeeps ==
  ASSUME WorkspaceInv, NEW j \in Jobs, Replace(j)
  PROVE  WorkspaceInv'
<1> DEFINE p == job[j].path
<1>1. WorkspaceTypeOK /\ EndJob(j) /\ job[j].does # "running" /\ UNCHANGED <<binaries, executed>>
  BY DEF WorkspaceInv, Replace
<1>2. DOMAIN tree' = DOMAIN tree \cup {p} /\ tree'[p].text = j
      /\ \A q \in DOMAIN tree : q # p => tree'[q] = tree[q]
  BY DEF Replace, PutFile
<1>3. held' = [r \in Jobs |-> IF held[r] # {} /\ job[r].path = p THEN held[r] \cup {j} ELSE held[r]]
  BY DEF Replace
<1>4. WorkspaceTypeOK'
  <2>1. held' \in [Jobs -> SUBSET Jobs]
    BY <1>1, <1>3 DEF WorkspaceTypeOK
  <2>2. \A q \in DOMAIN tree' : tree'[q].text \in Jobs
    BY <1>1, <1>2 DEF WorkspaceTypeOK
  <2>3. QED BY <1>1, <2>1, <2>2, EndJobIdles DEF WorkspaceTypeOK
<1>5. Traced(j)'
  BY <1>1, Unlaunched, EndJobIdles, IdleTraced DEF InCall
<1>6. ASSUME NEW k \in Jobs \ {j} PROVE Traced(k)'
  <2>1. job'[k] = job[k] /\ executed'[k] = executed[k] /\ Traced(k)
    BY <1>1, EndJobIdles DEF WorkspaceInv
  <2>2. held[k] \subseteq held'[k] /\ (held[k] # {} /\ job[k].path = p => j \in held'[k])
    BY <1>3
  <2>3. QED BY <1>1, <1>2, <2>1, <2>2 DEF Traced, Twins
<1>7. QED BY <1>4, <1>5, <1>6 DEF WorkspaceInv

LEMMA CompileKeeps ==
  ASSUME WorkspaceInv, NEW j \in Jobs, Compile(j)
  PROVE  WorkspaceInv'
<1> DEFINE p == job[j].path
<1>1. WorkspaceTypeOK /\ Traced(j) /\ job[j].does = "compile" /\ UNCHANGED <<tree, executed>>
  BY DEF WorkspaceInv, Compile
<1>2. executed[j] = Unused /\ p \in Compiled
  BY <1>1, Unlaunched DEF Traced
<1>3. CASE p \in DOMAIN tree
  <2>1. binaries' = PutFile(binaries, BinaryOf(p), tree[p].text) /\ Move(j, "launch") /\ UNCHANGED held
    BY <1>3 DEF Compile
  <2>2. DOMAIN binaries' = DOMAIN binaries \cup {BinaryOf(p)} /\ binaries'[BinaryOf(p)] = tree[p].text
        /\ \A b \in DOMAIN binaries : b # BinaryOf(p) => binaries'[b] = binaries[b]
    BY <2>1 DEF PutFile
  <2>3. /\ job' \in [Jobs -> Job] /\ job'[j].does = "launch" /\ job'[j].path = p
        /\ \A k \in Jobs \ {j} : job'[k] = job[k]
    BY <2>1, MoveMoves DEF Errands
  <2>4. WorkspaceTypeOK'
    BY <1>1, <1>3, <2>1, <2>2, <2>3 DEF WorkspaceTypeOK
  <2>5. Traced(j)'
    BY <1>1, <1>2, <1>3, <2>1, <2>2, <2>3 DEF Traced, InCall
  <2>6. ASSUME NEW k \in Jobs \ {j} PROVE Traced(k)'
    <3>1. job'[k] = job[k] /\ held'[k] = held[k] /\ executed'[k] = executed[k] /\ Traced(k)
      BY <1>1, <2>1, <2>3 DEF WorkspaceInv
    <3>2. CASE job[k].does = "launch" /\ BinaryOf(job[k].path) = BinaryOf(p)
      <4>1. job[k].path = p => tree[p].text \in held[k]
        BY <1>3, <3>1, <3>2 DEF Traced, InCall
      <4>2. job[k].path # p => Twins(k)'
        BY <1>2, <3>1, <3>2 DEF Twins, BinaryOf
      <4>3. QED BY <1>1, <2>2, <3>1, <3>2, <4>1, <4>2 DEF Traced
    <3>3. CASE ~(job[k].does = "launch" /\ BinaryOf(job[k].path) = BinaryOf(p))
      BY <1>1, <2>2, <3>1, <3>3 DEF Traced, Twins
    <3>4. QED BY <3>2, <3>3
  <2>7. QED BY <2>4, <2>5, <2>6 DEF WorkspaceInv
<1>4. CASE p \notin DOMAIN tree
  <2>1. EndJob(j) /\ held' = [held EXCEPT ![j] = {}] /\ UNCHANGED binaries
    BY <1>4 DEF Compile, EndCall
  <2>2. job'[j].does \notin InCall
    BY <2>1, EndJobIdles DEF InCall
  <2>3. held' \in [Jobs -> SUBSET Jobs] /\ \A k \in Jobs \ {j} : held'[k] = held[k]
    BY <1>1, <2>1 DEF WorkspaceTypeOK
  <2>4. QED BY <1>1, <2>1, <2>2, <2>3, EndJobIdles, AsideKeeps
<1>5. QED BY <1>3, <1>4

LEMMA RunKeeps ==
  ASSUME WorkspaceInv, NEW j \in Jobs, Launch(j) \/ Interpret(j) \/ EndRun(j)
  PROVE  WorkspaceInv'
<1>1. WorkspaceTypeOK /\ Traced(j) /\ UNCHANGED <<tree, binaries>>
  BY DEF WorkspaceInv, Launch, Interpret, EndRun
<1>2. CASE Launch(j)
  <2> DEFINE b == binaries[BinaryOf(job[j].path)]
  <2>1. b \in Jobs /\ (b \in held[j] \/ Twins(j))
    BY <1>1, <1>2 DEF Launch, Traced, WorkspaceTypeOK
  <2>2. executed' = [executed EXCEPT ![j] = b] /\ Move(j, "running") /\ UNCHANGED held
    BY <1>2 DEF Launch
  <2> HIDE DEF b
  <2>3. /\ job' \in [Jobs -> Job] /\ job'[j].does = "running" /\ job'[j].path = job[j].path
        /\ \A k \in Jobs \ {j} : job'[k] = job[k]
    BY <2>2, MoveMoves DEF Errands
  <2>4. WorkspaceTypeOK' /\ executed'[j] = b /\ \A k \in Jobs \ {j} : executed'[k] = executed[k]
    BY <1>1, <2>1, <2>2, <2>3 DEF WorkspaceTypeOK
  <2>5. job[j].does = "launch"
    BY <1>2 DEF Launch
  <2>6. Traced(j)'
    BY <1>1, <2>1, <2>2, <2>3, <2>4, <2>5 DEF Traced, Twins, InCall
  <2>7. \A k \in Jobs \ {j} : Traced(k)'
    BY <1>1, <2>2, <2>3, <2>4, OthersTraced
  <2>8. QED BY <2>4, <2>6, <2>7 DEF WorkspaceInv
<1>3. CASE Interpret(j) /\ job[j].path \in DOMAIN tree
  <2> DEFINE b == tree[job[j].path].text
  <2>1. job[j].does = "run"
    BY <1>3 DEF Interpret
  <2>2. b \in Jobs /\ b \in held[j]
    BY <1>1, <1>3, <2>1 DEF Traced, WorkspaceTypeOK, InCall
  <2>3. executed' = [executed EXCEPT ![j] = b] /\ Move(j, "running") /\ UNCHANGED held
    BY <1>3 DEF Interpret
  <2> HIDE DEF b
  <2>4. /\ job' \in [Jobs -> Job] /\ job'[j].does = "running" /\ job'[j].path = job[j].path
        /\ \A k \in Jobs \ {j} : job'[k] = job[k]
    BY <2>3, MoveMoves DEF Errands
  <2>5. WorkspaceTypeOK' /\ executed'[j] = b /\ \A k \in Jobs \ {j} : executed'[k] = executed[k]
    BY <1>1, <2>2, <2>3, <2>4 DEF WorkspaceTypeOK
  <2>6. Traced(j)'
    BY <1>1, <2>1, <2>2, <2>3, <2>4, <2>5 DEF Traced, Twins, InCall
  <2>7. \A k \in Jobs \ {j} : Traced(k)'
    BY <1>1, <2>3, <2>4, <2>5, OthersTraced
  <2>8. QED BY <2>5, <2>6, <2>7 DEF WorkspaceInv
<1>4. CASE Interpret(j) /\ job[j].path \notin DOMAIN tree
  <2>1. EndJob(j) /\ held' = [held EXCEPT ![j] = {}] /\ UNCHANGED executed /\ job[j].does # "running"
    BY <1>4 DEF Interpret, EndCall
  <2>2. job'[j].does \notin InCall
    BY <2>1, EndJobIdles DEF InCall
  <2>3. held' \in [Jobs -> SUBSET Jobs] /\ \A k \in Jobs \ {j} : held'[k] = held[k]
    BY <1>1, <2>1 DEF WorkspaceTypeOK
  <2>4. QED BY <1>1, <2>1, <2>2, <2>3, EndJobIdles, AsideKeeps
<1>5. CASE EndRun(j)
  <2>1. EndJob(j) /\ held' = [held EXCEPT ![j] = {}] /\ executed' = [executed EXCEPT ![j] = Unused]
    BY <1>5 DEF EndRun, EndCall
  <2>2. /\ held' \in [Jobs -> SUBSET Jobs] /\ \A k \in Jobs \ {j} : held'[k] = held[k]
        /\ executed' \in [Jobs -> Jobs \cup {Unused}] /\ executed'[j] = Unused
        /\ \A k \in Jobs \ {j} : executed'[k] = executed[k]
    BY <1>1, <2>1 DEF WorkspaceTypeOK
  <2>3. WorkspaceTypeOK'
    BY <1>1, <2>1, <2>2, EndJobIdles DEF WorkspaceTypeOK
  <2>4. Traced(j)'
    BY <2>1, <2>2, EndJobIdles, IdleTraced DEF InCall
  <2>5. \A k \in Jobs \ {j} : Traced(k)'
    BY <1>1, <2>1, <2>2, EndJobIdles, OthersTraced
  <2>6. QED BY <2>3, <2>4, <2>5 DEF WorkspaceInv
<1>6. QED BY <1>2, <1>3, <1>4, <1>5

LEMMA WorkspaceStep == WorkspaceInv /\ [WorkspaceNext]_workspaceVars => WorkspaceInv'
<1> SUFFICES ASSUME WorkspaceInv, [WorkspaceNext]_workspaceVars PROVE WorkspaceInv'
  OBVIOUS
<1>1. CASE \E j \in Jobs : JobStep(j)
  BY <1>1, WriteKeeps, ReplaceKeeps, CompileKeeps, RunKeeps DEF JobStep
<1>2. CASE \E j \in Jobs, p \in Sources : \E n \in Sizes : BeginWrite(j, p, n)
  BY <1>2, BeginKeeps
<1>3. CASE \E j \in Jobs, p \in Sources : BeginDelete(j, p) \/ BeginRun(j, p)
  BY <1>3, BeginKeeps
<1>4. CASE UNCHANGED workspaceVars
  BY <1>4 DEF workspaceVars, WorkspaceInv, WorkspaceTypeOK, Traced, Twins
<1>5. QED BY <1>1, <1>2, <1>3, <1>4 DEF WorkspaceNext

\* A call executes what its own file held at some moment of the call, for any number of
\* overlapping writes, deletes and runs; only sources of one stem answer for each other.
THEOREM OwnProgramTheorem == WorkspaceSpec => []RunsItsOwnUnlessTwins
<1>1. WorkspaceInv => RunsItsOwnUnlessTwins
  BY DEF WorkspaceInv, Traced, Twins, RunsItsOwnUnlessTwins
<1>2. QED BY <1>1, WorkspaceInitially, WorkspaceStep, PTL DEF WorkspaceSpec
=============================================================================

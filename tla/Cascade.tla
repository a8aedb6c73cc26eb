------------------------------ MODULE Cascade ------------------------------
(***************************************************************************)
(* The provider cascade (agent/cascade.py): every model call of every      *)
(* turn walks the tiers in order, skipping those that cool down after a    *)
(* failure. The cooldowns are one table shared by all threads under a      *)
(* lock, and a JSON file that outlives the process.  The file is read      *)
(* once, by whoever comes first, and written outside the lock after most   *)
(* failures.                                                               *)
(***************************************************************************)
EXTENDS Integers, Sequences, FiniteSets

CONSTANTS
  Tier,       \* configured model tiers
  Order,      \* the order in which they are tried
  Callers,       \* threads in _run_cascade_step
  Operator,      \* the thread of an operator's reset
  NoCaller,      \* holds no lock
  Failure,       \* the kinds of failure that providers show
  CoolingWindow, \* CoolingWindow[kind]: the cooldowns a kind of failure may earn
  Longest,       \* the longest of them
  Strikes,       \* TIMEOUT_STRIKES_BEFORE_COOL
  MaxCooling     \* bound on the clock

Thread == Callers \cup {Operator}

ASSUME OrderAssumption == Order \in Seq(Tier) /\ \A t \in Tier : \E i \in DOMAIN Order : Order[i] = t
ASSUME ThreadAssumption == NoCaller \notin Thread /\ Operator \notin Callers
ASSUME WindowAssumption == Longest \in Nat /\ CoolingWindow \in [Failure -> SUBSET (1..Longest)]
ASSUME StrikesAssumption == Strikes \in Nat \ {0}
ASSUME MaxCoolingAssumption == MaxCooling \in Nat

VARIABLES
  cascadeNow,  \* wall clock
  skip,        \* _TIER_SKIP_UNTIL
  strikes,     \* _TIER_TIMEOUTS: consecutive timeouts, as far as they count
  long,        \* _TIER_LAST_ERROR is a quota, credential or request error
  loaded,      \* _STATE_LOADED
  lock,        \* who saves inside _STATE_LOCK
  file,        \* cascade_cooldowns.json
  callerAt,    \* where each thread is
  plan,        \* the tiers each caller has still to try
  payload,     \* what each thread is about to write
  spoiled      \* ghost: a save has failed, met another, or come before the load (history)

table == <<skip, strikes, long>>
step == <<callerAt, plan, payload>>
cascadeVars == <<cascadeNow, table, loaded, lock, file, step, spoiled>>

Until == 0..(MaxCooling + Longest)
None == [t \in Tier |-> 0]
Never == [t \in Tier |-> FALSE]
Saving == {"saving", "built"}

CascadeInit ==
  /\ cascadeNow = 0 /\ skip = None /\ strikes = None /\ long = Never
  /\ loaded = FALSE /\ lock = NoCaller /\ file = None
  /\ callerAt = [c \in Thread |-> "idle"] /\ plan = [c \in Thread |-> << >>]
  /\ payload = [c \in Thread |-> None] /\ spoiled = FALSE

Goto(c, where) == callerAt' = [callerAt EXCEPT ![c] = where]
Unlocked == lock = NoCaller
Skipped(t) == cascadeNow < skip[t]

\* The first caller is to read the file; the flag is up before it does.
ClaimLoad(c) ==
  /\ callerAt[c] = "idle" /\ ~loaded
  /\ Goto(c, "loading")
  /\ loaded' = TRUE
  /\ UNCHANGED <<cascadeNow, table, lock, file, plan, payload, spoiled>>

\* _load_cascade_state: cooldowns that have not ended go over those in memory.
LoadState(c) ==
  /\ callerAt[c] = "loading" /\ Unlocked
  /\ skip' = [t \in Tier |-> IF file[t] > cascadeNow THEN file[t] ELSE skip[t]]
  /\ Goto(c, "idle")
  /\ UNCHANGED <<cascadeNow, strikes, long, loaded, lock, file, plan, payload, spoiled>>

\* _all_skipped_permanent: trying again would only burn quota.
AllDark == \A t \in Tier : Skipped(t) /\ long[t]

\* _ordered_tiers, with slow tiers last: the order of one call.  Which tier it
\* prefers and which are slow is anything.
Orders == {SelectSeq(Order, LAMBDA t : t \notin back) \o SelectSeq(Order, LAMBDA t : t \in back)
             : back \in SUBSET Tier}

\* _usable_tiers: the tiers that do not cool, or all of them when all do.
Usable ==
  {LET live == SelectSeq(order, LAMBDA t : ~Skipped(t))
   IN  IF live = << >> THEN order ELSE live : order \in Orders}

\* The list is made once; it is not looked at again while it is walked.
Choose(c) ==
  /\ callerAt[c] = "idle" /\ loaded /\ Unlocked
  /\ IF AllDark
     THEN Goto(c, "failed") /\ UNCHANGED plan
     ELSE /\ \E tiers \in Usable : plan' = [plan EXCEPT ![c] = tiers]
          /\ Goto(c, "calling")
  /\ UNCHANGED <<cascadeNow, table, loaded, lock, file, payload, spoiled>>

\* A success clears the tier in memory; the file is left alone.
Succeed(c) ==
  LET t == Head(plan[c]) IN
  /\ callerAt[c] = "calling" /\ Unlocked
  /\ skip' = [skip EXCEPT ![t] = 0]
  /\ strikes' = [strikes EXCEPT ![t] = 0]
  /\ plan' = [plan EXCEPT ![c] = << >>]
  /\ Goto(c, "idle")
  /\ UNCHANGED <<cascadeNow, long, loaded, lock, file, payload, spoiled>>

\* Budget spent, turn cancelled or pool saturated: our limits, not the tier's.
Abort(c) ==
  /\ callerAt[c] = "calling"
  /\ plan' = [plan EXCEPT ![c] = << >>]
  /\ Goto(c, "idle")
  /\ UNCHANGED <<cascadeNow, table, loaded, lock, file, payload, spoiled>>

\* A tier that is not configured is passed over, and nothing is recorded.
PassOver(c) ==
  /\ callerAt[c] = "calling"
  /\ plan' = [plan EXCEPT ![c] = Tail(@)]
  /\ Goto(c, IF Len(plan[c]) = 1 THEN "failed" ELSE "calling")
  /\ UNCHANGED <<cascadeNow, table, loaded, lock, file, payload, spoiled>>

Cools(t, kind) == kind # "capability" /\ (kind = "timeout" => strikes[t] + 1 >= Strikes)

\* Another save is under way, or the file is being read.
Races(c) == \E o \in Thread \ {c} : callerAt[o] \in Saving \cup {"loading"}

\* A provider fails.  Timeouts cool the tier at the Nth in a row and are saved
\* inside the lock; a tier without tools is never cooled; the rest cool at once
\* and are saved after the lock is released.
FailTier(c, kind) ==
  LET t == Head(plan[c]) IN
  /\ callerAt[c] = "calling" /\ Unlocked
  /\ long' = [long EXCEPT ![t] = kind \in {"rate_limit", "auth", "invalid"}]
  /\ strikes' = CASE kind = "capability" -> strikes
                   [] kind = "timeout" -> [strikes EXCEPT ![t] = IF @ + 1 < Strikes THEN @ + 1 ELSE @]
                   [] OTHER -> [strikes EXCEPT ![t] = 0]
  /\ plan' = [plan EXCEPT ![c] = Tail(@)]
  /\ IF Cools(t, kind)
     THEN /\ \E w \in CoolingWindow[kind] : skip' = [skip EXCEPT ![t] = cascadeNow + w]
          /\ lock' = IF kind = "timeout" THEN c ELSE NoCaller
          /\ spoiled' = (spoiled \/ Races(c))
          /\ Goto(c, "saving")
     ELSE /\ Goto(c, IF Len(plan[c]) = 1 THEN "failed" ELSE "calling")
          /\ UNCHANGED <<skip, lock, spoiled>>
  /\ UNCHANGED <<cascadeNow, loaded, file, payload>>

\* reset_tier_state: an operator clears one tier or all of them.
Reset ==
  /\ callerAt[Operator] = "idle" /\ Unlocked
  /\ \E set \in {Tier} \cup {{t} : t \in Tier} :
       /\ skip' = [t \in Tier |-> IF t \in set THEN 0 ELSE skip[t]]
       /\ strikes' = [t \in Tier |-> IF t \in set THEN 0 ELSE strikes[t]]
       /\ long' = [t \in Tier |-> t \notin set /\ long[t]]
  /\ spoiled' = (spoiled \/ Races(Operator) \/ ~loaded)
  /\ Goto(Operator, "saving")
  /\ UNCHANGED <<cascadeNow, loaded, lock, file, plan, payload>>

\* Seeded fault: only the first tier is written.
FaultyBuild(c) ==
  /\ callerAt[c] = "saving" /\ lock \in {NoCaller, c}
  /\ payload' = [payload EXCEPT ![c] = [t \in Tier |-> IF t = Order[1] THEN skip[t] ELSE 0]]
  /\ Goto(c, "built")
  /\ UNCHANGED <<cascadeNow, table, loaded, lock, file, plan, spoiled>>

\* _save_cascade_state copies the table under the lock, and writes the copy.
BuildTier(c) ==
  /\ callerAt[c] = "saving" /\ lock \in {NoCaller, c}
  /\ payload' = [payload EXCEPT ![c] = skip]
  /\ Goto(c, "built")
  /\ UNCHANGED <<cascadeNow, table, loaded, lock, file, plan, spoiled>>

\* Two savers share the name of the file they write first: one of them may fail.
\* Written or not, the thread goes on with what it was doing.
WriteState(c) ==
  /\ callerAt[c] = "built"
  /\ \/ file' = payload[c] /\ UNCHANGED spoiled
     \/ spoiled' = TRUE /\ UNCHANGED file
  /\ payload' = [payload EXCEPT ![c] = None]
  /\ lock' = IF lock = c THEN NoCaller ELSE lock
  /\ Goto(c, IF c = Operator THEN "idle" ELSE IF plan[c] = << >> THEN "failed" ELSE "calling")
  /\ UNCHANGED <<cascadeNow, table, loaded, plan>>

\* The error reaches whoever asked.
LeaveCascade(c) ==
  /\ callerAt[c] = "failed"
  /\ Goto(c, "idle")
  /\ UNCHANGED <<cascadeNow, table, loaded, lock, file, plan, payload, spoiled>>

CascadeTick == /\ cascadeNow < MaxCooling /\ cascadeNow' = cascadeNow + 1
               /\ UNCHANGED <<table, loaded, lock, file, step, spoiled>>

\* The process ends and starts: the file is all that is left.
RestartCascade ==
  /\ skip' = None /\ strikes' = None /\ long' = Never
  /\ loaded' = FALSE /\ lock' = NoCaller
  /\ callerAt' = [c \in Thread |-> "idle"] /\ plan' = [c \in Thread |-> << >>]
  /\ payload' = [c \in Thread |-> None]
  /\ UNCHANGED <<cascadeNow, file, spoiled>>

CascadeNext ==
  \/ \E c \in Callers :
       \/ ClaimLoad(c) \/ LoadState(c) \/ Choose(c) \/ Succeed(c) \/ Abort(c) \/ PassOver(c)
       \/ \E kind \in Failure : FailTier(c, kind)
       \/ BuildTier(c) \/ WriteState(c) \/ LeaveCascade(c)
  \/ Reset \/ BuildTier(Operator) \/ WriteState(Operator)
  \/ CascadeTick \/ RestartCascade

CascadeSpec == CascadeInit /\ [][CascadeNext]_cascadeVars

----------------------------------------------------------------------------
(* Properties *)

\* Every variable keeps its shape, and a caller that calls has a tier to call.
CascadeTypeOK ==
  /\ cascadeNow \in 0..MaxCooling
  /\ skip \in [Tier -> Until] /\ strikes \in [Tier -> 0..(Strikes - 1)]
  /\ long \in [Tier -> BOOLEAN]
  /\ loaded \in BOOLEAN /\ spoiled \in BOOLEAN /\ lock \in Thread \cup {NoCaller}
  /\ file \in [Tier -> Until]
  /\ callerAt \in [Thread -> {"idle", "loading", "calling", "failed"} \cup Saving]
  /\ plan \in [Thread -> Seq(Tier)] /\ payload \in [Thread -> [Tier -> Until]]
  /\ \A c \in Thread : callerAt[c] = "calling" => plan[c] # << >>

\* "A newly set cooldown must survive restarts" (_record_tier_failure): when no
\* one is saving, the file holds every cooldown that is in force, unless a save
\* has failed, overlapped another or come before the load.
CooldownSurvivesUnlessSpoiled ==
  \/ spoiled
  \/ \E c \in Thread : callerAt[c] \in Saving
  \/ \A t \in Tier : Skipped(t) => file[t] >= skip[t]
=============================================================================

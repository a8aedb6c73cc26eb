---------------------------- MODULE AccessProofs ----------------------------
(***************************************************************************)
(* Theorems about the lessons, the rate limit, the provider cascade and    *)
(* the pages of a browser, for any number of threads, requests, tiers and  *)
(* tabs and every limit.  Each has its inductive invariant.                *)
(***************************************************************************)
EXTENDS Lessons, RateLimit, Cascade, Door, FiniteSetTheorems, SequenceTheorems, TLAPS

----------------------------------------------------------------------------
(* Lessons *)

Copy == [status : [Shapes -> {"none", "candidate", "trusted", "disabled"}], since : Int]
\* What is switched off in one copy is switched off in the other.
Respects(from, to) == \A s \in Shapes : from.status[s] = "disabled" => to.status[s] = "disabled"
\* Whoever is about to save has a whole copy that switches nothing back on.
SaversRespect ==
  /\ \A r \in Recorders : recorder[r].at = "save" =>
       recorder[r].from \in Copy /\ recorder[r].to \in Copy /\ Respects(recorder[r].from, recorder[r].to)
  /\ panel.at = "save" =>
       /\ panel.from \in Copy /\ panel.to \in Copy /\ Respects(panel.from, panel.to)
       /\ panel.shape \in Shapes /\ panel.to.status[panel.shape] = "disabled"
LessonsInv ==
  /\ lessons \in Copy /\ banned \subseteq Shapes
  /\ recorder = [r \in Recorders |-> recorder[r]]
  /\ SaversRespect /\ DisabledStaysUnlessStale

LEMMA LoadedIsCopy ==
  ASSUME lessons \in Copy PROVE Loaded \subseteq Copy
BY DEF Loaded, NoLessons, Copy

LEMMA VerdictRespects ==
  ASSUME NEW copy \in Copy, NEW found,
         NEW to, to = [status |-> [s \in Shapes |-> Verdict(found, s, copy.status[s])], since |-> 0]
  PROVE  to \in Copy /\ Respects(copy, to)
<1>1. \A s \in Shapes : Verdict(found, s, copy.status[s]) \in {"none", "candidate", "trusted", "disabled"}
  BY DEF Verdict, Copy
<1>2. \A s \in Shapes : copy.status[s] = "disabled" => Verdict(found, s, copy.status[s]) = "disabled"
  BY DEF Verdict
<1>3. QED BY <1>1, <1>2 DEF Copy, Respects

LEMMA LessonsInitially == LessonsInit => LessonsInv
BY DEF LessonsInit, LessonsInv, NoLessons, Copy, Rest, SaversRespect, DisabledStaysUnlessStale

LEMMA RecorderKeeps ==
  ASSUME LessonsInv, NEW r \in Recorders, NEW what, recorder' = [recorder EXCEPT ![r] = what],
         what.at = "save" => what.from \in Copy /\ what.to \in Copy /\ Respects(what.from, what.to),
         UNCHANGED <<lessons, panel, banned, stale>>
  PROVE  LessonsInv'
<1>1. recorder' = [q \in Recorders |-> recorder'[q]] /\ recorder'[r] = what
      /\ \A q \in Recorders : q # r => recorder'[q] = recorder[q]
  BY DEF LessonsInv
<1>2. SaversRespect'
  BY <1>1 DEF LessonsInv, SaversRespect
<1>3. DisabledStaysUnlessStale'
  BY DEF LessonsInv, DisabledStaysUnlessStale
<1>4. QED BY <1>1, <1>2, <1>3 DEF LessonsInv

LEMMA LessonsNextKeeps == ASSUME LessonsInv, [LessonsNext]_lessonsVars PROVE LessonsInv'
<1>1. ASSUME NEW r \in Recorders PROVE
        /\ Record(r) => LessonsInv'
        /\ Prune(r) => LessonsInv'
        /\ ReadEpisodes(r) => LessonsInv'
        /\ ReadToAmend(r) => LessonsInv'
        /\ Amend(r) => LessonsInv'
        /\ NothingToAmend(r) => LessonsInv'
  <2>1. Record(r) => LessonsInv'
    BY RecorderKeeps DEF Record
  <2>2. Prune(r) => LessonsInv'
    BY RecorderKeeps DEF Prune
  <2>3. ReadEpisodes(r) => LessonsInv'
    BY RecorderKeeps DEF ReadEpisodes
  <2>4. ReadToAmend(r) => LessonsInv'
    BY RecorderKeeps DEF ReadToAmend
  <2>5. Amend(r) => LessonsInv'
    BY RecorderKeeps DEF Amend, Rest
  <2>6. NothingToAmend(r) => LessonsInv'
    BY RecorderKeeps DEF NothingToAmend, Rest
  <2>7. QED BY <2>1, <2>2, <2>3, <2>4, <2>5, <2>6
<1>2. ASSUME NEW r \in Recorders, Count(r) PROVE LessonsInv'
  <2>1. PICK copy \in Loaded :
          recorder' = [recorder EXCEPT ![r] =
            IF copy.since + 1 >= MineEvery THEN [at |-> "due"]
            ELSE [at |-> "save", from |-> copy, to |-> [copy EXCEPT !.since = @ + 1]]]
    BY <1>2 DEF Count
  <2>2. copy \in Copy
    BY LoadedIsCopy DEF LessonsInv
  <2>3. [copy EXCEPT !.since = @ + 1] \in Copy /\ Respects(copy, [copy EXCEPT !.since = @ + 1])
    BY <2>2 DEF Copy, Respects
  <2>4. QED BY <1>2, <2>1, <2>2, <2>3, RecorderKeeps DEF Count
<1>3. ASSUME NEW r \in Recorders, Mine(r) PROVE LessonsInv'
  <2>1. PICK copy \in Loaded :
          recorder' = [recorder EXCEPT ![r] =
            [at |-> "save", from |-> copy,
             to |-> [status |-> [s \in Shapes |-> Verdict(recorder[r].found, s, copy.status[s])], since |-> 0]]]
    BY <1>3 DEF Mine
  <2>2. copy \in Copy
    BY LoadedIsCopy DEF LessonsInv
  <2> DEFINE to == [status |-> [s \in Shapes |-> Verdict(recorder[r].found, s, copy.status[s])], since |-> 0]
  <2>3. to \in Copy /\ Respects(copy, to)
    BY <2>2, VerdictRespects
  <2> HIDE DEF to
  <2>4. recorder' = [recorder EXCEPT ![r] = [at |-> "save", from |-> copy, to |-> to]]
    BY <2>1 DEF to
  <2>5. UNCHANGED <<lessons, panel, banned, stale>>
    BY <1>3 DEF Mine
  <2>6. QED BY <2>2, <2>3, <2>4, <2>5, RecorderKeeps
<1>4. ASSUME NEW r \in Recorders, Save(r) PROVE LessonsInv'
  <2>1. recorder' = [recorder EXCEPT ![r] = Rest] /\ recorder[r].at = "save" /\ UNCHANGED <<panel, banned>>
    BY <1>4 DEF Save
  <2>2. SaversRespect'
    BY <2>1 DEF LessonsInv, SaversRespect, Rest
  <2>3. recorder[r].from \in Copy /\ recorder[r].to \in Copy /\ Respects(recorder[r].from, recorder[r].to)
    BY <2>1 DEF LessonsInv, SaversRespect
  <2>4. lessons' \in Copy /\ DisabledStaysUnlessStale'
    <3>1. CASE UNCHANGED <<lessons, stale>>
      BY <2>1, <3>1 DEF LessonsInv, DisabledStaysUnlessStale
    <3>2. CASE lessons' = recorder[r].to /\ stale' = (stale \/ recorder[r].from # lessons)
      <4>1. CASE ~stale /\ recorder[r].from = lessons
        BY <2>1, <2>3, <3>2, <4>1 DEF LessonsInv, DisabledStaysUnlessStale, Respects
      <4>2. CASE stale \/ recorder[r].from # lessons
        BY <2>3, <3>2, <4>2 DEF DisabledStaysUnlessStale
      <4>3. QED BY <4>1, <4>2
    <3>3. QED BY <1>4, <3>1, <3>2 DEF Save
  <2>5. recorder' = [q \in Recorders |-> recorder'[q]]
    BY <2>1 DEF LessonsInv
  <2>6. QED BY <2>1, <2>2, <2>4, <2>5 DEF LessonsInv
<1>5. ASSUME NEW s \in Shapes, Ask(s) PROVE LessonsInv'
  <2>1. /\ panel' = [at |-> "save", shape |-> s, from |-> lessons,
                     to |-> [lessons EXCEPT !.status[s] = "disabled"]]
        /\ UNCHANGED <<lessons, recorder, banned, stale>>
    BY <1>5 DEF Ask
  <2>2. [lessons EXCEPT !.status[s] = "disabled"] \in Copy
        /\ Respects(lessons, [lessons EXCEPT !.status[s] = "disabled"])
        /\ [lessons EXCEPT !.status[s] = "disabled"].status[s] = "disabled"
    BY DEF LessonsInv, Copy, Respects
  <2>3. SaversRespect'
    BY <2>1, <2>2 DEF LessonsInv, SaversRespect
  <2>4. QED BY <2>1, <2>3 DEF LessonsInv, DisabledStaysUnlessStale
<1>6. ASSUME Disable PROVE LessonsInv'
  <2>1. panel' = Rest /\ panel.at = "save" /\ UNCHANGED recorder
    BY <1>6 DEF Disable
  <2>2. SaversRespect'
    BY <2>1 DEF LessonsInv, SaversRespect, Rest
  <2>3. panel.from \in Copy /\ panel.to \in Copy /\ Respects(panel.from, panel.to)
        /\ panel.shape \in Shapes /\ panel.to.status[panel.shape] = "disabled"
    BY <2>1 DEF LessonsInv, SaversRespect
  <2>4. lessons' \in Copy /\ banned' \subseteq Shapes /\ DisabledStaysUnlessStale'
    <3>1. CASE UNCHANGED <<lessons, stale, banned>>
      BY <3>1 DEF LessonsInv, DisabledStaysUnlessStale
    <3>2. CASE /\ lessons' = panel.to /\ stale' = (stale \/ panel.from # lessons)
               /\ banned' = banned \cup {panel.shape}
      <4>1. CASE ~stale /\ panel.from = lessons
        BY <2>3, <3>2, <4>1 DEF LessonsInv, DisabledStaysUnlessStale, Respects
      <4>2. CASE stale \/ panel.from # lessons
        BY <2>3, <3>2, <4>2 DEF LessonsInv, DisabledStaysUnlessStale
      <4>3. QED BY <4>1, <4>2
    <3>3. QED BY <1>6, <3>1, <3>2 DEF Disable
  <2>5. QED BY <2>1, <2>2, <2>4 DEF LessonsInv
<1>7. CASE ExpireLessons \/ UNCHANGED lessonsVars
  BY <1>7 DEF ExpireLessons, lessonsVars, LessonsInv, SaversRespect, DisabledStaysUnlessStale
<1>8. QED BY <1>1, <1>2, <1>3, <1>4, <1>5, <1>6, <1>7 DEF LessonsNext

(* A lesson that the user has switched off stays off, for any number of     *)
(* threads, tasks and thresholds, as long as nobody saves the lessons from  *)
(* a copy that is out of date.                                              *)
THEOREM DisabledTheorem == LessonsSpec => []DisabledStaysUnlessStale
<1>1. LessonsInv => DisabledStaysUnlessStale
  BY DEF LessonsInv
<1>2. QED BY <1>1, LessonsInitially, LessonsNextKeeps, PTL DEF LessonsSpec

----------------------------------------------------------------------------
(* Sliding windows *)

LEMMA OwnersAreNoMore ==
  ASSUME NEW E, IsFiniteSet(E), NEW R, R \subseteq {e.of : e \in E}
  PROVE  IsFiniteSet(R) /\ Cardinality(R) <= Cardinality(E)
<1> DEFINE owners == {e.of : e \in E}
           f == [e \in E |-> e.of]
<1>1. f \in Surjection(E, owners)
  BY DEF Surjection
<1>2. IsFiniteSet(owners) /\ Cardinality(owners) <= Cardinality(E)
  BY <1>1, FS_Surjection
<1>3. IsFiniteSet(R) /\ Cardinality(R) <= Cardinality(owners)
  BY <1>2, FS_Subset
<1>4. Cardinality(R) \in Nat /\ Cardinality(owners) \in Nat /\ Cardinality(E) \in Nat
  BY <1>2, <1>3, FS_CardinalityType
<1>5. QED BY <1>2, <1>3, <1>4

LEMMA OwnersAreNoFewer ==
  ASSUME NEW E, NEW R, IsFiniteSet(R), {e.of : e \in E} \subseteq R,
         \A d, e \in E : d.of = e.of => d = e
  PROVE  Cardinality(E) <= Cardinality(R)
<1> DEFINE f == [e \in E |-> e.of]
<1>1. f \in Injection(E, R)
  BY DEF Injection, IsInjective
<1>2. QED BY <1>1, FS_Injection

EntryOf(r) == [of |-> r, at |-> when[r], in |-> Table(r)]
RateTypeOK ==
  /\ shared \in BOOLEAN /\ clock \in 0..MaxRateTime /\ IsFiniteSet(entries)
  /\ verdict \in [Requests -> {"unchecked", "allowed", "refused", "rolling"}]
  /\ when \in [Requests -> 0..MaxRateTime]
\* An entry is that of a request that was checked; in memory, of one that was let in.
EntriesTrue ==
  \A e \in entries : /\ e.of \in Requests /\ e = EntryOf(e.of) /\ when[e.of] <= clock
                     /\ verdict[e.of] # "unchecked" /\ (~shared => verdict[e.of] = "allowed")
\* Who was let in a window ago or less has an entry.
AdmittedCounted ==
  \A r \in Requests : verdict[r] = "allowed" /\ when[r] > clock - RateWindow => EntryOf(r) \in entries
WindowsHold ==
  \A at \in 0..MaxRateTime, t \in Nat :
    IsFiniteSet(Admitted(at, t)) /\ Cardinality(Admitted(at, t)) <= Limit
CheckedBefore == \A r \in Requests : verdict[r] # "unchecked" => when[r] <= clock
RateInv == RateTypeOK /\ EntriesTrue /\ AdmittedCounted /\ WindowsHold /\ CheckedBefore /\ unfair = {}

LEMMA TableIsNat == ASSUME NEW r \in Requests PROVE Table(r) \in Nat
BY ServerAssumption DEF Table

LEMMA RecentFinite == ASSUME RateInv, NEW t PROVE IsFiniteSet(Recent(t)) /\ Recent(t) \subseteq entries
BY FS_Subset DEF RateInv, RateTypeOK, Recent

\* The requests let in within the last window are owners of its recent entries.
LEMMA AdmittedAreRecent ==
  ASSUME RateInv, NEW t \in Nat, NEW at \in 0..MaxRateTime, at >= clock
  PROVE  Admitted(at, t) \subseteq {e.of : e \in Recent(t)}
<1> SUFFICES ASSUME NEW r \in Admitted(at, t) PROVE \E e \in Recent(t) : r = e.of
  OBVIOUS
<1>1. r \in Requests /\ verdict[r] = "allowed" /\ Table(r) = t /\ when[r] > at - RateWindow
  BY DEF Admitted
<1>2. at \in Int /\ clock \in Int /\ RateWindow \in Int /\ when[r] \in Int
  BY <1>1, LimitAssumption DEF RateInv, RateTypeOK
<1>3. when[r] > clock - RateWindow
  BY <1>1, <1>2
<1>4. EntryOf(r) \in entries
  BY <1>1, <1>3 DEF RateInv, AdmittedCounted
<1>5. QED BY <1>1, <1>3, <1>4 DEF Recent, EntryOf

\* Where every recent entry is that of a request that was let in, the count is no lie.
LEMMA FullMeansFull ==
  ASSUME RateInv, NEW t \in Nat, Cardinality(Recent(t)) >= Limit,
         \A e \in Recent(t) : verdict[e.of] = "allowed"
  PROVE  ~(Cardinality(Admitted(clock, t)) < Limit)
<1>0. clock \in 0..MaxRateTime /\ clock \in Int /\ Limit \in Nat
  BY LimitAssumption DEF RateInv, RateTypeOK
<1>1. IsFiniteSet(Admitted(clock, t))
  BY <1>0 DEF RateInv, WindowsHold
<1>2. {e.of : e \in Recent(t)} \subseteq Admitted(clock, t)
  <2> SUFFICES ASSUME NEW e \in Recent(t) PROVE e.of \in Admitted(clock, t)
    OBVIOUS
  <2>1. e \in entries /\ e.in = t /\ e.at > clock - RateWindow
    BY DEF Recent
  <2>2. e.of \in Requests /\ e.at = when[e.of] /\ e.in = Table(e.of) /\ when[e.of] <= clock
    BY <2>1 DEF RateInv, EntriesTrue, EntryOf
  <2>3. QED BY <2>1, <2>2 DEF Admitted
<1>3. \A d, e \in Recent(t) : d.of = e.of => d = e
  BY DEF RateInv, EntriesTrue, EntryOf, Recent
<1>4. Cardinality(Recent(t)) <= Cardinality(Admitted(clock, t))
  BY <1>1, <1>2, <1>3, OwnersAreNoFewer
<1>5. Cardinality(Recent(t)) \in Nat /\ Cardinality(Admitted(clock, t)) \in Nat
  BY <1>1, RecentFinite, FS_CardinalityType
<1>6. QED BY <1>0, <1>4, <1>5

\* One more request is let in where fewer than Limit entries were recent.
LEMMA OneMoreFits ==
  ASSUME RateInv, NEW r \in Requests, verdict[r] = "unchecked", Cardinality(Recent(Table(r))) < Limit,
         shared' = shared, when' = [when EXCEPT ![r] = clock],
         verdict' = [verdict EXCEPT ![r] = "allowed"]
  PROVE  WindowsHold'
<1> SUFFICES ASSUME NEW at \in 0..MaxRateTime, NEW t \in Nat
             PROVE  IsFiniteSet(Admitted(at, t)') /\ Cardinality(Admitted(at, t)') <= Limit
  BY DEF WindowsHold
<1>0. clock \in Int /\ at \in Int /\ Limit \in Nat /\ Table(r) \in Nat /\ clock \in 0..MaxRateTime
      /\ when \in [Requests -> 0..MaxRateTime]
      /\ verdict \in [Requests -> {"unchecked", "allowed", "refused", "rolling"}]
  BY TableIsNat, LimitAssumption DEF RateInv, RateTypeOK
<1>1. \A q \in Requests : Table(q)' = Table(q)
  BY DEF Table
<1>2. Admitted(at, t)' \subseteq Admitted(at, t) \cup {r}
  BY <1>0, <1>1 DEF Admitted
<1>3. IsFiniteSet(Admitted(at, t)) /\ Cardinality(Admitted(at, t)) <= Limit
  BY DEF RateInv, WindowsHold
<1>4. CASE Table(r) = t /\ clock <= at
  <2>1. Admitted(at, t) \subseteq {e.of : e \in Recent(t)}
    BY <1>0, <1>4, AdmittedAreRecent
  <2>2. Cardinality(Admitted(at, t)) <= Cardinality(Recent(t))
    BY <2>1, RecentFinite, OwnersAreNoMore
  <2>3. Cardinality(Recent(t)) \in Nat /\ Cardinality(Admitted(at, t)) \in Nat
    BY <1>3, RecentFinite, FS_CardinalityType
  <2> DEFINE grown == Admitted(at, t) \cup {r}
  <2>4. IsFiniteSet(grown) /\ Cardinality(grown) <= Cardinality(Admitted(at, t)) + 1
        /\ Cardinality(grown) \in Nat
    <3>1. IsFiniteSet(grown)
          /\ Cardinality(grown) = IF r \in Admitted(at, t) THEN Cardinality(Admitted(at, t)) ELSE Cardinality(Admitted(at, t)) + 1
      BY <1>3, FS_AddElement
    <3>2. Cardinality(grown) \in Nat
      BY <3>1, FS_CardinalityType
    <3> HIDE DEF grown
    <3>3. QED BY <2>3, <3>1, <3>2
  <2>5. IsFiniteSet(Admitted(at, t)')
        /\ Cardinality(Admitted(at, t)') <= Cardinality(Admitted(at, t) \cup {r})
        /\ Cardinality(Admitted(at, t)') \in Nat
    BY <1>2, <2>4, FS_Subset, FS_CardinalityType
  <2>6. QED BY <1>0, <1>4, <2>2, <2>3, <2>4, <2>5
<1>5. CASE ~(Table(r) = t /\ clock <= at)
  <2>1. r \notin Admitted(at, t)'
    BY <1>0, <1>1, <1>5 DEF Admitted
  <2>2. Admitted(at, t)' \subseteq Admitted(at, t)
    BY <1>2, <2>1
  <2>3. IsFiniteSet(Admitted(at, t)') /\ Cardinality(Admitted(at, t)') <= Cardinality(Admitted(at, t))
    BY <1>3, <2>2, FS_Subset
  <2>4. Cardinality(Admitted(at, t)') \in Nat /\ Cardinality(Admitted(at, t)) \in Nat
    BY <1>3, <2>3, FS_CardinalityType
  <2>5. QED BY <1>0, <1>3, <2>3, <2>4
<1>6. QED BY <1>4, <1>5

\* Nobody is let in, and who was stays so.
LEMMA NoneMore ==
  ASSUME RateInv, shared' = shared, NEW r \in Requests, verdict[r] # "allowed",
         verdict' = [verdict EXCEPT ![r] = "refused"] \/ verdict' = [verdict EXCEPT ![r] = "rolling"],
         \A q \in Requests : q # r => when'[q] = when[q]
  PROVE  WindowsHold'
<1> SUFFICES ASSUME NEW at \in 0..MaxRateTime, NEW t \in Nat
             PROVE  IsFiniteSet(Admitted(at, t)') /\ Cardinality(Admitted(at, t)') <= Limit
  BY DEF WindowsHold
<1>1. verdict \in [Requests -> {"unchecked", "allowed", "refused", "rolling"}]
  BY DEF RateInv, RateTypeOK
<1>2. Admitted(at, t)' = Admitted(at, t)
  <2>1. \A q \in Requests : Table(q)' = Table(q)
    BY DEF Table
  <2>2. \A q \in Requests : verdict'[q] = "allowed" <=> verdict[q] = "allowed"
    BY <1>1
  <2>3. QED BY <1>1, <2>1, <2>2 DEF Admitted
<1>3. QED BY <1>2 DEF RateInv, WindowsHold

LEMMA RateInitially == RateInit => RateInv
<1> SUFFICES ASSUME RateInit PROVE RateInv
  OBVIOUS
<1>1. RateTypeOK
  BY FS_EmptySet, LimitAssumption DEF RateInit, RateTypeOK
<1>2. EntriesTrue /\ AdmittedCounted /\ CheckedBefore
  BY DEF RateInit, EntriesTrue, AdmittedCounted, CheckedBefore
<1>3. WindowsHold
  <2>1. \A at, t : Admitted(at, t) = {}
    BY DEF RateInit, Admitted
  <2>2. QED BY <2>1, FS_EmptySet, LimitAssumption DEF WindowsHold
<1>4. QED BY <1>1, <1>2, <1>3 DEF RateInit, RateInv

LEMMA CheckMemoryKeeps == ASSUME RateInv, NEW r \in Requests, CheckMemory(r) PROVE RateInv'
<1> DEFINE t == Table(r)
           full == Cardinality(Recent(t)) >= Limit
<1>0. /\ ~shared /\ verdict[r] = "unchecked" /\ shared' = shared /\ clock' = clock
      /\ when' = [when EXCEPT ![r] = clock]
      /\ verdict' = [verdict EXCEPT ![r] = IF full THEN "refused" ELSE "allowed"]
      /\ entries' = Elsewhere(t) \cup Recent(t) \cup (IF full THEN {} ELSE {RateEntry(r)})
      /\ unfair' = IF full /\ Cardinality(Admitted(clock, t)) < Limit THEN unfair \cup {r} ELSE unfair
  BY DEF CheckMemory
<1>1. t \in Nat /\ Limit \in Nat /\ Cardinality(Recent(t)) \in Nat
  BY TableIsNat, LimitAssumption, RecentFinite, FS_CardinalityType
<1>2. RateTypeOK
  BY DEF RateInv
<1>3. \A q \in Requests : Table(q)' = Table(q)
  BY <1>0 DEF Table
<1>4. \A e \in entries : e.of # r
  BY <1>0 DEF RateInv, EntriesTrue
<1>5. RateTypeOK'
  <2>1. IsFiniteSet(entries')
    <3>1. entries' \subseteq entries \cup {RateEntry(r)}
      BY <1>0 DEF Elsewhere, Recent
    <3>2. IsFiniteSet(entries \cup {RateEntry(r)})
      BY <1>2, FS_AddElement DEF RateTypeOK
    <3>3. QED BY <3>1, <3>2, FS_Subset
  <2>2. QED BY <1>0, <1>2, <2>1 DEF RateTypeOK
<1>6. EntriesTrue'
  <2>1. ASSUME NEW e \in entries'
        PROVE  /\ e.of \in Requests /\ e = EntryOf(e.of)' /\ when'[e.of] <= clock'
               /\ verdict'[e.of] # "unchecked" /\ (~shared' => verdict'[e.of] = "allowed")
    <3>1. CASE e \in entries
      <4>1. /\ e.of \in Requests /\ e.of # r /\ e = EntryOf(e.of) /\ when[e.of] <= clock
            /\ verdict[e.of] # "unchecked" /\ (~shared => verdict[e.of] = "allowed")
        BY <1>4, <3>1 DEF RateInv, EntriesTrue
      <4>2. QED BY <1>0, <1>2, <1>3, <4>1 DEF EntryOf, RateTypeOK
    <3>2. CASE e = RateEntry(r) /\ ~full
      <4>1. e = EntryOf(r)' /\ e.of = r
        BY <1>0, <1>2, <1>3, <3>2 DEF RateEntry, EntryOf, RateTypeOK
      <4>2. when'[r] = clock /\ verdict'[r] = "allowed" /\ clock <= clock
        BY <1>0, <1>2, <3>2 DEF RateTypeOK
      <4>3. QED BY <1>0, <4>1, <4>2
    <3>3. QED BY <1>0, <2>1, <3>1, <3>2 DEF Elsewhere, Recent
  <2>2. QED BY <2>1 DEF EntriesTrue
<1>7. AdmittedCounted'
  <2>1. ASSUME NEW q \in Requests, verdict'[q] = "allowed", when'[q] > clock' - RateWindow
        PROVE  EntryOf(q)' \in entries'
    <3>1. CASE q = r
      <4>1. ~full /\ when'[r] = clock
        BY <1>0, <1>2, <2>1, <3>1 DEF RateTypeOK
      <4>2. RateEntry(r) = EntryOf(r)'
        BY <1>3, <4>1 DEF RateEntry, EntryOf
      <4>3. QED BY <1>0, <3>1, <4>1, <4>2
    <3>2. CASE q # r
      <4>1. EntryOf(q)' = EntryOf(q) /\ when'[q] = when[q] /\ verdict'[q] = verdict[q]
        BY <1>0, <1>2, <1>3, <3>2 DEF EntryOf, RateTypeOK
      <4>2. EntryOf(q) \in entries /\ when[q] > clock - RateWindow
        BY <1>0, <2>1, <4>1 DEF RateInv, AdmittedCounted
      <4>3. EntryOf(q) \in Elsewhere(t) \cup Recent(t)
        BY <4>2 DEF EntryOf, Elsewhere, Recent
      <4>4. QED BY <1>0, <4>1, <4>3
    <3>3. QED BY <3>1, <3>2
  <2>2. QED BY <2>1 DEF AdmittedCounted
<1>8. CheckedBefore'
  BY <1>0, <1>2 DEF RateInv, CheckedBefore, RateTypeOK
<1>9. WindowsHold'
  <2>1. CASE full
    BY <1>0, <1>2, <2>1, NoneMore DEF RateTypeOK
  <2>2. CASE ~full
    <3>1. Cardinality(Recent(Table(r))) < Limit
      BY <1>1, <2>2
    <3>2. verdict' = [verdict EXCEPT ![r] = "allowed"]
      BY <1>0, <2>2
    <3>3. QED BY <1>0, <3>1, <3>2, OneMoreFits
  <2>3. QED BY <2>1, <2>2
<1>10. unfair' = {}
  <2>1. CASE full
    <3>1. \A e \in Recent(t) : verdict[e.of] = "allowed"
      BY <1>0 DEF RateInv, EntriesTrue, Recent
    <3>2. ~(Cardinality(Admitted(clock, t)) < Limit)
      BY <1>1, <2>1, <3>1, FullMeansFull
    <3>3. QED BY <1>0, <3>2 DEF RateInv
  <2>2. QED BY <1>0, <2>1 DEF RateInv
<1>11. QED BY <1>5, <1>6, <1>7, <1>8, <1>9, <1>10 DEF RateInv

LEMMA CheckRedisKeeps == ASSUME RateInv, NEW r \in Requests, CheckRedis(r) PROVE RateInv'
<1> DEFINE full == Cardinality(Recent(0)) >= Limit
           phantom == \E e \in Recent(0) : verdict[e.of] # "allowed"
<1>0. /\ shared /\ verdict[r] = "unchecked" /\ shared' = shared /\ clock' = clock
      /\ when' = [when EXCEPT ![r] = clock]
      /\ verdict' = [verdict EXCEPT ![r] = IF full THEN "rolling" ELSE "allowed"]
      /\ entries' = Recent(0) \cup {RateEntry(r)}
      /\ unfair' = IF full /\ ~phantom /\ Cardinality(Admitted(clock, 0)) < Limit
                   THEN unfair \cup {r} ELSE unfair
  BY DEF CheckRedis
<1>1. Limit \in Nat /\ Cardinality(Recent(0)) \in Nat
  BY LimitAssumption, RecentFinite, FS_CardinalityType
<1>2. RateTypeOK
  BY DEF RateInv
<1>3. \A q \in Requests : Table(q)' = Table(q) /\ Table(q) = 0
  BY <1>0 DEF Table
<1>4. \A e \in entries : e.of # r
  BY <1>0 DEF RateInv, EntriesTrue
<1>5. RateTypeOK'
  <2>1. IsFiniteSet(entries')
    BY <1>0, RecentFinite, FS_AddElement
  <2>2. QED BY <1>0, <1>2, <2>1 DEF RateTypeOK
<1>6. EntriesTrue'
  <2>1. ASSUME NEW e \in entries'
        PROVE  /\ e.of \in Requests /\ e = EntryOf(e.of)' /\ when'[e.of] <= clock'
               /\ verdict'[e.of] # "unchecked" /\ (~shared' => verdict'[e.of] = "allowed")
    <3>1. CASE e \in entries
      <4>1. /\ e.of \in Requests /\ e.of # r /\ e = EntryOf(e.of) /\ when[e.of] <= clock
            /\ verdict[e.of] # "unchecked"
        BY <1>4, <3>1 DEF RateInv, EntriesTrue
      <4>2. QED BY <1>0, <1>2, <1>3, <4>1 DEF EntryOf, RateTypeOK
    <3>2. CASE e = RateEntry(r)
      <4>1. e = EntryOf(r)' /\ e.of = r
        BY <1>0, <1>2, <1>3, <3>2 DEF RateEntry, EntryOf, RateTypeOK
      <4>2. when'[r] = clock /\ verdict'[r] # "unchecked" /\ clock <= clock
        BY <1>0, <1>2, <3>2 DEF RateTypeOK
      <4>3. QED BY <1>0, <4>1, <4>2
    <3>3. QED BY <1>0, <2>1, <3>1, <3>2 DEF Recent
  <2>2. QED BY <2>1 DEF EntriesTrue
<1>7. AdmittedCounted'
  <2>1. ASSUME NEW q \in Requests, verdict'[q] = "allowed", when'[q] > clock' - RateWindow
        PROVE  EntryOf(q)' \in entries'
    <3>1. CASE q = r
      <4>1. RateEntry(r) = EntryOf(r)'
        BY <1>0, <1>2, <1>3 DEF RateEntry, EntryOf, RateTypeOK
      <4>2. QED BY <1>0, <3>1, <4>1
    <3>2. CASE q # r
      <4>1. EntryOf(q)' = EntryOf(q) /\ when'[q] = when[q] /\ verdict'[q] = verdict[q]
        BY <1>0, <1>2, <1>3, <3>2 DEF EntryOf, RateTypeOK
      <4>2. EntryOf(q) \in entries /\ when[q] > clock - RateWindow
        BY <1>0, <2>1, <4>1 DEF RateInv, AdmittedCounted
      <4>3. EntryOf(q) \in Recent(0)
        BY <1>3, <4>2 DEF EntryOf, Recent
      <4>4. QED BY <1>0, <4>1, <4>3
    <3>3. QED BY <3>1, <3>2
  <2>2. QED BY <2>1 DEF AdmittedCounted
<1>8. CheckedBefore'
  BY <1>0, <1>2 DEF RateInv, CheckedBefore, RateTypeOK
<1>9. WindowsHold'
  <2>1. CASE full
    BY <1>0, <1>2, <2>1, NoneMore DEF RateTypeOK
  <2>2. CASE ~full
    <3>1. Cardinality(Recent(Table(r))) < Limit
      BY <1>1, <1>3, <2>2
    <3>2. verdict' = [verdict EXCEPT ![r] = "allowed"]
      BY <1>0, <2>2
    <3>3. QED BY <1>0, <3>1, <3>2, OneMoreFits
  <2>3. QED BY <2>1, <2>2
<1>10. unfair' = {}
  <2>1. CASE full /\ ~phantom
    <3>1. ~(Cardinality(Admitted(clock, 0)) < Limit)
      BY <2>1, FullMeansFull
    <3>2. QED BY <1>0, <3>1 DEF RateInv
  <2>2. QED BY <1>0, <2>1 DEF RateInv
<1>11. QED BY <1>5, <1>6, <1>7, <1>8, <1>9, <1>10 DEF RateInv

LEMMA RollBackKeeps == ASSUME RateInv, NEW r \in Requests, RollBack(r) PROVE RateInv'
<1>0. /\ verdict[r] = "rolling" /\ verdict' = [verdict EXCEPT ![r] = "refused"]
      /\ entries' \in {entries, {e \in entries : e.of # r}}
      /\ UNCHANGED <<shared, clock, when, unfair>>
  BY DEF RollBack
<1>1. RateTypeOK
  BY DEF RateInv
<1>2. \A q \in Requests : EntryOf(q)' = EntryOf(q)
  BY <1>0 DEF Table, EntryOf
<1>3. RateTypeOK'
  <2>1. IsFiniteSet(entries')
    BY <1>0, <1>1, FS_Subset DEF RateTypeOK
  <2>2. QED BY <1>0, <1>1, <2>1 DEF RateTypeOK
<1>4. EntriesTrue'
  <2>1. \A e \in entries : e.of \in Requests /\ (~shared => e.of # r)
    BY <1>0 DEF RateInv, EntriesTrue
  <2>2. QED BY <1>0, <1>1, <1>2, <2>1 DEF RateInv, EntriesTrue, RateTypeOK
<1>5. AdmittedCounted'
  <2>1. ASSUME NEW q \in Requests, verdict'[q] = "allowed", when'[q] > clock' - RateWindow
        PROVE  EntryOf(q)' \in entries'
    <3>1. q # r /\ EntryOf(q) \in entries
      BY <1>0, <1>1, <2>1 DEF RateInv, AdmittedCounted, RateTypeOK
    <3>2. QED BY <1>0, <1>2, <3>1 DEF EntryOf
  <2>2. QED BY <2>1 DEF AdmittedCounted
<1>6. CheckedBefore'
  BY <1>0, <1>1 DEF RateInv, CheckedBefore, RateTypeOK
<1>7. WindowsHold'
  BY <1>0, NoneMore
<1>8. QED BY <1>0, <1>3, <1>4, <1>5, <1>6, <1>7 DEF RateInv

LEMMA RateNextKeeps == ASSUME RateInv, [RateNext]_rateVars PROVE RateInv'
<1>1. ASSUME NEW r \in Requests, PruneIdentity(Table(r)) PROVE RateInv'
  <2>0. /\ Recent(Table(r)) = {} /\ entries' = Elsewhere(Table(r))
        /\ UNCHANGED <<shared, clock, verdict, when, unfair>>
    BY <1>1 DEF PruneIdentity
  <2>1. \A q \in Requests : EntryOf(q)' = EntryOf(q) /\ Table(q)' = Table(q)
    BY <2>0 DEF Table, EntryOf
  <2>2. entries' \subseteq entries
    BY <2>0 DEF Elsewhere
  <2>3. IsFiniteSet(entries')
    BY <2>2, FS_Subset DEF RateInv, RateTypeOK
  <2>4. AdmittedCounted'
    <3>1. \A q \in Requests : EntryOf(q) \in entries /\ when[q] > clock - RateWindow => EntryOf(q) \in entries'
      BY <2>0 DEF Elsewhere, Recent, EntryOf
    <3>2. QED BY <2>0, <2>1, <3>1 DEF RateInv, AdmittedCounted
  <2>5. EntriesTrue'
    BY <2>0, <2>1, <2>2 DEF RateInv, EntriesTrue
  <2>6. WindowsHold'
    <3>1. \A at, t : Admitted(at, t)' = Admitted(at, t)
      BY <2>0, <2>1 DEF Admitted
    <3>2. QED BY <3>1 DEF RateInv, WindowsHold
  <2>7. QED BY <2>0, <2>3, <2>4, <2>5, <2>6 DEF RateInv, RateTypeOK, CheckedBefore
<1>2. ASSUME RateTick PROVE RateInv'
  <2>0. clock < MaxRateTime /\ clock' = clock + 1 /\ UNCHANGED <<shared, entries, verdict, when, unfair>>
    BY <1>2 DEF RateTick
  <2>1. \A q \in Requests : EntryOf(q)' = EntryOf(q) /\ Table(q)' = Table(q)
    BY <2>0 DEF Table, EntryOf
  <2>2. RateTypeOK'
    BY <2>0, LimitAssumption DEF RateInv, RateTypeOK
  <2>3. clock \in Int /\ clock' = clock + 1 /\ RateWindow \in Int /\ \A q \in Requests : when[q] \in Int /\ when'[q] = when[q]
    BY <2>0, LimitAssumption DEF RateInv, RateTypeOK
  <2>4. EntriesTrue' /\ CheckedBefore'
    BY <2>0, <2>1, <2>3 DEF RateInv, EntriesTrue, CheckedBefore
  <2>5. AdmittedCounted'
    BY <2>0, <2>1, <2>3 DEF RateInv, AdmittedCounted
  <2>6. WindowsHold'
    <3>1. \A at, t : Admitted(at, t)' = Admitted(at, t)
      BY <2>0, <2>1 DEF Admitted
    <3>2. QED BY <3>1 DEF RateInv, WindowsHold
  <2>7. QED BY <2>0, <2>2, <2>4, <2>5, <2>6 DEF RateInv
<1>3. CASE UNCHANGED rateVars
  <2>1. \A q : EntryOf(q)' = EntryOf(q) /\ Table(q)' = Table(q)
    BY <1>3 DEF rateVars, Table, EntryOf
  <2>2. \A at, t : Admitted(at, t)' = Admitted(at, t)
    BY <1>3, <2>1 DEF rateVars, Admitted
  <2>3. QED
    BY <1>3, <2>1, <2>2 DEF rateVars, RateInv, RateTypeOK, EntriesTrue, AdmittedCounted, WindowsHold, CheckedBefore
<1>4. QED BY <1>1, <1>2, <1>3, CheckMemoryKeeps, CheckRedisKeeps, RollBackKeeps DEF RateNext

(* No window of any table ever holds more admitted calls than the limit, and *)
(* who is refused has that many before it or has met a phantom, for every    *)
(* limit, window, number of servers and of requests.                         *)
THEOREM LimitTheorem == RateSpec => []LimitIsExact
<1>1. RateInv => LimitIsExact
  BY TableIsNat DEF RateInv, RateTypeOK, WindowsHold, LimitIsExact
<1>2. QED BY <1>1, RateInitially, RateNextKeeps, PTL DEF RateSpec

----------------------------------------------------------------------------
(* Cooldowns *)

Busy(c) == callerAt[c] \in Saving \cup {"loading"}
\* A table, or a copy of it, with every cooldown that is in force.
Covers(copy) == \A t \in Tier : Skipped(t) => copy[t] >= skip[t]
CooldownTypeOK ==
  /\ cascadeNow \in Nat /\ skip \in [Tier -> Nat] /\ file \in [Tier -> Nat]
  /\ callerAt \in [Thread -> {"idle", "loading", "calling", "failed"} \cup Saving]
  /\ payload \in [Thread -> [Tier -> Nat]]
\* Nobody has begun anything before the first caller has claimed the load.
NobodyBefore == ~loaded => \A c \in Thread : callerAt[c] = "idle"
AloneAtTheFile == \A c, d \in Thread : Busy(c) /\ Busy(d) => c = d
\* While nobody saves the file covers the table, and whoever writes has a copy that does.
FileCovers == (\A c \in Thread : callerAt[c] \notin Saving) => Covers(file)
WriterCovers == \A c \in Thread : callerAt[c] = "built" => Covers(payload[c])
Unspoiled == NobodyBefore /\ AloneAtTheFile /\ FileCovers /\ WriterCovers
CooldownInv == CooldownTypeOK /\ (spoiled \/ Unspoiled)

LEMMA CooldownInitially == CascadeInit => CooldownInv
BY DEF CascadeInit, CooldownInv, CooldownTypeOK, None, Unspoiled, NobodyBefore, AloneAtTheFile,
       FileCovers, WriterCovers, Covers, Skipped, Busy, Saving

\* A thread that goes from one place to another, neither of which has to do with the file.
LEMMA ElsewhereKeeps ==
  ASSUME CooldownInv, NEW c \in Callers, NEW where \in {"idle", "calling", "failed"},
         callerAt[c] \in {"idle", "calling", "failed"}, Goto(c, where),
         callerAt[c] = "idle" => loaded,
         skip' \in [Tier -> Nat], \A t \in Tier : skip'[t] = skip[t] \/ skip'[t] = 0,
         UNCHANGED <<cascadeNow, file, loaded, payload, spoiled>>
  PROVE  CooldownInv'
<1>1. c \in Thread /\ callerAt' = [callerAt EXCEPT ![c] = where]
  BY DEF Goto, Thread
<1>2. CooldownTypeOK'
  BY <1>1 DEF CooldownInv, CooldownTypeOK
<1>3. \A d \in Thread : /\ (d # c => callerAt'[d] = callerAt[d])
                        /\ callerAt'[c] = where
                        /\ (Busy(d)' <=> Busy(d))
                        /\ (callerAt'[d] \in Saving <=> callerAt[d] \in Saving)
                        /\ (callerAt'[d] = "built" <=> callerAt[d] = "built")
  BY <1>1 DEF CooldownInv, CooldownTypeOK, Busy, Saving
<1>4. ASSUME NEW copy \in [Tier -> Nat], Covers(copy)
      PROVE  \A t \in Tier : cascadeNow' < skip'[t] => copy[t] >= skip'[t]
  BY <1>4 DEF CooldownInv, CooldownTypeOK, Covers, Skipped
<1>5. CASE ~spoiled
  <2>1. Unspoiled
    BY <1>5 DEF CooldownInv
  <2>2. NobodyBefore'
    BY <1>3, <2>1 DEF Unspoiled, NobodyBefore
  <2>3. AloneAtTheFile'
    BY <1>3, <2>1 DEF Unspoiled, AloneAtTheFile
  <2>4. FileCovers'
    <3>1. SUFFICES ASSUME \A d \in Thread : callerAt[d] \notin Saving PROVE Covers(file)'
      BY <1>3 DEF FileCovers
    <3>2. Covers(file)
      BY <2>1, <3>1 DEF Unspoiled, FileCovers
    <3>3. QED BY <1>4, <3>2 DEF Covers, Skipped, CooldownInv, CooldownTypeOK
  <2>5. WriterCovers'
    <3>1. SUFFICES ASSUME NEW d \in Thread, callerAt[d] = "built" PROVE Covers(payload[d])'
      BY <1>3 DEF WriterCovers
    <3>2. Covers(payload[d]) /\ payload[d] \in [Tier -> Nat]
      BY <2>1, <3>1 DEF Unspoiled, WriterCovers, CooldownInv, CooldownTypeOK
    <3>3. QED BY <1>4, <3>2 DEF Covers, Skipped
  <2>6. QED BY <1>2, <2>2, <2>3, <2>4, <2>5 DEF CooldownInv, Unspoiled
<1>6. QED BY <1>2, <1>5 DEF CooldownInv

\* From here on, of a step that is not spoiled.
LEMMA SpoiledKeeps == ASSUME CooldownTypeOK', spoiled' PROVE CooldownInv'
BY DEF CooldownInv

LEMMA ClaimLoadKeeps == ASSUME CooldownInv, NEW c \in Callers, ClaimLoad(c) PROVE CooldownInv'
<1>1. c \in Thread /\ callerAt' = [callerAt EXCEPT ![c] = "loading"] /\ ~loaded /\ loaded'
      /\ UNCHANGED <<cascadeNow, skip, file, payload, spoiled>>
  BY DEF ClaimLoad, Goto, Thread, table
<1>2. CooldownTypeOK'
  BY <1>1 DEF CooldownInv, CooldownTypeOK
<1>3. CASE Unspoiled
  <2>1. \A d \in Thread : callerAt[d] = "idle" /\ callerAt'[d] = IF d = c THEN "loading" ELSE "idle"
    BY <1>1, <1>3 DEF Unspoiled, NobodyBefore, CooldownInv, CooldownTypeOK
  <2>2. Covers(file)'
    BY <1>1, <1>3, <2>1 DEF Unspoiled, FileCovers, Saving, Covers, Skipped
  <2>3. QED BY <1>1, <1>2, <2>1, <2>2 DEF CooldownInv, Unspoiled, NobodyBefore, AloneAtTheFile, Busy,
                 Saving, FileCovers, WriterCovers
<1>4. QED BY <1>1, <1>2, <1>3 DEF CooldownInv

LEMMA LoadStateKeeps == ASSUME CooldownInv, NEW c \in Callers, LoadState(c) PROVE CooldownInv'
<1>1. /\ c \in Thread /\ callerAt[c] = "loading" /\ callerAt' = [callerAt EXCEPT ![c] = "idle"]
      /\ skip' = [t \in Tier |-> IF file[t] > cascadeNow THEN file[t] ELSE skip[t]]
      /\ UNCHANGED <<cascadeNow, file, loaded, payload, spoiled>>
  BY DEF LoadState, Goto, Thread
<1>2. CooldownTypeOK'
  BY <1>1 DEF CooldownInv, CooldownTypeOK
<1>3. CASE Unspoiled
  <2>1. \A d \in Thread : callerAt'[d] \notin Saving \cup {"loading"} /\ (d # c => callerAt'[d] = callerAt[d])
    BY <1>1, <1>3 DEF Unspoiled, AloneAtTheFile, Busy, Saving, CooldownInv, CooldownTypeOK
  <2>2. Covers(file)
    BY <1>1, <1>3, <2>1 DEF Unspoiled, FileCovers, Saving
  <2>3. Covers(file)'
    BY <1>1, <2>2 DEF Covers, Skipped, CooldownInv, CooldownTypeOK
  <2>4. NobodyBefore'
    BY <1>1, <1>3, <2>1 DEF Unspoiled, NobodyBefore
  <2>5. QED BY <1>1, <1>2, <2>1, <2>3, <2>4 DEF CooldownInv, Unspoiled, AloneAtTheFile, Busy,
                 Saving, FileCovers, WriterCovers
<1>4. QED BY <1>1, <1>2, <1>3 DEF CooldownInv

\* A thread begins to save, with nobody else at the file.
LEMMA BeginSaveKeeps ==
  ASSUME CooldownInv, NEW c \in Thread, callerAt[c] \in {"idle", "calling"}, Goto(c, "saving"),
         skip' \in [Tier -> Nat], spoiled' = (spoiled \/ Races(c) \/ ~loaded),
         UNCHANGED <<cascadeNow, file, loaded, payload>>
  PROVE  CooldownInv'
<1>1. callerAt' = [callerAt EXCEPT ![c] = "saving"]
  BY DEF Goto
<1>2. CooldownTypeOK'
  BY <1>1 DEF CooldownInv, CooldownTypeOK, Saving
<1>3. CASE Unspoiled /\ ~Races(c) /\ loaded
  <2>1. \A d \in Thread : /\ d # c => ~Busy(d) /\ callerAt'[d] = callerAt[d]
                          /\ callerAt'[c] = "saving"
    BY <1>1, <1>3 DEF Races, Busy, CooldownInv, CooldownTypeOK
  <2>2. QED BY <1>2, <1>3, <2>1 DEF CooldownInv, Unspoiled, NobodyBefore, AloneAtTheFile, Busy,
                 Saving, FileCovers, WriterCovers
<1>4. QED BY <1>2, <1>3, SpoiledKeeps DEF CooldownInv

LEMMA FailTierKeeps ==
  ASSUME CooldownInv, NEW c \in Callers, NEW kind \in Failure, FailTier(c, kind) PROVE CooldownInv'
<1> DEFINE t == Head(plan[c])
<1>1. c \in Thread /\ callerAt[c] = "calling" /\ UNCHANGED <<cascadeNow, loaded, file, payload>>
  BY DEF FailTier, Thread
<1>2. CASE Cools(t, kind)
  <2>1. PICK w \in CoolingWindow[kind] : skip' = [skip EXCEPT ![t] = cascadeNow + w]
    BY <1>2 DEF FailTier
  <2>2. w \in Nat
    BY WindowAssumption
  <2>3. skip' \in [Tier -> Nat]
    <3>1. skip \in [Tier -> Nat] /\ cascadeNow + w \in Nat
      BY <2>2 DEF CooldownInv, CooldownTypeOK
    <3> HIDE DEF t
    <3>2. QED BY <2>1, <3>1
  <2>4. spoiled' = (spoiled \/ Races(c)) /\ Goto(c, "saving")
    BY <1>2 DEF FailTier
  <2>5. CASE spoiled
    <3>1. CooldownTypeOK'
      BY <1>1, <2>3, <2>4 DEF CooldownInv, CooldownTypeOK, Goto, Saving
    <3>2. QED BY <2>4, <2>5, <3>1, SpoiledKeeps
  <2>6. CASE ~spoiled
    <3>1. loaded
      BY <1>1, <2>6 DEF CooldownInv, Unspoiled, NobodyBefore
    <3>2. spoiled' = (spoiled \/ Races(c) \/ ~loaded)
      BY <2>4, <3>1
    <3>3. QED BY <1>1, <2>3, <2>4, <3>2, BeginSaveKeeps
  <2>7. QED BY <2>5, <2>6
<1>3. CASE ~Cools(t, kind)
  <2>1. Goto(c, IF Len(plan[c]) = 1 THEN "failed" ELSE "calling") /\ UNCHANGED <<skip, spoiled>>
    BY <1>3 DEF FailTier
  <2>2. skip' \in [Tier -> Nat]
    BY <2>1 DEF CooldownInv, CooldownTypeOK
  <2> DEFINE where == IF Len(plan[c]) = 1 THEN "failed" ELSE "calling"
  <2>3. where \in {"idle", "calling", "failed"} /\ Goto(c, where)
    BY <2>1
  <2> HIDE DEF where
  <2>4. QED BY <1>1, <2>1, <2>2, <2>3, ElsewhereKeeps
<1>4. QED BY <1>2, <1>3

LEMMA ResetKeeps == ASSUME CooldownInv, Reset PROVE CooldownInv'
<1>1. /\ Operator \in Thread /\ callerAt[Operator] = "idle" /\ Goto(Operator, "saving")
      /\ spoiled' = (spoiled \/ Races(Operator) \/ ~loaded)
      /\ UNCHANGED <<cascadeNow, loaded, file, payload>>
  BY DEF Reset, Thread
<1>2. skip' \in [Tier -> Nat]
  BY DEF Reset, CooldownInv, CooldownTypeOK
<1>3. QED BY <1>1, <1>2, BeginSaveKeeps

LEMMA BuildKeeps == ASSUME CooldownInv, NEW c \in Thread, BuildTier(c) PROVE CooldownInv'
<1>1. /\ callerAt[c] = "saving" /\ callerAt' = [callerAt EXCEPT ![c] = "built"]
      /\ payload' = [payload EXCEPT ![c] = skip]
      /\ UNCHANGED <<cascadeNow, skip, file, loaded, spoiled>>
  BY DEF BuildTier, Goto, table
<1>2. CooldownTypeOK'
  BY <1>1 DEF CooldownInv, CooldownTypeOK, Saving
<1>3. CASE Unspoiled
  <2>1. Covers(skip)
    BY DEF Covers, CooldownInv, CooldownTypeOK
  <2>2. \A d \in Thread : /\ d # c => callerAt'[d] = callerAt[d] /\ ~Busy(d)
                          /\ callerAt'[c] = "built" /\ payload'[c] = skip
    BY <1>1, <1>3 DEF Unspoiled, AloneAtTheFile, Busy, Saving, CooldownInv, CooldownTypeOK
  <2>3. WriterCovers'
    BY <1>1, <2>1, <2>2 DEF WriterCovers, Busy, Saving, Covers, Skipped
  <2>4. QED BY <1>1, <1>2, <1>3, <2>2, <2>3 DEF CooldownInv, Unspoiled, NobodyBefore, AloneAtTheFile,
                 Busy, Saving, FileCovers
<1>4. QED BY <1>1, <1>2, <1>3 DEF CooldownInv

LEMMA WriteKeeps == ASSUME CooldownInv, NEW c \in Thread, WriteState(c) PROVE CooldownInv'
<1> DEFINE where == IF c = Operator THEN "idle" ELSE IF plan[c] = << >> THEN "failed" ELSE "calling"
<1>1. /\ callerAt[c] = "built" /\ callerAt' = [callerAt EXCEPT ![c] = where]
      /\ payload' = [payload EXCEPT ![c] = None]
      /\ (file' = payload[c] /\ UNCHANGED spoiled) \/ (spoiled' = TRUE /\ UNCHANGED file)
      /\ UNCHANGED <<cascadeNow, skip, loaded>>
  BY DEF WriteState, Goto, table
<1>2. where \in {"idle", "failed", "calling"}
  OBVIOUS
<1> HIDE DEF where
<1>3. CooldownTypeOK'
  <2>1. None \in [Tier -> Nat]
    BY DEF None
  <2>2. file' \in [Tier -> Nat] /\ payload' \in [Thread -> [Tier -> Nat]]
    BY <1>1, <2>1 DEF CooldownInv, CooldownTypeOK
  <2>3. QED BY <1>1, <1>2, <2>2 DEF CooldownInv, CooldownTypeOK
<1>4. CASE Unspoiled /\ file' = payload[c] /\ UNCHANGED spoiled
  <2>1. Covers(file)'
    BY <1>1, <1>4 DEF Unspoiled, WriterCovers, Covers, Skipped
  <2>2. \A d \in Thread : /\ d # c => callerAt'[d] = callerAt[d] /\ ~Busy(d)
                          /\ callerAt'[c] = where
    BY <1>1, <1>4 DEF Unspoiled, AloneAtTheFile, Busy, Saving, CooldownInv, CooldownTypeOK
  <2>3. loaded
    BY <1>1, <1>4 DEF Unspoiled, NobodyBefore
  <2>4. QED BY <1>1, <1>2, <1>3, <2>1, <2>2, <2>3 DEF CooldownInv, Unspoiled, NobodyBefore,
                 AloneAtTheFile, Busy, Saving, FileCovers, WriterCovers
<1>5. QED BY <1>1, <1>3, <1>4 DEF CooldownInv

LEMMA RestartKeeps == ASSUME CooldownInv, RestartCascade PROVE CooldownInv'
BY DEF RestartCascade, CooldownInv, CooldownTypeOK, None, Unspoiled, NobodyBefore, AloneAtTheFile,
       FileCovers, WriterCovers, Covers, Skipped, Busy, Saving

LEMMA TickKeeps == ASSUME CooldownInv, CascadeTick PROVE CooldownInv'
<1>1. cascadeNow' = cascadeNow + 1 /\ UNCHANGED <<skip, loaded, file, callerAt, payload, spoiled>>
  BY DEF CascadeTick, table, step
<1>2. \A t \in Tier : Skipped(t)' => Skipped(t)
  BY <1>1 DEF Skipped, CooldownInv, CooldownTypeOK
<1>3. QED BY <1>1, <1>2 DEF CooldownInv, CooldownTypeOK, Unspoiled, NobodyBefore, AloneAtTheFile,
               FileCovers, WriterCovers, Covers, Busy

LEMMA StutterKeeps == ASSUME CooldownInv, UNCHANGED cascadeVars PROVE CooldownInv'
BY DEF cascadeVars, table, step, CooldownInv, CooldownTypeOK, Unspoiled, NobodyBefore,
       AloneAtTheFile, FileCovers, WriterCovers, Covers, Skipped, Busy

LEMMA CascadeNextKeeps == ASSUME CooldownInv, [CascadeNext]_cascadeVars PROVE CooldownInv'
<1>1. ASSUME NEW c \in Callers,
             Choose(c) \/ Succeed(c) \/ Abort(c) \/ PassOver(c) \/ LeaveCascade(c)
      PROVE  CooldownInv'
  <2>0. skip \in [Tier -> Nat]
    BY DEF CooldownInv, CooldownTypeOK
  <2>1. CASE Choose(c)
    <3>1. callerAt[c] = "idle" /\ loaded /\ UNCHANGED <<cascadeNow, skip, loaded, file, payload, spoiled>>
          /\ (Goto(c, "failed") \/ Goto(c, "calling"))
      BY <2>1 DEF Choose, table
    <3>2. QED BY <2>0, <3>1, ElsewhereKeeps
  <2>2. CASE Succeed(c)
    <3>1. callerAt[c] = "calling" /\ skip' = [skip EXCEPT ![Head(plan[c])] = 0] /\ Goto(c, "idle")
          /\ UNCHANGED <<cascadeNow, loaded, file, payload, spoiled>>
      BY <2>2 DEF Succeed
    <3>2. skip' \in [Tier -> Nat] /\ \A t \in Tier : skip'[t] = skip[t] \/ skip'[t] = 0
      BY <2>0, <3>1
    <3>3. QED BY <3>1, <3>2, ElsewhereKeeps
  <2>3. CASE Abort(c)
    <3>1. callerAt[c] = "calling" /\ Goto(c, "idle")
          /\ UNCHANGED <<cascadeNow, skip, loaded, file, payload, spoiled>>
      BY <2>3 DEF Abort, table
    <3>2. QED BY <2>0, <3>1, ElsewhereKeeps
  <2>4. CASE PassOver(c)
    <3>1. callerAt[c] = "calling" /\ (Goto(c, "failed") \/ Goto(c, "calling"))
          /\ UNCHANGED <<cascadeNow, skip, loaded, file, payload, spoiled>>
      BY <2>4 DEF PassOver, table
    <3>2. QED BY <2>0, <3>1, ElsewhereKeeps
  <2>5. CASE LeaveCascade(c)
    <3>1. callerAt[c] = "failed" /\ Goto(c, "idle")
          /\ UNCHANGED <<cascadeNow, skip, loaded, file, payload, spoiled>>
      BY <2>5 DEF LeaveCascade, table
    <3>2. QED BY <2>0, <3>1, ElsewhereKeeps
  <2>6. QED BY <1>1, <2>1, <2>2, <2>3, <2>4, <2>5
<1>2. QED BY <1>1, ClaimLoadKeeps, LoadStateKeeps, FailTierKeeps, ResetKeeps, BuildKeeps, WriteKeeps,
               TickKeeps, RestartKeeps, StutterKeeps DEF CascadeNext, Thread

(* A cooldown outlives the process: when no one is saving the file holds    *)
(* all that are in force, for any tiers, callers and windows, unless a save *)
(* failed, met another, or came before the file was loaded.                 *)
THEOREM CooldownTheorem == CascadeSpec => []CooldownSurvivesUnlessSpoiled
<1>1. CooldownInv => CooldownSurvivesUnlessSpoiled
  BY DEF CooldownInv, Unspoiled, FileCovers, Covers, CooldownSurvivesUnlessSpoiled
<1>2. QED BY <1>1, CooldownInitially, CascadeNextKeeps, PTL DEF CascadeSpec

----------------------------------------------------------------------------
(* The pages of a browser *)

Calls == {"none", "me", "probe", "login", "change", "logout", "everywhere", "write"}
Call == [kind : Calls, status : {"none", "sent", "ok", "401", "403", "lost"}, token : Nat,
         marked : BOOLEAN, user : Users \cup {Visitor}]
PageType == [mem : Nat, shown : Users \cup {Visitor}, call : Call, goal : Calls \cup {"load"}, upset : BOOLEAN]

\* A cookie that does not stick is never in the jar.
DoorTypeOK ==
  /\ deployment \in Deployments
  /\ owner \in Seq(Users) /\ live \subseteq 1..Len(owner)
  /\ jar \in Nat /\ kept \in Nat /\ (~Sticks => jar = 0)

BearerOf(p) == IF p.mem # 0 THEN p.mem ELSE kept
PresentedBy(p) == IF BearerOf(p) # 0 THEN BearerOf(p) ELSE jar
Foreign(p) == deployment.cross /\ BearerOf(p) = 0 /\ jar # 0

\* What a page shows is whom its calls act for; and a reload would act for the same.
Truthful(p) == ~Foreign(p) => ActsFor(PresentedBy(p)) = p.shown
Loyal(p) ==
  \/ p.mem = 0 \/ p.mem = kept
  \/ kept = 0 /\ IF Sticks THEN jar = p.mem ELSE (deployment.private => deployment.pinned)

\* What a call that was sent or answered means to the page that waits for it.
Steady(p) ==
  LET c == p.call IN
  /\ c.status # "lost"
  /\ c.kind \in {"none", "write"} \/ (c.kind \in {"login", "change"} /\ c.status # "ok") => Truthful(p) /\ Loyal(p)
  /\ c.kind \in {"login", "change"} /\ c.status = "ok" =>
       c.token \in live /\ (c.kind = "change" => p.shown = owner[c.token])
  /\ c.kind = "login" => p.goal = "login"
  /\ c.status = "sent" /\ c.kind # "probe" => c.token = PresentedBy(p) /\ (c.marked <=> ~Foreign(p))
  /\ c.kind = "logout" => c.status \in {"sent", "ok"} \/ Foreign(p)
  /\ c.kind = "probe" =>
       /\ p.mem \in live /\ kept = 0 /\ (Sticks => jar = p.mem)
       /\ p.goal # "login" => p.shown = owner[p.mem]
       /\ IF c.status = "sent" THEN c.token = jar ELSE (c.status = "401" <=> Identity(jar) = "refused")
  /\ c.kind = "me" =>
       /\ Loyal(p) /\ (p.goal = "login" => p.mem \in live)
       /\ c.status # "sent" => c.user = ActsFor(PresentedBy(p))

\* Who logs in gives a name.
Named(p) == p.call.kind = "login" /\ p.call.status = "sent" => p.call.user \in Users

DoorInv ==
  /\ DoorTypeOK /\ tabs \in [Tabs -> PageType]
  /\ \A t \in Tabs : Named(tabs[t]) /\ (tabs[t].upset \/ Steady(tabs[t]))

LEMMA IdentityType ==
  ASSUME DoorTypeOK, NEW token \in Nat
  PROVE  /\ Identity(token) \in Users \cup {Visitor, "refused"} /\ ActsFor(token) \in Users \cup {Visitor}
         /\ token \in live => Identity(token) = owner[token] /\ owner[token] \in Users
         /\ Identity(0) \notin Users
         /\ Identity(0) # "refused" => (deployment.private => deployment.pinned)
<1>1. token \in live => owner[token] \in Users /\ token # 0
  BY DEF DoorTypeOK
<1>2. 0 \notin live
  BY DEF DoorTypeOK
<1>3. QED BY <1>1, <1>2, DeploymentsAssumption DEF Identity, ActsFor

LEMMA PageFields ==
  ASSUME NEW p \in PageType
  PROVE  /\ p.mem \in Nat /\ p.shown \in Users \cup {Visitor} /\ p.call \in Call
         /\ p.goal \in Calls \cup {"load"} /\ p.upset \in BOOLEAN
         /\ p.call.kind \in Calls /\ p.call.token \in Nat /\ p.call.marked \in BOOLEAN
         /\ p.call.user \in Users \cup {Visitor}
BY DEF PageType, Call

\* The steps of a page, by what becomes of each part of it.
LEMMA UpsetPage ==
  ASSUME NEW p \in PageType
  PROVE  /\ [p EXCEPT !.upset = TRUE] \in PageType /\ [p EXCEPT !.upset = TRUE].upset
         /\ [p EXCEPT !.upset = TRUE].call = p.call
BY DEF PageType

LEMMA IdlingType == Idling \in Call /\ Idling.kind = "none" /\ Idling.status = "none"
BY DEF Idling, Call, Calls

LEMMA RestingPage ==
  ASSUME NEW p \in PageType
  PROVE  \E q \in PageType : /\ q = Rests(p) /\ q.call = Idling /\ q.mem = p.mem /\ q.shown = p.shown
                             /\ q.upset = p.upset
<1> DEFINE q == [p EXCEPT !.call = Idling, !.goal = "none"]
<1>1. /\ q \in PageType /\ q.call = Idling /\ q.mem = p.mem /\ q.shown = p.shown /\ q.upset = p.upset
  BY IdlingType DEF PageType, Calls
<1>2. q = Rests(p)
  BY DEF Rests
<1> HIDE DEF q
<1>3. QED BY <1>1, <1>2

\* A page that sends a call, with the credentials it has by then.
Sends(q, p, kind, user, goal) ==
  /\ q.mem = (IF p.mem # 0 THEN p.mem ELSE kept') /\ q.shown = p.shown /\ q.goal = goal /\ q.upset = p.upset
  /\ q.call.kind = kind /\ q.call.status = "sent" /\ q.call.user = user
  /\ q.call.token = (IF q.mem # 0 THEN q.mem ELSE jar')
  /\ q.call.marked <=> (q.mem # 0 \/ jar' = 0 \/ ~deployment.cross)

LEMMA CallingPage ==
  ASSUME NEW p \in PageType, NEW kind \in Calls, NEW user \in Users \cup {Visitor}, NEW goal \in Calls \cup {"load"},
         kept' \in Nat, jar' \in Nat
  PROVE  \E q \in PageType : /\ q = [Calling(p, kind, user) EXCEPT !.goal = goal]
                             /\ goal = p.goal => q = Calling(p, kind, user)
                             /\ Sends(q, p, kind, user, goal)
<1> DEFINE bearer == IF p.mem # 0 THEN p.mem ELSE kept'
           c == CallOf(kind, bearer, jar', user)
           q == [p EXCEPT !.mem = bearer, !.call = c, !.goal = goal]
<1>1. bearer \in Nat
  BY PageFields
<1>2. /\ c \in Call /\ c.kind = kind /\ c.status = "sent" /\ c.user = user
      /\ c.token = (IF bearer # 0 THEN bearer ELSE jar')
      /\ c.marked <=> (bearer # 0 \/ jar' = 0 \/ ~deployment.cross)
  <2> HIDE DEF bearer
  <2>1. Marked(bearer, jar') \in BOOLEAN
    BY DEF Marked
  <2>2. QED BY <1>1, <2>1 DEF CallOf, Call, Marked
<1>3. Calling(p, kind, user) = [p EXCEPT !.mem = bearer, !.call = c]
  BY DEF Calling
<1> HIDE DEF bearer, c
<1>4. /\ q \in PageType /\ q.mem = bearer /\ q.shown = p.shown /\ q.call = c /\ q.goal = goal /\ q.upset = p.upset
      /\ q = [[p EXCEPT !.mem = bearer, !.call = c] EXCEPT !.goal = goal]
      /\ goal = p.goal => q = [p EXCEPT !.mem = bearer, !.call = c]
  BY <1>1, <1>2 DEF PageType
<1> HIDE DEF q
<1>5. Sends(q, p, kind, user, goal)
  BY <1>2, <1>4 DEF bearer, Sends
<1>6. QED BY <1>3, <1>4, <1>5

\* A page that has an answer.
Answers(q, p, status, token, user) ==
  /\ q.mem = p.mem /\ q.shown = p.shown /\ q.goal = p.goal /\ q.upset = p.upset
  /\ q.call.kind = p.call.kind /\ q.call.marked = p.call.marked
  /\ q.call.status = status /\ q.call.token = token /\ q.call.user = user

LEMMA AnsweredPage ==
  ASSUME NEW p \in PageType, NEW status \in {"ok", "401", "403"}, NEW token \in Nat, NEW user \in Users \cup {Visitor}
  PROVE  \E q \in PageType :
           /\ q = [p EXCEPT !.call.status = status, !.call.token = token, !.call.user = user]
           /\ Answers(q, p, status, token, user)
<1> DEFINE c == [p.call EXCEPT !.status = status, !.token = token, !.user = user]
           q == [p EXCEPT !.call = c]
<1>1. /\ c \in Call /\ c.kind = p.call.kind /\ c.marked = p.call.marked
      /\ c.status = status /\ c.token = token /\ c.user = user
  BY PageFields DEF Call
<1>2. q = [p EXCEPT !.call.status = status, !.call.token = token, !.call.user = user]
  BY DEF PageType
<1> HIDE DEF c
<1>3. q \in PageType /\ q.call = c /\ q.mem = p.mem /\ q.shown = p.shown /\ q.goal = p.goal /\ q.upset = p.upset
  BY <1>1 DEF PageType
<1> HIDE DEF q
<1>4. QED BY <1>1, <1>2, <1>3 DEF Answers

\* A step of one page, and what it means to the others.
LEMMA TurnKeeps ==
  ASSUME DoorInv, NEW t \in Tabs, NEW q \in PageType, Turns(t, q), UNCHANGED deployment, DoorTypeOK',
         owner' = owner \/ live' # live, q.upset \/ Steady(q)', Named(q)
  PROVE  DoorInv'
<1>1. tabs \in [Tabs -> PageType]
  BY DEF DoorInv
<1>2. tabs' \in [Tabs -> PageType] /\ tabs'[t] = q
  BY <1>1, UpsetPage DEF Turns
<1>3. ASSUME NEW s \in Tabs \ {t} PROVE (Named(tabs[s]) /\ (tabs[s].upset \/ Steady(tabs[s])))'
  <2>1. CASE Shared' # Shared \/ live' # live
    BY <1>1, <2>1, UpsetPage DEF Turns, DoorInv, Named
  <2>2. CASE Shared' = Shared /\ live' = live
    <3>1. tabs'[s] = tabs[s] /\ UNCHANGED <<jar, kept, live, owner, deployment>>
      BY <2>2 DEF Turns, Shared
    <3>2. Named(tabs[s]) /\ (tabs[s].upset \/ Steady(tabs[s]))
      BY DEF DoorInv
    <3>3. QED BY <3>1, <3>2 DEF Named, Steady, Truthful, Loyal, Foreign, PresentedBy, BearerOf, ActsFor, Identity, Sticks
  <2>3. QED BY <2>1, <2>2
<1>4. (Named(tabs[t]) /\ (tabs[t].upset \/ Steady(tabs[t])))'
  BY <1>2
<1>5. QED BY <1>2, <1>3, <1>4 DEF DoorInv

\* Calls that a page at rest, or a failed change, sends for the credentials it holds.
LEMMA SentSteady ==
  ASSUME NEW p \in PageType, NEW q \in PageType, UNCHANGED <<deployment, live, owner, jar, kept>>,
         NEW kind \in {"login", "change", "logout", "everywhere", "write"}, NEW user, NEW goal,
         Steady(p), p.call.kind \in {"none", "write"}, Sends(q, p, kind, user, goal), kind = "login" => goal = "login"
  PROVE  Steady(q)'
<1>1. Truthful(p) /\ Loyal(p)
  BY DEF Steady
<1>2. /\ BearerOf(q)' = BearerOf(p) /\ PresentedBy(q)' = PresentedBy(p)
      /\ BearerOf(q)' = q.mem
  BY DEF BearerOf, PresentedBy, Sends
<1>3. Foreign(q)' <=> Foreign(p)
  BY <1>2 DEF Foreign
<1>4. \A token : ActsFor(token)' = ActsFor(token)
  BY DEF ActsFor, Identity
<1>5. Truthful(q)'
  BY <1>1, <1>2, <1>3, <1>4 DEF Truthful, Sends
<1>6. Loyal(q)'
  BY <1>1 DEF Loyal, Sticks, Sends
<1>7. q.call.token = PresentedBy(q)' /\ (q.call.marked <=> ~Foreign(q)')
  BY <1>2 DEF PresentedBy, Foreign, Sends
<1>8. QED BY <1>5, <1>6, <1>7 DEF Steady, Sends

LEMMA PressKeeps ==
  ASSUME DoorInv, NEW t \in Tabs, NEW goal \in Calls \cup {"load"},
         NEW kind \in {"login", "change", "logout", "everywhere", "write"}, NEW u \in Users \cup {Visitor},
         kind = "login" => goal = "login" /\ u \in Users,
         tabs[t].call.kind \in {"none", "write"}, UNCHANGED <<deployment, live, owner, jar, kept>>,
         Turns(t, [Calling(tabs[t], kind, u) EXCEPT !.goal = goal])
  PROVE  DoorInv'
<1>1. tabs[t] \in PageType /\ (tabs[t].upset \/ Steady(tabs[t])) /\ DoorTypeOK /\ kind \in Calls
      /\ kept' \in Nat /\ jar' \in Nat
  BY DEF DoorInv, DoorTypeOK, Calls
<1>2. PICK q \in PageType :
        /\ q = [Calling(tabs[t], kind, u) EXCEPT !.goal = goal]
        /\ Sends(q, tabs[t], kind, u, goal)
  BY <1>1, CallingPage, Zenon
<1>3. Turns(t, q)
  BY <1>2
<1>4. (q.upset \/ Steady(q)') /\ Named(q)
  BY <1>1, <1>2, SentSteady DEF Sends, Named
<1>5. DoorTypeOK'
  BY <1>1 DEF DoorTypeOK, Sticks
<1>6. QED BY <1>3, <1>4, <1>5, TurnKeeps

LEMMA LoadKeeps == ASSUME DoorInv, NEW t \in Tabs, LoadPage(t) PROVE DoorInv'
<1>1. DoorTypeOK /\ UNCHANGED <<deployment, live, owner, jar, kept>> /\ kept' \in Nat /\ jar' \in Nat
  BY DEF DoorInv, DoorTypeOK, LoadPage, registered, Shared
<1>2. Page \in PageType /\ Page.mem = 0
  BY IdlingType DEF Page, PageType, Calls
<1>3. PICK q \in PageType :
        /\ q = [Calling(Page, "me", Visitor) EXCEPT !.goal = "load"]
        /\ Sends(q, Page, "me", Visitor, "load")
  <2>1. "me" \in Calls /\ Visitor \in Users \cup {Visitor} /\ "load" \in Calls \cup {"load"}
    BY DEF Calls
  <2>2. QED BY <1>1, <1>2, <2>1, CallingPage, Zenon
<1>4. Turns(t, q)
  BY <1>3 DEF LoadPage
<1>5. /\ PresentedBy(q)' = q.call.token /\ Loyal(q)'
      /\ q.call.marked <=> ~Foreign(q)'
  BY <1>1, <1>2, <1>3 DEF PresentedBy, BearerOf, Loyal, Foreign, Sends
<1>6. Steady(q)' /\ Named(q)
  BY <1>3, <1>5 DEF Steady, Sends, Named
<1>7. DoorTypeOK'
  BY <1>1 DEF DoorTypeOK, Sticks
<1>8. QED BY <1>1, <1>4, <1>6, <1>7, TurnKeeps

\* A session that is opened: its token is new, and whose the others are stays.
LEMMA Opens ==
  ASSUME DoorTypeOK, NEW u \in Users, NEW stay \in SUBSET live, OpenSession(u, stay),
         UNCHANGED <<deployment, jar, kept>>
  PROVE  /\ DoorTypeOK' /\ live' # live
         /\ Len(owner') \in Nat /\ Len(owner') \in live' /\ owner'[Len(owner')] = u
<1>1. owner' \in Seq(Users) /\ Len(owner') = Len(owner) + 1 /\ owner'[Len(owner')] = u
  BY AppendProperties DEF DoorTypeOK, OpenSession
<1>2. live' \subseteq 1..Len(owner') /\ Len(owner') \in live' /\ Len(owner') \notin live
  <2>1. Len(owner) \in Nat /\ live' = stay \cup {Len(owner) + 1} /\ live \subseteq 1..Len(owner)
    BY DEF DoorTypeOK, OpenSession
  <2>2. PICK n \in Nat : n = Len(owner) /\ Len(owner') = n + 1 /\ live' = stay \cup {n + 1} /\ live \subseteq 1..n
    BY <1>1, <2>1
  <2>3. stay \subseteq 1..n /\ n + 1 \notin live
    BY <2>2
  <2>4. live' \subseteq 1..(n + 1)
    <3>1. 1..n \subseteq 1..(n + 1) /\ n + 1 \in 1..(n + 1)
      OBVIOUS
    <3>2. stay \subseteq 1..(n + 1)
      BY <2>3, <3>1, Zenon
    <3>3. QED BY <2>2, <3>1, <3>2, Zenon
  <2>5. QED BY <2>2, <2>3, <2>4
<1>3. QED BY <1>1, <1>2 DEF DoorTypeOK, Sticks

LEMMA ServeKeeps == ASSUME DoorInv, NEW t \in Tabs, ServeCall(t) PROVE DoorInv'
<1> DEFINE p == tabs[t]
           c == p.call
           who == Identity(c.token)
           unsafe == c.kind \notin {"me", "probe", "login"}
           refusal == IF unsafe /\ ~c.marked THEN "403" ELSE IF who = "refused" THEN "401" ELSE "ok"
<1>1. p \in PageType /\ Named(p) /\ (p.upset \/ Steady(p)) /\ DoorTypeOK /\ c.token \in Nat
  BY PageFields DEF DoorInv
<1>2. c.status = "sent" /\ UNCHANGED <<deployment, jar, kept>>
  BY DEF ServeCall, Shared
<1>3. /\ refusal \in {"ok", "401", "403"} /\ (IF who \in Users THEN who ELSE Visitor) = ActsFor(c.token)
      /\ ActsFor(c.token) \in Users \cup {Visitor}
  BY <1>1, IdentityType DEF ActsFor
<1>4. CASE UNCHANGED registered
  <2>1. DoorTypeOK' /\ UNCHANGED <<live, owner>>
    BY <1>1, <1>2, <1>4 DEF DoorTypeOK, Sticks, registered
  <2>2. PICK status \in {"ok", "401", "403"}, user \in Users \cup {Visitor} :
          /\ Answer(t, status, 0, user)
          /\ \/ c.kind \in {"me", "probe", "write"} /\ status = refusal /\ user = ActsFor(c.token)
             \/ c.kind = "login" /\ status # "ok"
             \/ c.kind = "change" /\ status # "ok"
             \/ c.kind = "everywhere"
             \/ c.kind = "logout" /\ (status = "ok" \/ ~c.marked)
    <3>1. CASE c.kind \in {"me", "probe", "write"} /\ Answer(t, refusal, 0, IF who \in Users THEN who ELSE Visitor)
      <4>1. Answer(t, refusal, 0, ActsFor(c.token))
        BY <1>3, <3>1
      <4> HIDE DEF refusal
      <4>2. QED BY <1>3, <3>1, <4>1
    <3>2. CASE c.kind = "login" /\ Answer(t, "401", 0, Visitor)
      BY <3>2
    <3>3. CASE /\ c.kind \in {"change", "everywhere"}
               /\ Answer(t, IF refusal = "ok" THEN "401" ELSE refusal, 0, Visitor)
      <4>1. PICK status \in {"401", "403"} : status = IF refusal = "ok" THEN "401" ELSE refusal
        BY <1>3
      <4> HIDE DEF refusal
      <4>2. Answer(t, status, 0, Visitor)
        BY <3>3, <4>1
      <4>3. QED BY <3>3, <4>2
    <3>4. CASE c.kind = "logout" /\ (Answer(t, "ok", 0, Visitor) \/ (~c.marked /\ Answer(t, "403", 0, Visitor)))
      BY <3>4
    <3>5. CASE c.kind \in {"login", "change"} /\ \E u \in {c.user, who} : \E stay \in SUBSET live : OpenSession(u, stay)
      <4>1. Len(owner') = Len(owner) + 1
        BY <1>1, <3>5 DEF OpenSession, DoorTypeOK
      <4>2. QED BY <1>1, <2>1, <4>1 DEF DoorTypeOK
    <3>6. CASE c.kind = "everywhere" /\ Answer(t, "ok", 0, Visitor)
      BY <3>6
    <3>7. QED BY <3>1, <3>2, <3>3, <3>4, <3>5, <3>6 DEF ServeCall, TokensFor
  <2>3. PICK q \in PageType :
          /\ q = [p EXCEPT !.call.status = status, !.call.token = 0, !.call.user = user]
          /\ Answers(q, p, status, 0, user)
    <3>1. 0 \in Nat
      OBVIOUS
    <3>2. QED BY <1>1, <3>1, AnsweredPage, Zenon
  <2>4. Turns(t, q)
    BY <2>2, <2>3 DEF Answer
  <2>5. ASSUME Steady(p) PROVE Steady(q)'
    <3>1. /\ Foreign(q)' <=> Foreign(p)
          /\ PresentedBy(q)' = PresentedBy(p)
          /\ Loyal(q)' <=> Loyal(p)
      BY <1>2, <2>3 DEF Foreign, BearerOf, PresentedBy, Loyal, Sticks, Answers
    <3>2. \A token : ActsFor(token)' = ActsFor(token) /\ Identity(token)' = Identity(token)
      BY <1>2, <2>1 DEF ActsFor, Identity
    <3>3. Truthful(q)' <=> Truthful(p)
      BY <2>3, <3>1, <3>2 DEF Truthful, Answers
    <3>4. c.kind = "me" => c.token = PresentedBy(p)
      BY <1>2, <2>5 DEF Steady
    <3>5. c.kind = "probe" => c.token = jar /\ (status = "401" <=> Identity(jar) = "refused")
      BY <1>2, <2>2, <2>5 DEF Steady
    <3>6. c.kind = "logout" => status = "ok" \/ Foreign(p)
      BY <1>2, <2>2, <2>5 DEF Steady
    <3>7. c.kind \in {"login", "change"} => status # "ok"
      BY <2>2
    <3>8. c.kind = "me" => user = ActsFor(PresentedBy(p))
      BY <2>2, <3>4
    <3>9. Sticks' <=> Sticks
      BY <1>2 DEF Sticks
    <3>10. QED BY <1>2, <2>1, <2>3, <2>5, <3>1, <3>2, <3>3, <3>5, <3>6, <3>7, <3>8, <3>9 DEF Steady, Answers
  <2>6. (q.upset \/ Steady(q)') /\ Named(q)
    BY <1>1, <2>3, <2>5 DEF Answers, Named
  <2>7. QED BY <1>2, <2>1, <2>4, <2>6, TurnKeeps
<1>5. ASSUME NEW u \in Users, NEW stay \in SUBSET live, OpenSession(u, stay), Answer(t, "ok", Len(owner'), u),
             \/ c.kind = "login"
             \/ c.kind = "change" /\ refusal = "ok" /\ who = u
      PROVE  DoorInv'
  <2>1. /\ DoorTypeOK' /\ live' # live
        /\ Len(owner') \in Nat /\ Len(owner') \in live' /\ owner'[Len(owner')] = u
    BY <1>1, <1>2, <1>5, Opens
  <2>2. PICK token \in Nat : token = Len(owner')
    BY <2>1
  <2>3. PICK q \in PageType :
          /\ q = [p EXCEPT !.call.status = "ok", !.call.token = token, !.call.user = u]
          /\ Answers(q, p, "ok", token, u)
    BY <1>1, AnsweredPage, Zenon
  <2>4. Turns(t, q)
    BY <1>5, <2>2, <2>3 DEF Answer
  <2>5. ASSUME Steady(p), c.kind = "change" PROVE q.shown = u
    <3>1. c.marked /\ c.token = PresentedBy(p) /\ ~Foreign(p) /\ Truthful(p)
      BY <1>2, <1>5, <2>5 DEF Steady
    <3>2. ActsFor(c.token) = u
      BY <1>5, <2>5 DEF ActsFor
    <3>3. QED BY <2>3, <3>1, <3>2 DEF Truthful, Answers
  <2>6. ASSUME Steady(p) PROVE Steady(q)'
    BY <1>5, <2>1, <2>2, <2>3, <2>5, <2>6 DEF Steady, Answers
  <2>7. (q.upset \/ Steady(q)') /\ Named(q)
    BY <1>1, <2>3, <2>6 DEF Answers, Named
  <2>8. QED BY <1>2, <2>1, <2>4, <2>7, TurnKeeps
<1>6. CASE /\ c.kind \in {"everywhere", "logout"} /\ live' \subseteq live /\ UNCHANGED owner
           /\ Answer(t, "ok", 0, Visitor)
  <2>1. DoorTypeOK'
    BY <1>1, <1>2, <1>6 DEF DoorTypeOK, Sticks
  <2>2. PICK q \in PageType :
          /\ q = [p EXCEPT !.call.status = "ok", !.call.token = 0, !.call.user = Visitor]
          /\ Answers(q, p, "ok", 0, Visitor)
    <3>1. 0 \in Nat
      OBVIOUS
    <3>2. QED BY <1>1, <3>1, AnsweredPage, Zenon
  <2>3. Turns(t, q)
    BY <1>6, <2>2 DEF Answer
  <2>4. Steady(q)' /\ Named(q)
    BY <1>6, <2>2 DEF Steady, Answers, Named
  <2>5. QED BY <1>2, <1>6, <2>1, <2>3, <2>4, TurnKeeps
<1>7. CASE c.kind = "login" /\ OpenSession(c.user, live) /\ Answer(t, "ok", Len(owner'), c.user)
  <2>1. c.user \in Users
    BY <1>1, <1>2, <1>7 DEF Named
  <2>2. QED BY <1>5, <1>7, <2>1
<1>8. CASE /\ c.kind = "change" /\ refusal = "ok" /\ who \in Users
           /\ OpenSession(who, live \ TokensFor(who)) /\ Answer(t, "ok", Len(owner'), who)
  <2>1. live \ TokensFor(who) \in SUBSET live
    OBVIOUS
  <2> HIDE DEF who
  <2>2. QED BY <1>5, <1>8, <2>1
<1>9. QED BY <1>4, <1>6, <1>7, <1>8 DEF ServeCall

\* A page that comes to rest, and what it has to be sure of by then.
LEMMA RestKeeps ==
  ASSUME DoorInv, NEW t \in Tabs, NEW r \in PageType, Turns(t, Rests(r)), UNCHANGED <<deployment, owner, live>>,
         DoorTypeOK', r.upset \/ (Truthful(r)' /\ Loyal(r)')
  PROVE  DoorInv'
<1>1. PICK q \in PageType : /\ q = Rests(r) /\ q.call = Idling /\ q.mem = r.mem /\ q.shown = r.shown
                            /\ q.upset = r.upset
  BY RestingPage
<1>2. Turns(t, q)
  BY <1>1
<1>3. ASSUME Truthful(r)', Loyal(r)' PROVE Steady(q)'
  <2>1. Truthful(q)' /\ Loyal(q)'
    BY <1>1, <1>3 DEF Truthful, Loyal, Foreign, PresentedBy, BearerOf
  <2>2. QED BY <1>1, <2>1, IdlingType DEF Steady
<1>4. (q.upset \/ Steady(q)') /\ Named(q)
  BY <1>1, <1>3, IdlingType DEF Named
<1>5. QED BY <1>2, <1>4, TurnKeeps

LEMMA ProbedKeeps ==
  ASSUME DoorInv, NEW t \in Tabs, UNCHANGED <<deployment, owner, live>>, tabs[t].call.status \notin {"none", "sent"},
         Probed(t)
  PROVE  DoorInv'
<1>0. PICK p \in PageType : p = tabs[t]
  BY DEF DoorInv
<1> DEFINE c == p.call
<1>1. p \in PageType /\ (p.upset \/ Steady(p)) /\ DoorTypeOK /\ p.mem \in Nat /\ p.goal \in Calls \cup {"load"}
  BY <1>0, PageFields DEF DoorInv
<1>2. /\ c.kind = "probe" /\ c.status # "sent" /\ UNCHANGED jar
      /\ kept' = IF Persists(c.status) THEN p.mem ELSE kept
      /\ Turns(t, IF p.goal = "login" THEN Calling(p, "me", Visitor) ELSE Rests(p))
  BY <1>0 DEF Probed
<1>3. DoorTypeOK' /\ kept' \in Nat /\ jar' \in Nat
  BY <1>1, <1>2 DEF DoorTypeOK, Sticks
<1>4. ASSUME Steady(p)
      PROVE  /\ p.mem \in live /\ p.mem # 0 /\ Loyal(p)' /\ BearerOf(p)' = p.mem /\ PresentedBy(p)' = p.mem
             /\ ~Foreign(p)' /\ ActsFor(p.mem)' = owner[p.mem] /\ (p.goal # "login" => p.shown = owner[p.mem])
  <2>1. /\ p.mem \in live /\ kept = 0 /\ (Sticks => jar = p.mem) /\ c.status # "lost"
        /\ p.goal # "login" => p.shown = owner[p.mem]
        /\ c.status = "401" <=> Identity(jar) = "refused"
    BY <1>2, <1>4 DEF Steady
  <2>2. p.mem # 0
    BY <1>1, <2>1 DEF DoorTypeOK
  <2>3. kept' = IF c.status = "401" THEN p.mem ELSE 0
    BY <1>2, <2>1 DEF Persists
  <2>4. c.status # "401" /\ ~Sticks => (deployment.private => deployment.pinned)
    BY <1>1, <2>1, IdentityType DEF DoorTypeOK
  <2>5. Loyal(p)'
    BY <1>2, <2>1, <2>3, <2>4 DEF Loyal, Sticks
  <2>6. ActsFor(p.mem)' = owner[p.mem]
    <3>1. ActsFor(p.mem) = owner[p.mem]
      BY <1>1, <2>1, IdentityType DEF ActsFor
    <3>2. QED BY <3>1 DEF ActsFor, Identity
  <2>7. QED BY <2>1, <2>2, <2>5, <2>6 DEF BearerOf, PresentedBy, Foreign
<1>5. CASE p.goal = "login"
  <2>1. PICK q \in PageType : q = Calling(p, "me", Visitor) /\ Sends(q, p, "me", Visitor, p.goal)
    <3>1. "me" \in Calls /\ Visitor \in Users \cup {Visitor}
      BY DEF Calls
    <3>2. QED BY <1>1, <1>3, <3>1, CallingPage, Zenon
  <2>2. Turns(t, q)
    BY <1>2, <1>5, <2>1
  <2>3. ASSUME Steady(p) PROVE Steady(q)'
    <3>1. q.mem = p.mem
      BY <1>4, <2>1, <2>3 DEF Sends
    <3>2. PresentedBy(q)' = p.mem /\ Loyal(q)' /\ ~Foreign(q)'
      BY <1>4, <2>3, <3>1 DEF PresentedBy, BearerOf, Loyal, Foreign
    <3>3. q.call.token = p.mem /\ q.call.marked
      BY <1>4, <2>1, <2>3, <3>1 DEF Sends
    <3>4. QED BY <1>4, <2>1, <2>3, <3>1, <3>2, <3>3 DEF Steady, Sends
  <2>4. (q.upset \/ Steady(q)') /\ Named(q)
    BY <1>1, <2>1, <2>3 DEF Sends, Named
  <2>5. QED BY <1>3, <2>2, <2>4, TurnKeeps
<1>6. CASE p.goal # "login"
  <2>1. Turns(t, Rests(p))
    BY <1>2, <1>6
  <2>2. p.upset \/ (Truthful(p)' /\ Loyal(p)')
    BY <1>1, <1>4, <1>6 DEF Truthful
  <2>3. QED BY <1>1, <1>3, <2>1, <2>2, RestKeeps
<1>7. QED BY <1>5, <1>6

LEMMA LearnsKeeps ==
  ASSUME DoorInv, NEW t \in Tabs, UNCHANGED <<deployment, owner, live>>, tabs[t].call.status \notin {"none", "sent"},
         Learns(t)
  PROVE  DoorInv'
<1>0. PICK p \in PageType : p = tabs[t]
  BY DEF DoorInv
<1> DEFINE c == p.call
           name == IF c.status = "lost" THEN p.shown ELSE c.user
           stuck == p.goal = "login" /\ name = Visitor
           r == [p EXCEPT !.shown = name, !.mem = IF stuck THEN 0 ELSE p.mem]
<1>1. /\ p \in PageType /\ (p.upset \/ Steady(p)) /\ DoorTypeOK /\ p.mem \in Nat
      /\ c.user \in Users \cup {Visitor} /\ p.shown \in Users \cup {Visitor}
  BY <1>0, PageFields DEF DoorInv
<1>2. /\ c.kind = "me" /\ kept' = (IF stuck THEN 0 ELSE kept) /\ UNCHANGED jar
      /\ Turns(t, Rests(r))
  BY <1>0 DEF Learns
<1>3. name \in Users \cup {Visitor} /\ (IF stuck THEN 0 ELSE p.mem) \in Nat
  BY <1>1
<1>4. /\ r \in PageType /\ r.shown = name /\ r.mem = (IF stuck THEN 0 ELSE p.mem) /\ r.upset = p.upset
  <2> HIDE DEF name, stuck
  <2>1. QED BY <1>1, <1>3 DEF PageType
<1>5. DoorTypeOK'
  BY <1>1, <1>2 DEF DoorTypeOK, Sticks
<1>6. ASSUME Steady(p) PROVE Truthful(r)' /\ Loyal(r)'
  <2>1. /\ name = ActsFor(PresentedBy(p)) /\ Loyal(p) /\ (p.goal = "login" => p.mem \in live)
    BY <1>0, <1>2, <1>6 DEF Steady
  <2>2. ~stuck
    <3>1. p.mem \in live => PresentedBy(p) = p.mem /\ p.mem # 0
      BY <1>1 DEF PresentedBy, BearerOf, DoorTypeOK
    <3>2. p.mem \in live => ActsFor(p.mem) = owner[p.mem] /\ owner[p.mem] # Visitor
      BY <1>1, IdentityType, DeploymentsAssumption DEF ActsFor
    <3>3. QED BY <2>1, <3>1, <3>2
  <2> HIDE DEF name, stuck, r
  <2>3. r.mem = p.mem /\ r.shown = name /\ UNCHANGED kept
    BY <1>2, <1>4, <2>2
  <2>4. PresentedBy(r)' = PresentedBy(p) /\ Loyal(r)'
    BY <1>2, <2>1, <2>3 DEF PresentedBy, BearerOf, Loyal, Sticks
  <2>5. ActsFor(PresentedBy(p))' = ActsFor(PresentedBy(p))
    BY <1>2, <2>3 DEF ActsFor, Identity, PresentedBy, BearerOf
  <2>6. Truthful(r)'
    <3>1. ActsFor(PresentedBy(r))' = name
      BY <1>2, <2>1, <2>3, <2>4 DEF ActsFor, Identity
    <3>2. QED BY <2>3, <3>1 DEF Truthful
  <2>7. QED BY <2>4, <2>6
<1> HIDE DEF r, name, stuck
<1>7. QED BY <1>1, <1>2, <1>4, <1>5, <1>6, RestKeeps

LEMMA GrantedKeeps ==
  ASSUME DoorInv, NEW t \in Tabs, UNCHANGED <<deployment, owner, live>>, tabs[t].call.status \notin {"none", "sent"},
         Granted(t)
  PROVE  DoorInv'
<1>0. PICK p \in PageType : p = tabs[t]
  BY DEF DoorInv
<1> DEFINE c == p.call
<1>1. p \in PageType /\ (p.upset \/ Steady(p)) /\ DoorTypeOK /\ c.token \in Nat /\ c.kind \in {"login", "change"}
  BY <1>0, PageFields DEF DoorInv, Granted
<1>2. CASE c.status = "ok"
  <2> DEFINE d == CallOf("probe", 0, jar', Visitor)
             q == [p EXCEPT !.mem = c.token, !.call = d]
  <2>1. kept' = 0 /\ jar' = (IF Sticks THEN c.token ELSE jar) /\ Turns(t, Probing([p EXCEPT !.mem = c.token]))
    BY <1>0, <1>2 DEF Granted, Adopts
  <2>2. DoorTypeOK' /\ jar' \in Nat
    BY <1>1, <2>1 DEF DoorTypeOK, Sticks
  <2>3. d \in Call /\ d.kind = "probe" /\ d.status = "sent" /\ d.token = jar'
    <3>1. Marked(0, jar') \in BOOLEAN
      BY DEF Marked
    <3>2. QED BY <2>2, <3>1 DEF CallOf, Call, Calls
  <2> HIDE DEF d
  <2>4. PICK e \in Call : e = d
    BY <2>3
  <2>5. PICK r \in PageType : /\ r = [p EXCEPT !.mem = c.token, !.call = e]
                              /\ r.mem = c.token /\ r.call = e /\ r.shown = p.shown /\ r.goal = p.goal
                              /\ r.upset = p.upset
    <3>1. [p EXCEPT !.mem = c.token, !.call = e] \in PageType
      BY <1>1 DEF PageType
    <3>2. QED BY <1>1, <3>1 DEF PageType
  <2>6. Turns(t, r)
    <3>1. Probing([p EXCEPT !.mem = c.token]) = [p EXCEPT !.mem = c.token, !.call = d]
      BY <1>1 DEF Probing, d, PageType
    <3>2. QED BY <2>1, <2>4, <2>5, <3>1
  <2>7. ASSUME Steady(p) PROVE Steady(r)'
    <3>1. c.token \in live /\ (p.goal # "login" => p.shown = owner[c.token])
      BY <1>1, <1>2, <2>7 DEF Steady
    <3>2. r.call.kind = "probe" /\ r.call.status = "sent" /\ r.call.token = jar' /\ r.mem = c.token
      BY <2>3, <2>4, <2>5
    <3>3. Sticks' => jar' = r.mem
      BY <2>1, <3>2 DEF Sticks
    <3>4. QED BY <2>1, <2>5, <3>1, <3>2, <3>3 DEF Steady
  <2>8. (r.upset \/ Steady(r)') /\ Named(r)
    BY <1>1, <2>3, <2>4, <2>5, <2>7 DEF Named
  <2>9. QED BY <2>2, <2>6, <2>8, TurnKeeps
<1>3. CASE c.status # "ok"
  <2>1. UNCHANGED <<jar, kept>> /\ Turns(t, Rests(p))
    BY <1>0, <1>3 DEF Granted, Shared
  <2>2. DoorTypeOK'
    BY <1>1, <2>1 DEF DoorTypeOK, Sticks
  <2>3. ASSUME Steady(p) PROVE Truthful(p)' /\ Loyal(p)'
    <3>1. Truthful(p) /\ Loyal(p)
      BY <1>1, <1>3, <2>3 DEF Steady
    <3>2. QED BY <2>1, <3>1 DEF Truthful, Loyal, Foreign, PresentedBy, BearerOf, ActsFor, Identity, Sticks
  <2>4. QED BY <1>1, <2>1, <2>2, <2>3, RestKeeps
<1>4. QED BY <1>2, <1>3

LEMMA SignedOutKeeps ==
  ASSUME DoorInv, NEW t \in Tabs, UNCHANGED <<deployment, owner, live>>, tabs[t].call.status \notin {"none", "sent"},
         SignedOut(t) \/ SignedOutEverywhere(t)
  PROVE  DoorInv'
<1>0. PICK p \in PageType : p = tabs[t]
  BY DEF DoorInv
<1> DEFINE c == p.call
<1>1. p \in PageType /\ (p.upset \/ Steady(p)) /\ DoorTypeOK /\ p.goal \in Calls \cup {"load"}
  BY <1>0, PageFields DEF DoorInv
<1>2. jar' = (IF c.status = "ok" THEN 0 ELSE jar) /\ kept' \in {0, kept}
  BY <1>0 DEF SignedOut, SignedOutEverywhere
<1>3. DoorTypeOK' /\ kept' \in Nat /\ jar' \in Nat
  BY <1>1, <1>2 DEF DoorTypeOK, Sticks
<1>4. CASE SignedOut(t)
  <2> DEFINE r == [p EXCEPT !.shown = Visitor, !.mem = 0]
  <2>1. kept' = 0 /\ Turns(t, Rests(r)) /\ c.kind = "logout"
    BY <1>0, <1>4 DEF SignedOut, Forgets
  <2>2. r \in PageType /\ r.shown = Visitor /\ r.mem = 0 /\ r.upset = p.upset
    BY <1>1 DEF PageType
  <2> HIDE DEF r
  <2>3. ASSUME Steady(p) PROVE Truthful(r)' /\ Loyal(r)'
    <3>1. c.status = "ok" \/ Foreign(p)
      BY <1>0, <2>1, <2>3 DEF Steady
    <3>2. BearerOf(r)' = 0 /\ PresentedBy(r)' = jar' /\ Loyal(r)'
      BY <2>1, <2>2 DEF BearerOf, PresentedBy, Loyal
    <3>3. CASE c.status = "ok"
      <4>1. Identity(0)' \notin Users
        BY <1>1, IdentityType DEF Identity
      <4>2. ActsFor(0)' = Visitor
        BY <4>1 DEF ActsFor
      <4>3. jar' = 0
        BY <1>2, <3>3
      <4>4. ActsFor(PresentedBy(r))' = ActsFor(0)'
        BY <3>2, <4>3
      <4>5. QED BY <2>2, <3>2, <4>2, <4>4 DEF Truthful
    <3>4. CASE c.status # "ok"
      <4>1. Foreign(r)'
        BY <1>2, <3>1, <3>2, <3>4 DEF Foreign
      <4>2. QED BY <3>2, <4>1 DEF Truthful
    <3>5. QED BY <3>3, <3>4
  <2>4. QED BY <1>1, <1>3, <2>1, <2>2, <2>3, RestKeeps
<1>5. CASE SignedOutEverywhere(t) /\ c.status = "lost"
  <2>1. Turns(t, Rests(p))
    BY <1>0, <1>5 DEF SignedOutEverywhere
  <2>2. p.upset
    BY <1>1, <1>5 DEF Steady
  <2>3. QED BY <1>1, <1>3, <2>1, <2>2, RestKeeps
<1>6. CASE SignedOutEverywhere(t) /\ c.status # "lost"
  <2>1. Turns(t, Calling(p, "logout", Visitor))
    BY <1>0, <1>6 DEF SignedOutEverywhere
  <2>2. PICK q \in PageType : q = Calling(p, "logout", Visitor) /\ Sends(q, p, "logout", Visitor, p.goal)
    <3>1. "logout" \in Calls /\ Visitor \in Users \cup {Visitor}
      BY DEF Calls
    <3>2. QED BY <1>1, <1>3, <3>1, CallingPage, Zenon
  <2>3. Turns(t, q)
    BY <2>1, <2>2
  <2>4. q.call.token = PresentedBy(q)' /\ (q.call.marked <=> ~Foreign(q)')
    BY <2>2 DEF Sends, PresentedBy, BearerOf, Foreign
  <2>5. Steady(q)' /\ Named(q)
    BY <2>2, <2>4 DEF Steady, Sends, Named
  <2>6. QED BY <1>3, <2>3, <2>5, TurnKeeps
<1>7. QED BY <1>4, <1>5, <1>6

LEMMA WroteKeeps ==
  ASSUME DoorInv, NEW t \in Tabs, UNCHANGED <<deployment, owner, live>>, tabs[t].call.status \notin {"none", "sent"},
         Wrote(t)
  PROVE  DoorInv'
<1>0. PICK p \in PageType : p = tabs[t]
  BY DEF DoorInv
<1>1. p \in PageType /\ (p.upset \/ Steady(p)) /\ DoorTypeOK /\ p.call.kind = "write" /\ UNCHANGED <<jar, kept>>
  BY <1>0 DEF DoorInv, Wrote, Shared
<1>2. DoorTypeOK'
  BY <1>1 DEF DoorTypeOK, Sticks
<1>3. CASE Turns(t, Rests(p))
  <2>1. ASSUME Steady(p) PROVE Truthful(p)' /\ Loyal(p)'
    <3>1. Truthful(p) /\ Loyal(p)
      BY <1>1, <2>1 DEF Steady
    <3>2. QED BY <1>1, <3>1 DEF Truthful, Loyal, Foreign, PresentedBy, BearerOf, ActsFor, Identity, Sticks
  <2>2. QED BY <1>1, <1>2, <1>3, <2>1, RestKeeps
<1>4. ASSUME NEW u \in Users, Turns(t, [Calling(p, "login", u) EXCEPT !.goal = "login"]) PROVE DoorInv'
  <2>1. "login" \in Calls \cup {"load"} /\ u \in Users \cup {Visitor}
    BY DEF Calls
  <2>2. QED BY <1>0, <1>1, <1>4, <2>1, PressKeeps
<1>5. QED BY <1>0, <1>3, <1>4 DEF Wrote

\* What upsets every page, or only the one whose call is lost.
LEMMA MishapKeeps == ASSUME DoorInv, EndSessions \/ Shutdown PROVE DoorInv'
<1>1. DoorTypeOK /\ tabs \in [Tabs -> PageType]
  BY DEF DoorInv
<1>2. CASE EndSessions
  <2>1. live' \subseteq live /\ UNCHANGED <<deployment, owner, jar, kept>>
        /\ tabs' = [t \in Tabs |-> [tabs[t] EXCEPT !.upset = TRUE]]
    BY <1>2 DEF EndSessions, Shared
  <2>2. DoorTypeOK'
    BY <1>1, <2>1 DEF DoorTypeOK, Sticks
  <2>3. tabs' \in [Tabs -> PageType] /\ \A t \in Tabs : tabs'[t].upset /\ tabs'[t].call = tabs[t].call
    BY <1>1, <2>1, UpsetPage
  <2>4. QED BY <2>2, <2>3 DEF DoorInv, Named
<1>3. CASE Shutdown
  <2>1. UNCHANGED <<deployment, owner, live, jar, kept>>
        /\ tabs' = [t \in Tabs |-> IF tabs[t].call.status = "sent" THEN Lost(tabs[t]) ELSE tabs[t]]
    BY <1>3 DEF Shutdown, Shared, registered
  <2>2. DoorTypeOK'
    BY <1>1, <2>1 DEF DoorTypeOK, Sticks
  <2>3. ASSUME NEW p \in PageType PROVE Lost(p) \in PageType /\ Lost(p).upset /\ Lost(p).call.status = "lost"
    BY DEF Lost, PageType, Call
  <2>4. tabs' \in [Tabs -> PageType]
    BY <1>1, <2>1, <2>3
  <2>5. ASSUME NEW t \in Tabs PROVE (Named(tabs[t]) /\ (tabs[t].upset \/ Steady(tabs[t])))'
    <3>1. CASE tabs[t].call.status = "sent"
      BY <1>1, <2>1, <2>3, <3>1 DEF Named
    <3>2. CASE tabs[t].call.status # "sent"
      <4>1. /\ Named(tabs[t]) /\ (tabs[t].upset \/ Steady(tabs[t]))
            /\ tabs'[t] = tabs[t] /\ UNCHANGED <<deployment, owner, live, jar, kept>>
        BY <2>1, <3>2 DEF DoorInv
      <4>2. QED BY <4>1 DEF Named, Steady, Truthful, Loyal, Foreign, PresentedBy, BearerOf, ActsFor, Identity,
                Sticks
    <3>3. QED BY <3>1, <3>2
  <2>6. QED BY <2>2, <2>4, <2>5 DEF DoorInv
<1>4. QED BY <1>2, <1>3

LEMMA LoseKeeps == ASSUME DoorInv, NEW t \in Tabs, LoseCall(t) PROVE DoorInv'
<1>1. tabs[t] \in PageType /\ DoorTypeOK /\ UNCHANGED <<deployment, owner, live, jar, kept>> /\ Turns(t, Lost(tabs[t]))
  BY DEF DoorInv, LoseCall, registered, Shared
<1>2. ASSUME NEW p \in PageType PROVE Lost(p) \in PageType /\ Lost(p).upset /\ Lost(p).call.status = "lost"
  BY DEF Lost, PageType, Call
<1>3. PICK q \in PageType : q = Lost(tabs[t]) /\ q.upset /\ q.call.status = "lost"
  BY <1>1, <1>2
<1>4. DoorTypeOK'
  BY <1>1 DEF DoorTypeOK, Sticks
<1>5. QED BY <1>1, <1>3, <1>4, TurnKeeps DEF Named

LEMMA DoorInitially == DoorInit => DoorInv
<1> SUFFICES ASSUME DoorInit PROVE DoorInv
  OBVIOUS
<1>1. DoorTypeOK
  BY DEF DoorInit, DoorTypeOK
<1>2. /\ Page \in PageType /\ Page.call = Idling /\ Page.mem = 0 /\ Page.shown = Visitor
  BY IdlingType DEF Page, PageType, Calls
<1>3. Truthful(Page) /\ Loyal(Page)
  <2>1. PresentedBy(Page) = 0
    BY <1>2 DEF DoorInit, PresentedBy, BearerOf
  <2>2. ActsFor(0) = Visitor
    BY <1>1, IdentityType DEF ActsFor
  <2>3. QED BY <1>2, <2>1, <2>2 DEF Truthful, Loyal
<1>4. Steady(Page) /\ Named(Page)
  BY <1>2, <1>3, IdlingType DEF Steady, Named
<1>5. QED BY <1>1, <1>2, <1>4 DEF DoorInit, DoorInv

LEMMA DoorStep == DoorInv /\ [DoorNext]_doorVars => DoorInv'
<1> SUFFICES ASSUME DoorInv, [DoorNext]_doorVars PROVE DoorInv'
  OBVIOUS
<1> USE DEF AtRest
<1>1. CASE Start \/ UNCHANGED doorVars
  <2>1. UNCHANGED <<deployment, owner, live, jar, kept, tabs>>
    BY <1>1 DEF Start, doorVars, registered
  <2>2. QED BY <2>1 DEF DoorInv, DoorTypeOK, Named, Steady, Truthful, Loyal, Foreign, PresentedBy, BearerOf,
            ActsFor, Identity, Sticks
<1>2. CASE EndSessions \/ Shutdown
  BY <1>2, MishapKeeps
<1>3. ASSUME NEW t \in Tabs, LoadPage(t) \/ ServeCall(t) \/ LoseCall(t) PROVE DoorInv'
  BY <1>3, LoadKeeps, ServeKeeps, LoseKeeps
<1>4. ASSUME NEW t \in Tabs, Hear(t) PROVE DoorInv'
  <2>1. UNCHANGED <<deployment, owner, live>> /\ tabs[t].call.status \notin {"none", "sent"}
        /\ (Probed(t) \/ Learns(t) \/ Granted(t) \/ SignedOut(t) \/ SignedOutEverywhere(t) \/ Wrote(t))
    BY <1>4 DEF Hear, registered
  <2>2. QED BY <2>1, ProbedKeeps, LearnsKeeps, GrantedKeeps, SignedOutKeeps, WroteKeeps
<1>5. ASSUME NEW t \in Tabs, NEW u \in Users, SubmitLogin(t, u) PROVE DoorInv'
  <2>1. /\ UNCHANGED <<deployment, live, owner, jar, kept>> /\ tabs[t].call.kind = "none"
        /\ Turns(t, [Calling(tabs[t], "login", u) EXCEPT !.goal = "login"])
    BY <1>5, IdlingType DEF SubmitLogin, registered, Shared
  <2>2. "login" \in Calls \cup {"load"} /\ u \in Users \cup {Visitor}
    BY DEF Calls
  <2>3. QED BY <2>1, <2>2, PressKeeps
<1>6. ASSUME NEW t \in Tabs, NEW kind \in {"change", "logout", "everywhere", "write"}, Press(t, kind) PROVE DoorInv'
  <2>1. /\ UNCHANGED <<deployment, live, owner, jar, kept>> /\ tabs[t].call.kind = "none"
        /\ Turns(t, [Calling(tabs[t], kind, Visitor) EXCEPT !.goal = kind])
    BY <1>6, IdlingType DEF Press, registered, Shared
  <2>2. kind \in Calls \cup {"load"} /\ Visitor \in Users \cup {Visitor} /\ kind # "login"
        /\ kind \in {"login", "change", "logout", "everywhere", "write"}
    BY DEF Calls
  <2>3. QED BY <2>1, <2>2, PressKeeps
<1>7. QED BY <1>1, <1>2, <1>3, <1>4, <1>5, <1>6 DEF DoorNext

\* A page at rest acts for the user it shows, now and after a reload, for any number of tabs,
\* users and configurations that share one jar: while nothing it relied on was lost or changed
\* by another page, and it does not live on a cookie of another site.
THEOREM ActsAsShownTheorem == DoorSpec => []ActsAsShownUnlessUpset
<1>1. DoorInv => ActsAsShownUnlessUpset
  <2> SUFFICES ASSUME DoorInv, NEW t \in Tabs, Quiet(t), ~OnForeignCookie(t)
               PROVE  /\ ActsFor(Presented(t)) = tabs[t].shown
                      /\ Marked(Bearer(t), jar)
                      /\ \/ ActsFor(IF kept # 0 THEN kept ELSE jar) = tabs[t].shown
                         \/ ~Sticks /\ (deployment.private => deployment.pinned)
    BY DEF ActsAsShownUnlessUpset
  <2> DEFINE p == tabs[t]
  <2>1. Bearer(t) = BearerOf(p) /\ Presented(t) = PresentedBy(p) /\ ~Foreign(p)
    BY DEF Bearer, BearerOf, Presented, PresentedBy, Foreign, OnForeignCookie
  <2>2. Truthful(p) /\ Loyal(p)
    BY IdlingType DEF DoorInv, Quiet, AtRest, Steady
  <2>3. ActsFor(PresentedBy(p)) = p.shown
    BY <2>1, <2>2 DEF Truthful
  <2>4. \/ (IF kept # 0 THEN kept ELSE jar) = PresentedBy(p)
        \/ ~Sticks /\ (deployment.private => deployment.pinned)
    BY <2>2 DEF Loyal, PresentedBy, BearerOf
  <2>5. Marked(Bearer(t), jar)
    BY <2>1 DEF Marked, Foreign
  <2>6. QED BY <2>1, <2>3, <2>4, <2>5
<1>2. QED BY <1>1, DoorInitially, DoorStep, PTL DEF DoorSpec
=============================================================================

---------------------------- MODULE StreamProofs ----------------------------
(* Theorems about Stream for any number of turns, pool threads and calls, and about
   Memory for any chats and words. *)
EXTENDS Stream, Memory, WellFoundedInduction, SequenceTheorems, TLAPS

----------------------------------------------------------------------------
(* Memory: recursive functions, sequences and what is mined *)

\* A set of numbers that holds the successor of each of its members below L holds them all.
LEMMA Climbs ==
  ASSUME NEW L \in Nat, NEW P, 0 \in P, \A n \in 0..L - 1 : n \in P => n + 1 \in P
  PROVE  \A n \in 0..L : n \in P
<1> DEFINE T == {n \in 0..L : n \notin P}
<1> SUFFICES ASSUME T # {} PROVE FALSE
  OBVIOUS
<1>1. T \subseteq Nat
  OBVIOUS
<1>2. PICK t \in T : \A u \in T : ~(<<u, t>> \in OpToRel(<, Nat))
  <2> HIDE DEF T
  <2>1. QED BY <1>1, NatLessThanWellFounded, WFMin
<1>3. t \in 0..L /\ t \notin P /\ t # 0
  OBVIOUS
<1>4. t - 1 \in 0..L - 1 /\ t - 1 < t /\ t - 1 + 1 = t
  BY <1>3
<1>5. t - 1 \notin T
  BY <1>2, <1>4, <1>1 DEF OpToRel
<1>6. t - 1 \in P
  BY <1>4, <1>5
<1>7. t - 1 + 1 \in P
  BY <1>4, <1>6
<1>8. QED BY <1>3, <1>4, <1>7

LEMMA LeastOf ==
  ASSUME NEW S \in SUBSET Nat, S # {}
  PROVE  Min(S) \in S
<1>1. PICK t \in S : \A u \in S : ~(<<u, t>> \in OpToRel(<, Nat))
  BY NatLessThanWellFounded, WFMin
<1>2. \A u \in S : ~(u < t)
  BY <1>1 DEF OpToRel
<1>3. \A a, b \in Nat : ~(a < b) => b <= a
  OBVIOUS
<1>4. \A u \in S : t <= u
  BY <1>2, <1>3
<1>5. QED BY <1>4 DEF Min

\* Values each made from the one before, in L steps.
Steps(S, L) == [S \X (1..L) -> S]
Runs(S, base, step, L) ==
  {f \in [0..L -> S] : f[0] = base /\ \A n \in 1..L : f[n] = step[<<f[n - 1], n>>]}
LEMMA Iterates ==
  ASSUME NEW L \in Nat, NEW S, NEW base \in S, NEW step \in Steps(S, L)
  PROVE  Runs(S, base, step, L) # {}
<1> DEFINE Upto(m) == \E f \in [0..m -> S] : f[0] = base /\ \A n \in 1..m : f[n] = step[<<f[n - 1], n>>]
           P == {m \in Nat : Upto(m)}
<1>1. 0 \in P
  <2> DEFINE g == [n \in 0..0 |-> base]
  <2>1. g \in [0..0 -> S] /\ g[0] = base /\ 1..0 = {}
    OBVIOUS
  <2> HIDE DEF g
  <2>2. Upto(0)
    BY <2>1
  <2>3. QED BY <2>2
<1>2. ASSUME NEW m \in 0..L - 1, m \in P PROVE m + 1 \in P
  <2>1. PICK f \in [0..m -> S] : f[0] = base /\ \A n \in 1..m : f[n] = step[<<f[n - 1], n>>]
    BY <1>2
  <2> DEFINE g == [n \in 0..m + 1 |-> IF n = m + 1 THEN step[<<f[m], m + 1>>] ELSE f[n]]
  <2>2. f[m] \in S /\ m + 1 \in 1..L /\ m \in Nat
    OBVIOUS
  <2>3. step[<<f[m], m + 1>>] \in S
    BY <2>2 DEF Steps
  <2>4. g \in [0..m + 1 -> S]
    BY <2>3
  <2>5. g[0] = base
    BY <2>1, <2>2
  <2>6. ASSUME NEW n \in 1..m + 1 PROVE g[n] = step[<<g[n - 1], n>>]
    <3>1. CASE n = m + 1
      <4>1. n - 1 = m /\ g[m] = f[m]
        BY <3>1, <2>2
      <4>2. g[n] = step[<<f[m], n>>]
        BY <3>1, <2>2
      <4>3. QED BY <4>1, <4>2
    <3>2. CASE n # m + 1
      <4>1. n \in 1..m /\ n - 1 \in 0..m
        BY <3>2, <2>2
      <4>2. g[n] = f[n] /\ g[n - 1] = f[n - 1]
        BY <4>1, <2>2
      <4>3. QED BY <4>1, <4>2, <2>1
    <3>3. QED BY <3>1, <3>2
  <2> HIDE DEF g
  <2>7. Upto(m + 1)
    BY <2>4, <2>5, <2>6
  <2>8. QED BY <2>2, <2>7
<1> HIDE DEF P
<1>3. L \in P
  BY <1>1, <1>2, Climbs
<1>4. QED BY <1>3 DEF P, Runs

LEMMA KeptRuns ==
  ASSUME NEW T, NEW facts \in Seq(T), NEW good
  PROVE  \E k \in [0..Len(facts) -> Seq(T)] :
           /\ Kept(facts, good) = k[Len(facts)] /\ k[0] = <<>>
           /\ \A n \in 1..Len(facts) : k[n] = IF facts[n] \in good THEN Append(k[n - 1], facts[n]) ELSE k[n - 1]
<1> DEFINE L == Len(facts)
           step == [x \in Seq(T) \X (1..L) |-> IF facts[x[2]] \in good THEN Append(x[1], facts[x[2]]) ELSE x[1]]
           F(g) == [n \in 0..L |-> IF n = 0 THEN <<>> ELSE IF facts[n] \in good THEN Append(g[n - 1], facts[n]) ELSE g[n - 1]]
           k == CHOOSE g : g = F(g)
<1>1. L \in Nat /\ \A n \in 1..L : facts[n] \in T
  BY LenProperties, ElementOfSeq
<1>2. step \in [Seq(T) \X (1..L) -> Seq(T)]
  BY <1>1, AppendProperties
<1>3. PICK f \in [0..L -> Seq(T)] : f[0] = <<>> /\ \A n \in 1..L : f[n] = step[<<f[n - 1], n>>]
  <2>1. step \in Steps(Seq(T), L) /\ <<>> \in Seq(T)
    BY <1>2 DEF Steps
  <2>2. Runs(Seq(T), <<>>, step, L) # {}
    BY <1>1, <2>1, Iterates
  <2> HIDE DEF step, L
  <2>3. QED BY <2>2 DEF Runs
<1>4. \A n \in 1..L : f[n] = IF facts[n] \in good THEN Append(f[n - 1], facts[n]) ELSE f[n - 1]
  <2> SUFFICES ASSUME NEW n \in 1..L PROVE f[n] = IF facts[n] \in good THEN Append(f[n - 1], facts[n]) ELSE f[n - 1]
    OBVIOUS
  <2> HIDE DEF step, L
  <2>0. n - 1 \in 0..L
    BY <1>1
  <2>1. f[n - 1] \in Seq(T)
    BY <2>0
  <2>2. <<f[n - 1], n>> \in Seq(T) \X (1..L)
    BY <2>1
  <2>3. QED BY <1>3, <2>2 DEF step
<1>5. f = F(f)
  <2>1. \A n \in 0..L : n = 0 \/ n \in 1..L
    BY <1>1
  <2>2. \A n \in 0..L : f[n] = IF n = 0 THEN <<>> ELSE IF facts[n] \in good THEN Append(f[n - 1], facts[n]) ELSE f[n - 1]
    BY <1>3, <1>4, <2>1
  <2>3. QED BY <2>2
<1>6. k = F(k)
  BY <1>5
<1>7. Kept(facts, good) = k[L]
  BY DEF Kept
<1>8. k[0] = <<>> /\ \A n \in 1..L : k[n] = IF facts[n] \in good THEN Append(k[n - 1], facts[n]) ELSE k[n - 1]
  <2> HIDE DEF k
  <2>1. \A n \in 0..L : k[n] = IF n = 0 THEN <<>> ELSE IF facts[n] \in good THEN Append(k[n - 1], facts[n]) ELSE k[n - 1]
    BY <1>6
  <2>2. 0 \in 0..L /\ \A n \in 1..L : n \in 0..L /\ n # 0
    BY <1>1
  <2>3. QED BY <2>1, <2>2
<1>9. \A n \in 0..L : k[n] \in Seq(T)
  <2> HIDE DEF k, L
  <2> DEFINE P == {n \in 0..L : k[n] \in Seq(T)}
  <2>1. 0 \in P
    <3>1. 0 \in 0..L /\ k[0] = <<>>
      BY <1>1, <1>8
    <3>2. \A x : x = <<>> => x \in Seq(T)
      OBVIOUS
    <3>3. QED BY <3>1, <3>2
  <2>2. ASSUME NEW n \in 0..L - 1, n \in P PROVE n + 1 \in P
    <3>1. n + 1 \in 1..L /\ n + 1 \in 0..L /\ n + 1 - 1 = n /\ k[n] \in Seq(T)
      BY <2>2, <1>1
    <3>2. k[n + 1] = IF facts[n + 1] \in good THEN Append(k[n], facts[n + 1]) ELSE k[n]
      BY <3>1, <1>8
    <3>3. facts[n + 1] \in T
      BY <3>1, <1>1
    <3>4. Append(k[n], facts[n + 1]) \in Seq(T)
      BY <3>1, <3>3, AppendProperties
    <3>5. k[n + 1] \in Seq(T)
      BY <3>1, <3>2, <3>4
    <3>6. QED BY <3>1, <3>5
  <2> HIDE DEF P
  <2>3. \A n \in 0..L : n \in P
    BY <1>1, <2>1, <2>2, Climbs
  <2>4. QED BY <2>3 DEF P
<1>10. k \in [0..L -> Seq(T)]
  <2> HIDE DEF k
  <2>1. k = [n \in 0..L |-> k[n]]
    BY <1>6
  <2>2. QED BY <2>1, <1>9
<1> HIDE DEF k
<1>11. QED BY <1>7, <1>8, <1>10

LEMMA KeptFacts ==
  ASSUME NEW T, NEW facts \in Seq(T), NEW good
  PROVE  /\ Kept(facts, good) \in Seq(T)
         /\ ToSet(Kept(facts, good)) \subseteq ToSet(facts) \cap good
         /\ ToSet(facts) \subseteq good => Kept(facts, good) = facts
         /\ (\E i \in DOMAIN facts : facts[i] \notin good) => Len(Kept(facts, good)) < Len(facts)
<1> DEFINE L == Len(facts)
<1>1. L \in Nat /\ DOMAIN facts = 1..L /\ \A n \in 1..L : facts[n] \in T
  BY LenProperties, ElementOfSeq
<1>2. PICK k \in [0..L -> Seq(T)] :
           /\ Kept(facts, good) = k[L] /\ k[0] = <<>>
           /\ \A n \in 1..L : k[n] = IF facts[n] \in good THEN Append(k[n - 1], facts[n]) ELSE k[n - 1]
  BY KeptRuns
<1> HIDE DEF L
<1> DEFINE Within(n) == /\ Len(k[n]) <= n /\ \A i \in 1..Len(k[n]) : k[n][i] \in ToSet(facts) \cap good
           Whole(n) == (\A i \in 1..n : facts[i] \in good) => Len(k[n]) = n /\ \A i \in 1..n : k[n][i] = facts[i]
           Less(n) == (\E i \in 1..n : facts[i] \notin good) => Len(k[n]) < n
           P == {n \in 0..L : Within(n) /\ Whole(n) /\ Less(n)}
<1>3. 0 \in P
  BY <1>1, <1>2
<1>4. ASSUME NEW n \in 0..L - 1, n \in P PROVE n + 1 \in P
  <2>1. n \in Nat /\ n \in 0..L /\ n + 1 \in 1..L /\ n + 1 \in 0..L /\ n + 1 - 1 = n /\ k[n] \in Seq(T)
    BY <1>1
  <2>2. k[n + 1] = IF facts[n + 1] \in good THEN Append(k[n], facts[n + 1]) ELSE k[n]
    BY <2>1, <1>2
  <2>3. facts[n + 1] \in T /\ facts[n + 1] \in ToSet(facts)
    BY <2>1, <1>1 DEF ToSet
  <2>4. Len(k[n]) \in Nat
    BY <2>1, LenProperties
  <2>5. Within(n) /\ Whole(n) /\ Less(n)
    BY <1>4
  <2>6. \A i \in 1..n + 1 : i = n + 1 \/ i \in 1..n
    BY <2>1
  <2>7. CASE facts[n + 1] \in good
    <3> DEFINE a == Append(k[n], facts[n + 1])
    <3>1. Len(a) = Len(k[n]) + 1 /\ a[Len(k[n]) + 1] = facts[n + 1] /\ \A i \in 1..Len(k[n]) : a[i] = k[n][i]
      BY <2>1, <2>3, AppendProperties
    <3>2. k[n + 1] = a
      BY <2>2, <2>7
    <3> HIDE DEF a
    <3>3. Within(n + 1)
      <4>1. Len(a) <= n + 1
        BY <3>1, <2>1, <2>4, <2>5
      <4>2. \A i \in 1..Len(a) : i = Len(k[n]) + 1 \/ i \in 1..Len(k[n])
        BY <3>1, <2>4
      <4>3. \A i \in 1..Len(a) : a[i] \in ToSet(facts) \cap good
        BY <4>2, <3>1, <2>3, <2>5, <2>7
      <4>4. QED BY <4>1, <4>3, <3>2
    <3>4. Whole(n + 1)
      <4> SUFFICES ASSUME \A i \in 1..n + 1 : facts[i] \in good
                   PROVE  Len(a) = n + 1 /\ \A i \in 1..n + 1 : a[i] = facts[i]
        BY <3>2
      <4>1. Len(k[n]) = n /\ \A i \in 1..n : k[n][i] = facts[i]
        BY <2>1, <2>5
      <4>2. QED BY <4>1, <3>1, <2>6, <2>1
    <3>5. Less(n + 1)
      <4> SUFFICES ASSUME NEW i \in 1..n + 1, facts[i] \notin good PROVE Len(a) < n + 1
        BY <3>2
      <4>1. i \in 1..n
        BY <2>6, <2>7
      <4>2. Len(k[n]) < n
        BY <4>1, <2>5
      <4>3. QED BY <4>2, <3>1, <2>1, <2>4
    <3>6. QED BY <3>3, <3>4, <3>5, <2>1
  <2>8. CASE facts[n + 1] \notin good
    <3>1. k[n + 1] = k[n]
      BY <2>2, <2>8
    <3>2. Len(k[n]) <= n
      BY <2>5
    <3>3. Len(k[n]) <= n + 1 /\ Len(k[n]) < n + 1
      BY <3>2, <2>1, <2>4
    <3>4. n + 1 \in 1..n + 1
      BY <2>1
    <3>5. QED BY <3>1, <3>3, <3>4, <2>1, <2>5, <2>8
  <2>9. QED BY <2>7, <2>8
<1> HIDE DEF P
<1>5. L \in P
  <2>1. \A n \in 0..L : n \in P
    BY <1>1, <1>3, <1>4, Climbs
  <2>2. L \in 0..L
    BY <1>1
  <2>3. QED BY <2>1, <2>2
<1>6. k[L] \in Seq(T) /\ Len(k[L]) \in Nat /\ DOMAIN k[L] = 1..Len(k[L])
  BY <1>1, LenProperties
<1>7. ToSet(k[L]) \subseteq ToSet(facts) \cap good
  BY <1>5, <1>6 DEF P, ToSet
<1>8. ToSet(facts) \subseteq good => k[L] = facts
  <2> SUFFICES ASSUME ToSet(facts) \subseteq good PROVE k[L] = facts
    OBVIOUS
  <2>1. \A i \in 1..L : facts[i] \in good
    BY <1>1 DEF ToSet
  <2>2. Len(k[L]) = L /\ \A i \in 1..L : k[L][i] = facts[i]
    BY <2>1, <1>5 DEF P
  <2>3. QED BY <2>2, <1>6, SeqEqual DEF L
<1>9. (\E i \in DOMAIN facts : facts[i] \notin good) => Len(k[L]) < L
  BY <1>1, <1>5 DEF P
<1>10. QED BY <1>2, <1>6, <1>7, <1>8, <1>9 DEF L

FactType == [type : {"name", "preference"}, key : Words, value : Words, polarity : {"positive", "negative"}, sure : BOOLEAN]
VerdictType == [says : {"equivalent", "related", "contradictory", "ambiguous"}, key : Words \cup {OwnKey}]
Alike(f, g) == f.type = g.type /\ f.value = g.value

LEMMA FactValues ==
  ASSUME NEW type \in {"name", "preference"}, NEW value \in Words, NEW polarity \in {"positive", "negative"}, NEW sure \in BOOLEAN
  PROVE  Fact(type, value, polarity, sure) \in FactType
BY DEF Fact, FactType

LEMMA NewestType ==
  ASSUME NEW T, NEW s \in Seq(T), NEW n \in Nat
  PROVE  /\ Newest(s, n) \in Seq(T) /\ ToSet(Newest(s, n)) \subseteq ToSet(s)
         /\ Len(s) <= n => Newest(s, n) = s
<1>1. Len(s) \in Nat /\ DOMAIN s = 1..Len(s) /\ \A i \in 1..Len(s) : s[i] \in T
  BY LenProperties, ElementOfSeq
<1> DEFINE m == IF Len(s) > n THEN Len(s) - n + 1 ELSE 1
<1>2. m \in Nat /\ m >= 1 /\ m <= Len(s) + 1
  BY <1>1
<1>3. Newest(s, n) = SubSeq(s, m, Len(s))
  BY DEF Newest
<1> HIDE DEF m
<1>4. SubSeq(s, m, Len(s)) \in Seq(T) /\ Len(SubSeq(s, m, Len(s))) = Len(s) - m + 1
      /\ \A i \in 1..Len(s) - m + 1 : SubSeq(s, m, Len(s))[i] = s[m + i - 1] /\ m + i - 1 \in 1..Len(s)
  BY <1>1, <1>2
<1>5. ToSet(Newest(s, n)) \subseteq ToSet(s)
  BY <1>3, <1>4, <1>1, LenProperties DEF ToSet
<1>6. Len(s) <= n => m = 1
  BY <1>1 DEF m
<1>7. SubSeq(s, 1, Len(s)) = s
  BY SubSeqFull
<1>8. QED BY <1>3, <1>4, <1>5, <1>6, <1>7

LEMMA AddedType ==
  ASSUME NEW facts \in Seq(FactType), NEW f \in FactType
  PROVE  Added(facts, f) \in Seq(FactType) /\ ToSet(Added(facts, f)) \subseteq ToSet(facts) \cup {f}
<1> DEFINE a == Append(facts, f)
<1>1. a \in Seq(FactType) /\ Len(a) = Len(facts) + 1 /\ a[Len(facts) + 1] = f /\ \A i \in 1..Len(facts) : a[i] = facts[i]
  BY AppendProperties
<1>2. Len(facts) \in Nat /\ DOMAIN facts = 1..Len(facts) /\ DOMAIN a = 1..Len(facts) + 1
  BY <1>1, LenProperties
<1> HIDE DEF a
<1>3. ToSet(a) \subseteq ToSet(facts) \cup {f}
  <2> SUFFICES ASSUME NEW i \in 1..Len(facts) + 1 PROVE a[i] \in ToSet(facts) \cup {f}
    BY <1>2 DEF ToSet
  <2>1. i = Len(facts) + 1 \/ i \in 1..Len(facts)
    BY <1>2
  <2>2. QED BY <2>1, <1>1, <1>2 DEF ToSet
<1>4. Added(facts, f) = Newest(a, MaxFacts) /\ MaxFacts \in Nat
  BY MemoryBounds DEF Added, a
<1>5. Newest(a, MaxFacts) \in Seq(FactType) /\ ToSet(Newest(a, MaxFacts)) \subseteq ToSet(a)
  BY <1>1, <1>4, NewestType
<1>6. QED BY <1>3, <1>4, <1>5

LEMMA PlaceType ==
  ASSUME NEW facts \in Seq(FactType), NEW f \in FactType
  PROVE  /\ Place(facts, f) \in DOMAIN facts \cup {0}
         /\ Place(facts, f) # 0 => facts[Place(facts, f)].type = f.type
<1>1. Len(facts) \in Nat /\ DOMAIN facts = 1..Len(facts)
  BY LenProperties
<1> DEFINE K == {i \in 1..Len(facts) : facts[i].type = f.type /\ facts[i].key = f.key}
           V == {i \in 1..Len(facts) : facts[i].type = f.type /\ facts[i].value = f.value}
<1>2. K # {} => Min(K) \in K
  <2>1. K \in SUBSET Nat
    OBVIOUS
  <2> HIDE DEF K
  <2>2. QED BY <2>1, LeastOf
<1>3. V # {} => Min(V) \in V
  <2>1. V \in SUBSET Nat
    OBVIOUS
  <2> HIDE DEF V
  <2>2. QED BY <2>1, LeastOf
<1>4. Place(facts, f) = LET k == IF K # {} THEN Min(K) ELSE 0
                            v == IF V # {} THEN Min(V) ELSE 0
                        IN  IF k > 0 THEN k ELSE v
  BY DEF Place, SelectInSeq
<1>5. QED BY <1>1, <1>2, <1>3, <1>4

LEMMA MergedType ==
  ASSUME NEW facts \in Seq(FactType), NEW fact \in FactType, NEW verdict \in VerdictType
  PROVE  /\ Merged(facts, fact, verdict) \in Seq(FactType)
         /\ \A g \in ToSet(Merged(facts, fact, verdict)) : Alike(g, fact) \/ \E h \in ToSet(facts) : Alike(g, h)
<1> DEFINE f == [fact EXCEPT !.key = IF verdict.key = OwnKey THEN @ ELSE verdict.key, !.sure = @ /\ verdict.says # "ambiguous"]
           at == Place(facts, f)
           known == \E i \in DOMAIN facts : facts[i].type = f.type /\ facts[i].value = f.value
           new == IF verdict.says = "contradictory" /\ facts[at].polarity # f.polarity
                  THEN Superseded(facts[at], f) ELSE Confirmed(facts[at], f)
<1>1. f \in FactType /\ Alike(f, fact)
  BY DEF FactType, VerdictType, Alike
<1>2. Merged(facts, fact, verdict) \in {facts, Added(facts, f)} \/ (at # 0 /\ Merged(facts, fact, verdict) = [facts EXCEPT ![at] = new])
  BY DEF Merged
<1>3. CASE Merged(facts, fact, verdict) = facts
  BY <1>3 DEF Alike
<1>4. CASE Merged(facts, fact, verdict) = Added(facts, f)
  <2> HIDE DEF f
  <2>1. Added(facts, f) \in Seq(FactType) /\ ToSet(Added(facts, f)) \subseteq ToSet(facts) \cup {f}
    BY <1>1, AddedType
  <2>2. QED BY <1>1, <1>4, <2>1 DEF Alike
<1>5. CASE at # 0 /\ Merged(facts, fact, verdict) = [facts EXCEPT ![at] = new]
  <2>1. at \in DOMAIN facts
    <3> HIDE DEF f
    <3>1. QED BY <1>1, <1>5, PlaceType
  <2>2. facts[at] \in FactType /\ Len(facts) \in Nat /\ DOMAIN facts = 1..Len(facts)
    BY <2>1, LenProperties, ElementOfSeq
  <2>3. new \in FactType /\ (Alike(new, f) \/ Alike(new, facts[at]))
    <3> HIDE DEF f, at
    <3>1. Superseded(facts[at], f) = f
      BY DEF Superseded
    <3>2. Confirmed(facts[at], f) \in FactType /\ Alike(Confirmed(facts[at], f), facts[at])
      BY <1>1, <2>2 DEF Confirmed, FactType, Alike
    <3>3. QED BY <3>1, <3>2, <1>1 DEF Alike
  <2> DEFINE m == [facts EXCEPT ![at] = new]
  <2> HIDE DEF new, at, f
  <2>4. m \in Seq(FactType) /\ DOMAIN m = DOMAIN facts /\ \A i \in DOMAIN facts : m[i] = IF i = at THEN new ELSE facts[i]
    BY <2>1, <2>2, <2>3, ExceptSeq
  <2> HIDE DEF m
  <2>5. ASSUME NEW g \in ToSet(m) PROVE Alike(g, fact) \/ \E h \in ToSet(facts) : Alike(g, h)
    <3>1. PICK i \in DOMAIN facts : g = m[i]
      BY <2>4 DEF ToSet
    <3>2. CASE i = at
      BY <3>1, <3>2, <2>1, <2>3, <2>4, <1>1 DEF Alike, ToSet
    <3>3. CASE i # at
      BY <3>1, <3>3, <2>4 DEF Alike, ToSet
    <3>4. QED BY <3>2, <3>3
  <2>6. QED BY <2>4, <2>5, <1>5 DEF m
<1>6. QED BY <1>2, <1>3, <1>4, <1>5

LEMMA AllMergedRuns ==
  ASSUME NEW facts \in Seq(FactType), NEW new \in Seq(FactType), NEW verdict \in VerdictType
  PROVE  \E k \in [0..Len(new) -> Seq(FactType)] :
           /\ AllMerged(facts, new, verdict) = k[Len(new)] /\ k[0] = facts
           /\ \A n \in 1..Len(new) : k[n] = Merged(k[n - 1], new[n], verdict)
<1> DEFINE L == Len(new)
           step == [x \in Seq(FactType) \X (1..L) |-> Merged(x[1], new[x[2]], verdict)]
           F(g) == [n \in 0..L |-> IF n = 0 THEN facts ELSE Merged(g[n - 1], new[n], verdict)]
           k == CHOOSE g : g = F(g)
<1>1. L \in Nat
  BY LenProperties
<1>2. \A x \in Seq(FactType), n \in 1..L : Merged(x, new[n], verdict) \in Seq(FactType)
  BY ElementOfSeq, LenProperties, MergedType
<1>3. step \in Steps(Seq(FactType), L)
  <2> HIDE DEF L
  <2>1. QED BY <1>2 DEF Steps
<1>4. Runs(Seq(FactType), facts, step, L) # {}
  <2> HIDE DEF step, L
  <2>1. QED BY <1>1, <1>3, Iterates
<1>5. PICK f \in [0..L -> Seq(FactType)] : f[0] = facts /\ \A n \in 1..L : f[n] = step[<<f[n - 1], n>>]
  <2> HIDE DEF step, L
  <2>1. QED BY <1>4 DEF Runs
<1>6. \A n \in 1..L : f[n] = Merged(f[n - 1], new[n], verdict)
  <2> SUFFICES ASSUME NEW n \in 1..L PROVE f[n] = Merged(f[n - 1], new[n], verdict)
    OBVIOUS
  <2> HIDE DEF step, L
  <2>1. n - 1 \in 0..L
    BY <1>1
  <2>2. f[n - 1] \in Seq(FactType)
    BY <2>1
  <2>3. <<f[n - 1], n>> \in Seq(FactType) \X (1..L)
    BY <2>2
  <2>4. QED BY <1>5, <2>3 DEF step
<1>7. f = F(f)
  <2> HIDE DEF L
  <2>1. \A n \in 0..L : n = 0 \/ n \in 1..L
    BY <1>1
  <2>2. \A n \in 0..L : f[n] = IF n = 0 THEN facts ELSE Merged(f[n - 1], new[n], verdict)
    BY <1>5, <1>6, <2>1
  <2>3. QED BY <2>2
<1>8. k = F(k)
  BY <1>7
<1>9. AllMerged(facts, new, verdict) = k[L]
  BY DEF AllMerged
<1>10. k[0] = facts /\ \A n \in 1..L : k[n] = Merged(k[n - 1], new[n], verdict)
  <2> HIDE DEF k
  <2>1. \A n \in 0..L : k[n] = IF n = 0 THEN facts ELSE Merged(k[n - 1], new[n], verdict)
    BY <1>8
  <2>2. 0 \in 0..L /\ \A n \in 1..L : n \in 0..L /\ n # 0
    BY <1>1
  <2>3. QED BY <2>1, <2>2
<1>11. \A n \in 0..L : k[n] \in Seq(FactType)
  <2> HIDE DEF k, L
  <2> DEFINE P == {n \in 0..L : k[n] \in Seq(FactType)}
  <2>1. 0 \in P
    <3>1. 0 \in 0..L
      BY <1>1
    <3>2. k[0] \in Seq(FactType)
      BY <1>10
    <3>3. QED BY <3>1, <3>2
  <2>2. ASSUME NEW n \in 0..L - 1, n \in P PROVE n + 1 \in P
    <3>1. n + 1 \in 1..L /\ n + 1 \in 0..L /\ n + 1 - 1 = n /\ k[n] \in Seq(FactType)
      BY <2>2, <1>1
    <3>2. k[n + 1] = Merged(k[n], new[n + 1], verdict)
      BY <3>1, <1>10
    <3>3. k[n + 1] \in Seq(FactType)
      BY <3>1, <3>2, <1>2
    <3>4. QED BY <3>1, <3>3
  <2> HIDE DEF P
  <2>3. \A n \in 0..L : n \in P
    BY <1>1, <2>1, <2>2, Climbs
  <2>4. QED BY <2>3 DEF P
<1>12. k \in [0..L -> Seq(FactType)]
  <2> HIDE DEF k
  <2>1. k = [n \in 0..L |-> k[n]]
    BY <1>8
  <2>2. QED BY <2>1, <1>11
<1> HIDE DEF k
<1>13. QED BY <1>9, <1>10, <1>12

LEMMA AllMergedType ==
  ASSUME NEW facts \in Seq(FactType), NEW new \in Seq(FactType), NEW verdict \in VerdictType
  PROVE  /\ AllMerged(facts, new, verdict) \in Seq(FactType)
         /\ \A g \in ToSet(AllMerged(facts, new, verdict)) : \E h \in ToSet(facts) \cup ToSet(new) : Alike(g, h)
<1> DEFINE L == Len(new)
<1>1. L \in Nat /\ \A n \in 1..L : new[n] \in FactType /\ new[n] \in ToSet(new)
  BY LenProperties, ElementOfSeq DEF ToSet
<1>2. PICK k \in [0..L -> Seq(FactType)] :
           /\ AllMerged(facts, new, verdict) = k[L] /\ k[0] = facts
           /\ \A n \in 1..L : k[n] = Merged(k[n - 1], new[n], verdict)
  BY AllMergedRuns
<1> HIDE DEF L
<1> DEFINE From(n) == \A g \in ToSet(k[n]) : \E h \in ToSet(facts) \cup ToSet(new) : Alike(g, h)
           P == {n \in 0..L : From(n)}
<1>3. 0 \in P
  BY <1>1, <1>2 DEF Alike
<1>4. ASSUME NEW n \in 0..L - 1, n \in P PROVE n + 1 \in P
  <2>1. n \in Nat /\ n \in 0..L /\ n + 1 \in 1..L /\ n + 1 \in 0..L /\ n + 1 - 1 = n /\ k[n] \in Seq(FactType)
    BY <1>1
  <2>2. k[n + 1] = Merged(k[n], new[n + 1], verdict)
    BY <2>1, <1>2
  <2>3. new[n + 1] \in FactType /\ new[n + 1] \in ToSet(new)
    BY <2>1, <1>1
  <2>4. \A g \in ToSet(k[n + 1]) : Alike(g, new[n + 1]) \/ \E h \in ToSet(k[n]) : Alike(g, h)
    BY <2>1, <2>2, <2>3, MergedType
  <2>5. From(n)
    BY <1>4
  <2>6. From(n + 1)
    BY <2>3, <2>4, <2>5 DEF Alike
  <2>7. QED BY <2>1, <2>6
<1> HIDE DEF P
<1>5. \A n \in 0..L : n \in P
  BY <1>1, <1>3, <1>4, Climbs
<1>6. L \in 0..L
  BY <1>1
<1>7. QED BY <1>2, <1>5, <1>6 DEF P

Digests == UNION {{Digest(c, i) : i \in DOMAIN Talk[c]} : c \in Chats}
MemoryType == [facts : Seq(FactType), name : Words \cup {Nobody}, done : Seq(Digests), failed : SUBSET Digests]
Sound(f) == f.type = "name" => f.value \notin NonNames
Healthy(mem) == mem.name \notin NonNames /\ \A f \in ToSet(mem.facts) : Sound(f)
Proper(f) == f.value \notin NonNames
Values(facts) == {f.value : f \in ToSet(facts)}

LEMMA SingleFact ==
  ASSUME NEW f \in FactType
  PROVE  <<f>> \in Seq(FactType) /\ Len(<<f>>) = 1 /\ <<f>>[1] = f
OBVIOUS

LEMMA SentenceType ==
  ASSUME NEW c \in Chats, NEW i \in DOMAIN Talk[c]
  PROVE  /\ Talk[c][i] \in Sentence /\ (Talk[c][i].form # "none" => Talk[c][i].word \in Words)
         /\ Talk[c] \in Seq(Sentence) /\ Len(Talk[c]) \in Nat /\ DOMAIN Talk[c] = 1..Len(Talk[c])
BY TalkAssumption, ElementOfSeq, LenProperties DEF Chats

LEMMA NamesInType ==
  ASSUME NEW c \in Chats, NEW i \in DOMAIN Talk[c]
  PROVE  /\ NamesIn(c, i) \in Seq(FactType)
         /\ \A n \in 1..Len(NamesIn(c, i)) : Proper(NamesIn(c, i)[n])
<1> DEFINE m == Talk[c][i]
<1>1. m \in Sentence /\ (m.form # "none" => m.word \in Words)
  BY SentenceType
<1> HIDE DEF m
<1>2. NameFacts(m) = <<>> \/ \E f \in FactType : NameFacts(m) = <<f>> /\ Proper(f)
  <2>1. CASE m.form \in {"sure", "verb"} /\ m.word \notin NonNames
    <3> DEFINE f == Fact("name", m.word, "positive", m.form = "sure")
    <3>1. f \in FactType
      BY <1>1, <2>1, FactValues
    <3>2. Proper(f)
      BY <2>1 DEF Proper, Fact
    <3>3. NameFacts(m) = <<f>>
      BY <2>1 DEF NameFacts
    <3>4. QED BY <3>1, <3>2, <3>3
  <2>2. QED BY <2>1 DEF NameFacts
<1>3. ReplyFacts(m, Before(c, i)) = <<>> \/ \E f \in FactType : ReplyFacts(m, Before(c, i)) = <<f>> /\ Proper(f)
  <2>1. CASE ReplyFacts(m, Before(c, i)) # <<>>
    <3> DEFINE f == Fact("name", m.word, "positive", FALSE)
    <3>1. m.form \in {"bare", "nope"} /\ m.word \notin NonNames /\ ReplyFacts(m, Before(c, i)) = <<f>>
      BY <2>1 DEF ReplyFacts
    <3>2. f \in FactType
      BY <1>1, <3>1, FactValues
    <3>3. Proper(f)
      BY <3>1 DEF Proper, Fact
    <3>4. QED BY <3>1, <3>2, <3>3
  <2>2. QED BY <2>1
<1>4. NamesIn(c, i) = NameFacts(m) \o ReplyFacts(m, Before(c, i))
  BY DEF NamesIn, m
<1> DEFINE a == NameFacts(m)
           b == ReplyFacts(m, Before(c, i))
<1>5. /\ a \in Seq(FactType) /\ \A n \in 1..Len(a) : Proper(a[n])
      /\ b \in Seq(FactType) /\ \A n \in 1..Len(b) : Proper(b[n])
  <2>1. \A x : x = <<>> => x \in Seq(FactType) /\ Len(x) = 0
    OBVIOUS
  <2>2. ASSUME NEW x, x = <<>> \/ \E f \in FactType : x = <<f>> /\ Proper(f)
        PROVE  x \in Seq(FactType) /\ \A n \in 1..Len(x) : Proper(x[n])
    <3>1. CASE x = <<>>
      BY <3>1, <2>1
    <3>2. CASE \E f \in FactType : x = <<f>> /\ Proper(f)
      <4>1. PICK f \in FactType : x = <<f>> /\ Proper(f)
        BY <3>2
      <4>2. x \in Seq(FactType) /\ Len(x) = 1 /\ x[1] = f
        BY <4>1, SingleFact
      <4>3. \A n \in 1..1 : n = 1
        OBVIOUS
      <4>4. QED BY <4>1, <4>2, <4>3
    <3>3. QED BY <2>2, <3>1, <3>2
  <2>3. QED BY <1>2, <1>3, <2>2
<1> HIDE DEF a, b
<1>6. /\ a \o b \in Seq(FactType) /\ Len(a \o b) = Len(a) + Len(b) /\ Len(a) \in Nat /\ Len(b) \in Nat
      /\ \A n \in 1..Len(a) + Len(b) : (a \o b)[n] = IF n <= Len(a) THEN a[n] ELSE b[n - Len(a)]
  BY <1>5, ConcatProperties, LenProperties
<1>7. ASSUME NEW n \in 1..Len(a \o b) PROVE Proper((a \o b)[n])
  <2>1. CASE n <= Len(a)
    <3>1. n \in 1..Len(a)
      BY <1>6, <2>1
    <3>2. QED BY <3>1, <2>1, <1>5, <1>6
  <2>2. CASE ~(n <= Len(a))
    <3>1. n - Len(a) \in 1..Len(b)
      BY <1>6, <2>2
    <3>2. QED BY <3>1, <2>2, <1>5, <1>6
  <2>3. QED BY <2>1, <2>2
<1>8. QED BY <1>4, <1>6, <1>7 DEF a, b

LEMMA ExtractedType ==
  ASSUME NEW c \in Chats, NEW i \in DOMAIN Talk[c]
  PROVE  /\ Extracted(c, i) \in Seq(FactType) /\ \A f \in ToSet(Extracted(c, i)) : Sound(f)
         /\ NamesIn(c, i) # <<>> => /\ NamesIn(c, i)[1] \in FactType /\ Proper(NamesIn(c, i)[1])
                                    /\ NamesIn(c, i)[1].value \in SaidIn(c, i)
<1> DEFINE a == NamesIn(c, i)
           b == LikeFacts(Talk[c][i])
<1>1. a \in Seq(FactType) /\ \A n \in 1..Len(a) : Proper(a[n])
  BY NamesInType
<1>2. b \in Seq(FactType) /\ \A n \in 1..Len(b) : Sound(b[n])
  <2> DEFINE likes == Talk[c][i].likes
  <2>1. likes \in Seq([what : Words, polarity : {"positive", "negative"}, sure : BOOLEAN])
    BY SentenceType DEF Sentence
  <2>2. Len(likes) \in Nat /\ DOMAIN likes = 1..Len(likes)
        /\ \A n \in DOMAIN likes : likes[n] \in [what : Words, polarity : {"positive", "negative"}, sure : BOOLEAN]
    BY <2>1, LenProperties, ElementOfSeq
  <2>3. b = [n \in DOMAIN likes |-> Fact("preference", likes[n].what, likes[n].polarity, likes[n].sure)]
    BY DEF LikeFacts
  <2> HIDE DEF likes, b
  <2>4. \A n \in DOMAIN likes : b[n] \in FactType /\ Sound(b[n])
    <3> SUFFICES ASSUME NEW n \in DOMAIN likes PROVE b[n] \in FactType /\ Sound(b[n])
      OBVIOUS
    <3>1. b[n] = Fact("preference", likes[n].what, likes[n].polarity, likes[n].sure)
      BY <2>3
    <3>2. b[n] \in FactType
      BY <3>1, <2>2, FactValues
    <3>3. QED BY <3>1, <3>2 DEF Sound, Fact
  <2>5. b \in [1..Len(likes) -> FactType]
    BY <2>2, <2>3, <2>4
  <2>6. b \in Seq(FactType) /\ DOMAIN b = 1..Len(likes)
    BY <2>2, <2>5, IsASeq
  <2>7. Len(b) = Len(likes)
    BY <2>6, <2>2, LenProperties
  <2>8. QED BY <2>2, <2>4, <2>6, <2>7
<1>3. Extracted(c, i) = a \o b
  BY DEF Extracted
<1> HIDE DEF a, b
<1>4. /\ a \o b \in Seq(FactType) /\ Len(a \o b) = Len(a) + Len(b) /\ Len(a) \in Nat /\ Len(b) \in Nat
      /\ \A n \in 1..Len(a) + Len(b) : (a \o b)[n] = IF n <= Len(a) THEN a[n] ELSE b[n - Len(a)]
  BY <1>1, <1>2, ConcatProperties, LenProperties
<1>5. DOMAIN (a \o b) = 1..Len(a) + Len(b)
  BY <1>4, LenProperties
<1>6. ASSUME NEW n \in 1..Len(a) + Len(b) PROVE Sound((a \o b)[n])
  <2>1. CASE n <= Len(a)
    <3>1. n \in 1..Len(a)
      BY <1>4, <2>1
    <3>2. QED BY <3>1, <2>1, <1>1, <1>4 DEF Proper, Sound
  <2>2. CASE ~(n <= Len(a))
    <3>1. n - Len(a) \in 1..Len(b)
      BY <1>4, <2>2
    <3>2. QED BY <3>1, <2>2, <1>2, <1>4
  <2>3. QED BY <2>1, <2>2
<1>7. \A f \in ToSet(Extracted(c, i)) : Sound(f)
  BY <1>3, <1>5, <1>6 DEF ToSet
<1>8. ASSUME a # <<>> PROVE a[1] \in FactType /\ Proper(a[1]) /\ a[1].value \in SaidIn(c, i)
  <2>1. 1 \in 1..Len(a)
    BY <1>8, <1>1, <1>4, EmptySeq
  <2>2. a[1] \in FactType /\ Proper(a[1])
    BY <2>1, <1>1, ElementOfSeq
  <2>3. 1 \in 1..Len(a) + Len(b) /\ (a \o b)[1] = a[1]
    BY <2>1, <1>4
  <2>4. a[1] \in ToSet(Extracted(c, i))
    BY <2>3, <1>3, <1>5 DEF ToSet
  <2>5. QED BY <2>2, <2>4 DEF SaidIn
<1>9. QED BY <1>3, <1>4, <1>7, <1>8 DEF a

LEMMA DigestType ==
  ASSUME NEW c \in Chats, NEW i \in DOMAIN Talk[c]
  PROVE  Digest(c, i) \in Digests
BY DEF Digests

\* What a turn makes of a file: it says and records no less, and adds only what was said.
Follows(mem, r, said) ==
  /\ r.failed = {} /\ ToSet(mem.done) \subseteq ToSet(r.done)
  /\ r = mem \/ Len(r.done) > Len(mem.done)
  /\ Values(r.facts) \subseteq Values(mem.facts) \cup said
  /\ r.name \in {mem.name} \cup said
  /\ Healthy(mem) => Healthy(r)

LEMMA MineOneType ==
  ASSUME NEW c \in Chats, NEW i \in DOMAIN Talk[c], NEW mem \in MemoryType, NEW verdict \in VerdictType,
         NEW raises \in BOOLEAN
  PROVE  MineOne(c, i, mem, verdict, raises) \in MemoryType
<1> DEFINE d == Digest(c, i)
           done == IF d \in ToSet(mem.done) /\ d \notin mem.failed THEN mem.done ELSE Append(mem.done, d)
           facts == AllMerged(mem.facts, Extracted(c, i), verdict)
           name == Named(mem.name, NamesIn(c, i))
<1>1. mem.facts \in Seq(FactType) /\ mem.name \in Words \cup {Nobody} /\ mem.done \in Seq(Digests) /\ mem.failed \in SUBSET Digests
  BY DEF MemoryType
<1>2. d \in Digests
  BY DigestType
<1>3. done \in Seq(Digests)
  <2> HIDE DEF d
  <2>1. QED BY <1>1, <1>2, AppendProperties
<1>4. facts \in Seq(FactType)
  BY <1>1, ExtractedType, AllMergedType
<1>5. name \in Words \cup {Nobody}
  BY <1>1, ExtractedType DEF Named, FactType
<1>6. \/ MineOne(c, i, mem, verdict, raises) = mem
      \/ MineOne(c, i, mem, verdict, raises) = [mem EXCEPT !.done = done, !.failed = @ \cup {d}]
      \/ MineOne(c, i, mem, verdict, raises) = [facts |-> facts, name |-> name, done |-> done, failed |-> mem.failed \ {d}]
  BY DEF MineOne
<1> HIDE DEF d, done, facts, name
<1>7. [mem EXCEPT !.done = done, !.failed = @ \cup {d}] \in MemoryType
  BY <1>2, <1>3 DEF MemoryType
<1>8. [facts |-> facts, name |-> name, done |-> done, failed |-> mem.failed \ {d}] \in MemoryType
  BY <1>1, <1>2, <1>3, <1>4, <1>5 DEF MemoryType
<1>9. QED BY <1>6, <1>7, <1>8

LEMMA MineOneSkips ==
  ASSUME NEW c, NEW i, NEW mem, NEW verdict, mem.failed = {},
         Talk[c][i].by = "user" => Digest(c, i) \in ToSet(mem.done)
  PROVE  MineOne(c, i, mem, verdict, FALSE) = mem
BY DEF MineOne

LEMMA MineOneFollows ==
  ASSUME NEW c \in Chats, NEW i \in DOMAIN Talk[c], NEW mem \in MemoryType, NEW verdict \in VerdictType,
         mem.failed = {}
  PROVE  /\ Follows(mem, MineOne(c, i, mem, verdict, FALSE), SaidIn(c, i))
         /\ Talk[c][i].by = "user" => Digest(c, i) \in ToSet(MineOne(c, i, mem, verdict, FALSE).done)
<1> DEFINE d == Digest(c, i)
           facts == AllMerged(mem.facts, Extracted(c, i), verdict)
           name == Named(mem.name, NamesIn(c, i))
           r == MineOne(c, i, mem, verdict, FALSE)
<1>1. mem.facts \in Seq(FactType) /\ mem.done \in Seq(Digests) /\ d \in Digests
  BY DigestType DEF MemoryType
<1>2. CASE Talk[c][i].by # "user" \/ d \in ToSet(mem.done)
  <2>1. r = mem
    BY <1>2, MineOneSkips
  <2>2. QED BY <2>1, <1>2 DEF Follows
<1>3. CASE Talk[c][i].by = "user" /\ d \notin ToSet(mem.done)
  <2> DEFINE done == Append(mem.done, d)
  <2>1. Len(mem.done) \in Nat /\ Len(done) = Len(mem.done) + 1 /\ DOMAIN mem.done = 1..Len(mem.done)
        /\ DOMAIN done = 1..Len(mem.done) + 1 /\ done[Len(mem.done) + 1] = d
        /\ \A n \in 1..Len(mem.done) : done[n] = mem.done[n]
    <3> HIDE DEF d
    <3>1. done \in Seq(Digests) /\ Len(done) = Len(mem.done) + 1 /\ done[Len(mem.done) + 1] = d
          /\ \A n \in 1..Len(mem.done) : done[n] = mem.done[n]
      BY <1>1, AppendProperties
    <3>2. QED BY <3>1, <1>1, LenProperties
  <2>2. done # mem.done
    BY <2>1
  <2>3. r = [facts |-> facts, name |-> name, done |-> done, failed |-> mem.failed \ {d}]
    BY <1>3, <2>2 DEF MineOne
  <2>4. ToSet(mem.done) \subseteq ToSet(done) /\ d \in ToSet(done)
    <3> HIDE DEF done, d
    <3>1. \A n \in 1..Len(mem.done) : n \in 1..Len(mem.done) + 1
      BY <2>1
    <3>2. Len(mem.done) + 1 \in 1..Len(mem.done) + 1
      BY <2>1
    <3>3. QED BY <2>1, <3>1, <3>2 DEF ToSet
  <2>5. \A g \in ToSet(facts) : \E h \in ToSet(mem.facts) \cup ToSet(Extracted(c, i)) : Alike(g, h)
    BY <1>1, ExtractedType, AllMergedType
  <2>6. Values(facts) \subseteq Values(mem.facts) \cup SaidIn(c, i)
    BY <2>5 DEF Values, SaidIn, Alike
  <2>7. name \in {mem.name} \cup SaidIn(c, i)
    BY ExtractedType DEF Named
  <2>8. Healthy(mem) => name \notin NonNames /\ \A f \in ToSet(facts) : Sound(f)
    <3>1. \A f \in ToSet(Extracted(c, i)) : Sound(f)
      BY ExtractedType
    <3>2. NamesIn(c, i) # <<>> => NamesIn(c, i)[1].value \notin NonNames
      BY ExtractedType DEF Proper
    <3>3. Healthy(mem) => \A f \in ToSet(facts) : Sound(f)
      BY <2>5, <3>1 DEF Healthy, Sound, Alike
    <3>4. Healthy(mem) => name \notin NonNames
      BY <3>2 DEF Healthy, Named
    <3>5. QED BY <3>3, <3>4
  <2> HIDE DEF facts, name, done, d, r
  <2>9. r.facts = facts /\ r.name = name /\ r.done = done /\ r.failed = {}
    BY <2>3
  <2>10. Len(r.done) > Len(mem.done)
    BY <2>1, <2>9
  <2>11. Healthy(mem) => Healthy(r)
    BY <2>8, <2>9 DEF Healthy
  <2>12. Follows(mem, r, SaidIn(c, i))
    BY <2>4, <2>6, <2>7, <2>9, <2>10, <2>11 DEF Follows
  <2>13. QED BY <2>4, <2>9, <2>12 DEF r, d
<1>4. QED BY <1>2, <1>3

MinedSteps(c, last, mem, verdict, raises) ==
  {k \in [0..last -> MemoryType] :
     /\ MinedUpto(c, last, mem, verdict, raises) = k[last] /\ k[0] = mem
     /\ \A n \in 1..last : k[n] = MineOne(c, n, k[n - 1], verdict, n = raises)}
LEMMA MinedRuns ==
  ASSUME NEW c \in Chats, NEW last \in 0..Len(Talk[c]), NEW mem \in MemoryType, NEW verdict \in VerdictType, NEW raises
  PROVE  MinedSteps(c, last, mem, verdict, raises) # {}
<1> DEFINE L == last
           step == [x \in MemoryType \X (1..L) |-> MineOne(c, x[2], x[1], verdict, x[2] = raises)]
           F(g) == [n \in 0..L |-> IF n = 0 THEN mem ELSE MineOne(c, n, g[n - 1], verdict, n = raises)]
           k == CHOOSE g : g = F(g)
<1>1. L \in Nat
  BY TalkAssumption, LenProperties DEF Chats
<1>2. \A x \in MemoryType, n \in 1..L : MineOne(c, n, x, verdict, n = raises) \in MemoryType
  <2> SUFFICES ASSUME NEW x \in MemoryType, NEW n \in 1..L PROVE MineOne(c, n, x, verdict, n = raises) \in MemoryType
    OBVIOUS
  <2>1. n \in DOMAIN Talk[c] /\ (n = raises) \in BOOLEAN
    BY TalkAssumption, LenProperties DEF Chats
  <2>2. QED BY <2>1, MineOneType
<1>3. step \in Steps(MemoryType, L)
  <2> HIDE DEF L
  <2>1. QED BY <1>2 DEF Steps
<1>4. Runs(MemoryType, mem, step, L) # {}
  <2> HIDE DEF step, L
  <2>1. QED BY <1>1, <1>3, Iterates
<1>5. PICK f \in [0..L -> MemoryType] : f[0] = mem /\ \A n \in 1..L : f[n] = step[<<f[n - 1], n>>]
  <2> HIDE DEF step, L
  <2>1. QED BY <1>4 DEF Runs
<1>6. \A n \in 1..L : f[n] = MineOne(c, n, f[n - 1], verdict, n = raises)
  <2> SUFFICES ASSUME NEW n \in 1..L PROVE f[n] = MineOne(c, n, f[n - 1], verdict, n = raises)
    OBVIOUS
  <2> HIDE DEF step, L
  <2>1. n - 1 \in 0..L
    BY <1>1
  <2>2. f[n - 1] \in MemoryType
    BY <2>1
  <2>3. <<f[n - 1], n>> \in MemoryType \X (1..L)
    BY <2>2
  <2>4. QED BY <1>5, <2>3 DEF step
<1>7. f = F(f)
  <2> HIDE DEF L
  <2>1. \A n \in 0..L : n = 0 \/ n \in 1..L
    BY <1>1
  <2>2. \A n \in 0..L : f[n] = IF n = 0 THEN mem ELSE MineOne(c, n, f[n - 1], verdict, n = raises)
    BY <1>5, <1>6, <2>1
  <2>3. QED BY <2>2
<1>8. k = F(k)
  BY <1>7
<1>9. MinedUpto(c, last, mem, verdict, raises) = k[L]
  BY DEF MinedUpto
<1>10. k[0] = mem /\ \A n \in 1..L : k[n] = MineOne(c, n, k[n - 1], verdict, n = raises)
  <2> HIDE DEF k
  <2>1. \A n \in 0..L : k[n] = IF n = 0 THEN mem ELSE MineOne(c, n, k[n - 1], verdict, n = raises)
    BY <1>8
  <2>2. 0 \in 0..L /\ \A n \in 1..L : n \in 0..L /\ n # 0
    BY <1>1
  <2>3. QED BY <2>1, <2>2
<1>11. \A n \in 0..L : k[n] \in MemoryType
  <2> HIDE DEF k, L
  <2> DEFINE P == {n \in 0..L : k[n] \in MemoryType}
  <2>1. 0 \in P
    <3>1. 0 \in 0..L
      BY <1>1
    <3>2. k[0] \in MemoryType
      BY <1>10
    <3>3. QED BY <3>1, <3>2
  <2>2. ASSUME NEW n \in 0..L - 1, n \in P PROVE n + 1 \in P
    <3>1. n + 1 \in 1..L /\ n + 1 \in 0..L /\ n + 1 - 1 = n /\ k[n] \in MemoryType
      BY <2>2, <1>1
    <3>2. k[n + 1] = MineOne(c, n + 1, k[n], verdict, n + 1 = raises)
      BY <3>1, <1>10
    <3>3. k[n + 1] \in MemoryType
      BY <3>1, <3>2, <1>2
    <3>4. QED BY <3>1, <3>3
  <2> HIDE DEF P
  <2>3. \A n \in 0..L : n \in P
    BY <1>1, <2>1, <2>2, Climbs
  <2>4. QED BY <2>3 DEF P
<1>12. k \in [0..L -> MemoryType]
  <2> HIDE DEF k
  <2>1. k = [n \in 0..L |-> k[n]]
    BY <1>8
  <2>2. QED BY <2>1, <1>11
<1> HIDE DEF k
<1>13. QED BY <1>9, <1>10, <1>12 DEF MinedSteps

LEMMA MinedType ==
  ASSUME NEW c \in Chats, NEW last \in 0..Len(Talk[c]), NEW mem \in MemoryType, NEW verdict \in VerdictType, NEW raises
  PROVE  MinedUpto(c, last, mem, verdict, raises) \in MemoryType
<1>1. PICK k \in MinedSteps(c, last, mem, verdict, raises) : TRUE
  BY MinedRuns
<1>2. last \in 0..last
  BY TalkAssumption, LenProperties DEF Chats
<1>3. QED BY <1>1, <1>2 DEF MinedSteps

\* Where every message but the last was recorded, a turn adds only the last.
LEMMA MinedFollows ==
  ASSUME NEW c \in Chats, NEW last \in DOMAIN Talk[c], NEW mem \in MemoryType, NEW verdict \in VerdictType,
         mem.failed = {}, Talk[c][last].by = "user",
         \A j \in 1..last - 1 : Talk[c][j].by = "user" => Digest(c, j) \in ToSet(mem.done)
  PROVE  /\ Follows(mem, MinedUpto(c, last, mem, verdict, 0), SaidIn(c, last))
         /\ \A j \in 1..last : Talk[c][j].by = "user" => Digest(c, j) \in ToSet(MinedUpto(c, last, mem, verdict, 0).done)
<1>1. last \in 1..Len(Talk[c]) /\ Len(Talk[c]) \in Nat /\ last \in 0..Len(Talk[c])
  BY TalkAssumption, LenProperties DEF Chats
<1> DEFINE nothing == 0
<1>2. PICK k \in [0..last -> MemoryType] :
           /\ MinedUpto(c, last, mem, verdict, nothing) = k[last] /\ k[0] = mem
           /\ \A n \in 1..last : k[n] = MineOne(c, n, k[n - 1], verdict, n = nothing)
  <2> HIDE DEF nothing
  <2>1. MinedSteps(c, last, mem, verdict, nothing) # {}
    BY <1>1, MinedRuns
  <2>2. QED BY <2>1 DEF MinedSteps
<1>3. \A n \in 1..last : k[n] = MineOne(c, n, k[n - 1], verdict, FALSE)
  <2>1. \A n \in 1..last : (n = 0) = FALSE
    BY <1>1
  <2>2. QED BY <1>2, <2>1
<1> DEFINE P == {n \in 0..last - 1 : k[n] = mem}
<1>4. 0 \in P
  BY <1>1, <1>2
<1>5. ASSUME NEW n \in 0..(last - 1) - 1, n \in P PROVE n + 1 \in P
  <2>1. n + 1 \in 1..last - 1 /\ n + 1 \in 1..last /\ n + 1 \in 0..last - 1 /\ n + 1 - 1 = n /\ k[n] = mem
    BY <1>1, <1>5
  <2>2. k[n + 1] = MineOne(c, n + 1, mem, verdict, FALSE)
    <3> DEFINE m == n + 1
    <3>1. m \in 1..last /\ m - 1 = n
      BY <2>1
    <3> HIDE DEF m
    <3>2. k[m] = MineOne(c, m, k[m - 1], verdict, FALSE)
      BY <3>1, <1>3
    <3>3. k[m] = MineOne(c, m, mem, verdict, FALSE)
      BY <2>1, <3>1, <3>2
    <3>4. QED BY <3>3 DEF m
  <2>3. k[n + 1] = mem
    BY <2>1, <2>2, MineOneSkips
  <2>4. QED BY <2>1, <2>3
<1> HIDE DEF P
<1>6. \A n \in 0..last - 1 : n \in P
  <2>1. last - 1 \in Nat
    BY <1>1
  <2>2. QED BY <2>1, <1>4, <1>5, Climbs
<1>7. last - 1 \in 0..last - 1 /\ last \in 1..last
  BY <1>1
<1>8. k[last - 1] = mem
  BY <1>6, <1>7 DEF P
<1>9. MinedUpto(c, last, mem, verdict, 0) = MineOne(c, last, mem, verdict, FALSE)
  BY <1>2, <1>3, <1>7, <1>8
<1> DEFINE r == MineOne(c, last, mem, verdict, FALSE)
<1>10. Follows(mem, r, SaidIn(c, last)) /\ Digest(c, last) \in ToSet(r.done)
  BY MineOneFollows
<1> HIDE DEF r
<1>11. \A j \in 1..last : Talk[c][j].by = "user" => Digest(c, j) \in ToSet(r.done)
  <2> SUFFICES ASSUME NEW j \in 1..last, Talk[c][j].by = "user" PROVE Digest(c, j) \in ToSet(r.done)
    OBVIOUS
  <2>1. j = last \/ j \in 1..last - 1
    BY <1>1
  <2>2. QED BY <2>1, <1>10 DEF Follows
<1>12. QED BY <1>9, <1>10, <1>11 DEF r

MinerSet(c) ==
  [at : {"idle"}, upto : 0..Len(Talk[c])]
    \cup [at : {"loaded", "mined"}, upto : 0..Len(Talk[c]), copy : MemoryType, of : MemoryType]
PanelSet ==
  [at : {"shut"}, asked : Nat] \cup [at : {"shown"}, asked : Nat, facts : Seq(FactType)]
    \cup [at : {"save"}, asked : Nat, value : Words, copy : MemoryType, of : MemoryType, hit : BOOLEAN]
MemoryTypeOK ==
  /\ memory \in MemoryType
  /\ miner = [c \in Chats |-> miner[c]] /\ \A c \in Chats : miner[c] \in MinerSet(c)
  /\ panel \in PanelSet /\ memFaults \in Nat
  /\ forgotten \in SUBSET Words /\ strayed \in BOOLEAN

\* What is forgotten is not known.
Unknown == \A v \in forgotten : memory.name # v /\ v \notin Values(memory.facts)

\* Since a file was loaded it was recorded in, was made shorter, or is as it was and
\* nothing of what was said is forgotten.
Since(of, said) ==
  \/ Len(memory.done) > Len(of.done)
  \/ memory.done = of.done /\ Len(memory.facts) < Len(of.facts)
  \/ memory = of /\ forgotten \cap said = {}

AllRecorded(c, last, done) == \A j \in 1..last : Talk[c][j].by = "user" => Digest(c, j) \in ToSet(done)
MinerOK(c) ==
  LET m == miner[c] IN
  /\ m.at = "idle" => AllRecorded(c, m.upto, memory.done)
  /\ m.at # "idle" => /\ m.upto \in DOMAIN Talk[c] /\ Talk[c][m.upto].by = "user"
                      /\ AllRecorded(c, m.upto - 1, m.of.done) /\ AllRecorded(c, m.upto - 1, memory.done)
                      /\ m.of.failed = {} /\ Healthy(m.of) /\ Since(m.of, SaidIn(c, m.upto))
  /\ m.at = "loaded" => m.copy = m.of
  /\ m.at = "mined" => Follows(m.of, m.copy, SaidIn(c, m.upto)) /\ AllRecorded(c, m.upto, m.copy.done)

\* What the panel is about to save is what it loaded, shortened.
Shortened(copy, of) ==
  /\ copy.done = of.done /\ copy.failed = of.failed /\ copy.name \in {of.name, Nobody}
  /\ ToSet(copy.facts) \subseteq ToSet(of.facts) /\ Len(copy.facts) < Len(of.facts)
PanelOK == panel.at = "save" => Shortened(panel.copy, panel.of) /\ (panel.hit => panel.copy.name # panel.value)

Resting == forgotten = {} /\ panel.at = "shut" /\ \A c \in Chats : miner[c].at = "idle"
MemorySound ==
  /\ memory.failed = {} /\ (Healthy(memory) \/ Resting) /\ Unknown
  /\ PanelOK /\ \A c \in Chats : MinerOK(c)
MemoryInv == MemoryTypeOK /\ (strayed \/ MemorySound)

LEMMA MemoryFields ==
  ASSUME NEW mem \in MemoryType
  PROVE  /\ mem.facts \in Seq(FactType) /\ mem.name \in Words \cup {Nobody} /\ mem.done \in Seq(Digests)
         /\ Len(mem.facts) \in Nat /\ Len(mem.done) \in Nat
BY LenProperties DEF MemoryType

LEMMA MinerFields ==
  ASSUME NEW c \in Chats, NEW m \in MinerSet(c)
  PROVE  /\ m.at \in {"idle", "loaded", "mined"} /\ m.upto \in 0..Len(Talk[c])
         /\ m.at # "idle" => m.copy \in MemoryType /\ m.of \in MemoryType
BY DEF MinerSet

LEMMA HealedType ==
  ASSUME NEW mem \in MemoryType
  PROVE  /\ Healed(mem) \in MemoryType /\ Healthy(Healed(mem))
         /\ Healed(mem).done = mem.done /\ Healed(mem).failed = mem.failed
         /\ Healthy(mem) => Healed(mem) = mem
<1> DEFINE good == {f \in ToSet(mem.facts) : f.type # "name" \/ f.value \notin NonNames}
           facts == Kept(mem.facts, good)
           named == {f \in ToSet(facts) : f.type = "name"}
           names == Kept(facts, named)
           name == IF mem.name \notin NonNames THEN mem.name ELSE IF names = <<>> THEN Nobody ELSE Last(names).value
<1>1. mem.facts \in Seq(FactType) /\ mem.name \in Words \cup {Nobody}
  BY MemoryFields
<1>2. /\ facts \in Seq(FactType) /\ ToSet(facts) \subseteq ToSet(mem.facts) \cap good
      /\ ToSet(mem.facts) \subseteq good => facts = mem.facts
  <2> HIDE DEF good
  <2>1. QED BY <1>1, KeptFacts
<1>3. names \in Seq(FactType) /\ ToSet(names) \subseteq ToSet(facts) \cap named
  <2> HIDE DEF facts, named
  <2>1. QED BY <1>2, KeptFacts
<1>4. Healed(mem) = [mem EXCEPT !.facts = facts, !.name = name]
  BY DEF Healed
<1> HIDE DEF names, facts
<1>5. names # <<>> => Last(names) \in FactType /\ Last(names) \in ToSet(names)
  <2> SUFFICES ASSUME names # <<>> PROVE Last(names) \in FactType /\ Last(names) \in ToSet(names)
    OBVIOUS
  <2>1. Len(names) \in 1..Len(names) /\ DOMAIN names = 1..Len(names)
    BY <1>3, EmptySeq, LenProperties
  <2>2. QED BY <2>1, <1>3, ElementOfSeq DEF Last, ToSet
<1>6. name \in Words \cup {Nobody}
  BY <1>1, <1>5 DEF FactType
<1>7. name \notin NonNames
  <2>1. Nobody \notin NonNames
    BY TalkAssumption
  <2>2. names # <<>> => Last(names).type = "name" /\ Last(names) \in good
    BY <1>2, <1>3, <1>5
  <2>3. QED BY <2>1, <2>2
<1>8. Healed(mem) \in MemoryType
  BY <1>2, <1>4, <1>6 DEF MemoryType
<1>9. \A f \in ToSet(facts) : Sound(f)
  BY <1>2 DEF Sound
<1>10. Healthy(mem) => ToSet(mem.facts) \subseteq good /\ name = mem.name
  BY DEF Healthy, Sound
<1> HIDE DEF name, good
<1>11. Healthy(mem) => Healed(mem) = mem
  BY <1>2, <1>4, <1>10 DEF MemoryType
<1>12. Healed(mem).facts = facts /\ Healed(mem).name = name /\ Healed(mem).done = mem.done /\ Healed(mem).failed = mem.failed
  BY <1>4 DEF MemoryType
<1>13. QED BY <1>7, <1>8, <1>9, <1>11, <1>12 DEF Healthy

LEMMA RemovedType ==
  ASSUME NEW facts \in Seq(FactType), NEW n \in DOMAIN facts
  PROVE  /\ RemoveAt(facts, n) \in Seq(FactType) /\ Len(RemoveAt(facts, n)) < Len(facts)
         /\ ToSet(RemoveAt(facts, n)) \subseteq ToSet(facts)
<1> DEFINE L == Len(facts)
           a == SubSeq(facts, 1, n - 1)
           b == SubSeq(facts, n + 1, L)
<1>1. L \in Nat /\ DOMAIN facts = 1..L /\ n \in 1..L
  BY LenProperties
<1>2. a \in Seq(FactType) /\ Len(a) = n - 1 /\ \A i \in 1..n - 1 : a[i] = facts[i] /\ i \in 1..L
  BY <1>1, SubSeqProperties
<1>3. b \in Seq(FactType) /\ Len(b) = L - n /\ \A i \in 1..L - n : b[i] = facts[n + i] /\ n + i \in 1..L
  <2>1. n + 1 \in 1..L + 1 /\ L \in n..L
    BY <1>1
  <2>2. b \in Seq(FactType) /\ Len(b) = L - n
    BY <1>1, <2>1, SubSeqProperties
  <2>3. \A i \in 1..L - n : b[i] = facts[n + i] /\ n + i \in 1..L
    BY <1>1, <2>1, SubSeqProperties
  <2>4. QED BY <2>2, <2>3
<1>4. RemoveAt(facts, n) = a \o b
  BY DEF RemoveAt
<1> HIDE DEF a, b, L
<1>5. a \o b \in Seq(FactType) /\ Len(a \o b) = L - 1 /\ DOMAIN (a \o b) = 1..L - 1
      /\ \A i \in 1..L - 1 : (a \o b)[i] = IF i <= n - 1 THEN a[i] ELSE b[i - (n - 1)]
  <2>1. a \o b \in Seq(FactType) /\ Len(a \o b) = Len(a) + Len(b)
        /\ \A i \in 1..Len(a) + Len(b) : (a \o b)[i] = IF i <= Len(a) THEN a[i] ELSE b[i - Len(a)]
    BY <1>2, <1>3, ConcatProperties
  <2>2. Len(a) + Len(b) = L - 1
    BY <1>1, <1>2, <1>3
  <2>3. QED BY <2>1, <2>2, <1>2, LenProperties
<1>6. ASSUME NEW i \in 1..L - 1 PROVE (a \o b)[i] \in ToSet(facts)
  <2>1. CASE i <= n - 1
    <3>1. i \in 1..n - 1
      BY <2>1, <1>1
    <3>2. QED BY <3>1, <2>1, <1>1, <1>2, <1>5 DEF ToSet
  <2>2. CASE ~(i <= n - 1)
    <3>1. i - (n - 1) \in 1..L - n
      BY <2>2, <1>1
    <3>2. QED BY <3>1, <2>2, <1>1, <1>3, <1>5 DEF ToSet
  <2>3. QED BY <2>1, <2>2
<1>7. ToSet(a \o b) \subseteq ToSet(facts)
  BY <1>5, <1>6 DEF ToSet
<1>8. Len(a \o b) < Len(facts)
  <2>1. L = Len(facts)
    BY DEF L
  <2>2. \A x \in Nat : x - 1 < x
    OBVIOUS
  <2>3. QED BY <2>1, <2>2, <1>1, <1>5
<1>9. QED BY <1>4, <1>5, <1>7, <1>8

LEMMA SinceKept ==
  ASSUME MemoryTypeOK, MemoryTypeOK', NEW of \in MemoryType, NEW said, Since(of, said),
         \/ memory' = memory /\ forgotten' \subseteq forgotten
         \/ Len(memory'.done) > Len(memory.done)
         \/ memory'.done = memory.done /\ Len(memory'.facts) < Len(memory.facts)
  PROVE  Since(of, said)'
<1>1. /\ Len(memory.done) \in Nat /\ Len(memory'.done) \in Nat /\ Len(of.done) \in Nat
      /\ Len(memory.facts) \in Nat /\ Len(memory'.facts) \in Nat /\ Len(of.facts) \in Nat
  BY MemoryFields DEF MemoryTypeOK
<1>2. CASE memory' = memory /\ forgotten' \subseteq forgotten
  BY <1>2 DEF Since
<1>3. CASE Len(memory'.done) > Len(memory.done)
  <2>1. Len(memory.done) >= Len(of.done)
    BY <1>1 DEF Since
  <2>2. QED BY <1>1, <1>3, <2>1 DEF Since
<1>4. CASE memory'.done = memory.done /\ Len(memory'.facts) < Len(memory.facts)
  BY <1>1, <1>4 DEF Since
<1>5. QED BY <1>2, <1>3, <1>4

LEMMA MemoryInitOK == MemoryInit => MemoryInv
<1> SUFFICES ASSUME MemoryInit PROVE MemoryInv
  OBVIOUS
<1>1. Blank \in MemoryType
  BY DEF Blank, MemoryType
<1>2. memory \in MemoryType /\ memory.failed = {} /\ memory.done = <<>>
  <2>1. CASE Cured /\ NonNames # {}
    <3>1. PICK w \in NonNames : memory = [Blank EXCEPT !.facts = <<Fact("name", w, "positive", FALSE)>>, !.name = w]
      BY <2>1 DEF MemoryInit
    <3>2. w \in Words
      BY TalkAssumption
    <3>3. <<Fact("name", w, "positive", FALSE)>> \in Seq(FactType)
      BY <3>2, FactValues, SingleFact
    <3>4. QED BY <1>1, <3>1, <3>2, <3>3 DEF Blank, MemoryType
  <2>2. CASE ~(Cured /\ NonNames # {})
    BY <1>1, <2>2 DEF MemoryInit, Blank
  <2>3. QED BY <2>1, <2>2
<1>3. \A c \in Chats : miner[c] = [at |-> "idle", upto |-> 0] /\ Len(Talk[c]) \in Nat
  BY TalkAssumption, LenProperties DEF MemoryInit, Unbegun, Chats
<1>4. miner = [c \in Chats |-> miner[c]]
  BY DEF MemoryInit
<1>5. MemoryTypeOK
  <2>1. \A c \in Chats : miner[c] \in MinerSet(c)
    BY <1>3 DEF MinerSet
  <2>2. panel \in PanelSet
    BY DEF MemoryInit, PanelSet
  <2>3. memFaults \in Nat /\ forgotten \in SUBSET Words /\ strayed \in BOOLEAN
    BY DEF MemoryInit
  <2>4. QED BY <1>2, <1>4, <2>1, <2>2, <2>3 DEF MemoryTypeOK
<1>6. \A c \in Chats : MinerOK(c)
  BY <1>3 DEF MinerOK, AllRecorded
<1>7. QED BY <1>2, <1>3, <1>5, <1>6 DEF MemoryInit, MemoryInv, MemorySound, Resting, Unknown, PanelOK

LEMMA MinerUpdate ==
  ASSUME miner = [c \in Chats |-> miner[c]], NEW c \in Chats, NEW m, miner' = [miner EXCEPT ![c] = m]
  PROVE  /\ miner' = [d \in Chats |-> miner'[d]] /\ miner'[c] = m
         /\ \A d \in Chats : d # c => miner'[d] = miner[d]
OBVIOUS

LEMMA FaultType ==
  ASSUME MemoryTypeOK, UNCHANGED <<memFaults, strayed>> \/ (Fault /\ strayed' = TRUE)
  PROVE  memFaults' \in Nat /\ strayed' \in BOOLEAN
<1>1. memFaults \in Nat /\ strayed \in BOOLEAN
  BY DEF MemoryTypeOK
<1>2. CASE UNCHANGED <<memFaults, strayed>>
  BY <1>1, <1>2
<1>3. CASE Fault /\ strayed' = TRUE
  <2>1. memFaults' \in Nat
    BY <1>1, <1>3 DEF Fault
  <2>2. QED BY <1>3, <2>1
<1>4. QED BY <1>2, <1>3

LEMMA MinerKept ==
  ASSUME MemoryTypeOK, MemoryTypeOK', NEW c \in Chats, MinerOK(c), miner'[c] = miner[c],
         ToSet(memory.done) \subseteq ToSet(memory'.done),
         \/ memory' = memory /\ forgotten' \subseteq forgotten
         \/ Len(memory'.done) > Len(memory.done)
         \/ memory'.done = memory.done /\ Len(memory'.facts) < Len(memory.facts)
  PROVE  MinerOK(c)'
<1>1. miner[c].at # "idle" => miner[c].of \in MemoryType
  BY MinerFields DEF MemoryTypeOK
<1>2. miner[c].at # "idle" => Since(miner[c].of, SaidIn(c, miner[c].upto))'
  BY <1>1, SinceKept DEF MinerOK
<1>3. QED BY <1>2 DEF MinerOK, AllRecorded, Since

\* A load writes the file again only when nothing else has happened yet.
LEMMA HealKept ==
  ASSUME MemoryTypeOK, MemorySound, memory' = Healed(memory)
  PROVE  /\ Healthy(memory') /\ memory'.done = memory.done /\ memory'.failed = {}
         /\ memory' = memory \/ Resting
BY HealedType DEF MemoryTypeOK, MemorySound

LEMMA LoadOK ==
  ASSUME MemoryInv, NEW c \in Chats, Load(c)
  PROVE  MemoryInv'
<1>1. miner[c].at = "idle" /\ panel' = panel
  BY DEF Load
<1>2. PICK i \in (miner[c].upto + 1)..Len(Talk[c]) :
        /\ Talk[c][i].by = "user"
        /\ \A j \in (miner[c].upto + 1)..(i - 1) : Talk[c][j].by # "user"
        /\ forgotten' = forgotten \ SaidIn(c, i)
        /\ \/ /\ memory' = Healed(memory)
              /\ miner' = [miner EXCEPT ![c] = [at |-> "loaded", upto |-> i, copy |-> Healed(memory), of |-> Healed(memory)]]
              /\ UNCHANGED <<memFaults, strayed>>
           \/ /\ Fault /\ strayed' = TRUE
              /\ miner' = [miner EXCEPT ![c] = [at |-> "loaded", upto |-> i, copy |-> Blank, of |-> memory]]
              /\ UNCHANGED memory
  BY DEF Load
<1>3. /\ memory \in MemoryType /\ Healed(memory) \in MemoryType /\ Blank \in MemoryType
      /\ miner = [d \in Chats |-> miner[d]] /\ miner[c].upto \in 0..Len(Talk[c]) /\ Len(Talk[c]) \in Nat
  <2>1. Blank \in MemoryType
    BY DEF Blank, MemoryType
  <2>2. Len(Talk[c]) \in Nat
    BY TalkAssumption, LenProperties DEF Chats
  <2>3. QED BY <2>1, <2>2, HealedType, MinerFields DEF MemoryInv, MemoryTypeOK
<1>4. i \in 1..Len(Talk[c]) /\ i \in 0..Len(Talk[c]) /\ DOMAIN Talk[c] = 1..Len(Talk[c])
  <2>1. DOMAIN Talk[c] = 1..Len(Talk[c])
    BY TalkAssumption, LenProperties DEF Chats
  <2>2. QED BY <1>3, <2>1
<1>5. MemoryTypeOK'
  <2>1. PICK m \in MinerSet(c) : miner' = [miner EXCEPT ![c] = m]
    BY <1>2, <1>3, <1>4 DEF MinerSet
  <2>2. miner' = [d \in Chats |-> miner'[d]] /\ \A d \in Chats : miner'[d] \in MinerSet(d)
    BY <1>3, <2>1, MinerUpdate DEF MemoryInv, MemoryTypeOK
  <2>3. memory' \in MemoryType
    BY <1>2, <1>3
  <2>4. memFaults' \in Nat /\ strayed' \in BOOLEAN
    BY <1>2, FaultType DEF MemoryInv
  <2>5. QED BY <1>1, <1>2, <2>2, <2>3, <2>4 DEF MemoryInv, MemoryTypeOK
<1>6. SUFFICES ASSUME ~strayed' PROVE MemorySound'
  BY <1>5 DEF MemoryInv
<1> DEFINE new == [at |-> "loaded", upto |-> i, copy |-> Healed(memory), of |-> Healed(memory)]
<1>7. /\ memory' = Healed(memory) /\ miner' = [miner EXCEPT ![c] = new]
      /\ MemoryTypeOK /\ MemorySound
  BY <1>2, <1>6 DEF MemoryInv
<1>8. miner'[c] = new /\ \A d \in Chats : d # c => miner'[d] = miner[d]
  BY <1>3, <1>7, MinerUpdate
<1>9. /\ Healthy(memory') /\ memory'.done = memory.done /\ memory'.failed = {}
      /\ memory' = memory \/ Resting
  BY <1>7, HealKept
<1>10. Unknown'
  BY <1>2, <1>7, <1>9 DEF Unknown, MemorySound, Resting
<1>11. PanelOK'
  BY <1>1, <1>7 DEF PanelOK, MemorySound
<1>12. MinerOK(c)'
  <2>1. \A j \in 1..i - 1 : j \in 1..miner[c].upto \/ j \in (miner[c].upto + 1)..(i - 1)
    BY <1>3, <1>4
  <2>2. AllRecorded(c, miner[c].upto, memory.done)
    BY <1>1, <1>7 DEF MemorySound, MinerOK
  <2>3. AllRecorded(c, i - 1, memory'.done)
    BY <1>2, <1>9, <2>1, <2>2 DEF AllRecorded
  <2>4. Since(memory, SaidIn(c, i))'
    BY <1>2 DEF Since
  <2> HIDE DEF new
  <2>5. new.at = "loaded" /\ new.upto = i /\ new.copy = memory' /\ new.of = memory'
    BY <1>7 DEF new
  <2>6. QED BY <1>2, <1>4, <1>8, <1>9, <2>3, <2>4, <2>5 DEF MinerOK, AllRecorded, Since
<1>13. ASSUME NEW d \in Chats, d # c PROVE MinerOK(d)'
  <2>1. CASE memory' = memory
    BY <1>2, <1>5, <1>7, <1>8, <1>13, <2>1, MinerKept DEF MemorySound
  <2>2. CASE Resting
    <3>1. miner'[d].at = "idle" /\ AllRecorded(d, miner'[d].upto, memory'.done)
      BY <1>7, <1>8, <1>9, <1>13, <2>2 DEF Resting, MemorySound, MinerOK
    <3>2. QED BY <3>1 DEF MinerOK, AllRecorded
  <2>3. QED BY <1>9, <2>1, <2>2
<1>14. QED BY <1>9, <1>10, <1>11, <1>12, <1>13 DEF MemorySound

LEMMA MineOK ==
  ASSUME MemoryInv, NEW c \in Chats, Mine(c)
  PROVE  MemoryInv'
<1>1. miner[c].at = "loaded" /\ memory' = memory /\ panel' = panel /\ forgotten' = forgotten
  BY DEF Mine
<1> DEFINE nothing == 0
<1>2. nothing = 0
  OBVIOUS
<1> HIDE DEF nothing
<1>3. PICK verdict \in Verdicts(miner[c].copy.facts), raises \in 0..miner[c].upto :
        /\ IF raises = nothing THEN UNCHANGED <<memFaults, strayed>> ELSE Fault /\ strayed' = TRUE
        /\ miner' = [miner EXCEPT ![c].at = "mined",
                       ![c].copy = MinedUpto(c, miner[c].upto, @, verdict, raises)]
  BY <1>2 DEF Mine
<1>4. /\ miner = [d \in Chats |-> miner[d]] /\ miner[c] \in [at : {"loaded", "mined"}, upto : 0..Len(Talk[c]), copy : MemoryType, of : MemoryType]
  BY <1>1 DEF MinerSet, MemoryInv, MemoryTypeOK
<1> DEFINE copy == MinedUpto(c, miner[c].upto, miner[c].copy, verdict, raises)
           new == [miner[c] EXCEPT !.at = "mined", !.copy = copy]
<1>5. verdict \in VerdictType
  <2>1. miner[c].copy.facts \in Seq(FactType)
    BY <1>4, MemoryFields
  <2>2. \A n \in DOMAIN miner[c].copy.facts : miner[c].copy.facts[n] \in FactType
    BY <2>1
  <2>3. QED BY <2>2 DEF VerdictType, Verdicts, FactType
<1>6. copy \in MemoryType
  BY <1>4, <1>5, MinedType
<1>7. /\ new \in [at : {"loaded", "mined"}, upto : 0..Len(Talk[c]), copy : MemoryType, of : MemoryType]
      /\ new.at = "mined" /\ new.upto = miner[c].upto /\ new.copy = copy /\ new.of = miner[c].of
  <2> HIDE DEF copy
  <2>1. QED BY <1>4, <1>6
<1>8. miner' = [miner EXCEPT ![c] = new]
  BY <1>3, <1>4
<1> HIDE DEF new, copy
<1>9. miner' = [d \in Chats |-> miner'[d]] /\ miner'[c] = new /\ \A d \in Chats : d # c => miner'[d] = miner[d]
  BY <1>4, <1>8, MinerUpdate
<1>10. MemoryTypeOK'
  <2>1. \A d \in Chats : miner'[d] \in MinerSet(d)
    BY <1>7, <1>9 DEF MemoryInv, MemoryTypeOK, MinerSet
  <2>2. memFaults' \in Nat /\ strayed' \in BOOLEAN
    <3>1. UNCHANGED <<memFaults, strayed>> \/ (Fault /\ strayed' = TRUE)
      BY <1>3
    <3>2. QED BY <3>1, FaultType DEF MemoryInv
  <2>3. QED BY <1>1, <1>9, <2>1, <2>2 DEF MemoryInv, MemoryTypeOK
<1>11. SUFFICES ASSUME ~strayed' PROVE MemorySound'
  BY <1>10 DEF MemoryInv
<1>12. raises = nothing /\ MemoryTypeOK /\ MemorySound /\ MinerOK(c)
  BY <1>3, <1>11 DEF MemoryInv, MemorySound
<1>13. /\ miner[c].upto \in DOMAIN Talk[c] /\ Talk[c][miner[c].upto].by = "user"
       /\ miner[c].copy = miner[c].of /\ miner[c].of.failed = {}
       /\ AllRecorded(c, miner[c].upto - 1, miner[c].of.done)
  BY <1>1, <1>12 DEF MinerOK
<1>14. Follows(miner[c].of, copy, SaidIn(c, miner[c].upto)) /\ AllRecorded(c, miner[c].upto, copy.done)
  BY <1>2, <1>4, <1>5, <1>12, <1>13, MinedFollows DEF AllRecorded, copy
<1>15. MinerOK(c)'
  BY <1>1, <1>7, <1>9, <1>12, <1>14 DEF MinerOK, AllRecorded, Since
<1>16. \A d \in Chats : d # c => MinerOK(d)'
  BY <1>1, <1>9, <1>10, <1>12, MinerKept DEF MemorySound
<1>17. Healthy(memory)
  BY <1>1, <1>12 DEF MemorySound, Resting
<1>18. QED BY <1>1, <1>12, <1>15, <1>16, <1>17 DEF MemorySound, Unknown, PanelOK

LEMMA SaveMinedOK ==
  ASSUME MemoryInv, NEW c \in Chats, SaveMined(c)
  PROVE  MemoryInv'
<1> DEFINE of == miner[c].of
           mem == miner[c].copy
           new == [at |-> "idle", upto |-> miner[c].upto]
           saved == [mem EXCEPT !.done = Newest(mem.done, MaxHashes)]
<1>1. /\ miner[c].at = "mined" /\ panel' = panel /\ forgotten' = forgotten
      /\ miner' = [miner EXCEPT ![c] = new]
      /\ \/ /\ memory' = saved
            /\ strayed' = (strayed \/ memory # of \/ Len(mem.done) > MaxHashes)
            /\ UNCHANGED memFaults
         \/ Fault /\ strayed' = TRUE /\ UNCHANGED memory
  BY DEF SaveMined
<1>2. /\ miner = [d \in Chats |-> miner[d]] /\ miner[c].upto \in 0..Len(Talk[c])
      /\ mem \in MemoryType /\ of \in MemoryType /\ memory \in MemoryType
  BY <1>1, MinerFields DEF MemoryInv, MemoryTypeOK
<1>3. /\ mem.done \in Seq(Digests) /\ Len(mem.done) \in Nat
      /\ Newest(mem.done, MaxHashes) \in Seq(Digests)
      /\ Len(mem.done) <= MaxHashes => Newest(mem.done, MaxHashes) = mem.done
  BY <1>2, MemoryFields, NewestType, MemoryBounds
<1> HIDE DEF mem, of
<1>4. saved \in MemoryType /\ (Len(mem.done) <= MaxHashes => saved = mem)
  BY <1>2, <1>3 DEF MemoryType
<1> HIDE DEF saved
<1>5. miner' = [d \in Chats |-> miner'[d]] /\ miner'[c] = new /\ \A d \in Chats : d # c => miner'[d] = miner[d]
  BY <1>1, <1>2, MinerUpdate
<1>6. MemoryTypeOK'
  <2>1. new \in MinerSet(c)
    BY <1>2 DEF MinerSet
  <2>2. \A d \in Chats : miner'[d] \in MinerSet(d)
    BY <1>5, <2>1 DEF MemoryInv, MemoryTypeOK
  <2>3. memory' \in MemoryType
    BY <1>1, <1>2, <1>4
  <2>4. memFaults' \in Nat /\ strayed' \in BOOLEAN
    <3>1. CASE Fault /\ strayed' = TRUE
      BY <3>1, FaultType DEF MemoryInv
    <3>2. CASE strayed' = (strayed \/ memory # of \/ Len(mem.done) > MaxHashes) /\ UNCHANGED memFaults
      BY <3>2 DEF MemoryInv, MemoryTypeOK
    <3>3. QED BY <1>1, <3>1, <3>2
  <2>5. QED BY <1>1, <1>5, <2>2, <2>3, <2>4 DEF MemoryInv, MemoryTypeOK
<1>7. SUFFICES ASSUME ~strayed' PROVE MemorySound'
  BY <1>6 DEF MemoryInv
<1>8. /\ memory' = saved /\ memory = of /\ ~(Len(mem.done) > MaxHashes)
      /\ MemoryTypeOK /\ MemorySound /\ MinerOK(c)
  BY <1>1, <1>7 DEF MemoryInv, MemorySound
<1>9. memory' = mem
  BY <1>3, <1>4, <1>8, MemoryBounds
<1>10. /\ Follows(of, mem, SaidIn(c, miner[c].upto)) /\ AllRecorded(c, miner[c].upto, mem.done)
       /\ Since(of, SaidIn(c, miner[c].upto)) /\ Healthy(of)
  BY <1>1, <1>8 DEF MinerOK, mem, of
<1>11. forgotten \cap SaidIn(c, miner[c].upto) = {}
  <2>1. Len(of.done) \in Nat /\ Len(of.facts) \in Nat
    BY <1>2, MemoryFields
  <2>2. QED BY <1>8, <1>10, <2>1 DEF Since
<1>12. /\ memory'.failed = {} /\ Healthy(memory') /\ ToSet(memory.done) \subseteq ToSet(memory'.done)
       /\ memory' = memory \/ Len(memory'.done) > Len(memory.done)
       /\ Values(memory'.facts) \subseteq Values(memory.facts) \cup SaidIn(c, miner[c].upto)
       /\ memory'.name \in {memory.name} \cup SaidIn(c, miner[c].upto)
  BY <1>8, <1>9, <1>10 DEF Follows
<1>13. Unknown'
  BY <1>1, <1>8, <1>11, <1>12 DEF Unknown, MemorySound
<1>14. PanelOK'
  BY <1>1, <1>8 DEF PanelOK, MemorySound
<1>15. MinerOK(c)'
  BY <1>5, <1>9, <1>10 DEF MinerOK, AllRecorded
<1>16. \A d \in Chats : d # c => MinerOK(d)'
  BY <1>1, <1>5, <1>6, <1>8, <1>12, MinerKept DEF MemorySound
<1>17. QED BY <1>12, <1>13, <1>14, <1>15, <1>16 DEF MemorySound

LEMMA ShowOK ==
  ASSUME MemoryInv, Show
  PROVE  MemoryInv'
<1>1. /\ memory' = Healed(memory) /\ UNCHANGED <<miner, memFaults, forgotten, strayed>> /\ panel.at = "shut"
      /\ panel' = [at |-> "shown", asked |-> panel.asked + 1, facts |-> Healed(memory).facts]
  BY DEF Show
<1>2. Healed(memory) \in MemoryType /\ Healed(memory).facts \in Seq(FactType) /\ panel.asked \in Nat
  <2>1. panel.asked \in Nat
    BY DEF MemoryInv, MemoryTypeOK, PanelSet
  <2>2. QED BY <2>1, HealedType, MemoryFields DEF MemoryInv, MemoryTypeOK
<1>3. panel' \in PanelSet /\ panel'.at = "shown"
  BY <1>1, <1>2 DEF PanelSet
<1>4. MemoryTypeOK'
  BY <1>1, <1>2, <1>3 DEF MemoryInv, MemoryTypeOK
<1>5. SUFFICES ASSUME ~strayed PROVE MemorySound'
  BY <1>1, <1>4 DEF MemoryInv
<1>6. MemoryTypeOK /\ MemorySound
  BY <1>5 DEF MemoryInv
<1>7. /\ Healthy(memory') /\ memory'.done = memory.done /\ memory'.failed = {}
      /\ memory' = memory \/ Resting
  BY <1>1, <1>6, HealKept
<1>8. Unknown'
  BY <1>1, <1>6, <1>7 DEF Unknown, MemorySound, Resting
<1>9. ASSUME NEW d \in Chats PROVE MinerOK(d)'
  <2>1. CASE memory' = memory
    BY <1>1, <1>4, <1>6, <2>1, MinerKept DEF MemorySound
  <2>2. CASE Resting
    <3>1. miner'[d].at = "idle" /\ AllRecorded(d, miner'[d].upto, memory'.done)
      BY <1>1, <1>6, <1>7, <2>2 DEF Resting, MemorySound, MinerOK
    <3>2. QED BY <3>1 DEF MinerOK, AllRecorded
  <2>3. QED BY <1>7, <2>1, <2>2
<1>10. QED BY <1>3, <1>7, <1>8, <1>9 DEF MemorySound, PanelOK

\* The panel is about to save a shortened copy.
LEMMA AboutToForget ==
  ASSUME MemoryInv, UNCHANGED <<memory, miner, memFaults, forgotten, strayed>>,
         NEW v \in Words, NEW copy \in MemoryType, NEW hit \in BOOLEAN, panel.at = "shown",
         panel' = [at |-> "save", asked |-> panel.asked, value |-> v, copy |-> copy, of |-> memory, hit |-> hit],
         Shortened(copy, memory), hit => copy.name # v
  PROVE  MemoryInv'
<1>1. panel.asked \in Nat /\ memory \in MemoryType
  BY DEF MemoryInv, MemoryTypeOK, PanelSet
<1>2. panel' \in PanelSet
  BY <1>1 DEF PanelSet
<1>3. MemoryTypeOK'
  BY <1>2 DEF MemoryInv, MemoryTypeOK
<1>4. SUFFICES ASSUME ~strayed PROVE MemorySound'
  BY <1>3 DEF MemoryInv
<1>5. MemoryTypeOK /\ MemorySound
  BY <1>4 DEF MemoryInv
<1>6. PanelOK'
  BY DEF PanelOK
<1>7. ~Resting
  BY DEF Resting
<1>8. \A d \in Chats : MinerOK(d)'
  BY <1>3, <1>5, MinerKept DEF MemorySound
<1>9. QED BY <1>5, <1>6, <1>7, <1>8 DEF MemorySound, Unknown

LEMMA PointOK ==
  ASSUME MemoryInv, NEW n \in 1..MaxFacts, Point(n)
  PROVE  MemoryInv'
<1> DEFINE v == panel.facts[n].value
           copy == Without(memory, n)
           hit == memory.facts = panel.facts
<1>1. /\ panel.at = "shown" /\ n \in DOMAIN panel.facts /\ n \in DOMAIN memory.facts
      /\ panel' = [at |-> "save", asked |-> panel.asked, value |-> v, copy |-> copy, of |-> memory, hit |-> hit]
      /\ UNCHANGED <<memory, miner, memFaults, forgotten, strayed>>
  BY DEF Point
<1>2. memory \in MemoryType /\ memory.facts \in Seq(FactType) /\ panel.facts \in Seq(FactType)
  BY <1>1, MemoryFields DEF MemoryInv, MemoryTypeOK, PanelSet
<1>3. v \in Words
  <2>1. panel.facts[n] \in FactType
    BY <1>1, <1>2
  <2>2. QED BY <2>1 DEF FactType
<1>4. /\ RemoveAt(memory.facts, n) \in Seq(FactType) /\ Len(RemoveAt(memory.facts, n)) < Len(memory.facts)
      /\ ToSet(RemoveAt(memory.facts, n)) \subseteq ToSet(memory.facts)
  BY <1>1, <1>2, RemovedType
<1>5. copy = [memory EXCEPT !.facts = RemoveAt(memory.facts, n),
                            !.name = IF memory.name = memory.facts[n].value THEN Nobody ELSE memory.name]
  BY <1>2 DEF Without, MemoryType
<1> HIDE DEF copy
<1>6. /\ copy \in MemoryType /\ copy.facts = RemoveAt(memory.facts, n) /\ copy.done = memory.done
      /\ copy.failed = memory.failed
      /\ copy.name = IF memory.name = memory.facts[n].value THEN Nobody ELSE memory.name
  BY <1>2, <1>4, <1>5 DEF MemoryType
<1>7. Shortened(copy, memory)
  BY <1>4, <1>6 DEF Shortened
<1>8. hit => copy.name # v
  BY <1>3, <1>6, TalkAssumption
<1>9. hit \in BOOLEAN
  OBVIOUS
<1> HIDE DEF hit, v
<1>10. QED BY <1>1, <1>3, <1>6, <1>7, <1>8, <1>9, AboutToForget

LEMMA NameOK ==
  ASSUME MemoryInv, NEW i \in DOMAIN memory.facts, Name(memory.facts[i].value)
  PROVE  MemoryInv'
<1> DEFINE v == memory.facts[i].value
           others == {f \in ToSet(memory.facts) : f.value # v}
           left == Kept(memory.facts, others)
           copy == [memory EXCEPT !.facts = left, !.name = IF memory.name = v THEN Nobody ELSE memory.name]
           hit == TRUE
<1>1. memory \in MemoryType /\ memory.facts \in Seq(FactType)
  BY MemoryFields DEF MemoryInv, MemoryTypeOK
<1>2. /\ panel.at = "shown"
      /\ panel' = [at |-> "save", asked |-> panel.asked, value |-> v, copy |-> copy, of |-> memory, hit |-> hit]
      /\ UNCHANGED <<memory, miner, memFaults, forgotten, strayed>>
  BY <1>1 DEF Name, MemoryType
<1>3. v \in Words
  <2>1. memory.facts[i] \in FactType
    BY <1>1
  <2>2. QED BY <2>1 DEF FactType
<1>4. left \in Seq(FactType) /\ ToSet(left) \subseteq ToSet(memory.facts) /\ Len(left) < Len(memory.facts)
  <2>1. \E j \in DOMAIN memory.facts : memory.facts[j] \notin others
    OBVIOUS
  <2> HIDE DEF others
  <2>2. QED BY <1>1, <2>1, KeptFacts
<1> HIDE DEF left
<1>5. /\ copy \in MemoryType /\ copy.facts = left /\ copy.done = memory.done /\ copy.failed = memory.failed
      /\ copy.name = IF memory.name = v THEN Nobody ELSE memory.name
  BY <1>1, <1>4 DEF MemoryType
<1> HIDE DEF copy
<1>6. Shortened(copy, memory)
  BY <1>4, <1>5 DEF Shortened
<1>7. hit \in BOOLEAN /\ (hit => copy.name # v)
  BY <1>3, <1>5, TalkAssumption
<1> HIDE DEF hit, v
<1>8. QED BY <1>2, <1>3, <1>5, <1>6, <1>7, AboutToForget

LEMMA ForgetOK ==
  ASSUME MemoryInv, Forget
  PROVE  MemoryInv'
<1>1. /\ panel.at = "save" /\ memory' = panel.copy
      /\ strayed' = (strayed \/ memory # panel.of \/ ~panel.hit)
      /\ forgotten' = IF \E i \in DOMAIN panel.copy.facts : panel.copy.facts[i].value = panel.value
                      THEN forgotten ELSE forgotten \cup {panel.value}
      /\ panel' = [at |-> "shut", asked |-> panel.asked] /\ UNCHANGED <<miner, memFaults>>
  BY DEF Forget
<1>2. panel \in [at : {"save"}, asked : Nat, value : Words, copy : MemoryType, of : MemoryType, hit : BOOLEAN]
  BY <1>1 DEF MemoryInv, MemoryTypeOK, PanelSet
<1>3. panel' \in PanelSet /\ panel'.at = "shut"
  BY <1>1, <1>2 DEF PanelSet
<1>4. MemoryTypeOK'
  <2>1. strayed' \in BOOLEAN
    BY <1>1
  <2>2. forgotten' \in SUBSET Words
    BY <1>1, <1>2 DEF MemoryInv, MemoryTypeOK
  <2>3. QED BY <1>1, <1>2, <1>3, <2>1, <2>2 DEF MemoryInv, MemoryTypeOK
<1>5. SUFFICES ASSUME ~strayed' PROVE MemorySound'
  BY <1>4 DEF MemoryInv
<1>6. memory = panel.of /\ panel.hit /\ MemoryTypeOK /\ MemorySound
  BY <1>1, <1>5 DEF MemoryInv
<1>7. /\ Shortened(memory', memory) /\ memory'.name # panel.value
  BY <1>1, <1>6 DEF MemorySound, PanelOK
<1>8. /\ memory'.done = memory.done /\ memory'.failed = {} /\ memory'.name \in {memory.name, Nobody}
      /\ ToSet(memory'.facts) \subseteq ToSet(memory.facts) /\ Len(memory'.facts) < Len(memory.facts)
  BY <1>6, <1>7 DEF Shortened, MemorySound
<1>9. Healthy(memory')
  <2>1. Healthy(memory)
    BY <1>1, <1>6 DEF MemorySound, Resting
  <2>2. Nobody \notin NonNames
    BY TalkAssumption
  <2>3. QED BY <1>8, <2>1, <2>2 DEF Healthy
<1>10. ASSUME NEW v \in forgotten' PROVE memory'.name # v /\ v \notin Values(memory'.facts)
  <2>1. Values(memory'.facts) \subseteq Values(memory.facts) /\ v \in Words /\ Nobody \notin Words
    BY <1>4, <1>8, TalkAssumption DEF Values, MemoryTypeOK
  <2>2. CASE v \in forgotten
    BY <1>6, <1>8, <2>1, <2>2 DEF MemorySound, Unknown
  <2>3. CASE v \notin forgotten
    <3>1. v = panel.value /\ ~\E i \in DOMAIN panel.copy.facts : panel.copy.facts[i].value = panel.value
      BY <1>1, <1>10, <2>3
    <3>2. v \notin Values(memory'.facts)
      BY <1>1, <3>1 DEF Values, ToSet
    <3>3. QED BY <1>7, <3>1, <3>2
  <2>4. QED BY <2>2, <2>3
<1>11. \A d \in Chats : MinerOK(d)'
  BY <1>1, <1>4, <1>6, <1>8, MinerKept DEF MemorySound
<1>12. QED BY <1>3, <1>8, <1>9, <1>10, <1>11 DEF MemorySound, Unknown, PanelOK

LEMMA MemoryStep == MemoryInv /\ [MemoryNext]_memoryVars => MemoryInv'
<1> SUFFICES ASSUME MemoryInv, [MemoryNext]_memoryVars PROVE MemoryInv'
  OBVIOUS
<1>1. CASE \E c \in Chats : Load(c)
  BY <1>1, LoadOK
<1>2. CASE \E c \in Chats : Mine(c)
  BY <1>2, MineOK
<1>3. CASE \E c \in Chats : SaveMined(c)
  BY <1>3, SaveMinedOK
<1>4. CASE Show
  BY <1>4, ShowOK
<1>5. CASE Forget
  BY <1>5, ForgetOK
<1>6. CASE \E n \in 1..MaxFacts : Point(n)
  BY <1>6, PointOK
<1>7. CASE \E i \in DOMAIN memory.facts : Name(memory.facts[i].value)
  BY <1>7, NameOK
<1>8. CASE UNCHANGED memoryVars
  <2>1. UNCHANGED <<memory, miner, panel, memFaults, forgotten, strayed>>
    BY <1>8 DEF memoryVars
  <2>2. MemoryTypeOK'
    BY <2>1 DEF MemoryInv, MemoryTypeOK
  <2>3. MemorySound => MemorySound'
    BY <2>1 DEF MemorySound, Resting, Unknown, PanelOK, MinerOK, AllRecorded, Since
  <2>4. QED BY <2>1, <2>2, <2>3 DEF MemoryInv
<1>9. QED BY <1>1, <1>2, <1>3, <1>4, <1>5, <1>6, <1>7, <1>8 DEF MemoryNext

\* Files, miners and the panel keep their shape, and unless something strayed, every
\* message answered is recorded, what a turn mined follows what it loaded, and what is
\* forgotten is not known.
THEOREM MemoryInvariant == MemorySpec => []MemoryInv
BY MemoryInitOK, MemoryStep, PTL DEF MemorySpec

\* What the user had it forget (delete_memory_fact) is not among the facts and not the
\* user's name until it is said again: no later turn mines it from an old message,
\* and none saves a copy that still has it, unless a save went over another.
THEOREM ForgottenStaysForgotten == MemorySpec => []ForgottenStaysForgottenUnlessStrayed
<1>1. MemoryInv => ForgottenStaysForgottenUnlessStrayed
  <2> SUFFICES ASSUME MemoryInv, ~strayed, NEW v \in forgotten
               PROVE memory.name # v /\ \A i \in DOMAIN memory.facts : memory.facts[i].value # v
    BY DEF ForgottenStaysForgottenUnlessStrayed
  <2>1. memory.name # v /\ v \notin Values(memory.facts)
    BY DEF MemoryInv, MemorySound, Unknown
  <2>2. QED BY <2>1 DEF Values, ToSet
<1>2. QED BY <1>1, MemoryInvariant, PTL

----------------------------------------------------------------------------
(* Stream *)

USE PoolAssumption, IdleAssumption

----------------------------------------------------------------------------
(* Types *)

Event == [kind : {"token", "reset", "end"}, call : 0..MaxCalls]

\* A call that is about to be placed, or waited for, has its number.
Counted == \A t \in Turn : streamAt[t] \in {"submit", "wait"} => call[t] \in 1..MaxCalls

\* An event at the end of a queue.
LEMMA PutType ==
  ASSUME events \in [Turn -> Seq(Event)], NEW t \in Turn,
         NEW kind \in {"token", "reset", "end"}, NEW n \in 0..MaxCalls, Put(t, kind, n)
  PROVE  events' \in [Turn -> Seq(Event)]
<1>1. [kind |-> kind, call |-> n] \in Event
  BY DEF Event
<1>2. Append(events[t], [kind |-> kind, call |-> n]) \in Seq(Event)
  BY <1>1, AppendProperties
<1>3. QED BY <1>2 DEF Put

LEMMA EventsType == StreamTypeOK => 0 \in 0..MaxCalls /\ events \in [Turn -> Seq(Event)]
<1>1. StreamTypeOK => events \in [Turn -> Seq(Event)]
  BY DEF StreamTypeOK, Event
<1>2. 0 \in 0..MaxCalls
  OBVIOUS
<1>3. QED BY <1>1, <1>2

\* Only one queue of events changes at a time: it grows at its end ...
LEMMA PutEvents ==
  ASSUME events \in [Turn -> Seq(Event)], NEW t \in Turn,
         NEW kind \in {"token", "reset", "end"}, NEW n \in 0..MaxCalls, Put(t, kind, n)
  PROVE  /\ \A u \in Turn : u # t => events'[u] = events[u]
         /\ Len(events[t]) \in Nat /\ Len(events'[t]) = Len(events[t]) + 1
         /\ \A i \in 1..Len(events[t]) : events'[t][i] = events[t][i]
         /\ events'[t][Len(events[t]) + 1] = [kind |-> kind, call |-> n]
<1> DEFINE event == [kind |-> kind, call |-> n]
<1>1. event \in Event
  BY DEF Event
<1>2. events' = [events EXCEPT ![t] = Append(events[t], event)] /\ events[t] \in Seq(Event)
  BY DEF Put
<1>3. events'[t] = Append(events[t], event) /\ \A u \in Turn : u # t => events'[u] = events[u]
  BY <1>2
<1> HIDE DEF event
<1>4. QED BY <1>1, <1>2, <1>3, AppendProperties, LenProperties DEF event

\* ... or loses its first event to the client.
LEMMA SendEvents ==
  ASSUME events \in [Turn -> Seq(Event)], NEW t \in Turn, Send(t)
  PROVE  /\ \A u \in Turn : u # t => events'[u] = events[u]
         /\ Len(events[t]) \in Nat /\ Len(events[t]) >= 1
         /\ Len(events'[t]) = Len(events[t]) - 1
         /\ \A i \in 1..Len(events'[t]) : events'[t][i] = events[t][i + 1]
         /\ Head(events[t]) = events[t][1]
<1>1. events[t] \in Seq(Event) /\ events[t] # << >> /\ events' = [events EXCEPT ![t] = Tail(events[t])]
  BY DEF Send
<1>2. events'[t] = Tail(events[t]) /\ \A u \in Turn : u # t => events'[u] = events[u]
  BY <1>1
<1>3. QED BY <1>1, <1>2, HeadTailProperties, LenProperties, EmptySeq

LEMMA InitType == StreamInit => StreamTypeOK /\ Counted
BY DEF StreamInit, StreamTypeOK, Counted, Done, Event

LEMMA TurnType ==
  ASSUME StreamTypeOK, Counted, NEW t \in Turn, TurnStep(t) PROVE StreamTypeOK' /\ Counted'
<1>events. 0 \in 0..MaxCalls /\ events \in [Turn -> Seq(Event)]
  BY EventsType
<1> USE DEF StreamTypeOK, Counted, pool, client, Event
<1>0. streamAt[t] \in {"submit", "wait"} => Now(t) \in Call
  BY DEF Now, Call
<1>1. CASE ResetForNewCall(t)
  <2>1. call' \in [Turn -> 0..MaxCalls] /\ call'[t] \in 1..MaxCalls
    BY <1>1 DEF ResetForNewCall
  <2>2. events' \in [Turn -> Seq(Event)] /\ emitted' \in [Turn -> BOOLEAN]
    <3>1. CASE emitted[t]
      <4>1. Put(t, "reset", 0) /\ emitted' = [emitted EXCEPT ![t] = FALSE]
        BY <1>1, <3>1 DEF ResetForNewCall
      <4>2. QED BY <1>events, <4>1, PutType
    <3>2. CASE ~emitted[t]
      BY <1>1, <3>2 DEF ResetForNewCall
    <3>3. QED BY <3>1, <3>2
  <2>3. QED BY <1>1, <2>1, <2>2 DEF ResetForNewCall
<1>2. CASE Submit(t)
  <2>1. tasks' \in Seq(Call) /\ Len(tasks') <= QueueMax
    <3>1. CASE Len(tasks) < QueueMax
      <4>1. tasks' = Append(tasks, Now(t)) /\ Now(t) \in Call
        BY <1>0, <1>2, <3>1 DEF Submit
      <4>2. tasks' \in Seq(Call) /\ Len(tasks') = Len(tasks) + 1
        BY <4>1, AppendProperties
      <4>3. QED BY <3>1, <4>2, LenProperties
    <3>2. CASE ~(Len(tasks) < QueueMax)
      BY <1>2, <3>2 DEF Submit
    <3>3. QED BY <3>1, <3>2
  <2>2. fate' \in [Call -> Done \cup {"none", "queued", "running"}]
    BY <1>2 DEF Submit
  <2>3. streamAt' \in [Turn -> {"ready", "submit", "wait", "over"}]
    <3>1. streamAt' = [streamAt EXCEPT ![t] = "wait"] \/ streamAt' = [streamAt EXCEPT ![t] = "ready"]
      BY <1>2, Zenon DEF Submit
    <3>2. QED BY <3>1
  <2>4. Counted'
    <3>1. \A x \in Turn : x # t => streamAt'[x] = streamAt[x]
      BY <1>2 DEF Submit
    <3>2. streamAt[t] = "submit" /\ call' = call
      BY <1>2 DEF Submit
    <3>3. QED BY <3>1, <3>2
  <2>5. QED BY <1>2, <2>1, <2>2, <2>3, <2>4 DEF Submit
<1>3. CASE Result(t)
  BY <1>3 DEF Result
<1>4. CASE TimeOut(t)
  BY <1>0, <1>4 DEF TimeOut
<1>5. ASSUME NEW how \in {"payload", "error", "cancelled"}, EndStream(t, how) PROVE StreamTypeOK' /\ Counted'
  <2>1. events' \in [Turn -> Seq(Event)]
    <3>1. Put(t, "end", 0)
      BY <1>5 DEF EndStream
    <3>2. QED BY <1>events, <3>1, PutType
  <2>2. outcome' \in [Turn -> {"none", "payload", "error", "cancelled"}]
    BY <1>5 DEF EndStream
  <2>3. QED BY <1>5, <2>1, <2>2 DEF EndStream
<1>6. QED BY <1>1, <1>2, <1>3, <1>4, <1>5 DEF TurnStep

LEMMA PoolType ==
  ASSUME StreamTypeOK, Counted, NEW w \in Worker, PoolStep(w) PROVE StreamTypeOK' /\ Counted'
<1> USE DEF StreamTypeOK, Counted, thread, client, Event
<1>1. CASE Take(w)
  <2>1. Head(tasks) \in Call /\ Tail(tasks) \in Seq(Call) /\ Len(Tail(tasks)) <= QueueMax
    BY <1>1, HeadTailProperties DEF Take
  <2>2. QED BY <1>1, <2>1 DEF Take
<1>2. CASE Emit(w)
  <2>1. serving[w] \in Call /\ serving[w][1] \in Turn /\ serving[w][2] \in 0..MaxCalls
    BY <1>2 DEF Emit, Call
  <2>2. events' \in [Turn -> Seq(Event)]
    BY <1>2, <2>1, PutType DEF Emit
  <2>3. sent' \in [Call -> 0..MaxTokens]
    BY <1>2, <2>1 DEF Emit
  <2>4. emitted' \in [Turn -> BOOLEAN]
    BY <1>2 DEF Emit
  <2>5. QED BY <1>2, <2>2, <2>3, <2>4 DEF Emit
<1>3. CASE Finish(w)
  BY <1>3 DEF Finish
<1>4. QED BY <1>1, <1>2, <1>3 DEF PoolStep

LEMMA HandlerType ==
  ASSUME StreamTypeOK, Counted, NEW t \in Turn, HandlerStep(t) \/ CloseStream(t)
  PROVE  StreamTypeOK' /\ Counted'
<1> USE DEF StreamTypeOK, Counted, pool, thread, Event
<1>1. CASE Send(t)
  <2>1. Head(events[t]) \in Event /\ Tail(events[t]) \in Seq(Event)
    BY <1>1, HeadTailProperties DEF Send
  <2>2. events' \in [Turn -> Seq(Event)]
    BY <1>1, <2>1 DEF Send
  <2>3. handler' \in [Turn -> {"sending", "ended", "stopped"}] /\ shown' \in [Turn -> 0..MaxCalls]
    BY <1>1, <2>1 DEF Send
  <2>4. QED BY <1>1, <2>2, <2>3 DEF Send
<1>2. CASE Conclude(t)
  <2>1. shown' \in [Turn -> 0..MaxCalls]
    BY <1>2 DEF Conclude
  <2>2. told' \in [Turn -> {"none", "done", "error"}]
    BY <1>2 DEF Conclude
  <2>3. QED BY <1>2, <2>1, <2>2 DEF Conclude
<1>3. CASE Notice(t)
  BY <1>3 DEF Notice
<1>4. CASE CloseStream(t)
  BY <1>4 DEF CloseStream
<1>5. QED BY <1>1, <1>2, <1>3, <1>4 DEF HandlerStep

LEMMA NextType == ASSUME StreamTypeOK, Counted, [StreamNext]_streamVars PROVE StreamTypeOK' /\ Counted'
<1>1. CASE UNCHANGED streamVars
  BY <1>1 DEF streamVars, pool, thread, client, StreamTypeOK, Counted
<1>2. CASE StreamNext
  BY <1>2, TurnType, PoolType, HandlerType DEF StreamNext
<1>3. QED BY <1>1, <1>2

\* Every variable keeps its type, and the pool's queue never outgrows its size.
THEOREM TypeCorrect == StreamSpec => []StreamTypeOK
<1>1. StreamTypeOK /\ Counted /\ [StreamNext]_streamVars => (StreamTypeOK /\ Counted)'
  BY NextType
<1>2. QED BY InitType, <1>1, PTL DEF StreamSpec

----------------------------------------------------------------------------
(* What the client is told *)

\* The last event is put when run_chat has its outcome, and the handler concludes
\* after it has passed the last event on.
Informed ==
  \A t \in Turn :
    /\ outcome[t] # "none" <=> streamAt[t] = "over"
    /\ handler[t] = "ended" => streamAt[t] = "over"
    /\ \A i \in 1..Len(events[t]) : events[t][i].kind = "end" => streamAt[t] = "over"
    /\ told[t] # "none" => outcome[t] # "none" /\ (told[t] = "done" <=> outcome[t] = "payload")

\* Steps that tell nothing and end nothing.
LEMMA InformedFrame ==
  ASSUME Informed, UNCHANGED <<outcome, handler, told>>,
         \A t \in Turn : streamAt'[t] = "over" <=> streamAt[t] = "over",
         \A t \in Turn : \A i \in 1..Len(events'[t]) :
           events'[t][i].kind = "end" => \E j \in 1..Len(events[t]) : events[t][j].kind = "end"
  PROVE  Informed'
BY DEF Informed

\* Text and resets end nothing.
LEMMA PutNoEnd ==
  ASSUME events \in [Turn -> Seq(Event)], NEW t \in Turn,
         NEW kind \in {"token", "reset"}, NEW n \in 0..MaxCalls, Put(t, kind, n),
         NEW u \in Turn, NEW i \in 1..Len(events'[u]), events'[u][i].kind = "end"
  PROVE  \E j \in 1..Len(events[u]) : events[u][j].kind = "end"
<1>1. CASE u # t
  <2>1. kind \in {"token", "reset", "end"}
    OBVIOUS
  <2>2. \A x \in Turn : x # t => events'[x] = events[x]
    BY <2>1, PutEvents
  <2>3. QED BY <1>1, <2>2
<1>2. CASE u = t
  <2>1. /\ Len(events[t]) \in Nat /\ i \in 1..(Len(events[t]) + 1)
        /\ \A j \in 1..Len(events[t]) : events'[t][j] = events[t][j]
        /\ events'[t][Len(events[t]) + 1] = [kind |-> kind, call |-> n]
    BY <1>2, PutEvents
  <2>2. i # Len(events[t]) + 1
    BY <1>2, <2>1
  <2>3. i \in 1..Len(events[t])
    BY <2>1, <2>2
  <2>4. QED BY <1>2, <2>1, <2>3
<1>3. QED BY <1>1, <1>2

LEMMA NextInformed == ASSUME StreamTypeOK, Counted, Informed, [StreamNext]_streamVars PROVE Informed'
<1>events. 0 \in 0..MaxCalls /\ events \in [Turn -> Seq(Event)]
  BY EventsType
<1>streamAt. streamAt \in [Turn -> {"ready", "submit", "wait", "over"}]
  BY DEF StreamTypeOK
<1>1. ASSUME NEW t \in Turn, ResetForNewCall(t) PROVE Informed'
  <2>1. \A u \in Turn : streamAt'[u] = "over" <=> streamAt[u] = "over"
    BY <1>1, <1>streamAt DEF ResetForNewCall
  <2>2. \A u \in Turn : \A i \in 1..Len(events'[u]) :
           events'[u][i].kind = "end" => \E j \in 1..Len(events[u]) : events[u][j].kind = "end"
    <3>1. CASE emitted[t]
      <4>1. Put(t, "reset", 0)
        BY <1>1, <3>1 DEF ResetForNewCall
      <4>2. QED BY <4>1, <1>events, PutNoEnd
    <3>2. CASE ~emitted[t]
      BY <1>1, <3>2 DEF ResetForNewCall
    <3>3. QED BY <3>1, <3>2
  <2>3. QED BY <1>1, <2>1, <2>2, InformedFrame DEF ResetForNewCall, client
<1>2. ASSUME NEW t \in Turn, Submit(t) \/ Result(t) \/ TimeOut(t) PROVE Informed'
  <2>1. \A u \in Turn : streamAt'[u] = "over" <=> streamAt[u] = "over"
    BY <1>2, <1>streamAt DEF Submit, Result, TimeOut
  <2>2. QED BY <1>2, <2>1, InformedFrame DEF Submit, Result, TimeOut, client
<1>3. ASSUME NEW t \in Turn, NEW how \in {"payload", "error", "cancelled"}, EndStream(t, how) PROVE Informed'
  <2>1. Put(t, "end", 0) /\ streamAt[t] = "ready" /\ UNCHANGED <<handler, told>>
    BY <1>3 DEF EndStream, client
  <2>2. /\ streamAt'[t] = "over" /\ outcome'[t] = how
        /\ \A u \in Turn : u # t => streamAt'[u] = streamAt[u] /\ outcome'[u] = outcome[u]
    BY <1>3, <1>streamAt DEF EndStream, StreamTypeOK
  <2>3. \A u \in Turn : u # t => events'[u] = events[u]
    BY <2>1, <1>events, PutEvents
  <2>4. QED BY <2>1, <2>2, <2>3 DEF Informed
<1>4. ASSUME NEW w \in Worker, Take(w) \/ Finish(w) PROVE Informed'
  BY <1>4, InformedFrame DEF Take, Finish, thread, client
<1>5. ASSUME NEW w \in Worker, Emit(w) PROVE Informed'
  <2>1. serving[w] \in Call /\ serving[w][1] \in Turn /\ serving[w][2] \in 0..MaxCalls
    BY <1>5 DEF Emit, Call, StreamTypeOK
  <2>2. Put(serving[w][1], "token", serving[w][2])
    BY <1>5 DEF Emit
  <2>3. \A u \in Turn : \A i \in 1..Len(events'[u]) :
           events'[u][i].kind = "end" => \E j \in 1..Len(events[u]) : events[u][j].kind = "end"
    BY <2>1, <2>2, <1>events, PutNoEnd
  <2>4. QED BY <1>5, <2>3, InformedFrame DEF Emit, thread, client
<1>6. ASSUME NEW t \in Turn, Send(t) PROVE Informed'
  <2>1. /\ \A u \in Turn : u # t => events'[u] = events[u]
        /\ \A i \in 1..Len(events'[t]) : i + 1 \in 1..Len(events[t]) /\ events'[t][i] = events[t][i + 1]
        /\ 1 \in 1..Len(events[t]) /\ Head(events[t]) = events[t][1]
    <3>1. /\ \A u \in Turn : u # t => events'[u] = events[u]
          /\ Len(events[t]) \in Nat /\ Len(events[t]) >= 1
          /\ Len(events'[t]) = Len(events[t]) - 1
          /\ \A i \in 1..Len(events'[t]) : events'[t][i] = events[t][i + 1]
          /\ Head(events[t]) = events[t][1]
      BY <1>6, <1>events, SendEvents
    <3>2. \A n \in Nat : n >= 1 => 1 \in 1..n /\ \A i \in 1..n - 1 : i + 1 \in 1..n
      OBVIOUS
    <3>3. QED BY <3>1, <3>2
  <2>2. handler' = [handler EXCEPT ![t] = IF events[t][1].kind = "end" THEN "ended" ELSE @]
    BY <1>6, <2>1 DEF Send
  <2>3. handler'[t] = "ended" => streamAt[t] = "over"
    BY <2>1, <2>2 DEF Informed, StreamTypeOK
  <2>4. \A u \in Turn : u # t => handler'[u] = handler[u]
    BY <2>2 DEF StreamTypeOK
  <2>5. streamAt' = streamAt /\ outcome' = outcome /\ told' = told
    BY <1>6 DEF Send, thread
  <2>6. QED BY <2>1, <2>3, <2>4, <2>5 DEF Informed
<1>7. ASSUME NEW t \in Turn, Conclude(t) PROVE Informed'
  <2>1. streamAt[t] = "over" /\ outcome[t] # "none"
    BY <1>7 DEF Conclude, Informed
  <2>2. told'[t] = IF outcome[t] = "payload" THEN "done" ELSE "error"
    BY <1>7 DEF Conclude, StreamTypeOK
  <2>3. handler'[t] = "stopped" /\ \A u \in Turn : u # t => handler'[u] = handler[u] /\ told'[u] = told[u]
    BY <1>7 DEF Conclude, StreamTypeOK
  <2>4. streamAt' = streamAt /\ outcome' = outcome /\ events' = events
    BY <1>7 DEF Conclude, thread
  <2>5. QED BY <2>1, <2>2, <2>3, <2>4 DEF Informed
<1>8. ASSUME NEW t \in Turn, Notice(t) PROVE Informed'
  BY <1>8 DEF Notice, thread, Informed, StreamTypeOK
<1>9. ASSUME NEW t \in Turn, CloseStream(t) PROVE Informed'
  BY <1>9, InformedFrame DEF CloseStream, thread
<1>10. CASE UNCHANGED streamVars
  BY <1>10, InformedFrame DEF streamVars, thread, client
<1>11. QED BY <1>1, <1>2, <1>3, <1>4, <1>5, <1>6, <1>7, <1>8, <1>9, <1>10
           DEF StreamNext, TurnStep, PoolStep, HandlerStep

\* A client that has stayed is told "done" exactly when run_chat returned an answer.
THEOREM ToldTheTruthTheorem == StreamSpec => []ToldTheTruth
<1>1. StreamInit => Informed
  <2> SUFFICES ASSUME StreamInit, NEW t \in Turn
               PROVE  /\ outcome[t] = "none" /\ streamAt[t] # "over" /\ handler[t] # "ended"
                      /\ told[t] = "none" /\ 1..Len(events[t]) = {}
    BY DEF Informed
  <2>1. events[t] = << >> /\ Len(<< >>) = 0
    BY EmptySeq DEF StreamInit
  <2>2. 1..Len(events[t]) = {}
    BY <2>1
  <2>3. QED BY <2>2 DEF StreamInit
<1>2. StreamTypeOK /\ Counted /\ Informed /\ [StreamNext]_streamVars => (StreamTypeOK /\ Counted /\ Informed)'
  BY NextType, NextInformed
<1>3. Informed => ToldTheTruth
  BY DEF Informed, ToldTheTruth
<1>4. QED BY InitType, <1>1, <1>2, <1>3, PTL DEF StreamSpec

----------------------------------------------------------------------------
(* Whose text comes after whose *)

\* A call is at one place at a time, and its Future says at which.
Tracked ==
  /\ \A i \in 1..Len(tasks) : fate[tasks[i]] = "queued"
  /\ \A i, j \in 1..Len(tasks) : tasks[i] = tasks[j] => i = j
  /\ \A w \in Worker : serving[w] # Idle => fate[serving[w]] = "running"
  /\ \A w, v \in Worker : serving[w] = serving[v] /\ serving[w] # Idle => w = v
  /\ \A t \in Turn : \A n \in 1..MaxCalls : n > call[t] => fate[<<t, n>>] = "none"
  /\ \A t \in Turn : streamAt[t] = "submit" => fate[Now(t)] = "none"

\* A turn that has given up on no call has at most the one alive it waits for.
Patient(t) == \A c \in orphans : c[1] # t
Alone ==
  \A t \in Turn : Patient(t) =>
    \A c \in Call : c[1] = t /\ fate[c] \in {"queued", "running"} => c = Now(t) /\ streamAt[t] = "wait"

LEMMA InitTracked == StreamInit => Tracked /\ Alone
<1> SUFFICES ASSUME StreamInit PROVE Tracked /\ Alone
  OBVIOUS
<1>1. 1..Len(tasks) = {}
  BY EmptySeq DEF StreamInit
<1>2. \A t \in Turn : \A n \in 1..MaxCalls : <<t, n>> \in Call
  BY DEF Call
<1>3. \A t \in Turn : streamAt[t] = "ready"
  BY DEF StreamInit
<1>4. \A w \in Worker : serving[w] = Idle
  BY DEF StreamInit
<1>5. \A c \in Call : fate[c] = "none"
  BY DEF StreamInit
<1>6. Tracked
  BY <1>1, <1>2, <1>3, <1>4, <1>5 DEF Tracked
<1>7. Alone
  BY <1>5 DEF Alone
<1>8. QED BY <1>6, <1>7

\* Steps that move no call.
LEMMA TrackedFrame ==
  ASSUME Tracked, Alone, UNCHANGED <<tasks, serving, fate, call>>, orphans \subseteq orphans',
         \A t \in Turn : streamAt'[t] = "submit" => streamAt[t] = "submit",
         \A t \in Turn : (\A c \in orphans' : c[1] # t) /\ streamAt[t] = "wait" /\ fate[Now(t)] \in {"queued", "running"}
                         => streamAt'[t] = "wait"
  PROVE  Tracked' /\ Alone'
<1>1. Tracked'
  BY DEF Tracked, Now
<1>2. Alone'
  BY DEF Alone, Patient, Now
<1>3. QED BY <1>1, <1>2

LEMMA NextTracked ==
  ASSUME StreamTypeOK, Counted, Tracked, Alone, [StreamNext]_streamVars PROVE Tracked' /\ Alone'
<1>fate. /\ fate \in [Call -> Done \cup {"none", "queued", "running"}]
         /\ streamAt \in [Turn -> {"ready", "submit", "wait", "over"}]
         /\ call \in [Turn -> 0..MaxCalls] /\ tasks \in Seq(Call) /\ Len(tasks) \in Nat
         /\ serving \in [Worker -> Call \cup {Idle}]
  BY LenProperties DEF StreamTypeOK
<1>1. ASSUME NEW t \in Turn, ResetForNewCall(t) PROVE Tracked' /\ Alone'
  <2>1. /\ streamAt[t] = "ready" /\ call[t] < MaxCalls /\ UNCHANGED <<tasks, serving, fate, orphans>>
        /\ streamAt' = [streamAt EXCEPT ![t] = "submit"] /\ call' = [call EXCEPT ![t] = @ + 1]
    BY <1>1 DEF ResetForNewCall, pool
  <2>2. /\ \A u \in Turn : call'[u] >= call[u] /\ (u # t => call'[u] = call[u] /\ streamAt'[u] = streamAt[u])
        /\ call'[t] \in 1..MaxCalls /\ call'[t] > call[t] /\ streamAt'[t] = "submit"
    BY <2>1, <1>fate
  <2>3. \A u \in Turn : streamAt'[u] = "submit" => fate[<<u, call'[u]>>] = "none"
    <3>1. fate[<<t, call'[t]>>] = "none"
      BY <2>2 DEF Tracked
    <3>2. QED BY <2>2, <3>1 DEF Tracked, Now
  <2>4. \A u \in Turn : \A n \in 1..MaxCalls : n > call'[u] => n > call[u]
    BY <2>2, <1>fate
  <2>5. Tracked'
    BY <2>1, <2>3, <2>4 DEF Tracked, Now
  <2>6. \A u \in Turn : u # t => (streamAt'[u] = "wait" <=> streamAt[u] = "wait") /\ Now(u)' = Now(u)
    BY <2>2 DEF Now
  <2>7. Alone'
    BY <2>1, <2>6 DEF Alone, Patient
  <2>8. QED BY <2>5, <2>7
<1>2. ASSUME NEW t \in Turn, Submit(t) PROVE Tracked' /\ Alone'
  <2>1. streamAt[t] = "submit" /\ UNCHANGED <<serving, call, orphans>> /\ fate[Now(t)] = "none"
    BY <1>2 DEF Submit, Tracked
  <2>2. CASE Len(tasks) < QueueMax
    <3>1. /\ tasks' = Append(tasks, Now(t)) /\ fate' = [fate EXCEPT ![Now(t)] = "queued"]
          /\ streamAt' = [streamAt EXCEPT ![t] = "wait"] /\ Now(t) \in Call
      BY <1>2, <2>1, <2>2 DEF Submit, Counted, Now, Call
    <3>2. /\ Len(tasks') = Len(tasks) + 1 /\ tasks'[Len(tasks) + 1] = Now(t)
          /\ \A i \in 1..Len(tasks) : tasks'[i] = tasks[i] /\ tasks[i] \in Call
      BY <3>1, <1>fate, AppendProperties, ElementOfSeq
    <3>3. fate'[Now(t)] = "queued" /\ \A c \in Call : c # Now(t) => fate'[c] = fate[c]
      BY <3>1, <1>fate
    <3>4. \A i \in 1..Len(tasks) : tasks[i] # Now(t)
      BY <2>1 DEF Tracked
    <3>5. \A w \in Worker : serving[w] # Idle => serving[w] # Now(t) /\ serving[w] \in Call
      BY <2>1, <1>fate DEF Tracked
    <3>6. \A i \in 1..Len(tasks') : i \in 1..Len(tasks) \/ i = Len(tasks) + 1
      BY <3>2, <1>fate
    <3>7. /\ \A i \in 1..Len(tasks') : fate'[tasks'[i]] = "queued"
          /\ \A i, j \in 1..Len(tasks') : tasks'[i] = tasks'[j] => i = j
      BY <3>2, <3>3, <3>4, <3>6 DEF Tracked
    <3>8. \A w \in Worker : serving'[w] # Idle => fate'[serving'[w]] = "running"
      BY <2>1, <3>3, <3>5 DEF Tracked
    <3>9. /\ streamAt'[t] = "wait" /\ \A u \in Turn : u # t => streamAt'[u] = streamAt[u]
      BY <3>1, <1>fate
    <3>10. \A u \in Turn : \A n \in 1..MaxCalls : n > call[u] => <<u, n>> # Now(t) /\ <<u, n>> \in Call
      BY <1>fate DEF Now, Call
    <3>11. \A u \in Turn : u # t /\ streamAt[u] = "submit" => Now(u) # Now(t) /\ Now(u) \in Call
      BY DEF Counted, Now, Call
    <3>12. \A u \in Turn : Now(u)' = Now(u)
      BY <2>1 DEF Now
    <3>13. /\ \A u \in Turn : \A n \in 1..MaxCalls : n > call'[u] => fate'[<<u, n>>] = "none"
           /\ \A u \in Turn : streamAt'[u] = "submit" => fate'[Now(u)'] = "none"
      BY <2>1, <3>3, <3>9, <3>10, <3>11, <3>12 DEF Tracked
    <3>14. Tracked'
      BY <2>1, <3>7, <3>8, <3>13 DEF Tracked
    <3>15. Alone'
      <4> SUFFICES ASSUME NEW u \in Turn, Patient(u), NEW c \in Call, c[1] = u,
                          fate'[c] \in {"queued", "running"}
                   PROVE  c = Now(u) /\ streamAt'[u] = "wait"
        BY <2>1, <3>12 DEF Alone, Patient
      <4>1. CASE c = Now(t)
        BY <4>1, <3>9 DEF Now
      <4>2. CASE c # Now(t)
        BY <4>2, <2>1, <3>3, <3>9 DEF Alone
      <4>3. QED BY <4>1, <4>2
    <3>16. QED BY <3>14, <3>15
  <2>3. CASE ~(Len(tasks) < QueueMax)
    <3>1. streamAt' = [streamAt EXCEPT ![t] = "ready"] /\ UNCHANGED <<tasks, fate>>
      BY <1>2, <2>3 DEF Submit
    <3>2. /\ \A u \in Turn : streamAt'[u] = "submit" => streamAt[u] = "submit"
          /\ \A u \in Turn : streamAt[u] = "wait" => streamAt'[u] = "wait"
      BY <2>1, <3>1, <1>fate
    <3>3. QED BY <2>1, <3>1, <3>2, TrackedFrame
  <2>4. QED BY <2>2, <2>3
<1>3. ASSUME NEW t \in Turn, Result(t) PROVE Tracked' /\ Alone'
  <2>1. streamAt[t] = "wait" /\ fate[Now(t)] \in Done /\ UNCHANGED <<tasks, serving, fate, call, orphans>>
        /\ streamAt' = [streamAt EXCEPT ![t] = "ready"]
    BY <1>3 DEF Result, pool
  <2>2. /\ \A u \in Turn : streamAt'[u] = "submit" => streamAt[u] = "submit"
        /\ \A u \in Turn : u # t => streamAt'[u] = streamAt[u]
    BY <2>1, <1>fate
  <2>3. fate[Now(t)] \notin {"queued", "running"}
    BY <2>1 DEF Done
  <2>4. QED BY <2>1, <2>2, <2>3, TrackedFrame
<1>4. ASSUME NEW t \in Turn, TimeOut(t) PROVE Tracked' /\ Alone'
  <2>1. /\ UNCHANGED <<tasks, serving, fate, call>> /\ orphans' = orphans \cup {Now(t)}
        /\ streamAt' = [streamAt EXCEPT ![t] = "ready"]
    BY <1>4 DEF TimeOut, pool
  <2>2. /\ \A u \in Turn : streamAt'[u] = "submit" => streamAt[u] = "submit"
        /\ \A u \in Turn : u # t => streamAt'[u] = streamAt[u]
    BY <2>1, <1>fate
  <2>3. Now(t) \in orphans' /\ Now(t)[1] = t
    BY <2>1 DEF Now
  <2>4. QED BY <2>1, <2>2, <2>3, TrackedFrame
<1>5. ASSUME NEW t \in Turn, NEW how \in {"payload", "error", "cancelled"}, EndStream(t, how)
      PROVE  Tracked' /\ Alone'
  <2>1. /\ streamAt[t] = "ready" /\ UNCHANGED <<tasks, serving, fate, call, orphans>>
        /\ streamAt' = [streamAt EXCEPT ![t] = "over"]
    BY <1>5 DEF EndStream, pool
  <2>2. /\ \A u \in Turn : streamAt'[u] = "submit" => streamAt[u] = "submit"
        /\ \A u \in Turn : streamAt[u] = "wait" => streamAt'[u] = "wait"
    BY <2>1, <1>fate
  <2>3. QED BY <2>1, <2>2, TrackedFrame
<1>6. ASSUME NEW w \in Worker, Take(w) PROVE Tracked' /\ Alone'
  <2>1. /\ serving[w] = Idle /\ tasks # << >> /\ UNCHANGED <<streamAt, call, orphans>>
        /\ serving' = [serving EXCEPT ![w] = Head(tasks)]
        /\ fate' = [fate EXCEPT ![Head(tasks)] = "running"] /\ tasks' = Tail(tasks)
    BY <1>6 DEF Take, thread
  <2>2. /\ Head(tasks) = tasks[1] /\ tasks[1] \in Call /\ 1 \in 1..Len(tasks)
        /\ Len(tasks') = Len(tasks) - 1
        /\ \A i \in 1..Len(tasks') : tasks'[i] = tasks[i + 1] /\ i + 1 \in 1..Len(tasks)
    BY <2>1, <1>fate, HeadTailProperties, EmptySeq, LenProperties
  <2>3. fate'[tasks[1]] = "running" /\ \A c \in Call : c # tasks[1] => fate'[c] = fate[c]
    BY <2>1, <2>2, <1>fate
  <2>4. /\ \A i \in 1..Len(tasks') : tasks'[i] # tasks[1] /\ tasks'[i] \in Call
        /\ \A i \in 1..Len(tasks') : fate[tasks'[i]] = "queued"
        /\ \A i, j \in 1..Len(tasks') : tasks'[i] = tasks'[j] => i = j
    <3>1. \A i, j \in 1..Len(tasks') : i + 1 # 1 /\ (i + 1 = j + 1 => i = j)
      BY <2>2, <1>fate
    <3>2. \A i \in 1..Len(tasks) : tasks[i] \in Call
      BY <1>fate, ElementOfSeq
    <3>3. \A i \in 1..Len(tasks') : tasks'[i] # tasks[1]
      BY <2>2, <3>1 DEF Tracked
    <3>4. \A i \in 1..Len(tasks') : tasks'[i] \in Call /\ fate[tasks'[i]] = "queued"
      BY <2>2, <3>2 DEF Tracked
    <3>5. \A i, j \in 1..Len(tasks') : tasks'[i] = tasks'[j] => i = j
      BY <2>2, <3>1 DEF Tracked
    <3>6. QED BY <3>3, <3>4, <3>5
  <2>5. /\ serving'[w] = tasks[1] /\ \A v \in Worker : v # w => serving'[v] = serving[v]
        /\ \A v \in Worker : serving[v] # Idle => serving[v] # tasks[1] /\ serving[v] \in Call
    BY <2>1, <2>2, <1>fate DEF Tracked
  <2>6. /\ \A v \in Worker : serving'[v] # Idle => fate'[serving'[v]] = "running"
        /\ \A u, v \in Worker : serving'[u] = serving'[v] /\ serving'[u] # Idle => u = v
    BY <2>2, <2>3, <2>5 DEF Tracked
  <2>7. fate[tasks[1]] = "queued"
    BY <2>2 DEF Tracked
  <2>8. /\ \A t \in Turn : \A n \in 1..MaxCalls : <<t, n>> \in Call
        /\ \A t \in Turn : streamAt[t] = "submit" => Now(t) \in Call /\ Now(t)' = Now(t)
    BY <2>1 DEF Now, Call, Counted
  <2>9. Tracked'
    BY <2>1, <2>3, <2>4, <2>6, <2>7, <2>8 DEF Tracked
  <2>10. \A c \in Call : fate'[c] \in {"queued", "running"} => fate[c] \in {"queued", "running"}
    BY <2>3, <2>7
  <2>11. Alone'
    BY <2>1, <2>10 DEF Alone, Patient, Now
  <2>12. QED BY <2>9, <2>11
<1>7. ASSUME NEW w \in Worker, Emit(w) PROVE Tracked' /\ Alone'
  BY <1>7, TrackedFrame DEF Emit, thread
<1>8. ASSUME NEW w \in Worker, Finish(w) PROVE Tracked' /\ Alone'
  <2>1. PICK f \in Done : fate' = [fate EXCEPT ![serving[w]] = f]
    BY <1>8 DEF Finish
  <2>2. /\ serving[w] # Idle /\ UNCHANGED <<tasks, streamAt, call, orphans>>
        /\ serving' = [serving EXCEPT ![w] = Idle]
    BY <1>8 DEF Finish, thread
  <2>3. /\ serving[w] \in Call /\ fate[serving[w]] = "running"
        /\ fate'[serving[w]] = f /\ \A c \in Call : c # serving[w] => fate'[c] = fate[c]
    BY <2>1, <2>2, <1>fate DEF Tracked
  <2>4. \A i \in 1..Len(tasks) : tasks[i] \in Call /\ tasks[i] # serving[w]
    BY <2>3, <1>fate, ElementOfSeq DEF Tracked
  <2>5. /\ serving'[w] = Idle /\ \A v \in Worker : v # w => serving'[v] = serving[v]
        /\ \A v \in Worker : v # w /\ serving[v] # Idle => serving[v] # serving[w] /\ serving[v] \in Call
    BY <2>2, <1>fate DEF Tracked
  <2>6. /\ \A t \in Turn : \A n \in 1..MaxCalls : <<t, n>> \in Call
        /\ \A t \in Turn : streamAt[t] = "submit" => Now(t) \in Call /\ Now(t)' = Now(t)
    BY <2>2 DEF Now, Call, Counted
  <2>7. /\ \A i \in 1..Len(tasks') : fate'[tasks'[i]] = "queued"
        /\ \A i, j \in 1..Len(tasks') : tasks'[i] = tasks'[j] => i = j
    BY <2>2, <2>3, <2>4 DEF Tracked
  <2>8. /\ \A v \in Worker : serving'[v] # Idle => fate'[serving'[v]] = "running"
        /\ \A u, v \in Worker : serving'[u] = serving'[v] /\ serving'[u] # Idle => u = v
    BY <2>3, <2>5 DEF Tracked
  <2>9. /\ \A t \in Turn : \A n \in 1..MaxCalls : n > call'[t] => fate'[<<t, n>>] = "none"
        /\ \A t \in Turn : streamAt'[t] = "submit" => fate'[Now(t)'] = "none"
    BY <2>2, <2>3, <2>6 DEF Tracked
  <2>10. Tracked'
    BY <2>7, <2>8, <2>9 DEF Tracked
  <2>11. \A c \in Call : fate'[c] \in {"queued", "running"} => fate[c] \in {"queued", "running"}
    BY <2>3
  <2>12. Alone'
    BY <2>2, <2>11 DEF Alone, Patient, Now
  <2>13. QED BY <2>10, <2>12
<1>9. ASSUME NEW t \in Turn, HandlerStep(t) \/ CloseStream(t) PROVE Tracked' /\ Alone'
  BY <1>9, TrackedFrame DEF HandlerStep, Send, Conclude, Notice, CloseStream, pool, thread
<1>10. CASE UNCHANGED streamVars
  BY <1>10, TrackedFrame DEF streamVars, pool, thread
<1>11. QED BY <1>1, <1>2, <1>3, <1>4, <1>5, <1>6, <1>7, <1>8, <1>9, <1>10
           DEF StreamNext, TurnStep, PoolStep

\* Between the client's screen and the newest event there is no change of call
\* without a reset, and what came last is of the call the turn made last.
LastEvent(t) == events[t][Len(events[t])]
InOrder(t) ==
  /\ \A i \in 1..Len(events[t]) :
       i + 1 \in 1..Len(events[t]) /\ events[t][i].call # 0 /\ events[t][i + 1].call # 0
       => events[t][i].call = events[t][i + 1].call
  /\ Len(events[t]) > 0 /\ LastEvent(t).call # 0 => LastEvent(t).call = call[t] /\ emitted[t]
  /\ handler[t] = "sending" /\ shown[t] # 0 =>
       IF Len(events[t]) = 0 THEN shown[t] = call[t] /\ emitted[t]
       ELSE events[t][1].call # 0 => shown[t] = events[t][1].call
Orderly == \A t \in Turn : Patient(t) => InOrder(t)

\* A turn whose events, screen and calls stay as they are.
LEMMA OrderlyFrame ==
  ASSUME Orderly, NEW t \in Turn, orphans \subseteq orphans', events'[t] = events[t],
         call'[t] = call[t], emitted'[t] = emitted[t], shown'[t] = shown[t],
         handler'[t] = handler[t] \/ handler'[t] # "sending"
  PROVE  Patient(t)' => InOrder(t)'
BY DEF Orderly, Patient, InOrder, LastEvent

\* An event that is a reset, or text of the turn's own call, keeps the order.
LEMMA PutInOrder ==
  ASSUME StreamTypeOK, NEW t \in Turn, InOrder(t),
         NEW kind \in {"token", "reset", "end"}, NEW n \in 0..MaxCalls, Put(t, kind, n),
         handler' = handler, shown' = shown,
         n = 0 \/ (n = call[t] /\ call'[t] = call[t] /\ emitted'[t])
  PROVE  InOrder(t)'
<1> DEFINE len == Len(events[t])
<1>1. /\ len \in Nat /\ Len(events'[t]) = len + 1
      /\ \A i \in 1..len : events'[t][i] = events[t][i]
      /\ events'[t][len + 1] = [kind |-> kind, call |-> n]
  BY EventsType, PutEvents
<1>2. events'[t][len + 1].call = n
  BY <1>1
<1>3. ASSUME NEW i \in 1..(len + 1), i + 1 \in 1..(len + 1),
             events'[t][i].call # 0, events'[t][i + 1].call # 0
      PROVE  events'[t][i].call = events'[t][i + 1].call
  <2>1. i \in 1..len
    BY <1>1, <1>3
  <2>2. CASE i + 1 \in 1..len
    BY <1>1, <1>3, <2>1, <2>2 DEF InOrder
  <2>3. CASE i = len
    <3>1. len > 0 /\ LastEvent(t) = events'[t][i]
      BY <1>1, <2>1, <2>3 DEF LastEvent
    <3>2. events'[t][i].call = call[t]
      BY <1>3, <3>1 DEF InOrder
    <3>3. QED BY <1>2, <1>3, <2>3, <3>2
  <2>4. QED BY <1>1, <1>3, <2>1, <2>2, <2>3
<1>4. LastEvent(t)'.call # 0 => LastEvent(t)'.call = call'[t] /\ emitted'[t]
  BY <1>1, <1>2 DEF LastEvent
<1>5. handler'[t] = "sending" /\ shown'[t] # 0 /\ events'[t][1].call # 0 => shown'[t] = events'[t][1].call
  <2>1. CASE len = 0
    BY <1>1, <1>2, <2>1 DEF InOrder
  <2>2. CASE len > 0
    BY <1>1, <2>2 DEF InOrder
  <2>3. QED BY <1>1, <2>1, <2>2
<1>6. QED BY <1>1, <1>3, <1>4, <1>5 DEF InOrder

\* The handler passes on one event.
LEMMA SendInOrder == ASSUME StreamTypeOK, NEW t \in Turn, InOrder(t), Send(t) PROVE InOrder(t)'
<1> DEFINE len == Len(events[t])
<1>1. /\ len \in Nat /\ len >= 1 /\ Len(events'[t]) = len - 1
      /\ \A i \in 1..(len - 1) : events'[t][i] = events[t][i + 1]
      /\ Head(events[t]) = events[t][1]
  BY EventsType, SendEvents
<1>2. /\ call' = call /\ emitted' = emitted
      /\ handler'[t] = IF events[t][1].kind = "end" THEN "ended" ELSE handler[t]
      /\ shown'[t] = IF events[t][1].kind = "end" THEN shown[t] ELSE events[t][1].call
  BY <1>1 DEF Send, thread, StreamTypeOK
<1>3. ASSUME NEW i \in 1..(len - 1), i + 1 \in 1..(len - 1),
             events'[t][i].call # 0, events'[t][i + 1].call # 0
      PROVE  events'[t][i].call = events'[t][i + 1].call
  <2>1. events'[t][i] = events[t][i + 1] /\ events'[t][i + 1] = events[t][(i + 1) + 1]
    BY <1>1, <1>3
  <2>2. i + 1 \in 1..len /\ (i + 1) + 1 \in 1..len
    BY <1>1, <1>3
  <2>3. QED BY <1>3, <2>1, <2>2 DEF InOrder
<1>4. len - 1 > 0 => LastEvent(t)' = LastEvent(t)
  BY <1>1 DEF LastEvent
<1>5. Len(events'[t]) > 0 /\ LastEvent(t)'.call # 0 => LastEvent(t)'.call = call'[t] /\ emitted'[t]
  BY <1>1, <1>2, <1>4 DEF InOrder
<1>6. ASSUME handler'[t] = "sending", shown'[t] # 0
      PROVE  IF Len(events'[t]) = 0 THEN shown'[t] = call'[t] /\ emitted'[t]
             ELSE events'[t][1].call # 0 => shown'[t] = events'[t][1].call
  <2>1. shown'[t] = events[t][1].call
    BY <1>2, <1>6
  <2>2. CASE len = 1
    BY <1>1, <1>2, <1>6, <2>1, <2>2 DEF InOrder, LastEvent
  <2>3. CASE len # 1
    <3>len. 1 \in 1..(len - 1) /\ 1 \in 1..len /\ 2 \in 1..len /\ 1 + 1 = 2
      <4>1. \A n \in Nat : n >= 1 /\ n # 1 => 1 \in 1..(n - 1) /\ 1 \in 1..n /\ 2 \in 1..n /\ 1 + 1 = 2
        OBVIOUS
      <4>2. len \in Nat /\ len >= 1 /\ len # 1
        BY <1>1, <2>3
      <4>3. QED BY <4>1, <4>2
    <3>1. events'[t][1] = events[t][2] /\ 1 \in 1..len /\ 1 + 1 \in 1..len
      <4>1. events'[t][1] = events[t][1 + 1]
        BY <1>1, <3>len
      <4>2. QED BY <4>1, <3>len
    <3>2. events[t][2].call # 0 => events[t][1].call = events[t][2].call
      BY <1>6, <2>1, <3>1, <3>len DEF InOrder
    <3>3. QED BY <1>1, <2>1, <2>3, <3>1, <3>2
  <2>4. QED BY <2>2, <2>3
<1>7. QED BY <1>1, <1>3, <1>5, <1>6 DEF InOrder

LEMMA NextOrderly ==
  ASSUME StreamTypeOK, Tracked, Alone, Orderly, [StreamNext]_streamVars PROVE Orderly'
<1> SUFFICES ASSUME NEW t \in Turn, Patient(t)' PROVE InOrder(t)'
  BY DEF Orderly
<1>orphans. orphans \subseteq orphans'
  BY DEF StreamNext, TurnStep, PoolStep, HandlerStep, ResetForNewCall, Submit, Result, TimeOut, EndStream, Take,
     Emit, Finish, Send, Conclude, Notice, CloseStream, streamVars, thread
<1>now. Patient(t) /\ InOrder(t)
  BY <1>orphans DEF Patient, Orderly
<1>events. 0 \in 0..MaxCalls /\ events \in [Turn -> Seq(Event)]
  BY EventsType
<1>1. ASSUME NEW u \in Turn, ResetForNewCall(u) PROVE InOrder(t)'
  <2>1. handler' = handler /\ shown' = shown
    BY <1>1 DEF ResetForNewCall, client
  <2>2. CASE emitted[u]
    <3>1. Put(u, "reset", 0)
      BY <1>1, <2>2 DEF ResetForNewCall
    <3>2. CASE u = t
      BY <1>now, <1>events, <2>1, <3>1, <3>2, PutInOrder
    <3>3. CASE u # t
      <4>1. events'[t] = events[t]
        BY <1>events, <3>1, <3>3, PutEvents
      <4>2. call'[t] = call[t] /\ emitted'[t] = emitted[t]
        BY <1>1, <2>2, <3>3 DEF ResetForNewCall, StreamTypeOK
      <4>3. QED BY <1>orphans, <2>1, <4>1, <4>2, OrderlyFrame
    <3>4. QED BY <3>2, <3>3
  <2>3. CASE ~emitted[u]
    <3>1. events' = events /\ emitted' = emitted /\ call' = [call EXCEPT ![u] = @ + 1]
      BY <1>1, <2>3 DEF ResetForNewCall
    <3>2. CASE u = t
      BY <1>now, <2>1, <2>3, <3>1, <3>2 DEF InOrder, LastEvent
    <3>3. CASE u # t
      BY <1>orphans, <2>1, <3>1, <3>3, OrderlyFrame DEF StreamTypeOK
    <3>4. QED BY <3>2, <3>3
  <2>4. QED BY <2>2, <2>3
<1>2. ASSUME NEW u \in Turn, Submit(u) \/ Result(u) \/ TimeOut(u) PROVE InOrder(t)'
  BY <1>2, <1>orphans, OrderlyFrame DEF Submit, Result, TimeOut, client
<1>3. ASSUME NEW u \in Turn, NEW how \in {"payload", "error", "cancelled"}, EndStream(u, how)
      PROVE  InOrder(t)'
  <2>1. Put(u, "end", 0) /\ UNCHANGED <<handler, shown, call, emitted>>
    BY <1>3 DEF EndStream, client
  <2>2. CASE u = t
    BY <1>now, <1>events, <2>1, <2>2, PutInOrder
  <2>3. CASE u # t
    <3>1. events'[t] = events[t]
      BY <1>events, <2>1, <2>3, PutEvents
    <3>2. QED BY <1>orphans, <2>1, <3>1, OrderlyFrame
  <2>4. QED BY <2>2, <2>3
<1>4. ASSUME NEW w \in Worker, Take(w) \/ Finish(w) PROVE InOrder(t)'
  BY <1>4, <1>orphans, OrderlyFrame DEF Take, Finish, thread, client
<1>5. ASSUME NEW w \in Worker, Emit(w) PROVE InOrder(t)'
  <2>1. /\ serving[w] \in Call /\ serving[w][1] \in Turn /\ serving[w][2] \in 0..MaxCalls
        /\ fate[serving[w]] = "running"
    BY <1>5 DEF Emit, Call, StreamTypeOK, Tracked
  <2>2. /\ Put(serving[w][1], "token", serving[w][2]) /\ UNCHANGED <<handler, shown, call>>
        /\ emitted' = [emitted EXCEPT ![serving[w][1]] = TRUE]
    BY <1>5 DEF Emit, client, thread
  <2>3. CASE serving[w][1] = t
    <3>1. serving[w] = Now(t)
      BY <1>now, <2>1, <2>3 DEF Alone
    <3>2. serving[w][2] = call[t]
      BY <3>1 DEF Now
    <3>3. emitted'[t]
      BY <2>2, <2>3 DEF StreamTypeOK
    <3>4. QED BY <1>now, <2>1, <2>2, <2>3, <3>2, <3>3, PutInOrder
  <2>4. CASE serving[w][1] # t
    <3>1. events'[t] = events[t]
      <4>1. "token" \in {"token", "reset", "end"}
        OBVIOUS
      <4>2. PICK u \in Turn, n \in 0..MaxCalls : u = serving[w][1] /\ n = serving[w][2]
        BY <2>1
      <4>3. Put(u, "token", n)
        BY <2>2, <4>2
      <4>4. \A x \in Turn : x # u => events'[x] = events[x]
        BY <1>events, <4>1, <4>3, PutEvents
      <4>5. QED BY <2>4, <4>2, <4>4
    <3>2. emitted'[t] = emitted[t]
      BY <2>2, <2>4 DEF StreamTypeOK
    <3>3. QED BY <1>orphans, <2>2, <3>1, <3>2, OrderlyFrame
  <2>5. QED BY <2>3, <2>4
<1>6. ASSUME NEW u \in Turn, Send(u) PROVE InOrder(t)'
  <2>1. CASE u = t
    BY <1>now, <1>6, <2>1, SendInOrder
  <2>2. CASE u # t
    <3>1. events'[t] = events[t]
      BY <1>events, <1>6, <2>2, SendEvents
    <3>2. /\ handler'[t] = handler[t] /\ shown'[t] = shown[t]
          /\ call' = call /\ emitted' = emitted
      BY <1>6, <2>2 DEF Send, StreamTypeOK, thread
    <3>3. QED BY <1>orphans, <3>1, <3>2, OrderlyFrame
  <2>3. QED BY <2>1, <2>2
<1>7. ASSUME NEW u \in Turn, Conclude(u) PROVE InOrder(t)'
  <2>1. events' = events /\ call' = call /\ emitted' = emitted
    BY <1>7 DEF Conclude, thread
  <2>2. CASE u = t
    <3>1. handler'[t] = "stopped"
      BY <1>7, <2>2 DEF Conclude, StreamTypeOK
    <3>2. QED BY <1>now, <2>1, <3>1 DEF InOrder, LastEvent
  <2>3. CASE u # t
    <3>1. handler'[t] = handler[t] /\ shown'[t] = shown[t]
      BY <1>7, <2>3 DEF Conclude, StreamTypeOK
    <3>2. QED BY <1>orphans, <2>1, <3>1, OrderlyFrame
  <2>4. QED BY <2>2, <2>3
<1>8. ASSUME NEW u \in Turn, Notice(u) PROVE InOrder(t)'
  <2>1. handler'[t] = handler[t] \/ handler'[t] # "sending"
    BY <1>8 DEF Notice, StreamTypeOK
  <2>2. QED BY <1>8, <1>orphans, <2>1, OrderlyFrame DEF Notice, thread
<1>9. ASSUME NEW u \in Turn, CloseStream(u) PROVE InOrder(t)'
  BY <1>9, <1>orphans, OrderlyFrame DEF CloseStream, thread
<1>10. CASE UNCHANGED streamVars
  BY <1>10, <1>orphans, OrderlyFrame DEF streamVars, thread, client
<1>11. QED BY <1>1, <1>2, <1>3, <1>4, <1>5, <1>6, <1>7, <1>8, <1>9, <1>10
           DEF StreamNext, TurnStep, PoolStep, HandlerStep

\* Only the handler changes the screen, and with the newest event's text.
LEMMA ScreenStep ==
  ASSUME StreamTypeOK, Orderly, [StreamNext]_streamVars, NEW t \in Turn, Patient(t),
         shown[t] # 0, shown'[t] # 0
  PROVE  shown'[t] = shown[t]
<1> USE DEF StreamTypeOK
<1>1. CASE Send(t)
  <2>1. /\ Len(events[t]) # 0 /\ Head(events[t]) = events[t][1] /\ handler[t] = "sending"
    BY <1>1, EventsType, SendEvents DEF Send
  <2>2. events[t][1].call # 0 => shown[t] = events[t][1].call
    BY <2>1 DEF Orderly, InOrder
  <2>3. shown'[t] = IF events[t][1].kind = "end" THEN shown[t] ELSE events[t][1].call
    BY <1>1, <2>1 DEF Send
  <2>4. QED BY <2>2, <2>3
<1>2. CASE Conclude(t)
  BY <1>2 DEF Conclude
<1>3. CASE \E u \in Turn : u # t /\ (Send(u) \/ Conclude(u))
  BY <1>3 DEF Send, Conclude
<1>4. CASE UNCHANGED shown
  BY <1>4
<1>5. ASSUME ~\E u \in Turn : Send(u) \/ Conclude(u) PROVE UNCHANGED shown
  BY <1>5 DEF StreamNext, TurnStep, PoolStep, HandlerStep, ResetForNewCall, Submit, Result, TimeOut, EndStream,
     Take, Emit, Finish, Notice, CloseStream, streamVars, client
<1>6. QED BY <1>1, <1>2, <1>3, <1>4, <1>5

\* Between two calls' texts the client gets a reset, unless a call of the turn was
\* left behind: TokenStream and the queue of events keep the order.
THEOREM ResetTheorem == StreamSpec => ResetBetweenCallsUnlessOrphaned
<1> DEFINE IInv == StreamTypeOK /\ Counted /\ Tracked /\ Alone /\ Orderly
           Calm == \A t \in Turn : LET old == shown[t] new == shown'[t] IN
             (old # 0 /\ new # 0 /\ old # new) => (\E c \in orphans : c[1] = t)
<1>1. StreamInit => IInv
  <2> SUFFICES ASSUME StreamInit PROVE Orderly
    BY InitType, InitTracked
  <2>1. ASSUME NEW t \in Turn PROVE InOrder(t)
    <3>1. events[t] = << >> /\ Len(events[t]) = 0 /\ shown[t] = 0
      BY EmptySeq DEF StreamInit
    <3>2. 1..Len(events[t]) = {}
      BY <3>1
    <3>3. QED BY <3>1, <3>2 DEF InOrder
  <2>2. QED BY <2>1 DEF Orderly
<1>2. IInv /\ [StreamNext]_streamVars => IInv'
  BY NextType, NextTracked, NextOrderly
<1>3. IInv /\ [StreamNext]_streamVars => Calm
  BY ScreenStep DEF Patient
<1>4. IInv /\ [StreamNext]_streamVars => [Calm]_streamVars
  BY <1>3
<1> HIDE DEF IInv, Calm
<1>5. StreamSpec => [][Calm]_streamVars
  BY <1>1, <1>2, <1>4, PTL DEF StreamSpec
<1>6. QED BY <1>5 DEF Calm, ResetBetweenCallsUnlessOrphaned
=============================================================================

--------------------------- MODULE AccountsProofs ---------------------------
(* Theorems about Accounts for every number of users, requests and limits. *)
EXTENDS Accounts, FiniteSetTheorems, TLAPS

USE NoUserAssumption, LimitsAssumption, LockAssumption, BoundsAssumption

----------------------------------------------------------------------------
(* The inductive invariant *)

\* Tokens are numbered as they are minted, so no two sessions share one and a
\* new one was never revoked; what the registry holds was minted.
Numbered ==
  /\ IsFiniteSet(minted)
  /\ \A s \in minted : s.token <= Cardinality(minted)
  /\ \A s, m \in minted : s.token = m.token => s = m
  /\ dead \subseteq 1..Cardinality(minted)
  /\ sessions \subseteq minted
  /\ \A u \in User : IsFiniteSet(guesses[u])

\* A copy is no newer than the clock, and what it holds was minted.
CopiesOld == \A r \in Request : copy[r].at <= now /\ copy[r].sessions \subseteq minted

IInv == /\ TypeOK /\ Numbered /\ CopiesOld
        /\ RevokedStaysRevokedUnlessClobbered
        /\ LiveSessionsKeptUnlessClobbered

----------------------------------------------------------------------------
(* What the operators on the registry return *)

LEMMA CleanType == Clean \in Account
BY DEF Clean, Account

LEMMA FailedType ==
  ASSUME NEW a \in Account, now \in Time
  PROVE  Failed(a) \in Account
<1> DEFINE fresh == a.first = 0 \/ now - a.first > Window
           count == (IF fresh THEN 0 ELSE a.count) + 1
           first == IF fresh THEN now ELSE a.first
<1>1. a.count \in 0..(MaxFails - 1) /\ a.first \in 0..MaxTime
      /\ a.until \in 0..(MaxTime + LockFor)
  BY DEF Account
<1>2. count \in 1..MaxFails
  BY <1>1
<1>3. first \in 0..MaxTime /\ now + LockFor \in 0..(MaxTime + LockFor)
  BY <1>1 DEF Time
<1>4. CASE count >= MaxFails
  <2>1. Failed(a) = [count |-> 0, first |-> 0, until |-> now + LockFor]
    BY <1>4 DEF Failed
  <2>2. QED BY <2>1, <1>1, <1>3 DEF Account
<1>5. CASE ~(count >= MaxFails)
  <2>1. Failed(a) = [count |-> count, first |-> first, until |-> a.until]
    BY <1>5 DEF Failed
  <2>2. count \in 0..(MaxFails - 1)
    BY <1>2, <1>5
  <2>3. QED BY <2>1, <2>2, <1>1, <1>3 DEF Account
<1>6. QED BY <1>4, <1>5

\* Minting keeps the numbering and opens a session no one has revoked.
LEMMA MintFacts ==
  ASSUME TypeOK, Numbered, NEW u \in User, NEW kept, kept \subseteq sessions,
         Mint(u, kept)
  PROVE  \E s \in Session :
           /\ s.user = u /\ s.created = now /\ s.token \notin dead
           /\ s.token = Cardinality(minted) + 1
           /\ sessions' = kept \cup {s} /\ minted' = minted \cup {s}
           /\ IsFiniteSet(minted') /\ Cardinality(minted') = Cardinality(minted) + 1
           /\ \A x \in minted' : x.token <= Cardinality(minted')
           /\ \A x, m \in minted' : x.token = m.token => x = m
           /\ sessions' \subseteq minted'
<1> DEFINE s == [token |-> Cardinality(minted) + 1, user |-> u, created |-> now]
<1>1. Cardinality(minted) \in Nat /\ Cardinality(minted) < MaxTokens
  BY FS_CardinalityType DEF Numbered, Mint
<1>2. s \in Session
  BY <1>1 DEF TypeOK, Session
<1>3. s.token \notin dead /\ s \notin minted
  BY <1>1 DEF Numbered
<1>4. sessions' = kept \cup {s} /\ minted' = minted \cup {s}
  BY DEF Mint
<1>5. IsFiniteSet(minted') /\ Cardinality(minted') = Cardinality(minted) + 1
  BY <1>3, <1>4, FS_AddElement DEF Numbered
<1>6. \A x \in minted : x \in Session /\ x.token <= Cardinality(minted)
  BY DEF TypeOK, Numbered
<1>7. \A x \in minted' : x.token <= Cardinality(minted')
  BY <1>1, <1>4, <1>5, <1>6 DEF Session
<1>8. \A x, m \in minted' : x.token = m.token => x = m
  BY <1>1, <1>4, <1>6 DEF Numbered, Session
<1>9. sessions' \subseteq minted'
  BY <1>4 DEF Numbered
<1>10. QED BY <1>2, <1>3, <1>4, <1>5, <1>7, <1>8, <1>9

----------------------------------------------------------------------------
(* Every step keeps the invariant *)

LEMMA InitInv == Init => IInv
<1> SUFFICES ASSUME Init PROVE IInv
  OBVIOUS
<1>1. TypeOK
  <2>1. Unread \in Registry
    BY DEF Unread, Registry
  <2>2. copy \in [Request -> Registry] /\ pc \in [Request -> {"idle", "pruned", "in"}]
        /\ \A r \in Request : pc[r] = "idle"
    BY <2>1 DEF Init
  <2>3. now \in Time /\ users \in [User -> Account \cup {NoUser}]
        /\ guesses \in [User -> SUBSET (Time \X Nat)]
    BY DEF Init, Time
  <2>4. QED BY <2>2, <2>3 DEF Init, TypeOK
<1>2. Numbered
  BY FS_EmptySet DEF Init, Numbered
<1>3. CopiesOld
  BY DEF Init, CopiesOld, Unread
<1>4. RevokedStaysRevokedUnlessClobbered /\ LiveSessionsKeptUnlessClobbered
  BY DEF Init, RevokedStaysRevokedUnlessClobbered, RevokedStaysRevoked,
         LiveSessionsKeptUnlessClobbered
<1>5. QED BY <1>1, <1>2, <1>3, <1>4 DEF IInv

LEMMA OneMore ==
  ASSUME NEW n \in Nat, NEW D, D \subseteq 1..n
  PROVE  D \subseteq 1..(n + 1)
OBVIOUS

LEMMA PrunedFacts ==
  ASSUME NEW set, set \subseteq Session, NEW t \in Nat, now \in Time, t <= now
  PROVE  /\ Pruned(set, t) \subseteq set
         /\ \A s \in set : Live(s, now) => s \in Pruned(set, t)
BY DEF Pruned, Live, Session, Time

\* A request's thread is untouched or done.
ThreadsKeep ==
  /\ pc' \in [Request -> {"idle", "pruned", "in"}]
  /\ copy' \in [Request -> Registry]
  /\ \A r \in Request : pc'[r] # "idle" => copy'[r].who \in User
  /\ \A r \in Request : copy'[r].at <= now /\ copy'[r].sessions \subseteq minted

LEMMA ThreadsUnchanged ==
  ASSUME IInv, UNCHANGED threads
  PROVE  ThreadsKeep
BY DEF IInv, TypeOK, CopiesOld, ThreadsKeep, threads

LEMMA LeaveKeeps ==
  ASSUME IInv, NEW r \in Request, Leave(r)
  PROVE  ThreadsKeep
<1>1. Unread \in Registry /\ Unread.at = 0 /\ Unread.sessions = {}
  BY DEF Unread, Registry
<1>2. now \in Nat
  BY DEF IInv, TypeOK, Time
<1>3. \A q \in Request : pc'[q] # "idle" => q # r /\ pc[q] # "idle"
  BY DEF IInv, TypeOK, Leave
<1>4. \A q \in Request : copy'[q] = IF q = r THEN Unread ELSE copy[q]
  BY DEF IInv, TypeOK, Leave
<1>5. pc' \in [Request -> {"idle", "pruned", "in"}] /\ copy' \in [Request -> Registry]
  BY <1>1 DEF IInv, TypeOK, Leave
<1>6. QED BY <1>1, <1>2, <1>3, <1>4, <1>5 DEF IInv, TypeOK, CopiesOld, ThreadsKeep

\* The operations that mint: D is what they revoke, kept what they keep.
LEMMA MintingInv ==
  ASSUME IInv, NEW u \in User, NEW kept, kept \subseteq sessions, Mint(u, kept),
         NEW D, D \subseteq {s.token : s \in minted}, dead' = dead \cup D,
         \A s \in kept : s.token \notin D,
         \A s \in sessions : Live(s, now) /\ s.token \notin D => s \in kept,
         now' = now, clobbered' = clobbered,
         users' \in [User -> Account \cup {NoUser}],
         guesses' \in [User -> SUBSET (Time \X Nat)],
         \A v \in User : IsFiniteSet(guesses'[v]),
         ThreadsKeep
  PROVE  IInv'
<1>1. TypeOK /\ Numbered
  BY DEF IInv
<1>2. PICK s \in Session :
         /\ s.user = u /\ s.created = now /\ s.token \notin dead
         /\ s.token = Cardinality(minted) + 1
         /\ sessions' = kept \cup {s} /\ minted' = minted \cup {s}
         /\ IsFiniteSet(minted') /\ Cardinality(minted') = Cardinality(minted) + 1
         /\ \A x \in minted' : x.token <= Cardinality(minted')
         /\ \A x, m \in minted' : x.token = m.token => x = m
         /\ sessions' \subseteq minted'
  BY <1>1, MintFacts
<1>3. Cardinality(minted) \in Nat
  BY <1>1, FS_CardinalityType DEF Numbered
<1>4. \A d \in D : d \in 1..Cardinality(minted) /\ d \in 1..MaxTokens
  <2>1. \A x \in minted : x.token \in 1..MaxTokens /\ x.token <= Cardinality(minted)
    BY <1>1 DEF TypeOK, Numbered, Session
  <2>2. QED BY <2>1, <1>3
<1>5. s.token \notin D
  BY <1>2, <1>3, <1>4
<1>6. TypeOK'
  BY <1>1, <1>2, <1>4 DEF TypeOK, ThreadsKeep
<1>7. Numbered'
  <2>1. dead' \subseteq 1..Cardinality(minted)
    BY <1>1, <1>4 DEF Numbered
  <2>2. dead' \subseteq 1..Cardinality(minted')
    BY <1>2, <1>3, <2>1, OneMore
  <2>3. QED BY <1>2, <2>2 DEF Numbered
<1>8. CopiesOld'
  BY <1>2 DEF CopiesOld, ThreadsKeep
<1>9. RevokedStaysRevokedUnlessClobbered'
  BY <1>2, <1>5 DEF IInv, RevokedStaysRevokedUnlessClobbered, RevokedStaysRevoked
<1>10. LiveSessionsKeptUnlessClobbered'
  BY <1>2 DEF IInv, LiveSessionsKeptUnlessClobbered, Live
<1>11. QED BY <1>6, <1>7, <1>8, <1>9, <1>10 DEF IInv

LEMMA SessionsPruned ==
  ASSUME IInv
  PROVE  /\ Pruned(sessions, now) \subseteq sessions
         /\ \A s \in sessions : Live(s, now) => s \in Pruned(sessions, now)
<1>1. sessions \subseteq Session /\ now \in Time /\ now \in Nat
  BY DEF IInv, TypeOK, Time
<1>2. QED BY <1>1, PrunedFacts

LEMMA MintingInv0 ==
  ASSUME IInv, NEW u \in User, NEW kept, kept \subseteq sessions, Mint(u, kept),
         dead' = dead, \A s \in sessions : Live(s, now) => s \in kept,
         now' = now, clobbered' = clobbered,
         users' \in [User -> Account \cup {NoUser}],
         guesses' \in [User -> SUBSET (Time \X Nat)],
         \A v \in User : IsFiniteSet(guesses'[v]),
         ThreadsKeep
  PROVE  IInv'
<1> DEFINE D == {}
<1>1. /\ D \subseteq {s.token : s \in minted} /\ dead' = dead \cup D
      /\ \A s \in kept : s.token \notin D
      /\ \A s \in sessions : Live(s, now) /\ s.token \notin D => s \in kept
  OBVIOUS
<1> HIDE DEF D
<1>2. QED BY <1>1, MintingInv

LEMMA SignupInv ==
  ASSUME IInv, NEW u \in User, Signup(u)
  PROVE  IInv'
<1>1. ThreadsKeep /\ users' \in [User -> Account \cup {NoUser}]
  BY ThreadsUnchanged, CleanType DEF IInv, TypeOK, Signup, threads
<1>2. guesses' \in [User -> SUBSET (Time \X Nat)] /\ \A v \in User : IsFiniteSet(guesses'[v])
  BY DEF IInv, TypeOK, Numbered, Signup
<1>3. Mint(u, Pruned(sessions, now)) /\ now' = now /\ clobbered' = clobbered
      /\ dead' = dead
  BY DEF Signup
<1>4. QED BY <1>1, <1>2, <1>3, SessionsPruned, MintingInv0

LEMMA LoginInv ==
  ASSUME IInv, NEW u \in User, Login(u)
  PROVE  IInv'
<1>1. ThreadsKeep /\ users' \in [User -> Account \cup {NoUser}]
  BY ThreadsUnchanged, CleanType DEF IInv, TypeOK, Login, threads
<1>2. guesses' \in [User -> SUBSET (Time \X Nat)] /\ \A v \in User : IsFiniteSet(guesses'[v])
  BY FS_EmptySet DEF IInv, TypeOK, Numbered, Login
<1>3. Mint(u, Pruned(sessions, now)) /\ now' = now /\ clobbered' = clobbered
      /\ dead' = dead
  BY DEF Login
<1>4. QED BY <1>1, <1>2, <1>3, SessionsPruned, MintingInv0

LEMMA RevokedFacts ==
  ASSUME IInv, NEW u \in User
  PROVE  /\ TokensOf(u) \subseteq {s.token : s \in minted}
         /\ \A s \in sessions \ Revoked(u) : s.token \notin TokensOf(u)
         /\ \A s \in sessions : s.token \notin TokensOf(u) => s \in sessions \ Revoked(u)
BY DEF IInv, Numbered, TokensOf, Revoked

LEMMA ChangePasswordInv ==
  ASSUME IInv, NEW r \in Request, ChangePassword(r)
  PROVE  IInv'
<1> DEFINE u == copy[r].who
<1>1. u \in User
  BY DEF IInv, TypeOK, ChangePassword
<1>2. ThreadsKeep
  BY LeaveKeeps DEF ChangePassword
<1>3. users' \in [User -> Account \cup {NoUser}]
  BY <1>1, CleanType DEF IInv, TypeOK, ChangePassword
<1>4. guesses' \in [User -> SUBSET (Time \X Nat)] /\ \A v \in User : IsFiniteSet(guesses'[v])
  BY <1>1, FS_EmptySet DEF IInv, TypeOK, Numbered, ChangePassword
<1>5. Mint(u, sessions \ Revoked(u)) /\ dead' = dead \cup TokensOf(u)
      /\ now' = now /\ clobbered' = clobbered
  BY DEF ChangePassword
<1> HIDE DEF u
<1>6. QED BY <1>1, <1>2, <1>3, <1>4, <1>5, RevokedFacts, MintingInv

\* The steps that mint nothing: they may revoke D, and keep all live sessions
\* that were not revoked, or they clobber.
LEMMA KeepingInv ==
  ASSUME IInv, UNCHANGED minted,
         NEW D, D \subseteq {s.token : s \in minted}, dead' = dead \cup D,
         sessions' \subseteq minted,
         now' \in Time, now <= now',
         clobbered' \in BOOLEAN, ~clobbered' => ~clobbered,
         ~clobbered' => /\ sessions' \subseteq sessions
                        /\ \A s \in sessions' : s.token \notin D
                        /\ \A s \in sessions : Live(s, now) /\ s.token \notin D => s \in sessions',
         users' \in [User -> Account \cup {NoUser}],
         guesses' \in [User -> SUBSET (Time \X Nat)],
         \A v \in User : IsFiniteSet(guesses'[v]),
         ThreadsKeep
  PROVE  IInv'
<1>1. TypeOK /\ Numbered
  BY DEF IInv
<1>2. now \in Nat /\ now' \in Nat
  BY <1>1 DEF TypeOK, Time
<1>3. \A x \in minted : x \in Session /\ x.token \in 1..MaxTokens /\ x.token <= Cardinality(minted)
  BY <1>1 DEF TypeOK, Numbered, Session
<1>4. Cardinality(minted) \in Nat
  BY <1>1, FS_CardinalityType DEF Numbered
<1>5. \A d \in D : d \in 1..Cardinality(minted) /\ d \in 1..MaxTokens
  BY <1>3, <1>4
<1>6. TypeOK'
  BY <1>1, <1>5 DEF TypeOK, ThreadsKeep
<1>7. Numbered'
  BY <1>1, <1>5 DEF Numbered
<1>8. CopiesOld'
  <2>1. \A r \in Request : copy'[r].at \in Nat
    BY DEF ThreadsKeep, Registry
  <2>2. QED BY <1>2, <2>1 DEF CopiesOld, ThreadsKeep
<1>9. RevokedStaysRevokedUnlessClobbered'
  BY DEF IInv, RevokedStaysRevokedUnlessClobbered, RevokedStaysRevoked
<1>10. LiveSessionsKeptUnlessClobbered'
  <2>1. \A s \in minted : Live(s, now)' => Live(s, now)
    BY <1>2, <1>3 DEF Live, Session, Time
  <2>2. QED BY <2>1 DEF IInv, LiveSessionsKeptUnlessClobbered
<1>11. QED BY <1>6, <1>7, <1>8, <1>9, <1>10 DEF IInv

LEMMA KeepingInv0 ==
  ASSUME IInv, UNCHANGED minted, dead' = dead,
         sessions' \subseteq minted,
         now' \in Time, now <= now',
         clobbered' \in BOOLEAN, ~clobbered' => ~clobbered,
         ~clobbered' => /\ sessions' \subseteq sessions
                        /\ \A s \in sessions : Live(s, now) => s \in sessions',
         users' \in [User -> Account \cup {NoUser}],
         guesses' \in [User -> SUBSET (Time \X Nat)],
         \A v \in User : IsFiniteSet(guesses'[v]),
         ThreadsKeep
  PROVE  IInv'
<1> DEFINE D == {}
<1>1. /\ D \subseteq {s.token : s \in minted} /\ dead' = dead \cup D
      /\ \A s \in sessions' : s.token \notin D
      /\ ~clobbered' => \A s \in sessions : Live(s, now) /\ s.token \notin D => s \in sessions'
  OBVIOUS
<1> HIDE DEF D
<1>2. QED BY <1>1, KeepingInv

LEMMA LoginFailsInv ==
  ASSUME IInv, NEW u \in User, LoginFails(u)
  PROVE  IInv'
<1>1. ThreadsKeep
  BY ThreadsUnchanged DEF LoginFails, threads
<1>2. users[u] \in Account /\ now \in Time
  BY DEF IInv, TypeOK, LoginFails, MayTry, HasAccount
<1>3. users' \in [User -> Account \cup {NoUser}]
  BY <1>2, FailedType DEF IInv, TypeOK, LoginFails
<1>4. Cardinality(guesses[u]) \in Nat /\ IsFiniteSet(guesses[u])
  BY FS_CardinalityType DEF IInv, Numbered
<1>5. guesses' \in [User -> SUBSET (Time \X Nat)]
  BY <1>2, <1>4 DEF IInv, TypeOK, LoginFails
<1>6. \A v \in User : IsFiniteSet(guesses'[v])
  <2>1. guesses' = [guesses EXCEPT ![u] = @ \cup {<<now, Cardinality(@)>>}]
    BY DEF LoginFails
  <2>2. IsFiniteSet(guesses[u] \cup {<<now, Cardinality(guesses[u])>>})
    BY <1>4, FS_AddElement
  <2>3. guesses \in [User -> SUBSET (Time \X Nat)] /\ \A v \in User : IsFiniteSet(guesses[v])
    BY DEF IInv, TypeOK, Numbered
  <2>4. QED BY ONLY <2>1, <2>2, <2>3
<1>7. UNCHANGED <<sessions, now, minted, dead, clobbered>>
  BY DEF LoginFails
<1>8. now <= now' /\ now' \in Time /\ sessions' \subseteq minted /\ clobbered' \in BOOLEAN
  BY <1>2, <1>7 DEF IInv, TypeOK, Numbered, Time
<1>9. QED BY <1>1, <1>3, <1>5, <1>6, <1>7, <1>8, KeepingInv0

LEMMA LogoutInv ==
  ASSUME IInv, NEW t \in 1..MaxTokens, Logout(t)
  PROVE  IInv'
<1> DEFINE mine == {s \in sessions : s.token = t}
           D == {s.token : s \in mine}
<1>1. ThreadsKeep
  BY ThreadsUnchanged DEF Logout, threads
<1>2. now \in Time /\ now \in Nat /\ now' = now /\ sessions \ mine \subseteq Session
  BY DEF IInv, TypeOK, Logout, Time
<1>3. sessions' \subseteq sessions \ mine
      /\ \A s \in sessions \ mine : Live(s, now) => s \in sessions'
  BY <1>2, PrunedFacts DEF Logout
<1>4. dead' = dead \cup D /\ D \subseteq {s.token : s \in minted}
  BY DEF Logout, IInv, Numbered
<1>5. /\ \A s \in sessions' : s.token \notin D
      /\ \A s \in sessions : Live(s, now) /\ s.token \notin D => s \in sessions'
  BY <1>3
<1>6. sessions' \subseteq minted /\ sessions' \subseteq sessions
  BY <1>3 DEF IInv, Numbered
<1>7. UNCHANGED <<minted, users, guesses, clobbered>>
  BY DEF Logout
<1>8. users' \in [User -> Account \cup {NoUser}] /\ clobbered' \in BOOLEAN
      /\ guesses' \in [User -> SUBSET (Time \X Nat)] /\ \A v \in User : IsFiniteSet(guesses'[v])
  BY <1>7 DEF IInv, TypeOK, Numbered
<1> HIDE DEF D
<1>9. QED BY <1>1, <1>2, <1>4, <1>5, <1>6, <1>7, <1>8, KeepingInv

LEMMA LogoutAllInv ==
  ASSUME IInv, NEW r \in Request, LogoutAll(r)
  PROVE  IInv'
<1> DEFINE u == copy[r].who
<1>1. u \in User
  BY DEF IInv, TypeOK, LogoutAll
<1>2. ThreadsKeep
  BY LeaveKeeps DEF LogoutAll
<1>3. now' \in Time /\ now <= now' /\ UNCHANGED <<minted, users, guesses, clobbered>>
  BY DEF IInv, TypeOK, LogoutAll, Time
<1>4. users' \in [User -> Account \cup {NoUser}] /\ clobbered' \in BOOLEAN
      /\ guesses' \in [User -> SUBSET (Time \X Nat)] /\ \A v \in User : IsFiniteSet(guesses'[v])
  BY <1>3 DEF IInv, TypeOK, Numbered
<1>5. sessions' = sessions \ Revoked(u) /\ dead' = dead \cup TokensOf(u)
  BY DEF LogoutAll
<1>6. sessions' \subseteq minted /\ sessions' \subseteq sessions
  BY <1>5 DEF IInv, Numbered
<1> HIDE DEF u
<1>7. QED BY <1>1, <1>2, <1>3, <1>4, <1>5, <1>6, RevokedFacts, KeepingInv

LEMMA VerifyInv ==
  ASSUME IInv, NEW r \in Request, NEW t \in 1..MaxTokens, Verify(r, t)
  PROVE  IInv'
<1>1. PICK s \in sessions :
        copy' = [copy EXCEPT ![r] = [users |-> users, sessions |-> sessions,
                                     at |-> now, who |-> s.user]]
  BY DEF Verify
<1> DEFINE c == [users |-> users, sessions |-> sessions, at |-> now, who |-> s.user]
<1>2. c \in Registry /\ c.who \in User /\ c.at = now /\ c.sessions \subseteq minted /\ now \in Nat
  BY DEF IInv, TypeOK, Numbered, Registry, Session, Time
<1>3. \A q \in Request : copy'[q] = IF q = r THEN c ELSE copy[q]
  BY <1>1 DEF IInv, TypeOK
<1>4. pc' \in [Request -> {"idle", "pruned", "in"}] /\ copy' \in [Request -> Registry]
      /\ \A q \in Request : q # r => pc'[q] = pc[q]
  BY <1>1, <1>2 DEF IInv, TypeOK, Verify
<1> HIDE DEF c
<1>5. ThreadsKeep
  BY <1>2, <1>3, <1>4 DEF IInv, TypeOK, CopiesOld, ThreadsKeep
<1>6. UNCHANGED <<users, sessions, now, minted, dead, guesses, clobbered>>
  BY DEF Verify, registry, history
<1>7. now <= now' /\ now' \in Time /\ sessions' \subseteq minted /\ clobbered' \in BOOLEAN
  BY <1>6 DEF IInv, TypeOK, Numbered, Time
<1>8. users' \in [User -> Account \cup {NoUser}]
      /\ guesses' \in [User -> SUBSET (Time \X Nat)] /\ \A v \in User : IsFiniteSet(guesses'[v])
  BY <1>6 DEF IInv, TypeOK, Numbered
<1>9. QED BY <1>5, <1>6, <1>7, <1>8, KeepingInv0

LEMMA SavePrunedInv ==
  ASSUME IInv, NEW r \in Request, SavePruned(r)
  PROVE  IInv'
<1> DEFINE c == copy[r]
<1>1. c \in Registry /\ c.at <= now /\ c.sessions \subseteq minted
  BY DEF IInv, TypeOK, CopiesOld
<1>2. c.users \in [User -> Account \cup {NoUser}] /\ c.sessions \subseteq Session
      /\ c.at \in Nat /\ c.who \in User \cup {NoUser} /\ now \in Time /\ now \in Nat
  BY <1>1 DEF Registry, IInv, TypeOK, Time
<1>3. Pruned(c.sessions, c.at) \subseteq c.sessions
      /\ \A s \in c.sessions : Live(s, now) => s \in Pruned(c.sessions, c.at)
  BY <1>1, <1>2, PrunedFacts
<1>4. /\ UNCHANGED <<now, minted, dead, guesses, copy>>
      /\ guesses' \in [User -> SUBSET (Time \X Nat)]
      /\ \A v \in User : IsFiniteSet(guesses'[v])
  BY DEF SavePruned, IInv, TypeOK, Numbered
<1>5. ThreadsKeep
  BY <1>1 DEF SavePruned, IInv, TypeOK, CopiesOld, ThreadsKeep
<1>6. CASE /\ users' = c.users
           /\ sessions' = Pruned(c.sessions, c.at)
           /\ clobbered' = (clobbered \/ registry # <<c.users, c.sessions>>)
  <2>1. clobbered' \in BOOLEAN /\ (~clobbered' => ~clobbered /\ sessions = c.sessions)
    BY <1>6 DEF registry, IInv, TypeOK
  <2>2. sessions' \subseteq minted
    BY <1>1, <1>3, <1>6
  <2>3. ~clobbered' => /\ sessions' \subseteq sessions
                       /\ \A s \in sessions : Live(s, now) => s \in sessions'
    BY <1>3, <1>6, <2>1
  <2>4. users' \in [User -> Account \cup {NoUser}]
    BY <1>2, <1>6
  <2> HIDE DEF c
  <2>5. QED BY <1>2, <1>4, <1>5, <2>1, <2>2, <2>3, <2>4, KeepingInv0
<1>7. CASE UNCHANGED <<registry, clobbered>>
  <2>1. /\ sessions' = sessions /\ users' = users /\ clobbered' = clobbered
    BY <1>7 DEF registry
  <2>2. /\ sessions' \subseteq minted /\ clobbered' \in BOOLEAN
        /\ users' \in [User -> Account \cup {NoUser}]
    BY <2>1 DEF IInv, TypeOK, Numbered
  <2> HIDE DEF c
  <2>3. QED BY <1>2, <1>4, <1>5, <2>1, <2>2, KeepingInv0
<1>8. QED BY <1>6, <1>7 DEF SavePruned

LEMMA OtherRequestInv ==
  ASSUME IInv, NEW r \in Request, OtherRequest(r)
  PROVE  IInv'
<1>1. ThreadsKeep
  BY LeaveKeeps DEF OtherRequest
<1>2. UNCHANGED <<users, sessions, now, minted, dead, guesses, clobbered>>
  BY DEF OtherRequest, registry, history
<1>3. /\ sessions' \subseteq minted /\ clobbered' \in BOOLEAN
      /\ users' \in [User -> Account \cup {NoUser}] /\ now \in Time /\ now \in Nat
      /\ guesses' \in [User -> SUBSET (Time \X Nat)]
      /\ \A v \in User : IsFiniteSet(guesses'[v])
  BY <1>2 DEF IInv, TypeOK, Numbered, Time
<1>4. QED BY <1>1, <1>2, <1>3, KeepingInv0

LEMMA TickInv ==
  ASSUME IInv, Tick
  PROVE  IInv'
<1>1. now \in 1..MaxTime /\ now' = now + 1 /\ now' \in Time /\ now <= now'
  BY DEF IInv, TypeOK, Tick, Time
<1>2. UNCHANGED <<users, sessions, minted, dead, clobbered, pc, copy>>
  BY DEF Tick, registry, threads
<1>3. ThreadsKeep
  BY <1>2, ThreadsUnchanged DEF threads
<1>4. /\ sessions' \subseteq minted /\ clobbered' \in BOOLEAN
      /\ users' \in [User -> Account \cup {NoUser}]
  BY <1>2 DEF IInv, TypeOK, Numbered
<1>5. \A v \in User : guesses'[v] \subseteq guesses[v]
  BY DEF Tick
<1>6. guesses' \in [User -> SUBSET (Time \X Nat)]
  BY DEF Tick, IInv, TypeOK
<1>7. \A v \in User : IsFiniteSet(guesses'[v])
  BY <1>5, FS_Subset DEF IInv, Numbered
<1>8. QED BY <1>1, <1>2, <1>3, <1>4, <1>6, <1>7, KeepingInv0

LEMMA StutterInv ==
  ASSUME IInv, UNCHANGED vars
  PROVE  IInv'
BY DEF IInv, TypeOK, Numbered, CopiesOld, RevokedStaysRevokedUnlessClobbered,
       RevokedStaysRevoked, LiveSessionsKeptUnlessClobbered, vars, registry, history, threads

LEMMA NextInv ==
  ASSUME IInv, [Next]_vars
  PROVE  IInv'
BY SignupInv, LoginInv, LoginFailsInv, LogoutInv, VerifyInv, ChangePasswordInv,
   SavePrunedInv, LogoutAllInv, OtherRequestInv, TickInv, StutterInv DEF Next

LEMMA Invariance == Spec => []IInv
<1>1. QED BY InitInv, NextInv, PTL DEF Spec

----------------------------------------------------------------------------
(* Theorems *)

\* The registry, every copy of it and the history keep their shape, whatever
\* requests interleave.
THEOREM TypeCorrect == Spec => []TypeOK
<1>1. IInv => TypeOK
  BY DEF IInv
<1>2. QED BY <1>1, Invariance, PTL

\* Until a verification saves a stale copy, a session that was logged out or
\* died with a password change opens nothing again.
THEOREM RevocationTheorem == Spec => []RevokedStaysRevokedUnlessClobbered
<1>1. IInv => RevokedStaysRevokedUnlessClobbered
  BY DEF IInv
<1>2. QED BY <1>1, Invariance, PTL

\* And no session is lost before its lifetime ends or its owner revokes it.
THEOREM LiveSessionsTheorem == Spec => []LiveSessionsKeptUnlessClobbered
<1>1. IInv => LiveSessionsKeptUnlessClobbered
  BY DEF IInv
<1>2. QED BY <1>1, Invariance, PTL

----------------------------------------------------------------------------
(* Wrong passwords *)

USE AccountAssumption

MostGuesses == IF MaxFails = 1 THEN 1 ELSE 2 * MaxFails - 2

Before(G, t) == {g \in G : g[1] < t}
From(G, t) == {g \in G : g[1] >= t}
After(G, t) == {g \in G : g[1] > t}

\* Nobody guessed at an account in the window, or the guesses ended in a lock
\* that outlasts them all.
Locked(a, G) ==
  \/ G = {}
  \/ Cardinality(G) <= MostGuesses /\ \A g \in G : g[1] + LockFor <= a.until

\* The failures from the anchor on are counted: the anchor's own is one of
\* them, and at most all but two of an earlier count are still in the window.
Counting(a, G) ==
  /\ a.count >= 1 /\ \A g \in G : g[1] <= a.first + Window
  /\ Cardinality(Before(G, a.first)) <= MaxFails - 2
  /\ Cardinality(From(G, a.first)) <= a.count
  /\ Cardinality(After(G, a.first)) <= a.count - 1

\* What the guesses of a user within the window say of the account.
Tally(a, G) ==
  IF a = NoUser THEN G = {}
  ELSE IF a.first = 0 THEN a.count = 0 /\ Locked(a, G) ELSE Counting(a, G)

InWindow(G, t) == \A g \in G : g[1] <= t /\ t - g[1] < Window

Anchored(a, t) == a = NoUser \/ a.first <= t

\* The inductive invariant: until a save clobbers, every account tells of its
\* guesses.
GuessInv ==
  /\ IInv
  /\ \A u \in User : InWindow(guesses[u], now)
  /\ clobbered \/ \A u \in User : Tally(users[u], guesses[u]) /\ Anchored(users[u], now)

LEMMA PartsFinite ==
  ASSUME NEW G, IsFiniteSet(G), NEW t
  PROVE  /\ IsFiniteSet(Before(G, t)) /\ Cardinality(Before(G, t)) \in Nat
         /\ IsFiniteSet(From(G, t)) /\ Cardinality(From(G, t)) \in Nat
         /\ IsFiniteSet(After(G, t)) /\ Cardinality(After(G, t)) \in Nat
         /\ Cardinality(G) \in Nat
<1>1. Before(G, t) \in SUBSET G /\ From(G, t) \in SUBSET G /\ After(G, t) \in SUBSET G
  BY DEF Before, From, After
<1>2. IsFiniteSet(Before(G, t)) /\ IsFiniteSet(From(G, t)) /\ IsFiniteSet(After(G, t))
  BY <1>1, FS_Subset
<1>3. QED BY <1>2, FS_CardinalityType

LEMMA FewerBelow ==
  ASSUME NEW S, IsFiniteSet(S), NEW T \in SUBSET S, NEW n \in Int, Cardinality(S) <= n
  PROVE  IsFiniteSet(T) /\ Cardinality(T) <= n
<1>1. IsFiniteSet(T) /\ Cardinality(T) <= Cardinality(S)
  BY FS_Subset
<1>2. Cardinality(S) \in Nat /\ Cardinality(T) \in Nat
  BY <1>1, FS_CardinalityType
<1>3. QED BY <1>1, <1>2

LEMMA OneMoreBelow ==
  ASSUME NEW S, IsFiniteSet(S), NEW x, NEW n \in Int, Cardinality(S) <= n
  PROVE  Cardinality(S \cup {x}) <= n + 1
<1>1. Cardinality(S \cup {x}) = Cardinality(S) \/ Cardinality(S \cup {x}) = Cardinality(S) + 1
  BY FS_AddElement
<1>2. Cardinality(S) \in Nat
  BY FS_CardinalityType
<1>3. QED BY <1>1, <1>2

\* The guesses are those before the anchor and those from it on.
LEMMA PartsAdd ==
  ASSUME NEW G \in SUBSET (Time \X Nat), IsFiniteSet(G), NEW t \in Nat, NEW m \in Int, NEW n \in Int,
         Cardinality(Before(G, t)) <= m, Cardinality(From(G, t)) <= n
  PROVE  Cardinality(G) <= m + n
<1>1. G = Before(G, t) \cup From(G, t)
  <2>1. \A g \in G : g[1] \in Nat
    BY DEF Time
  <2>2. QED BY <2>1 DEF Before, From
<1>2. Cardinality(G) = Cardinality(Before(G, t)) + Cardinality(From(G, t))
                       - Cardinality(Before(G, t) \cap From(G, t))
  BY <1>1, PartsFinite, FS_Union
<1>3. Before(G, t) \cap From(G, t) \in SUBSET Before(G, t)
  OBVIOUS
<1>4. Cardinality(Before(G, t) \cap From(G, t)) \in Nat
  BY <1>3, PartsFinite, FS_Subset, FS_CardinalityType
<1> DEFINE b == Cardinality(Before(G, t))
           f == Cardinality(From(G, t))
           k == Cardinality(Before(G, t) \cap From(G, t))
<1>5. b \in Nat /\ f \in Nat /\ k \in Nat /\ b <= m /\ f <= n /\ Cardinality(G) = b + f - k
  BY <1>2, <1>4, PartsFinite
<1> HIDE DEF b, f, k
<1>6. QED BY <1>5

\* A failed attempt on an account that is not locked, at time now.
LEMMA TallyFails ==
  ASSUME now \in Time, NEW a \in Account, a.until <= now, Anchored(a, now),
         NEW G \in SUBSET (Time \X Nat), IsFiniteSet(G), InWindow(G, now), Tally(a, G),
         NEW n \in Nat
  PROVE  Tally(Failed(a), G \cup {<<now, n>>}) /\ Anchored(Failed(a), now)
<1> DEFINE fresh == a.first = 0 \/ now - a.first > Window
           count == (IF fresh THEN 0 ELSE a.count) + 1
           first == IF fresh THEN now ELSE a.first
           g0 == <<now, n>>
           H == G \cup {g0}
<1>1. /\ a.count \in 0..(MaxFails - 1) /\ a.first \in 0..MaxTime /\ a.until \in 0..(MaxTime + LockFor)
      /\ now \in Nat /\ now >= 1 /\ now \in 1..MaxTime
  BY DEF Account, Time
<1>2. a # NoUser /\ Failed(a) \in Account /\ Failed(a) # NoUser
  BY FailedType
<1>3. \A g \in G : g[1] \in Nat /\ g[1] <= now /\ now - g[1] < Window
  BY DEF Time, InWindow
<1>4. \A h \in H : h \in G \/ (h = g0 /\ h[1] = now)
  OBVIOUS
<1>5. count >= MaxFails => Failed(a) = [count |-> 0, first |-> 0, until |-> now + LockFor]
  BY DEF Failed
<1>6. ~(count >= MaxFails) => Failed(a) = [count |-> count, first |-> first, until |-> a.until]
  BY DEF Failed
<1>7. count \in Nat /\ first \in 1..MaxTime /\ first <= now
  BY <1>1, <1>2 DEF Anchored
\* Before the attempt: what is in the window, and how much of it is counted.
<1>8. ASSUME fresh
      PROVE  Cardinality(G) <= (IF MaxFails = 1 THEN 0 ELSE MaxFails - 2) /\ \A g \in G : g[1] < now
  <2>1. CASE a.first = 0
    <3>1. Locked(a, G)
      BY <1>2, <2>1 DEF Tally
    <3>2. \A g \in G : ~(g[1] + LockFor <= a.until)
      BY <1>1, <1>3
    <3>3. G = {}
      BY <3>1, <3>2 DEF Locked
    <3>4. QED BY <3>3, FS_EmptySet
  <2>2. CASE a.first # 0
    <3>1. Counting(a, G)
      BY <1>2, <2>2 DEF Tally
    <3>2. \A g \in G : g[1] > a.first
      BY <1>1, <1>3, <1>8, <2>2
    <3>3. After(G, a.first) = G
      BY <3>2 DEF After
    <3>4. a.count >= 1 /\ Cardinality(G) <= a.count - 1
      BY <3>1, <3>3 DEF Counting
    <3>5. Cardinality(G) \in Nat
      BY FS_CardinalityType
    <3>6. \A g \in G : g[1] < now
      BY <1>1, <1>3, <1>8, <2>2, <3>1 DEF Counting
    <3>7. QED BY <1>1, <3>4, <3>5, <3>6
  <2>3. QED BY <2>1, <2>2
<1>9. ASSUME ~fresh
      PROVE  Counting(a, G) /\ MaxFails >= 2 /\ a.first >= 1 /\ now <= a.first + Window
  BY <1>1, <1>2, <1>9 DEF Tally, Counting
<1>10. ASSUME count >= MaxFails PROVE Tally(Failed(a), G \cup {<<now, n>>})
  <2>1. Failed(a).first = 0 /\ Failed(a).count = 0 /\ Failed(a).until = now + LockFor
    BY <1>5, <1>10
  <2>2. \A h \in H : h[1] + LockFor <= now + LockFor
    BY <1>1, <1>3, <1>4
  <2>3. Cardinality(H) <= MostGuesses
    <3>1. CASE fresh
      <4>1. Cardinality(H) <= (IF MaxFails = 1 THEN 0 ELSE MaxFails - 2) + 1
        <5> DEFINE k == IF MaxFails = 1 THEN 0 ELSE MaxFails - 2
        <5>1. k \in Int /\ Cardinality(G) <= k
          BY <1>8, <3>1
        <5> HIDE DEF k
        <5>2. Cardinality(H) <= k + 1
          BY <5>1, OneMoreBelow
        <5>3. QED BY <5>2 DEF k
      <4>2. Cardinality(H) \in Nat
        BY FS_AddElement, FS_CardinalityType
      <4> HIDE DEF H
      <4>3. QED BY <4>1, <4>2 DEF MostGuesses
    <3>2. CASE ~fresh
      <4>1. Counting(a, G) /\ MaxFails >= 2 /\ a.count = MaxFails - 1 /\ a.first \in Nat
        BY <1>1, <1>9, <1>10, <3>2
      <4>2. Cardinality(G) <= (MaxFails - 2) + (MaxFails - 1)
        BY <4>1, PartsAdd DEF Counting
      <4> DEFINE k == (MaxFails - 2) + (MaxFails - 1)
      <4>3. k \in Int /\ Cardinality(G) <= k
        BY <4>2
      <4> HIDE DEF k
      <4>4. Cardinality(H) <= k + 1
        BY <4>3, OneMoreBelow
      <4>5. Cardinality(H) \in Nat
        BY FS_AddElement, FS_CardinalityType
      <4> HIDE DEF H
      <4>6. QED BY <4>1, <4>4, <4>5 DEF MostGuesses, k
    <3>3. QED BY <3>1, <3>2
  <2> DEFINE b == Failed(a)
  <2> HIDE DEF H, b
  <2>4. b.until = now + LockFor /\ b # NoUser /\ b.first = 0 /\ b.count = 0
    BY <1>2, <2>1 DEF b
  <2>5. Locked(b, H)
    BY <2>2, <2>3, <2>4 DEF Locked
  <2>6. Tally(b, H)
    BY <2>4, <2>5 DEF Tally
  <2>7. QED BY <2>6 DEF b, H
<1>11. ASSUME ~(count >= MaxFails) PROVE Tally(Failed(a), G \cup {<<now, n>>})
  <2>1. Failed(a).first = first /\ Failed(a).count = count
    BY <1>6, <1>11
  <2>2. Counting(Failed(a), H)
    <3>1. CASE fresh
      <4>1. first = now /\ count = 1 /\ MaxFails >= 2
        BY <1>1, <1>11, <3>1
      <4>2. \A h \in H : h[1] <= now + Window
        BY <1>1, <1>3, <1>4
      <4>3. Before(H, now) \in SUBSET G
        BY <1>1, <1>4 DEF Before
      <4>4. Cardinality(G) <= MaxFails - 2 /\ MaxFails - 2 \in Int
        BY <1>8, <3>1, <4>1
      <4>5. Cardinality(Before(H, now)) <= MaxFails - 2
        BY <4>3, <4>4, FewerBelow
      <4>6. From(H, now) = {g0} /\ After(H, now) = {}
        BY <1>1, <1>3, <1>8, <3>1 DEF From, After
      <4>7. Cardinality(From(H, now)) = 1 /\ Cardinality(After(H, now)) = 0
        BY <4>6, FS_Singleton, FS_EmptySet
      <4> HIDE DEF H, first, count
      <4>8. QED BY <2>1, <4>1, <4>2, <4>5, <4>7 DEF Counting
    <3>2. CASE ~fresh
      <4>1. /\ Counting(a, G) /\ first = a.first /\ count = a.count + 1
            /\ a.first \in Nat /\ now <= a.first + Window /\ a.first <= now
            /\ a.count \in Int /\ a.count - 1 \in Int
        BY <1>1, <1>7, <1>9, <3>2
      <4>2. \A h \in H : h[1] <= a.first + Window
        BY <1>4, <4>1 DEF Counting
      <4>3. Before(H, a.first) = Before(G, a.first)
        BY <1>1, <1>4, <4>1 DEF Before
      <4>4. From(H, a.first) = From(G, a.first) \cup {g0}
        BY <1>1, <1>4, <4>1 DEF From
      <4>5. After(H, a.first) \in SUBSET (After(G, a.first) \cup {g0})
        BY <1>4 DEF After
      <4>6. Cardinality(From(H, a.first)) <= a.count + 1
        BY <4>1, <4>4, PartsFinite, OneMoreBelow DEF Counting
      <4>7. /\ IsFiniteSet(After(G, a.first) \cup {g0})
            /\ Cardinality(After(G, a.first) \cup {g0}) <= (a.count - 1) + 1
        <5> DEFINE A == After(G, a.first)
                   k == a.count - 1
        <5>1. IsFiniteSet(A) /\ k \in Int /\ Cardinality(A) <= k
          BY <4>1, PartsFinite DEF Counting
        <5> HIDE DEF A, k
        <5>2. Cardinality(A \cup {g0}) <= k + 1
          BY <5>1, OneMoreBelow
        <5>3. IsFiniteSet(A \cup {g0})
          BY <5>1, FS_AddElement
        <5>4. QED BY <5>2, <5>3 DEF A, k
      <4>8. Cardinality(After(H, a.first)) <= (a.count - 1) + 1
        <5> DEFINE B == After(G, a.first) \cup {g0}
                   C == After(H, a.first)
                   k == (a.count - 1) + 1
        <5>1. IsFiniteSet(B) /\ Cardinality(B) <= k
          BY ONLY <4>7
        <5>2. k \in Int /\ C \in SUBSET B
          <6>1. k \in Int
            BY <4>1
          <6>2. C \in SUBSET B
            BY ONLY <4>5
          <6>3. QED BY <6>1, <6>2
        <5> HIDE DEF B, C, k
        <5>3. Cardinality(C) <= k
          BY <5>1, <5>2, FewerBelow
        <5>4. QED BY <5>3 DEF C, k
      <4>9. Cardinality(After(H, a.first)) \in Nat
        BY PartsFinite, FS_AddElement
      <4> HIDE DEF H, first, count
      <4>10. a.count + 1 >= 1 /\ Cardinality(After(H, a.first)) <= (a.count + 1) - 1
        BY <1>1, <4>8, <4>9
      <4>11. QED BY <2>1, <4>1, <4>2, <4>3, <4>6, <4>10 DEF Counting
    <3>3. QED BY <3>1, <3>2
  <2>3. Failed(a).first # 0
    BY <1>7, <2>1
  <2> DEFINE b == Failed(a)
  <2> HIDE DEF H, b
  <2>4. b # NoUser /\ b.first # 0 /\ Counting(b, H)
    BY <1>2, <2>2, <2>3 DEF b
  <2>5. Tally(b, H)
    BY <2>4 DEF Tally
  <2>6. QED BY <2>5 DEF b, H
<1>12. Anchored(Failed(a), now)
  BY <1>1, <1>5, <1>6, <1>7 DEF Anchored
<1>13. QED BY <1>10, <1>11, <1>12

LEMMA TallyFewer ==
  ASSUME NEW a \in Account \cup {NoUser}, NEW G, IsFiniteSet(G), NEW H \in SUBSET G, Tally(a, G)
  PROVE  Tally(a, H)
<1>1. CASE a = NoUser
  BY <1>1 DEF Tally
<1>2. CASE a # NoUser /\ a.first = 0
  <2>1. a.count = 0 /\ Locked(a, G)
    BY <1>2 DEF Tally
  <2>2. CASE G = {}
    BY <1>2, <2>1, <2>2 DEF Tally, Locked
  <2>3. CASE G # {}
    <3>1. MostGuesses \in Int /\ Cardinality(G) <= MostGuesses /\ \A g \in G : g[1] + LockFor <= a.until
      BY <2>1, <2>3 DEF Locked, MostGuesses
    <3>2. Cardinality(H) <= MostGuesses
      BY <3>1, FewerBelow
    <3>3. QED BY <1>2, <2>1, <3>1, <3>2 DEF Tally, Locked
  <2>4. QED BY <2>2, <2>3
<1>3. CASE a # NoUser /\ a.first # 0
  <2>1. Counting(a, G) /\ a.count \in Int /\ a.count - 1 \in Int /\ MaxFails - 2 \in Int
    BY <1>3 DEF Tally, Account
  <2>2. /\ Before(H, a.first) \in SUBSET Before(G, a.first)
        /\ From(H, a.first) \in SUBSET From(G, a.first)
        /\ After(H, a.first) \in SUBSET After(G, a.first)
    BY DEF Before, From, After
  <2>3. Cardinality(Before(H, a.first)) <= MaxFails - 2
    BY <2>1, <2>2, PartsFinite, FewerBelow DEF Counting
  <2>4. Cardinality(From(H, a.first)) <= a.count
    BY <2>1, <2>2, PartsFinite, FewerBelow DEF Counting
  <2>5. Cardinality(After(H, a.first)) <= a.count - 1
    BY <2>1, <2>2, PartsFinite, FewerBelow DEF Counting
  <2>6. QED BY <1>3, <2>1, <2>3, <2>4, <2>5 DEF Tally, Counting
<1>4. QED BY <1>1, <1>2, <1>3

LEMMA TallyClean == Clean # NoUser /\ Tally(Clean, {})
<1>1. Clean \in Account
  BY CleanType
<1>2. QED BY <1>1 DEF Tally, Locked, Clean

\* What the invariant bounds.
LEMMA TallyBounds ==
  ASSUME NEW a \in Account \cup {NoUser}, NEW G \in SUBSET (Time \X Nat), IsFiniteSet(G), Tally(a, G)
  PROVE  Cardinality(G) <= MostGuesses
<1>1. 0 <= MostGuesses /\ Cardinality({}) = 0
  BY FS_EmptySet DEF MostGuesses
<1>2. CASE G = {}
  BY <1>1, <1>2
<1>3. CASE G # {}
  <2>1. CASE a.first = 0
    BY <1>3, <2>1 DEF Tally, Locked
  <2>2. CASE a.first # 0
    <3>1. Counting(a, G) /\ a.count \in 0..(MaxFails - 1) /\ a.first \in Nat
      BY <1>3, <2>2 DEF Tally, Account
    <3>2. MaxFails - 2 \in Int /\ MaxFails - 1 \in Int /\ a.count \in Int
      BY <3>1
    <3>3. Cardinality(G) <= (MaxFails - 2) + a.count
      BY <3>1, <3>2, PartsAdd DEF Counting
    <3>4. a.count >= 1
      BY <3>1 DEF Counting
    <3>5. Cardinality(G) \in Nat
      BY FS_CardinalityType
    <3>6. QED BY <3>1, <3>3, <3>4, <3>5 DEF MostGuesses
  <2>3. QED BY <2>1, <2>2
<1>4. QED BY <1>2, <1>3

LEMMA GuessInit == Init => GuessInv
<1> SUFFICES ASSUME Init PROVE GuessInv
  OBVIOUS
<1>1. IInv
  BY InitInv
<1>2. \A u \in User : guesses[u] = {} /\ users[u] = NoUser
  BY DEF Init
<1>3. QED BY <1>1, <1>2 DEF GuessInv, InWindow, Tally, Anchored

\* A step that forgets the guesses at an account and its failures.
LEMMA CleanGuesses ==
  ASSUME GuessInv, IInv', NEW u \in User, UNCHANGED <<now, clobbered>>,
         users' = [users EXCEPT ![u] = Clean],
         \/ guesses' = [guesses EXCEPT ![u] = {}]
         \/ guesses' = guesses /\ users[u] = NoUser
  PROVE  GuessInv'
<1>1. TypeOK
  BY DEF GuessInv, IInv
<1>2. \A v \in User : v # u => users'[v] = users[v] /\ guesses'[v] = guesses[v]
  BY <1>1 DEF TypeOK
<1>3. users'[u] = Clean
  BY <1>1 DEF TypeOK
<1>4. guesses'[u] = {} \/ guesses'[u] = guesses[u]
  BY <1>1 DEF TypeOK
<1>5. \A v \in User : InWindow(guesses'[v], now)
  BY <1>2, <1>4 DEF GuessInv, InWindow
<1>6. ASSUME ~clobbered PROVE guesses'[u] = {}
  BY <1>1, <1>6 DEF TypeOK, GuessInv, Tally
<1>7. ASSUME ~clobbered, NEW v \in User PROVE Tally(users'[v], guesses'[v]) /\ Anchored(users'[v], now)
  <2>1. Clean.first = 0 /\ now \in Nat
    BY <1>1 DEF Clean, TypeOK, Time
  <2>2. CASE v = u
    <3>1. users'[v] = Clean /\ guesses'[v] = {} /\ Tally(Clean, {})
      BY <1>3, <1>6, <1>7, <2>2, TallyClean
    <3>2. Anchored(Clean, now)
      BY <2>1 DEF Anchored
    <3>3. QED BY <3>1, <3>2
  <2>3. CASE v # u
    BY <1>2, <1>7, <2>3 DEF GuessInv
  <2>4. QED BY <2>2, <2>3
<1>8. QED BY <1>5, <1>7 DEF GuessInv

LEMMA SameGuesses ==
  ASSUME GuessInv, IInv', UNCHANGED <<users, guesses, now>>, ~clobbered' => ~clobbered
  PROVE  GuessInv'
BY DEF GuessInv

LEMMA FailGuesses ==
  ASSUME GuessInv, IInv', NEW u \in User, LoginFails(u)
  PROVE  GuessInv'
<1> DEFINE n == Cardinality(guesses[u])
<1>1. TypeOK /\ IsFiniteSet(guesses[u]) /\ now \in Nat /\ now \in Time
  BY DEF GuessInv, IInv, Numbered, TypeOK, Time
<1>2. n \in Nat
  BY <1>1, FS_CardinalityType
<1>3. /\ users[u] \in Account /\ users[u].until <= now
      /\ guesses[u] \in SUBSET (Time \X Nat)
  BY <1>1 DEF TypeOK, LoginFails, MayTry, HasAccount
<1>4. /\ users'[u] = Failed(users[u])
      /\ guesses'[u] = guesses[u] \cup {<<now, n>>}
      /\ \A v \in User : v # u => users'[v] = users[v] /\ guesses'[v] = guesses[v]
      /\ now' = now /\ clobbered' = clobbered
  BY <1>1 DEF TypeOK, LoginFails
<1> HIDE DEF n
<1>5. ASSUME NEW v \in User PROVE InWindow(guesses'[v], now)
  BY <1>1, <1>4 DEF GuessInv, InWindow
<1>6. ASSUME ~clobbered PROVE Tally(users'[u], guesses'[u]) /\ Anchored(users'[u], now)
  <2>1. Tally(users[u], guesses[u]) /\ InWindow(guesses[u], now) /\ Anchored(users[u], now)
    BY <1>6 DEF GuessInv
  <2>2. QED BY <1>1, <1>2, <1>3, <1>4, <2>1, TallyFails
<1>7. ASSUME ~clobbered, NEW v \in User PROVE Tally(users'[v], guesses'[v]) /\ Anchored(users'[v], now)
  BY <1>4, <1>6, <1>7 DEF GuessInv
<1>8. QED BY <1>4, <1>5, <1>7 DEF GuessInv

LEMMA TickGuesses ==
  ASSUME GuessInv, IInv', Tick
  PROVE  GuessInv'
<1>1. TypeOK /\ now \in Nat /\ now' = now + 1 /\ users' = users /\ clobbered' = clobbered
  BY DEF GuessInv, IInv, TypeOK, Time, Tick, registry
<1>2. \A v \in User : guesses'[v] = {g \in guesses[v] : now' - g[1] < Window}
  BY DEF Tick
<1>3. ASSUME NEW v \in User PROVE InWindow(guesses'[v], now')
  <2>1. \A g \in guesses[v] : g[1] \in Nat /\ g[1] <= now
    BY <1>1 DEF TypeOK, Time, GuessInv, InWindow
  <2>2. QED BY <1>1, <1>2, <2>1 DEF InWindow
<1>4. ASSUME ~clobbered, NEW v \in User
      PROVE  Tally(users'[v], guesses'[v]) /\ Anchored(users'[v], now')
  <2>1. /\ users[v] \in Account \cup {NoUser} /\ IsFiniteSet(guesses[v])
        /\ Tally(users[v], guesses[v]) /\ Anchored(users[v], now)
    BY <1>1, <1>4 DEF TypeOK, GuessInv, IInv, Numbered
  <2>2. guesses'[v] \in SUBSET guesses[v]
    BY <1>2
  <2>3. Anchored(users[v], now')
    BY <1>1, <2>1 DEF Anchored, Account
  <2>4. QED BY <1>1, <2>1, <2>2, <2>3, TallyFewer
<1>5. QED BY <1>1, <1>3, <1>4 DEF GuessInv

LEMMA GuessStep ==
  ASSUME GuessInv, [Next]_vars
  PROVE  GuessInv'
<1>1. IInv' /\ TypeOK
  BY NextInv DEF GuessInv, IInv
<1>2. CASE \E u \in User : Signup(u)
  <2>1. PICK u \in User : Signup(u)
    BY <1>2
  <2>2. /\ users' = [users EXCEPT ![u] = Clean] /\ guesses' = guesses
        /\ users[u] = NoUser /\ UNCHANGED <<now, clobbered>>
    BY <2>1 DEF Signup, HasAccount
  <2>3. QED BY <1>1, <2>2, CleanGuesses
<1>3. CASE \E u \in User : Login(u)
  BY <1>1, <1>3, CleanGuesses DEF Login
<1>4. CASE \E u \in User : LoginFails(u)
  BY <1>1, <1>4, FailGuesses
<1>5. CASE \E t \in 1..MaxTokens : Logout(t)
  BY <1>1, <1>5, SameGuesses DEF Logout
<1>6. CASE \E r \in Request, t \in 1..MaxTokens : Verify(r, t)
  BY <1>1, <1>6, SameGuesses DEF Verify, registry, history
<1>7. CASE \E r \in Request : SavePruned(r)
  <2>1. PICK r \in Request : SavePruned(r)
    BY <1>7
  <2>2. UNCHANGED <<guesses, now>>
    BY <2>1 DEF SavePruned
  <2>3. CASE UNCHANGED <<registry, clobbered>>
    BY <1>1, <2>2, <2>3, SameGuesses DEF registry
  <2>4. CASE clobbered'
    BY <1>1, <2>2, <2>4 DEF GuessInv
  <2>5. CASE /\ users' = copy[r].users /\ ~clobbered'
             /\ clobbered' = (clobbered \/ registry # <<copy[r].users, copy[r].sessions>>)
    <3>1. users' = users /\ ~clobbered
      BY <2>5 DEF registry
    <3>2. QED BY <1>1, <2>2, <3>1, SameGuesses
  <2>6. QED BY <2>1, <2>3, <2>4, <2>5 DEF SavePruned
<1>8. CASE \E r \in Request : ChangePassword(r)
  <2>1. PICK r \in Request : ChangePassword(r)
    BY <1>8
  <2>2. copy[r].who \in User
    BY <1>1, <2>1 DEF TypeOK, ChangePassword
  <2>3. /\ users' = [users EXCEPT ![copy[r].who] = Clean]
        /\ guesses' = [guesses EXCEPT ![copy[r].who] = {}] /\ UNCHANGED <<now, clobbered>>
    BY <2>1 DEF ChangePassword
  <2>4. QED BY <1>1, <2>2, <2>3, CleanGuesses
<1>9. CASE \E r \in Request : LogoutAll(r)
  BY <1>1, <1>9, SameGuesses DEF LogoutAll
<1>10. CASE \E r \in Request : OtherRequest(r)
  BY <1>1, <1>10, SameGuesses DEF OtherRequest, registry, history
<1>11. CASE Tick
  BY <1>1, <1>11, TickGuesses
<1>12. CASE UNCHANGED vars
  BY <1>1, <1>12, SameGuesses DEF vars, registry, history
<1>13. QED
  BY <1>2, <1>3, <1>4, <1>5, <1>6, <1>7, <1>8, <1>9, <1>10, <1>11, <1>12 DEF Next

LEMMA GuessesTallied == Spec => []GuessInv
<1>1. QED BY GuessInit, GuessStep, PTL DEF Spec

\* Until such a save, at most twice the limit less two wrong passwords are
\* checked for an account in any span as long as the window.
THEOREM GuessesTheorem == Spec => []GuessesBounded
<1>1. ASSUME GuessInv PROVE GuessesBounded
  <2>1. ASSUME ~clobbered, NEW u \in User PROVE Cardinality(guesses[u]) <= MostGuesses
    <3>1. /\ users[u] \in Account \cup {NoUser} /\ guesses[u] \in SUBSET (Time \X Nat)
          /\ IsFiniteSet(guesses[u]) /\ Tally(users[u], guesses[u])
      BY <1>1, <2>1 DEF GuessInv, IInv, TypeOK, Numbered
    <3>2. QED BY <3>1, TallyBounds
  <2>2. QED BY <2>1 DEF GuessesBounded, MostGuesses
<1>2. QED BY <1>1, GuessesTallied, PTL
=============================================================================

------------------------------ MODULE Accounts ------------------------------
(***************************************************************************)
(* The account registry (services/accounts.py): users with a failed-login  *)
(* counter and sessions with a lifetime, all in one file.  Signup, login,  *)
(* password change and logout load, edit and save the file under its       *)
(* lock. Verifying a token does not: it loads, prunes expired sessions     *)
(* from its copy, and saves the copy if the prune found any.  A save that  *)
(* fails leaves the file as it was, and so does a refused call: neither    *)
(* is a step.                                                              *)
(***************************************************************************)
EXTENDS Integers, FiniteSets

CONSTANTS
  User,         \* usernames
  Request,      \* threads that serve authenticated requests
  NoUser,       \* no account, nobody
  MaxAccounts,  \* MAX_ACCOUNTS_PER_HOST
  MaxFails,     \* _LOCKOUT_MAX_FAILS
  Window,       \* _LOCKOUT_WINDOW_SECONDS
  LockFor,      \* _LOCKOUT_DURATION_SECONDS
  TTL,          \* _SESSION_TTL_SECONDS
  MaxTokens,    \* bound on the sessions ever opened
  MaxTime       \* bound on the clock, which starts at 1: 0 stands for "never"

ASSUME NoUserAssumption == NoUser \notin User
ASSUME LimitsAssumption == /\ MaxAccounts \in Nat /\ MaxFails \in Nat \ {0}
                           /\ Window \in Nat \ {0} /\ LockFor \in Nat /\ TTL \in Nat
\* A lock lasts at least as long as failures are counted together.
ASSUME LockAssumption == LockFor >= Window
ASSUME BoundsAssumption == MaxTokens \in Nat /\ MaxTime \in Nat \ {0}

VARIABLES
  users,      \* registry: each username's record
  sessions,   \* registry: the open sessions
  now,        \* the wall clock
  minted,     \* every session opened so far (history)
  dead,       \* tokens revoked by their owner (history)
  guesses,    \* when wrong passwords were checked, since the last right one and
              \* within the window, told apart by a number (history)
  clobbered,  \* a save has gone over a registry its copy did not see (history)
  pc,         \* where each request is
  copy        \* the registry each request has loaded, when, and for whom

registry == <<users, sessions>>
history == <<minted, dead, guesses, clobbered>>
threads == <<pc, copy>>
vars == <<registry, now, history, threads>>

Time == 1..MaxTime
Session == [token : 1..MaxTokens, user : User, created : Time]
Account == [count : 0..(MaxFails - 1), first : 0..MaxTime,
            until : 0..(MaxTime + LockFor)]
ASSUME AccountAssumption == NoUser \notin Account
Unread == [users |-> [u \in User |-> NoUser], sessions |-> {}, at |-> 0, who |-> NoUser]

Init ==
  /\ users = [u \in User |-> NoUser] /\ sessions = {} /\ now = 1
  /\ minted = {} /\ dead = {} /\ guesses = [u \in User |-> {}] /\ clobbered = FALSE
  /\ pc = [r \in Request |-> "idle"] /\ copy = [r \in Request |-> Unread]

HasAccount(u) == users[u] # NoUser
Live(s, t) == t - s.created <= TTL
\* _reset_fail
Clean == [count |-> 0, first |-> 0, until |-> 0]

\* Seeded fault: a session is dropped when its lifetime is just over.
FaultyPruned(set, t) == {s \in set : t - s.created < TTL}

\* _prune_expired_sessions
Pruned(set, t) == {s \in set : s.created >= t - TTL}

\* Seeded fault: the session that made the call survives.
FaultyRevoked(u) == IF \E s \in sessions : s.user = u
                    THEN {CHOOSE s \in sessions : s.user = u} ELSE {}

\* _revoke_user_sessions
Revoked(u) == {s \in sessions : s.user = u}

TokensOf(u) == {s.token : s \in {m \in minted : m.user = u}}

\* _mint_session, on top of the sessions that stay
Mint(u, kept) ==
  /\ Cardinality(minted) < MaxTokens
  /\ LET s == [token |-> Cardinality(minted) + 1, user |-> u, created |-> now]
     IN  sessions' = kept \cup {s} /\ minted' = minted \cup {s}

Signup(u) ==
  /\ ~HasAccount(u)
  /\ Cardinality({v \in User : HasAccount(v)}) < MaxAccounts
  /\ users' = [users EXCEPT ![u] = Clean]
  /\ Mint(u, Pruned(sessions, now))
  /\ UNCHANGED <<now, dead, guesses, clobbered, threads>>

\* While the account is locked no password is looked at.
MayTry(u) == HasAccount(u) /\ users[u].until <= now

Login(u) ==
  /\ MayTry(u)
  /\ users' = [users EXCEPT ![u] = Clean]
  /\ guesses' = [guesses EXCEPT ![u] = {}]
  /\ Mint(u, Pruned(sessions, now))
  /\ UNCHANGED <<now, dead, clobbered, threads>>

\* Seeded fault: the window starts anew with every failure.
FaultyFailed(account) ==
  LET fresh == account.first = 0 \/ now - account.first >= 1
      count == (IF fresh THEN 0 ELSE account.count) + 1
  IN  IF count >= MaxFails
      THEN [count |-> 0, first |-> 0, until |-> now + LockFor]
      ELSE [count |-> count, first |-> now, until |-> account.until]

\* _register_fail: the window is anchored at the first failure that it counts.
Failed(account) ==
  LET fresh == account.first = 0 \/ now - account.first > Window
      count == (IF fresh THEN 0 ELSE account.count) + 1
      first == IF fresh THEN now ELSE account.first
  IN  IF count >= MaxFails
      THEN [count |-> 0, first |-> 0, until |-> now + LockFor]
      ELSE [count |-> count, first |-> first, until |-> account.until]

LoginFails(u) ==
  /\ MayTry(u)
  /\ users' = [users EXCEPT ![u] = Failed(@)]
  /\ guesses' = [guesses EXCEPT ![u] = @ \cup {<<now, Cardinality(@)>>}]
  /\ UNCHANGED <<sessions, now, minted, dead, clobbered, threads>>

\* A session that is still there goes; expired ones are pruned either way.
Logout(t) ==
  LET mine == {s \in sessions : s.token = t} IN
  /\ sessions' = Pruned(sessions \ mine, now)
  /\ dead' = dead \cup {s.token : s \in mine}
  /\ UNCHANGED <<users, now, minted, guesses, clobbered, threads>>

\* verify_session, the unlocked part: the answer comes from this one read.
Verify(r, t) ==
  /\ pc[r] = "idle"
  /\ \E s \in sessions :
       /\ s.token = t /\ Live(s, now)
       /\ copy' = [copy EXCEPT ![r] = [users |-> users, sessions |-> sessions,
                                       at |-> now, who |-> s.user]]
  /\ pc' = [pc EXCEPT ![r] = IF Pruned(sessions, now) # sessions THEN "pruned" ELSE "in"]
  /\ UNCHANGED <<registry, now, history>>

\* The pruned copy goes over whatever the file holds by now, or the write fails.
SavePruned(r) ==
  /\ pc[r] = "pruned"
  /\ \/ /\ users' = copy[r].users
        /\ sessions' = Pruned(copy[r].sessions, copy[r].at)
        /\ clobbered' = (clobbered \/ registry # <<copy[r].users, copy[r].sessions>>)
     \/ UNCHANGED <<registry, clobbered>>
  /\ pc' = [pc EXCEPT ![r] = "in"]
  /\ UNCHANGED <<now, minted, dead, guesses, copy>>

Leave(r) == pc' = [pc EXCEPT ![r] = "idle"] /\ copy' = [copy EXCEPT ![r] = Unread]

\* The user was identified a moment ago; the session may be gone by now.
ChangePassword(r) ==
  LET u == copy[r].who IN
  /\ pc[r] = "in" /\ HasAccount(u)
  /\ users' = [users EXCEPT ![u] = Clean]
  /\ Mint(u, sessions \ Revoked(u))
  /\ dead' = dead \cup TokensOf(u)
  /\ guesses' = [guesses EXCEPT ![u] = {}]
  /\ Leave(r)
  /\ UNCHANGED <<now, clobbered>>

LogoutAll(r) ==
  LET u == copy[r].who IN
  /\ pc[r] = "in"
  /\ sessions' = sessions \ Revoked(u)
  /\ dead' = dead \cup TokensOf(u)
  /\ Leave(r)
  /\ UNCHANGED <<users, now, minted, guesses, clobbered>>

\* Any other request, or one that is refused.
OtherRequest(r) == pc[r] = "in" /\ Leave(r) /\ UNCHANGED <<registry, now, history>>

Tick ==
  /\ now < MaxTime
  /\ now' = now + 1
  /\ guesses' = [u \in User |-> {g \in guesses[u] : now' - g[1] < Window}]
  /\ UNCHANGED <<registry, minted, dead, clobbered, threads>>

Next ==
  \/ \E u \in User : Signup(u) \/ Login(u) \/ LoginFails(u)
  \/ \E t \in 1..MaxTokens : Logout(t)
  \/ \E r \in Request, t \in 1..MaxTokens : Verify(r, t)
  \/ \E r \in Request : SavePruned(r) \/ ChangePassword(r) \/ LogoutAll(r) \/ OtherRequest(r)
  \/ Tick

Spec == Init /\ [][Next]_vars

----------------------------------------------------------------------------
(* Properties *)

Registry == [users : [User -> Account \cup {NoUser}], sessions : SUBSET Session,
             at : 0..MaxTime, who : User \cup {NoUser}]

\* The registry, every copy of it and the history keep their shape.
TypeOK ==
  /\ users \in [User -> Account \cup {NoUser}]
  /\ sessions \in SUBSET Session /\ minted \in SUBSET Session
  /\ now \in Time /\ dead \in SUBSET (1..MaxTokens)
  /\ guesses \in [User -> SUBSET (Time \X Nat)] /\ clobbered \in BOOLEAN
  /\ pc \in [Request -> {"idle", "pruned", "in"}] /\ copy \in [Request -> Registry]
  /\ \A r \in Request : pc[r] # "idle" => copy[r].who \in User

\* "All old ones are dead" (change_password), and so after a logout: a revoked
\* token opens nothing again.
RevokedStaysRevoked == \A s \in sessions : s.token \notin dead

\* It holds until a verification saves a copy that missed another request.
RevokedStaysRevokedUnlessClobbered == clobbered \/ RevokedStaysRevoked

\* A session that was neither revoked nor outlived stays in the registry, at
\* the boundary of its lifetime too, until such a save.
LiveSessionsKeptUnlessClobbered ==
  clobbered \/ \A s \in minted : s.token \in dead \/ ~Live(s, now) \/ s \in sessions

\* A lock holds off further guesses.  The window is anchored at the first
\* failure, so two windows may meet: at most twice the limit less two wrong
\* passwords are checked in any one span of its length.
GuessesBounded ==
  clobbered \/ \A u \in User : Cardinality(guesses[u]) <= IF MaxFails = 1 THEN 1 ELSE 2 * MaxFails - 2
=============================================================================

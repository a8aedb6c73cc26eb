----------------------------- MODULE RateLimit -----------------------------
(***************************************************************************)
(* The sliding-window limiter of one identity and action, in the memory    *)
(* of each server process (services/ratelimit.py) or in Redis, shared by   *)
(* all of them (services/ratelimit_redis.py).  Redis is asked to count     *)
(* and to add in one transaction; the entry of a refused call is taken     *)
(* back afterwards.                                                        *)
(***************************************************************************)
EXTENDS Integers, FiniteSets

CONSTANTS
  Requests,  \* the calls that are ever checked
  Server,    \* the process that checks each
  Limit,     \* calls allowed in a window
  RateWindow,    \* its length
  MaxRateTime    \* bound on the clock

ASSUME LimitAssumption == Limit \in Nat \ {0} /\ RateWindow \in Nat \ {0} /\ MaxRateTime \in Nat
ASSUME ServerAssumption == Server \in [Requests -> Nat]

VARIABLES
  shared,    \* Redis is configured
  clock,
  entries,   \* the window's entries: a request, its time and the server it counts for
  verdict,   \* "unchecked" until a request is checked; "rolling" until its entry is gone
  when,      \* when it was checked
  unfair     \* ghost: refused with fewer than Limit admitted calls in the window

rateVars == <<shared, clock, entries, verdict, when, unfair>>

RateInit ==
  /\ shared \in BOOLEAN
  /\ clock = 0 /\ entries = {} /\ unfair = {}
  /\ verdict = [r \in Requests |-> "unchecked"] /\ when = [r \in Requests |-> 0]

\* Every process has its own table unless Redis is shared.
Table(r) == IF shared THEN 0 ELSE Server[r]
RateEntry(r) == [of |-> r, at |-> clock, in |-> Table(r)]

\* Seeded fault: what is not quite a window old is dropped too.
FaultyRecent(t) == {e \in entries : e.in = t /\ e.at > clock - RateWindow + 1}
Recent(t) == {e \in entries : e.in = t /\ e.at > clock - RateWindow}
Elsewhere(t) == {e \in entries : e.in # t}

Admitted(at, t) ==
  {r \in Requests : verdict[r] = "allowed" /\ Table(r) = t /\ when[r] > at - RateWindow /\ when[r] <= at}

\* MemoryRateLimiter.check: prune, count and append in one hold of the lock.
CheckMemory(r) ==
  /\ ~shared /\ verdict[r] = "unchecked"
  /\ LET t == Table(r)
         full == Cardinality(Recent(t)) >= Limit
     IN /\ entries' = Elsewhere(t) \cup Recent(t) \cup (IF full THEN {} ELSE {RateEntry(r)})
        /\ verdict' = [verdict EXCEPT ![r] = IF full THEN "refused" ELSE "allowed"]
        /\ unfair' = IF full /\ Cardinality(Admitted(clock, t)) < Limit THEN unfair \cup {r} ELSE unfair
  /\ when' = [when EXCEPT ![r] = clock]
  /\ UNCHANGED <<shared, clock>>

\* RedisRateLimiter.check: prune, count and add in one transaction, whatever the
\* count; a call that is to be refused goes on to take its entry back.
CheckRedis(r) ==
  /\ shared /\ verdict[r] = "unchecked"
  /\ LET full == Cardinality(Recent(0)) >= Limit
         phantom == \E e \in Recent(0) : verdict[e.of] # "allowed"
     IN /\ entries' = Recent(0) \cup {RateEntry(r)}
        /\ verdict' = [verdict EXCEPT ![r] = IF full THEN "rolling" ELSE "allowed"]
        /\ unfair' = IF full /\ ~phantom /\ Cardinality(Admitted(clock, 0)) < Limit
                     THEN unfair \cup {r} ELSE unfair
  /\ when' = [when EXCEPT ![r] = clock]
  /\ UNCHANGED <<shared, clock>>

\* The rollback may fail; the entry then counts for a whole window.
RollBack(r) ==
  /\ verdict[r] = "rolling"
  /\ verdict' = [verdict EXCEPT ![r] = "refused"]
  /\ entries' \in {entries, {e \in entries : e.of # r}}
  /\ UNCHANGED <<shared, clock, when, unfair>>

RateTick ==
  /\ clock < MaxRateTime /\ clock' = clock + 1
  /\ UNCHANGED <<shared, entries, verdict, when, unfair>>

\* The sweep of dead identities, every 64 checks: nothing recent, nothing kept.
PruneIdentity(t) ==
  /\ ~shared /\ Recent(t) = {} /\ entries # Elsewhere(t)
  /\ entries' = Elsewhere(t)
  /\ UNCHANGED <<shared, clock, verdict, when, unfair>>

RateNext ==
  \/ \E r \in Requests : CheckMemory(r) \/ CheckRedis(r) \/ RollBack(r) \/ PruneIdentity(Table(r))
  \/ RateTick

RateSpec == RateInit /\ [][RateNext]_rateVars

----------------------------------------------------------------------------
\* The limit is exact although counts and rollbacks interleave: a window of a table
\* that ends with an admitted call, and so any window, holds no more than the limit,
\* and who is refused has that many in the window before it, or met the entry of a call
\* that was itself refused.
LimitIsExact ==
  /\ \A r \in Requests : verdict[r] = "allowed" => Cardinality(Admitted(when[r], Table(r))) <= Limit
  /\ unfair = {}
=============================================================================

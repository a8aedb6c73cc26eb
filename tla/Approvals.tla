----------------------------- MODULE Approvals -----------------------------
(***************************************************************************)
(* Human approvals of irreversible tool actions for one user               *)
(* (services/approvals.py, routers/approvals.py).  A tool call of the      *)
(* model stages an action; the signed-in client lists the pending ones,    *)
(* each with a fresh token, and approves or rejects by id.  Every          *)
(* function reads the clock first and then works on the vault file under   *)
(* its lock.                                                               *)
(*                                                                         *)
(* An action stands for a tool with its canonical arguments.  The vault    *)
(* maps every id to its entry; an id that is not in the file has status    *)
(* "absent".                                                               *)
(***************************************************************************)
EXTENDS Integers, FiniteSets

CONSTANTS
  Caller,      \* concurrent calls of this user
  Action,
  NoAction,    \* a model value for "none"
  MaxPending,  \* APPROVAL_MAX_PENDING
  ApprovalTTL,         \* APPROVAL_TTL_SECONDS
  MaxId,       \* bound on the approvals ever staged
  MaxToken,    \* bound on the tokens ever minted
  MaxApprovalTime,     \* bound on the clock
  MaxFaults    \* bound on unreadable vaults, failed saves and restarts

ASSUME MaxPendingAssumption == MaxPending \in Nat \ {0}
ASSUME ActionAssumption == NoAction \notin Action
ASSUME ApprovalsBounds ==
  MaxId \in Nat /\ MaxToken \in Nat /\ MaxApprovalTime \in Nat /\ MaxFaults \in Nat /\ ApprovalTTL \in Nat

Id == 1..MaxId
Token == 0..MaxToken    \* 0 is no token

VARIABLES
  approvalNow,      \* the clock
  vault,    \* approvals.json
  ids,      \* approvals staged so far; the next one is ids + 1
  tokens,   \* tokens minted so far
  shown,    \* tokens that were delivered to the client
  call,     \* the calls in progress
  runs,     \* ghost: how often the action of an id was executed
  rejected, \* ghost: the ids whose rejection was answered with ok
  late,     \* ghost: those among them that were already consumed
  faults

approvalVars == <<approvalNow, vault, ids, tokens, shown, call, runs, rejected, late, faults>>

Status == {"absent", "pending", "expired", "consumed"}
Entry == [status : Status, action : Action \cup {NoAction}, token : Token, created : 0..MaxApprovalTime,
          expires : Nat]
NoEntry == [status |-> "absent", action |-> NoAction, token |-> 0,
            created |-> 0, expires |-> 0]

Call == [at : {"idle", "request", "list", "found", "peeked", "granted"}, t : 0..MaxApprovalTime,
         action : Action \cup {NoAction}, id : 0..MaxId, token : Token, args : BOOLEAN, entry : 0..MaxId]
NoCall == [at |-> "idle", t |-> 0, action |-> NoAction, id |-> 0, token |-> 0,
           args |-> FALSE, entry |-> 0]

ApprovalsInit ==
  /\ approvalNow = 0
  /\ vault = [i \in Id |-> NoEntry]
  /\ ids = 0 /\ tokens = 0 /\ shown = {}
  /\ call = [c \in Caller |-> NoCall]
  /\ runs = [i \in Id |-> 0] /\ rejected = {} /\ late = {}
  /\ faults = 0

----------------------------------------------------------------------------
(* The vault *)

Without(v, S) == [i \in Id |-> IF i \in S THEN [v[i] EXCEPT !.status = "absent"] ELSE v[i]]

Pending(v) == {i \in Id : v[i].status = "pending"}
Unexpired(v, t) == {i \in Pending(v) : v[i].expires > t}

\* _prune
PrunedApprovals(v, t) == Without(v, Id \ Unexpired(v, t))

\* _load reads the file; an unreadable or corrupt one counts as blank.
Load(v) ==
  \/ v = vault /\ UNCHANGED faults
  \/ v = Without(vault, Id) /\ faults < MaxFaults /\ faults' = faults + 1

\* The oldest pending entry; entries of one instant are in their order.
Oldest(v) == {i \in Pending(v) : \A j \in Pending(v) :
                v[i].created < v[j].created \/ (v[i].created = v[j].created /\ i <= j)}

Begin(c, rec) == call' = [call EXCEPT ![c] = rec]
Done(c) == call' = [call EXCEPT ![c] = NoCall]

----------------------------------------------------------------------------
(* request_approval *)

RequestApproval(c) ==
  /\ call[c].at = "idle"
  /\ \E a \in Action : Begin(c, [NoCall EXCEPT !.at = "request", !.t = approvalNow, !.action = a])
  /\ UNCHANGED <<approvalNow, vault, ids, tokens, shown, runs, rejected, late, faults>>

\* An identical pending action keeps its id; its token rotates.
Reuse(v, a) ==
  \E i \in Pending(v) :
    /\ v[i].action = a
    /\ vault' = [v EXCEPT ![i].token = tokens + 1]
    /\ UNCHANGED ids

\* The oldest approval makes room for a new one.
MintToken(v, a, t) ==
  LET full == Cardinality(Pending(v)) >= MaxPending
      kept == IF full THEN Without(v, Oldest(v)) ELSE v
  IN /\ \A i \in Pending(v) : v[i].action # a
     /\ ids < MaxId
     /\ ids' = ids + 1
     /\ vault' = [kept EXCEPT ![ids + 1] =
                    [status |-> "pending", action |-> a, token |-> tokens + 1,
                     created |-> t, expires |-> t + ApprovalTTL]]

Stage(c) ==
  /\ call[c].at = "request" /\ tokens < MaxToken
  /\ tokens' = tokens + 1
  /\ \E v \in {vault, Without(vault, Id)} :
       /\ Load(v)
       /\ LET w == PrunedApprovals(v, call[c].t)
          IN Reuse(w, call[c].action) \/ MintToken(w, call[c].action, call[c].t)
  /\ Done(c)
  /\ UNCHANGED <<approvalNow, shown, runs, rejected, late>>

----------------------------------------------------------------------------
(* list_pending(rotate_tokens=True): the list endpoint, and every answered turn *)

ListPending(c) ==
  /\ call[c].at = "idle"
  /\ Begin(c, [NoCall EXCEPT !.at = "list", !.t = approvalNow])
  /\ UNCHANGED <<approvalNow, vault, ids, tokens, shown, runs, rejected, late, faults>>

\* Every listed approval gets a token of its own.
Rotate(c) ==
  /\ call[c].at = "list"
  /\ \E v \in {vault, Without(vault, Id)} :
       LET w == PrunedApprovals(v, call[c].t)
           nth(i) == Cardinality({j \in Pending(w) : j <= i})
       IN /\ Load(v)
          /\ tokens + Cardinality(Pending(w)) <= MaxToken
          /\ tokens' = tokens + Cardinality(Pending(w))
          /\ vault' = [i \in Id |-> IF i \in Pending(w)
                                    THEN [w[i] EXCEPT !.token = tokens + nth(i)] ELSE w[i]]
          /\ shown' = shown \cup (tokens + 1)..(tokens + Cardinality(Pending(w)))
  /\ Done(c)
  /\ UNCHANGED <<approvalNow, ids, runs, rejected, late>>

----------------------------------------------------------------------------
(* approve_action: get_pending, peek_args, consume_approval, _execute_stored *)

\* A click names an id and any token the client was ever given.
Approve(c) ==
  /\ call[c].at = "idle"
  /\ \E i \in Unexpired(vault, approvalNow), k \in shown :
       Begin(c, [NoCall EXCEPT !.at = "found", !.id = i, !.token = k])
  /\ UNCHANGED <<approvalNow, vault, ids, tokens, shown, runs, rejected, late, faults>>

\* No arguments are found when the approval went away since.
PeekArgs(c) ==
  /\ call[c].at = "found"
  /\ Begin(c, [call[c] EXCEPT !.at = "peeked", !.t = approvalNow,
                              !.args = call[c].id \in Unexpired(vault, approvalNow)])
  /\ UNCHANGED <<approvalNow, vault, ids, tokens, shown, runs, rejected, late, faults>>

Expire(c, v, e) ==
  /\ v[e].expires <= call[c].t
  /\ vault' = [v EXCEPT ![e].status = "expired"]
  /\ Done(c)

\* Seeded fault: the token alone is enough.
FaultyMatches(c, v, e) == call[c].args

\* The tool and the stored arguments of the approval that was clicked.
Matches(c, v, e) == call[c].args /\ v[e].action = v[call[c].id].action

Mismatch(c, v, e) ==
  /\ v[e].expires > call[c].t /\ ~Matches(c, v, e)
  /\ UNCHANGED vault
  /\ Done(c)

\* Seeded fault: the token is checked and the entry left as it is.
FaultySpend(c, v, e) ==
  /\ v[e].expires > call[c].t /\ Matches(c, v, e)
  /\ vault' = v
  /\ Begin(c, [call[c] EXCEPT !.at = "granted", !.entry = e])

Consume(c, v, e) ==
  /\ v[e].expires > call[c].t /\ Matches(c, v, e)
  /\ vault' = [v EXCEPT ![e].status = "consumed"]
  /\ Begin(c, [call[c] EXCEPT !.at = "granted", !.entry = e])

ConsumeApproval(c) ==
  /\ call[c].at = "peeked"
  /\ \E v \in {vault, Without(vault, Id)} :
       /\ Load(v)
       /\ LET found == {e \in Pending(v) : v[e].token = call[c].token}
          IN \/ \E e \in found : Expire(c, v, e) \/ Mismatch(c, v, e) \/ Consume(c, v, e)
             \/ found = {} /\ vault' = PrunedApprovals(v, call[c].t) /\ Done(c)
  /\ UNCHANGED <<approvalNow, ids, tokens, shown, runs, rejected, late>>

ExecuteStored(c) ==
  /\ call[c].at = "granted"
  /\ runs' = [runs EXCEPT ![call[c].entry] = @ + 1]
  /\ Done(c)
  /\ UNCHANGED <<approvalNow, vault, ids, tokens, shown, rejected, late, faults>>

----------------------------------------------------------------------------
(* reject_approval, and what may go wrong *)

\* Seeded fault: the vault without the entry is not saved.
FaultyReject(i) ==
  /\ vault[i].status # "absent"
  /\ rejected' = rejected \cup {i}
  /\ late' = IF vault[i].status = "consumed" THEN late \cup {i} ELSE late
  /\ UNCHANGED <<approvalNow, vault, ids, tokens, shown, call, runs, faults>>

\* Whatever the status of the entry, it is taken out.
Reject(i) ==
  /\ vault[i].status # "absent"
  /\ vault' = Without(vault, {i})
  /\ rejected' = rejected \cup {i}
  /\ late' = IF vault[i].status = "consumed" THEN late \cup {i} ELSE late
  /\ UNCHANGED <<approvalNow, ids, tokens, shown, call, runs, faults>>

\* The vault could not be saved: the call is answered with a refusal.
Denied(c) ==
  /\ call[c].at \in {"request", "list", "peeked"}
  /\ faults < MaxFaults /\ faults' = faults + 1
  /\ Done(c)
  /\ UNCHANGED <<approvalNow, vault, ids, tokens, shown, runs, rejected, late>>

Restart ==
  /\ faults < MaxFaults /\ faults' = faults + 1
  /\ call' = [c \in Caller |-> NoCall]
  /\ UNCHANGED <<approvalNow, vault, ids, tokens, shown, runs, rejected, late>>

ApprovalTick ==
  /\ approvalNow < MaxApprovalTime /\ approvalNow' = approvalNow + 1
  /\ UNCHANGED <<vault, ids, tokens, shown, call, runs, rejected, late, faults>>

ApprovalsNext ==
  \/ \E c \in Caller : \/ RequestApproval(c) \/ Stage(c)
                       \/ ListPending(c) \/ Rotate(c)
                       \/ Approve(c) \/ PeekArgs(c) \/ ConsumeApproval(c) \/ ExecuteStored(c)
                       \/ Denied(c)
  \/ \E i \in Id : Reject(i)
  \/ Restart \/ ApprovalTick

ApprovalsSpec == ApprovalsInit /\ [][ApprovalsNext]_approvalVars

----------------------------------------------------------------------------
(* Properties *)

\* The vault, the calls and the ghosts keep their shape.
ApprovalsTypeOK ==
  /\ approvalNow \in 0..MaxApprovalTime
  /\ vault \in [Id -> Entry]
  /\ ids \in 0..MaxId /\ tokens \in 0..MaxToken /\ shown \in SUBSET Token
  /\ call \in [Caller -> Call]
  /\ runs \in [Id -> Nat] /\ rejected \in SUBSET Id /\ late \in SUBSET Id
  /\ faults \in 0..MaxFaults

\* "Consume the token and execute the stored action exactly once": a double
\* click, a second tab or a restart never runs an action twice.
RunAtMostOnce == \A i \in Id : runs[i] <= 1

\* "execution below can only ever run the exact staged action": what is about
\* to run is the action of the approval the user clicked on.
RunsWhatWasClicked ==
  \A c \in Caller : call[c].at = "granted" => vault[call[c].entry].action = vault[call[c].id].action

\* "Discard a pending approval without executing it": an action whose rejection
\* was answered with ok is not executed, unless a click had consumed the approval
\* by then (reject_approval takes out an entry of any status).
RejectedNeverRunsUnlessLate == \A i \in rejected \ late : runs[i] = 0

----------------------------------------------------------------------------
(* The promise *)

Phase(i) ==
  IF runs[i] > 0 THEN "done"
  ELSE IF \E c \in Caller : call[c].at = "granted" /\ call[c].entry = i THEN "granted"
  ELSE IF vault[i].status = "pending" THEN "staged"
  ELSE IF i <= ids THEN "void" ELSE "new"

Promise == INSTANCE OneShot WITH phase <- [i \in Id |-> Phase(i)]

\* The vault, its tokens and its calls implement one-shot approvals.
ImplementsOneShot == Promise!Spec
=============================================================================

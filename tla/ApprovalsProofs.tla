-------------------------- MODULE ApprovalsProofs --------------------------
(***************************************************************************)
(* Proofs about Approvals: for any number of callers, actions and faults   *)
(* an action runs at most once, and the vault implements one-shot          *)
(* approvals.                                                              *)
(***************************************************************************)
EXTENDS Approvals, FiniteSetTheorems, TLAPS

USE ActionAssumption, ApprovalsBounds, MaxPendingAssumption

----------------------------------------------------------------------------
(* Types *)

LEMMA WithoutType ==
  ASSUME NEW v \in [Id -> Entry], NEW S
  PROVE  Without(v, S) \in [Id -> Entry]
BY DEF Without, Entry, Status

\* What a function works on: the vault as it is, or a blank one.
LEMMA LoadType ==
  ASSUME vault \in [Id -> Entry], NEW v \in {vault, Without(vault, Id)}
  PROVE  v \in [Id -> Entry] /\ Pending(v) \subseteq Pending(vault)
<1>1. CASE v = vault
  BY <1>1
<1>2. CASE v = Without(vault, Id)
  BY <1>2, WithoutType DEF Without, Pending, Entry
<1> QED BY <1>1, <1>2

LEMMA PrunedType ==
  ASSUME NEW v \in [Id -> Entry], NEW t
  PROVE  PrunedApprovals(v, t) \in [Id -> Entry] /\ Pending(PrunedApprovals(v, t)) \subseteq Pending(v)
<1>1. PrunedApprovals(v, t) \in [Id -> Entry]
  BY WithoutType DEF PrunedApprovals
<1>2. Pending(PrunedApprovals(v, t)) \subseteq Pending(v)
  BY DEF PrunedApprovals, Pending, Without, Entry, Unexpired
<1> QED BY <1>1, <1>2

\* The ids that are pending can be counted, and so can those up to one of them.
LEMMA PendingCount ==
  ASSUME NEW v
  PROVE  /\ Cardinality(Pending(v)) \in Nat
         /\ \A i \in Id : /\ Cardinality({j \in Pending(v) : j <= i}) \in Nat
                          /\ Cardinality({j \in Pending(v) : j <= i}) <= Cardinality(Pending(v))
<1>1. IsFiniteSet(Id)
  BY FS_Interval DEF Id
<1>2. IsFiniteSet(Pending(v))
  BY <1>1, FS_Subset DEF Pending
<1>3. ASSUME NEW i \in Id
      PROVE  /\ Cardinality({j \in Pending(v) : j <= i}) \in Nat
             /\ Cardinality({j \in Pending(v) : j <= i}) <= Cardinality(Pending(v))
  <2>1. {j \in Pending(v) : j <= i} \subseteq Pending(v)
    OBVIOUS
  <2>2. IsFiniteSet({j \in Pending(v) : j <= i})
    BY <1>2, <2>1, FS_Subset
  <2> QED BY <1>2, <2>1, <2>2, FS_Subset, FS_CardinalityType
<1> QED BY <1>2, <1>3, FS_CardinalityType

LEMMA NoCallType == NoCall \in Call /\ NoEntry \in Entry
BY DEF NoCall, NoEntry, Call, Entry, Status, Token

LEMMA TypeInit == ApprovalsInit => ApprovalsTypeOK
BY NoCallType DEF ApprovalsInit, ApprovalsTypeOK, Id, Token

LEMMA StageType ==
  ASSUME ApprovalsTypeOK, NEW c \in Caller, Stage(c)
  PROVE  vault' \in [Id -> Entry] /\ ids' \in 0..MaxId /\ tokens' \in 0..MaxToken
<1>1. call[c] \in Call /\ tokens + 1 \in Token /\ tokens' = tokens + 1
  BY DEF ApprovalsTypeOK, Stage, Token
<1>2. PICK v \in {vault, Without(vault, Id)} :
        \/ Reuse(PrunedApprovals(v, call[c].t), call[c].action)
        \/ MintToken(PrunedApprovals(v, call[c].t), call[c].action, call[c].t)
  BY DEF Stage
<1> DEFINE w == PrunedApprovals(v, call[c].t)
<1>3. w \in [Id -> Entry]
  BY LoadType, PrunedType DEF ApprovalsTypeOK
<1> HIDE DEF w
<1>4. CASE Reuse(w, call[c].action)
  BY <1>1, <1>3, <1>4 DEF Reuse, Pending, Entry, ApprovalsTypeOK, Token
<1>5. CASE MintToken(w, call[c].action, call[c].t)
  <2>1. Without(w, Oldest(w)) \in [Id -> Entry]
    BY <1>3, WithoutType
  <2>2. [status |-> "pending", action |-> call[c].action, token |-> tokens + 1,
         created |-> call[c].t, expires |-> call[c].t + ApprovalTTL] \in Entry
    BY <1>1 DEF Call, Entry, Status
  <2>3. ids' \in 0..MaxId
    BY <1>5 DEF MintToken, ApprovalsTypeOK
  <2>4. vault' \in [Id -> Entry]
    BY <1>3, <1>5, <2>1, <2>2 DEF MintToken
  <2> QED BY <1>1, <2>3, <2>4 DEF Token
<1> QED BY <1>1, <1>2, <1>4, <1>5 DEF w, Token

LEMMA RotateType ==
  ASSUME ApprovalsTypeOK, NEW c \in Caller, Rotate(c)
  PROVE  vault' \in [Id -> Entry] /\ tokens' \in 0..MaxToken /\ shown' \in SUBSET Token
<1>1. PICK v \in {vault, Without(vault, Id)} :
        LET w == PrunedApprovals(v, call[c].t)
            nth(i) == Cardinality({j \in Pending(w) : j <= i})
        IN /\ tokens + Cardinality(Pending(w)) <= MaxToken
           /\ tokens' = tokens + Cardinality(Pending(w))
           /\ vault' = [i \in Id |-> IF i \in Pending(w)
                                     THEN [w[i] EXCEPT !.token = tokens + nth(i)] ELSE w[i]]
           /\ shown' = shown \cup (tokens + 1)..(tokens + Cardinality(Pending(w)))
  BY DEF Rotate
<1> DEFINE w == PrunedApprovals(v, call[c].t)
           nth(i) == Cardinality({j \in Pending(w) : j <= i})
<1>2. w \in [Id -> Entry]
  BY LoadType, PrunedType DEF ApprovalsTypeOK
<1>3. Cardinality(Pending(w)) \in Nat
      /\ \A i \in Id : nth(i) \in Nat /\ nth(i) <= Cardinality(Pending(w))
  BY PendingCount
<1>4. /\ tokens + Cardinality(Pending(w)) <= MaxToken
      /\ tokens' = tokens + Cardinality(Pending(w))
      /\ vault' = [i \in Id |-> IF i \in Pending(w)
                                THEN [w[i] EXCEPT !.token = tokens + nth(i)] ELSE w[i]]
      /\ shown' = shown \cup (tokens + 1)..(tokens + Cardinality(Pending(w)))
  BY <1>1
<1> HIDE DEF w, nth
<1>5. tokens \in Nat /\ shown \in SUBSET Token
  BY DEF ApprovalsTypeOK
<1>6. tokens' \in 0..MaxToken /\ shown' \in SUBSET Token
  BY <1>3, <1>4, <1>5 DEF Token
<1>7. \A i \in Id : tokens + nth(i) \in Token
  BY <1>3, <1>4, <1>5 DEF Token
<1>8. vault' \in [Id -> Entry]
  BY <1>2, <1>4, <1>7 DEF Entry
<1> QED BY <1>6, <1>8

LEMMA ConsumeType ==
  ASSUME ApprovalsTypeOK, NEW c \in Caller, ConsumeApproval(c)
  PROVE  vault' \in [Id -> Entry] /\ call' \in [Caller -> Call]
<1>1. PICK v \in {vault, Without(vault, Id)} :
        LET found == {e \in Pending(v) : v[e].token = call[c].token}
        IN \/ \E e \in found : Expire(c, v, e) \/ Mismatch(c, v, e) \/ Consume(c, v, e)
           \/ found = {} /\ vault' = PrunedApprovals(v, call[c].t) /\ Done(c)
  BY DEF ConsumeApproval
<1>2. v \in [Id -> Entry] /\ PrunedApprovals(v, call[c].t) \in [Id -> Entry]
  BY LoadType, PrunedType DEF ApprovalsTypeOK
<1>3. call \in [Caller -> Call]
  BY DEF ApprovalsTypeOK
<1>4. CASE vault' = PrunedApprovals(v, call[c].t) /\ Done(c)
  BY <1>2, <1>3, <1>4, NoCallType DEF Done
<1>5. ASSUME NEW e \in Pending(v), Expire(c, v, e) \/ Mismatch(c, v, e) \/ Consume(c, v, e)
      PROVE  vault' \in [Id -> Entry] /\ call' \in [Caller -> Call]
  <2>1. e \in Id /\ e \in 0..MaxId
    BY DEF Pending, Id
  <2>2. CASE Expire(c, v, e)
    BY <1>2, <1>3, <2>1, <2>2, NoCallType DEF Expire, Done, Entry, Status
  <2>3. CASE Mismatch(c, v, e)
    BY <1>3, <2>3, NoCallType DEF Mismatch, Done, ApprovalsTypeOK
  <2>4. CASE Consume(c, v, e)
    <3>1. vault' \in [Id -> Entry]
      BY <1>2, <2>1, <2>4 DEF Consume, Entry, Status
    <3>2. [call[c] EXCEPT !.at = "granted", !.entry = e] \in Call
      BY <1>3, <2>1 DEF Call
    <3> QED BY <1>3, <2>4, <3>1, <3>2 DEF Consume, Begin
  <2> QED BY <1>5, <2>2, <2>3, <2>4
<1> QED BY <1>1, <1>4, <1>5

LEMMA LoadFaults ==
  ASSUME ApprovalsTypeOK, NEW v, Load(v) PROVE faults' \in 0..MaxFaults
BY DEF Load, ApprovalsTypeOK

LEMMA TypeStep == ApprovalsTypeOK /\ [ApprovalsNext]_approvalVars => ApprovalsTypeOK'
<1> SUFFICES ASSUME ApprovalsTypeOK, [ApprovalsNext]_approvalVars PROVE ApprovalsTypeOK'
  OBVIOUS
<1>1. ASSUME NEW c \in Caller, RequestApproval(c) PROVE ApprovalsTypeOK'
  <2>1. PICK a \in Action : Begin(c, [NoCall EXCEPT !.at = "request", !.t = approvalNow, !.action = a])
    BY <1>1 DEF RequestApproval
  <2>2. [NoCall EXCEPT !.at = "request", !.t = approvalNow, !.action = a] \in Call
    BY NoCallType DEF Call, ApprovalsTypeOK
  <2> QED BY <1>1, <2>1, <2>2 DEF RequestApproval, Begin, ApprovalsTypeOK
<1>2. ASSUME NEW c \in Caller, Stage(c) PROVE ApprovalsTypeOK'
  <2>1. faults' \in 0..MaxFaults
    BY <1>2, LoadFaults DEF Stage
  <2> QED BY <1>2, <2>1, StageType, NoCallType DEF Stage, Done, ApprovalsTypeOK
<1>3. ASSUME NEW c \in Caller, ListPending(c) PROVE ApprovalsTypeOK'
  <2>1. [NoCall EXCEPT !.at = "list", !.t = approvalNow] \in Call
    BY NoCallType DEF Call, ApprovalsTypeOK
  <2> QED BY <1>3, <2>1 DEF ListPending, Begin, ApprovalsTypeOK
<1>4. ASSUME NEW c \in Caller, Rotate(c) PROVE ApprovalsTypeOK'
  <2>1. faults' \in 0..MaxFaults
    BY <1>4, LoadFaults DEF Rotate
  <2> QED BY <1>4, <2>1, RotateType, NoCallType DEF Rotate, Done, ApprovalsTypeOK
<1>5. ASSUME NEW c \in Caller, Approve(c) PROVE ApprovalsTypeOK'
  <2>1. PICK i \in Unexpired(vault, approvalNow), k \in shown :
          Begin(c, [NoCall EXCEPT !.at = "found", !.id = i, !.token = k])
    BY <1>5 DEF Approve
  <2>2. i \in 0..MaxId /\ k \in Token
    BY DEF Unexpired, Pending, Id, ApprovalsTypeOK
  <2>3. [NoCall EXCEPT !.at = "found", !.id = i, !.token = k] \in Call
    BY <2>2, NoCallType DEF Call
  <2> QED BY <1>5, <2>1, <2>3 DEF Approve, Begin, ApprovalsTypeOK
<1>6. ASSUME NEW c \in Caller, PeekArgs(c) PROVE ApprovalsTypeOK'
  <2>1. \A b \in BOOLEAN : [call[c] EXCEPT !.at = "peeked", !.t = approvalNow, !.args = b] \in Call
    BY DEF Call, ApprovalsTypeOK
  <2>2. (call[c].id \in Unexpired(vault, approvalNow)) \in BOOLEAN
    OBVIOUS
  <2>3. [call[c] EXCEPT !.at = "peeked", !.t = approvalNow,
                        !.args = call[c].id \in Unexpired(vault, approvalNow)] \in Call
    BY <2>1, <2>2, Zenon
  <2> QED BY <1>6, <2>3 DEF PeekArgs, Begin, ApprovalsTypeOK
<1>7. ASSUME NEW c \in Caller, ConsumeApproval(c) PROVE ApprovalsTypeOK'
  <2>1. faults' \in 0..MaxFaults
    BY <1>7, LoadFaults DEF ConsumeApproval
  <2> QED BY <1>7, <2>1, ConsumeType DEF ConsumeApproval, ApprovalsTypeOK
<1>8. ASSUME NEW c \in Caller, ExecuteStored(c) PROVE ApprovalsTypeOK'
  <2>1. runs' \in [Id -> Nat]
    <3>1. runs' = [i \in Id |-> IF i = call[c].entry THEN runs[i] + 1 ELSE runs[i]]
      BY <1>8 DEF ExecuteStored, ApprovalsTypeOK
    <3> QED BY <3>1 DEF ApprovalsTypeOK
  <2>2. call' \in [Caller -> Call]
    BY <1>8, NoCallType DEF ExecuteStored, Done, ApprovalsTypeOK
  <2> QED BY <1>8, <2>1, <2>2 DEF ExecuteStored, ApprovalsTypeOK
<1>9. ASSUME NEW c \in Caller, Denied(c) PROVE ApprovalsTypeOK'
  BY <1>9, NoCallType DEF Denied, Done, ApprovalsTypeOK
<1>10. ASSUME NEW i \in Id, Reject(i) PROVE ApprovalsTypeOK'
  BY <1>10, WithoutType DEF Reject, ApprovalsTypeOK
<1>11. CASE Restart
  BY <1>11, NoCallType DEF Restart, ApprovalsTypeOK
<1>12. CASE ApprovalTick
  BY <1>12 DEF ApprovalTick, ApprovalsTypeOK
<1>13. CASE UNCHANGED approvalVars
  BY <1>13 DEF approvalVars, ApprovalsTypeOK
<1> QED BY <1>1, <1>2, <1>3, <1>4, <1>5, <1>6, <1>7, <1>8, <1>9, <1>10, <1>11, <1>12,
           <1>13 DEF ApprovalsNext

\* The vault, the calls and the ghosts keep their shape.
THEOREM TypeCorrect == ApprovalsSpec => []ApprovalsTypeOK
<1>1. ApprovalsTypeOK /\ [ApprovalsNext]_approvalVars => ApprovalsTypeOK'
  BY TypeStep
<1> QED BY TypeInit, <1>1, PTL DEF ApprovalsSpec

----------------------------------------------------------------------------
(* At most once *)

IsGranted(c) == call[c].at = "granted"

\* What has been staged has an id already given out.
Allotted ==
  /\ \A i \in Pending(vault) : i <= ids
  /\ \A c \in Caller : IsGranted(c) => call[c].entry \in Id /\ call[c].entry <= ids
  /\ \A i \in Id : runs[i] > 0 => i <= ids

\* A granted approval is no longer in the vault as pending, has not run, and is
\* granted to one call.
GrantedOnce ==
  /\ \A c \in Caller : IsGranted(c) =>
       call[c].entry \notin Pending(vault) /\ runs[call[c].entry] = 0
  /\ \A c, d \in Caller :
       IsGranted(c) /\ IsGranted(d) /\ call[c].entry = call[d].entry => c = d

\* Nor does one that ran come back.
RunIsFinal == \A i \in Id : runs[i] > 0 => runs[i] = 1 /\ i \notin Pending(vault)

IInv == ApprovalsTypeOK /\ Allotted /\ GrantedOnce /\ RunIsFinal

\* A step that stages nothing, grants nothing and runs nothing.
Quiet ==
  /\ Pending(vault') \subseteq Pending(vault)
  /\ ids' = ids /\ runs' = runs
  /\ \A c \in Caller : IsGranted(c)' <=> IsGranted(c)
  /\ \A c \in Caller : IsGranted(c) => call'[c].entry = call[c].entry

\* A step that stages the next id.
Stages ==
  /\ ids + 1 \in Id
  /\ Pending(vault') \subseteq Pending(vault) \cup {ids + 1}
  /\ ids + 1 \in Pending(vault')
  /\ ids' = ids + 1 /\ runs' = runs
  /\ \A c \in Caller : IsGranted(c)' <=> IsGranted(c)
  /\ \A c \in Caller : IsGranted(c) => call'[c].entry = call[c].entry

\* A step that grants the pending approval e to the call c.
Grants(c, e) ==
  /\ e \in Pending(vault) /\ Pending(vault') = Pending(vault) \ {e}
  /\ ids' = ids /\ runs' = runs
  /\ ~IsGranted(c) /\ IsGranted(c)' /\ call'[c].entry = e
  /\ \A d \in Caller \ {c} : call'[d] = call[d]

\* A step that runs the granted approval of the call c.
Runs(c) ==
  /\ IsGranted(c) /\ ~IsGranted(c)'
  /\ Pending(vault') = Pending(vault) /\ ids' = ids
  /\ runs' = [runs EXCEPT ![call[c].entry] = @ + 1]
  /\ \A d \in Caller \ {c} : call'[d] = call[d]

\* A restart: no call is left.
Forgets ==
  /\ Pending(vault') = Pending(vault) /\ ids' = ids /\ runs' = runs
  /\ \A c \in Caller : ~IsGranted(c)'

\* The five kinds of a step.
Kinds ==
  \/ Quiet \/ Stages \/ Forgets
  \/ \E c \in Caller : Runs(c) \/ \E e \in Id : Grants(c, e)

LEMMA StageKind ==
  ASSUME ApprovalsTypeOK, NEW c \in Caller, Stage(c)
  PROVE  Quiet \/ Stages
<1>1. /\ runs' = runs /\ call' = [call EXCEPT ![c] = NoCall]
      /\ call \in [Caller -> Call] /\ ~IsGranted(c) /\ ids \in 0..MaxId
  BY DEF Stage, Done, ApprovalsTypeOK, IsGranted
<1>2. /\ \A d \in Caller : IsGranted(d)' <=> IsGranted(d)
      /\ \A d \in Caller : IsGranted(d) => call'[d].entry = call[d].entry
  BY <1>1 DEF IsGranted, NoCall
<1>3. PICK v \in {vault, Without(vault, Id)} :
        \/ Reuse(PrunedApprovals(v, call[c].t), call[c].action)
        \/ MintToken(PrunedApprovals(v, call[c].t), call[c].action, call[c].t)
  BY DEF Stage
<1> DEFINE w == PrunedApprovals(v, call[c].t)
<1>4. w \in [Id -> Entry] /\ Pending(w) \subseteq Pending(vault)
  BY LoadType, PrunedType DEF ApprovalsTypeOK
<1> HIDE DEF w
<1>5. CASE Reuse(w, call[c].action)
  <2>1. Pending(vault') = Pending(w) /\ ids' = ids
    BY <1>4, <1>5 DEF Reuse, Pending, Entry
  <2> QED BY <1>1, <1>2, <1>4, <2>1 DEF Quiet
<1>6. CASE MintToken(w, call[c].action, call[c].t)
  <2>1. ids + 1 \in Id /\ ids' = ids + 1
    BY <1>1, <1>6 DEF MintToken, Id
  <2>2. Pending(Without(w, Oldest(w))) \subseteq Pending(w)
        /\ Without(w, Oldest(w)) \in [Id -> Entry]
    BY <1>4, WithoutType DEF Without, Pending, Entry
  <2>3. Pending(vault') \subseteq Pending(w) \cup {ids + 1} /\ ids + 1 \in Pending(vault')
    BY <1>4, <1>6, <2>1, <2>2 DEF MintToken, Pending
  <2> QED BY <1>1, <1>2, <1>4, <2>1, <2>3 DEF Stages
<1> QED BY <1>3, <1>5, <1>6 DEF w

LEMMA RotateKind ==
  ASSUME ApprovalsTypeOK, NEW c \in Caller, Rotate(c)
  PROVE  Quiet
<1>1. /\ runs' = runs /\ ids' = ids /\ call' = [call EXCEPT ![c] = NoCall]
      /\ call \in [Caller -> Call] /\ ~IsGranted(c)
  BY DEF Rotate, Done, ApprovalsTypeOK, IsGranted
<1>2. PICK v \in {vault, Without(vault, Id)} :
        LET w == PrunedApprovals(v, call[c].t)
            nth(i) == Cardinality({j \in Pending(w) : j <= i})
        IN vault' = [i \in Id |-> IF i \in Pending(w)
                                  THEN [w[i] EXCEPT !.token = tokens + nth(i)] ELSE w[i]]
  BY DEF Rotate
<1> DEFINE w == PrunedApprovals(v, call[c].t)
           nth(i) == Cardinality({j \in Pending(w) : j <= i})
<1>3. w \in [Id -> Entry] /\ Pending(w) \subseteq Pending(vault)
  BY LoadType, PrunedType DEF ApprovalsTypeOK
<1>4. vault' = [i \in Id |-> IF i \in Pending(w)
                             THEN [w[i] EXCEPT !.token = tokens + nth(i)] ELSE w[i]]
  BY <1>2
<1> HIDE DEF w, nth
<1>5. Pending(vault') \subseteq Pending(w)
  BY <1>3, <1>4 DEF Pending, Entry
<1> QED BY <1>1, <1>3, <1>5 DEF Quiet, IsGranted, NoCall

LEMMA ConsumeKind ==
  ASSUME ApprovalsTypeOK, NEW c \in Caller, ConsumeApproval(c)
  PROVE  Quiet \/ \E e \in Id : Grants(c, e)
<1>1. /\ runs' = runs /\ ids' = ids /\ call \in [Caller -> Call] /\ ~IsGranted(c)
      /\ vault \in [Id -> Entry]
  BY DEF ConsumeApproval, ApprovalsTypeOK, IsGranted
<1>2. PICK v \in {vault, Without(vault, Id)} :
        LET found == {e \in Pending(v) : v[e].token = call[c].token}
        IN \/ \E e \in found : Expire(c, v, e) \/ Mismatch(c, v, e) \/ Consume(c, v, e)
           \/ found = {} /\ vault' = PrunedApprovals(v, call[c].t) /\ Done(c)
  BY DEF ConsumeApproval
<1>3. /\ v \in [Id -> Entry] /\ Pending(v) \subseteq Pending(vault)
      /\ Pending(PrunedApprovals(v, call[c].t)) \subseteq Pending(v)
  BY <1>1, LoadType, PrunedType
<1>4. ASSUME Done(c), Pending(vault') \subseteq Pending(vault) PROVE Quiet
  BY <1>1, <1>4 DEF Done, Quiet, IsGranted, NoCall
<1>5. CASE vault' = PrunedApprovals(v, call[c].t) /\ Done(c)
  BY <1>3, <1>4, <1>5
<1>6. ASSUME NEW e \in Pending(v), Expire(c, v, e) \/ Mismatch(c, v, e) \/ Consume(c, v, e)
      PROVE  Quiet \/ Grants(c, e)
  <2>1. CASE Expire(c, v, e)
    <3>1. Pending(vault') \subseteq Pending(v)
      BY <1>3, <2>1 DEF Expire, Pending, Entry
    <3> QED BY <1>3, <1>4, <2>1, <3>1 DEF Expire
  <2>2. CASE Mismatch(c, v, e)
    BY <1>4, <2>2 DEF Mismatch
  <2>3. CASE Consume(c, v, e)
    \* A blank vault has nothing to consume.
    <3>1. v = vault
      BY <1>1 DEF Pending, Without, Entry
    <3>2. Pending(vault') = Pending(vault) \ {e}
      BY <1>3, <2>3, <3>1 DEF Consume, Pending, Entry
    <3>3. /\ \A d \in Caller \ {c} : call'[d] = call[d]
          /\ IsGranted(c)' /\ call'[c].entry = e
      BY <1>1, <2>3 DEF Consume, Begin, IsGranted, Call
    <3> QED BY <1>1, <3>1, <3>2, <3>3 DEF Grants
  <2> QED BY <1>6, <2>1, <2>2, <2>3
<1> QED BY <1>2, <1>5, <1>6 DEF Pending

LEMMA StepKind ==
  ASSUME ApprovalsTypeOK, [ApprovalsNext]_approvalVars
  PROVE  Kinds
<1>1. call \in [Caller -> Call] /\ vault \in [Id -> Entry]
  BY DEF ApprovalsTypeOK
<1>2. ASSUME NEW c \in Caller, NEW rec, ~IsGranted(c), rec.at # "granted",
             call' = [call EXCEPT ![c] = rec], UNCHANGED <<vault, ids, runs>>
      PROVE  Quiet
  BY <1>1, <1>2 DEF Quiet, IsGranted
<1>3. ASSUME NEW c \in Caller, RequestApproval(c) \/ ListPending(c) \/ Approve(c) PROVE Quiet
  <2>1. UNCHANGED <<vault, ids, runs>> /\ ~IsGranted(c)
    BY <1>3 DEF RequestApproval, ListPending, Approve, IsGranted
  <2>2. PICK rec : rec.at # "granted" /\ call' = [call EXCEPT ![c] = rec]
    BY <1>3 DEF RequestApproval, ListPending, Approve, Begin, NoCall
  <2> QED BY <1>2, <2>1, <2>2
<1>4. ASSUME NEW c \in Caller, PeekArgs(c) PROVE Quiet
  <2>1. UNCHANGED <<vault, ids, runs>> /\ ~IsGranted(c)
    BY <1>4 DEF PeekArgs, IsGranted
  <2>2. PICK rec : rec.at # "granted" /\ call' = [call EXCEPT ![c] = rec]
    BY <1>1, <1>4 DEF PeekArgs, Begin, Call
  <2> QED BY <1>2, <2>1, <2>2
<1>5. ASSUME NEW c \in Caller, Denied(c) PROVE Quiet
  BY <1>2, <1>5 DEF Denied, Done, NoCall, IsGranted
<1>6. ASSUME NEW c \in Caller, ExecuteStored(c) PROVE Runs(c)
  BY <1>1, <1>6 DEF ExecuteStored, Done, NoCall, IsGranted, Runs
<1>7. ASSUME NEW i \in Id, Reject(i) PROVE Quiet
  <2>1. Pending(vault') \subseteq Pending(vault)
    BY <1>1, <1>7 DEF Reject, Without, Pending, Entry
  <2> QED BY <1>7, <2>1 DEF Reject, Quiet, IsGranted
<1>8. CASE Restart
  BY <1>8 DEF Restart, Forgets, IsGranted, NoCall, Kinds
<1>9. CASE ApprovalTick \/ UNCHANGED approvalVars
  BY <1>9 DEF ApprovalTick, approvalVars, Quiet, IsGranted, Kinds
<1> QED BY <1>3, <1>4, <1>5, <1>6, <1>7, <1>8, <1>9, StageKind, RotateKind, ConsumeKind
        DEF ApprovalsNext, Kinds

LEMMA SafeInit == ApprovalsInit => Allotted /\ GrantedOnce /\ RunIsFinal
BY DEF ApprovalsInit, Allotted, GrantedOnce, RunIsFinal, IsGranted, Pending, NoEntry, NoCall

LEMMA SafeStep == IInv /\ [ApprovalsNext]_approvalVars => IInv'
<1> SUFFICES ASSUME IInv, [ApprovalsNext]_approvalVars PROVE IInv'
  OBVIOUS
<1>1. ApprovalsTypeOK' /\ Kinds
  BY TypeStep, StepKind DEF IInv
<1>2. /\ call \in [Caller -> Call] /\ runs \in [Id -> Nat] /\ ids \in Nat
      /\ Allotted /\ GrantedOnce /\ RunIsFinal
  BY DEF IInv, ApprovalsTypeOK
<1>3. Pending(vault) \subseteq Id /\ Id \subseteq Nat
  BY DEF Pending, Id
<1>9. /\ \A c \in Caller : IsGranted(c) => call[c].entry \in Id /\ call[c].entry <= ids
      /\ \A i \in Id : runs[i] > 0 => i <= ids
  BY <1>2 DEF Allotted
<1>4. CASE Quiet
  BY <1>1, <1>2, <1>3, <1>4 DEF Quiet, IInv, Allotted, GrantedOnce, RunIsFinal
<1>5. CASE Stages
  <2>1. Allotted'
    <3>0. ids' = ids + 1 /\ ids \in Nat
      BY <1>2, <1>5 DEF Stages
    <3>1. ASSUME NEW i \in Pending(vault') PROVE i <= ids'
      <4>1. CASE i = ids + 1
        BY <3>0, <4>1
      <4>2. CASE i \in Pending(vault)
        <5>1. i \in Nat /\ i <= ids
          BY <1>2, <1>3, <4>2 DEF Allotted
        <5> QED BY <3>0, <5>1
      <4> QED BY <1>5, <4>1, <4>2 DEF Stages
    <3>2. ASSUME NEW c \in Caller, IsGranted(c)'
          PROVE  call'[c].entry \in Id /\ call'[c].entry <= ids'
      <4>1. IsGranted(c) /\ call'[c].entry = call[c].entry
        BY <1>5, <3>2 DEF Stages
      <4>2. call[c].entry \in Id /\ call[c].entry \in Nat /\ call[c].entry <= ids
        BY <1>3, <1>9, <4>1
      <4> QED BY <3>0, <4>1, <4>2
    <3>3. ASSUME NEW i \in Id, runs'[i] > 0 PROVE i <= ids'
      <4>1. i \in Nat /\ i <= ids
        BY <1>3, <1>5, <1>9, <3>3 DEF Stages
      <4> QED BY <3>0, <4>1
    <3> QED BY <3>1, <3>2, <3>3 DEF Allotted
  <2>2. GrantedOnce'
    <3>1. ASSUME NEW c \in Caller, IsGranted(c)'
          PROVE  call'[c].entry \notin Pending(vault') /\ runs'[call'[c].entry] = 0
      <4>1. IsGranted(c) /\ call'[c].entry = call[c].entry
        BY <1>5, <3>1 DEF Stages
      <4>2. call[c].entry \in Nat /\ call[c].entry <= ids
        BY <1>3, <1>9, <4>1
      <4> QED BY <1>2, <1>5, <4>1, <4>2 DEF Stages, GrantedOnce
    <3>2. \A c, d \in Caller :
            IsGranted(c)' /\ IsGranted(d)' /\ call'[c].entry = call'[d].entry => c = d
      BY <1>2, <1>5 DEF Stages, GrantedOnce
    <3>3. Pending(vault)' = Pending(vault')
      BY DEF Pending
    <3> QED BY <3>1, <3>2, <3>3 DEF GrantedOnce
  <2>3. RunIsFinal'
    BY <1>2, <1>3, <1>5 DEF Stages, RunIsFinal, Allotted
  <2> QED BY <1>1, <2>1, <2>2, <2>3 DEF IInv
<1>6. CASE Forgets
  BY <1>1, <1>2, <1>3, <1>6 DEF Forgets, IInv, Allotted, GrantedOnce, RunIsFinal
<1>7. ASSUME NEW c \in Caller, Runs(c) PROVE IInv'
  <2>1. call[c].entry \in Id /\ runs' \in [Id -> Nat]
    BY <1>1, <1>2, <1>7 DEF Runs, Allotted, ApprovalsTypeOK
  <2>2. Allotted'
    BY <1>2, <1>3, <1>7, <2>1 DEF Runs, Allotted, IsGranted
  <2>3. GrantedOnce'
    BY <1>2, <1>7, <2>1 DEF Runs, GrantedOnce, Allotted, IsGranted
  <2>4. RunIsFinal'
    BY <1>2, <1>7, <2>1 DEF Runs, GrantedOnce, RunIsFinal
  <2> QED BY <1>1, <2>2, <2>3, <2>4 DEF IInv
<1>8. ASSUME NEW c \in Caller, NEW e \in Id, Grants(c, e) PROVE IInv'
  <2>1. Allotted'
    BY <1>2, <1>3, <1>8 DEF Grants, Allotted, IsGranted
  <2>2. GrantedOnce'
    BY <1>2, <1>3, <1>8 DEF Grants, GrantedOnce, Allotted, RunIsFinal, IsGranted
  <2>3. RunIsFinal'
    BY <1>2, <1>8 DEF Grants, RunIsFinal
  <2> QED BY <1>1, <2>1, <2>2, <2>3 DEF IInv
<1> QED BY <1>1, <1>4, <1>5, <1>6, <1>7, <1>8 DEF Kinds

LEMMA SafeAlways == ApprovalsSpec => []IInv
<1>1. ApprovalsInit => IInv
  BY TypeInit, SafeInit DEF IInv
<1> QED BY <1>1, SafeStep, PTL DEF ApprovalsSpec

\* However many clicks, tabs and restarts there are, an approved action is
\* executed at most once.
THEOREM AtMostOnce == ApprovalsSpec => []RunAtMostOnce
<1>1. IInv => RunAtMostOnce
  BY DEF IInv, RunIsFinal, RunAtMostOnce, ApprovalsTypeOK
<1> QED BY <1>1, SafeAlways, PTL

----------------------------------------------------------------------------
(* The refinement *)

GrantedIds == {i \in Id : \E c \in Caller : IsGranted(c) /\ call[c].entry = i}
DoneIds == {i \in Id : runs[i] > 0}

\* The phase of an id, from the sets of ids that are done, granted and pending.
PhaseOf(i, D, G, P, n) ==
  IF i \in D THEN "done" ELSE IF i \in G THEN "granted" ELSE IF i \in P THEN "staged"
  ELSE IF i <= n THEN "void" ELSE "new"

LEMMA PhaseSets ==
  ASSUME ApprovalsTypeOK
  PROVE  [i \in Id |-> Phase(i)]
           = [i \in Id |-> PhaseOf(i, DoneIds, GrantedIds, Pending(vault), ids)]
<1>1. ASSUME NEW i \in Id
      PROVE  Phase(i) = PhaseOf(i, DoneIds, GrantedIds, Pending(vault), ids)
  BY DEF Phase, PhaseOf, DoneIds, GrantedIds, Pending, IsGranted
<1> QED BY <1>1

\* The three sets are disjoint and hold ids that were given out.
LEMMA PhaseDisjoint ==
  ASSUME IInv
  PROVE  /\ \A i \in DoneIds : i \notin GrantedIds /\ i \notin Pending(vault) /\ i <= ids
         /\ \A i \in GrantedIds : i \notin Pending(vault) /\ i <= ids
         /\ \A i \in Pending(vault) : i \in Id /\ i <= ids
BY DEF IInv, Allotted, GrantedOnce, RunIsFinal, DoneIds, GrantedIds, Pending

LEMMA RefinesInit == ApprovalsInit => Promise!Init
<1> SUFFICES ASSUME ApprovalsInit PROVE Promise!Init
  OBVIOUS
<1>1. ASSUME NEW i \in Id PROVE Phase(i) = "new"
  <2>1. i \in Nat /\ ~(i <= 0)
    BY DEF Id
  <2>2. /\ runs[i] = 0 /\ vault[i].status = "absent" /\ ids = 0
        /\ \A c \in Caller : call[c].at = "idle"
    BY DEF ApprovalsInit, NoEntry, NoCall
  <2> QED BY <2>1, <2>2 DEF Phase
<1> QED BY <1>1 DEF Promise!Init

LEMMA RefinesStep ==
  ASSUME IInv, [ApprovalsNext]_approvalVars
  PROVE  [Promise!Next]_([i \in Id |-> Phase(i)])
<1> DEFINE D == DoneIds
           G == GrantedIds
           P == Pending(vault)
           D1 == DoneIds'
           G1 == GrantedIds'
           P1 == Pending(vault')
           old == [i \in Id |-> PhaseOf(i, D, G, P, ids)]
           new == [i \in Id |-> PhaseOf(i, D1, G1, P1, ids')]
           ph == [i \in Id |-> Phase(i)]
<1>1. ApprovalsTypeOK /\ ApprovalsTypeOK' /\ Kinds
  BY TypeStep, StepKind DEF IInv
<1>2. ph = old
  BY <1>1, PhaseSets
<1>3. ph' = new
  <2>1. ASSUME NEW i \in Id
        PROVE  Phase(i)' = PhaseOf(i, DoneIds', GrantedIds', Pending(vault'), ids')
    BY <1>1 DEF Phase, PhaseOf, DoneIds, GrantedIds, Pending, IsGranted
  <2> QED BY <2>1
<1>4. /\ \A i \in D : i \notin G /\ i \notin P /\ i <= ids
      /\ \A i \in G : i \notin P /\ i <= ids
      /\ \A i \in P : i \in Id /\ i <= ids
  BY PhaseDisjoint
<1>5. ids \in Nat /\ Id \subseteq Nat /\ D \subseteq Id /\ G \subseteq Id
  BY <1>1 DEF ApprovalsTypeOK, Id, DoneIds, GrantedIds
<1>6. \A i \in Id : (i \in G1 <=> \E c \in Caller : IsGranted(c)' /\ call'[c].entry = i)
                   /\ (i \in G <=> \E c \in Caller : IsGranted(c) /\ call[c].entry = i)
  BY DEF GrantedIds
<1>7. \A i \in Id : (i \in D1 <=> runs'[i] > 0) /\ (i \in D <=> runs[i] > 0)
  BY DEF DoneIds
<1>8. G1 \subseteq Id /\ D1 \subseteq Id
  BY DEF GrantedIds, DoneIds
<1>9. Promise!Staged = P /\ Promise!Granted = G
  <2>1. \A i \in Id : ph[i] = PhaseOf(i, D, G, P, ids)
    BY <1>2
  <2> HIDE DEF D, G, P
  <2>2. \A i \in Id : (ph[i] = "staged" <=> i \in P) /\ (ph[i] = "granted" <=> i \in G)
    BY <1>4, <2>1 DEF PhaseOf
  <2> QED BY <1>4, <1>5, <2>2 DEF Promise!Staged, Promise!Granted
<1> HIDE DEF D, G, P, D1, G1, P1
<1>10. CASE Quiet
  <2>1. D1 = D /\ G1 = G /\ P1 \subseteq P /\ ids' = ids
    BY <1>5, <1>6, <1>7, <1>8, <1>10 DEF Quiet, P, P1
  <2>2. new = [i \in Id |-> IF i \in P \ P1 THEN "void" ELSE old[i]]
    BY <1>4, <2>1 DEF PhaseOf
  <2>3. ph' = Promise!Voided(P \ P1)
    BY <1>2, <1>3, <2>2 DEF Promise!Voided
  <2>4. P \ P1 \in SUBSET Promise!Staged
    BY <1>9
  <2>5. Promise!Void
    BY <2>3, <2>4 DEF Promise!Void
  <2> QED BY <2>5 DEF Promise!Next
<1>11. CASE Stages
  <2>1. /\ D1 = D /\ G1 = G /\ ids + 1 \in P1 /\ P1 \subseteq P \cup {ids + 1}
        /\ ids + 1 \in Id /\ ids' = ids + 1
    BY <1>5, <1>6, <1>7, <1>8, <1>11 DEF Stages, P, P1
  <2>2. old[ids + 1] = "new"
    BY <1>4, <1>5, <2>1 DEF PhaseOf
  <2>3. \A i \in Id \ {ids + 1} : i <= ids + 1 <=> i <= ids
    BY <1>5
  <2>4. ids + 1 \notin P /\ ids + 1 \notin G /\ ids + 1 \notin D
    BY <1>4, <1>5
  <2>5. new = [[i \in Id |-> IF i \in P \ P1 THEN "void" ELSE old[i]]
                 EXCEPT ![ids + 1] = "staged"]
    BY <1>4, <2>1, <2>3, <2>4 DEF PhaseOf
  <2>6. ph' = [Promise!Voided(P \ P1) EXCEPT ![ids + 1] = "staged"]
    BY <1>2, <1>3, <2>5 DEF Promise!Voided
  <2>7. P \ P1 \in SUBSET Promise!Staged
    BY <1>9
  <2>8. Promise!Stage(ids + 1)
    BY <1>2, <2>1, <2>2, <2>6, <2>7 DEF Promise!Stage
  <2> QED BY <2>1, <2>8 DEF Promise!Next
<1>12. CASE Forgets
  <2>1. D1 = D /\ G1 = {} /\ P1 = P /\ ids' = ids
    BY <1>5, <1>6, <1>7, <1>8, <1>12 DEF Forgets, P, P1
  <2>2. new = [i \in Id |-> IF i \in G THEN "void" ELSE old[i]]
    BY <1>4, <2>1 DEF PhaseOf
  <2>3. ph' = Promise!Voided(Promise!Granted)
    BY <1>2, <1>3, <1>9, <2>2 DEF Promise!Voided
  <2> QED BY <2>3 DEF Promise!Forget, Promise!Next
<1>13. ASSUME NEW c \in Caller, Runs(c) PROVE Promise!Next
  <2> DEFINE e == call[c].entry
  <2>1. e \in Id /\ e \in G /\ runs[e] = 0
    BY <1>6, <1>13 DEF Runs, IInv, Allotted, GrantedOnce
  <2>2. D1 = D \cup {e}
    <3>1. runs' = [runs EXCEPT ![e] = @ + 1] /\ runs \in [Id -> Nat]
      BY <1>1, <1>13 DEF Runs, ApprovalsTypeOK
    <3> HIDE DEF e
    <3>2. \A i \in Id : runs'[i] > 0 <=> runs[i] > 0 \/ i = e
      BY <2>1, <3>1
    <3> QED BY <1>5, <1>7, <1>8, <2>1, <3>2
  <2>3. G1 = G \ {e}
    <3>1. \A d \in Caller : IsGranted(d)' <=> IsGranted(d) /\ d # c
      BY <1>13 DEF Runs, IsGranted
    <3>2. \A d \in Caller : IsGranted(d) /\ d # c => call[d].entry # e /\ call'[d].entry = call[d].entry
      BY <1>13 DEF Runs, IInv, GrantedOnce
    <3>3. \A i \in Id : i \in G1 <=> i \in G /\ i # e
      <4>1. call[c].entry = e
        OBVIOUS
      <4> HIDE DEF e
      <4> QED BY <1>6, <3>1, <3>2, <4>1
    <3> QED BY <1>5, <1>8, <3>3
  <2>4. P1 = P /\ ids' = ids
    BY <1>13 DEF Runs, P, P1
  <2> HIDE DEF e
  <2>5. new = [old EXCEPT ![e] = "done"]
    BY <1>4, <2>1, <2>2, <2>3, <2>4 DEF PhaseOf
  <2>6. old[e] = "granted"
    BY <1>4, <2>1 DEF PhaseOf
  <2>7. Promise!Run(e)
    BY <1>2, <1>3, <2>1, <2>5, <2>6 DEF Promise!Run
  <2> QED BY <2>1, <2>7 DEF Promise!Next
<1>14. ASSUME NEW c \in Caller, NEW e \in Id, Grants(c, e) PROVE Promise!Next
  <2>1. D1 = D /\ P1 = P \ {e} /\ e \in P /\ ids' = ids
    BY <1>5, <1>7, <1>8, <1>14 DEF Grants, P, P1
  <2>2. G1 = G \cup {e}
    <3>1. \A d \in Caller : IsGranted(d)' <=> IsGranted(d) \/ d = c
      BY <1>14 DEF Grants, IsGranted
    <3>2. \A d \in Caller : IsGranted(d) => d # c /\ call'[d].entry = call[d].entry
      BY <1>14 DEF Grants
    <3>3. call'[c].entry = e
      BY <1>14 DEF Grants
    <3> QED BY <1>5, <1>6, <1>8, <3>1, <3>2, <3>3
  <2>3. new = [old EXCEPT ![e] = "granted"]
    BY <1>4, <2>1, <2>2 DEF PhaseOf
  <2>4. old[e] = "staged"
    BY <1>4, <2>1 DEF PhaseOf
  <2>5. Promise!Grant(e)
    BY <1>2, <1>3, <2>3, <2>4 DEF Promise!Grant
  <2> QED BY <2>5 DEF Promise!Next
<1> QED BY <1>1, <1>10, <1>11, <1>12, <1>13, <1>14 DEF Kinds

\* The vault with its tokens, its callers and its faults implements one-shot
\* approvals: staged once, granted once, run at most once.
THEOREM OneShotTheorem == ApprovalsSpec => ImplementsOneShot
<1>1. IInv /\ [ApprovalsNext]_approvalVars => [Promise!Next]_([i \in Id |-> Phase(i)])
  BY RefinesStep
<1> QED BY RefinesInit, <1>1, SafeAlways, PTL DEF ApprovalsSpec, ImplementsOneShot, Promise!Spec

----------------------------------------------------------------------------
(* What is clicked and what is rejected *)

\* Whatever is loaded, pruned or not, an entry keeps its action, and its status
\* unless it goes.
SameOrGone(w) ==
  \A i \in Id : w[i].action = vault[i].action /\ (w[i].status = vault[i].status \/ w[i].status = "absent")

LEMMA LoadedSameOrGone ==
  ASSUME vault \in [Id -> Entry], NEW v \in {vault, Without(vault, Id)}, NEW t
  PROVE  SameOrGone(v) /\ SameOrGone(PrunedApprovals(v, t)) /\ v \in [Id -> Entry] /\ PrunedApprovals(v, t) \in [Id -> Entry]
<1>1. v \in [Id -> Entry] /\ PrunedApprovals(v, t) \in [Id -> Entry]
  BY LoadType, PrunedType
<1>2. SameOrGone(v)
  BY DEF SameOrGone, Without, Entry
<1>3. \A i \in Id : /\ PrunedApprovals(v, t)[i].action = v[i].action
                    /\ PrunedApprovals(v, t)[i].status \in {v[i].status, "absent"}
  BY <1>1 DEF PrunedApprovals, Without, Entry
<1>4. QED BY <1>1, <1>2, <1>3 DEF SameOrGone

\* What a step makes of an entry that has been staged, and of the rest.
EntryKept(i) ==
  \/ /\ vault'[i].action = vault[i].action
     /\ vault'[i].status \in {vault[i].status, "absent"} \/ vault[i].status = "pending"
  \/ i = ids + 1 /\ ids' = ids + 1

LEMMA EntriesKept ==
  ASSUME ApprovalsTypeOK, [ApprovalsNext]_approvalVars
  PROVE  \A i \in Id : EntryKept(i)
<1>0. vault \in [Id -> Entry]
  BY DEF ApprovalsTypeOK
<1>1. CASE UNCHANGED vault
  BY <1>1 DEF EntryKept
<1>2. ASSUME NEW c \in Caller, Stage(c) PROVE \A i \in Id : EntryKept(i)
  <2>1. PICK v \in {vault, Without(vault, Id)} :
          \/ Reuse(PrunedApprovals(v, call[c].t), call[c].action)
          \/ MintToken(PrunedApprovals(v, call[c].t), call[c].action, call[c].t)
    BY <1>2 DEF Stage
  <2> DEFINE w == PrunedApprovals(v, call[c].t)
  <2>2. w \in [Id -> Entry] /\ SameOrGone(w)
    BY <1>0, LoadedSameOrGone
  <2> HIDE DEF w
  <2>3. CASE Reuse(w, call[c].action)
    <3>1. \A i \in Id : vault'[i].action = w[i].action /\ vault'[i].status = w[i].status
      BY <2>2, <2>3 DEF Reuse, Pending, Entry
    <3>2. QED BY <2>2, <3>1 DEF SameOrGone, EntryKept
  <2>4. CASE MintToken(w, call[c].action, call[c].t)
    <3> DEFINE kept == IF Cardinality(Pending(w)) >= MaxPending THEN Without(w, Oldest(w)) ELSE w
    <3>1. ids' = ids + 1 /\ vault' = [kept EXCEPT ![ids + 1] =
                    [status |-> "pending", action |-> call[c].action, token |-> tokens + 1,
                     created |-> call[c].t, expires |-> call[c].t + ApprovalTTL]]
      BY <2>4 DEF MintToken
    <3>2. /\ kept \in [Id -> Entry]
          /\ \A i \in Id : kept[i].action = w[i].action /\ kept[i].status \in {w[i].status, "absent"}
      <4>1. Without(w, Oldest(w)) \in [Id -> Entry]
        BY <2>2, WithoutType
      <4>2. \A i \in Id : /\ Without(w, Oldest(w))[i].action = w[i].action
                          /\ Without(w, Oldest(w))[i].status \in {w[i].status, "absent"}
        BY <2>2 DEF Without, Entry
      <4>3. QED BY <2>2, <4>1, <4>2
    <3> HIDE DEF kept
    <3>3. \A i \in Id : i # ids + 1 => vault'[i] = kept[i]
      BY <3>1, <3>2
    <3>4. QED BY <2>2, <3>1, <3>2, <3>3 DEF SameOrGone, EntryKept
  <2>5. QED BY <2>1, <2>3, <2>4 DEF w
<1>3. ASSUME NEW c \in Caller, Rotate(c) PROVE \A i \in Id : EntryKept(i)
  <2>1. PICK v \in {vault, Without(vault, Id)} :
          LET w == PrunedApprovals(v, call[c].t)
              nth(i) == Cardinality({j \in Pending(w) : j <= i})
          IN vault' = [i \in Id |-> IF i \in Pending(w)
                                    THEN [w[i] EXCEPT !.token = tokens + nth(i)] ELSE w[i]]
    BY <1>3 DEF Rotate
  <2> DEFINE w == PrunedApprovals(v, call[c].t)
             nth(i) == Cardinality({j \in Pending(w) : j <= i})
  <2>2. w \in [Id -> Entry] /\ SameOrGone(w)
    BY <1>0, LoadedSameOrGone
  <2>3. vault' = [i \in Id |-> IF i \in Pending(w)
                               THEN [w[i] EXCEPT !.token = tokens + nth(i)] ELSE w[i]]
    BY <2>1
  <2> HIDE DEF w, nth
  <2>4. \A i \in Id : vault'[i].action = w[i].action /\ vault'[i].status = w[i].status
    BY <2>2, <2>3 DEF Entry
  <2>5. QED BY <2>2, <2>4 DEF SameOrGone, EntryKept
<1>4. ASSUME NEW c \in Caller, ConsumeApproval(c) PROVE \A i \in Id : EntryKept(i)
  <2>1. PICK v \in {vault, Without(vault, Id)} :
          LET found == {e \in Pending(v) : v[e].token = call[c].token}
          IN \/ \E e \in found : Expire(c, v, e) \/ Mismatch(c, v, e) \/ Consume(c, v, e)
             \/ found = {} /\ vault' = PrunedApprovals(v, call[c].t) /\ Done(c)
    BY <1>4 DEF ConsumeApproval
  <2>2. SameOrGone(v) /\ SameOrGone(PrunedApprovals(v, call[c].t)) /\ v \in [Id -> Entry]
    BY <1>0, LoadedSameOrGone
  <2>3. CASE vault' = PrunedApprovals(v, call[c].t)
    BY <2>2, <2>3 DEF SameOrGone, EntryKept
  <2>4. ASSUME NEW e \in Pending(v), NEW status, vault' = [v EXCEPT ![e].status = status]
        PROVE  \A i \in Id : EntryKept(i)
    <3>1. e \in Id /\ vault[e].status = "pending"
      BY <2>2 DEF Pending, SameOrGone
    <3>2. \A i \in Id : vault'[i].action = v[i].action /\ (i # e => vault'[i].status = v[i].status)
      BY <2>2, <2>4 DEF Entry
    <3>3. QED BY <2>2, <3>1, <3>2 DEF SameOrGone, EntryKept
  <2>5. QED BY <1>1, <2>1, <2>3, <2>4 DEF Expire, Mismatch, Consume
<1>5. ASSUME NEW i \in Id, Reject(i) PROVE \A j \in Id : EntryKept(j)
  BY <1>0, <1>5 DEF Reject, Without, Entry, EntryKept
<1>6. QED
  BY <1>1, <1>2, <1>3, <1>4, <1>5
     DEF ApprovalsNext, RequestApproval, ListPending, Approve, PeekArgs, ExecuteStored, Denied,
         Restart, ApprovalTick, approvalVars

\* What is in the vault has been staged.
StagedOnly == \A i \in Id : vault[i].status # "absent" => i <= ids
\* A click is on an approval that was staged; what it was granted is its action.
ClickedIsGranted ==
  /\ \A c \in Caller : call[c].at \in {"found", "peeked", "granted"} => call[c].id \in Id /\ call[c].id <= ids
  /\ RunsWhatWasClicked
\* What was granted or run is spent.
SpentStays ==
  /\ \A c \in Caller : IsGranted(c) => vault[call[c].entry].status \in {"consumed", "absent"}
  /\ \A i \in Id : runs[i] > 0 => vault[i].status \in {"consumed", "absent"}
\* What was rejected is gone, and unless it was spent by then nobody is to run it.
RejectedIsGone ==
  /\ \A i \in rejected : vault[i].status = "absent" /\ i <= ids
  /\ \A i \in rejected \ late : runs[i] = 0 /\ \A c \in Caller : IsGranted(c) => call[c].entry # i
ClickInv == IInv /\ StagedOnly /\ ClickedIsGranted /\ SpentStays /\ RejectedIsGone

LEMMA ClickInitially == ApprovalsInit => ClickInv
<1> SUFFICES ASSUME ApprovalsInit PROVE ClickInv
  OBVIOUS
<1>1. IInv
  BY TypeInit, SafeInit DEF IInv
<1>2. QED BY <1>1 DEF ApprovalsInit, ClickInv, StagedOnly, ClickedIsGranted, RunsWhatWasClicked,
               SpentStays, RejectedIsGone, IsGranted, NoEntry, NoCall

\* What a step makes of the vault leaves spent and rejected entries spent and rejected.
LEMMA VaultKeeps ==
  ASSUME ClickInv, [ApprovalsNext]_approvalVars
  PROVE  /\ StagedOnly' /\ ids <= ids' /\ ids' \in Nat
         /\ \A i \in Id : i <= ids =>
              /\ vault'[i].action = vault[i].action
              /\ vault[i].status # "pending" => vault'[i].status \in {vault[i].status, "absent"}
<1>1. /\ ApprovalsTypeOK /\ ApprovalsTypeOK' /\ Kinds /\ \A i \in Id : EntryKept(i)
  BY TypeStep, StepKind, EntriesKept DEF ClickInv, IInv
<1>2. ids \in Nat /\ ids' \in Nat /\ Id \subseteq Nat
  BY <1>1 DEF ApprovalsTypeOK, Id
<1>3. ids' = ids \/ ids' = ids + 1
  BY <1>1 DEF Kinds, Quiet, Stages, Forgets, Runs, Grants
<1>4. \A i \in Id : i <= ids => i # ids + 1
  BY <1>2
<1>5. ASSUME NEW i \in Id, vault'[i].status # "absent" PROVE i <= ids'
  <2>1. CASE i = ids + 1 /\ ids' = ids + 1
    BY <1>2, <2>1
  <2>2. CASE vault'[i].status \in {vault[i].status, "absent"} \/ vault[i].status = "pending"
    <3>1. vault[i].status # "absent"
      BY <1>5, <2>2
    <3>2. i <= ids /\ i \in Nat
      BY <1>2, <3>1 DEF ClickInv, StagedOnly
    <3>3. QED BY <1>2, <1>3, <3>2
  <2>3. QED BY <1>1, <2>1, <2>2 DEF EntryKept
<1>6. StagedOnly'
  BY <1>5 DEF StagedOnly
<1>7. ids <= ids'
  BY <1>2, <1>3
<1>8. ASSUME NEW i \in Id, i <= ids
      PROVE  /\ vault'[i].action = vault[i].action
             /\ vault[i].status # "pending" => vault'[i].status \in {vault[i].status, "absent"}
  BY ONLY <1>1, <1>4, <1>8 DEF EntryKept
<1>9. QED BY <1>2, <1>6, <1>7, <1>8

\* A step that grants nothing, runs nothing and rejects nothing.
LEMMA PlainKeeps ==
  ASSUME ClickInv, [ApprovalsNext]_approvalVars, UNCHANGED <<runs, rejected, late>>,
         \A c \in Caller :
           \/ call'[c] = call[c]
           \/ /\ call'[c].at # "granted"
              /\ call'[c].at \in {"found", "peeked"} => call'[c].id \in Id /\ call'[c].id <= ids
  PROVE  ClickInv'
<1>1. IInv' /\ IInv
  BY SafeStep DEF ClickInv
<1>2. /\ StagedOnly' /\ ids <= ids' /\ ids' \in Nat /\ ids \in Nat /\ Id \subseteq Nat
      /\ \A i \in Id : i <= ids =>
           /\ vault'[i].action = vault[i].action
           /\ vault[i].status # "pending" => vault'[i].status \in {vault[i].status, "absent"}
  BY <1>1, VaultKeeps DEF IInv, ApprovalsTypeOK, Id
<1>3. \A c \in Caller : IsGranted(c)' => IsGranted(c) /\ call'[c] = call[c]
  BY DEF IsGranted
<1>4. \A c \in Caller : IsGranted(c) => call[c].entry \in Id /\ call[c].entry <= ids
  BY <1>1 DEF IInv, Allotted
<1>5. ClickedIsGranted'
  <2>1. ASSUME NEW c \in Caller, call'[c].at \in {"found", "peeked", "granted"}
        PROVE  call'[c].id \in Id /\ call'[c].id <= ids'
    <3>1. call'[c].id \in Id /\ call'[c].id <= ids
      BY <2>1 DEF ClickInv, ClickedIsGranted
    <3>2. call'[c].id \in Nat
      BY <1>2, <3>1
    <3> DEFINE k == call'[c].id
    <3> HIDE DEF k
    <3>3. k \in Nat /\ k <= ids /\ ids <= ids' /\ ids \in Nat /\ ids' \in Nat
      BY <1>2, <3>1, <3>2 DEF k
    <3>4. k <= ids'
      BY <3>3
    <3>5. QED BY <3>1, <3>4 DEF k
  <2>2. RunsWhatWasClicked'
    <3> SUFFICES ASSUME NEW c \in Caller, call'[c].at = "granted"
                 PROVE  vault'[call'[c].entry].action = vault'[call'[c].id].action
      BY DEF RunsWhatWasClicked
    <3>1. call'[c] = call[c] /\ call[c].at = "granted" /\ IsGranted(c)
      BY <1>3 DEF IsGranted
    <3>2. vault[call[c].entry].action = vault[call[c].id].action /\ call[c].id \in Id /\ call[c].id <= ids
      BY <3>1 DEF ClickInv, ClickedIsGranted, RunsWhatWasClicked
    <3>3. QED BY <1>2, <1>4, <3>1, <3>2
  <2>3. QED BY <2>1, <2>2 DEF ClickedIsGranted
<1>6. SpentStays'
  <2>1. \A i \in Id : i <= ids /\ vault[i].status \in {"consumed", "absent"} => vault'[i].status \in {"consumed", "absent"}
    BY <1>2
  <2>2. ASSUME NEW c \in Caller, IsGranted(c)' PROVE vault'[call'[c].entry].status \in {"consumed", "absent"}
    <3>1. vault[call[c].entry].status \in {"consumed", "absent"}
      BY <1>3, <2>2 DEF ClickInv, SpentStays
    <3>2. QED BY <1>3, <1>4, <2>1, <2>2, <3>1
  <2>3. ASSUME NEW i \in Id, runs'[i] > 0 PROVE vault'[i].status \in {"consumed", "absent"}
    <3>1. vault[i].status \in {"consumed", "absent"} /\ i <= ids
      BY <1>1, <2>3 DEF ClickInv, SpentStays, IInv, Allotted
    <3>2. QED BY <2>1, <3>1
  <2>4. QED BY <2>2, <2>3 DEF SpentStays
<1>7. RejectedIsGone'
  <2>1. \A i \in rejected : i \in Id /\ vault[i].status = "absent" /\ i <= ids
    BY <1>1 DEF ClickInv, RejectedIsGone, IInv, ApprovalsTypeOK
  <2>2. \A i \in rejected : vault'[i].status = "absent" /\ i <= ids'
    <3> SUFFICES ASSUME NEW i \in rejected PROVE vault'[i].status = "absent" /\ i <= ids'
      OBVIOUS
    <3>1. i \in Id /\ i \in Nat /\ vault[i].status = "absent" /\ i <= ids
      BY <1>2, <2>1
    <3>2. vault'[i].status = "absent"
      BY <1>2, <3>1
    <3>3. QED BY <1>2, <3>1, <3>2
  <2>3. QED BY <1>3, <2>2 DEF ClickInv, RejectedIsGone
<1>8. QED BY <1>1, <1>2, <1>5, <1>6, <1>7 DEF ClickInv

LEMMA GrantKeeps ==
  ASSUME ClickInv, NEW c \in Caller, ConsumeApproval(c), IsGranted(c)'
  PROVE  ClickInv'
<1>1. IInv /\ IInv' /\ [ApprovalsNext]_approvalVars
  BY SafeStep DEF ClickInv, ApprovalsNext
<1>2. /\ StagedOnly' /\ ids <= ids' /\ ids' \in Nat /\ ids \in Nat /\ Id \subseteq Nat
      /\ \A i \in Id : i <= ids =>
           /\ vault'[i].action = vault[i].action
           /\ vault[i].status # "pending" => vault'[i].status \in {vault[i].status, "absent"}
  BY <1>1, VaultKeeps DEF IInv, ApprovalsTypeOK, Id
<1>3. call \in [Caller -> Call] /\ vault \in [Id -> Entry] /\ call[c].at = "peeked"
      /\ UNCHANGED <<ids, runs, rejected, late>>
  BY <1>1 DEF IInv, ApprovalsTypeOK, ConsumeApproval
<1>0. PICK v \in {vault, Without(vault, Id)} :
        LET found == {e \in Pending(v) : v[e].token = call[c].token}
        IN \/ \E e \in found : Expire(c, v, e) \/ Mismatch(c, v, e) \/ Consume(c, v, e)
           \/ found = {} /\ vault' = PrunedApprovals(v, call[c].t) /\ Done(c)
  BY DEF ConsumeApproval
<1>4. PICK e \in Pending(v) : Consume(c, v, e)
  <2>1. ~Done(c)
    BY <1>3 DEF Done, IsGranted, NoCall
  <2>2. PICK e \in Pending(v) : Expire(c, v, e) \/ Mismatch(c, v, e) \/ Consume(c, v, e)
    BY <1>0, <2>1
  <2>3. QED BY <2>1, <2>2 DEF Expire, Mismatch
<1>5. v = vault /\ e \in Id /\ vault[e].status = "pending" /\ e <= ids
  <2>1. v = vault
    BY <1>3 DEF Pending, Without, Entry
  <2>2. QED BY <1>1, <2>1 DEF Pending, IInv, Allotted
<1>6. /\ vault' = [vault EXCEPT ![e].status = "consumed"]
      /\ call' = [call EXCEPT ![c] = [call[c] EXCEPT !.at = "granted", !.entry = e]]
      /\ vault[e].action = vault[call[c].id].action
  BY <1>4, <1>5 DEF Consume, Matches, Begin
<1>7. /\ \A d \in Caller : d # c => call'[d] = call[d]
      /\ call'[c].at = "granted" /\ call'[c].entry = e /\ call'[c].id = call[c].id
      /\ \A i \in Id : vault'[i].action = vault[i].action /\ (i # e => vault'[i] = vault[i])
      /\ vault'[e].status = "consumed"
  <2>1. call[c] \in Call
    BY <1>3
  <2>2. call'[c] = [call[c] EXCEPT !.at = "granted", !.entry = e]
    BY <1>3, <1>6
  <2>3. call'[c].at = "granted" /\ call'[c].entry = e /\ call'[c].id = call[c].id
    BY <2>1, <2>2 DEF Call
  <2>4. \A d \in Caller : d # c => call'[d] = call[d]
    BY <1>6
  <2>5. /\ \A i \in Id : vault'[i].action = vault[i].action /\ (i # e => vault'[i] = vault[i])
        /\ vault'[e].status = "consumed"
    BY <1>3, <1>5, <1>6 DEF Entry
  <2>6. QED BY <2>3, <2>4, <2>5
<1>8. call[c].id \in Id /\ call[c].id <= ids
  BY <1>3 DEF ClickInv, ClickedIsGranted
<1>9. \A d \in Caller : IsGranted(d) => call[d].entry \in Id
  BY <1>1 DEF IInv, Allotted
<1>10. ClickedIsGranted'
  <2>1. \A d \in Caller : call'[d].at \in {"found", "peeked", "granted"} => call'[d].id \in Id /\ call'[d].id <= ids'
    BY <1>3, <1>7, <1>8 DEF ClickInv, ClickedIsGranted
  <2>2. RunsWhatWasClicked'
    <3> SUFFICES ASSUME NEW d \in Caller, call'[d].at = "granted"
                 PROVE  vault'[call'[d].entry].action = vault'[call'[d].id].action
      BY DEF RunsWhatWasClicked
    <3>1. CASE d = c
      BY <1>5, <1>6, <1>7, <1>8, <3>1
    <3>2. CASE d # c
      <4>1. call'[d] = call[d] /\ call[d].at = "granted" /\ IsGranted(d)
        BY <1>7, <3>2 DEF IsGranted
      <4>2. vault[call[d].entry].action = vault[call[d].id].action /\ call[d].id \in Id
        BY <4>1 DEF ClickInv, ClickedIsGranted, RunsWhatWasClicked
      <4>3. QED BY <1>7, <1>9, <4>1, <4>2
    <3>3. QED BY <3>1, <3>2
  <2>3. QED BY <2>1, <2>2 DEF ClickedIsGranted
<1>11. SpentStays'
  <2>1. \A i \in Id : vault[i].status \in {"consumed", "absent"} => vault'[i].status \in {"consumed", "absent"}
    BY <1>5, <1>7
  <2>2. ASSUME NEW d \in Caller, IsGranted(d)' PROVE vault'[call'[d].entry].status \in {"consumed", "absent"}
    <3>1. CASE d = c
      BY <1>7, <3>1
    <3>2. CASE d # c
      <4>1. call'[d] = call[d] /\ IsGranted(d)
        BY <1>7, <2>2, <3>2 DEF IsGranted
      <4>2. QED BY <1>9, <2>1, <4>1 DEF ClickInv, SpentStays
    <3>3. QED BY <3>1, <3>2
  <2>3. \A i \in Id : runs'[i] > 0 => vault'[i].status \in {"consumed", "absent"}
    BY <1>3, <2>1 DEF ClickInv, SpentStays
  <2>4. QED BY <2>2, <2>3 DEF SpentStays
<1>12. RejectedIsGone'
  <2>1. \A i \in rejected : i \in Id /\ i # e /\ vault'[i] = vault[i] /\ vault[i].status = "absent" /\ i <= ids
    BY <1>1, <1>5, <1>7 DEF ClickInv, RejectedIsGone, IInv, ApprovalsTypeOK
  <2>2. \A d \in Caller : IsGranted(d)' => (d = c /\ call'[d].entry = e) \/ (IsGranted(d) /\ call'[d] = call[d])
    BY <1>7 DEF IsGranted
  <2>3. QED BY <1>3, <2>1, <2>2 DEF ClickInv, RejectedIsGone
<1>13. QED BY <1>1, <1>2, <1>10, <1>11, <1>12 DEF ClickInv

LEMMA RunKeeps ==
  ASSUME ClickInv, NEW c \in Caller, ExecuteStored(c)
  PROVE  ClickInv'
<1>1. IInv /\ IInv'
  BY SafeStep DEF ClickInv, ApprovalsNext
<1>2. /\ IsGranted(c) /\ call \in [Caller -> Call] /\ runs \in [Id -> Nat]
      /\ runs' = [runs EXCEPT ![call[c].entry] = @ + 1] /\ call' = [call EXCEPT ![c] = NoCall]
      /\ UNCHANGED <<vault, ids, rejected, late>>
  BY <1>1 DEF ExecuteStored, Done, IsGranted, IInv, ApprovalsTypeOK
<1>3. call[c].entry \in Id /\ \A i \in Id : i # call[c].entry => runs'[i] = runs[i]
  BY <1>1, <1>2 DEF IInv, Allotted
<1>4. \A d \in Caller : call'[d] = call[d] \/ call'[d].at = "idle"
  BY <1>2 DEF NoCall
<1>5. \A d \in Caller : IsGranted(d)' => IsGranted(d) /\ call'[d] = call[d]
  BY <1>4 DEF IsGranted
<1>6. ClickedIsGranted'
  BY <1>2, <1>4 DEF ClickInv, ClickedIsGranted, RunsWhatWasClicked
<1>7. SpentStays'
  BY <1>2, <1>3, <1>5 DEF ClickInv, SpentStays
<1>8. RejectedIsGone'
  <2>1. \A i \in rejected : i \in Id
    BY <1>1 DEF IInv, ApprovalsTypeOK
  <2>2. \A i \in rejected \ late : call[c].entry # i
    BY <1>2 DEF ClickInv, RejectedIsGone
  <2>3. QED BY <1>2, <1>3, <1>5, <2>1, <2>2 DEF ClickInv, RejectedIsGone
<1>9. StagedOnly'
  BY <1>2 DEF ClickInv, StagedOnly
<1>10. QED BY <1>1, <1>6, <1>7, <1>8, <1>9 DEF ClickInv

LEMMA RejectKeeps ==
  ASSUME ClickInv, NEW i \in Id, Reject(i)
  PROVE  ClickInv'
<1>1. IInv /\ IInv' /\ ApprovalsTypeOK
  BY SafeStep DEF ClickInv, ApprovalsNext, IInv
<1>2. /\ vault[i].status # "absent" /\ vault' = Without(vault, {i}) /\ rejected' = rejected \cup {i}
      /\ late' = IF vault[i].status = "consumed" THEN late \cup {i} ELSE late
      /\ UNCHANGED <<ids, call, runs>>
  BY DEF Reject
<1>3. /\ \A j \in Id : vault'[j].action = vault[j].action /\ (j # i => vault'[j] = vault[j])
      /\ vault'[i].status = "absent"
  BY <1>1, <1>2 DEF Without, Entry, ApprovalsTypeOK
<1>4. i <= ids /\ \A c \in Caller : IsGranted(c) => call[c].entry \in Id
  BY <1>1, <1>2 DEF ClickInv, StagedOnly, IInv, Allotted
<1>5. StagedOnly'
  BY <1>2, <1>3 DEF ClickInv, StagedOnly
<1>6. ClickedIsGranted'
  <2>1. ASSUME NEW c \in Caller, call[c].at = "granted"
        PROVE  vault'[call[c].entry].action = vault'[call[c].id].action
    BY <1>3, <1>4, <2>1 DEF ClickInv, ClickedIsGranted, RunsWhatWasClicked, IsGranted
  <2>2. QED BY <1>2, <2>1 DEF ClickInv, ClickedIsGranted, RunsWhatWasClicked
<1>7. SpentStays'
  BY <1>2, <1>3, <1>4 DEF ClickInv, SpentStays, IsGranted
<1>8. RejectedIsGone'
  <2>1. \A j \in rejected : j \in Id /\ vault'[j].status = "absent" /\ j <= ids
    BY <1>1, <1>3 DEF ClickInv, RejectedIsGone, ApprovalsTypeOK
  <2>2. vault[i].status # "consumed" => runs[i] = 0 /\ \A c \in Caller : IsGranted(c) => call[c].entry # i
    <3>1. vault[i].status # "consumed" => ~(runs[i] > 0)
      BY <1>2 DEF ClickInv, SpentStays
    <3>2. runs[i] \in Nat
      BY <1>1 DEF ApprovalsTypeOK
    <3>3. vault[i].status # "consumed" => \A c \in Caller : IsGranted(c) => call[c].entry # i
      BY <1>2 DEF ClickInv, SpentStays
    <3>4. QED BY <3>1, <3>2, <3>3
  <2>3. \A j \in rejected' \ late' : j \in rejected \ late \/ (j = i /\ vault[i].status # "consumed")
    BY <1>2
  <2>4. \A j \in rejected' \ late' : runs[j] = 0 /\ \A c \in Caller : IsGranted(c) => call[c].entry # j
    BY <2>2, <2>3 DEF ClickInv, RejectedIsGone
  <2>5. \A j \in rejected' : vault'[j].status = "absent" /\ j <= ids'
    BY <1>2, <1>3, <1>4, <2>1
  <2>6. QED BY <1>2, <2>4, <2>5 DEF RejectedIsGone, IsGranted
<1>9. QED BY <1>1, <1>5, <1>6, <1>7, <1>8 DEF ClickInv

LEMMA ClickStep == ClickInv /\ [ApprovalsNext]_approvalVars => ClickInv'
<1> SUFFICES ASSUME ClickInv, [ApprovalsNext]_approvalVars PROVE ClickInv'
  OBVIOUS
<1>1. call \in [Caller -> Call] /\ Pending(vault) \subseteq Id
  BY DEF ClickInv, IInv, ApprovalsTypeOK, Pending
<1>2. ASSUME NEW c \in Caller, NEW rec, rec.at # "granted",
             rec.at \in {"found", "peeked"} => rec.id \in Id /\ rec.id <= ids,
             call' = [call EXCEPT ![c] = rec], UNCHANGED <<runs, rejected, late>>
      PROVE  ClickInv'
  <2>1. \A d \in Caller : call'[d] = call[d] \/ (d = c /\ call'[d] = rec)
    BY <1>1, <1>2
  <2>2. QED BY <1>2, <2>1, PlainKeeps
<1>3. ASSUME NEW c \in Caller, RequestApproval(c) \/ ListPending(c) \/ Stage(c) \/ Rotate(c) \/ Denied(c)
      PROVE  ClickInv'
  <2>1. PICK rec : rec.at \notin {"found", "peeked", "granted"} /\ call' = [call EXCEPT ![c] = rec]
    BY <1>3 DEF RequestApproval, ListPending, Stage, Rotate, Denied, Begin, Done, NoCall
  <2>2. UNCHANGED <<runs, rejected, late>>
    BY <1>3 DEF RequestApproval, ListPending, Stage, Rotate, Denied
  <2>3. QED BY <1>2, <2>1, <2>2
<1>4. ASSUME NEW c \in Caller, Approve(c) PROVE ClickInv'
  <2>1. PICK i \in Unexpired(vault, approvalNow), k \in shown :
               call' = [call EXCEPT ![c] = [NoCall EXCEPT !.at = "found", !.id = i, !.token = k]]
    BY <1>4 DEF Approve, Begin
  <2>2. i \in Id /\ i <= ids
    BY <1>1 DEF Unexpired, ClickInv, IInv, Allotted
  <2>3. UNCHANGED <<runs, rejected, late>>
    BY <1>4 DEF Approve
  <2> DEFINE rec == [NoCall EXCEPT !.at = "found", !.id = i, !.token = k]
  <2>4. rec.at = "found" /\ rec.id = i
    BY DEF NoCall
  <2> HIDE DEF rec
  <2>5. call' = [call EXCEPT ![c] = rec]
    BY <2>1 DEF rec
  <2>6. QED BY <1>2, <2>2, <2>3, <2>4, <2>5
<1>5. ASSUME NEW c \in Caller, PeekArgs(c) PROVE ClickInv'
  <2> DEFINE rec == [call[c] EXCEPT !.at = "peeked", !.t = approvalNow,
                              !.args = call[c].id \in Unexpired(vault, approvalNow)]
  <2>1. call[c].at = "found" /\ call' = [call EXCEPT ![c] = rec] /\ UNCHANGED <<runs, rejected, late>>
    BY <1>5 DEF PeekArgs, Begin
  <2>2. rec.at = "peeked" /\ rec.id = call[c].id
    BY <1>1 DEF Call
  <2>3. call[c].id \in Id /\ call[c].id <= ids
    BY <2>1 DEF ClickInv, ClickedIsGranted
  <2> HIDE DEF rec
  <2>4. QED BY <1>2, <2>1, <2>2, <2>3
<1>6. ASSUME NEW c \in Caller, ConsumeApproval(c) PROVE ClickInv'
  <2>1. CASE IsGranted(c)'
    BY <1>6, <2>1, GrantKeeps
  <2>2. CASE ~IsGranted(c)'
    <3>1. UNCHANGED <<runs, rejected, late>>
      BY <1>6 DEF ConsumeApproval
    <3>2. call' = [call EXCEPT ![c] = NoCall]
      <4>1. PICK v \in {vault, Without(vault, Id)} :
              LET found == {e \in Pending(v) : v[e].token = call[c].token}
              IN \/ \E e \in found : Expire(c, v, e) \/ Mismatch(c, v, e) \/ Consume(c, v, e)
                 \/ found = {} /\ vault' = PrunedApprovals(v, call[c].t) /\ Done(c)
        BY <1>6 DEF ConsumeApproval
      <4>2. ASSUME NEW e, Consume(c, v, e) PROVE FALSE
        <5>1. call' = [call EXCEPT ![c] = [call[c] EXCEPT !.at = "granted", !.entry = e]]
          BY <4>2 DEF Consume, Begin
        <5>2. call'[c] = [call[c] EXCEPT !.at = "granted", !.entry = e] /\ call[c] \in Call
          BY <1>1, <5>1
        <5>3. call'[c].at = "granted"
          BY <5>2 DEF Call
        <5>4. QED BY <2>2, <5>3 DEF IsGranted
      <4>3. QED BY <4>1, <4>2 DEF Expire, Mismatch, Done
    <3>3. NoCall.at = "idle"
      BY DEF NoCall
    <3>4. QED BY <1>2, <3>1, <3>2, <3>3
  <2>3. QED BY <2>1, <2>2
<1>7. CASE Restart
  <2>1. \A c \in Caller : call'[c].at = "idle"
    BY <1>7 DEF Restart, NoCall
  <2>2. QED BY <1>7, <2>1, PlainKeeps DEF Restart
<1>8. CASE ApprovalTick \/ UNCHANGED approvalVars
  BY <1>8, PlainKeeps DEF ApprovalTick, approvalVars
<1>9. QED BY <1>3, <1>4, <1>5, <1>6, <1>7, <1>8, RunKeeps, RejectKeeps DEF ApprovalsNext

LEMMA ClickAlways == ApprovalsSpec => []ClickInv
<1> QED BY ClickInitially, ClickStep, PTL DEF ApprovalsSpec

\* What is about to run is the action of the approval that was clicked on, whichever
\* token came with the click and whatever was staged, rotated or pruned meanwhile.
THEOREM ClickedTheorem == ApprovalsSpec => []RunsWhatWasClicked
<1>1. ClickInv => RunsWhatWasClicked
  BY DEF ClickInv, ClickedIsGranted
<1> QED BY <1>1, ClickAlways, PTL

\* An action whose rejection was answered with ok is never executed, unless a click
\* had consumed the approval by then: for any number of tabs, tokens and faults.
THEOREM RejectedTheorem == ApprovalsSpec => []RejectedNeverRunsUnlessLate
<1>1. ClickInv => RejectedNeverRunsUnlessLate
  BY DEF ClickInv, RejectedIsGone, RejectedNeverRunsUnlessLate
<1> QED BY <1>1, ClickAlways, PTL
=============================================================================

------------------------- MODULE RequestServingProofs -------------------------
(***************************************************************************)
(* What holds of RequestServing for any set of accounts, ids, limits and   *)
(* request goroutines.                                                     *)
(***************************************************************************)
EXTENDS RequestServing, FiniteSetTheorems, TLAPS

-----------------------------------------------------------------------------
(* The pool's own variables keep their types under every pool operation.    *)

(* A bucket stays a bucket when a token is taken from it or added to it.    *)
LEMMA BucketClosed ==
    ASSUME NEW b \in Bucket
    PROVE  /\ HasToken(b) => Consume(b) \in Bucket
           /\ Refilled(b) \in Bucket
BY DEF Bucket, HasToken, Consume, Refilled

(* A fresh bucket is full and well formed.                                  *)
LEMMA NewBucketType == \A rpm \in Nat : NewTokenBucket(rpm) \in Bucket
BY DEF Bucket, NewTokenBucket

(* A backoff never exceeds its cap.                                         *)
LEMMA AtMostType ==
    ASSUME NEW n \in Nat, NEW bound \in Nat
    PROVE  AtMost(n, bound) \in 0..bound
BY DEF AtMost

(* What a penalty leaves of an account is again an account.                   *)
LEMMA PenaliseType ==
    ASSUME PoolTypeOK, NEW a \in Account, NEW kind, Penalise(a, kind)
    PROVE  failures' \in [Account -> 0..MaxBackoff] /\ cooldown' \in [Account -> 0..MaxBackoff]
<1>1. CASE kind \in {"quiet", "client"}
  BY <1>1 DEF Penalise, PoolTypeOK, health
<1>2. CASE kind \notin {"quiet", "client"}
  <2> DEFINE n == AtMost(failures[a] + 1, MaxBackoff)
             base == IF kind = "rate" THEN LongBackoff ELSE ShortBackoff
  <2>1. failures[a] + 1 \in Nat
    BY DEF PoolTypeOK
  <2>2. n \in 0..MaxBackoff
    BY <2>1, AtMostType, PoolAssumption
  <2>3. base \in Nat
    BY PoolAssumption
  <2>4. n * base \in Nat
    BY <2>2, <2>3, PoolAssumption
  <2>5. AtMost(n * base, MaxBackoff) \in 0..MaxBackoff
    BY <2>4, AtMostType, PoolAssumption
  <2>6. /\ failures' = [failures EXCEPT ![a] = n]
        /\ cooldown' = [cooldown EXCEPT ![a] = AtMost(n * base, MaxBackoff)]
    BY <1>2 DEF Penalise
  <2> HIDE DEF n, base
  <2> QED
    BY <2>2, <2>5, <2>6 DEF PoolTypeOK
<1> QED
  BY <1>1, <1>2

(* The operations requests perform.                                         *)
LEMMA OperationTypes ==
    ASSUME PoolTypeOK, NEW a \in Account,
           \/ Admit(a) \/ Refuse(a) \/ ReleaseSlot(a) \/ RecordSuccess(a) \/ ConsumeGlobal
           \/ \E kind \in FailureKind : RecordFailure(a, kind)
    PROVE  PoolTypeOK'
<1>1. CASE Admit(a)
  BY <1>1, BucketClosed DEF Admit, PoolTypeOK, members, health
<1>2. CASE Refuse(a)
  BY <1>2 DEF Refuse, PoolTypeOK, poolVars, members, health, limits
<1>3. CASE ReleaseSlot(a)
  BY <1>3 DEF ReleaseSlot, PoolTypeOK, members, health, limits
<1>4. CASE RecordSuccess(a)
  BY <1>4, PoolAssumption DEF RecordSuccess, PoolTypeOK, members, limits
<1>5. CASE ConsumeGlobal
  BY <1>5, BucketClosed DEF ConsumeGlobal, PoolTypeOK, members, health
<1>6. CASE \E kind \in FailureKind : RecordFailure(a, kind)
  BY <1>6, PenaliseType DEF RecordFailure, PoolTypeOK, members, limits
<1> QED
  BY <1>1, <1>2, <1>3, <1>4, <1>5, <1>6

(* The administrator and the clock.                                         *)
LEMMA EnvironmentTypes ==
    ASSUME PoolTypeOK, Environment
    PROVE  PoolTypeOK'
<1> USE DEF members, health, limits
<1>1. CASE CooldownTick
  BY <1>1, PoolAssumption DEF CooldownTick, PoolTypeOK
<1>2. CASE RefillGlobal
  BY <1>2, BucketClosed DEF RefillGlobal, PoolTypeOK
<1>3. ASSUME NEW a \in Account, RefillAccount(a)
      PROVE  PoolTypeOK'
  BY <1>3, BucketClosed DEF RefillAccount, PoolTypeOK
<1>4. ASSUME NEW a \in Account, NEW on \in BOOLEAN, SetEnabled(a, on)
      PROVE  PoolTypeOK'
  BY <1>4 DEF SetEnabled, PoolTypeOK
<1>5. ASSUME NEW a \in Account, RemoveAccount(a)
      PROVE  PoolTypeOK'
  BY <1>5 DEF RemoveAccount, PoolTypeOK
<1>6. ASSUME NEW a \in Account, AddCheck(a) \/ AddStarted(a) \/ AddUndone(a)
      PROVE  PoolTypeOK'
  BY <1>6 DEF AddCheck, AddStarted, AddUndone, PoolTypeOK
<1>7. ASSUME NEW a \in Account, NEW rpm \in Nat, AddInstall(a, rpm)
      PROVE  PoolTypeOK'
  BY <1>7, NewBucketType DEF AddInstall, PoolTypeOK
<1>8. ASSUME NEW a \in Account, AddStartFails(a)
      PROVE  PoolTypeOK'
  <2>1. PICK b \in pool \cap SameId(a), kind \in FailureKind : Penalise(b, kind)
    BY <1>8 DEF AddStartFails
  <2>2. failures' \in [Account -> 0..MaxBackoff] /\ cooldown' \in [Account -> 0..MaxBackoff]
    BY <2>1, PenaliseType DEF PoolTypeOK
  <2> QED
    BY <1>8, <2>1, <2>2 DEF AddStartFails, PoolTypeOK
<1>9. ASSUME NEW a \in Account, ClearError(a)
      PROVE  PoolTypeOK'
  BY <1>9, PoolAssumption DEF ClearError, PoolTypeOK
<1>10. ASSUME NEW a \in Account, NEW rpm \in Nat, ConfigureAccount(a, rpm)
       PROVE  PoolTypeOK'
  BY <1>10, NewBucketType DEF ConfigureAccount, PoolTypeOK
<1>11. ASSUME NEW rpm \in Nat, ConfigureGlobal(rpm)
       PROVE  PoolTypeOK'
  BY <1>11, NewBucketType DEF ConfigureGlobal, PoolTypeOK
<1>12. CASE ConfigureSnapshot
  BY <1>12 DEF ConfigureSnapshot, PoolTypeOK
<1> QED
  BY <1>1, <1>2, <1>3, <1>4, <1>5, <1>6, <1>7, <1>8, <1>9, <1>10, <1>11, <1>12, PoolAssumption
     DEF Environment, Clock, Administration

-----------------------------------------------------------------------------
(* The inductive invariant behind the safety theorems.                      *)

(* A goroutine holds a slot exactly between TryAcquire and Release, aims at *)
(* an account exactly while it tries it, and has candidates only while it   *)
(* selects.                                                                 *)
Attached ==
    \A r \in Request :
        /\ held[r] # None <=> pc[r] \in {"call", "release"}
        /\ target[r] # None <=> pc[r] \in {"global", "acquire"}
        /\ cands[r] # {} => pc[r] \in {"pick", "global", "acquire"}

(* Nothing a goroutine may still try has failed it before.                  *)
Fresh ==
    /\ FailoverMovesOn
    /\ \A r \in Request :
         /\ \A a \in cands[r] : IdOf[a] \notin excluded[r]
         /\ pc[r] \in {"idle", "prepare", "invalid", "wait"} => excluded[r] = {}

IInv == TypeOK /\ Attached /\ Fresh

(* Init establishes it.                                                     *)
LEMMA InitIInv == Init => IInv
<1> SUFFICES ASSUME Init PROVE IInv
  OBVIOUS
<1>1. PoolTypeOK
  <2>1. NewTokenBucket(AccountRPM) \in Bucket /\ NewTokenBucket(GlobalRPM) \in Bucket
    BY PoolAssumption, NewBucketType
  <2>2. 0 \in 0..MaxBackoff /\ InitialPool \subseteq Account
    BY PoolAssumption
  <2>3. /\ pool \subseteq Account /\ enabled \in [Account -> BOOLEAN]
        /\ adding \in [Account -> {"absent", "checked", "installed", "failing", "settled"}]
    BY <2>2 DEF Init, PoolInit
  <2>4. /\ cooldown \in [Account -> 0..MaxBackoff] /\ failures \in [Account -> 0..MaxBackoff]
        /\ inFlight \in [Account -> Nat]
    BY <2>2 DEF Init, PoolInit
  <2>5. /\ bucket \in [Account -> Bucket] /\ global \in Bucket
        /\ swapped \in BOOLEAN /\ configuring \subseteq Account
    BY <2>1 DEF Init, PoolInit
  <2> QED
    BY <2>3, <2>4, <2>5 DEF PoolTypeOK
<1>2. TypeOK
  BY <1>1, RequestAssumption DEF Init, TypeOK, Location, Outcome
<1>3. Attached
  BY RequestAssumption DEF Init, Attached
<1>4. Fresh
  BY DEF Init, Fresh, FailoverMovesOn
<1> QED
  BY <1>2, <1>3, <1>4 DEF IInv

(* Every step of the goroutines keeps it.                                   *)
LEMMA ServeKeepsIInv ==
    ASSUME IInv, NEW r \in Request, Client(r) \/ Serve(r)
    PROVE  IInv'
<1> USE RequestAssumption, PoolAssumption
    DEF IInv, TypeOK, Attached, Fresh, FailoverMovesOn, Location, Outcome, Goto, Answer, selection
<1> DEFINE SamePool == UNCHANGED poolVars
<1>0. SamePool => PoolTypeOK'
  BY DEF PoolTypeOK, poolVars, members, health, limits
<1> HIDE DEF SamePool
<1>1. CASE Arrive(r)
  <2>1. PoolTypeOK'
    BY <1>1, <1>0 DEF Arrive, SamePool
  <2> QED
    BY <1>1, <2>1 DEF Arrive
<1>2. CASE Disconnect(r)
  <2>1. PoolTypeOK'
    BY <1>2, <1>0 DEF Disconnect, SamePool
  <2> QED
    BY <1>2, <2>1 DEF Disconnect
<1>3. CASE CacheHit(r)
  <2>1. PoolTypeOK'
    BY <1>3, <1>0 DEF CacheHit, SamePool
  <2> QED
    BY <1>3, <2>1 DEF CacheHit
<1>4. CASE Select(r)
  <2>1. PoolTypeOK'
    BY <1>4, <1>0 DEF Select, BeginPicking, SamePool
  <2>2. Candidates \subseteq Account
    BY DEF Candidates, PoolTypeOK
  <2> QED
    <3>1. CASE Candidates # {} /\ BeginPicking(r, Candidates)
      BY <1>4, <2>1, <2>2, <3>1 DEF Select, BeginPicking
    <3>2. CASE ~(Candidates # {} /\ BeginPicking(r, Candidates))
      <4>1. /\ pc[r] = "prepare"
            /\ \E o \in {"no_account", "rate_limited"} :
                 pc' = [pc EXCEPT ![r] = "done"] /\ outcome' = [outcome EXCEPT ![r] = o]
            /\ UNCHANGED <<held, selection, excluded, polls, gone>>
        BY <1>4, <3>2 DEF Select
      <4>2. TypeOK'
        BY <2>1, <4>1
      <4>3. Attached' /\ Fresh'
        BY <4>1
      <4> QED
        BY <4>2, <4>3
    <3> QED
      BY <3>1, <3>2
<1>5. CASE SelectExcluding(r)
  <2>1. PoolTypeOK'
    BY <1>5, <1>0 DEF SelectExcluding, BeginPicking, SamePool
  <2>2. NotExcluded(r) \subseteq Account /\ \A a \in NotExcluded(r) : IdOf[a] \notin excluded[r]
    BY DEF NotExcluded, Candidates, PoolTypeOK
  <2> QED
    <3>1. CASE BeginPicking(r, NotExcluded(r))
      BY <1>5, <2>1, <2>2, <3>1 DEF SelectExcluding, BeginPicking
    <3>2. CASE ~BeginPicking(r, NotExcluded(r))
      <4>1. /\ pc[r] = "reselect"
            /\ pc' = [pc EXCEPT ![r] = "done"] /\ outcome' = [outcome EXCEPT ![r] = "error"]
            /\ UNCHANGED <<held, selection, excluded, polls, gone>>
        BY <1>5, <3>2 DEF SelectExcluding
      <4>2. TypeOK'
        BY <2>1, <4>1
      <4>3. Attached' /\ Fresh'
        BY <4>1
      <4> QED
        BY <4>2, <4>3
    <3> QED
      BY <3>1, <3>2
<1>6. ASSUME NEW a \in Account, Pick(r, a)
      PROVE  IInv'
  <2>1. PoolTypeOK'
    BY <1>6, <1>0 DEF Pick, SamePool
  <2>2. CASE Discard(r, a)
    <3>1. TypeOK'
      BY <1>6, <2>1, <2>2 DEF Discard
    <3>2. Attached' /\ Fresh'
      BY <1>6, <2>2 DEF Pick, Discard
    <3> QED
      BY <3>1, <3>2
  <2>3. CASE ~Discard(r, a)
    <3>1. /\ pc[r] = "pick" /\ a \in cands[r] /\ target' = [target EXCEPT ![r] = a]
          /\ Goto(r, "global")
          /\ UNCHANGED <<held, cands, eligible, excluded, polls, gone, outcome>>
      BY <1>6, <2>3 DEF Pick
    <3>2. TypeOK'
      BY <2>1, <3>1
    <3>3. Attached' /\ Fresh'
      BY <3>1
    <3> QED
      BY <3>2, <3>3
  <2> QED
    BY <2>2, <2>3
<1>7. CASE TakeGlobalToken(r)
  <2>1. target[r] \in Account
    BY <1>7 DEF TakeGlobalToken
  <2>2. PoolTypeOK'
    BY <1>7, <1>0, <2>1, OperationTypes DEF TakeGlobalToken, SamePool
  <2> QED
    BY <1>7, <2>1, <2>2 DEF TakeGlobalToken, Discard
<1>8. CASE TryAcquire(r)
  <2>1. target[r] \in Account
    BY <1>8 DEF TryAcquire
  <2>2. PoolTypeOK'
    BY <1>8, <2>1, OperationTypes DEF TryAcquire
  <2> QED
    <3>1. CASE Admit(target[r])
      <4>1. ~Refuse(target[r])
        BY <3>1 DEF Admit, Refuse
      <4>2. /\ held' = [held EXCEPT ![r] = target[r]] /\ SelectionEnds(r)
            /\ polls' = [polls EXCEPT ![r] = 0] /\ gone' = [gone EXCEPT ![r] = FALSE]
            /\ Goto(r, "call") /\ UNCHANGED <<excluded, outcome>>
        BY <1>8, <4>1 DEF TryAcquire
      <4>3. IdOf[target[r]] \notin excluded[r] /\ pc[r] = "acquire"
        BY <1>8, <2>1 DEF TryAcquire
      <4>4. TypeOK'
        BY <2>1, <2>2, <4>2 DEF SelectionEnds
      <4>5. Attached'
        BY <2>1, <4>2, <4>3 DEF SelectionEnds
      <4>6. Fresh'
        BY <2>1, <4>2, <4>3 DEF SelectionEnds
      <4> QED
        BY <4>4, <4>5, <4>6
    <3>2. CASE Refuse(target[r])
      <4>1. pc[r] = "acquire" /\ Discard(r, target[r])
        BY <1>8, <3>2 DEF TryAcquire, Admit, Refuse
      <4>2. TypeOK'
        BY <2>1, <2>2, <4>1 DEF Discard
      <4>3. Attached' /\ Fresh'
        BY <4>1 DEF Discard
      <4> QED
        BY <4>2, <4>3
    <3> QED
      BY <1>8, <3>1, <3>2 DEF TryAcquire
<1>9. CASE Exhausted(r)
  <2>1. PoolTypeOK'
    BY <1>9, <1>0 DEF Exhausted, SamePool
  <2> QED
    BY <1>9, <2>1 DEF Exhausted, SelectionEnds, FailingOver
<1>10. CASE PollAgain(r)
  <2>1. PoolTypeOK'
    BY <1>10, <1>0 DEF PollAgain, SamePool
  <2>2. TypeOK'
    BY <1>10, <2>1 DEF PollAgain
  <2>3. Attached' /\ Fresh'
    BY <1>10 DEF PollAgain
  <2> QED
    BY <2>2, <2>3
<1>11. CASE BackendSucceeds(r)
  <2>1. PoolTypeOK'
    BY <1>11, OperationTypes DEF BackendSucceeds
  <2> QED
    BY <1>11, <2>1 DEF BackendSucceeds
<1>12. CASE EmbeddingsUnsupported(r)
  <2>1. PoolTypeOK'
    BY <1>12, <1>0 DEF EmbeddingsUnsupported, SamePool
  <2> QED
    BY <1>12, <2>1 DEF EmbeddingsUnsupported
<1>13. ASSUME NEW kind \in FailureKind, BackendFails(r, kind)
       PROVE  IInv'
  <2>1. PoolTypeOK'
    BY <1>13, OperationTypes DEF BackendFails
  <2> QED
    BY <1>13, <2>1 DEF BackendFails
<1>14. CASE Release(r)
  <2>1. held[r] \in Account /\ IdOf[held[r]] \in Id
    BY <1>14 DEF Release
  <2>2. PoolTypeOK'
    BY <1>14, <2>1, OperationTypes DEF Release
  <2>3. /\ pc[r] = "release" /\ cands[r] = {} /\ target[r] = None
    BY <1>14 DEF Release
  <2>4. /\ pc' \in {[pc EXCEPT ![r] = "reselect"], [pc EXCEPT ![r] = "done"]}
        /\ held' = [held EXCEPT ![r] = None]
        /\ excluded' \in {excluded, [excluded EXCEPT ![r] = @ \cup {IdOf[held[r]]}]}
        /\ UNCHANGED <<selection, polls, gone, outcome>>
    BY <1>14 DEF Release
  <2>5. TypeOK'
    BY <2>1, <2>2, <2>4
  <2>6. Attached'
    BY <2>3, <2>4
  <2>7. Fresh'
    BY <2>3, <2>4
  <2> QED
    BY <2>5, <2>6, <2>7
<1>15. CASE PrepareInvalid(r)
  <2>1. PoolTypeOK'
    BY <1>15, <1>0 DEF PrepareInvalid, SamePool
  <2>2. TypeOK'
    BY <1>15, <2>1 DEF PrepareInvalid
  <2>3. Attached' /\ Fresh'
    BY <1>15 DEF PrepareInvalid
  <2> QED
    BY <2>2, <2>3
<1>16. CASE Reply(r)
  <2>1. PoolTypeOK'
    BY <1>16, <1>0 DEF Reply, SamePool
  <2> QED
    BY <1>16, <2>1 DEF Reply
<1> QED
  BY <1>1, <1>2, <1>3, <1>4, <1>5, <1>6, <1>7, <1>8, <1>9, <1>10, <1>11, <1>12, <1>13, <1>14, <1>15, <1>16
     DEF Client, Serve, Routing, BackendReturns

(* So does every step of the whole system.                                  *)
LEMMA NextKeepsIInv == IInv /\ [Next]_vars => IInv'
<1> SUFFICES ASSUME IInv, [Next]_vars PROVE IInv'
  OBVIOUS
<1> USE DEF IInv
<1>1. CASE \E r \in Request : Client(r) \/ Serve(r)
  BY <1>1, ServeKeepsIInv
<1>2. CASE Environment /\ UNCHANGED requestVars
  BY <1>2, EnvironmentTypes
     DEF TypeOK, Attached, Fresh, FailoverMovesOn, requestVars, selection
<1>3. CASE UNCHANGED vars
  BY <1>3 DEF vars, poolVars, members, health, limits, requestVars, selection,
              TypeOK, PoolTypeOK, Attached, Fresh, FailoverMovesOn
<1> QED
  BY <1>1, <1>2, <1>3 DEF Next

(* The invariant holds of every state of the system.                          *)
LEMMA Inductive == Spec => []IInv
BY InitIInv, NextKeepsIInv, PTL DEF Spec

(* Type correctness of every variable in every reachable state.             *)
THEOREM TypeCorrect == Spec => []TypeOK
<1>1. IInv => TypeOK
  BY DEF IInv
<1> QED
  BY <1>1, Inductive, PTL

(* A failover never returns to an id that has failed the request, whatever  *)
(* is added, removed or reconfigured meanwhile.                             *)
THEOREM FailoverProgress == Spec => []FailoverMovesOn
<1>1. IInv => FailoverMovesOn
  BY DEF IInv, Fresh
<1> QED
  BY <1>1, Inductive, PTL

-----------------------------------------------------------------------------
(* Slots.  A step of the system takes one slot, gives one back, or leaves   *)
(* both the holders and the counters alone.                                 *)

Takes(r, a) ==
    /\ held[r] = None /\ MayAdmit(a) /\ ~RateLimited(bucket[a])
    /\ held' = [held EXCEPT ![r] = a]
    /\ inFlight' = [inFlight EXCEPT ![a] = @ + 1]

Gives(r, a) ==
    /\ held[r] = a
    /\ held' = [held EXCEPT ![r] = None]
    /\ inFlight' = [inFlight EXCEPT ![a] = IF @ > 0 THEN @ - 1 ELSE 0]

SlotStep ==
    \/ UNCHANGED <<held, inFlight>>
    \/ \E r \in Request, a \in Account : Takes(r, a) \/ Gives(r, a)

(* Every action is one of the three.                                        *)
LEMMA NextIsSlotStep ==
    ASSUME IInv, [Next]_vars
    PROVE  SlotStep
<1>1. CASE Environment /\ UNCHANGED requestVars
  <2>1. UNCHANGED inFlight
    BY <1>1 DEF Environment, Clock, Administration, CooldownTick, RefillGlobal, RefillAccount,
                SetEnabled, RemoveAccount, AddCheck, AddInstall, AddStarted, AddStartFails,
                AddUndone, ClearError, ConfigureAccount, ConfigureGlobal, ConfigureSnapshot
  <2> QED
    BY <1>1, <2>1 DEF SlotStep, requestVars
<1>2. CASE UNCHANGED vars
  BY <1>2 DEF vars, poolVars, requestVars, SlotStep
<1>3. ASSUME NEW r \in Request, TryAcquire(r)
      PROVE  SlotStep
  <2>1. target[r] \in Account /\ held[r] = None
    BY <1>3 DEF TryAcquire, IInv, Attached, TypeOK
  <2>2. CASE Admit(target[r]) /\ held' = [held EXCEPT ![r] = target[r]]
    <3>1. Takes(r, target[r])
      BY <2>1, <2>2 DEF Admit, Takes, RateLimited
    <3> QED
      BY <2>1, <3>1 DEF SlotStep
  <2>3. CASE Refuse(target[r]) /\ Discard(r, target[r])
    BY <2>3 DEF Refuse, poolVars, Discard, SlotStep
  <2> QED
    BY <1>3, <2>2, <2>3 DEF TryAcquire
<1>4. ASSUME NEW r \in Request, Release(r)
      PROVE  SlotStep
  <2>1. held[r] \in Account
    BY <1>4 DEF Release, IInv, Attached, TypeOK
  <2>2. Gives(r, held[r])
    BY <1>4 DEF Release, ReleaseSlot, Gives
  <2> QED
    BY <2>1, <2>2 DEF SlotStep
<1>5. ASSUME NEW r \in Request, BackendReturns(r)
      PROVE  SlotStep
  BY <1>5 DEF BackendReturns, BackendSucceeds, BackendFails, EmbeddingsUnsupported,
              RecordSuccess, RecordFailure, poolVars, SlotStep
<1>6. ASSUME NEW r \in Request, NEW a \in Account, Pick(r, a)
      PROVE  SlotStep
  BY <1>6 DEF Pick, Discard, poolVars, SlotStep
<1>7. ASSUME NEW r \in Request, TakeGlobalToken(r)
      PROVE  SlotStep
  BY <1>7 DEF TakeGlobalToken, ConsumeGlobal, Discard, poolVars, SlotStep
<1>8. ASSUME NEW r \in Request,
             \/ Client(r) \/ CacheHit(r) \/ PrepareInvalid(r) \/ Select(r) \/ SelectExcluding(r)
             \/ Exhausted(r) \/ PollAgain(r) \/ Reply(r)
      PROVE  SlotStep
  BY <1>8 DEF Client, Arrive, Disconnect, CacheHit, PrepareInvalid, Select, SelectExcluding, BeginPicking,
              Exhausted, PollAgain, Reply, poolVars, SlotStep
<1> QED
  BY <1>1, <1>2, <1>3, <1>4, <1>5, <1>6, <1>7, <1>8 DEF Next, Serve, Routing

(* An account's holders are among the finitely many requests.                 *)
LEMMA HoldersFinite == \A a : IsFiniteSet(Holders(a)) /\ Cardinality(Holders(a)) \in Nat
<1> TAKE a
<1>1. Holders(a) \in SUBSET Request
  BY DEF Holders
<1> QED
  BY <1>1, FS_Subset, FS_CardinalityType, RequestAssumption

SlotInv == SlotsAccounted /\ InFlightBounded

(* Taking a slot adds one holder, giving it back removes that holder.       *)
LEMMA SlotStepKeepsSlotInv ==
    ASSUME IInv, SlotInv, SlotStep
    PROVE  SlotInv'
<1> USE DEF SlotInv, SlotsAccounted, InFlightBounded
<1>0. inFlight \in [Account -> Nat] /\ held \in [Request -> Account \cup {None}]
  BY DEF IInv, TypeOK, PoolTypeOK
<1>1. CASE UNCHANGED <<held, inFlight>>
  BY <1>1 DEF Holders
<1>2. ASSUME NEW r \in Request, NEW a \in Account, Takes(r, a)
      PROVE  SlotInv'
  <2>1. r \notin Holders(a)
    BY <1>2, RequestAssumption DEF Takes, Holders
  <2>2. Holders(a)' = Holders(a) \cup {r}
    BY <1>0, <1>2 DEF Takes, Holders
  <2>3. Cardinality(Holders(a)') = inFlight[a] + 1
    BY <2>1, <2>2, HoldersFinite, FS_AddElement
  <2>4. \A b \in Account \ {a} : Holders(b)' = Holders(b)
    BY <1>0, <1>2, RequestAssumption DEF Takes, Holders
  <2>5. inFlight'[a] = inFlight[a] + 1 /\ \A b \in Account \ {a} : inFlight'[b] = inFlight[b]
    BY <1>0, <1>2 DEF Takes
  <2>6. SlotsAccounted'
    <3> TAKE b \in Account
    <3> QED
      BY <2>3, <2>4, <2>5
  <2>7. InFlightBounded'
    <3> TAKE b \in Account
    <3>1. MaxConcurrency[a] \in Nat /\ inFlight[a] < MaxConcurrency[a]
      BY <1>2, PoolAssumption DEF Takes, MayAdmit
    <3> QED
      BY <1>0, <2>5, <3>1
  <2> QED
    BY <2>6, <2>7
<1>3. ASSUME NEW r \in Request, NEW a \in Account, Gives(r, a)
      PROVE  SlotInv'
  <2>1. r \in Holders(a)
    BY <1>3 DEF Gives, Holders
  <2>2. Holders(a)' = Holders(a) \ {r}
    BY <1>0, <1>3, RequestAssumption DEF Gives, Holders
  <2>3. Cardinality(Holders(a)') = inFlight[a] - 1
    BY <2>1, <2>2, HoldersFinite, FS_RemoveElement
  <2>4. inFlight[a] > 0
    BY <1>0, <2>1, HoldersFinite, FS_EmptySet
  <2>5. \A b \in Account \ {a} : Holders(b)' = Holders(b)
    BY <1>0, <1>3, RequestAssumption DEF Gives, Holders
  <2>6. inFlight'[a] = inFlight[a] - 1 /\ \A b \in Account \ {a} : inFlight'[b] = inFlight[b]
    BY <1>0, <1>3, <2>4 DEF Gives
  <2>7. SlotsAccounted'
    <3> TAKE b \in Account
    <3> QED
      BY <2>3, <2>5, <2>6
  <2>8. InFlightBounded'
    <3> TAKE b \in Account
    <3>1. MaxConcurrency[b] \in Nat
      BY PoolAssumption
    <3> QED
      BY <1>0, <2>6, <3>1
  <2> QED
    BY <2>7, <2>8
<1> QED
  BY <1>1, <1>2, <1>3 DEF SlotStep

(* At first no account has a slot taken and no request holds one.             *)
LEMMA InitSlotInv == Init => SlotInv
<1> SUFFICES ASSUME Init PROVE SlotInv
  OBVIOUS
<1>1. \A a \in Account : Holders(a) = {}
  BY RequestAssumption DEF Init, Holders
<1>2. inFlight = [a \in Account |-> 0]
  BY DEF Init, PoolInit
<1>3. SlotsAccounted
  BY <1>1, <1>2, FS_EmptySet DEF SlotsAccounted
<1>4. InFlightBounded
  BY <1>2, PoolAssumption DEF InFlightBounded
<1> QED
  BY <1>3, <1>4 DEF SlotInv

(* The count of slots and the requests that hold them agree in every state.   *)
LEMMA SlotInvariant == Spec => []SlotInv
<1>1. IInv /\ SlotInv /\ [Next]_vars => SlotInv'
  BY NextIsSlotStep, SlotStepKeepsSlotInv
<1> QED
  BY <1>1, InitSlotInv, Inductive, PTL DEF Spec

(* InFlight counts exactly the requests that hold a slot: no interleaving   *)
(* of failover, administration and disconnects leaks or double-releases.    *)
THEOREM SlotAccounting == Spec => []SlotsAccounted
<1>1. SlotInv => SlotsAccounted
  BY DEF SlotInv
<1> QED
  BY <1>1, SlotInvariant, PTL

(* No account ever serves more requests than its max_concurrency.           *)
THEOREM ConcurrencyBound == Spec => []InFlightBounded
<1>1. SlotInv => InFlightBounded
  BY DEF SlotInv
<1> QED
  BY <1>1, SlotInvariant, PTL

-----------------------------------------------------------------------------
(* The goroutines implement the abstract pool of counted slots (its safety  *)
(* part: that slots are given back at all is checked, not proved).          *)
THEOREM Refinement == Spec => Slots!SafeSpec
<1>1. Init => Slots!Init
  BY DEF Init, Slots!Init
<1>2. IInv /\ SlotInv /\ [Next]_vars => [Slots!Next]_held
  <2> SUFFICES ASSUME IInv, SlotInv, [Next]_vars
               PROVE  [Slots!Next]_held
    OBVIOUS
  <2>1. CASE UNCHANGED <<held, inFlight>>
    BY <2>1
  <2>2. ASSUME NEW r \in Request, NEW a \in Account, Takes(r, a)
        PROVE  Slots!Next
    <3>1. Cardinality(Slots!HoldersOf(a)) < MaxConcurrency[a]
      BY <2>2 DEF Takes, MayAdmit, SlotInv, SlotsAccounted, Holders, Slots!HoldersOf
    <3>2. Slots!Cardinality(Slots!HoldersOf(a)) = Cardinality(Slots!HoldersOf(a))
      BY DEF Slots!Cardinality, Cardinality
    <3>3. Slots!Take(r, a)
      BY <2>2, <3>1, <3>2 DEF Takes, Slots!Take
    <3> QED
      BY <3>3 DEF Slots!Next
  <2>3. ASSUME NEW r \in Request, NEW a \in Account, Gives(r, a)
        PROVE  Slots!Next
    <3>1. Slots!Give(r)
      BY <2>3, RequestAssumption DEF Gives, Slots!Give
    <3> QED
      BY <3>1 DEF Slots!Next
  <2> QED
    BY <2>1, <2>2, <2>3, NextIsSlotStep DEF SlotStep
<1> QED
  BY <1>1, <1>2, Inductive, SlotInvariant, PTL DEF Spec, Slots!SafeSpec
=============================================================================

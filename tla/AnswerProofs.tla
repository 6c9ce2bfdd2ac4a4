---------------------------- MODULE AnswerProofs ----------------------------
(***************************************************************************)
(* What holds of answers: of collected ones (CollectedTurn) for any        *)
(* requests, texts, usages and number of events, and of streamed ones      *)
(* (AnswerStream) for any text, any calls and any cutting into deltas.     *)
(* And of what is asked (Conversation): for any talk, however long.        *)
(***************************************************************************)
EXTENDS CollectedTurn, AnswerStream, Conversation, SequenceLemmas

-----------------------------------------------------------------------------
(* Collected answers. *)

UsageType == [in : Nat, out : Nat, total : Nat]

(* A usage whose total is not below its parts.                              *)
Sound(u) == u \in UsageType /\ u.total >= u.in + u.out

-----------------------------------------------------------------------------
(* Usages. *)

(* Normalized makes every usage sound, and leaves a sound one alone.        *)
LEMMA NormalizedIsSound ==
    ASSUME NEW u \in UsageType
    PROVE  /\ Sound(Normalized(u))
           /\ Sound(u) => Normalized(u) = u
<1>1. u.in \in Nat /\ u.out \in Nat /\ u.total \in Nat /\ u.in + u.out \in Nat
  BY DEF UsageType
<1>2. Greater(u.total, u.in + u.out) \in Nat /\ Greater(u.total, u.in + u.out) >= u.in + u.out
  BY <1>1 DEF Greater
<1>3. Sound(u) => Greater(u.total, u.in + u.out) = u.total
  BY <1>1 DEF Greater, Sound
<1> QED
  BY <1>1, <1>2, <1>3 DEF Normalized, UsageType, Sound

(* mergeSDKUsage and accumulateUsage keep the type; accumulating two sound  *)
(* usages adds them.                                                        *)
LEMMA UsageSums ==
    ASSUME NEW u \in UsageType, NEW v \in UsageType
    PROVE  /\ mergeSDKUsage(u, v) \in UsageType
           /\ Add(u, v) \in UsageType
           /\ Sound(u) /\ Sound(v) => Sound(Add(u, v)) /\ accumulateUsage(u, v) = Add(u, v)
           /\ Sound(v) => Add(NoUsage, v) = v
<1>1. /\ u.in \in Nat /\ u.out \in Nat /\ u.total \in Nat
      /\ v.in \in Nat /\ v.out \in Nat /\ v.total \in Nat
  BY DEF UsageType
<1> DEFINE m == [in |-> Overwriting(u.in, v.in), out |-> Overwriting(u.out, v.out),
                 total |-> Overwriting(u.total, v.total)]
<1>2. m \in UsageType
  BY <1>1 DEF UsageType, Overwriting
<1>3. mergeSDKUsage(u, v) \in UsageType
  BY <1>2, NormalizedIsSound DEF mergeSDKUsage, Sound
<1>4. Add(u, v) \in UsageType
  BY <1>1 DEF Add, UsageType
<1>5. ASSUME Sound(u), Sound(v)
      PROVE  Sound(Add(u, v)) /\ accumulateUsage(u, v) = Add(u, v)
  <2>1. Sound(Add(u, v))
    BY <1>1, <1>4, <1>5 DEF Sound, Add
  <2>2. accumulateUsage(u, v) = Normalized(Add(u, v))
    BY DEF accumulateUsage, Add
  <2> QED
    BY <1>4, <2>1, <2>2, NormalizedIsSound
<1>6. Add(NoUsage, v) = v
  BY <1>1 DEF Add, NoUsage, UsageType
<1> QED
  BY <1>3, <1>4, <1>5, <1>6

-----------------------------------------------------------------------------
(* What an answer is made of. *)

(* Every answer applySDKOutputConstraints may leave has a sound usage.      *)
LEMMA ConstrainedAnswer ==
    ASSUME NEW r, r.usage \in UsageType, NEW answer \in Constrained(r)
    PROVE  /\ Sound(answer.usage)
           /\ answer = [status |-> "answered", content |-> answer.content, calls |-> answer.calls,
                        usage |-> answer.usage, finish |-> answer.finish]
<1> DEFINE usage == Finalized(r)
<1>1. \A c : ApproxTokens(c) \in Nat
  BY DEF ApproxTokens
<1>2. ASSUME NEW u \in UsageType, NEW n \in Nat
      PROVE  [u EXCEPT !.out = n] \in UsageType /\ [u EXCEPT !.out = n, !.total = 0] \in UsageType
  BY DEF UsageType
<1>3. usage \in UsageType
  <2>1. [r.usage EXCEPT !.out = ApproxTokens(r.content)] \in UsageType
    BY <1>1, <1>2
  <2> QED
    BY <2>1, NormalizedIsSound DEF Finalized, Sound
<1> HIDE DEF usage
<1>4. \E c, k, f : \E u \in UsageType : answer = Answer(c, k, u, f)
  <2>1. CASE Callers(r.calls) # <<>>
    BY <1>3, <2>1 DEF Constrained, usage
  <2>2. CASE ~(Callers(r.calls) # <<>>)
    <3>1. PICK c \in Lifted(r) : answer \in {Whole(Extracted(c), usage)} \cup CutShort(Extracted(c), usage)
      BY <2>2 DEF Constrained, usage
    <3>2. CASE answer = Whole(Extracted(c), usage)
      <4>1. [usage EXCEPT !.out = ApproxTokens(Extracted(c))] \in UsageType
        BY <1>1, <1>2, <1>3
      <4> QED
        BY <1>3, <3>2, <4>1 DEF Whole
    <3>3. CASE answer \in CutShort(Extracted(c), usage)
      <4> DEFINE Cut(d, f) == Answer(d, <<>>, [usage EXCEPT !.out = ApproxTokens(d), !.total = 0], f)
      <4>1. answer \in {Cut(d, f) : d \in {"cut", "empty"}, f \in {"stop", "length"}}
        BY <3>3 DEF CutShort
      <4> HIDE DEF Cut
      <4>2. PICK d \in {"cut", "empty"}, f \in {"stop", "length"} : answer = Cut(d, f)
        BY <4>1
      <4>3. [usage EXCEPT !.out = ApproxTokens(d), !.total = 0] \in UsageType
        BY <1>1, <1>2, <1>3
      <4> QED
        BY <4>2, <4>3 DEF Cut
    <3> QED
      BY <3>1, <3>2, <3>3
  <2> QED
    BY <2>1, <2>2
<1> QED
  BY <1>4, NormalizedIsSound DEF Answer

-----------------------------------------------------------------------------
(* The inductive invariant. *)

Typed ==
    /\ signal \in [idle : BOOLEAN, tool : BOOLEAN, err : {Unset, "overload", "other"}]
    /\ result.usage \in UsageType
    /\ result = [content |-> result.content, calls |-> result.calls, usage |-> result.usage]
    /\ repair \in BOOLEAN

(* Before the end, what was spent is what the rejected answer cost.         *)
Spending ==
    phase # "ended" => IF repair THEN Sound(prior) /\ spent = prior ELSE spent = NoUsage

TInv == Typed /\ Spending /\ ConformsOrFails /\ BillsBothAnswers

(* The turn starts with it.                                                 *)
LEMMA TurnInitTInv == TurnInit => TInv
<1> SUFFICES ASSUME TurnInit PROVE TInv
  OBVIOUS
<1>1. phase = "checking" /\ repair = FALSE /\ spent = NoUsage
  BY DEF TurnInit
<1>2. Typed
  BY DEF TurnInit, Typed, Fresh, Silent, UsageType
<1>3. ~Answered
  BY <1>1 DEF Answered
<1> QED
  BY <1>1, <1>2, <1>3 DEF TInv, Spending, ConformsOrFails, BillsBothAnswers

(* The end without an answer, and the steps before the end.                 *)
LEMMA Unanswered ==
    ASSUME TInv, phase # "ended", Typed', UNCHANGED <<req, repair, prior, spent>>,
           \/ phase' # "ended"
           \/ phase' = "ended" /\ reply'.status # "answered"
    PROVE  TInv'
BY DEF TInv, Spending, ConformsOrFails, BillsBothAnswers, Answered

(* A session that fails keeps the invariant.                                *)
LEMMA FailureKeeps ==
    ASSUME TInv, phase # "ended", NEW kind, kind # "answered", SessionFails(kind)
    PROVE  TInv'
<1>1. Typed'
  BY DEF SessionFails, TInv, Typed
<1>2. phase' # "ended" \/ (phase' = "ended" /\ reply'.status # "answered")
  BY DEF SessionFails, End, Failure
<1> QED
  BY <1>1, <1>2, Unanswered DEF SessionFails

(* So does an event of the SDK.                                             *)
LEMMA EventKeeps ==
    ASSUME TInv, NEW e \in SessionEvent, RaiseEvent(e)
    PROVE  TInv'
<1>1. Typed'
  <2>1. CASE e.type = "message"
    <3>1. e.out \in {0, 3}
      BY <2>1 DEF SessionEvent
    <3>2. [result.usage EXCEPT !.out = IF e.out = 0 THEN @ ELSE e.out] \in UsageType
      BY <3>1 DEF TInv, Typed, UsageType
    <3>3. /\ result' = [content |-> e.content, calls |-> WithCalls(e),
                         usage |-> [result.usage EXCEPT !.out = IF e.out = 0 THEN @ ELSE e.out]]
          /\ signal' = [signal EXCEPT !.tool = @ \/ WithCalls(e) # <<>>]
          /\ repair' = repair
      BY <2>1 DEF RaiseEvent, Receive
    <3>4. signal' \in [idle : BOOLEAN, tool : BOOLEAN, err : {Unset, "overload", "other"}]
      BY <3>3 DEF TInv, Typed
    <3> QED
      BY <3>2, <3>3, <3>4 DEF TInv, Typed
  <2>2. CASE e.type = "external"
    BY <2>2 DEF RaiseEvent, Receive, TInv, Typed
  <2>3. CASE e.type = "usage"
    <3>1. e.usage \in UsageType
      BY <2>3, TurnAssumption DEF SessionEvent, UsageType
    <3>2. mergeSDKUsage(result.usage, Normalized(e.usage)) \in UsageType
      BY <3>1, NormalizedIsSound, UsageSums DEF TInv, Typed, Sound
    <3> QED
      BY <2>3, <3>2 DEF RaiseEvent, Receive, TInv, Typed
  <2>4. CASE e.type = "idle"
    BY <2>4 DEF RaiseEvent, Receive, TInv, Typed
  <2>5. CASE e.type = "error"
    <3>1. e.kind \in {"overload", "other"}
      BY <2>5 DEF SessionEvent
    <3> QED
      BY <2>5, <3>1 DEF RaiseEvent, Receive, TInv, Typed
  <2> QED
    BY <2>1, <2>2, <2>3, <2>4, <2>5 DEF SessionEvent
<1>2. phase # "ended" /\ phase' # "ended"
  BY DEF RaiseEvent
<1> QED
  BY <1>1, <1>2, Unanswered DEF RaiseEvent

(* An answer ends the turn only if it is accepted, and is billed with what  *)
(* the rejected one cost.                                                   *)
LEMMA CollectKeeps ==
    ASSUME TInv, phase # "ended", NEW answer \in Constrained(result), Collect(answer)
    PROVE  TInv'
<1>1. /\ Sound(answer.usage) /\ answer.usage \in UsageType
      /\ answer = [status |-> "answered", content |-> answer.content, calls |-> answer.calls,
                   usage |-> answer.usage, finish |-> answer.finish]
  BY ConstrainedAnswer DEF TInv, Typed, Sound
<1>2. Typed' /\ req' = req
  BY DEF Collect, End, TInv, Typed
<1>3. CASE Accepts(answer)
  <2> DEFINE u == IF repair THEN accumulateUsage(prior, answer.usage) ELSE answer.usage
  <2>1. /\ phase' = "ended" /\ reply' = [answer EXCEPT !.usage = u]
        /\ spent' = Add(spent, answer.usage)
    BY <1>3 DEF Collect, End
  <2>2. reply'.usage = u /\ reply'.calls = answer.calls /\ reply'.content = answer.content
    BY <1>1, <2>1
  <2>3. u = Add(spent, answer.usage) /\ Sound(u)
    <3>1. CASE repair
      <4>1. Sound(prior) /\ prior \in UsageType /\ spent = prior
        BY <3>1 DEF TInv, Spending, Sound
      <4> QED
        BY <1>1, <3>1, <4>1, UsageSums
    <3>2. CASE ~repair
      <4>1. spent = NoUsage
        BY <3>2 DEF TInv, Spending
      <4> QED
        BY <1>1, <3>2, <4>1, UsageSums
    <3> QED
      BY <3>1, <3>2
  <2>4. BillsBothAnswers'
    BY <2>1, <2>2, <2>3 DEF BillsBothAnswers, Sound
  <2>5. ConformsOrFails'
    BY <1>2, <1>3, <2>2 DEF ConformsOrFails, Accepts, Valid
  <2> QED
    BY <1>2, <2>1, <2>4, <2>5 DEF TInv, Spending
<1>4. CASE ~Accepts(answer) /\ repair
  <2>1. phase' = "ended" /\ reply'.status # "answered"
    BY <1>4 DEF Collect, End, Failure
  <2> QED
    BY <1>2, <2>1 DEF TInv, Spending, ConformsOrFails, BillsBothAnswers, Answered
<1>5. CASE ~Accepts(answer) /\ ~repair
  <2>1. /\ phase' = "opening" /\ repair' = TRUE /\ prior' = answer.usage
        /\ spent' = Add(spent, answer.usage) /\ spent = NoUsage
    BY <1>5 DEF Collect, TInv, Spending
  <2>2. spent' = prior'
    BY <1>1, <2>1, UsageSums
  <2> QED
    BY <1>1, <1>2, <2>1, <2>2 DEF TInv, Spending, ConformsOrFails, BillsBothAnswers, Answered
<1> QED
  BY <1>3, <1>4, <1>5

(* Every step keeps the invariant.                                          *)
LEMMA TurnStep ==
    ASSUME TInv, [TurnNext]_turnVars
    PROVE  TInv'
<1>1. CASE Begin
  BY <1>1, Unanswered DEF Begin, End, Failure, TInv, Typed
<1>2. CASE OpenSession
  <2>1. Typed'
    BY <1>2 DEF OpenSession, Fresh, Silent, TInv, Typed, UsageType
  <2> QED
    BY <1>2, <2>1, Unanswered DEF OpenSession
<1>3. CASE SendPrompt
  BY <1>3, Unanswered DEF SendPrompt, TInv, Typed
<1>4. CASE Pause
  BY <1>4, Unanswered DEF Pause, End, Failure, TInv, Typed
<1>5. ASSUME NEW kind \in {"overload", "other"}, OpenOrSendFails(kind)
      PROVE  TInv'
  BY <1>5, FailureKeeps DEF OpenOrSendFails
<1>6. CASE TakeError
  <2>1. signal.err \in {"overload", "other"}
    BY <1>6 DEF TakeError, TInv, Typed
  <2> QED
    BY <1>6, <2>1, FailureKeeps DEF TakeError
<1>7. CASE TimedOut
  BY <1>7, FailureKeeps DEF TimedOut
<1>8. CASE TakeIdle \/ Settled
  BY <1>8, CollectKeeps DEF TakeIdle, Settled
<1>9. CASE TakeTool \/ MoreTools
  <2>1. Typed'
    BY <1>9 DEF TakeTool, MoreTools, TInv, Typed
  <2> QED
    BY <1>9, <2>1, Unanswered DEF TakeTool, MoreTools
<1>10. ASSUME NEW e \in SessionEvent, RaiseEvent(e)
       PROVE  TInv'
  BY <1>10, EventKeeps
<1>11. CASE UNCHANGED turnVars
  BY <1>11 DEF turnVars, TInv, Typed, Spending, ConformsOrFails, BillsBothAnswers, Answered, Valid
<1> QED
  BY <1>1, <1>2, <1>3, <1>4, <1>5, <1>6, <1>7, <1>8, <1>9, <1>10, <1>11 DEF TurnNext, ServerStep

(* The invariant of every behaviour.                                        *)
LEMMA TurnInvariant == TurnInit /\ [][TurnNext]_turnVars => []TInv
BY TurnInitTInv, TurnStep, PTL

(* No answer that does not conform to the requested format is passed on,    *)
(* also not after the repair (chatSDKStructured; README.md).                *)
THEOREM NonConformingIsWithheld == TurnInit /\ [][TurnNext]_turnVars => []ConformsOrFails
<1>1. TInv => ConformsOrFails
  BY DEF TInv
<1> QED
  BY <1>1, TurnInvariant, PTL

(* The usage of the answer is the usage of every turn made for it           *)
(* (accumulateUsage, Usage.Normalized).                                     *)
THEOREM RejectedTurnIsBilled == TurnInit /\ [][TurnNext]_turnVars => []BillsBothAnswers
<1>1. TInv => BillsBothAnswers
  BY DEF TInv
<1> QED
  BY <1>1, TurnInvariant, PTL

-----------------------------------------------------------------------------
(* The calls. *)

AnyCall == [id : CallId, args : Args]
IdsOf(cs) == {cs[i].id : i \in DOMAIN cs}

(* No call is there twice.                                                  *)
Once(cs) == \A i, j \in 1..Len(cs) : cs[i].id = cs[j].id => i = j

(* appendToolCallUnique and the filter before it: a call that is passed on  *)
(* is among the calls afterwards, once.                                     *)
LEMMA AddedCall ==
    ASSUME NEW cs \in Seq(AnyCall), NEW c \in AnyCall
    PROVE  /\ AddCall(cs, c) \in Seq(AnyCall)
           /\ Once(cs) => Once(AddCall(cs, c))
           /\ IdsOf(AddCall(cs, c)) = IdsOf(cs) \cup ({c.id} \ CallsOf(InternalTools(req)))
<1>1. CASE ~Passed(c)
  BY <1>1 DEF AddCall, Passed
<1>2. CASE Passed(c) /\ \E i \in DOMAIN cs : cs[i].id = c.id
  <2> DEFINE a == [i \in DOMAIN cs |->
                     IF cs[i].id = c.id /\ cs[i].args = "{}" THEN c ELSE cs[i]]
  <2>1. AddCall(cs, c) = a
    BY <1>2 DEF AddCall, AppendUnique
  <2>2. /\ DOMAIN cs = 1..Len(cs) /\ Len(cs) \in Nat /\ \A i \in 1..Len(cs) : cs[i] \in AnyCall
        /\ a = [i \in 1..Len(cs) |-> a[i]]
    OBVIOUS
  <2>6. \A i \in 1..Len(cs) : a[i] = IF cs[i].id = c.id /\ cs[i].args = "{}" THEN c ELSE cs[i]
    BY <2>2
  <2> HIDE DEF a
  <2>7. \A i \in 1..Len(cs) : a[i] \in AnyCall /\ a[i].id = cs[i].id
    BY <2>2, <2>6
  <2>3. a \in Seq(AnyCall) /\ Len(a) = Len(cs) /\ DOMAIN a = DOMAIN cs
    BY <2>2, <2>7
  <2>4. Once(cs) => Once(a)
    BY <2>3, <2>7 DEF Once
  <2>5. IdsOf(a) = IdsOf(cs) /\ c.id \in IdsOf(cs)
    BY <1>2, <2>2, <2>3, <2>7 DEF IdsOf
  <2> QED
    BY <2>1, <2>3, <2>4, <2>5
<1>3. CASE Passed(c) /\ ~\E i \in DOMAIN cs : cs[i].id = c.id
  <2> DEFINE a == Append(cs, c)
  <2>1. AddCall(cs, c) = a
    BY <1>3 DEF AddCall, AppendUnique
  <2>2. /\ a \in Seq(AnyCall) /\ Len(a) = Len(cs) + 1 /\ a[Len(cs) + 1] = c
        /\ \A i \in 1..Len(cs) : a[i] = cs[i]
        /\ DOMAIN a = 1..(Len(cs) + 1) /\ DOMAIN cs = 1..Len(cs) /\ Len(cs) \in Nat
    OBVIOUS
  <2> HIDE DEF a
  <2>3. Once(cs) => Once(a)
    BY <1>3, <2>2 DEF Once
  <2>4. IdsOf(a) = IdsOf(cs) \cup {c.id}
    BY <2>2 DEF IdsOf
  <2> QED
    BY <1>3, <2>1, <2>2, <2>3, <2>4 DEF Passed
<1> QED
  BY <1>1, <1>2, <1>3

(* One announced call after the other.                                      *)
LEMMA FoldOfAdded ==
    ASSUME NEW base \in Seq(AnyCall), NEW q \in Seq(AnyCall)
    PROVE  \E h \in [0..Len(q) -> Seq(AnyCall)] :
              /\ h[0] = base /\ h[Len(q)] = FoldLeft(AddCall, base, q)
              /\ \A i \in 1..Len(q) : h[i] = AddCall(h[i - 1], q[i])
<1> DEFINE D == Seq(AnyCall)
           n == Len(q)
           step(g, s) == IF s = {} THEN base ELSE AddCall(g[s \ {Max(s)}], q[Max(s)])
           iter == CHOOSE g : g = [s \in SUBSET (1..n) |-> step(g, s)]
           G == [p \in (1..n) \X D |-> AddCall(p[2], q[p[1]])]
<1>1. n \in Nat /\ DOMAIN q = 1..n /\ \A i \in 1..n : q[i] \in AnyCall
  OBVIOUS
<1>2. FoldLeft(AddCall, base, q) = iter[1..n]
  BY <1>1 DEF FoldLeft, MapThenFoldSet
<1>3. G \in [(1..n) \X D -> D]
  BY <1>1, AddedCall
<1>4. \A i \in 1..n, l \in D : G[<<i, l>>] = AddCall(l, q[i])
  OBVIOUS
<1> HIDE DEF G, n, D
<1>5. PICK g \in [SUBSET (1..n) -> D] : Folding(g, n, base, G)
  BY <1>1, <1>3, FoldingExists DEF D
<1>6. g = [s \in SUBSET (1..n) |-> step(g, s)]
  <2> SUFFICES ASSUME NEW s \in SUBSET (1..n)
               PROVE  g[s] = step(g, s)
    OBVIOUS
  <2>1. g[s] = IF s = {} THEN base ELSE G[<<Max(s), g[s \ {Max(s)}]>>]
    BY <1>5 DEF Folding
  <2>2. s # {} => Max(s) \in 1..n /\ g[s \ {Max(s)}] \in D
    BY <1>1, MaxOfBounded
  <2> QED
    BY <1>4, <2>1, <2>2
<1>7. iter = [s \in SUBSET (1..n) |-> step(iter, s)]
  BY <1>6
<1> HIDE DEF iter
<1>8. iter[{}] = base
  BY <1>7
<1>9. ASSUME NEW s \in SUBSET (1..n), s # {}, iter[s \ {Max(s)}] \in D
      PROVE  iter[s] = G[<<Max(s), iter[s \ {Max(s)}]>>]
  <2>1. Max(s) \in 1..n
    BY <1>1, <1>9, MaxOfBounded
  <2> QED
    BY <1>4, <1>7, <1>9, <2>1
<1>10. PICK h : Unfolded(h, D, n, base, G, iter[1..n])
  <2>1. base \in D
    BY DEF D
  <2>2. FoldingIn(D, iter, n, base, G)
    BY <1>1, <1>3, <1>8, <1>9, <2>1 DEF FoldingIn
  <2> QED
    BY <2>2, FoldingSteps
<1>11. \A i \in 1..n : h[i] = AddCall(h[i - 1], q[i])
  <2> TAKE i \in 1..n
  <2>1. i - 1 \in 0..n
    BY <1>1
  <2>2. h[i - 1] \in D
    BY <1>10, <2>1 DEF Unfolded
  <2> QED
    BY <1>4, <1>10, <2>2 DEF Unfolded
<1> QED
  BY <1>2, <1>10, <1>11 DEF n, D, Unfolded

(* The calls of an event are among the calls afterwards, once, and no other *)
(* is new.                                                                  *)
LEMMA CallsAdded ==
    ASSUME NEW cs \in Seq(AnyCall), Once(cs), NEW q \in Seq(AnyCall)
    PROVE  /\ FoldLeft(AddCall, cs, q) \in Seq(AnyCall) /\ Once(FoldLeft(AddCall, cs, q))
           /\ IdsOf(FoldLeft(AddCall, cs, q)) = IdsOf(cs) \cup (IdsOf(q) \ CallsOf(InternalTools(req)))
<1>1. PICK h \in [0..Len(q) -> Seq(AnyCall)] :
         /\ h[0] = cs /\ h[Len(q)] = FoldLeft(AddCall, cs, q)
         /\ \A i \in 1..Len(q) : h[i] = AddCall(h[i - 1], q[i])
  BY FoldOfAdded
<1> DEFINE n == Len(q)
           asked(i) == {q[j].id : j \in 1..i}
           P == {i \in 0..n : Once(h[i]) /\ IdsOf(h[i]) = IdsOf(cs) \cup (asked(i) \ CallsOf(InternalTools(req)))}
<1>2. n \in Nat /\ DOMAIN q = 1..n /\ \A i \in 1..n : q[i] \in AnyCall
  OBVIOUS
<1>3. 0 \in P
  BY <1>1, <1>2
<1>4. ASSUME NEW i \in 0..(n - 1), i \in P
      PROVE  i + 1 \in P
  <2>1. i \in 0..n /\ i + 1 \in 1..n /\ i + 1 \in 0..n /\ (i + 1) - 1 = i
    BY <1>2
  <2>2. /\ h[i] \in Seq(AnyCall) /\ h[i + 1] = AddCall(h[i], q[i + 1]) /\ q[i + 1] \in AnyCall
        /\ Once(h[i]) /\ IdsOf(h[i]) = IdsOf(cs) \cup (asked(i) \ CallsOf(InternalTools(req)))
    BY <1>1, <1>2, <1>4, <2>1
  <2>3. /\ Once(h[i + 1])
        /\ IdsOf(h[i + 1]) = IdsOf(h[i]) \cup ({q[i + 1].id} \ CallsOf(InternalTools(req)))
    BY <2>2, AddedCall
  <2>4. asked(i + 1) = asked(i) \cup {q[i + 1].id}
    <3>1. 1..(i + 1) = 1..i \cup {i + 1}
      BY ONLY <2>1, <1>2, SMT
    <3> QED
      BY ONLY <3>1 DEF asked
  <2> HIDE DEF asked
  <2> QED
    BY <2>1, <2>2, <2>3, <2>4
<1> HIDE DEF P
<1>5. 0..n \subseteq P
  BY <1>2, <1>3, <1>4, UpTo
<1>6. n \in P /\ n \in 0..n
  BY <1>2, <1>5
<1>7. Once(h[n]) /\ IdsOf(h[n]) = IdsOf(cs) \cup (asked(n) \ CallsOf(InternalTools(req))) /\ h[n] \in Seq(AnyCall)
  BY <1>1, <1>6 DEF P
<1>8. asked(n) = IdsOf(q)
  BY <1>2 DEF IdsOf
<1> QED
  BY <1>1, <1>7, <1>8

(* applyStructuredOutput keeps the calls but the synthetic one.             *)
LEMMA KeptCall ==
    ASSUME NEW cs \in Seq(AnyCall), NEW c \in AnyCall
    PROVE  /\ KeepCaller(cs, c) \in Seq(AnyCall)
           /\ Once(cs) /\ c.id \notin IdsOf(cs) => Once(KeepCaller(cs, c))
           /\ IdsOf(KeepCaller(cs, c)) = IdsOf(cs) \cup ({c.id} \ CallsOf({Reserved}))
<1>1. CASE c.id \in CallsOf({Reserved})
  BY <1>1 DEF KeepCaller
<1>2. CASE c.id \notin CallsOf({Reserved})
  <2> DEFINE a == Append(cs, c)
  <2>1. KeepCaller(cs, c) = a
    BY <1>2 DEF KeepCaller
  <2>2. /\ a \in Seq(AnyCall) /\ Len(a) = Len(cs) + 1 /\ a[Len(cs) + 1] = c
        /\ \A i \in 1..Len(cs) : a[i] = cs[i]
        /\ DOMAIN a = 1..(Len(cs) + 1) /\ DOMAIN cs = 1..Len(cs) /\ Len(cs) \in Nat
    OBVIOUS
  <2> HIDE DEF a
  <2>3. Once(cs) /\ c.id \notin IdsOf(cs) => Once(a)
    BY <2>2 DEF Once, IdsOf
  <2>4. IdsOf(a) = IdsOf(cs) \cup {c.id}
    BY <2>2 DEF IdsOf
  <2> QED
    BY <1>2, <2>1, <2>2, <2>3, <2>4
<1> QED
  BY <1>1, <1>2

(* The same for the calls that are kept of an answer.                       *)
LEMMA FoldOfKept ==
    ASSUME NEW base \in Seq(AnyCall), NEW q \in Seq(AnyCall)
    PROVE  \E h \in [0..Len(q) -> Seq(AnyCall)] :
              /\ h[0] = base /\ h[Len(q)] = FoldLeft(KeepCaller, base, q)
              /\ \A i \in 1..Len(q) : h[i] = KeepCaller(h[i - 1], q[i])
<1> DEFINE D == Seq(AnyCall)
           n == Len(q)
           step(g, s) == IF s = {} THEN base ELSE KeepCaller(g[s \ {Max(s)}], q[Max(s)])
           iter == CHOOSE g : g = [s \in SUBSET (1..n) |-> step(g, s)]
           G == [p \in (1..n) \X D |-> KeepCaller(p[2], q[p[1]])]
<1>1. n \in Nat /\ DOMAIN q = 1..n /\ \A i \in 1..n : q[i] \in AnyCall
  OBVIOUS
<1>2. FoldLeft(KeepCaller, base, q) = iter[1..n]
  BY <1>1 DEF FoldLeft, MapThenFoldSet
<1>3. G \in [(1..n) \X D -> D]
  BY <1>1, KeptCall
<1>4. \A i \in 1..n, l \in D : G[<<i, l>>] = KeepCaller(l, q[i])
  OBVIOUS
<1> HIDE DEF G, n, D
<1>5. PICK g \in [SUBSET (1..n) -> D] : Folding(g, n, base, G)
  BY <1>1, <1>3, FoldingExists DEF D
<1>6. g = [s \in SUBSET (1..n) |-> step(g, s)]
  <2> SUFFICES ASSUME NEW s \in SUBSET (1..n)
               PROVE  g[s] = step(g, s)
    OBVIOUS
  <2>1. g[s] = IF s = {} THEN base ELSE G[<<Max(s), g[s \ {Max(s)}]>>]
    BY <1>5 DEF Folding
  <2>2. s # {} => Max(s) \in 1..n /\ g[s \ {Max(s)}] \in D
    BY <1>1, MaxOfBounded
  <2> QED
    BY <1>4, <2>1, <2>2
<1>7. iter = [s \in SUBSET (1..n) |-> step(iter, s)]
  BY <1>6
<1> HIDE DEF iter
<1>8. iter[{}] = base
  BY <1>7
<1>9. ASSUME NEW s \in SUBSET (1..n), s # {}, iter[s \ {Max(s)}] \in D
      PROVE  iter[s] = G[<<Max(s), iter[s \ {Max(s)}]>>]
  <2>1. Max(s) \in 1..n
    BY <1>1, <1>9, MaxOfBounded
  <2> QED
    BY <1>4, <1>7, <1>9, <2>1
<1>10. PICK h : Unfolded(h, D, n, base, G, iter[1..n])
  <2>1. base \in D
    BY DEF D
  <2>2. FoldingIn(D, iter, n, base, G)
    BY <1>1, <1>3, <1>8, <1>9, <2>1 DEF FoldingIn
  <2> QED
    BY <2>2, FoldingSteps
<1>11. \A i \in 1..n : h[i] = KeepCaller(h[i - 1], q[i])
  <2> TAKE i \in 1..n
  <2>1. i - 1 \in 0..n
    BY <1>1
  <2>2. h[i - 1] \in D
    BY <1>10, <2>1 DEF Unfolded
  <2> QED
    BY <1>4, <1>10, <2>2 DEF Unfolded
<1> QED
  BY <1>2, <1>10, <1>11 DEF n, D, Unfolded

(* What the caller gets of the calls of a session.                          *)
LEMMA CallersFacts ==
    ASSUME NEW q \in Seq(AnyCall), Once(q)
    PROVE  /\ Callers(q) \in Seq(AnyCall) /\ Once(Callers(q))
           /\ IdsOf(Callers(q)) = IF WantsJSON(req) THEN IdsOf(q) \ CallsOf({Reserved}) ELSE IdsOf(q)
<1>1. CASE ~WantsJSON(req)
  BY <1>1 DEF Callers
<1>2. CASE WantsJSON(req)
  <2>1. Callers(q) = FoldLeft(KeepCaller, <<>>, q)
    BY <1>2 DEF Callers
  <2>2. <<>> \in Seq(AnyCall) /\ Once(<<>>) /\ IdsOf(<<>>) = {}
    BY DEF Once, IdsOf
  <2>3. PICK h \in [0..Len(q) -> Seq(AnyCall)] :
           /\ h[0] = <<>> /\ h[Len(q)] = FoldLeft(KeepCaller, <<>>, q)
           /\ \A i \in 1..Len(q) : h[i] = KeepCaller(h[i - 1], q[i])
    BY <2>2, FoldOfKept
  <2> DEFINE n == Len(q)
             seen(i) == {q[j].id : j \in 1..i}
             P == {i \in 0..n : Once(h[i]) /\ IdsOf(h[i]) = seen(i) \ CallsOf({Reserved})}
  <2>4. n \in Nat /\ DOMAIN q = 1..n /\ \A i \in 1..n : q[i] \in AnyCall
    OBVIOUS
  <2>5. 0 \in P
    BY <2>2, <2>3, <2>4
  <2>6. ASSUME NEW i \in 0..(n - 1), i \in P
        PROVE  i + 1 \in P
    <3>1. i \in 0..n /\ i + 1 \in 1..n /\ i + 1 \in 0..n /\ (i + 1) - 1 = i
      BY <2>4
    <3>2. /\ h[i] \in Seq(AnyCall) /\ h[i + 1] = KeepCaller(h[i], q[i + 1]) /\ q[i + 1] \in AnyCall
          /\ Once(h[i]) /\ IdsOf(h[i]) = seen(i) \ CallsOf({Reserved})
      BY <2>3, <2>4, <2>6, <3>1
    <3>3. q[i + 1].id \notin seen(i)
      BY <2>4, <3>1 DEF Once
    <3>4. seen(i + 1) = seen(i) \cup {q[i + 1].id}
      BY <2>4, <3>1
    <3> HIDE DEF seen
    <3>5. /\ Once(h[i + 1])
          /\ IdsOf(h[i + 1]) = IdsOf(h[i]) \cup ({q[i + 1].id} \ CallsOf({Reserved}))
      BY <3>2, <3>3, KeptCall
    <3> QED
      BY <3>1, <3>2, <3>4, <3>5
  <2> HIDE DEF P
  <2>7. 0..n \subseteq P
    BY <2>4, <2>5, <2>6, UpTo
  <2>8. n \in P /\ n \in 0..n
    BY <2>4, <2>7
  <2>9. Once(h[n]) /\ IdsOf(h[n]) = seen(n) \ CallsOf({Reserved}) /\ h[n] \in Seq(AnyCall)
    BY <2>3, <2>8 DEF P
  <2>10. seen(n) = IdsOf(q)
    BY <2>4 DEF IdsOf
  <2> QED
    BY <1>2, <2>1, <2>3, <2>9, <2>10
<1> QED
  BY <1>1, <1>2

(* As many calls as ids.                                                    *)
LEMMA CountedOnce ==
    ASSUME NEW cs \in Seq(AnyCall), Once(cs)
    PROVE  Len(cs) = Cardinality(IdsOf(cs))
<1> DEFINE q == [i \in 1..Len(cs) |-> cs[i].id]
<1>1. DOMAIN cs = 1..Len(cs) /\ Len(cs) \in Nat /\ \A i \in 1..Len(cs) : cs[i].id \in CallId
  <2>1. DOMAIN cs = 1..Len(cs) /\ Len(cs) \in Nat /\ \A i \in 1..Len(cs) : cs[i] \in AnyCall
    OBVIOUS
  <2>2. \A c \in AnyCall : c.id \in CallId
    BY DEF AnyCall
  <2> QED
    BY <2>1, <2>2
<1>2. q \in Seq(CallId) /\ Len(q) = Len(cs) /\ \A i \in 1..Len(cs) : q[i] = cs[i].id
  BY <1>1
<1> HIDE DEF q
<1>3. Distinct(q)
  BY <1>1, <1>2 DEF Distinct, Once
<1>4. ToSet(q) = IdsOf(cs)
  BY <1>1, <1>2 DEF ToSet, IdsOf
<1>5. Cardinality(ToSet(q)) = Len(q)
  BY <1>2, <1>3, DistinctCount
<1> QED
  BY <1>2, <1>4, <1>5

(* An answer has the caller's calls, and ends for them if there are any.    *)
LEMMA CallsOfAnswer ==
    ASSUME NEW r, NEW answer \in Constrained(r)
    PROVE  /\ answer.calls = Callers(r.calls)
           /\ answer.finish = "tool_calls" <=> answer.calls # <<>>
<1>1. CASE Callers(r.calls) # <<>>
  <2>1. PICK c \in Lifted(r) : answer = Answer(c, Callers(r.calls), Finalized(r), "tool_calls")
    BY <1>1 DEF Constrained
  <2> QED
    BY <1>1, <2>1 DEF Answer
<1>2. CASE Callers(r.calls) = <<>>
  <2>1. PICK c \in Lifted(r) :
           answer \in {Whole(Extracted(c), Finalized(r))} \cup CutShort(Extracted(c), Finalized(r))
    BY <1>2 DEF Constrained
  <2>2. CASE answer = Whole(Extracted(c), Finalized(r))
    BY <1>2, <2>2 DEF Whole, Answer
  <2>3. CASE answer \in CutShort(Extracted(c), Finalized(r))
    <3> DEFINE Cut(d, f) == Answer(d, <<>>, [Finalized(r) EXCEPT !.out = ApproxTokens(d), !.total = 0], f)
    <3>1. answer \in {Cut(d, f) : d \in {"cut", "empty"}, f \in {"stop", "length"}}
      BY <2>3 DEF CutShort
    <3> HIDE DEF Cut
    <3>2. PICK d \in {"cut", "empty"}, f \in {"stop", "length"} : answer = Cut(d, f)
      BY <3>1
    <3>3. answer.calls = <<>> /\ answer.finish = f
      BY <3>2 DEF Cut, Answer
    <3> QED
      BY <1>2, <3>3
  <2> QED
    BY <2>1, <2>2, <2>3
<1> QED
  BY <1>1, <1>2

-----------------------------------------------------------------------------
(* While a session is open its calls are those requested in it, each once.  *)
Collecting ==
    phase \in {"sending", "waiting", "settling"} =>
        /\ result.calls \in Seq(AnyCall) /\ Once(result.calls)
        /\ IdsOf(result.calls) = requested

CInv == TInv /\ req \in TurnRequest /\ Collecting /\ CallsReachTheCaller

(* The steps before an answer: only the calls of the open session matter.   *)
LEMMA NotYetAnswered ==
    ASSUME CInv, TInv', req' = req, Collecting', phase' # "ended" \/ ~Answered'
    PROVE  CInv'
BY DEF CInv, CallsReachTheCaller, Answered

(* An event adds the calls it announces.                                    *)
LEMMA EventAddsCalls ==
    ASSUME CInv, NEW e \in SessionEvent, RaiseEvent(e)
    PROVE  Collecting' /\ phase' # "ended" /\ req' = req
<1>1. /\ phase' = phase /\ req' = req /\ requested' = requested \cup Asked(e)
      /\ phase \in {"sending", "waiting", "settling"} /\ Receive(e)
  BY DEF RaiseEvent
<1>2. result.calls \in Seq(AnyCall) /\ Once(result.calls) /\ IdsOf(result.calls) = requested
  BY <1>1 DEF CInv, Collecting
<1>3. CASE e.type \in {"message", "external"}
  <2>1. e.calls \in {<<>>} \cup Announced
    BY <1>3 DEF SessionEvent
  <2>3. \A id \in CallsOf(CallableTools(req)), a \in Args : Call(id, a) \in AnyCall
    BY DEF Call, AnyCall, CallsOf
  <2>4. e.calls \in Seq(AnyCall)
    <3>1. CASE e.calls = <<>>
      BY <3>1
    <3>2. CASE e.calls \in Announced
      <4>1. PICK id \in CallsOf(CallableTools(req)), a \in Args : e.calls = <<Call(id, a)>>
        BY <3>2 DEF Announced
      <4>2. Call(id, a) \in AnyCall
        BY <2>3
      <4> QED
        BY <4>1, <4>2
    <3> QED
      BY <2>1, <3>1, <3>2
  <2>5. /\ WithCalls(e) \in Seq(AnyCall) /\ Once(WithCalls(e))
        /\ IdsOf(WithCalls(e)) = IdsOf(result.calls) \cup (IdsOf(e.calls) \ CallsOf(InternalTools(req)))
    BY <1>2, <2>4, CallsAdded DEF WithCalls
  <2>6. Asked(e) = IdsOf(e.calls) \ CallsOf(InternalTools(req))
    BY <1>3 DEF Asked, IdsOf
  <2>7. result = [content |-> result.content, calls |-> result.calls, usage |-> result.usage]
    BY DEF CInv, TInv, Typed
  <2>8. result'.calls = WithCalls(e)
    <3>1. CASE e.type = "message"
      BY <1>1, <3>1 DEF Receive
    <3>2. CASE e.type = "external"
      <4>1. result' = [result EXCEPT !.calls = WithCalls(e)]
        BY <1>1, <3>2 DEF Receive
      <4> QED
        BY <2>7, <4>1
    <3> QED
      BY <1>3, <3>1, <3>2
  <2> QED
    BY <1>1, <1>2, <2>5, <2>6, <2>8 DEF Collecting
<1>4. CASE e.type \notin {"message", "external"}
  <2>1. result'.calls = result.calls
    <3>1. CASE e.type = "usage"
      <4>1. result' = [result EXCEPT !.usage = mergeSDKUsage(@, Normalized(e.usage))]
        BY <1>1, <3>1 DEF Receive
      <4>2. result = [content |-> result.content, calls |-> result.calls, usage |-> result.usage]
        BY DEF CInv, TInv, Typed
      <4> QED
        BY <4>1, <4>2
    <3>2. CASE e.type = "idle"
      BY <1>1, <3>2 DEF Receive
    <3>3. CASE e.type = "error"
      BY <1>1, <3>3 DEF Receive
    <3> QED
      BY <1>4, <3>1, <3>2, <3>3 DEF SessionEvent
  <2>2. Asked(e) = {}
    BY <1>4 DEF Asked
  <2> QED
    BY <1>1, <1>2, <2>1, <2>2 DEF Collecting
<1> QED
  BY <1>3, <1>4

(* The end of a session: the answer has the calls of the session.           *)
LEMMA CollectAnswersCalls ==
    ASSUME CInv, TInv', phase \in {"waiting", "settling"}, NEW answer \in Constrained(result), Collect(answer)
    PROVE  CInv'
<1>1. req' = req /\ phase' \in {"ended", "opening"}
  BY DEF Collect, End
<1>2. Collecting'
  BY <1>1 DEF Collecting
<1>3. CASE Accepts(answer)
  <2>1. /\ answer = [status |-> "answered", content |-> answer.content, calls |-> answer.calls,
                     usage |-> answer.usage, finish |-> answer.finish]
    BY ConstrainedAnswer DEF CInv, TInv, Typed
  <2>2. reply' = [answer EXCEPT !.usage = IF repair THEN accumulateUsage(prior, @) ELSE @]
    BY <1>3 DEF Collect, End
  <2>3. reply'.calls = answer.calls /\ reply'.finish = answer.finish
    BY <2>1, <2>2
  <2>4. result.calls \in Seq(AnyCall) /\ Once(result.calls) /\ IdsOf(result.calls) = requested
    BY DEF CInv, Collecting
  <2>5. answer.calls = Callers(result.calls) /\ (answer.finish = "tool_calls" <=> answer.calls # <<>>)
    BY CallsOfAnswer
  <2>6. /\ Callers(result.calls) \in Seq(AnyCall) /\ Once(Callers(result.calls))
        /\ IdsOf(Callers(result.calls)) = IF WantsJSON(req) THEN requested \ CallsOf({Reserved}) ELSE requested
    BY <2>4, CallersFacts
  <2>7. Len(Callers(result.calls)) = Cardinality(IdsOf(Callers(result.calls)))
    BY <2>6, CountedOnce
  <2>8. requested' = requested
    BY DEF Collect
  <2>9. CallsReachTheCaller'
    BY <1>1, <2>3, <2>5, <2>6, <2>7, <2>8 DEF CallsReachTheCaller, IdsOf
  <2> QED
    BY <1>1, <1>2, <2>9 DEF CInv
<1>4. CASE ~Accepts(answer)
  <2>1. phase' # "ended" \/ ~Answered'
    BY <1>4 DEF Collect, End, Failure, Answered
  <2> QED
    BY <1>1, <1>2, <2>1, NotYetAnswered
<1> QED
  BY <1>3, <1>4

(* The other failures and steps.                                            *)
LEMMA CallsFailureKeeps ==
    ASSUME CInv, TInv', NEW kind, kind # "answered", SessionFails(kind)
    PROVE  CInv'
<1>1. req' = req /\ Collecting' /\ (phase' # "ended" \/ ~Answered')
  BY DEF SessionFails, End, Failure, Answered, Collecting
<1> QED
  BY <1>1, NotYetAnswered

(* Every step keeps the calls.                                              *)
LEMMA CallsStep ==
    ASSUME CInv, [TurnNext]_turnVars
    PROVE  CInv'
<1>1. TInv'
  BY TurnStep DEF CInv
<1>2. CASE Begin \/ Pause
  <2>1. req' = req /\ Collecting' /\ (phase' # "ended" \/ ~Answered')
    BY <1>2 DEF Begin, Pause, End, Failure, Answered, Collecting
  <2> QED
    BY <1>1, <2>1, NotYetAnswered
<1>3. CASE OpenSession
  <2>1. /\ req' = req /\ phase' = "sending" /\ requested' = {} /\ result'.calls = <<>>
    BY <1>3 DEF OpenSession, Fresh
  <2>2. <<>> \in Seq(AnyCall) /\ Once(<<>>) /\ IdsOf(<<>>) = {}
    BY DEF Once, IdsOf
  <2>3. Collecting'
    BY <2>1, <2>2 DEF Collecting
  <2> QED
    BY <1>1, <2>1, <2>3, NotYetAnswered
<1>4. CASE SendPrompt \/ TakeTool \/ MoreTools
  <2>1. req' = req /\ Collecting' /\ phase' # "ended"
    BY <1>4 DEF SendPrompt, TakeTool, MoreTools, CInv, Collecting
  <2> QED
    BY <1>1, <2>1, NotYetAnswered
<1>5. ASSUME NEW kind \in {"overload", "other"}, OpenOrSendFails(kind)
      PROVE  CInv'
  BY <1>1, <1>5, CallsFailureKeeps DEF OpenOrSendFails
<1>6. CASE TakeError
  <2>1. signal.err \in {"overload", "other"}
    BY <1>6 DEF TakeError, CInv, TInv, Typed
  <2> QED
    BY <1>1, <1>6, <2>1, CallsFailureKeeps DEF TakeError
<1>7. CASE TimedOut
  BY <1>1, <1>7, CallsFailureKeeps DEF TimedOut
<1>8. CASE TakeIdle \/ Settled
  BY <1>1, <1>8, CollectAnswersCalls DEF TakeIdle, Settled
<1>9. ASSUME NEW e \in SessionEvent, RaiseEvent(e)
      PROVE  CInv'
  BY <1>1, <1>9, EventAddsCalls, NotYetAnswered
<1>10. CASE UNCHANGED turnVars
  BY <1>1, <1>10 DEF turnVars, CInv, Collecting, CallsReachTheCaller, Answered
<1> QED
  BY <1>2, <1>3, <1>4, <1>5, <1>6, <1>7, <1>8, <1>9, <1>10 DEF TurnNext, ServerStep

(* What the model asked the client to run is in the answer, each once,      *)
(* however often it was announced, and nothing else is                      *)
(* (appendToolCallUnique, applyStructuredOutput).                           *)
THEOREM CallsArePassedOn == TurnInit /\ [][TurnNext]_turnVars => []CallsReachTheCaller
<1>1. TurnInit => CInv
  BY TurnInitTInv DEF TurnInit, CInv, Collecting, CallsReachTheCaller, Answered
<1>2. CInv /\ [TurnNext]_turnVars => CInv'
  BY CallsStep
<1>3. CInv => CallsReachTheCaller
  BY DEF CInv
<1> QED
  BY <1>1, <1>2, <1>3, PTL

-----------------------------------------------------------------------------
(* Streamed answers: events and clients. *)

Body == Seq(Rune) \cup Seq(ToolKind)
Ending == {"stop", "length", "tool_calls", "STOP", "MAX_TOKENS", "end_turn", "max_tokens", "tool_use"}
ItemRecord == [kind : ItemKind, text : Body]
Chunk ==
    [type : {"role", "usage", "done", "created", "in_progress", "message_start", "error"}]
    \cup [type : {"open"}, index : Nat, kind : ItemKind]
    \cup [type : {"piece", "check"}, index : Nat, text : Body]
    \cup [type : {"note"}, index : Nat]
    \cup [type : {"close"}, index : Nat, item : ItemRecord]
    \cup [type : {"end"}, finish : Ending, output : Seq(ItemRecord), text : Body]
    \cup [type : {"content"}, text : Body]
    \cup [type : {"tool"}, index : Nat, call : {"function"}]
    \cup [type : {"finish"}, finish : Ending]

(* What the client of an answer x may look like on the way to it.              *)
Allowed(x, c) ==
    /\ DOMAIN c = {"text", "calls", "items", "block", "finish", "complete", "failed", "confused"}
    /\ ~c.confused /\ (c.complete => Made(c) = x /\ ~c.failed)

(* The events s take a client from c to d, and none of them confuses it.       *)
Runs(p, x, c, s, d) ==
    /\ s \in Seq(Chunk)
    /\ \E h : /\ h[0] = c /\ h[Len(s)] = d
              /\ \A k \in 0..Len(s) : Allowed(x, h[k])
              /\ \A k \in 1..Len(s) : Fits(h[k - 1], s[k]) /\ h[k] = Take(p, h[k - 1], s[k])

(* No event, and one.                                                          *)
LEMMA NoEvent ==
    ASSUME NEW p, NEW x, NEW c, Allowed(x, c)
    PROVE  Runs(p, x, c, <<>>, c)
<1> DEFINE h == [k \in {0} |-> c]
           s == <<>>
<1>1. s \in Seq(Chunk) /\ Len(s) = 0 /\ 0..0 = {0} /\ 1..0 = {}
  OBVIOUS
<1>2. h[0] = c
  OBVIOUS
<1> HIDE DEF h, s
<1>3. Runs(p, x, c, s, c)
  BY <1>1, <1>2 DEF Runs
<1> QED
  BY <1>3 DEF s

(* One event that fits, and leaves the client allowed.                         *)
LEMMA OneEvent ==
    ASSUME NEW p, NEW x, NEW c, NEW e \in Chunk, Allowed(x, c), Fits(c, e), Allowed(x, Take(p, c, e))
    PROVE  Runs(p, x, c, <<e>>, Take(p, c, e))
<1> DEFINE d == Take(p, c, e)
           h == [k \in {0, 1} |-> IF k = 0 THEN c ELSE d]
           s == <<e>>
<1>1. s \in Seq(Chunk) /\ Len(s) = 1 /\ s[1] = e
  OBVIOUS
<1>2. h[0] = c /\ h[1] = d /\ 0..1 = {0, 1} /\ 1..1 = {1} /\ 1 - 1 = 0
  OBVIOUS
<1>3. Allowed(x, d) /\ d = Take(p, c, e)
  OBVIOUS
<1> HIDE DEF h, s, d
<1>4. Runs(p, x, c, s, d)
  BY <1>1, <1>2, <1>3 DEF Runs
<1> QED
  BY <1>4 DEF s, d

(* The events of one part, then those of the next.                             *)
LEMMA ThenEvents ==
    ASSUME NEW p, NEW x, NEW c, NEW s, NEW d, NEW t, NEW e,
           Runs(p, x, c, s, d), Runs(p, x, d, t, e)
    PROVE  Runs(p, x, c, s \o t, e)
<1>1. s \in Seq(Chunk) /\ t \in Seq(Chunk)
  BY DEF Runs
<1>2. PICK g : /\ g[0] = c /\ g[Len(s)] = d
               /\ \A k \in 0..Len(s) : Allowed(x, g[k])
               /\ \A k \in 1..Len(s) : Fits(g[k - 1], s[k]) /\ g[k] = Take(p, g[k - 1], s[k])
  BY DEF Runs
<1>3. PICK h : /\ h[0] = d /\ h[Len(t)] = e
               /\ \A k \in 0..Len(t) : Allowed(x, h[k])
               /\ \A k \in 1..Len(t) : Fits(h[k - 1], t[k]) /\ h[k] = Take(p, h[k - 1], t[k])
  BY DEF Runs
<1> DEFINE m == Len(s)
           n == Len(t)
           u == s \o t
           f == [k \in 0..(m + n) |-> IF k <= m THEN g[k] ELSE h[k - m]]
<1>4. /\ m \in Nat /\ n \in Nat /\ u \in Seq(Chunk) /\ Len(u) = m + n
      /\ \A k \in 1..m : u[k] = s[k]
      /\ \A k \in (m + 1)..(m + n) : u[k] = t[k - m]
  BY <1>1
<1>5. \A k \in 0..(m + n) : f[k] = IF k <= m THEN g[k] ELSE h[k - m]
  OBVIOUS
<1> HIDE DEF m, n, u, f
<1>6. f[0] = c /\ f[m + n] = e /\ \A k \in m..(m + n) : f[k] = h[k - m]
  <2>1. f[0] = c
    BY <1>2, <1>4, <1>5
  <2>2. \A k \in m..(m + n) : f[k] = h[k - m]
    BY <1>2, <1>3, <1>4, <1>5 DEF m
  <2>3. m + n \in m..(m + n) /\ (m + n) - m = n
    BY <1>4
  <2> QED
    BY <1>3, <2>1, <2>2, <2>3 DEF n
<1>7. ASSUME NEW k \in 0..(m + n)
      PROVE  Allowed(x, f[k])
  <2>1. CASE k <= m
    BY <1>2, <1>4, <1>5, <2>1 DEF m
  <2>2. CASE k > m
    <3>1. k - m \in 0..n /\ f[k] = h[k - m]
      BY <1>4, <1>5, <2>2
    <3> QED
      BY <1>3, <3>1 DEF n
  <2> QED
    BY <1>4, <2>1, <2>2
<1>8. ASSUME NEW k \in 1..(m + n)
      PROVE  Fits(f[k - 1], u[k]) /\ f[k] = Take(p, f[k - 1], u[k])
  <2>1. CASE k <= m
    <3>1. k \in 1..m /\ f[k] = g[k] /\ f[k - 1] = g[k - 1] /\ u[k] = s[k]
      BY <1>4, <1>5, <2>1
    <3> QED
      BY <1>2, <3>1 DEF m
  <2>2. CASE k > m
    <3>1. k - m \in 1..n /\ f[k] = h[k - m] /\ f[k - 1] = h[(k - m) - 1] /\ u[k] = t[k - m]
      <4>1. k - 1 \in m..(m + n) /\ k \in m..(m + n) /\ (k - 1) - m = (k - m) - 1 /\ k \in (m + 1)..(m + n)
        BY <1>4, <2>2
      <4> QED
        BY <1>4, <1>6, <4>1
    <3> QED
      BY <1>3, <3>1 DEF n
  <2> QED
    BY <1>4, <2>1, <2>2
<1>9. Runs(p, x, c, u, e)
  BY <1>4, <1>6, <1>7, <1>8 DEF Runs
<1> QED
  BY <1>9 DEF u

(* The next event, and the rest.                                               *)
LEMMA NextEvent ==
    ASSUME NEW p, NEW x, NEW c, NEW s, NEW d, Runs(p, x, c, s, d), s # <<>>
    PROVE  /\ Fits(c, Head(s)) /\ Runs(p, x, Take(p, c, Head(s)), Tail(s), d)
<1>1. s \in Seq(Chunk)
  BY DEF Runs
<1>2. PICK g : /\ g[0] = c /\ g[Len(s)] = d
               /\ \A k \in 0..Len(s) : Allowed(x, g[k])
               /\ \A k \in 1..Len(s) : Fits(g[k - 1], s[k]) /\ g[k] = Take(p, g[k - 1], s[k])
  BY DEF Runs
<1> DEFINE n == Len(s)
           t == Tail(s)
           h == [k \in 0..(n - 1) |-> g[k + 1]]
<1>3. /\ n \in Nat \ {0} /\ t \in Seq(Chunk) /\ Len(t) = n - 1 /\ \A k \in 1..(n - 1) : t[k] = s[k + 1]
      /\ Head(s) = s[1]
  BY <1>1
<1>4. \A k \in 0..(n - 1) : h[k] = g[k + 1]
  OBVIOUS
<1> HIDE DEF h, t, n
<1>5. Fits(c, s[1]) /\ g[1] = Take(p, c, s[1])
  <2>1. 1 \in 1..n /\ 1 - 1 = 0
    BY <1>3
  <2> QED
    BY <1>2, <2>1 DEF n
<1>6. h[0] = g[1] /\ h[n - 1] = d
  <2>1. 0 \in 0..(n - 1) /\ n - 1 \in 0..(n - 1) /\ (n - 1) + 1 = n /\ 0 + 1 = 1
    BY <1>3
  <2> QED
    BY <1>2, <1>4, <2>1 DEF n
<1>7. ASSUME NEW k \in 0..(n - 1)
      PROVE  Allowed(x, h[k])
  <2>1. k + 1 \in 0..n
    BY <1>3
  <2> QED
    BY <1>2, <1>4, <2>1 DEF n
<1>8. ASSUME NEW k \in 1..(n - 1)
      PROVE  Fits(h[k - 1], t[k]) /\ h[k] = Take(p, h[k - 1], t[k])
  <2>1. k + 1 \in 1..n /\ (k + 1) - 1 = k /\ k - 1 \in 0..(n - 1) /\ k \in 0..(n - 1) /\ (k - 1) + 1 = k
    BY <1>3
  <2>2. h[k - 1] = g[k] /\ h[k] = g[k + 1] /\ t[k] = s[k + 1]
    BY <1>3, <1>4, <2>1
  <2> QED
    BY <1>2, <2>1, <2>2 DEF n
<1>9. Runs(p, x, g[1], t, d)
  BY <1>3, <1>6, <1>7, <1>8 DEF Runs
<1> QED
  BY <1>3, <1>5, <1>9 DEF t

-----------------------------------------------------------------------------
(* One part after the other: g is the client between the parts.                *)
LEMMA PartByPart ==
    ASSUME NEW p, NEW x, NEW ss \in Seq(Seq(Chunk)), NEW g, Allowed(x, g[0]),
           \A i \in 1..Len(ss) : Runs(p, x, g[i - 1], ss[i], g[i])
    PROVE  Runs(p, x, g[0], FlattenSeq(ss), g[Len(ss)])
<1>1. CASE ss = <<>>
  <2>1. FlattenSeq(ss) = <<>> /\ Len(ss) = 0
    BY <1>1 DEF FlattenSeq
  <2> QED
    BY <2>1, NoEvent
<1>2. CASE ss # <<>>
  <2>1. PICK h \in [0..Len(ss) -> Seq(Chunk)] :
              /\ h[0] = <<>> /\ h[Len(ss)] = FlattenSeq(ss)
              /\ \A i \in 1..Len(ss) : h[i] = h[i - 1] \o ss[i]
    BY <1>2, Flattened
  <2> DEFINE n == Len(ss)
             P == {i \in 0..n : Runs(p, x, g[0], h[i], g[i])}
  <2>2. n \in Nat
    OBVIOUS
  <2>3. 0 \in P
    BY <2>1, <2>2, NoEvent
  <2>4. ASSUME NEW i \in 0..(n - 1), i \in P
        PROVE  i + 1 \in P
    <3>1. i + 1 \in 1..n /\ (i + 1) - 1 = i /\ i + 1 \in 0..n
      BY <2>2
    <3>2. h[i + 1] = h[i] \o ss[i + 1] /\ Runs(p, x, g[i], ss[i + 1], g[i + 1]) /\ Runs(p, x, g[0], h[i], g[i])
      BY <2>1, <2>4, <3>1
    <3>3. Runs(p, x, g[0], h[i + 1], g[i + 1])
      BY <3>2, ThenEvents
    <3> QED
      BY <3>1, <3>3
  <2> HIDE DEF P
  <2>5. 0..n \subseteq P
    BY <2>2, <2>3, <2>4, UpTo
  <2>6. Runs(p, x, g[0], h[n], g[n])
    BY <2>2, <2>5 DEF P
  <2> QED
    BY <2>1, <2>6
<1> QED
  BY <1>1, <1>2

(* A run event by event gives one in which every event is a part of its own.   *)
LEMMA AsParts ==
    ASSUME NEW p, NEW x, NEW c, NEW s, NEW d, Runs(p, x, c, s, d)
    PROVE  Runs(p, x, c, FlattenSeq([i \in DOMAIN s |-> <<s[i]>>]), d)
<1>1. s \in Seq(Chunk)
  BY DEF Runs
<1>2. PICK g : /\ g[0] = c /\ g[Len(s)] = d
               /\ \A k \in 0..Len(s) : Allowed(x, g[k])
               /\ \A k \in 1..Len(s) : Fits(g[k - 1], s[k]) /\ g[k] = Take(p, g[k - 1], s[k])
  BY DEF Runs
<1> DEFINE ss == [i \in DOMAIN s |-> <<s[i]>>]
           n == Len(s)
<1>3. n \in Nat /\ DOMAIN s = 1..n /\ \A i \in 1..n : s[i] \in Chunk
  BY <1>1
<1>4. \A i \in 1..n : ss[i] = <<s[i]>> /\ ss[i] \in Seq(Chunk)
  BY <1>3
<1>5. ss \in Seq(Seq(Chunk)) /\ Len(ss) = n
  BY <1>3, <1>4
<1> HIDE DEF ss
<1>6. ASSUME NEW i \in 1..n
      PROVE  Runs(p, x, g[i - 1], ss[i], g[i])
  <2>1. i \in 0..n /\ i - 1 \in 0..n
    BY <1>3
  <2>2. Runs(p, x, g[i - 1], <<s[i]>>, Take(p, g[i - 1], s[i]))
    BY <1>2, <1>3, <2>1, OneEvent
  <2> QED
    BY <1>2, <1>4, <2>2
<1>7. Allowed(x, g[0])
  <2>1. 0 \in 0..n
    BY <1>3
  <2> QED
    BY <1>2, <2>1
<1>8. Runs(p, x, g[0], FlattenSeq(ss), g[n])
  BY <1>5, <1>6, <1>7, PartByPart
<1> QED
  BY <1>2, <1>8 DEF ss

-----------------------------------------------------------------------------
(* What an event does at a client that has not seen the end yet: t, cs and its *)
(* are what it has, b is the open block.                                       *)
Midway(t, cs, its, b) ==
    [text |-> t, calls |-> cs, items |-> its, block |-> b, finish |-> Nothing,
     complete |-> FALSE, failed |-> FALSE, confused |-> FALSE]

(* A client that has not seen the end is allowed.                              *)
LEMMA OpenAllowed ==
    ASSUME NEW x, NEW t, NEW cs, NEW its, NEW b
    PROVE  Allowed(x, Midway(t, cs, its, b))
BY DEF Allowed, Midway

(* Events that say nothing.                                                    *)
LEMMA PlainRuns ==
    ASSUME NEW p, NEW x, NEW t, NEW cs, NEW its, NEW b,
           NEW type \in {"role", "usage", "created", "in_progress", "message_start"}
    PROVE  Runs(p, x, Midway(t, cs, its, b), <<Plain(type)>>, Midway(t, cs, its, b))
<1> DEFINE e == Plain(type)
           c == Midway(t, cs, its, b)
<1>1. e \in Chunk /\ Fits(c, e) /\ Take(p, c, e) = c
  BY DEF Plain, Chunk, Fits, Take
<1>2. Allowed(x, c)
  BY OpenAllowed
<1> HIDE DEF e, c
<1>3. Runs(p, x, c, <<e>>, c)
  BY <1>1, <1>2, OneEvent
<1> QED
  BY <1>3 DEF e, c

(* A block opens, gets its pieces, is checked, and closes.                     *)
LEMMA OpenRuns ==
    ASSUME NEW p, NEW x, NEW t, NEW cs, NEW its \in Seq(ItemRecord), NEW kind \in ItemKind
    PROVE  Runs(p, x, Midway(t, cs, its, Nothing), <<Open(Len(its), kind)>>, Midway(t, cs, its, Item(kind, <<>>)))
<1> DEFINE e == Open(Len(its), kind)
           c == Midway(t, cs, its, Nothing)
           d == Midway(t, cs, its, Item(kind, <<>>))
<1>1. e \in Chunk /\ Fits(c, e)
  BY DEF Open, Chunk, Fits, Midway
<1>2. Take(p, c, e) = d
  BY DEF Open, Take, Midway
<1>3. Allowed(x, c) /\ Allowed(x, d)
  BY OpenAllowed
<1> HIDE DEF e, c, d
<1>4. Runs(p, x, c, <<e>>, d)
  BY <1>1, <1>2, <1>3, OneEvent
<1> QED
  BY <1>4 DEF e, c, d

(* An item is not Nothing.                                                     *)
LEMMA ItemIsSomething ==
    ASSUME NEW kind \in ItemKind, NEW body \in Body
    PROVE  Item(kind, body) # Nothing /\ Item(kind, body) \in ItemRecord
           /\ Item(kind, body).kind = kind /\ Item(kind, body).text = body
BY AnswerAssumption DEF Item, ItemRecord, Body

(* A note to the open block changes nothing.                                   *)
LEMMA NoteRuns ==
    ASSUME NEW p, NEW x, NEW t, NEW cs, NEW its \in Seq(ItemRecord), NEW kind \in ItemKind, NEW body \in Body
    PROVE  Runs(p, x, Midway(t, cs, its, Item(kind, body)), <<Note(Len(its))>>, Midway(t, cs, its, Item(kind, body)))
<1> DEFINE e == Note(Len(its))
           c == Midway(t, cs, its, Item(kind, body))
<1>1. e \in Chunk /\ Fits(c, e)
  BY ItemIsSomething DEF Note, Chunk, Fits, Midway
<1>2. Take(p, c, e) = c
  BY DEF Note, Take
<1>3. Allowed(x, c)
  BY OpenAllowed
<1> HIDE DEF e, c
<1>4. Runs(p, x, c, <<e>>, c)
  BY <1>1, <1>2, <1>3, OneEvent
<1> QED
  BY <1>4 DEF e, c

(* A piece is added to the open block.                                         *)
LEMMA PieceRuns ==
    ASSUME NEW p, NEW x, NEW t, NEW cs, NEW its \in Seq(ItemRecord), NEW kind \in ItemKind,
           NEW body \in Body, NEW text \in Body, body \o text \in Body
    PROVE  Runs(p, x, Midway(t, cs, its, Item(kind, body)), <<Piece(Len(its), text)>>,
                Midway(t, cs, its, Item(kind, body \o text)))
<1> DEFINE e == Piece(Len(its), text)
           c == Midway(t, cs, its, Item(kind, body))
           d == Midway(t, cs, its, Item(kind, body \o text))
<1>1. e \in Chunk /\ Fits(c, e)
  BY ItemIsSomething DEF Piece, Chunk, Fits, Midway
<1>2. Take(p, c, e) = d
  <2> DEFINE i == Item(kind, body)
             u == Item(kind, body \o text)
  <2>1. i.kind = kind /\ i.text = body
    BY ItemIsSomething
  <2>2. Item(i.kind, i.text \o text) = u
    BY <2>1
  <2>3. c = Midway(t, cs, its, i) /\ d = Midway(t, cs, its, u)
    OBVIOUS
  <2> HIDE DEF i, u, c, d
  <2> QED
    BY <2>2, <2>3 DEF Take, Piece, Midway
<1>3. Allowed(x, c) /\ Allowed(x, d)
  BY OpenAllowed
<1> HIDE DEF e, c, d
<1>4. Runs(p, x, c, <<e>>, d)
  BY <1>1, <1>2, <1>3, OneEvent
<1> QED
  BY <1>4 DEF e, c, d

(* A check of the text of the open block changes nothing.                      *)
LEMMA CheckRuns ==
    ASSUME NEW p, NEW x, NEW t, NEW cs, NEW its \in Seq(ItemRecord), NEW kind \in ItemKind, NEW body \in Body
    PROVE  Runs(p, x, Midway(t, cs, its, Item(kind, body)), <<Check(Len(its), body)>>, Midway(t, cs, its, Item(kind, body)))
<1> DEFINE e == Check(Len(its), body)
           c == Midway(t, cs, its, Item(kind, body))
<1>1. e \in Chunk /\ Fits(c, e)
  BY ItemIsSomething DEF Check, Chunk, Fits, Midway
<1>2. Take(p, c, e) = c
  BY DEF Check, Take
<1>3. Allowed(x, c)
  BY OpenAllowed
<1> HIDE DEF e, c
<1>4. Runs(p, x, c, <<e>>, c)
  BY <1>1, <1>2, <1>3, OneEvent
<1> QED
  BY <1>4 DEF e, c

(* A block is closed with the item it has become.                              *)
LEMMA CloseRuns ==
    ASSUME NEW p, NEW x, NEW t, NEW cs, NEW its \in Seq(ItemRecord), NEW kind \in ItemKind, NEW body \in Body
    PROVE  Runs(p, x, Midway(t, cs, its, Item(kind, body)), <<Close(Len(its), Item(kind, body))>>,
                Midway(t, cs, Append(its, Item(kind, body)), Nothing))
<1> DEFINE i == Item(kind, body)
           e == Close(Len(its), i)
           c == Midway(t, cs, its, i)
           d == Midway(t, cs, Append(its, i), Nothing)
<1>1. i \in ItemRecord
  BY ItemIsSomething
<1> HIDE DEF i
<1>2. e \in Chunk /\ Fits(c, e)
  BY <1>1 DEF Close, Chunk, Fits, Midway
<1>3. Take(p, c, e) = d
  BY DEF Close, Take, Midway
<1>4. Allowed(x, c) /\ Allowed(x, d)
  BY OpenAllowed
<1> HIDE DEF e, c, d
<1>5. Runs(p, x, c, <<e>>, d)
  BY <1>2, <1>3, <1>4, OneEvent
<1> QED
  BY <1>5 DEF e, c, d, i

(* The chunks of a chat.                                                       *)
LEMMA ContentRuns ==
    ASSUME NEW p, NEW x, NEW t, NEW cs, NEW its, NEW text \in Body
    PROVE  Runs(p, x, Midway(t, cs, its, Nothing), <<ContentChunk(text)>>, Midway(t \o text, cs, its, Nothing))
<1> DEFINE e == ContentChunk(text)
           c == Midway(t, cs, its, Nothing)
           d == Midway(t \o text, cs, its, Nothing)
<1>1. e \in Chunk /\ Fits(c, e)
  BY DEF ContentChunk, Chunk, Fits, Midway
<1>2. Take(p, c, e) = d
  BY DEF ContentChunk, Take, Midway
<1>3. Allowed(x, c) /\ Allowed(x, d)
  BY OpenAllowed
<1> HIDE DEF e, c, d
<1>4. Runs(p, x, c, <<e>>, d)
  BY <1>1, <1>2, <1>3, OneEvent
<1> QED
  BY <1>4 DEF e, c, d

(* A tool call of a chat.                                                      *)
LEMMA ToolRuns ==
    ASSUME NEW p, NEW x, NEW t, NEW cs \in Seq({"function"}), NEW its, NEW b, NEW tool
    PROVE  Runs(p, x, Midway(t, cs, its, b), <<ToolChunk(Len(cs), tool)>>, Midway(t, Append(cs, "function"), its, b))
<1> DEFINE e == ToolChunk(Len(cs), tool)
           c == Midway(t, cs, its, b)
           d == Midway(t, Append(cs, "function"), its, b)
<1>1. e \in Chunk /\ Fits(c, e)
  <2>1. e.type = "tool" /\ e.index = Len(cs) /\ c.calls = cs
    BY DEF ToolChunk, Midway
  <2>2. Fits(c, e)
    BY <2>1 DEF Fits
  <2>3. Len(cs) \in Nat
    OBVIOUS
  <2>4. \A k \in Nat : ToolChunk(k, tool) \in [type : {"tool"}, index : Nat, call : {"function"}]
    BY DEF ToolChunk
  <2> QED
    BY <2>2, <2>3, <2>4 DEF Chunk
<1>2. Take(p, c, e) = d
  BY DEF ToolChunk, Take, Midway
<1>3. Allowed(x, c) /\ Allowed(x, d)
  BY OpenAllowed
<1> HIDE DEF e, c, d
<1>4. Runs(p, x, c, <<e>>, d)
  BY <1>1, <1>2, <1>3, OneEvent
<1> QED
  BY <1>4 DEF e, c, d

-----------------------------------------------------------------------------
(* Texts in pieces.                                                            *)

(* The pieces ss make up the text t.                                           *)
MakeUp(ss, t) ==
    /\ ss \in Seq(Seq(Rune))
    /\ \E h : /\ h[0] = <<>> /\ h[Len(ss)] = t
              /\ \A i \in 0..Len(ss) : h[i] \in Seq(Rune)
              /\ \A i \in 1..Len(ss) : h[i] = h[i - 1] \o ss[i]

(* charChunks cuts a text into pieces that make it up again.                   *)
LEMMA ChunksMakeUp ==
    ASSUME NEW text \in Seq(Rune)
    PROVE  MakeUp(charChunks(text), text)
<1> DEFINE L == Len(text)
           C == ChunkSize
           n == (L + C - 1) \div C
           end(i) == IF i * C > L THEN L ELSE i * C
           h == [i \in 0..n |-> SubSeq(text, 1, end(i))]
           ss == charChunks(text)
<1>1. L \in Nat /\ C \in Nat \ {0}
  BY AnswerAssumption
<1>2. n \in Nat /\ n * C >= L /\ \A i \in 1..n : i * C < L + C
  <2> DEFINE a == L + C - 1
  <2>1. a \in Nat
    BY <1>1
  <2> HIDE DEF a
  <2>2. a \div C \in Nat /\ C * (a \div C) <= a /\ a < C * (a \div C) + C
    BY <1>1, <2>1
  <2> DEFINE q == a \div C
  <2>3. q = n
    BY DEF a
  <2> HIDE DEF q, n
  <2>4. q \in Nat /\ C * q <= a /\ a < C * q + C /\ q * C = C * q
    BY <1>1, <2>2 DEF q
  <2>5. ASSUME NEW i \in 1..q
        PROVE  i * C < L + C
    <3>1. i * C <= q * C
      BY <1>1, <2>4
    <3> QED
      BY <1>1, <2>4, <3>1 DEF a
  <2> QED
    BY <1>1, <2>3, <2>4, <2>5 DEF a
<1>3. ASSUME NEW i \in 0..n
      PROVE  end(i) \in 0..L
  <2>1. i * C \in Nat
    BY <1>1, <1>2
  <2> HIDE DEF L, n, C
  <2> QED
    BY <1>1, <2>1
<1>4. ASSUME NEW i \in 1..n
      PROVE  (i - 1) * C + 1 = end(i - 1) + 1 /\ end(i - 1) <= end(i)
  <2>1. i * C < L + C /\ i * C \in Nat /\ (i - 1) * C = i * C - C /\ (i - 1) * C \in Nat
    BY <1>1, <1>2
  <2> HIDE DEF L, n, C
  <2> QED
    BY <1>1, <2>1
<1>5. end(0) = 0 /\ end(n) = L
  BY <1>1, <1>2
<1>6. \A i \in 1..n : i \in 0..n /\ i - 1 \in 0..n
  BY <1>2
<1>7. ss = [i \in 1..n |-> SubSeq(text, (i - 1) * C + 1, end(i))]
  BY DEF charChunks
<1> HIDE DEF n, end, C, L, ss
<1>8. ASSUME NEW i \in 1..n
      PROVE  ss[i] \in Seq(Rune) /\ h[i] = h[i - 1] \o ss[i]
  <2> DEFINE a == end(i - 1)
             b == end(i)
  <2>1. a \in 0..L /\ b \in 0..L /\ a <= b
    BY <1>3, <1>4, <1>6
  <2>2. ss[i] = SubSeq(text, a + 1, b) /\ h[i] = SubSeq(text, 1, b) /\ h[i - 1] = SubSeq(text, 1, a)
    <3>1. ss[i] = SubSeq(text, (i - 1) * C + 1, end(i))
      BY <1>7
    <3> QED
      BY <1>4, <1>6, <3>1
  <2> HIDE DEF a, b, h
  <2>3. SubSeq(text, 1, a) \o SubSeq(text, a + 1, b) = SubSeq(text, 1, b) /\ SubSeq(text, a + 1, b) \in Seq(Rune)
    BY <2>1 DEF L
  <2> QED
    BY <2>2, <2>3
<1>9. ss \in Seq(Seq(Rune)) /\ Len(ss) = n
  <2>1. ss \in [1..n -> Seq(Rune)]
    BY <1>7, <1>8
  <2> HIDE DEF h
  <2> QED
    BY <1>2, <2>1
<1>10. ASSUME NEW i \in 0..n
       PROVE  h[i] \in Seq(Rune)
  BY <1>3 DEF L
<1>11. h[0] = <<>> /\ h[n] = text
  <2>1. 0 \in 0..n /\ n \in 0..n
    BY <1>2
  <2>2. SubSeq(text, 1, 0) = <<>> /\ SubSeq(text, 1, L) = text
    BY DEF L
  <2> QED
    BY <1>5, <2>1, <2>2
<1> HIDE DEF h
<1>12. MakeUp(ss, text)
  BY <1>8, <1>9, <1>10, <1>11 DEF MakeUp
<1> QED
  BY <1>12 DEF ss

(* A run is made event by event: g is the client between the events.           *)
LEMMA EventByEvent ==
    ASSUME NEW p, NEW x, NEW s, NEW g, NEW n \in Nat, s \in Seq(Chunk), Len(s) = n, Allowed(x, g[0]),
           \A i \in 1..n : Runs(p, x, g[i - 1], <<s[i]>>, g[i])
    PROVE  Runs(p, x, g[0], s, g[n])
<1>1. ASSUME NEW i \in 1..n
      PROVE  Fits(g[i - 1], s[i]) /\ g[i] = Take(p, g[i - 1], s[i]) /\ Allowed(x, g[i])
  <2> DEFINE c == g[i - 1]
             d == g[i]
             e == s[i]
             one == <<e>>
  <2>1. Runs(p, x, c, one, d)
    OBVIOUS
  <2>2. Len(one) = 1 /\ one[1] = e /\ 0 \in 0..1 /\ 1 \in 0..1 /\ 1 \in 1..1 /\ 1 - 1 = 0
    OBVIOUS
  <2> HIDE DEF c, d, e, one
  <2>3. PICK h : /\ h[0] = c /\ h[1] = d
                 /\ \A k \in 0..1 : Allowed(x, h[k])
                 /\ \A k \in 1..1 : Fits(h[k - 1], one[k]) /\ h[k] = Take(p, h[k - 1], one[k])
    BY <2>1, <2>2 DEF Runs
  <2>4. Fits(c, e) /\ d = Take(p, c, e) /\ Allowed(x, d)
    BY <2>2, <2>3
  <2> QED
    BY <2>4 DEF c, d, e
<1>2. ASSUME NEW k \in 0..n
      PROVE  Allowed(x, g[k])
  <2>1. k = 0 \/ k \in 1..n
    OBVIOUS
  <2> QED
    BY <1>1, <2>1
<1> QED
  BY <1>1, <1>2 DEF Runs

(* The pieces of a text, in one block.                                         *)
LEMMA PiecesRun ==
    ASSUME NEW p, NEW x, NEW t, NEW cs, NEW its \in Seq(ItemRecord), NEW kind \in ItemKind,
           NEW ss, NEW text, MakeUp(ss, text)
    PROVE  Runs(p, x, Midway(t, cs, its, Item(kind, <<>>)), [i \in DOMAIN ss |-> Piece(Len(its), ss[i])],
                Midway(t, cs, its, Item(kind, text)))
<1>1. PICK h : /\ h[0] = <<>> /\ h[Len(ss)] = text
               /\ \A i \in 0..Len(ss) : h[i] \in Seq(Rune)
               /\ \A i \in 1..Len(ss) : h[i] = h[i - 1] \o ss[i]
  BY DEF MakeUp
<1> DEFINE n == Len(ss)
           s == [i \in DOMAIN ss |-> Piece(Len(its), ss[i])]
           g == [i \in 0..n |-> Midway(t, cs, its, Item(kind, h[i]))]
<1>2. n \in Nat /\ DOMAIN ss = 1..n /\ \A i \in 1..n : ss[i] \in Seq(Rune)
  BY DEF MakeUp
<1>3. \A i \in 1..n : s[i] = Piece(Len(its), ss[i]) /\ s[i] \in Chunk
  BY <1>2 DEF Piece, Chunk, Body
<1>4. s \in Seq(Chunk) /\ Len(s) = n
  BY <1>2, <1>3
<1>5. \A i \in 0..n : g[i] = Midway(t, cs, its, Item(kind, h[i]))
  OBVIOUS
<1>6. 0 \in 0..n /\ n \in 0..n /\ \A i \in 1..n : i \in 0..n /\ i - 1 \in 0..n
  BY <1>2
<1> HIDE DEF s, g
<1>7. ASSUME NEW i \in 1..n
      PROVE  Runs(p, x, g[i - 1], <<s[i]>>, g[i])
  <2> DEFINE u == h[i - 1]
             v == ss[i]
  <2>1. u \in Body /\ v \in Body /\ u \o v \in Body /\ h[i] = u \o v
    BY <1>1, <1>2, <1>6 DEF Body
  <2> HIDE DEF u, v
  <2>2. Runs(p, x, Midway(t, cs, its, Item(kind, u)), <<Piece(Len(its), v)>>, Midway(t, cs, its, Item(kind, u \o v)))
    BY <2>1, PieceRuns
  <2> QED
    BY <1>3, <1>5, <1>6, <2>1, <2>2 DEF u, v
<1>8. Allowed(x, g[0])
  BY <1>5, <1>6, OpenAllowed
<1>9. Runs(p, x, g[0], s, g[n])
  BY <1>2, <1>4, <1>7, <1>8, EventByEvent
<1> QED
  BY <1>1, <1>5, <1>6, <1>9 DEF s

(* The events of a whole item.                                                 *)
LEMMA MessageRuns ==
    ASSUME NEW p, NEW x, NEW t, NEW cs, NEW its \in Seq(ItemRecord), NEW text \in Seq(Rune)
    PROVE  Runs(p, x, Midway(t, cs, its, Nothing), MessageEvents(Len(its), text),
                Midway(t, cs, Append(its, Item("message", text)), Nothing))
<1> DEFINE k == Len(its)
           pieces == [i \in DOMAIN charChunks(text) |-> Piece(k, charChunks(text)[i])]
           c0 == Midway(t, cs, its, Nothing)
           c1 == Midway(t, cs, its, Item("message", <<>>))
           c2 == Midway(t, cs, its, Item("message", text))
           c3 == Midway(t, cs, Append(its, Item("message", text)), Nothing)
           open == <<Open(k, "message")>>
           note == <<Note(k)>>
           check == <<Check(k, text)>>
           close == <<Close(k, Item("message", text))>>
<1>1. "message" \in ItemKind /\ <<>> \in Body /\ text \in Body
  BY DEF ItemKind, Body
<1>2. Runs(p, x, c0, open, c1)
  BY <1>1, OpenRuns
<1>3. Runs(p, x, c1, note, c1)
  BY <1>1, NoteRuns
<1>4. Runs(p, x, c1, pieces, c2)
  BY <1>1, ChunksMakeUp, PiecesRun
<1>5. Runs(p, x, c2, check, c2)
  BY <1>1, CheckRuns
<1>6. Runs(p, x, c2, close, c3)
  BY <1>1, CloseRuns
<1>7. MessageEvents(k, text) = <<Open(k, "message"), Note(k)>> \o pieces
                               \o <<Check(k, text), Check(k, text), Close(k, Item("message", text))>>
  BY DEF MessageEvents
<1>8. /\ <<Open(k, "message"), Note(k)>> = open \o note
      /\ <<Check(k, text), Check(k, text), Close(k, Item("message", text))>> = (check \o check) \o close
  OBVIOUS
<1> HIDE DEF k, pieces, c0, c1, c2, c3, open, note, check, close
<1>9. Runs(p, x, c0, open \o note, c1)
  BY <1>2, <1>3, ThenEvents
<1>10. Runs(p, x, c0, (open \o note) \o pieces, c2)
  BY <1>4, <1>9, ThenEvents
<1>11. Runs(p, x, c2, check \o check, c2)
  BY <1>5, ThenEvents
<1>12. Runs(p, x, c2, (check \o check) \o close, c3)
  BY <1>6, <1>11, ThenEvents
<1>13. Runs(p, x, c0, ((open \o note) \o pieces) \o ((check \o check) \o close), c3)
  BY <1>10, <1>12, ThenEvents
<1>14. Runs(p, x, c0, MessageEvents(k, text), c3)
  BY ONLY <1>7, <1>8, <1>13
<1> QED
  BY <1>14 DEF k, c0, c3

(* The text block of Anthropic's protocol.                                     *)
LEMMA TextRuns ==
    ASSUME NEW p, NEW x, NEW t, NEW cs, NEW text \in Seq(Rune)
    PROVE  Runs(p, x, Midway(t, cs, <<>>, Nothing), TextBlock(text),
                Midway(t, cs, Append(<<>>, Item("text", text)), Nothing))
<1> DEFINE its == <<>>
           k == Len(its)
           pieces == [i \in DOMAIN charChunks(text) |-> Piece(k, charChunks(text)[i])]
           c0 == Midway(t, cs, its, Nothing)
           c1 == Midway(t, cs, its, Item("text", <<>>))
           c2 == Midway(t, cs, its, Item("text", text))
           c3 == Midway(t, cs, Append(its, Item("text", text)), Nothing)
           open == <<Open(k, "text")>>
           close == <<Close(k, Item("text", text))>>
<1>1. "text" \in ItemKind /\ <<>> \in Body /\ text \in Body /\ its \in Seq(ItemRecord)
  BY DEF ItemKind, Body
<1>2. k = 0
  OBVIOUS
<1>3. TextBlock(text) = (open \o pieces) \o close
  BY <1>2 DEF TextBlock
<1> HIDE DEF k, its
<1>4. Runs(p, x, c0, open, c1)
  BY <1>1, OpenRuns DEF k
<1>5. Runs(p, x, c1, pieces, c2)
  BY <1>1, ChunksMakeUp, PiecesRun DEF k
<1>6. Runs(p, x, c2, close, c3)
  BY <1>1, CloseRuns DEF k
<1> HIDE DEF pieces, c0, c1, c2, c3, open, close
<1>7. Runs(p, x, c0, open \o pieces, c2)
  BY <1>4, <1>5, ThenEvents
<1>8. Runs(p, x, c0, (open \o pieces) \o close, c3)
  BY <1>6, <1>7, ThenEvents
<1> QED
  BY <1>3, <1>8 DEF c0, c3, its

(* The web search of the Responses protocol, its first item.                   *)
LEMMA SearchRuns ==
    ASSUME NEW p, NEW x, NEW t, NEW cs
    PROVE  Runs(p, x, Midway(t, cs, <<>>, Nothing), SearchEvents,
                Midway(t, cs, Append(<<>>, Item("web_search_call", <<>>)), Nothing))
<1> DEFINE its == <<>>
           k == Len(its)
           item == Item("web_search_call", <<>>)
           c0 == Midway(t, cs, its, Nothing)
           c1 == Midway(t, cs, its, item)
           c2 == Midway(t, cs, Append(its, item), Nothing)
           open == <<Open(k, "web_search_call")>>
           note == <<Note(k)>>
           close == <<Close(k, item)>>
<1>1. "web_search_call" \in ItemKind /\ <<>> \in Body /\ its \in Seq(ItemRecord)
  BY DEF ItemKind, Body
<1>2. k = 0
  OBVIOUS
<1>3. SearchEvents = (open \o ((note \o note) \o note)) \o close
  BY <1>2 DEF SearchEvents
<1> HIDE DEF k, its
<1>4. Runs(p, x, c0, open, c1)
  BY <1>1, OpenRuns DEF k
<1>5. Runs(p, x, c1, note, c1)
  BY <1>1, NoteRuns DEF k
<1>6. Runs(p, x, c1, close, c2)
  BY <1>1, CloseRuns DEF k
<1> HIDE DEF item, c0, c1, c2, open, note, close
<1>7. Runs(p, x, c1, (note \o note) \o note, c1)
  BY <1>5, ThenEvents
<1>8. Runs(p, x, c0, open \o ((note \o note) \o note), c1)
  BY <1>4, <1>7, ThenEvents
<1>9. Runs(p, x, c0, (open \o ((note \o note) \o note)) \o close, c2)
  BY <1>6, <1>8, ThenEvents
<1> QED
  BY <1>3, <1>9 DEF c0, c2, its, item

(* A call, with the checks of the Responses protocol or without.               *)
CallBlock(k, kind, args, checks) == <<Open(k, kind), Piece(k, args)>> \o checks \o <<Close(k, Item(kind, args))>>

(* A call is one item.                                                         *)
LEMMA CallRuns ==
    ASSUME NEW p, NEW x, NEW t, NEW cs, NEW its \in Seq(ItemRecord), NEW kind \in ItemKind, NEW args \in Seq(ToolKind),
           NEW checks \in {<<>>, <<Check(Len(its), args)>>}
    PROVE  Runs(p, x, Midway(t, cs, its, Nothing), CallBlock(Len(its), kind, args, checks),
                Midway(t, cs, Append(its, Item(kind, args)), Nothing))
<1> DEFINE k == Len(its)
           c0 == Midway(t, cs, its, Nothing)
           c1 == Midway(t, cs, its, Item(kind, <<>>))
           c2 == Midway(t, cs, its, Item(kind, args))
           c3 == Midway(t, cs, Append(its, Item(kind, args)), Nothing)
           open == <<Open(k, kind)>>
           piece == <<Piece(k, args)>>
           close == <<Close(k, Item(kind, args))>>
<1>1. <<>> \in Body /\ args \in Body /\ <<>> \o args = args
  BY DEF Body
<1>2. CallBlock(k, kind, args, checks) = ((open \o piece) \o checks) \o close
  BY DEF CallBlock
<1>3. Runs(p, x, c0, open, c1)
  BY OpenRuns
<1>4. Runs(p, x, c1, piece, c2)
  <2>1. Runs(p, x, c1, piece, Midway(t, cs, its, Item(kind, <<>> \o args)))
    BY <1>1, PieceRuns
  <2> QED
    BY <1>1, <2>1
<1>5. Runs(p, x, c2, checks, c2)
  <2>1. CASE checks = <<>>
    BY <2>1, OpenAllowed, NoEvent
  <2>2. CASE checks = <<Check(Len(its), args)>>
    BY <1>1, <2>2, CheckRuns
  <2> QED
    BY <2>1, <2>2
<1>6. Runs(p, x, c2, close, c3)
  BY <1>1, CloseRuns
<1> HIDE DEF k, c0, c1, c2, c3, open, piece, close
<1>7. Runs(p, x, c0, open \o piece, c2)
  BY <1>3, <1>4, ThenEvents
<1>8. Runs(p, x, c0, (open \o piece) \o checks, c2)
  BY <1>5, <1>7, ThenEvents
<1>9. Runs(p, x, c0, ((open \o piece) \o checks) \o close, c3)
  BY <1>6, <1>8, ThenEvents
<1> QED
  BY <1>2, <1>9 DEF k, c0, c3

(* The blocks of the items that follow the items its.                          *)
BlocksOf(its, items, checks, blocks) ==
    /\ DOMAIN blocks = 1..Len(items) /\ blocks = [i \in 1..Len(items) |-> blocks[i]]
    /\ \A i \in 1..Len(items) :
          /\ items[i] = Item(items[i].kind, items[i].text)
          /\ items[i].kind \in ItemKind /\ items[i].text \in Seq(ToolKind)
          /\ checks[i] \in {<<>>, <<Check(Len(its) + i - 1, items[i].text)>>}
          /\ blocks[i] = CallBlock(Len(its) + i - 1, items[i].kind, items[i].text, checks[i])

(* They run one after the other.                                               *)
LEMMA CallsRun ==
    ASSUME NEW p, NEW x, NEW t, NEW cs, NEW its \in Seq(ItemRecord), NEW items \in Seq(ItemRecord),
           NEW checks, NEW blocks, BlocksOf(its, items, checks, blocks)
    PROVE  Runs(p, x, Midway(t, cs, its, Nothing), FlattenSeq(blocks), Midway(t, cs, its \o items, Nothing))
<1> DEFINE n == Len(items)
           have(i) == its \o SubSeq(items, 1, i)
           g == [i \in 0..n |-> Midway(t, cs, have(i), Nothing)]
<1>1. /\ n \in Nat /\ DOMAIN blocks = 1..n /\ blocks = [i \in 1..n |-> blocks[i]]
      /\ \A i \in 1..n :
          /\ items[i] = Item(items[i].kind, items[i].text)
          /\ items[i].kind \in ItemKind /\ items[i].text \in Seq(ToolKind)
          /\ checks[i] \in {<<>>, <<Check(Len(its) + i - 1, items[i].text)>>}
          /\ blocks[i] = CallBlock(Len(its) + i - 1, items[i].kind, items[i].text, checks[i])
  BY DEF BlocksOf
<1>2. \A i \in 0..n : g[i] = Midway(t, cs, have(i), Nothing)
  OBVIOUS
<1>3. ASSUME NEW i \in 1..n
      PROVE  /\ have(i - 1) \in Seq(ItemRecord) /\ Len(have(i - 1)) = Len(its) + i - 1
             /\ have(i) = Append(have(i - 1), items[i])
  <2> DEFINE r == SubSeq(items, 1, i - 1)
  <2>1. r \in Seq(ItemRecord) /\ Len(r) = i - 1 /\ items[i] \in ItemRecord
    OBVIOUS
  <2>2. SubSeq(items, 1, i) = Append(r, items[i])
    OBVIOUS
  <2> HIDE DEF r
  <2>3. its \o Append(r, items[i]) = Append(its \o r, items[i])
    BY <2>1
  <2>4. its \o r \in Seq(ItemRecord) /\ Len(its \o r) = Len(its) + i - 1
    <3>1. its \o r \in Seq(ItemRecord) /\ Len(its \o r) = Len(its) + Len(r)
      BY ONLY <2>1, its \in Seq(ItemRecord)
    <3> QED
      BY <2>1, <3>1
  <2> QED
    BY <2>2, <2>3, <2>4 DEF r
<1>4. have(0) = its /\ have(n) = its \o items
  <2>1. SubSeq(items, 1, 0) = <<>> /\ SubSeq(items, 1, n) = items /\ its \o <<>> = its
    OBVIOUS
  <2> QED
    BY <2>1
<1>5. 0 \in 0..n /\ n \in 0..n /\ \A i \in 1..n : i \in 0..n /\ i - 1 \in 0..n
  OBVIOUS
<1> HIDE DEF have, g
<1>6. ASSUME NEW i \in 1..n
      PROVE  Runs(p, x, g[i - 1], blocks[i], g[i])
  <2> DEFINE had == have(i - 1)
             kind == items[i].kind
             text == items[i].text
             ch == checks[i]
  <2>1. had \in Seq(ItemRecord) /\ Len(had) = Len(its) + i - 1 /\ have(i) = Append(had, items[i])
    BY <1>3
  <2>2. kind \in ItemKind /\ text \in Seq(ToolKind) /\ items[i] = Item(kind, text)
    BY <1>1
  <2>3. ch \in {<<>>, <<Check(Len(had), text)>>} /\ blocks[i] = CallBlock(Len(had), kind, text, ch)
    BY <1>1, <2>1
  <2>4. g[i - 1] = Midway(t, cs, had, Nothing) /\ g[i] = Midway(t, cs, Append(had, Item(kind, text)), Nothing)
    BY <1>2, <1>5, <2>1, <2>2
  <2> HIDE DEF had, kind, text, ch
  <2>5. Runs(p, x, Midway(t, cs, had, Nothing), CallBlock(Len(had), kind, text, ch),
             Midway(t, cs, Append(had, Item(kind, text)), Nothing))
    BY <2>1, <2>2, <2>3, CallRuns
  <2> QED
    BY <2>3, <2>4, <2>5
<1>7. blocks \in Seq(Seq(Chunk)) /\ Len(blocks) = n
  <2>1. \A i \in 1..n : blocks[i] \in Seq(Chunk)
    BY <1>6 DEF Runs
  <2>2. blocks \in [1..n -> Seq(Chunk)]
    BY ONLY <2>1, <1>1
  <2> QED
    BY ONLY <2>2, <1>1
<1>8. Allowed(x, g[0])
  BY <1>2, <1>5, OpenAllowed
<1>9. Runs(p, x, g[0], FlattenSeq(blocks), g[n])
  BY <1>6, <1>7, <1>8, PartByPart
<1> QED
  BY <1>2, <1>4, <1>5, <1>9

(* The items of an answer, in the Responses protocol and in Anthropic's.       *)
CallItems(calls) == [i \in DOMAIN calls |-> Item(CallItem(calls[i]), Arguments(calls[i]))]
ToolItems(calls) == [i \in DOMAIN calls |-> Item("tool_use", Arguments(calls[i]))]

(* There is one item for every call, of its kind and with its arguments.       *)
LEMMA CallItemsAre ==
    ASSUME NEW calls \in Seq(ToolKind)
    PROVE  /\ CallItems(calls) \in Seq(ItemRecord) /\ Len(CallItems(calls)) = Len(calls)
           /\ ToolItems(calls) \in Seq(ItemRecord) /\ Len(ToolItems(calls)) = Len(calls)
           /\ \A i \in 1..Len(calls) :
                 /\ CallItems(calls)[i].kind = CallItem(calls[i]) /\ CallItems(calls)[i].text = <<calls[i]>>
                 /\ CallItems(calls)[i] = Item(CallItem(calls[i]), <<calls[i]>>)
                 /\ ToolItems(calls)[i].kind = "tool_use" /\ ToolItems(calls)[i].text = <<calls[i]>>
                 /\ ToolItems(calls)[i] = Item("tool_use", <<calls[i]>>)
                 /\ <<calls[i]>> \in Seq(ToolKind) /\ CallItem(calls[i]) \in ItemKind
<1> DEFINE n == Len(calls)
           a == CallItems(calls)
           b == ToolItems(calls)
<1>1. n \in Nat /\ DOMAIN calls = 1..n /\ \A i \in 1..n : calls[i] \in ToolKind
  OBVIOUS
<1>2. ASSUME NEW i \in 1..n
      PROVE  /\ a[i] = Item(CallItem(calls[i]), <<calls[i]>>) /\ b[i] = Item("tool_use", <<calls[i]>>)
             /\ <<calls[i]>> \in Seq(ToolKind) /\ <<calls[i]>> \in Body
             /\ CallItem(calls[i]) \in ItemKind /\ "tool_use" \in ItemKind
  BY <1>1 DEF CallItems, ToolItems, Arguments, CallItem, ItemKind, Body
<1>3. ASSUME NEW i \in 1..n
      PROVE  /\ a[i] \in ItemRecord /\ a[i].kind = CallItem(calls[i]) /\ a[i].text = <<calls[i]>>
             /\ b[i] \in ItemRecord /\ b[i].kind = "tool_use" /\ b[i].text = <<calls[i]>>
  <2> DEFINE kind == CallItem(calls[i])
             text == <<calls[i]>>
  <2>1. kind \in ItemKind /\ text \in Body /\ a[i] = Item(kind, text) /\ b[i] = Item("tool_use", text) /\ "tool_use" \in ItemKind
    BY <1>2
  <2> HIDE DEF kind, text, a, b
  <2>2. /\ a[i] \in ItemRecord /\ a[i].kind = kind /\ a[i].text = text
        /\ b[i] \in ItemRecord /\ b[i].kind = "tool_use" /\ b[i].text = text
    BY <2>1, ItemIsSomething
  <2> QED
    BY <2>2 DEF kind, text
<1>4. DOMAIN a = 1..n /\ DOMAIN b = 1..n /\ a = [i \in 1..n |-> a[i]] /\ b = [i \in 1..n |-> b[i]]
  BY <1>1 DEF CallItems, ToolItems
<1> HIDE DEF a, b
<1>5. a \in [1..n -> ItemRecord] /\ b \in [1..n -> ItemRecord]
  BY <1>3, <1>4
<1>6. a \in Seq(ItemRecord) /\ Len(a) = n /\ b \in Seq(ItemRecord) /\ Len(b) = n
  BY ONLY <1>1, <1>5
<1> HIDE DEF n
<1>7. /\ a \in Seq(ItemRecord) /\ Len(a) = n /\ b \in Seq(ItemRecord) /\ Len(b) = n
      /\ \A i \in 1..n :
           /\ a[i].kind = CallItem(calls[i]) /\ a[i].text = <<calls[i]>> /\ a[i] = Item(CallItem(calls[i]), <<calls[i]>>)
           /\ b[i].kind = "tool_use" /\ b[i].text = <<calls[i]>> /\ b[i] = Item("tool_use", <<calls[i]>>)
           /\ <<calls[i]>> \in Seq(ToolKind) /\ CallItem(calls[i]) \in ItemKind
  BY <1>2, <1>3, <1>6
<1> QED
  BY <1>7 DEF a, b, n

Messages(text) == <<Item("message", text)>>
OutputItems(text, calls, web) ==
    (IF web THEN <<Item("web_search_call", <<>>)>> ELSE <<>>)
    \o (IF text = <<>> THEN <<>> ELSE Messages(text))
    \o CallItems(calls)
    \o (IF ~web /\ text = <<>> /\ calls = <<>> THEN Messages(<<>>) ELSE <<>>)

(* A call of the Responses protocol as a block with one check.                 *)
LEMMA ChecksInBlock ==
    ASSUME NEW k, NEW kind, NEW args
    PROVE  <<Open(k, kind), Piece(k, args), Check(k, args), Close(k, Item(kind, args))>>
           = CallBlock(k, kind, args, <<Check(k, args)>>)
<1> DEFINE o == Open(k, kind)
           q == Piece(k, args)
           h == Check(k, args)
           c == Close(k, Item(kind, args))
<1>1. CallBlock(k, kind, args, <<h>>) = <<o, q>> \o <<h>> \o <<c>>
  BY DEF CallBlock
<1> HIDE DEF o, q, h, c
<1>2. <<o, q>> \o <<h>> \o <<c>> = <<o, q, h, c>>
  <2> DEFINE S == {o, q, h, c}
  <2>1. o \in S /\ q \in S /\ h \in S /\ c \in S
    OBVIOUS
  <2> HIDE DEF S
  <2>2. <<o, q, h>> = <<o, q>> \o <<h>>
    BY <2>1
  <2>3. <<o, q, h, c>> = <<o, q, h>> \o <<c>>
    BY <2>1
  <2> QED
    BY ONLY <2>2, <2>3
<1>3. <<o, q, h, c>> = CallBlock(k, kind, args, <<h>>)
  BY ONLY <1>1, <1>2
<1> QED
  BY <1>3 DEF o, q, h, c

(* What responseReplayEvents takes the client to.                              *)
LEMMA ReplayRuns ==
    ASSUME NEW p, NEW x, NEW t, NEW cs, NEW text \in Seq(Rune), NEW calls \in Seq(ToolKind), NEW web \in BOOLEAN
    PROVE  Runs(p, x, Midway(t, cs, <<>>, Nothing), responseReplayEvents(text, calls, web),
                Midway(t, cs, OutputItems(text, calls, web), Nothing))
<1> DEFINE nothing == ~web /\ text = <<>> /\ calls = <<>>
           A == IF web THEN SearchEvents ELSE <<>>
           B == IF text = <<>> THEN <<>> ELSE MessageEvents(Indexed(web, <<>>), text)
           blocks == [i \in DOMAIN calls |-> CallEvents(Indexed(web, text) + i - 1, calls[i])]
           C == FlattenSeq(blocks)
           D == IF nothing THEN MessageEvents(0, <<>>) ELSE <<>>
           a == IF web THEN <<Item("web_search_call", <<>>)>> ELSE <<>>
           b == IF text = <<>> THEN <<>> ELSE Messages(text)
           c == CallItems(calls)
           d == IF nothing THEN Messages(<<>>) ELSE <<>>
           at(its) == Midway(t, cs, its, Nothing)
<1>1. /\ a \in Seq(ItemRecord) /\ Len(a) = Indexed(web, <<>>)
      /\ a \o b \in Seq(ItemRecord) /\ Len(a \o b) = Indexed(web, text)
      /\ b \in Seq(ItemRecord) /\ d \in Seq(ItemRecord)
  <2>1. "web_search_call" \in ItemKind /\ "message" \in ItemKind /\ <<>> \in Body /\ text \in Body
    BY DEF ItemKind, Body
  <2>2. Item("web_search_call", <<>>) \in ItemRecord /\ Item("message", text) \in ItemRecord /\ Item("message", <<>>) \in ItemRecord
    BY <2>1, ItemIsSomething
  <2> QED
    BY <2>2 DEF Messages, Indexed
<1>2. Runs(p, x, at(<<>>), A, at(a))
  <2>1. CASE web
    <3>1. a = Append(<<>>, Item("web_search_call", <<>>))
      BY <2>1
    <3> QED
      BY <2>1, <3>1, SearchRuns
  <2>2. CASE ~web
    BY <2>2, OpenAllowed, NoEvent
  <2> QED
    BY <2>1, <2>2
<1>3. Runs(p, x, at(a), B, at(a \o b))
  <2>1. CASE text = <<>>
    <3>1. a \o b = a /\ B = <<>>
      BY <1>1, <2>1
    <3> QED
      BY <3>1, OpenAllowed, NoEvent
  <2>2. CASE text # <<>>
    <3>1. a \o b = Append(a, Item("message", text))
      BY <1>1, <2>2 DEF Messages
    <3>2. B = MessageEvents(Len(a), text)
      BY <1>1, <2>2
    <3> HIDE DEF a, b, B
    <3> QED
      BY <1>1, <3>1, <3>2, MessageRuns
  <2> QED
    BY <2>1, <2>2
<1>4. Runs(p, x, at(a \o b), C, at((a \o b) \o c))
  <2> DEFINE its == a \o b
             n == Len(calls)
             checks == [i \in 1..n |-> <<Check(Len(its) + i - 1, Arguments(calls[i]))>>]
  <2>1. n \in Nat /\ DOMAIN calls = 1..n
    OBVIOUS
  <2> HIDE DEF a, b
  <2>2. its \in Seq(ItemRecord) /\ Len(its) = Indexed(web, text)
    BY <1>1
  <2>3. c \in Seq(ItemRecord) /\ Len(c) = n
    BY CallItemsAre
  <2>4. DOMAIN blocks = 1..n /\ blocks = [i \in 1..n |-> blocks[i]]
    BY <2>1
  <2>5. ASSUME NEW i \in 1..n
        PROVE  /\ c[i] = Item(c[i].kind, c[i].text)
               /\ c[i].kind \in ItemKind /\ c[i].text \in Seq(ToolKind)
               /\ checks[i] \in {<<>>, <<Check(Len(its) + i - 1, c[i].text)>>}
               /\ blocks[i] = CallBlock(Len(its) + i - 1, c[i].kind, c[i].text, checks[i])
    <3> DEFINE k == Len(its) + i - 1
               kind == CallItem(calls[i])
               args == Arguments(calls[i])
    <3>1. /\ c[i].kind = kind /\ c[i].text = args /\ c[i] = Item(kind, args)
          /\ kind \in ItemKind /\ args \in Seq(ToolKind)
      BY CallItemsAre DEF Arguments
    <3>2. checks[i] = <<Check(k, args)>>
      OBVIOUS
    <3>3. blocks[i] = CallEvents(k, calls[i])
      BY <2>1, <2>2
    <3>4. CallEvents(k, calls[i]) = CallBlock(k, kind, args, <<Check(k, args)>>)
      BY ChecksInBlock DEF CallEvents
    <3> HIDE DEF kind, args, checks, blocks, c, its
    <3> QED
      BY <3>1, <3>2, <3>3, <3>4
  <2> HIDE DEF its, checks, blocks, c, n
  <2>6. BlocksOf(its, c, checks, blocks)
    BY ONLY <2>3, <2>4, <2>5 DEF BlocksOf
  <2>7. Runs(p, x, Midway(t, cs, its, Nothing), FlattenSeq(blocks), Midway(t, cs, its \o c, Nothing))
    BY <2>2, <2>3, <2>6, CallsRun
  <2> QED
    BY <2>7 DEF its, blocks, c
<1>5. Runs(p, x, at((a \o b) \o c), D, at(((a \o b) \o c) \o d))
  <2>1. CASE nothing
    <3>1. a = <<>> /\ b = <<>> /\ c = <<>> /\ d = <<Item("message", <<>>)>>
      BY <2>1 DEF CallItems, Messages
    <3> DEFINE m == Item("message", <<>>)
    <3> HIDE DEF a, b, c, d, m
    <3>2. (a \o b) \o c = <<>>
      BY ONLY <3>1
    <3>3. <<>> \o <<m>> = Append(<<>>, m)
      OBVIOUS
    <3>4. ((a \o b) \o c) \o d = Append(<<>>, Item("message", <<>>))
      BY <3>1, <3>2, <3>3 DEF m
    <3>5. D = MessageEvents(0, <<>>) /\ Len(<<>>) = 0 /\ <<>> \in Seq(Rune) /\ <<>> \in Seq(ItemRecord)
      BY <2>1
    <3> DEFINE none == <<>>
    <3>6. none \in Seq(Rune) /\ none \in Seq(ItemRecord) /\ Len(none) = 0
      OBVIOUS
    <3> HIDE DEF none
    <3>7. Runs(p, x, Midway(t, cs, none, Nothing), MessageEvents(Len(none), none), Midway(t, cs, Append(none, Item("message", none)), Nothing))
      BY <3>6, MessageRuns
    <3> QED
      BY <3>2, <3>4, <3>5, <3>7 DEF none
  <2>2. CASE ~nothing
    <3>1. d = <<>> /\ c \in Seq(ItemRecord) /\ a \o b \in Seq(ItemRecord)
      BY <1>1, <2>2, CallItemsAre
    <3> HIDE DEF a, b, c, d
    <3>2. ((a \o b) \o c) \o d = (a \o b) \o c
      BY ONLY <3>1
    <3> QED
      BY <2>2, <3>2, OpenAllowed, NoEvent
  <2> QED
    BY <2>1, <2>2
<1>6. /\ responseReplayEvents(text, calls, web) = ((A \o B) \o C) \o D
      /\ OutputItems(text, calls, web) = ((a \o b) \o c) \o d
  BY DEF responseReplayEvents, OutputItems
<1> HIDE DEF A, B, C, D, a, b, c, d, at
<1>7. Runs(p, x, at(<<>>), A \o B, at(a \o b))
  BY <1>2, <1>3, ThenEvents
<1>8. Runs(p, x, at(<<>>), (A \o B) \o C, at((a \o b) \o c))
  BY <1>4, <1>7, ThenEvents
<1>9. Runs(p, x, at(<<>>), ((A \o B) \o C) \o D, at(((a \o b) \o c) \o d))
  BY <1>5, <1>8, ThenEvents
<1> QED
  BY <1>6, <1>9 DEF at

(* The items of an answer in Anthropic's protocol.                             *)
ContentItems(text, calls) ==
    (IF text = <<>> /\ calls # <<>> THEN <<>> ELSE <<Item("text", text)>>) \o ToolItems(calls)

(* A call of Anthropic's protocol as a block without checks.                   *)
LEMMA NoCheckInBlock ==
    ASSUME NEW k, NEW kind, NEW args
    PROVE  <<Open(k, kind), Piece(k, args), Close(k, Item(kind, args))>> = CallBlock(k, kind, args, <<>>)
<1> DEFINE o == Open(k, kind)
           q == Piece(k, args)
           c == Close(k, Item(kind, args))
           S == {o, q, c}
<1>1. CallBlock(k, kind, args, <<>>) = <<o, q>> \o <<>> \o <<c>>
  BY DEF CallBlock
<1>2. o \in S /\ q \in S /\ c \in S
  OBVIOUS
<1> HIDE DEF S
<1>3. <<o, q>> \o <<>> = <<o, q>>
  BY ONLY <1>2
<1> HIDE DEF o, q, c
<1>4. <<o, q, c>> = <<o, q>> \o <<c>>
  BY <1>2
<1>5. <<o, q, c>> = CallBlock(k, kind, args, <<>>)
  BY ONLY <1>1, <1>3, <1>4
<1> QED
  BY <1>5 DEF o, q, c

(* What anthropicReplayEvents takes the client to.                             *)
LEMMA AnthropicRuns ==
    ASSUME NEW p, NEW x, NEW t, NEW cs, NEW text \in Seq(Rune), NEW calls \in Seq(ToolKind)
    PROVE  Runs(p, x, Midway(t, cs, <<>>, Nothing), anthropicReplayEvents(text, calls),
                Midway(t, cs, ContentItems(text, calls), Nothing))
<1> DEFINE A == IF text = <<>> /\ calls # <<>> THEN <<>> ELSE TextBlock(text)
           blocks == [i \in DOMAIN calls |->
                        LET k == Indexed(FALSE, text) + i - 1
                        IN  <<Open(k, "tool_use"), Piece(k, Arguments(calls[i])),
                              Close(k, Item("tool_use", Arguments(calls[i])))>>]
           a == IF text = <<>> /\ calls # <<>> THEN <<>> ELSE <<Item("text", text)>>
           c == ToolItems(calls)
           n == Len(calls)
           at(its) == Midway(t, cs, its, Nothing)
<1>1. n \in Nat /\ DOMAIN calls = 1..n
  OBVIOUS
<1>2. a \in Seq(ItemRecord) /\ (calls # <<>> => Len(a) = Indexed(FALSE, text))
  <2>1. "text" \in ItemKind /\ text \in Body
    BY DEF ItemKind, Body
  <2>2. Item("text", text) \in ItemRecord
    BY <2>1, ItemIsSomething
  <2> QED
    BY <2>2 DEF Indexed
<1>3. Runs(p, x, at(<<>>), A, at(a))
  <2>1. CASE text = <<>> /\ calls # <<>>
    <3>1. A = <<>> /\ a = <<>>
      BY <2>1
    <3> QED
      BY <3>1, OpenAllowed, NoEvent
  <2>2. CASE ~(text = <<>> /\ calls # <<>>)
    <3>1. a = Append(<<>>, Item("text", text)) /\ A = TextBlock(text)
      BY <2>2
    <3> HIDE DEF a, A
    <3> QED
      BY <3>1, TextRuns
  <2> QED
    BY <2>1, <2>2
<1>4. Runs(p, x, at(a), FlattenSeq(blocks), at(a \o c))
  <2> DEFINE checks == [i \in 1..n |-> <<>>]
  <2>1. c \in Seq(ItemRecord) /\ Len(c) = n
    BY CallItemsAre
  <2>2. DOMAIN blocks = 1..n /\ blocks = [i \in 1..n |-> blocks[i]]
    BY <1>1
  <2>3. ASSUME NEW i \in 1..n
        PROVE  /\ c[i] = Item(c[i].kind, c[i].text)
               /\ c[i].kind \in ItemKind /\ c[i].text \in Seq(ToolKind)
               /\ checks[i] \in {<<>>, <<Check(Len(a) + i - 1, c[i].text)>>}
               /\ blocks[i] = CallBlock(Len(a) + i - 1, c[i].kind, c[i].text, checks[i])
    <3> DEFINE k == Len(a) + i - 1
               args == Arguments(calls[i])
    <3>1. /\ c[i].kind = "tool_use" /\ c[i].text = args /\ c[i] = Item("tool_use", args)
          /\ "tool_use" \in ItemKind /\ args \in Seq(ToolKind)
      BY CallItemsAre DEF Arguments, ItemKind
    <3>2. checks[i] = <<>>
      OBVIOUS
    <3>3. blocks[i] = <<Open(k, "tool_use"), Piece(k, args), Close(k, Item("tool_use", args))>>
      <4>1. calls # <<>>
        OBVIOUS
      <4>2. k = Indexed(FALSE, text) + i - 1
        BY <1>2, <4>1
      <4> HIDE DEF a
      <4> QED
        BY <1>1, <4>2
    <3>4. blocks[i] = CallBlock(k, "tool_use", args, <<>>)
      BY <3>3, NoCheckInBlock
    <3> HIDE DEF args, checks, blocks, c, a
    <3> QED
      BY <3>1, <3>2, <3>4
  <2> HIDE DEF checks, blocks, c, n, a
  <2>4. BlocksOf(a, c, checks, blocks)
    BY ONLY <2>1, <2>2, <2>3 DEF BlocksOf
  <2>5. Runs(p, x, Midway(t, cs, a, Nothing), FlattenSeq(blocks), Midway(t, cs, a \o c, Nothing))
    BY <1>2, <2>1, <2>4, CallsRun
  <2> QED
    BY <2>5
<1>5. anthropicReplayEvents(text, calls) = A \o FlattenSeq(blocks) /\ ContentItems(text, calls) = a \o c
  BY DEF anthropicReplayEvents, ContentItems
<1> HIDE DEF A, blocks, a, c, at
<1>6. Runs(p, x, at(<<>>), A \o FlattenSeq(blocks), at(a \o c))
  BY <1>3, <1>4, ThenEvents
<1> QED
  BY <1>5, <1>6 DEF at

-----------------------------------------------------------------------------
(* The ends of a stream.                                                       *)
WholeAnswer(t, cs, its, f) == [text |-> t, calls |-> cs, items |-> its, finish |-> f]
Ended(t, cs, its, f, done) ==
    [text |-> t, calls |-> cs, items |-> its, block |-> Nothing, finish |-> f,
     complete |-> done, failed |-> FALSE, confused |-> FALSE]

(* A client that has seen the end is allowed if it has the answer.             *)
LEMMA EndAllowed ==
    ASSUME NEW x, NEW t, NEW cs, NEW its, NEW f, NEW done \in BOOLEAN, done => x = WholeAnswer(t, cs, its, f)
    PROVE  Allowed(x, Ended(t, cs, its, f, done))
<1> DEFINE c == Ended(t, cs, its, f, done)
<1>1. /\ c.text = t /\ c.calls = cs /\ c.items = its /\ c.finish = f
      /\ c.complete = done /\ c.failed = FALSE /\ c.confused = FALSE
      /\ DOMAIN c = {"text", "calls", "items", "block", "finish", "complete", "failed", "confused"}
  BY DEF Ended
<1> HIDE DEF c
<1>2. Made(c) = WholeAnswer(t, cs, its, f)
  BY <1>1 DEF Made, WholeAnswer
<1>3. Allowed(x, c)
  BY <1>1, <1>2 DEF Allowed
<1> QED
  BY <1>3 DEF c

(* The usage may come before the end or after the finish reason.               *)
LEMMA UsageRuns ==
    ASSUME NEW p, NEW x, NEW c, Allowed(x, c)
    PROVE  Runs(p, x, c, <<Plain("usage")>>, c)
<1> DEFINE e == Plain("usage")
<1>1. e \in Chunk /\ Fits(c, e) /\ Take(p, c, e) = c
  BY DEF Plain, Chunk, Fits, Take
<1> HIDE DEF e
<1>2. Runs(p, x, c, <<e>>, c)
  BY <1>1, OneEvent
<1> QED
  BY <1>2 DEF e

(* The finish reason, with which Gemini's stream ends.                         *)
LEMMA FinishRuns ==
    ASSUME NEW p, NEW x, NEW t, NEW cs, NEW its, NEW f \in Ending, NEW done \in BOOLEAN, done = (p = "gemini"),
           done => x = WholeAnswer(t, cs, its, f)
    PROVE  Runs(p, x, Midway(t, cs, its, Nothing), <<FinishChunk(f)>>, Ended(t, cs, its, f, done))
<1> DEFINE e == FinishChunk(f)
           c == Midway(t, cs, its, Nothing)
           d == Ended(t, cs, its, f, done)
<1>1. e \in Chunk /\ Fits(c, e)
  BY DEF FinishChunk, Chunk, Fits, Midway
<1>2. Take(p, c, e) = d
  <2>1. CASE done
    BY <2>1 DEF FinishChunk, Take, Midway, Ended
  <2>2. CASE ~done
    BY <2>2 DEF FinishChunk, Take, Midway, Ended
  <2> QED
    BY <2>1, <2>2
<1>3. Allowed(x, c) /\ Allowed(x, d)
  BY OpenAllowed, EndAllowed
<1> HIDE DEF e, c, d
<1>4. Runs(p, x, c, <<e>>, d)
  BY <1>1, <1>2, <1>3, OneEvent
<1> QED
  BY <1>4 DEF e, c, d

(* The end of a chat and of Anthropic's stream.                                *)
LEMMA DoneRuns ==
    ASSUME NEW p, NEW x, NEW t, NEW cs, NEW its, NEW f, x = WholeAnswer(t, cs, its, f)
    PROVE  Runs(p, x, Ended(t, cs, its, f, FALSE), <<Plain("done")>>, Ended(t, cs, its, f, TRUE))
<1> DEFINE e == Plain("done")
           c == Ended(t, cs, its, f, FALSE)
           d == Ended(t, cs, its, f, TRUE)
<1>1. e \in Chunk /\ Fits(c, e)
  BY DEF Plain, Chunk, Fits
<1>2. Take(p, c, e) = d
  BY DEF Plain, Take, Ended
<1>3. Allowed(x, c) /\ Allowed(x, d)
  BY EndAllowed
<1> HIDE DEF e, c, d
<1>4. Runs(p, x, c, <<e>>, d)
  BY <1>1, <1>2, <1>3, OneEvent
<1> QED
  BY <1>4 DEF e, c, d

(* The end of a stream of the Responses protocol, with the answer in full.     *)
LEMMA EndRuns ==
    ASSUME NEW p, NEW x, NEW t, NEW cs, NEW its \in Seq(ItemRecord), NEW text \in Body, NEW f \in Ending,
           x = WholeAnswer(text, cs, its, f)
    PROVE  Runs(p, x, Midway(t, cs, its, Nothing), <<EndEvent(f, its, text)>>, Ended(text, cs, its, f, TRUE))
<1> DEFINE e == EndEvent(f, its, text)
           c == Midway(t, cs, its, Nothing)
           d == Ended(text, cs, its, f, TRUE)
<1>1. e \in Chunk /\ Fits(c, e)
  BY DEF EndEvent, Chunk, Fits, Midway
<1>2. Take(p, c, e) = d
  BY DEF EndEvent, Take, Midway, Ended
<1>3. Allowed(x, c) /\ Allowed(x, d)
  BY OpenAllowed, EndAllowed
<1> HIDE DEF e, c, d
<1>4. Runs(p, x, c, <<e>>, d)
  BY <1>1, <1>2, <1>3, OneEvent
<1> QED
  BY <1>4 DEF e, c, d

(* An error may come before the end.                                           *)
LEMMA ErrorRuns ==
    ASSUME NEW p, NEW x, NEW t, NEW cs, NEW its, NEW b
    PROVE  \E d : Runs(p, x, Midway(t, cs, its, b), <<Plain("error")>>, d)
<1> DEFINE e == Plain("error")
           c == Midway(t, cs, its, b)
<1>1. e \in Chunk /\ Fits(c, e)
  BY DEF Plain, Chunk, Fits
<1>2. Allowed(x, c)
  BY OpenAllowed
<1>3. Allowed(x, Take(p, c, e))
  BY DEF Plain, Take, Midway, Allowed
<1> HIDE DEF e, c
<1>4. Runs(p, x, c, <<e>>, Take(p, c, e))
  BY <1>1, <1>2, <1>3, OneEvent
<1> QED
  BY <1>4 DEF e, c

-----------------------------------------------------------------------------
(* What the producer says.                                                     *)

(* Said: the events s of the producer take the client from c to d.             *)
Said(c, s, d) ==
    /\ s \in Seq(Chunk)
    /\ Each(Translated, s) \in Seq(Seq(Chunk))
    /\ Runs(form.protocol, Unstreamed(whole), c, FlattenSeq(Each(Translated, s)), d)

(* What is said of one part after the other.                                   *)
LEMMA ThenSaid ==
    ASSUME NEW c, NEW s, NEW d, NEW t, NEW e, Said(c, s, d), Said(d, t, e)
    PROVE  Said(c, s \o t, e)
<1> DEFINE ss == Each(Translated, s)
           tt == Each(Translated, t)
           p == form.protocol
           x == Unstreamed(whole)
<1>1. s \in Seq(Chunk) /\ t \in Seq(Chunk)
  BY DEF Said
<1>2. s \o t \in Seq(Chunk)
  BY ONLY <1>1
<1>3. /\ ss \in Seq(Seq(Chunk)) /\ Runs(p, x, c, FlattenSeq(ss), d)
      /\ tt \in Seq(Seq(Chunk)) /\ Runs(p, x, d, FlattenSeq(tt), e)
  BY DEF Said
<1>4. Each(Translated, s \o t) = ss \o tt
  <2> DEFINE both == Each(Translated, s \o t)
  <2>1. /\ both = [i \in 1..(Len(s) + Len(t)) |-> Translated((s \o t)[i])]
        /\ ss = [i \in 1..Len(s) |-> Translated(s[i])] /\ tt = [i \in 1..Len(t) |-> Translated(t[i])]
    BY <1>1 DEF Each
  <2>2. Len(ss) = Len(s) /\ Len(tt) = Len(t)
    BY <1>1, <2>1
  <2> HIDE DEF both, ss, tt
  <2>3. ss \o tt = [i \in 1..(Len(s) + Len(t)) |-> IF i <= Len(s) THEN ss[i] ELSE tt[i - Len(s)]]
    <3> DEFINE S1 == Seq(Chunk)
               u == ss \o tt
               m == Len(ss)
               n == Len(tt)
    <3>1. ss \in Seq(S1) /\ tt \in Seq(S1)
      BY <1>3
    <3> HIDE DEF S1
    <3>2. /\ u \in Seq(S1) /\ Len(u) = m + n /\ m \in Nat /\ n \in Nat
          /\ \A i \in 1..m : u[i] = ss[i]
          /\ \A i \in (m + 1)..(m + n) : u[i] = tt[i - m]
      BY ONLY <3>1
    <3> HIDE DEF u, m, n
    <3>3. u = [i \in 1..(m + n) |-> u[i]]
      BY ONLY <3>2
    <3>4. \A i \in 1..(m + n) : u[i] = IF i <= m THEN ss[i] ELSE tt[i - m]
      BY ONLY <3>2
    <3>5. u = [i \in 1..(m + n) |-> IF i <= m THEN ss[i] ELSE tt[i - m]]
      BY ONLY <3>3, <3>4
    <3> QED
      BY <2>2, <3>5 DEF u, m, n
  <2>4. ASSUME NEW i \in 1..(Len(s) + Len(t))
        PROVE  Translated((s \o t)[i]) = IF i <= Len(s) THEN ss[i] ELSE tt[i - Len(s)]
    <3>1. CASE i <= Len(s)
      <4>1. (s \o t)[i] = s[i] /\ i \in 1..Len(s)
        BY <1>1, <3>1
      <4> QED
        BY <2>1, <3>1, <4>1
    <3>2. CASE i > Len(s)
      <4>1. (s \o t)[i] = t[i - Len(s)] /\ i - Len(s) \in 1..Len(t) /\ ~(i <= Len(s))
        BY <1>1, <3>2
      <4> QED
        BY <2>1, <4>1
    <3> QED
      BY <1>1, <3>1, <3>2
  <2> QED
    BY <2>1, <2>3, <2>4 DEF both
<1> HIDE DEF ss, tt, p, x
<1>5. FlattenSeq(ss \o tt) = FlattenSeq(ss) \o FlattenSeq(tt) /\ ss \o tt \in Seq(Seq(Chunk))
  BY <1>3, FlattenConcat
<1>6. Runs(p, x, c, FlattenSeq(ss \o tt), e)
  BY <1>3, <1>5, ThenEvents
<1> QED
  BY <1>2, <1>4, <1>5, <1>6 DEF Said, p, x

(* One event after the other.                                                  *)
LEMMA EachSaid ==
    ASSUME NEW n \in Nat, NEW s \in Seq(Chunk), Len(s) = n, NEW g, Allowed(Unstreamed(whole), g[0]),
           \A i \in 1..n : Runs(form.protocol, Unstreamed(whole), g[i - 1], Translated(s[i]), g[i])
    PROVE  Said(g[0], s, g[n])
<1> DEFINE ss == Each(Translated, s)
           p == form.protocol
           x == Unstreamed(whole)
<1>1. DOMAIN s = 1..n
  OBVIOUS
<1>2. ss = [i \in 1..n |-> Translated(s[i])]
  BY <1>1 DEF Each
<1> HIDE DEF ss, p, x
<1>3. \A i \in 1..n : ss[i] = Translated(s[i]) /\ Runs(p, x, g[i - 1], ss[i], g[i])
  BY <1>2 DEF p, x
<1>4. \A i \in 1..n : ss[i] \in Seq(Chunk)
  BY <1>3 DEF Runs
<1>5. ss \in [1..n -> Seq(Chunk)]
  BY ONLY <1>2, <1>4
<1>6. ss \in Seq(Seq(Chunk)) /\ Len(ss) = n
  BY ONLY <1>5, n \in Nat
<1>7. Runs(p, x, g[0], FlattenSeq(ss), g[n])
  BY <1>3, <1>6, PartByPart DEF x
<1> QED
  BY <1>6, <1>7 DEF Said, ss, p, x

(* One event is said.                                                          *)
LEMMA OneSaid ==
    ASSUME NEW c, NEW e \in Chunk, NEW d, Allowed(Unstreamed(whole), c),
           Runs(form.protocol, Unstreamed(whole), c, Translated(e), d)
    PROVE  Said(c, <<e>>, d)
<1> DEFINE s == <<e>>
           g == [i \in 0..1 |-> IF i = 0 THEN c ELSE d]
<1>1. s \in Seq(Chunk) /\ Len(s) = 1 /\ s[1] = e /\ g[0] = c /\ g[1] = d /\ 1..1 = {1} /\ 1 - 1 = 0
  OBVIOUS
<1> HIDE DEF s, g
<1>2. Said(g[0], s, g[1])
  BY <1>1, EachSaid
<1> QED
  BY <1>1, <1>2 DEF s

(* Nothing is said.                                                            *)
LEMMA NothingSaid ==
    ASSUME NEW c, Allowed(Unstreamed(whole), c)
    PROVE  Said(c, <<>>, c)
<1> DEFINE s == <<>>
           g == [i \in 0..0 |-> c]
<1>1. s \in Seq(Chunk) /\ Len(s) = 0 /\ g[0] = c /\ 1..0 = {}
  OBVIOUS
<1> HIDE DEF s, g
<1> DEFINE n == 0
<1>2. n \in Nat /\ Len(s) = n /\ \A i \in 1..n : FALSE
  BY <1>1
<1> HIDE DEF n
<1>3. Said(g[0], s, g[n])
  BY <1>2, <1>1, EachSaid
<1> QED
  BY <1>1, <1>3 DEF s, n

(* Every protocol but Gemini's says the events as they are.                    *)
LEMMA RunsAreSaid ==
    ASSUME NEW c, NEW s, NEW d, form.protocol # "gemini", Runs(form.protocol, Unstreamed(whole), c, s, d)
    PROVE  Said(c, s, d)
<1> DEFINE ss == [i \in DOMAIN s |-> <<s[i]>>]
<1>1. Each(Translated, s) = ss
  BY DEF Each, Translated
<1>2. s \in Seq(Chunk)
  BY DEF Runs
<1>3. ss \in Seq(Seq(Chunk))
  <2> DEFINE n == Len(s)
  <2>1. n \in Nat /\ DOMAIN s = 1..n /\ \A i \in 1..n : s[i] \in Chunk
    BY <1>2
  <2>2. \A i \in 1..n : <<s[i]>> \in Seq(Chunk)
    BY <2>1
  <2>3. ss \in [1..n -> Seq(Chunk)]
    BY <2>1, <2>2
  <2> HIDE DEF ss, n
  <2> QED
    BY ONLY <2>1, <2>3
<1>4. Runs(form.protocol, Unstreamed(whole), c, FlattenSeq(ss), d)
  BY AsParts
<1> QED
  BY <1>1, <1>2, <1>3, <1>4 DEF Said

-----------------------------------------------------------------------------
(* The parts of a chat, said to a chat client or translated for Gemini's.      *)
Names(calls) == Each(LAMBDA c : "function", calls)

(* A chat begins with the role, which Gemini's stream leaves out.              *)
LEMMA RoleSaid ==
    ASSUME Chatting, NEW t, NEW cs
    PROVE  Said(Midway(t, cs, <<>>, Nothing), <<Plain("role")>>, Midway(t, cs, <<>>, Nothing))
<1> DEFINE c == Midway(t, cs, <<>>, Nothing)
           e == Plain("role")
<1>1. Allowed(Unstreamed(whole), c)
  BY OpenAllowed
<1>2. Runs(form.protocol, Unstreamed(whole), c, Translated(e), c)
  <2>1. CASE form.protocol = "gemini"
    <3>1. Translated(e) = <<>>
      BY <2>1 DEF Translated, geminiStreamFromChat, Plain
    <3> HIDE DEF c, e
    <3> QED
      BY <1>1, <3>1, NoEvent
  <2>2. CASE form.protocol # "gemini"
    <3>1. Translated(e) = <<Plain("role")>>
      BY <2>2 DEF Translated
    <3>2. Runs(form.protocol, Unstreamed(whole), c, <<Plain("role")>>, c)
      BY PlainRuns
    <3> QED
      BY <3>1, <3>2
  <2> QED
    BY <2>1, <2>2
<1>3. e \in Chunk
  BY DEF Plain, Chunk
<1> HIDE DEF c, e
<1>4. Said(c, <<e>>, c)
  BY <1>3, <1>1, <1>2, OneSaid
<1> QED
  BY <1>4 DEF c, e

(* Content goes through as it is.                                               *)
LEMMA ContentTranslated ==
    ASSUME Chatting, NEW text
    PROVE  Translated(ContentChunk(text)) = <<ContentChunk(text)>>
BY DEF Chatting, Translated, geminiStreamFromChat, ContentChunk

(* So do tool calls.                                                           *)
LEMMA ToolTranslated ==
    ASSUME Chatting, NEW k, NEW tool
    PROVE  Translated(ToolChunk(k, tool)) = <<ToolChunk(k, tool)>>
BY DEF Chatting, Translated, geminiStreamFromChat, ToolChunk

(* A delta of the text is said.                                                *)
LEMMA ContentSaid ==
    ASSUME Chatting, NEW t, NEW cs, NEW text \in Seq(Rune)
    PROVE  Said(Midway(t, cs, <<>>, Nothing), <<ContentChunk(text)>>, Midway(t \o text, cs, <<>>, Nothing))
<1>1. Runs(form.protocol, Unstreamed(whole), Midway(t, cs, <<>>, Nothing), <<ContentChunk(text)>>,
           Midway(t \o text, cs, <<>>, Nothing))
  BY ContentRuns DEF Body
<1>2. ContentChunk(text) \in Chunk
  BY DEF ContentChunk, Chunk, Body
<1> QED
  BY <1>1, <1>2, ContentTranslated, OpenAllowed, OneSaid

(* A call is said, with the number of those before as its index.               *)
LEMMA ToolSaid ==
    ASSUME Chatting, NEW t, NEW cs \in Seq({"function"}), NEW tool
    PROVE  Said(Midway(t, cs, <<>>, Nothing), <<ToolChunk(Len(cs), tool)>>,
                Midway(t, Append(cs, "function"), <<>>, Nothing))
<1>1. Runs(form.protocol, Unstreamed(whole), Midway(t, cs, <<>>, Nothing), <<ToolChunk(Len(cs), tool)>>,
           Midway(t, Append(cs, "function"), <<>>, Nothing))
  BY ToolRuns
<1>2. ToolChunk(Len(cs), tool) \in Chunk
  BY DEF ToolChunk, Chunk
<1> QED
  BY <1>1, <1>2, ToolTranslated, OpenAllowed, OneSaid

(* The pieces of a text are said.                                              *)
LEMMA ContentsSaid ==
    ASSUME Chatting, NEW cs, NEW ss, NEW text, MakeUp(ss, text)
    PROVE  Said(Midway(<<>>, cs, <<>>, Nothing), Each(ContentChunk, ss), Midway(text, cs, <<>>, Nothing))
<1>1. PICK h : /\ h[0] = <<>> /\ h[Len(ss)] = text
               /\ \A i \in 0..Len(ss) : h[i] \in Seq(Rune)
               /\ \A i \in 1..Len(ss) : h[i] = h[i - 1] \o ss[i]
  BY DEF MakeUp
<1> DEFINE n == Len(ss)
           s == Each(ContentChunk, ss)
           g == [i \in 0..n |-> Midway(h[i], cs, <<>>, Nothing)]
<1>2. n \in Nat /\ DOMAIN ss = 1..n /\ \A i \in 1..n : ss[i] \in Seq(Rune)
  BY DEF MakeUp
<1>3. s = [i \in 1..n |-> ContentChunk(ss[i])]
  BY <1>2 DEF Each
<1>4. \A i \in 0..n : g[i] = Midway(h[i], cs, <<>>, Nothing)
  OBVIOUS
<1>5. 0 \in 0..n /\ n \in 0..n /\ \A i \in 1..n : i \in 0..n /\ i - 1 \in 0..n
  BY <1>2
<1> HIDE DEF s, g, n
<1>6. s = [i \in 1..n |-> s[i]] /\ \A i \in 1..n : s[i] = ContentChunk(ss[i])
  BY <1>3
<1>7. \A i \in 1..n : s[i] \in Chunk
  BY <1>2, <1>6 DEF ContentChunk, Chunk, Body
<1>8. s \in Seq(Chunk) /\ Len(s) = n
  <2>1. s \in [1..n -> Chunk]
    BY ONLY <1>6, <1>7
  <2> QED
    BY ONLY <1>2, <2>1
<1>9. ASSUME NEW i \in 1..n
      PROVE  Runs(form.protocol, Unstreamed(whole), g[i - 1], Translated(s[i]), g[i])
  <2> DEFINE u == h[i - 1]
             v == ss[i]
  <2>1. g[i - 1] = Midway(u, cs, <<>>, Nothing) /\ g[i] = Midway(u \o v, cs, <<>>, Nothing) /\ v \in Body
    BY <1>1, <1>2, <1>4, <1>5 DEF Body, n
  <2>2. Translated(s[i]) = <<ContentChunk(v)>>
    BY <1>6, ContentTranslated
  <2> HIDE DEF u, v
  <2>3. Runs(form.protocol, Unstreamed(whole), Midway(u, cs, <<>>, Nothing), <<ContentChunk(v)>>, Midway(u \o v, cs, <<>>, Nothing))
    BY <2>1, ContentRuns
  <2> QED
    BY <2>1, <2>2, <2>3
<1>10. Allowed(Unstreamed(whole), g[0])
  BY <1>4, <1>5, OpenAllowed
<1>11. Said(g[0], s, g[n])
  BY <1>2, <1>8, <1>9, <1>10, EachSaid
<1>12. g[0] = Midway(<<>>, cs, <<>>, Nothing) /\ g[n] = Midway(text, cs, <<>>, Nothing)
  BY <1>1, <1>4, <1>5 DEF n
<1> QED
  BY <1>11, <1>12 DEF s

(* The calls of an answer are said.                                            *)
LEMMA ToolsSaid ==
    ASSUME Chatting, NEW t, NEW calls \in Seq(ToolKind)
    PROVE  Said(Midway(t, <<>>, <<>>, Nothing), [i \in DOMAIN calls |-> ToolChunk(i - 1, calls[i])],
                Midway(t, Names(calls), <<>>, Nothing))
<1> DEFINE n == Len(calls)
           s == [i \in DOMAIN calls |-> ToolChunk(i - 1, calls[i])]
           names(i) == [j \in 1..i |-> "function"]
           g == [i \in 0..n |-> Midway(t, names(i), <<>>, Nothing)]
<1>1. n \in Nat /\ DOMAIN calls = 1..n
  OBVIOUS
<1>2. \A i \in 0..n : g[i] = Midway(t, names(i), <<>>, Nothing)
  OBVIOUS
<1>3. 0 \in 0..n /\ n \in 0..n /\ \A i \in 1..n : i \in 0..n /\ i - 1 \in 0..n /\ i - 1 \in Nat
  BY <1>1
<1>4. names(0) = <<>> /\ names(n) = Names(calls)
  BY <1>1 DEF Names, Each
<1>5. ASSUME NEW i \in 1..n
      PROVE  names(i - 1) \in Seq({"function"}) /\ Len(names(i - 1)) = i - 1 /\ Append(names(i - 1), "function") = names(i)
  BY <1>3
<1>6. s = [i \in 1..n |-> s[i]] /\ \A i \in 1..n : s[i] = ToolChunk(i - 1, calls[i])
  BY <1>1
<1> HIDE DEF s, g, n, names
<1>7. ASSUME NEW i \in 1..n
      PROVE  Runs(form.protocol, Unstreamed(whole), g[i - 1], <<s[i]>>, g[i]) /\ Translated(s[i]) = <<s[i]>>
  <2> DEFINE u == names(i - 1)
             tool == calls[i]
  <2>1. /\ u \in Seq({"function"}) /\ s[i] = ToolChunk(Len(u), tool)
        /\ g[i - 1] = Midway(t, u, <<>>, Nothing) /\ g[i] = Midway(t, Append(u, "function"), <<>>, Nothing)
    BY <1>2, <1>3, <1>5, <1>6
  <2> HIDE DEF u, tool
  <2>2. Runs(form.protocol, Unstreamed(whole), Midway(t, u, <<>>, Nothing), <<ToolChunk(Len(u), tool)>>,
             Midway(t, Append(u, "function"), <<>>, Nothing))
    BY <2>1, ToolRuns
  <2> QED
    BY <2>1, <2>2, ToolTranslated
<1>8. s \in Seq(Chunk) /\ Len(s) = n
  <2>1. ASSUME NEW i \in 1..n
        PROVE  s[i] \in Chunk
    <3>1. <<s[i]>> \in Seq(Chunk) /\ Len(<<s[i]>>) = 1 /\ <<s[i]>>[1] = s[i]
      BY <1>7 DEF Runs
    <3> QED
      BY <3>1
  <2>2. s \in [1..n -> Chunk]
    BY ONLY <1>6, <2>1
  <2> QED
    BY ONLY <1>1, <2>2
<1>9. Allowed(Unstreamed(whole), g[0])
  BY <1>2, <1>3, OpenAllowed
<1>10. Said(g[0], s, g[n])
  BY <1>1, <1>7, <1>8, <1>9, EachSaid
<1>11. g[0] = Midway(t, <<>>, <<>>, Nothing) /\ g[n] = Midway(t, Names(calls), <<>>, Nothing)
  BY <1>2, <1>3, <1>4
<1> QED
  BY <1>10, <1>11 DEF s

(* The answer, as its type has it.                                             *)
AnswerType(a) ==
    /\ a.text \in Seq(Rune) /\ a.calls \in Seq(ToolKind) /\ a.finish \in {"stop", "length", "tool_calls"}
    /\ a.calls # <<>> => a.finish = "tool_calls"

(* The end of a chat.                                                          *)
LEMMA ClosingSaid ==
    ASSUME Chatting, AnswerType(whole)
    PROVE  \E d : /\ d.complete
                  /\ Said(Midway(whole.text, Names(whole.calls), <<>>, Nothing), Closing(whole.finish), d)
<1> DEFINE f == whole.finish
           t == whole.text
           cs == Names(whole.calls)
           c == Midway(t, cs, <<>>, Nothing)
           usage == IF form.usage THEN <<Plain("usage")>> ELSE <<>>
           p == form.protocol
           x == Unstreamed(whole)
<1>1. Closing(f) = (<<FinishChunk(f)>> \o usage) \o <<Plain("done")>>
  BY DEF Closing
<1>2. f \in {"stop", "length", "tool_calls"}
  BY DEF AnswerType
<1>3. CASE p = "gemini"
  <2> DEFINE r == geminiFinishReason(f)
             d == Ended(t, cs, <<>>, r, TRUE)
  <2>1. r \in Ending /\ x = WholeAnswer(t, cs, <<>>, r)
    BY <1>2, <1>3 DEF geminiFinishReason, Ending, Unstreamed, WholeAnswer, Names
  <2> HIDE DEF r, f, t, cs
  <2>2. Runs(p, x, c, <<FinishChunk(r)>>, d)
    BY <1>3, <2>1, FinishRuns
  <2>3. Allowed(x, c) /\ Allowed(x, d)
    BY <2>1, OpenAllowed, EndAllowed
  <2>4. FinishChunk(f) \in Chunk /\ Plain("usage") \in Chunk /\ Plain("done") \in Chunk
    BY <1>2 DEF FinishChunk, Plain, Chunk, Ending, f
  <2>5. Translated(FinishChunk(f)) = <<FinishChunk(r)>>
    BY <1>3 DEF Translated, geminiStreamFromChat, FinishChunk, r
  <2>6. Translated(Plain("usage")) = <<Plain("usage")>> /\ Translated(Plain("done")) = <<>>
    BY <1>3 DEF Translated, geminiStreamFromChat, Plain
  <2>7. d.complete
    BY DEF Ended
  <2> HIDE DEF c, d, p, x
  <2>8. Said(c, <<FinishChunk(f)>>, d)
    BY <2>2, <2>3, <2>5, <2>4, OneSaid DEF p, x
  <2>9. Said(d, usage, d)
    <3>1. Runs(p, x, d, <<Plain("usage")>>, d)
      BY <2>3, UsageRuns
    <3>2. Said(d, <<Plain("usage")>>, d)
      BY <2>3, <2>6, <2>4, <3>1, OneSaid DEF p, x
    <3>3. Said(d, <<>>, d)
      BY <2>3, NothingSaid DEF x
    <3> QED
      BY <3>2, <3>3
  <2>10. Said(d, <<Plain("done")>>, d)
    <3>1. Runs(p, x, d, <<>>, d)
      BY <2>3, NoEvent
    <3> QED
      BY <2>3, <2>6, <2>4, <3>1, OneSaid DEF p, x
  <2> HIDE DEF usage
  <2>11. Said(c, <<FinishChunk(f)>> \o usage, d)
    BY <2>8, <2>9, ThenSaid
  <2>12. Said(c, (<<FinishChunk(f)>> \o usage) \o <<Plain("done")>>, d)
    BY <2>10, <2>11, ThenSaid
  <2> QED
    BY <1>1, <2>12, <2>7 DEF c, f, t, cs
<1>4. CASE p # "gemini"
  <2> DEFINE b == Ended(t, cs, <<>>, f, FALSE)
             d == Ended(t, cs, <<>>, f, TRUE)
  <2>1. x = WholeAnswer(t, cs, <<>>, f) /\ f \in Ending
    <3>1. p = "chat"
      BY <1>4 DEF Chatting
    <3>2. Finish(whole.calls, f) = f
      BY DEF AnswerType, Finish
    <3> QED
      BY <1>2, <3>1, <3>2 DEF Unstreamed, WholeAnswer, Names, Ending
  <2>2. d.complete
    BY DEF Ended
  <2>3. Runs(p, x, c, <<FinishChunk(f)>>, b)
    BY <1>4, <2>1, FinishRuns
  <2>4. Allowed(x, b)
    BY EndAllowed
  <2>5. Runs(p, x, b, usage, b)
    <3>1. Runs(p, x, b, <<Plain("usage")>>, b)
      BY <2>4, UsageRuns
    <3>2. Runs(p, x, b, <<>>, b)
      BY <2>4, NoEvent
    <3> QED
      BY <3>1, <3>2
  <2>6. Runs(p, x, b, <<Plain("done")>>, d)
    BY <2>1, DoneRuns
  <2> HIDE DEF usage, b, c, d, f, t, cs
  <2>7. Runs(p, x, c, <<FinishChunk(f)>> \o usage, b)
    BY <2>3, <2>5, ThenEvents
  <2>8. Runs(p, x, c, (<<FinishChunk(f)>> \o usage) \o <<Plain("done")>>, d)
    BY <2>6, <2>7, ThenEvents
  <2>9. Said(c, Closing(f), d)
    BY <1>1, <1>4, <2>8, RunsAreSaid
  <2> QED
    BY <2>9, <2>2 DEF c, f, t, cs
<1> QED
  BY <1>3, <1>4

(* The end of a stream of the Responses protocol.                              *)
LEMMA ResponsesSaid ==
    ASSUME form \in Forms, form.protocol = "responses", AnswerType(whole),
           NEW finish \in {"stop", "length", "tool_calls"}, whole.calls = <<>> => finish = whole.finish
    PROVE  \E d : d.complete /\ Said(NewClient, ResponsesReplay(whole.text, whole.calls, finish), d)
<1> DEFINE text == whole.text
           calls == whole.calls
           f == Finish(calls, finish)
           web == form.web /\ calls = <<>>
           events == responseReplayEvents(text, calls, web)
           its == OutputItems(text, calls, web)
           c == Midway(<<>>, <<>>, <<>>, Nothing)
           m == Midway(<<>>, <<>>, its, Nothing)
           d == Ended(text, <<>>, its, f, TRUE)
           p == form.protocol
           x == Unstreamed(whole)
<1>1. text \in Seq(Rune) /\ text \in Body /\ calls \in Seq(ToolKind) /\ web \in BOOLEAN
  BY DEF AnswerType, Body, Forms
<1>2. f \in Ending /\ f = Finish(calls, whole.finish)
  BY DEF AnswerType, Finish, Ending
<1>3. its \in Seq(ItemRecord) /\ its = ResponseOutput(whole)
  <2> DEFINE a == IF web THEN <<Item("web_search_call", <<>>)>> ELSE <<>>
             b == IF text = <<>> THEN <<>> ELSE Messages(text)
             e == CallItems(calls)
             n == IF ~web /\ text = <<>> /\ calls = <<>> THEN Messages(<<>>) ELSE <<>>
             bn == IF text # <<>> \/ (~form.web /\ calls = <<>>) THEN Messages(text) ELSE <<>>
  <2>1. "web_search_call" \in ItemKind /\ "message" \in ItemKind /\ <<>> \in Body
    BY DEF ItemKind, Body
  <2>2. /\ Item("web_search_call", <<>>) \in ItemRecord
        /\ Item("message", text) \in ItemRecord /\ Item("message", <<>>) \in ItemRecord
    BY <1>1, <2>1, ItemIsSomething
  <2>3. a \in Seq(ItemRecord) /\ b \in Seq(ItemRecord) /\ n \in Seq(ItemRecord) /\ bn \in Seq(ItemRecord)
    BY <2>2 DEF Messages
  <2>4. e \in Seq(ItemRecord)
    BY <1>1, CallItemsAre
  <2>5. its = ((a \o b) \o e) \o n
    BY DEF OutputItems
  <2>6. ResponseOutput(whole) = (a \o bn) \o e
    BY DEF ResponseOutput, Messages, CallItems
  <2>7. (n = <<>> /\ b = bn) \/ (e = <<>> /\ b = <<>> /\ n = bn)
    BY DEF CallItems, Messages
  <2> HIDE DEF a, b, e, n, bn, its
  <2>8. ((a \o b) \o e) \o n = (a \o bn) \o e
    <3>1. CASE n = <<>> /\ b = bn
      BY ONLY <2>3, <2>4, <3>1
    <3>2. CASE e = <<>> /\ b = <<>> /\ n = bn
      BY ONLY <2>3, <2>4, <3>2
    <3> QED
      BY ONLY <2>7, <3>1, <3>2
  <2>9. ((a \o b) \o e) \o n \in Seq(ItemRecord)
    BY ONLY <2>3, <2>4
  <2> QED
    BY ONLY <2>5, <2>6, <2>8, <2>9
<1>4. x = WholeAnswer(text, <<>>, its, f)
  BY <1>2, <1>3 DEF Unstreamed, WholeAnswer
<1>5. ResponsesReplay(text, calls, finish) = events \o <<EndEvent(f, ReplayOutput(text, calls, web), text)>>
  BY DEF ResponsesReplay
<1>6. c = NewClient /\ d.complete
  BY DEF Midway, NewClient, Ended
<1>9. ReplayOutput(text, calls, web) = its
  BY DEF ReplayOutput, OutputItems, Messages, CallItems
<1> HIDE DEF text, calls, web, f, its
<1>7. Runs(p, x, c, events, m)
  BY <1>1, ReplayRuns DEF its
<1>8. Runs(p, x, m, <<EndEvent(f, its, text)>>, d)
  BY <1>1, <1>2, <1>3, <1>4, EndRuns
<1> HIDE DEF events, c, m, d, p, x
<1>10. Runs(p, x, c, events \o <<EndEvent(f, its, text)>>, d)
  BY <1>7, <1>8, ThenEvents
<1>11. Said(c, ResponsesReplay(text, calls, finish), d)
  BY <1>5, <1>9, <1>10, RunsAreSaid DEF p, x
<1> QED
  BY <1>6, <1>11 DEF text, calls

(* The end of a stream of Anthropic's protocol.                                *)
LEMMA AnthropicSaid ==
    ASSUME form.protocol = "anthropic", AnswerType(whole),
           NEW finish \in {"stop", "length", "tool_calls"}, whole.calls = <<>> => finish = whole.finish
    PROVE  \E d : d.complete /\ Said(NewClient, AnthropicReplay(whole.text, whole.calls, finish), d)
<1> DEFINE text == whole.text
           calls == whole.calls
           f == anthropicStopReason(Finish(calls, finish))
           events == anthropicReplayEvents(text, calls)
           its == ContentItems(text, calls)
           c == Midway(<<>>, <<>>, <<>>, Nothing)
           m == Midway(<<>>, <<>>, its, Nothing)
           b == Ended(<<>>, <<>>, its, f, FALSE)
           d == Ended(<<>>, <<>>, its, f, TRUE)
           p == form.protocol
           x == Unstreamed(whole)
<1>1. text \in Seq(Rune) /\ calls \in Seq(ToolKind)
  BY DEF AnswerType
<1>2. f \in Ending /\ f = anthropicStopReason(whole.finish)
  BY DEF AnswerType, Finish, Ending, anthropicStopReason
<1>3. its = AnthropicContent(whole)
  BY DEF ContentItems, AnthropicContent, ToolItems
<1>4. x = WholeAnswer(<<>>, <<>>, its, f)
  BY <1>2, <1>3 DEF Unstreamed, WholeAnswer
<1>5. AnthropicReplay(text, calls, finish) = events \o <<FinishChunk(f), Plain("done")>>
  BY DEF AnthropicReplay
<1>6. c = NewClient /\ d.complete
  BY DEF Midway, NewClient, Ended
<1>7. <<FinishChunk(f), Plain("done")>> = <<FinishChunk(f)>> \o <<Plain("done")>>
  OBVIOUS
<1>8. p # "gemini"
  OBVIOUS
<1> HIDE DEF text, calls, f, its
<1>9. Runs(p, x, c, events, m)
  BY <1>1, AnthropicRuns DEF its
<1>10. Runs(p, x, m, <<FinishChunk(f)>>, b)
  BY <1>2, <1>8, FinishRuns
<1>11. Runs(p, x, b, <<Plain("done")>>, d)
  BY <1>4, DoneRuns
<1> HIDE DEF events, c, m, b, d, p, x
<1>12. Runs(p, x, m, <<FinishChunk(f)>> \o <<Plain("done")>>, d)
  BY <1>10, <1>11, ThenEvents
<1>13. Runs(p, x, c, events \o (<<FinishChunk(f)>> \o <<Plain("done")>>), d)
  BY <1>9, <1>12, ThenEvents
<1>14. Said(c, AnthropicReplay(text, calls, finish), d)
  BY <1>5, <1>7, <1>13, <1>8, RunsAreSaid DEF p, x
<1> QED
  BY <1>6, <1>14 DEF text, calls

(* A stream opens, and a record of the cache is played, for every protocol.    *)
LEMMA OpeningSaid ==
    ASSUME form \in Forms
    PROVE  Said(NewClient, Opening, NewClient)
<1> DEFINE c == Midway(<<>>, <<>>, <<>>, Nothing)
           p == form.protocol
           x == Unstreamed(whole)
<1>1. c = NewClient
  BY DEF Midway, NewClient
<1>2. CASE Chatting
  <2>1. Opening = <<Plain("role")>>
    BY <1>2 DEF Opening, Chatting
  <2> QED
    BY <1>1, <1>2, <2>1, RoleSaid
<1>3. CASE p = "responses"
  <2> DEFINE e == Plain("created")
             f == Plain("in_progress")
  <2>1. Opening = <<e, f>> /\ <<e, f>> = <<e>> \o <<f>>
    BY <1>3 DEF Opening, Chatting
  <2>2. Runs(p, x, c, <<e>>, c) /\ Runs(p, x, c, <<f>>, c)
    BY PlainRuns
  <2> HIDE DEF e, f, c
  <2>3. Runs(p, x, c, <<e>> \o <<f>>, c)
    BY <2>2, ThenEvents
  <2>4. Said(c, <<e, f>>, c)
    BY <1>3, <2>1, <2>3, RunsAreSaid
  <2> QED
    BY <1>1, <2>1, <2>4
<1>4. CASE p = "anthropic"
  <2>1. Opening = <<Plain("message_start")>>
    BY <1>4 DEF Opening, Chatting
  <2>2. Runs(p, x, c, <<Plain("message_start")>>, c)
    BY PlainRuns
  <2>3. Said(c, <<Plain("message_start")>>, c)
    BY <1>4, <2>2, RunsAreSaid
  <2> QED
    BY <1>1, <2>1, <2>3
<1> QED
  BY <1>2, <1>3, <1>4 DEF Forms, Chatting

(* What responses and Anthropic's streams end with consists of events.         *)
LEMMA ReplaySaid ==
    ASSUME form \in Forms, AnswerType(whole)
    PROVE  \E d : d.complete /\ Said(NewClient, Replay(whole), d)
<1> DEFINE text == whole.text
           calls == whole.calls
           f == whole.finish
           c == Midway(<<>>, <<>>, <<>>, Nothing)
<1>1. c = NewClient
  BY DEF Midway, NewClient
<1>2. text \in Seq(Rune) /\ calls \in Seq(ToolKind) /\ f \in {"stop", "length", "tool_calls"}
  BY DEF AnswerType
<1>3. CASE Chatting
  <2> DEFINE role == <<Plain("role")>>
             contents == Each(ContentChunk, charChunks(text))
             tools == [i \in DOMAIN calls |-> ToolChunk(i - 1, calls[i])]
             closing == Closing(f)
             m == Midway(text, <<>>, <<>>, Nothing)
             n == Midway(text, Names(calls), <<>>, Nothing)
  <2>1. Replay(whole) = ((role \o contents) \o tools) \o closing
    <3>1. Replay(whole) = ChatReplay(whole)
      BY <1>3 DEF Replay, Chatting
    <3>2. ChatReplay(whole) = <<Plain("role")>> \o Each(ContentChunk, charChunks(whole.text))
             \o [i \in DOMAIN whole.calls |-> ToolChunk(i - 1, whole.calls[i])] \o Closing(whole.finish)
      BY DEF ChatReplay
    <3> QED
      BY <3>1, <3>2
  <2>2. Said(c, role, c)
    BY <1>3, RoleSaid
  <2>3. Said(c, contents, m)
    BY <1>2, <1>3, ChunksMakeUp, ContentsSaid
  <2>4. Said(m, tools, n)
    BY <1>2, <1>3, ToolsSaid
  <2>5. PICK d : d.complete /\ Said(n, closing, d)
    BY <1>3, ClosingSaid
  <2> HIDE DEF role, contents, tools, closing, c, m, n
  <2>6. Said(c, role \o contents, m)
    BY <2>2, <2>3, ThenSaid
  <2>7. Said(c, (role \o contents) \o tools, n)
    BY <2>4, <2>6, ThenSaid
  <2>8. Said(c, ((role \o contents) \o tools) \o closing, d)
    BY <2>5, <2>7, ThenSaid
  <2> QED
    BY <1>1, <2>1, <2>5, <2>8
<1>4. CASE ~Chatting
  <2> DEFINE replay == IF form.protocol = "responses" THEN ResponsesReplay(text, calls, f) ELSE AnthropicReplay(text, calls, f)
  <2>1. form.protocol \in {"responses", "anthropic"}
    BY <1>4 DEF Forms, Chatting
  <2>2. Replay(whole) = Opening \o replay
    BY <1>4, <2>1 DEF Replay
  <2>3. Said(NewClient, Opening, NewClient)
    BY OpeningSaid
  <2>4. \E d : d.complete /\ Said(NewClient, replay, d)
    <3>1. CASE form.protocol = "responses"
      BY <1>2, <3>1, ResponsesSaid
    <3>2. CASE form.protocol = "anthropic"
      BY <1>2, <3>2, AnthropicSaid
    <3> QED
      BY <2>1, <3>1, <3>2
  <2>5. PICK d : d.complete /\ Said(NewClient, replay, d)
    BY <2>4
  <2> HIDE DEF replay
  <2>6. Said(NewClient, Opening \o replay, d)
    BY <2>3, <2>5, ThenSaid
  <2> QED
    BY <2>2, <2>5, <2>6
<1> QED
  BY <1>3, <1>4

-----------------------------------------------------------------------------
(* What the client has been told when nothing is on its way.                   *)
SoFar ==
    IF Chatting THEN Midway(collected.text, Names(collected.calls), <<>>, Nothing) ELSE NewClient

TextAndCalls == [text : Seq(Rune), calls : Seq(ToolKind)]
StreamTyped ==
    /\ form \in Forms /\ AnswerType(whole)
    /\ whole \in [text : Seq(Rune), calls : Seq(ToolKind), finish : {"stop", "length", "tool_calls"}]
    /\ left \in [text : Seq(Rune), calls : Seq(ToolKind), finish : {"stop", "length", "tool_calls"}]
    /\ collected \in TextAndCalls
    /\ stage \in {"start", "reading", "closing", "failing"}

(* Until the stream begins nothing has been sent; while the backend is read,   *)
(* what has been read and what has not make up the answer, and the events on   *)
(* their way bring the client to what has been read; afterwards they bring it  *)
(* to the end.                                                                 *)
Expected(d) == Runs(form.protocol, Unstreamed(whole), client, outbox, d)
StreamInv ==
    /\ StreamTyped
    /\ stage = "start" =>
          outbox = <<>> /\ client = NewClient /\ collected.text = <<>> /\ collected.calls = <<>>
          /\ (form.source = "live" => left = whole)
    /\ stage = "reading" =>
          /\ collected.text \o left.text = whole.text /\ collected.calls \o left.calls = whole.calls
          /\ Expected(SoFar)
    /\ stage = "closing" => \E d : d.complete /\ Expected(d)
    /\ stage = "failing" => \E d : Expected(d)

(* A new client has not seen the end.                                          *)
LEMMA NewIsMidway == NewClient = Midway(<<>>, <<>>, <<>>, Nothing)
BY DEF NewClient, Midway

(* Nor has one that has been told what has been read so far.                   *)
LEMMA SoFarIsMidway ==
    \E t, cs, its : SoFar = Midway(t, cs, its, Nothing)
BY NewIsMidway DEF SoFar

(* A run begins with a client that is allowed, and without events ends there.  *)
LEMMA RunStarts ==
    ASSUME NEW p, NEW x, NEW c, NEW s, NEW d, Runs(p, x, c, s, d)
    PROVE  Allowed(x, c) /\ (s = <<>> => c = d)
<1>1. s \in Seq(Chunk)
  BY DEF Runs
<1>2. PICK g : /\ g[0] = c /\ g[Len(s)] = d /\ \A k \in 0..Len(s) : Allowed(x, g[k])
  BY DEF Runs
<1>3. Len(s) \in Nat /\ 0 \in 0..Len(s) /\ (s = <<>> => Len(s) = 0)
  BY <1>1
<1> QED
  BY <1>2, <1>3

(* The invariant says what the property says.                                  *)
LEMMA StreamInvIsTransparent == StreamInv => StreamedAsUnstreamed
<1> SUFFICES ASSUME StreamInv
             PROVE  StreamedAsUnstreamed
  OBVIOUS
<1> DEFINE x == Unstreamed(whole)
<1>1. Allowed(x, client)
  <2>1. CASE stage = "start"
    <3>1. client = Midway(<<>>, <<>>, <<>>, Nothing)
      BY <2>1, NewIsMidway DEF StreamInv
    <3> QED
      BY <3>1, OpenAllowed
  <2>2. CASE stage # "start"
    <3>1. \E d : Expected(d)
      BY <2>2 DEF StreamInv, StreamTyped
    <3> QED
      BY <3>1, RunStarts DEF Expected
  <2> QED
    BY <2>1, <2>2
<1>2. stage = "closing" /\ outbox = <<>> => client.complete
  BY RunStarts DEF StreamInv, Expected
<1> QED
  BY <1>1, <1>2 DEF StreamedAsUnstreamed, Allowed

(* The sequences up to a length are sequences.                                 *)
LEMMA UptoAreSequences ==
    ASSUME NEW n \in Nat, NEW S, NEW t \in Upto(n, S)
    PROVE  t \in Seq(S)
BY DEF Upto

(* The invariant holds at first.                                               *)
LEMMA StreamInitInv == StreamInit => StreamInv
<1> SUFFICES ASSUME StreamInit
             PROVE  StreamInv
  OBVIOUS
<1>1. PICK t \in Upto(MaxRunes, Rune), c \in Upto(MaxCalls, ToolKind), f \in {"stop", "length"} :
         whole = [text |-> t, calls |-> c, finish |-> Finish(c, f)]
  BY DEF StreamInit, Answers
<1>2. t \in Seq(Rune) /\ c \in Seq(ToolKind) /\ Finish(c, f) \in {"stop", "length", "tool_calls"}
  BY <1>1, AnswerAssumption, UptoAreSequences DEF Finish
<1>3. AnswerType(whole)
  BY <1>1, <1>2 DEF AnswerType, Finish
<1>4. whole \in [text : Seq(Rune), calls : Seq(ToolKind), finish : {"stop", "length", "tool_calls"}]
  BY <1>1, <1>2
<1>5. left \in [text : Seq(Rune), calls : Seq(ToolKind), finish : {"stop", "length", "tool_calls"}]
  <2>1. CASE form.source = "live"
    BY <1>4, <2>1 DEF StreamInit
  <2>2. CASE form.source # "live"
    <3>1. left = [whole EXCEPT !.text = <<>>, !.calls = <<>>]
      BY <2>2 DEF StreamInit
    <3>2. <<>> \in Seq(Rune) /\ <<>> \in Seq(ToolKind)
      OBVIOUS
    <3> QED
      BY ONLY <1>4, <3>1, <3>2
  <2> QED
    BY <2>1, <2>2
<1>6. form \in Forms /\ collected \in TextAndCalls /\ collected.text = <<>> /\ collected.calls = <<>>
  BY DEF StreamInit, TextAndCalls
<1>7. stage = "start" /\ outbox = <<>> /\ client = NewClient /\ (form.source = "live" => left = whole)
  BY DEF StreamInit
<1> QED
  BY <1>3, <1>4, <1>5, <1>6, <1>7 DEF StreamInv, StreamTyped

(* Events that are said are on their way.                                      *)
LEMMA SaidIsExpected ==
    ASSUME NEW events, NEW d, Said(client, events, d), Say(events), UNCHANGED <<form, whole, client>>
    PROVE  Expected(d)'
<1>1. Unstreamed(whole)' = Unstreamed(whole)
  BY DEF Unstreamed, ResponseOutput
<1>2. Runs(form.protocol, Unstreamed(whole), client, outbox', d)
  BY DEF Said, Say
<1> QED
  BY <1>1, <1>2 DEF Expected

(* It is kept when the stream begins, from the backend or from the cache.      *)
LEMMA BeginKeeps == StreamInv /\ BeginStream => StreamInv'
<1> SUFFICES ASSUME StreamInv, BeginStream
             PROVE  StreamInv'
  OBVIOUS
<1>1. /\ stage = "start" /\ UNCHANGED <<form, whole, left, collected, client>>
      /\ outbox = <<>> /\ client = NewClient /\ collected.text = <<>> /\ collected.calls = <<>>
      /\ form.source = "live" => left = whole
      /\ form \in Forms /\ AnswerType(whole)
  BY DEF BeginStream, StreamInv, StreamTyped
<1>2. StreamTyped'
  BY <1>1 DEF BeginStream, StreamInv, StreamTyped, AnswerType
<1>3. CASE form.source = "cache"
  <2>1. stage' = "closing" /\ Say(Replay(whole))
    BY <1>3 DEF BeginStream
  <2>2. PICK d : d.complete /\ Said(client, Replay(whole), d)
    BY <1>1, ReplaySaid
  <2>3. Expected(d)'
    BY <1>1, <2>1, <2>2, SaidIsExpected
  <2> QED
    BY <1>2, <2>1, <2>2, <2>3 DEF StreamInv
<1>4. CASE form.source # "cache"
  <2>1. stage' = "reading" /\ Say(Opening)
    BY <1>4 DEF BeginStream
  <2>2. Said(client, Opening, NewClient)
    BY <1>1, OpeningSaid
  <2>3. SoFar' = NewClient
    <3>1. Names(collected.calls) = <<>>
      BY <1>1 DEF Names, Each
    <3>2. SoFar = NewClient
      BY <1>1, <3>1, NewIsMidway DEF SoFar
    <3> QED
      BY <1>1, <3>2 DEF SoFar, Chatting
  <2>4. Expected(NewClient)'
    BY <1>1, <2>1, <2>2, SaidIsExpected
  <2>5. left = whole
    BY <1>1, <1>4 DEF Forms
  <2>6. collected.text \o left.text = whole.text /\ collected.calls \o left.calls = whole.calls
    <3>1. whole.text \in Seq(Rune) /\ whole.calls \in Seq(ToolKind)
      BY <1>1 DEF AnswerType
    <3> QED
      BY <1>1, <2>5, <3>1
  <2>7. (collected.text \o left.text = whole.text /\ collected.calls \o left.calls = whole.calls)'
    BY <1>1, <2>6
  <2>8. Expected(SoFar)'
    BY <2>3, <2>4 DEF Expected
  <2> QED
    BY <1>2, <2>1, <2>7, <2>8 DEF StreamInv
<1> QED
  BY <1>3, <1>4

(* Between two events of the backend.                                          *)
LEMMA WhileReading ==
    ASSUME StreamInv, Reading
    PROVE  /\ client = SoFar /\ form \in Forms /\ AnswerType(whole) /\ outbox = <<>> /\ stage = "reading"
           /\ collected.text \in Seq(Rune) /\ collected.calls \in Seq(ToolKind)
           /\ left.text \in Seq(Rune) /\ left.calls \in Seq(ToolKind)
           /\ collected.text \o left.text = whole.text /\ collected.calls \o left.calls = whole.calls
           /\ Allowed(Unstreamed(whole), client)
<1>1. Expected(SoFar) /\ outbox = <<>> /\ stage = "reading"
  BY DEF StreamInv, Reading
<1>2. client = SoFar /\ Allowed(Unstreamed(whole), client)
  BY <1>1, RunStarts DEF Expected
<1> QED
  BY <1>1, <1>2 DEF StreamInv, StreamTyped, TextAndCalls

(* The kinds of the calls, with one more.                                      *)
LEMMA NamesGrow ==
    ASSUME NEW calls \in Seq(ToolKind), NEW call \in ToolKind
    PROVE  /\ Names(calls) \in Seq({"function"}) /\ Len(Names(calls)) = Len(calls)
           /\ Names(Append(calls, call)) = Append(Names(calls), "function")
<1> DEFINE n == Len(calls)
           more == Append(calls, call)
<1>1. n \in Nat /\ DOMAIN calls = 1..n /\ DOMAIN more = 1..(n + 1)
  OBVIOUS
<1>2. Names(calls) = [i \in 1..n |-> "function"] /\ Names(more) = [i \in 1..(n + 1) |-> "function"]
  BY <1>1 DEF Names, Each
<1> HIDE DEF n, more
<1>3. Names(calls) \in Seq({"function"}) /\ Len(Names(calls)) = n
  BY <1>1, <1>2
<1>4. Append([i \in 1..n |-> "function"], "function") = [i \in 1..(n + 1) |-> "function"]
  BY <1>1
<1> QED
  BY <1>2, <1>3, <1>4 DEF n, more

(* It is kept when a delta of the text is read and passed on.                  *)
LEMMA DeltaKeeps ==
    ASSUME StreamInv, NEW n \in 1..MaxRunes, ReadDelta(n)
    PROVE  StreamInv'
<1> DEFINE text == SubSeq(left.text, 1, n)
           rest == SubSeq(left.text, n + 1, Len(left.text))
<1>1. /\ Reading /\ n <= Len(left.text) /\ UNCHANGED <<form, whole, stage, client>>
      /\ collected' = [collected EXCEPT !.text = @ \o text] /\ left' = [left EXCEPT !.text = rest]
      /\ IF Chatting THEN Say(<<ContentChunk(text)>>) ELSE UNCHANGED outbox
  BY DEF ReadDelta
<1>2. /\ client = SoFar /\ form \in Forms /\ AnswerType(whole) /\ outbox = <<>> /\ stage = "reading"
      /\ collected.text \in Seq(Rune) /\ collected.calls \in Seq(ToolKind)
      /\ left.text \in Seq(Rune) /\ left.calls \in Seq(ToolKind)
      /\ collected.text \o left.text = whole.text /\ collected.calls \o left.calls = whole.calls
      /\ Allowed(Unstreamed(whole), client)
  BY <1>1, WhileReading
<1>3. n \in Nat /\ n + 1 \in Nat
  BY AnswerAssumption
<1>4. text \in Seq(Rune) /\ rest \in Seq(Rune) /\ text \o rest = left.text
  <2> DEFINE t == left.text
  <2>1. t \in Seq(Rune) /\ n <= Len(t)
    BY <1>1, <1>2
  <2> HIDE DEF t
  <2>2. SubSeq(t, 1, n) \in Seq(Rune) /\ SubSeq(t, n + 1, Len(t)) \in Seq(Rune)
    BY <1>3, <2>1
  <2>3. SubSeq(t, 1, n) \o SubSeq(t, n + 1, Len(t)) = t
    BY <1>3, <2>1
  <2> QED
    BY <2>2, <2>3 DEF t
<1>5. /\ collected \in TextAndCalls
      /\ left \in [text : Seq(Rune), calls : Seq(ToolKind), finish : {"stop", "length", "tool_calls"}]
      /\ whole \in [text : Seq(Rune), calls : Seq(ToolKind), finish : {"stop", "length", "tool_calls"}]
  BY DEF StreamInv, StreamTyped
<1> HIDE DEF text, rest
<1>6. /\ collected'.text = collected.text \o text /\ collected'.calls = collected.calls
      /\ left'.text = rest /\ left'.calls = left.calls
  BY <1>1, <1>5 DEF TextAndCalls
<1>7. collected.text \o text \in Seq(Rune)
  BY <1>2, <1>4
<1>8. StreamTyped'
  <2>1. collected' \in TextAndCalls
    BY <1>1, <1>5, <1>7 DEF TextAndCalls
  <2>2. left' \in [text : Seq(Rune), calls : Seq(ToolKind), finish : {"stop", "length", "tool_calls"}]
    BY ONLY <1>1, <1>4, <1>5
  <2> QED
    BY <1>1, <1>2, <1>5, <2>1, <2>2 DEF StreamTyped, AnswerType
<1>9. (collected.text \o left.text = whole.text /\ collected.calls \o left.calls = whole.calls)'
  <2> DEFINE a == collected.text
  <2>1. a \in Seq(Rune) /\ text \in Seq(Rune) /\ rest \in Seq(Rune)
    BY <1>2, <1>4
  <2> HIDE DEF a
  <2>2. (a \o text) \o rest = a \o (text \o rest)
    BY ONLY <2>1
  <2> QED
    BY <1>1, <1>2, <1>4, <1>6, <2>2 DEF a
<1>10. Expected(SoFar)'
  <2> PICK d : d = IF Chatting THEN Midway(collected.text \o text, Names(collected.calls), <<>>, Nothing) ELSE NewClient
    OBVIOUS
  <2>1. SoFar' = d
    BY <1>1, <1>6 DEF SoFar, Chatting
  <2>2. CASE Chatting
    <3>1. Said(client, <<ContentChunk(text)>>, d)
      BY <1>2, <1>4, <2>2, ContentSaid DEF SoFar
    <3>2. Expected(d)'
      BY <1>1, <2>2, <3>1, SaidIsExpected
    <3> QED
      BY <2>1, <3>2 DEF Expected
  <2>3. CASE ~Chatting
    <3>1. d = client /\ outbox' = <<>>
      BY <1>1, <1>2, <2>3 DEF SoFar
    <3>2. Runs(form.protocol, Unstreamed(whole), client, <<>>, client)
      BY <1>2, NoEvent
    <3>3. Unstreamed(whole)' = Unstreamed(whole)
      BY <1>1 DEF Unstreamed, ResponseOutput
    <3> QED
      BY <1>1, <2>1, <3>1, <3>2, <3>3 DEF Expected
  <2> QED
    BY <2>2, <2>3
<1> QED
  BY <1>1, <1>2, <1>8, <1>9, <1>10 DEF StreamInv

(* It is kept when a call is read and passed on.                               *)
LEMMA CallKeeps ==
    ASSUME StreamInv, ReadCall
    PROVE  StreamInv'
<1> DEFINE call == Head(left.calls)
           rest == Tail(left.calls)
<1>1. /\ Reading /\ left.calls # <<>> /\ UNCHANGED <<form, whole, stage, client>>
      /\ collected' = [collected EXCEPT !.calls = Append(@, call)] /\ left' = [left EXCEPT !.calls = rest]
      /\ IF Chatting THEN Say(<<ToolChunk(Len(collected.calls), call)>>) ELSE UNCHANGED outbox
  BY DEF ReadCall
<1>2. /\ client = SoFar /\ form \in Forms /\ AnswerType(whole) /\ outbox = <<>> /\ stage = "reading"
      /\ collected.text \in Seq(Rune) /\ collected.calls \in Seq(ToolKind)
      /\ left.text \in Seq(Rune) /\ left.calls \in Seq(ToolKind)
      /\ collected.text \o left.text = whole.text /\ collected.calls \o left.calls = whole.calls
      /\ Allowed(Unstreamed(whole), client)
  BY <1>1, WhileReading
<1>3. call \in ToolKind /\ rest \in Seq(ToolKind) /\ <<call>> \o rest = left.calls
  <2> DEFINE q == left.calls
  <2>1. q \in Seq(ToolKind) /\ q # <<>>
    BY <1>1, <1>2
  <2> HIDE DEF q
  <2>2. Head(q) \in ToolKind /\ Tail(q) \in Seq(ToolKind) /\ <<Head(q)>> \o Tail(q) = q
    BY <2>1
  <2> QED
    BY <2>2 DEF q
<1>4. /\ collected \in TextAndCalls
      /\ left \in [text : Seq(Rune), calls : Seq(ToolKind), finish : {"stop", "length", "tool_calls"}]
      /\ whole \in [text : Seq(Rune), calls : Seq(ToolKind), finish : {"stop", "length", "tool_calls"}]
  BY DEF StreamInv, StreamTyped
<1> HIDE DEF call, rest
<1>5. /\ collected'.calls = Append(collected.calls, call) /\ collected'.text = collected.text
      /\ left'.calls = rest /\ left'.text = left.text
  BY <1>1, <1>4 DEF TextAndCalls
<1>6. Append(collected.calls, call) \in Seq(ToolKind)
  BY <1>2, <1>3
<1>7. StreamTyped'
  <2>1. collected' \in TextAndCalls
    BY <1>1, <1>4, <1>6 DEF TextAndCalls
  <2>2. left' \in [text : Seq(Rune), calls : Seq(ToolKind), finish : {"stop", "length", "tool_calls"}]
    BY ONLY <1>1, <1>3, <1>4
  <2> QED
    BY <1>1, <1>2, <1>4, <2>1, <2>2 DEF StreamTyped, AnswerType
<1>8. (collected.text \o left.text = whole.text /\ collected.calls \o left.calls = whole.calls)'
  <2> DEFINE a == collected.calls
  <2>1. a \in Seq(ToolKind) /\ call \in ToolKind /\ rest \in Seq(ToolKind)
    BY <1>2, <1>3
  <2> HIDE DEF a
  <2>2. Append(a, call) \o rest = a \o (<<call>> \o rest)
    BY ONLY <2>1
  <2> QED
    BY <1>1, <1>2, <1>3, <1>5, <2>2 DEF a
<1>9. Expected(SoFar)'
  <2> PICK d : d = IF Chatting THEN Midway(collected.text, Append(Names(collected.calls), "function"), <<>>, Nothing) ELSE NewClient
    OBVIOUS
  <2>1. SoFar' = d
    <3>1. Names(Append(collected.calls, call)) = Append(Names(collected.calls), "function")
      BY <1>2, <1>3, NamesGrow
    <3>2. Chatting' = Chatting
      BY <1>1 DEF Chatting
    <3> QED
      BY <1>5, <3>1, <3>2 DEF SoFar
  <2>2. CASE Chatting
    <3>1. Names(collected.calls) \in Seq({"function"}) /\ Len(Names(collected.calls)) = Len(collected.calls)
      BY <1>2, <1>3, NamesGrow
    <3> DEFINE cs == Names(collected.calls)
    <3>2. client = Midway(collected.text, cs, <<>>, Nothing) /\ d = Midway(collected.text, Append(cs, "function"), <<>>, Nothing)
      BY <1>2, <2>2 DEF SoFar
    <3> HIDE DEF cs
    <3>3. Said(client, <<ToolChunk(Len(cs), call)>>, d)
      BY <2>2, <3>1, <3>2, ToolSaid DEF cs
    <3>4. Expected(d)'
      BY <1>1, <2>2, <3>1, <3>3, SaidIsExpected DEF cs
    <3> QED
      BY <2>1, <3>4 DEF Expected
  <2>3. CASE ~Chatting
    <3>1. d = client /\ outbox' = <<>>
      BY <1>1, <1>2, <2>3 DEF SoFar
    <3>2. Runs(form.protocol, Unstreamed(whole), client, <<>>, client)
      BY <1>2, NoEvent
    <3>3. Unstreamed(whole)' = Unstreamed(whole)
      BY <1>1 DEF Unstreamed, ResponseOutput
    <3> QED
      BY <1>1, <2>1, <3>1, <3>2, <3>3 DEF Expected
  <2> QED
    BY <2>2, <2>3
<1> QED
  BY <1>1, <1>2, <1>7, <1>8, <1>9 DEF StreamInv

(* It is kept at the end of the backend's items.                               *)
LEMMA FinishKeeps ==
    ASSUME StreamInv, NEW finish \in {whole.finish, "stop"}, FinishStream(finish),
           collected.calls = <<>> => finish = whole.finish
    PROVE  StreamInv'
<1>1. /\ Reading /\ left.text = <<>> /\ left.calls = <<>> /\ stage' = "closing"
      /\ UNCHANGED <<form, whole, left, collected, client>>
  BY DEF FinishStream
<1>2. /\ collected.calls = <<>> => finish = whole.finish
      /\ Say(CASE Chatting -> Closing(Finish(collected.calls, finish))
               [] form.protocol = "responses" -> ResponsesReplay(collected.text, collected.calls, finish)
               [] form.protocol = "anthropic" -> AnthropicReplay(collected.text, collected.calls, finish))
  BY DEF FinishStream
<1>3. /\ client = SoFar /\ form \in Forms /\ AnswerType(whole)
      /\ collected.text \in Seq(Rune) /\ collected.calls \in Seq(ToolKind)
      /\ collected.text \o left.text = whole.text /\ collected.calls \o left.calls = whole.calls
  BY <1>1, WhileReading
<1>4. collected.text = whole.text /\ collected.calls = whole.calls
  BY <1>1, <1>3
<1>5. finish \in {"stop", "length", "tool_calls"} /\ (whole.calls = <<>> => finish = whole.finish)
  BY <1>2, <1>3, <1>4 DEF AnswerType
<1>6. StreamTyped'
  BY <1>1 DEF StreamInv, StreamTyped, AnswerType
<1>7. \E events, d : d.complete /\ Said(client, events, d) /\ Say(events)
  <2>1. CASE Chatting
    <3>1. Finish(collected.calls, finish) = whole.finish
      BY <1>3, <1>4, <1>5 DEF AnswerType, Finish
    <3>2. client = Midway(whole.text, Names(whole.calls), <<>>, Nothing)
      BY <1>3, <1>4, <2>1 DEF SoFar
    <3>3. Say(Closing(whole.finish))
      BY <1>2, <2>1, <3>1 DEF Chatting
    <3>4. \E d : d.complete /\ Said(client, Closing(whole.finish), d)
      BY <1>3, <2>1, <3>2, ClosingSaid
    <3> QED
      BY <3>3, <3>4
  <2>2. CASE form.protocol = "responses"
    <3>1. client = NewClient
      BY <1>3, <2>2 DEF SoFar, Chatting
    <3>2. Say(ResponsesReplay(whole.text, whole.calls, finish))
      BY <1>2, <1>4, <2>2 DEF Chatting
    <3>3. \E d : d.complete /\ Said(client, ResponsesReplay(whole.text, whole.calls, finish), d)
      BY <1>3, <1>5, <2>2, <3>1, ResponsesSaid
    <3> QED
      BY <3>2, <3>3
  <2>3. CASE form.protocol = "anthropic"
    <3>1. client = NewClient
      BY <1>3, <2>3 DEF SoFar, Chatting
    <3>2. Say(AnthropicReplay(whole.text, whole.calls, finish))
      BY <1>2, <1>4, <2>3 DEF Chatting
    <3>3. \E d : d.complete /\ Said(client, AnthropicReplay(whole.text, whole.calls, finish), d)
      BY <1>3, <1>5, <2>3, <3>1, AnthropicSaid
    <3> QED
      BY <3>2, <3>3
  <2> QED
    BY <1>3, <2>1, <2>2, <2>3 DEF Forms, Chatting
<1>8. PICK events, d : d.complete /\ Said(client, events, d) /\ Say(events)
  BY <1>7
<1>9. Expected(d)'
  BY <1>1, <1>8, SaidIsExpected
<1> QED
  BY <1>1, <1>6, <1>8, <1>9 DEF StreamInv

(* It is kept when the backend fails.                                          *)
LEMMA ErrorKeeps ==
    ASSUME StreamInv, ReadError
    PROVE  StreamInv'
<1> DEFINE e == Plain("error")
           x == Unstreamed(whole)
<1>1. Reading /\ stage' = "failing" /\ Say(<<e>>) /\ UNCHANGED <<form, whole, left, collected, client>>
  BY DEF ReadError
<1>2. client = SoFar /\ Allowed(x, client)
  BY <1>1, WhileReading
<1>3. PICK t, cs, its : client = Midway(t, cs, its, Nothing)
  BY <1>2, SoFarIsMidway
<1>4. PICK d : Runs(form.protocol, x, client, <<e>>, d)
  BY <1>3, ErrorRuns
<1>5. e \in Chunk /\ Translated(e) = <<e>>
  BY DEF Plain, Chunk, Translated, geminiStreamFromChat
<1>6. Said(client, <<e>>, d)
  BY <1>2, <1>4, <1>5, OneSaid
<1>7. Expected(d)'
  BY <1>1, <1>6, SaidIsExpected
<1>8. StreamTyped'
  BY <1>1 DEF StreamInv, StreamTyped, AnswerType
<1> QED
  BY <1>1, <1>7, <1>8 DEF StreamInv

(* It is kept when the client takes an event.                                  *)
LEMMA SendKeeps ==
    ASSUME StreamInv, SendEvent
    PROVE  StreamInv'
<1>1. /\ outbox # <<>> /\ outbox' = Tail(outbox) /\ UNCHANGED <<form, whole, left, collected, stage>>
      /\ client' = IF Fits(client, Head(outbox)) THEN Take(form.protocol, client, Head(outbox))
                    ELSE [client EXCEPT !.confused = TRUE]
  BY DEF SendEvent
<1>2. Unstreamed(whole)' = Unstreamed(whole) /\ SoFar' = SoFar
  BY <1>1 DEF Unstreamed, ResponseOutput, SoFar, Chatting
<1>3. StreamTyped'
  BY <1>1 DEF StreamInv, StreamTyped, AnswerType
<1>4. ASSUME NEW d, Expected(d)
      PROVE  Expected(d)'
  <2>1. /\ Fits(client, Head(outbox))
        /\ Runs(form.protocol, Unstreamed(whole), Take(form.protocol, client, Head(outbox)), Tail(outbox), d)
    BY <1>1, <1>4, NextEvent DEF Expected
  <2> QED
    BY <1>1, <1>2, <2>1 DEF Expected
<1>5. stage # "start"
  BY <1>1 DEF StreamInv
<1>6. (stage = "reading" =>
          /\ collected.text \o left.text = whole.text /\ collected.calls \o left.calls = whole.calls
          /\ Expected(SoFar))'
  <2> SUFFICES ASSUME stage = "reading"
               PROVE  (/\ collected.text \o left.text = whole.text /\ collected.calls \o left.calls = whole.calls
                       /\ Expected(SoFar))'
    BY <1>1
  <2> PICK d : d = SoFar
    OBVIOUS
  <2>1. Expected(d)
    BY DEF StreamInv, Expected
  <2>2. Expected(d)'
    BY <1>4, <2>1
  <2> QED
    BY <1>1, <1>2, <2>2 DEF StreamInv, Expected
<1>7. (stage = "closing" => \E d : d.complete /\ Expected(d))'
  <2> SUFFICES ASSUME stage = "closing"
               PROVE  (\E d : d.complete /\ Expected(d))'
    BY <1>1
  <2>1. PICK d : d.complete /\ Expected(d)
    BY DEF StreamInv
  <2> QED
    BY <1>4, <2>1
<1>8. (stage = "failing" => \E d : Expected(d))'
  <2> SUFFICES ASSUME stage = "failing"
               PROVE  (\E d : Expected(d))'
    BY <1>1
  <2>1. PICK d : Expected(d)
    BY DEF StreamInv
  <2> QED
    BY <1>4, <2>1
<1> QED
  BY <1>1, <1>3, <1>5, <1>6, <1>7, <1>8 DEF StreamInv

(* It is kept by every step.                                                   *)
LEMMA StreamNextInv == StreamInv /\ [StreamNext]_streamVars => StreamInv'
<1> SUFFICES ASSUME StreamInv, [StreamNext]_streamVars
             PROVE  StreamInv'
  OBVIOUS
<1>1. CASE BeginStream
  BY <1>1, BeginKeeps
<1>2. ASSUME NEW n \in 1..MaxRunes, ReadDelta(n)
      PROVE  StreamInv'
  BY <1>2, DeltaKeeps
<1>3. CASE ReadCall
  BY <1>3, CallKeeps
<1>4. CASE ReadDone
  BY <1>4, FinishKeeps DEF ReadDone
<1>8. CASE ReadClosed
  <2>1. Reading /\ left.calls = <<>> /\ FinishStream("stop")
    BY <1>8 DEF ReadClosed, FinishStream
  <2>2. collected.calls = whole.calls
    BY <2>1, WhileReading
  <2> QED
    BY <1>8, <2>1, <2>2, FinishKeeps DEF ReadClosed
<1>5. CASE ReadError
  BY <1>5, ErrorKeeps
<1>6. CASE SendEvent
  BY <1>6, SendKeeps
<1>7. CASE UNCHANGED streamVars
  <2>1. /\ form' = form /\ whole' = whole /\ left' = left /\ collected' = collected
        /\ stage' = stage /\ outbox' = outbox /\ client' = client
    BY <1>7 DEF streamVars
  <2>2. Unstreamed(whole)' = Unstreamed(whole)
    BY <2>1 DEF Unstreamed, ResponseOutput
  <2>3. SoFar' = SoFar
    BY <2>1 DEF SoFar, Chatting
  <2>4. StreamTyped'
    BY <2>1 DEF StreamInv, StreamTyped, AnswerType
  <2> QED
    BY <2>1, <2>2, <2>3, <2>4 DEF StreamInv, Expected
<1> QED
  BY <1>1, <1>2, <1>3, <1>4, <1>5, <1>6, <1>7, <1>8 DEF StreamNext

(* The protocols show one answer alike with and without "stream": from the     *)
(* backend's channel, whether or not it ends with a done item, or from the     *)
(* cache, no event confuses a client that keeps to the protocol, what it has   *)
(* put together at the end is what the same text, calls and finish reason look *)
(* like in an answer that is not streamed, and a stream that reports a failure *)
(* never looks complete (StreamChat, StreamResponses, StreamAnthropic, and     *)
(* Gemini's translation of the chat).                                          *)
THEOREM StreamsAndAnswersAgree == StreamInit /\ [][StreamNext]_streamVars => []StreamedAsUnstreamed
<1>1. StreamInit => StreamInv
  BY StreamInitInv
<1>2. StreamInv /\ [StreamNext]_streamVars => StreamInv'
  BY StreamNextInv
<1>3. StreamInv => StreamedAsUnstreamed
  BY StreamInvIsTransparent
<1> QED
  BY <1>1, <1>2, <1>3, PTL

-----------------------------------------------------------------------------
(* Conversations.  All of the conversion is Flat, what is made of a sequence   *)
(* element by element: of the talk its turns, of a turn its pieces.            *)

(* Pieces, lines and messages.                                                 *)
Id == (Nat \X Nat) \cup ToolName \cup {Nobody}
Kind == ImageKind \cup ResultKind \cup {"text", "call"}
PieceType == [at : Nat \X Nat, kind : Kind, of : Id, id : Id, name : Id]

(* A piece of a talk: only calls and results have an id and a name.            *)
Named == ResultKind \cup {"call"}
Sent == {p \in PieceType : p.kind \notin Named => p.id = Nobody /\ p.name = Nobody}

LineType == [at : Nat \X Nat, kind : Kind, id : Id]
Role == {"system", "user", "assistant", "tool"}
Message == [role : Role, texts : Seq(Sent), images : Seq(PieceType), calls : Seq(Sent), id : Id]

(* What is shown of a piece.                                                   *)
LineOf(p) == Line(p, p.id)
Picked(K) == [p \in Sent |-> IF p.kind \in K THEN <<LineOf(p)>> ELSE <<>>]
Having(D, K) == {p \in D : p.kind \in K}
Lacking(D, K) == {p \in D : p.kind \notin K}

(* A line of a piece is a line, whatever id it is shown under.                 *)
LEMMA LineIsTyped ==
    ASSUME NEW p \in PieceType, NEW id \in Id
    PROVE  Line(p, id) \in LineType /\ LineOf(p) \in LineType
<1>1. p.id \in Id /\ p.at \in Nat \X Nat /\ p.kind \in Kind
  BY DEF PieceType
<1> QED
  BY <1>1 DEF Line, LineOf, LineType

(* Of every piece come lines.                                                  *)
LEMMA PickedMakes ==
    ASSUME NEW K, NEW S, S \subseteq Sent
    PROVE  Makes(Picked(K), S, LineType)
<1> SUFFICES ASSUME NEW p \in S
             PROVE  Picked(K)[p] \in Seq(LineType)
  BY DEF Makes
<1>1. p \in Sent /\ p \in PieceType /\ p.id \in Id
  BY DEF Sent, PieceType
<1>2. LineOf(p) \in LineType
  BY <1>1, LineIsTyped
<1> QED
  BY <1>1, <1>2 DEF Picked

(* Selecting by kind.                                                          *)
LEMMA SelectedPieces ==
    ASSUME NEW D, NEW K, NEW s \in Seq(D)
    PROVE  /\ Only(K, s) = Flat(Sel(D, Having(D, K)), s) /\ Only(K, s) \in Seq(D)
           /\ Except(K, s) = Flat(Sel(D, Lacking(D, K)), s) /\ Except(K, s) \in Seq(D)
<1>1. \A i \in DOMAIN s : s[i] \in D
  OBVIOUS
<1>2. /\ \A i \in DOMAIN s : Sel(D, Having(D, K))[s[i]] = IF s[i].kind \in K THEN <<s[i]>> ELSE <<>>
      /\ \A i \in DOMAIN s : Sel(D, Lacking(D, K))[s[i]] = IF s[i].kind \notin K THEN <<s[i]>> ELSE <<>>
  BY <1>1 DEF Sel, Having, Lacking
<1>3. Only(K, s) = Flat(Sel(D, Having(D, K)), s)
  BY <1>2 DEF Only, Where, Flat
<1>4. Except(K, s) = Flat(Sel(D, Lacking(D, K)), s)
  BY <1>2 DEF Except, Where, Flat
<1>5. \A A : Makes(Sel(D, A), D, D)
  BY DEF Makes, Sel
<1>6. \A A : Flat(Sel(D, A), s) \in Seq(D)
  <2> TAKE A
  <2>1. Makes(Sel(D, A), D, D)
    BY <1>5
  <2> QED
    BY <2>1, FlatConcat
<1> QED
  BY <1>3, <1>4, <1>6

(* A selection has what is selected.                                           *)
LEMMA SelectedSet ==
    ASSUME NEW D, NEW K, NEW s \in Seq(D)
    PROVE  ToSet(Only(K, s)) = Having(ToSet(s), K) /\ ToSet(Except(K, s)) = Lacking(ToSet(s), K)
<1>1. ASSUME NEW A
      PROVE  ToSet(Flat(Sel(D, A), s)) = {p \in ToSet(s) : p \in A}
  <2> DEFINE g == Sel(D, A)
  <2>1. \A p \in ToSet(s) : p \in D
    BY DEF ToSet
  <2>2. \A p \in D : g[p] = IF p \in A THEN <<p>> ELSE <<>>
    BY DEF Sel
  <2>3. Makes(g, D, D)
    BY DEF Makes, Sel
  <2>4. ToSet(<<>>) = {} /\ \A p : ToSet(<<p>>) = {p}
    BY DEF ToSet
  <2> HIDE DEF g
  <2>5. \A p \in ToSet(s) : ToSet(g[p]) = IF p \in A THEN {p} ELSE {}
    BY <2>1, <2>2, <2>4
  <2>6. ToSet(Flat(g, s)) = UNION {ToSet(g[p]) : p \in ToSet(s)}
    BY <2>3, SetOfFlat
  <2>7. ASSUME NEW p \in ToSet(s), NEW x \in ToSet(g[p])
        PROVE  x = p /\ p \in A
    BY <2>5
  <2>8. ASSUME NEW p \in ToSet(s), p \in A
        PROVE  p \in ToSet(g[p])
    BY <2>5, <2>8
  <2>9. UNION {ToSet(g[p]) : p \in ToSet(s)} = {p \in ToSet(s) : p \in A}
    <3>1. ASSUME NEW x \in UNION {ToSet(g[p]) : p \in ToSet(s)}
          PROVE  x \in ToSet(s) /\ x \in A
      <4>1. PICK p \in ToSet(s) : x \in ToSet(g[p])
        OBVIOUS
      <4> QED
        BY <2>7, <4>1
    <3>2. ASSUME NEW x \in ToSet(s), x \in A
          PROVE  x \in UNION {ToSet(g[p]) : p \in ToSet(s)}
      BY <2>8, <3>2
    <3> QED
      BY <3>1, <3>2
  <2> QED
    BY <2>6, <2>9 DEF g
<1>2. \A p \in ToSet(s) : /\ p \in Having(D, K) <=> p.kind \in K
                          /\ p \in Lacking(D, K) <=> p.kind \notin K
  BY DEF ToSet, Having, Lacking
<1>3. Only(K, s) = Flat(Sel(D, Having(D, K)), s) /\ Except(K, s) = Flat(Sel(D, Lacking(D, K)), s)
  BY SelectedPieces
<1>4. /\ {p \in ToSet(s) : p \in Having(D, K)} = Having(ToSet(s), K)
      /\ {p \in ToSet(s) : p \in Lacking(D, K)} = Lacking(ToSet(s), K)
  <2>1. {p \in ToSet(s) : p \in Having(D, K)} = {p \in ToSet(s) : p.kind \in K}
    BY <1>2
  <2>2. {p \in ToSet(s) : p \in Lacking(D, K)} = {p \in ToSet(s) : p.kind \notin K}
    BY <1>2
  <2> QED
    BY <2>1, <2>2 DEF Having, Lacking
<1> QED
  BY <1>1, <1>3, <1>4

(* What is shown of those left.                                                *)
LEMMA PickedExcept ==
    ASSUME NEW K, NEW L, NEW s \in Seq(Sent)
    PROVE  Flat(Picked(K), Except(L, s)) = Flat(Picked(K \ L), s)
<1> DEFINE k == Picked(K)
           B == Lacking(Sent, L)
           g == [x \in Sent |-> IF x \in B THEN k[x] ELSE <<>>]
<1>1. Makes(k, Sent, LineType)
  BY PickedMakes
<1>2. Except(L, s) = Flat(Sel(Sent, B), s)
  BY SelectedPieces
<1>3. \A x \in ToSet(s) : g[x] = Picked(K \ L)[x]
  <2>1. \A x \in ToSet(s) : x \in Sent
    BY DEF ToSet
  <2> QED
    BY <2>1 DEF Picked, Lacking
<1> HIDE DEF k, B
<1>4. Flat(k, Flat(Sel(Sent, B), s)) = Flat(g, s)
  BY <1>1, FlatOfSel
<1> HIDE DEF g
<1>5. Flat(g, s) = Flat(Picked(K \ L), s)
  BY <1>3, FlatSame
<1> QED
  BY <1>2, <1>4, <1>5 DEF k

(* Lines made one by one of a selection.                                       *)
LEMMA LinesOfKind ==
    ASSUME NEW K, NEW s \in Seq(Sent), NEW g \in [Sent -> LineType],
           \A p \in Sent : p.kind \in K => g[p] = LineOf(p)
    PROVE  EachMade(g, Only(K, s)) = Flat(Picked(K), s)
<1> DEFINE k == Ones(Sent, g)
           A == Having(Sent, K)
           f == [x \in Sent |-> IF x \in A THEN k[x] ELSE <<>>]
<1>1. Only(K, s) = Flat(Sel(Sent, A), s) /\ Only(K, s) \in Seq(Sent)
  BY SelectedPieces
<1>2. Makes(k, Sent, LineType) /\ Flat(k, Only(K, s)) = EachMade(g, Only(K, s))
  BY <1>1, FlatOnes
<1>3. \A x \in ToSet(s) : f[x] = Picked(K)[x]
  <2>1. \A x \in ToSet(s) : x \in Sent
    BY DEF ToSet
  <2> QED
    BY <2>1 DEF Picked, Having, Ones
<1> HIDE DEF k, A
<1>4. Flat(k, Flat(Sel(Sent, A), s)) = Flat(f, s)
  BY <1>2, FlatOfSel
<1> HIDE DEF f
<1>5. Flat(f, s) = Flat(Picked(K), s)
  BY <1>3, FlatSame
<1> QED
  BY <1>1, <1>2, <1>4, <1>5

(* Chat messages, and what they show.                                          *)
LEMMA ChatLines ==
    ASSUME NEW role \in Role, NEW q \in Seq(Sent)
    PROVE  /\ ChatMessage(role, q) \in Message /\ ChatMessage(role, q).role = role
           /\ ChatMessage(role, q).images = Only(ImageKind, q)
           /\ MessageLines(ChatMessage(role, q)) = Flat(Picked({"text"}), q) \o Flat(Picked({"call"}), q)
<1> DEFINE m == ChatMessage(role, q)
           t == Only({"text"}, q)
           c == Only({"call"}, q)
           v == Only(ImageKind, q)
           gt == [p \in Sent |-> Line(p, Nobody)]
           gc == [p \in Sent |-> Line(p, p.id)]
<1>1. t \in Seq(Sent) /\ c \in Seq(Sent) /\ v \in Seq(Sent)
  BY SelectedPieces
<1>2. v \in Seq(PieceType) /\ Nobody \in Id
  BY <1>1 DEF Sent, Id
<1>3. m = [role |-> role, texts |-> t, images |-> v, calls |-> c, id |-> Nobody]
  BY DEF ChatMessage
<1> HIDE DEF m, t, c, v
<1>4. m \in Message /\ m.role = role /\ m.texts = t /\ m.calls = c /\ m.id = Nobody /\ m.images = v
  BY <1>1, <1>2, <1>3 DEF Message
<1>5. gt \in [Sent -> LineType] /\ gc \in [Sent -> LineType]
  <2>1. ASSUME NEW p \in Sent
        PROVE  Line(p, Nobody) \in LineType /\ Line(p, p.id) \in LineType
    <3>1. p \in PieceType /\ p.id \in Id /\ Nobody \in Id
      BY DEF Sent, PieceType, Id
    <3> QED
      BY <3>1, LineIsTyped
  <2> QED
    BY <2>1
<1>6. /\ \A p \in Sent : p.kind \in {"text"} => gt[p] = LineOf(p)
      /\ \A p \in Sent : p.kind \in {"call"} => gc[p] = LineOf(p)
  BY DEF LineOf, Sent, Named, ResultKind
<1>7. /\ \A i \in DOMAIN t : Line(t[i], Nobody) = gt[t[i]]
      /\ \A i \in DOMAIN c : Line(c[i], c[i].id) = gc[c[i]]
  BY <1>1
<1>8. /\ [i \in DOMAIN t |-> Line(t[i], Nobody)] = EachMade(gt, t)
      /\ [i \in DOMAIN c |-> Line(c[i], c[i].id)] = EachMade(gc, c)
  BY <1>7 DEF EachMade
<1> HIDE DEF gt, gc
<1>9. EachMade(gt, t) = Flat(Picked({"text"}), q)
  BY <1>5, <1>6, LinesOfKind DEF t
<1>10. EachMade(gc, c) = Flat(Picked({"call"}), q)
  BY <1>5, <1>6, LinesOfKind DEF c
<1>11. MessageLines(m) = [i \in DOMAIN t |-> Line(t[i], Nobody)] \o [i \in DOMAIN c |-> Line(c[i], c[i].id)]
  BY <1>4 DEF MessageLines
<1> QED
  BY <1>4, <1>8, <1>9, <1>10, <1>11 DEF m, v

(* Every message shows lines.                                                  *)
LEMMA MessageShowsLines ==
    ASSUME NEW m \in Message
    PROVE  MessageLines(m) \in Seq(LineType)
<1> DEFINE a == [i \in DOMAIN m.texts |-> Line(m.texts[i], m.id)]
           b == [i \in DOMAIN m.calls |-> Line(m.calls[i], m.calls[i].id)]
<1>1. m.texts \in Seq(Sent) /\ m.calls \in Seq(Sent) /\ m.id \in Id
  BY DEF Message
<1>2. \A p \in Sent : p \in PieceType /\ p.id \in Id
  BY DEF Sent, PieceType, Id
<1>3. \A i \in DOMAIN m.texts : m.texts[i] \in Sent
  BY <1>1
<1>4. \A i \in DOMAIN m.calls : m.calls[i] \in Sent
  BY <1>1
<1>5. \A i \in DOMAIN m.texts : Line(m.texts[i], m.id) \in LineType
  BY <1>1, <1>2, <1>3, LineIsTyped
<1>6. \A i \in DOMAIN m.calls : Line(m.calls[i], m.calls[i].id) \in LineType
  BY <1>2, <1>4, LineIsTyped
<1>7. DOMAIN m.texts = 1..Len(m.texts) /\ Len(m.texts) \in Nat /\ DOMAIN m.calls = 1..Len(m.calls) /\ Len(m.calls) \in Nat
  BY <1>1
<1>8. a \in Seq(LineType)
  BY <1>5, <1>7
<1>9. b \in Seq(LineType)
  BY <1>6, <1>7
<1> HIDE DEF a, b
<1>10. a \o b \in Seq(LineType)
  BY <1>8, <1>9
<1> QED
  BY <1>10 DEF MessageLines, a, b

(* A message of one piece shows it.                                            *)
LEMMA MessageOfOne ==
    ASSUME NEW p \in Sent, NEW v \in Seq(PieceType)
    PROVE  /\ p.kind \in ResultKind =>
                 /\ [ToolMessage(p) EXCEPT !.images = v] \in Message
                 /\ [ToolMessage(p) EXCEPT !.images = v].images = v
                 /\ [ToolMessage(p) EXCEPT !.images = v].role = "tool"
                 /\ MessageLines([ToolMessage(p) EXCEPT !.images = v]) = <<LineOf(p)>>
           /\ p.kind = "call" =>
                 /\ ChatMessage("assistant", <<p>>) \in Message
                 /\ ChatMessage("assistant", <<p>>).images = <<>>
                 /\ ChatMessage("assistant", <<p>>).role = "assistant"
                 /\ MessageLines(ChatMessage("assistant", <<p>>)) = <<LineOf(p)>>
<1>1. p.id \in Id /\ p \in PieceType
  BY DEF Sent, PieceType, Id
<1>2. ASSUME p.kind \in ResultKind
      PROVE  /\ [ToolMessage(p) EXCEPT !.images = v] \in Message
             /\ [ToolMessage(p) EXCEPT !.images = v].images = v
             /\ [ToolMessage(p) EXCEPT !.images = v].role = "tool"
             /\ MessageLines([ToolMessage(p) EXCEPT !.images = v]) = <<LineOf(p)>>
  <2> DEFINE m == [ToolMessage(p) EXCEPT !.images = v]
             one == <<p>>
             none == <<>>
  <2>1. m = [role |-> "tool", texts |-> one, images |-> v, calls |-> none, id |-> p.id]
    BY DEF ToolMessage
  <2>2. one \in Seq(Sent) /\ none \in Seq(Sent) /\ DOMAIN one = {1} /\ one[1] = p /\ DOMAIN none = {}
    OBVIOUS
  <2> HIDE DEF m, one, none
  <2>3. m \in Message /\ m.images = v /\ m.role = "tool" /\ m.texts = one /\ m.calls = none /\ m.id = p.id
    BY <1>1, <2>1, <2>2 DEF Message, Role
  <2>4. [i \in DOMAIN one |-> Line(one[i], p.id)] = <<Line(p, p.id)>>
    BY <2>2
  <2>5. [i \in DOMAIN none |-> Line(none[i], none[i].id)] = <<>>
    BY <2>2
  <2>6. <<Line(p, p.id)>> \o <<>> = <<Line(p, p.id)>>
    OBVIOUS
  <2>7. Line(p, p.id) = LineOf(p)
    BY DEF LineOf
  <2>8. MessageLines(m) = <<LineOf(p)>>
    BY <2>3, <2>4, <2>5, <2>6, <2>7 DEF MessageLines
  <2> QED
    BY <2>3, <2>8 DEF m
<1>3. ASSUME p.kind = "call"
      PROVE  /\ ChatMessage("assistant", <<p>>) \in Message
             /\ ChatMessage("assistant", <<p>>).images = <<>>
             /\ ChatMessage("assistant", <<p>>).role = "assistant"
             /\ MessageLines(ChatMessage("assistant", <<p>>)) = <<LineOf(p)>>
  <2> DEFINE one == <<p>>
             g(K) == Picked(K)
  <2>1. one \in Seq(Sent)
    OBVIOUS
  <2>2. \A K : Flat(Picked(K), one) = Picked(K)[p]
    <3> TAKE K
    <3>1. Makes(Picked(K), Sent, LineType)
      BY PickedMakes
    <3> QED
      BY <3>1, FlatOne
  <2>3. Only(ImageKind, one) = <<>>
    <3>1. Makes(Sel(Sent, Having(Sent, ImageKind)), Sent, Sent)
      BY DEF Makes, Sel
    <3>2. Flat(Sel(Sent, Having(Sent, ImageKind)), one) = Sel(Sent, Having(Sent, ImageKind))[p]
      BY <3>1, FlatOne
    <3> HIDE DEF one
    <3>3. Only(ImageKind, one) = Flat(Sel(Sent, Having(Sent, ImageKind)), one)
      BY <2>1, SelectedPieces
    <3> QED
      BY <1>3, <3>2, <3>3 DEF Sel, Having, ImageKind
  <2>4. Picked({"text"})[p] = <<>> /\ Picked({"call"})[p] = <<LineOf(p)>>
    BY <1>3 DEF Picked
  <2>5. "assistant" \in Role
    BY DEF Role
  <2> HIDE DEF one
  <2>6. /\ ChatMessage("assistant", one) \in Message /\ ChatMessage("assistant", one).role = "assistant"
        /\ ChatMessage("assistant", one).images = Only(ImageKind, one)
        /\ MessageLines(ChatMessage("assistant", one)) = Flat(Picked({"text"}), one) \o Flat(Picked({"call"}), one)
    BY <2>1, <2>5, ChatLines
  <2>7. <<>> \o <<LineOf(p)>> = <<LineOf(p)>>
    OBVIOUS
  <2> QED
    BY <2>2, <2>3, <2>4, <2>6, <2>7 DEF one
<1> QED
  BY <1>2, <1>3

-----------------------------------------------------------------------------
(* Split, by what it has gathered before each piece. *)

(* The pieces that are gathered, and what a split holds on its way.            *)
Loose(S) == {p \in S : p.kind \notin ResultKind \cup {"call"}}
Held(S) == [out : Seq(Message), open : Seq(Loose(S))]

(* F makes of the messages of a split what f makes of the pieces.              *)
MadeAlike(role, alone, S, T, F, f) ==
    /\ role \in Role /\ S \subseteq Sent /\ Makes(F, Message, T) /\ Makes(f, S, T)
    /\ \A p \in S : p.kind \in ResultKind \cup {"call"} => alone[p] \in Message /\ F[alone[p]] = f[p]
    /\ \A q \in Seq(Loose(S)) : F[ChatMessage(role, q)] = Flat(f, q)

(* What F makes of all that is held.                                           *)
HeldFlat(F, f, s) == Flat(F, s.out) \o Flat(f, s.open)

(* Gathered pieces are pieces.                                                 *)
LEMMA LooseSequence ==
    ASSUME NEW S, S \subseteq Sent, NEW q \in Seq(Loose(S))
    PROVE  q \in Seq(S) /\ q \in Seq(Sent)
<1>1. Loose(S) \subseteq S
  BY DEF Loose
<1> QED
  BY <1>1

(* Flushing what is gathered into a message loses nothing, neither lines nor   *)
(* images.                                                                     *)
LEMMA FlushedHeld ==
    ASSUME NEW role, NEW alone, NEW S, NEW T, NEW F, NEW f,
           MadeAlike(role, alone, S, T, F, f), NEW s \in Held(S)
    PROVE  /\ Flushed(role, s) \in Seq(Message)
           /\ Flat(F, Flushed(role, s)) = HeldFlat(F, f, s)
           /\ HeldFlat(F, f, s) \in Seq(T)
<1> DEFINE out == s.out
           open == s.open
           m == ChatMessage(role, open)
<1>1. out \in Seq(Message) /\ open \in Seq(Loose(S))
  BY DEF Held
<1> HIDE DEF out, open
<1>0. role \in Role /\ S \subseteq Sent
  BY DEF MadeAlike
<1>2. open \in Seq(S) /\ open \in Seq(Sent)
  BY <1>0, <1>1, LooseSequence
<1>3. m \in Message
  BY <1>0, <1>2, ChatLines
<1>4. Makes(F, Message, T) /\ Makes(f, S, T) /\ F[m] = Flat(f, open)
  BY <1>1 DEF MadeAlike
<1>5. Flat(F, out) \in Seq(T) /\ Flat(f, open) \in Seq(T)
  BY <1>1, <1>2, <1>4, FlatConcat
<1>6. Flat(F, out) \o Flat(f, open) \in Seq(T)
  BY <1>5
<1>7. CASE open = <<>>
  <2>1. Flat(f, open) = <<>>
    BY <1>7 DEF Flat, FlattenSeq
  <2>2. Flat(F, out) \o <<>> = Flat(F, out)
    BY <1>5
  <2> QED
    BY <1>1, <1>6, <1>7, <2>1, <2>2 DEF HeldFlat, Flushed, out, open
<1>8. CASE open # <<>>
  <2>1. Flat(F, Append(out, m)) = Flat(F, out) \o F[m]
    <3>1. out \in Seq(Message) /\ Makes(F, Message, T)
      BY <1>1, <1>4
    <3> QED
      BY ONLY <3>1, <1>3, FlatAppend
  <2>2. Append(out, m) \in Seq(Message)
    BY <1>1, <1>3
  <2>3. Flushed(role, s) = Append(out, m)
    BY <1>8 DEF Flushed, out, open
  <2> QED
    BY <1>4, <1>6, <2>1, <2>2, <2>3 DEF HeldFlat, out, open
<1> QED
  BY <1>7, <1>8

(* Gathering one more piece adds what comes of it, and nothing else.           *)
LEMMA GatherHeld ==
    ASSUME NEW role, NEW alone, NEW S, NEW T, NEW F, NEW f,
           MadeAlike(role, alone, S, T, F, f), NEW s \in Held(S), NEW p \in S
    PROVE  /\ Gather(role, alone, s, p) \in Held(S)
           /\ HeldFlat(F, f, Gather(role, alone, s, p)) = HeldFlat(F, f, s) \o f[p]
<1> DEFINE out == s.out
           open == s.open
           flushed == Flushed(role, s)
           m == alone[p]
<1>1. out \in Seq(Message) /\ open \in Seq(Loose(S)) /\ s = [out |-> out, open |-> open]
  BY DEF Held
<1>2. flushed \in Seq(Message) /\ Flat(F, flushed) = HeldFlat(F, f, s) /\ HeldFlat(F, f, s) \in Seq(T)
  BY FlushedHeld
<1>3. Makes(F, Message, T) /\ Makes(f, S, T) /\ f[p] \in Seq(T) /\ S \subseteq Sent
  BY DEF MadeAlike, Makes
<1>4. CASE p.kind \in ResultKind \cup {"call"}
  <2> HIDE DEF out, open, flushed
  <2>1. m \in Message /\ F[m] = f[p]
    BY <1>4 DEF MadeAlike
  <2> HIDE DEF m
  <2>2. Gather(role, alone, s, p) = [out |-> Append(flushed, m), open |-> <<>>]
    BY <1>4 DEF Gather, flushed, m
  <2>3. Append(flushed, m) \in Seq(Message) /\ <<>> \in Seq(Loose(S))
    BY <1>2, <2>1
  <2>4. Flat(F, Append(flushed, m)) = Flat(F, flushed) \o F[m] /\ Flat(F, Append(flushed, m)) \in Seq(T)
    <3>1. Flat(F, Append(flushed, m)) = Flat(F, flushed) \o F[m]
      <4>1. flushed \in Seq(Message) /\ Makes(F, Message, T) /\ m \in Message
        BY <1>2, <1>3, <2>1
      <4> QED
        BY ONLY <4>1, FlatAppend
    <3>2. Flat(F, Append(flushed, m)) \in Seq(T)
      BY <1>3, <2>3, FlatConcat
    <3> QED
      BY <3>1, <3>2
  <2>5. Flat(f, <<>>) = <<>>
    BY DEF Flat, FlattenSeq
  <2>6. Flat(F, Append(flushed, m)) \o <<>> = Flat(F, Append(flushed, m))
    BY <2>4
  <2>7. HeldFlat(F, f, [out |-> Append(flushed, m), open |-> <<>>]) = Flat(F, Append(flushed, m)) \o <<>>
    BY <2>5 DEF HeldFlat
  <2>8. HeldFlat(F, f, Gather(role, alone, s, p)) = HeldFlat(F, f, s) \o f[p]
    BY <1>2, <2>1, <2>2, <2>4, <2>6, <2>7
  <2>9. Gather(role, alone, s, p) \in Held(S)
    BY ONLY <2>2, <2>3 DEF Held
  <2> QED
    BY <2>8, <2>9
<1>5. CASE p.kind \notin ResultKind \cup {"call"}
  <2> HIDE DEF out, open
  <2>1. p \in Loose(S)
    BY <1>5 DEF Loose
  <2>2. Gather(role, alone, s, p) = [out |-> out, open |-> Append(open, p)]
    BY <1>1, <1>5 DEF Gather
  <2>3. Append(open, p) \in Seq(Loose(S)) /\ open \in Seq(S)
    BY <1>1, <1>3, <2>1, LooseSequence
  <2>4. Flat(f, Append(open, p)) = Flat(f, open) \o f[p] /\ Flat(f, open) \in Seq(T)
    BY <1>3, <2>3, FlatAppend
  <2>5. Flat(F, out) \in Seq(T)
    BY <1>1, <1>3, FlatConcat
  <2> DEFINE a == Flat(F, out)
             b == Flat(f, open)
             c == f[p]
  <2>6. a \in Seq(T) /\ b \in Seq(T) /\ c \in Seq(T)
    BY <1>3, <2>4, <2>5
  <2>7. HeldFlat(F, f, [out |-> out, open |-> Append(open, p)]) = a \o Flat(f, Append(open, p))
    BY DEF HeldFlat
  <2>8. HeldFlat(F, f, s) = a \o b
    BY DEF HeldFlat, out, open
  <2>9. Flat(f, Append(open, p)) = b \o c
    BY <2>4
  <2> HIDE DEF a, b, c
  <2>10. (a \o b) \o c = a \o (b \o c)
    BY ONLY <2>6
  <2>11. HeldFlat(F, f, Gather(role, alone, s, p)) = HeldFlat(F, f, s) \o c
    BY <2>2, <2>7, <2>8, <2>9, <2>10
  <2>12. Gather(role, alone, s, p) \in Held(S)
    <3>1. out \in Seq(Message)
      BY <1>1
    <3> QED
      BY ONLY <2>2, <2>3, <3>1 DEF Held
  <2> QED
    BY <2>11, <2>12 DEF c
<1> QED
  BY <1>4, <1>5

(* The pieces taken one after the other.                                       *)
LEMMA Gathered ==
    ASSUME NEW role, NEW alone, NEW S, NEW T, NEW F, NEW f,
           MadeAlike(role, alone, S, T, F, f), NEW q \in Seq(S)
    PROVE  \E h \in [0..Len(q) -> Held(S)] :
              /\ h[0] = [out |-> <<>>, open |-> <<>>]
              /\ Split(role, q, alone) = Flushed(role, h[Len(q)])
              /\ \A i \in 1..Len(q) : h[i] = Gather(role, alone, h[i - 1], q[i])
<1> DEFINE D == Held(S)
           n == Len(q)
           base == [out |-> <<>>, open |-> <<>>]
           step(g, s) == IF s = {} THEN base ELSE Gather(role, alone, g[s \ {Max(s)}], q[Max(s)])
           iter == CHOOSE g : g = [s \in SUBSET (1..n) |-> step(g, s)]
           G == [p \in (1..n) \X D |-> Gather(role, alone, p[2], q[p[1]])]
<1>1. n \in Nat /\ DOMAIN q = 1..n /\ \A i \in 1..n : q[i] \in S
  OBVIOUS
<1>2. Split(role, q, alone) = Flushed(role, iter[1..n])
  BY <1>1 DEF Split, FoldLeft, MapThenFoldSet
<1>12. base \in D
  <2>1. <<>> \in Seq(Message) /\ <<>> \in Seq(Loose(S))
    OBVIOUS
  <2> QED
    BY <2>1 DEF Held
<1>3. G \in [(1..n) \X D -> D]
  <2>1. ASSUME NEW x \in (1..n) \X D
        PROVE  Gather(role, alone, x[2], q[x[1]]) \in D
    <3>1. x[2] \in Held(S) /\ q[x[1]] \in S
      BY <1>1
    <3> QED
      BY <3>1, GatherHeld
  <2> QED
    BY <2>1
<1>4. \A i \in 1..n, l \in D : G[<<i, l>>] = Gather(role, alone, l, q[i])
  OBVIOUS
<1> HIDE DEF G, n, D, base
<1>5. PICK g \in [SUBSET (1..n) -> D] : Folding(g, n, base, G)
  BY <1>1, <1>3, <1>12, FoldingExists
<1>6. g = [s \in SUBSET (1..n) |-> step(g, s)]
  <2> SUFFICES ASSUME NEW s \in SUBSET (1..n)
               PROVE  g[s] = step(g, s)
    OBVIOUS
  <2>1. g[s] = IF s = {} THEN base ELSE G[<<Max(s), g[s \ {Max(s)}]>>]
    BY <1>5 DEF Folding
  <2>2. s # {} => Max(s) \in 1..n /\ g[s \ {Max(s)}] \in D
    BY <1>1, MaxOfBounded
  <2> QED
    BY <1>4, <2>1, <2>2
<1>7. iter = [s \in SUBSET (1..n) |-> step(iter, s)]
  BY <1>6
<1> HIDE DEF iter
<1>8. iter[{}] = base
  BY <1>7
<1>9. ASSUME NEW s \in SUBSET (1..n), s # {}, iter[s \ {Max(s)}] \in D
      PROVE  iter[s] = G[<<Max(s), iter[s \ {Max(s)}]>>]
  <2>1. Max(s) \in 1..n
    BY <1>1, <1>9, MaxOfBounded
  <2> QED
    BY <1>4, <1>7, <1>9, <2>1
<1>10. PICK h : Unfolded(h, D, n, base, G, iter[1..n])
  <2>1. FoldingIn(D, iter, n, base, G)
    BY <1>1, <1>3, <1>8, <1>9, <1>12 DEF FoldingIn
  <2> QED
    BY <2>1, FoldingSteps
<1>11. \A i \in 1..n : h[i] = Gather(role, alone, h[i - 1], q[i])
  <2> TAKE i \in 1..n
  <2>1. i - 1 \in 0..n
    BY <1>1
  <2>2. h[i - 1] \in D
    BY <1>10, <2>1 DEF Unfolded
  <2> QED
    BY <1>4, <1>10, <2>2 DEF Unfolded
<1> QED
  BY <1>2, <1>10, <1>11 DEF n, D, base, Unfolded

(* What F makes of a split is what f makes of the pieces, one by one.          *)
LEMMA SplitFlat ==
    ASSUME NEW role, NEW alone, NEW S, NEW T, NEW F, NEW f,
           MadeAlike(role, alone, S, T, F, f), NEW q \in Seq(S)
    PROVE  /\ Split(role, q, alone) \in Seq(Message)
           /\ Flat(F, Split(role, q, alone)) = Flat(f, q)
<1> DEFINE base == [out |-> <<>>, open |-> <<>>]
           n == Len(q)
           front(i) == SubSeq(q, 1, i)
<1>1. Makes(F, Message, T) /\ Makes(f, S, T)
  BY DEF MadeAlike
<1>2. HeldFlat(F, f, base) = <<>>
  <2>1. Flat(F, <<>>) = <<>> /\ Flat(f, <<>>) = <<>>
    BY DEF Flat, FlattenSeq
  <2>2. <<>> \o <<>> = <<>>
    OBVIOUS
  <2>3. base.out = <<>> /\ base.open = <<>>
    OBVIOUS
  <2> HIDE DEF base
  <2> QED
    BY <2>1, <2>2, <2>3 DEF HeldFlat
<1>3. PICK h \in [0..n -> Held(S)] :
         /\ h[0] = base /\ Split(role, q, alone) = Flushed(role, h[n])
         /\ \A i \in 1..n : h[i] = Gather(role, alone, h[i - 1], q[i])
  BY Gathered
<1>4. n \in Nat /\ front(0) = <<>> /\ front(n) = q
  OBVIOUS
<1> HIDE DEF base
<1> DEFINE P == {i \in 0..n : HeldFlat(F, f, h[i]) = Flat(f, front(i))}
<1>5. 0 \in P
  <2>1. Flat(f, <<>>) = <<>>
    BY DEF Flat, FlattenSeq
  <2> HIDE DEF front, n
  <2> QED
    BY <1>2, <1>3, <1>4, <2>1
<1>6. ASSUME NEW i \in 0..(n - 1), i \in P
      PROVE  i + 1 \in P
  <2> DEFINE s == h[i]
             p == q[i + 1]
             done == front(i)
  <2>1. done \in Seq(S) /\ p \in S /\ front(i + 1) = Append(done, p)
    BY <1>4
  <2>2. i + 1 \in 1..n /\ i + 1 \in 0..n /\ i \in 0..n /\ (i + 1) - 1 = i
    BY <1>4
  <2> HIDE DEF front, n, p, done
  <2>3. s \in Held(S) /\ h[i + 1] = Gather(role, alone, s, p)
    BY <1>3, <2>2 DEF p
  <2>4. HeldFlat(F, f, s) = Flat(f, done)
    BY <1>6 DEF done
  <2> HIDE DEF s, P
  <2>5. HeldFlat(F, f, Gather(role, alone, s, p)) = HeldFlat(F, f, s) \o f[p]
    BY <2>1, <2>3, GatherHeld
  <2>6. Flat(f, Append(done, p)) = Flat(f, done) \o f[p]
    BY <1>1, <2>1, FlatAppend
  <2> QED
    BY <2>1, <2>2, <2>3, <2>4, <2>5, <2>6 DEF P
<1> HIDE DEF P, n
<1>7. 0..n \subseteq P
  BY <1>4, <1>5, <1>6, UpTo
<1>8. HeldFlat(F, f, h[n]) = Flat(f, front(n))
  <2>1. n \in P
    BY <1>4, <1>7
  <2> QED
    BY <2>1 DEF P
<1>9. h[n] \in Held(S)
  BY <1>3, <1>4
<1> HIDE DEF front
<1>10. Flushed(role, h[n]) \in Seq(Message) /\ Flat(F, Flushed(role, h[n])) = HeldFlat(F, f, h[n])
  BY <1>9, FlushedHeld
<1> QED
  BY <1>3, <1>4, <1>8, <1>10

-----------------------------------------------------------------------------
(* What messages show. *)

(* What the messages of the system show, and what the others do; and images.   *)
Show(own) == [m \in Message |-> IF (m.role = "system") = own THEN MessageLines(m) ELSE <<>>]
Images == [m \in Message |-> m.images]

(* Who speaks, and which kinds of piece have a line.                           *)
Speaker == {"system", "user", "assistant"}
Shown == {"text", "call"} \cup ResultKind

(* What may be said by whom.                                                   *)
KindsIn(role) ==
    IF role = "system" THEN {"text"}
    ELSE IF role = "user" THEN {"text"} \cup ImageKind \cup ResultKind ELSE {"text", "inline", "call"}

(* Of every message come lines and images.                                     *)
LEMMA MessagesMake ==
    /\ \A own : Makes(Show(own), Message, LineType)
    /\ Makes(Images, Message, PieceType)
<1>1. ASSUME NEW own, NEW m \in Message
      PROVE  Show(own)[m] \in Seq(LineType)
  <2>1. MessageLines(m) \in Seq(LineType)
    BY MessageShowsLines
  <2> QED
    BY <2>1 DEF Show
<1>2. ASSUME NEW m \in Message
      PROVE  Images[m] \in Seq(PieceType)
  BY DEF Images, Message
<1> QED
  BY <1>1, <1>2 DEF Makes

(* The images of a selection.                                                  *)
LEMMA ImagesOfKind ==
    ASSUME NEW s \in Seq(Sent), NEW g,
           \A p \in ToSet(s) : g[p] = IF p.kind \in ImageKind THEN <<p>> ELSE <<>>
    PROVE  Only(ImageKind, s) = Flat(g, s)
<1>1. Only(ImageKind, s) = Flat(Sel(Sent, Having(Sent, ImageKind)), s)
  BY SelectedPieces
<1>2. \A p \in ToSet(s) : p \in Sent
  BY DEF ToSet
<1>3. \A p \in ToSet(s) : Sel(Sent, Having(Sent, ImageKind))[p] = g[p]
  BY <1>2 DEF Sel, Having
<1> QED
  BY <1>1, <1>3, FlatSame

(* The images among the pieces of which none of the kinds L are kept.          *)
LEMMA ImagesExcept ==
    ASSUME NEW s \in Seq(Sent), NEW L, NEW g,
           \A p \in ToSet(s) : g[p] = IF p.kind \in ImageKind \ L THEN <<p>> ELSE <<>>
    PROVE  Only(ImageKind, Except(L, s)) = Flat(g, s)
<1> DEFINE h == Sel(Sent, Having(Sent, ImageKind))
           B == Lacking(Sent, L)
           f == [x \in Sent |-> IF x \in B THEN h[x] ELSE <<>>]
           e == Except(L, s)
<1>1. Except(L, s) = Flat(Sel(Sent, B), s) /\ Except(L, s) \in Seq(Sent)
  BY SelectedPieces
<1>2. \A p \in ToSet(s) : p \in Sent
  BY DEF ToSet
<1>3. \A p \in ToSet(s) : f[p] = g[p]
  BY <1>2 DEF Sel, Having, Lacking
<1>4. Makes(h, Sent, Sent)
  BY DEF Makes, Sel
<1> HIDE DEF e
<1>5. Only(ImageKind, e) = Flat(h, e)
  BY <1>1, SelectedPieces DEF e
<1> HIDE DEF h, B
<1>6. Flat(h, Flat(Sel(Sent, B), s)) = Flat(f, s)
  BY <1>4, FlatOfSel
<1> HIDE DEF f
<1>7. Flat(f, s) = Flat(g, s)
  BY <1>3, FlatSame
<1> QED
  BY <1>1, <1>5, <1>6, <1>7 DEF e

(* What is shown when the pieces stay in their order, and when they are put    *)
(* into groups.                                                                *)
TurnLines(grouped, s) ==
    IF grouped
    THEN (Flat(Picked({"text"}), s) \o Flat(Picked({"call"}), s)) \o Flat(Picked(ResultKind), s)
    ELSE Flat(Picked(Shown), s)

(* The lines of the pieces of some kinds are lines; there are none if no       *)
(* piece is of these kinds.                                                    *)
LEMMA PickedSequence ==
    ASSUME NEW K, NEW s \in Seq(Sent)
    PROVE  /\ Flat(Picked(K), s) \in Seq(LineType)
           /\ (\A p \in ToSet(s) : p.kind \notin K) => Flat(Picked(K), s) = <<>>
<1>1. Makes(Picked(K), Sent, LineType)
  BY PickedMakes
<1>2. \A p \in ToSet(s) : p \in Sent
  BY DEF ToSet
<1>3. (\A p \in ToSet(s) : p.kind \notin K) => \A p \in ToSet(s) : Picked(K)[p] = <<>>
  BY <1>2 DEF Picked
<1> QED
  BY <1>1, <1>3, FlatConcat, FlatNothing

(* A turn without results has its texts before its calls.                      *)
LEMMA Ungrouped ==
    ASSUME NEW s \in Seq(Sent), \A p \in ToSet(s) : p.kind \notin ResultKind
    PROVE  TurnLines(TRUE, s) = Flat(Picked({"text"}), s) \o Flat(Picked({"call"}), s)
<1> DEFINE a == Flat(Picked({"text"}), s)
           b == Flat(Picked({"call"}), s)
<1>1. Flat(Picked(ResultKind), s) = <<>>
  BY PickedSequence
<1>2. a \in Seq(LineType) /\ b \in Seq(LineType)
  BY PickedSequence
<1> HIDE DEF a, b
<1>3. (a \o b) \o <<>> = a \o b
  BY <1>2
<1> QED
  BY <1>1, <1>3 DEF TurnLines, a, b

(* A turn that is one message.                                                 *)
LEMMA OneShows ==
    ASSUME NEW role \in Role, NEW q \in Seq(Sent), NEW own \in BOOLEAN
    PROVE  /\ <<ChatMessage(role, q)>> \in Seq(Message)
           /\ Flat(Show(own), <<ChatMessage(role, q)>>) =
                IF (role = "system") = own THEN Flat(Picked({"text"}), q) \o Flat(Picked({"call"}), q) ELSE <<>>
           /\ Flat(Images, <<ChatMessage(role, q)>>) = Only(ImageKind, q)
<1> DEFINE m == ChatMessage(role, q)
<1>1. /\ m \in Message /\ m.role = role /\ m.images = Only(ImageKind, q)
      /\ MessageLines(m) = Flat(Picked({"text"}), q) \o Flat(Picked({"call"}), q)
  BY ChatLines
<1> HIDE DEF m
<1>2. Makes(Show(own), Message, LineType) /\ Makes(Images, Message, PieceType)
  BY MessagesMake
<1>3. Flat(Show(own), <<m>>) = Show(own)[m] /\ Flat(Images, <<m>>) = Images[m]
  BY <1>1, <1>2, FlatOne
<1>4. Show(own)[m] = IF (role = "system") = own THEN MessageLines(m) ELSE <<>>
  BY <1>1 DEF Show
<1>5. Images[m] = m.images
  BY <1>1 DEF Images
<1> QED
  BY <1>1, <1>3, <1>4, <1>5 DEF m

(* A turn that is split.                                                       *)
StandsAlone(role, alone, p) ==
    /\ role # "system" /\ alone[p] \in Message /\ alone[p].role \in {"tool", "assistant"}
    /\ MessageLines(alone[p]) = <<LineOf(p)>>

(* What Split makes of the pieces shows each of them, in their order.          *)
LEMMA SplitShows ==
    ASSUME NEW role \in Speaker, NEW alone, NEW S, S \subseteq Sent, NEW q \in Seq(S), NEW own \in BOOLEAN,
           \A p \in S : p.kind \in ResultKind \cup {"call"} => StandsAlone(role, alone, p)
    PROVE  /\ Split(role, q, alone) \in Seq(Message)
           /\ Flat(Show(own), Split(role, q, alone)) =
                IF (role = "system") = own THEN Flat(Picked(Shown), q) ELSE <<>>
<1> DEFINE K == IF (role = "system") = own THEN Shown ELSE {}
           F == Show(own)
           f == Picked(K)
<1>1. role \in Role /\ q \in Seq(Sent)
  BY DEF Role, Speaker
<1>2. Makes(F, Message, LineType) /\ Makes(f, S, LineType)
  BY MessagesMake, PickedMakes
<1>3. ASSUME NEW p \in S, p.kind \in ResultKind \cup {"call"}
      PROVE  alone[p] \in Message /\ F[alone[p]] = f[p]
  <2>1. StandsAlone(role, alone, p) /\ p \in Sent
    BY <1>3
  <2>2. F[alone[p]] = IF own THEN <<>> ELSE <<LineOf(p)>>
    BY <2>1 DEF StandsAlone, Show
  <2>3. f[p] = IF p.kind \in K THEN <<LineOf(p)>> ELSE <<>>
    BY <2>1 DEF Picked
  <2>4. p.kind \in K <=> ~own
    BY <1>3, <2>1 DEF StandsAlone, Shown
  <2> QED
    BY <2>1, <2>2, <2>3, <2>4 DEF StandsAlone
<1>4. ASSUME NEW r \in Seq(Loose(S))
      PROVE  F[ChatMessage(role, r)] = Flat(f, r)
  <2> DEFINE m == ChatMessage(role, r)
  <2>1. r \in Seq(Sent)
    BY LooseSequence
  <2>2. /\ m \in Message /\ m.role = role
        /\ MessageLines(m) = Flat(Picked({"text"}), r) \o Flat(Picked({"call"}), r)
    BY <1>1, <2>1, ChatLines
  <2>3. \A p \in ToSet(r) : p \in Sent /\ p.kind \notin ResultKind \cup {"call"}
    BY <2>1 DEF ToSet, Loose
  <2>4. Flat(Picked({"call"}), r) = <<>> /\ Flat(Picked({"text"}), r) \in Seq(LineType)
    BY <2>1, <2>3, PickedSequence
  <2>5. Flat(Picked({"text"}), r) \o <<>> = Flat(Picked({"text"}), r)
    BY <2>4
  <2>6. Flat(Picked({"text"}), r) = Flat(Picked(Shown), r)
    <3>1. \A p \in ToSet(r) : Picked({"text"})[p] = Picked(Shown)[p]
      BY <2>3 DEF Picked, Shown
    <3> QED
      BY <3>1, FlatSame
  <2>7. Flat(Picked({}), r) = <<>>
    BY <2>1, PickedSequence
  <2> HIDE DEF m
  <2>8. F[m] = IF (role = "system") = own THEN MessageLines(m) ELSE <<>>
    BY <2>2 DEF Show
  <2> QED
    BY <2>2, <2>4, <2>5, <2>6, <2>7, <2>8 DEF m
<1> HIDE DEF F, f
<1>5. MadeAlike(role, alone, S, LineType, F, f)
  BY <1>1, <1>2, <1>3, <1>4 DEF MadeAlike
<1>6. Split(role, q, alone) \in Seq(Message) /\ Flat(F, Split(role, q, alone)) = Flat(f, q)
  BY <1>5, SplitFlat
<1>7. Flat(Picked({}), q) = <<>>
  BY <1>1, PickedSequence
<1> QED
  BY <1>6, <1>7 DEF F, f

(* What Split makes of the pieces has the images of each, in their order.      *)
LEMMA SplitImages ==
    ASSUME NEW role \in Speaker, NEW alone, NEW S, S \subseteq Sent, NEW q \in Seq(S), NEW g, Makes(g, S, PieceType),
           \A p \in S : p.kind \in ResultKind \cup {"call"} => alone[p] \in Message /\ alone[p].images = g[p],
           \A p \in Loose(S) : g[p] = IF p.kind \in ImageKind THEN <<p>> ELSE <<>>
    PROVE  Flat(Images, Split(role, q, alone)) = Flat(g, q)
<1>1. role \in Role /\ Makes(Images, Message, PieceType)
  BY MessagesMake DEF Role, Speaker
<1>2. \A p \in S : p.kind \in ResultKind \cup {"call"} => alone[p] \in Message /\ Images[alone[p]] = g[p]
  BY DEF Images
<1>3. ASSUME NEW r \in Seq(Loose(S))
      PROVE  Images[ChatMessage(role, r)] = Flat(g, r)
  <2>1. r \in Seq(Sent)
    BY LooseSequence
  <2>2. ChatMessage(role, r) \in Message /\ ChatMessage(role, r).images = Only(ImageKind, r)
    BY <1>1, <2>1, ChatLines
  <2>3. \A p \in ToSet(r) : g[p] = IF p.kind \in ImageKind THEN <<p>> ELSE <<>>
    <3>1. \A p \in ToSet(r) : p \in Loose(S)
      BY DEF ToSet
    <3> QED
      BY <3>1
  <2>4. Only(ImageKind, r) = Flat(g, r)
    BY <2>1, <2>3, ImagesOfKind
  <2> QED
    BY <2>2, <2>4 DEF Images
<1>4. MadeAlike(role, alone, S, PieceType, Images, g)
  BY <1>1, <1>2, <1>3 DEF MadeAlike
<1> QED
  BY <1>4, SplitFlat

(* The results of a turn as messages of their own.                             *)
LEMMA ResultMessages ==
    ASSUME NEW s \in Seq(Sent)
    PROVE  LET results == Only(ResultKind, s)
               ms == [i \in DOMAIN results |-> ToolMessage(results[i])]
           IN  /\ ms \in Seq(Message)
               /\ \A own \in BOOLEAN : Flat(Show(own), ms) = IF own THEN <<>> ELSE Flat(Picked(ResultKind), s)
               /\ Flat(Images, ms) = <<>>
<1> DEFINE results == Only(ResultKind, s)
           ms == [i \in DOMAIN results |-> ToolMessage(results[i])]
           tm == [p \in Sent |-> ToolMessage(p)]
           one == Ones(Sent, tm)
           R == Having(Sent, ResultKind)
<1>1. results = Flat(Sel(Sent, R), s) /\ results \in Seq(Sent)
  BY SelectedPieces
<1>2. ASSUME NEW p \in Sent
      PROVE  /\ tm[p] \in Message /\ tm[p].role = "tool" /\ tm[p].images = <<>>
             /\ p \in R => MessageLines(tm[p]) = <<LineOf(p)>>
  <2>1. <<>> \in Seq(PieceType) /\ <<p>> \in Seq(Sent) /\ <<>> \in Seq(Sent) /\ p.id \in Id
    BY DEF Sent, PieceType
  <2>2. ToolMessage(p) \in Message /\ ToolMessage(p).role = "tool" /\ ToolMessage(p).images = <<>>
    BY <2>1 DEF ToolMessage, Message, Role
  <2>3. [ToolMessage(p) EXCEPT !.images = <<>>] = ToolMessage(p)
    BY DEF ToolMessage
  <2>4. p \in R => MessageLines(ToolMessage(p)) = <<LineOf(p)>>
    <3>1. p.kind \in ResultKind => MessageLines([ToolMessage(p) EXCEPT !.images = <<>>]) = <<LineOf(p)>>
      BY <2>1, MessageOfOne
    <3> QED
      BY <2>3, <3>1 DEF Having
  <2>5. tm[p] = ToolMessage(p)
    OBVIOUS
  <2> QED
    BY <2>2, <2>4, <2>5
<1>3. tm \in [Sent -> Message]
  BY <1>2
<1> HIDE DEF results
<1>4. ms = EachMade(tm, results)
  <2>1. \A i \in DOMAIN results : tm[results[i]] = ToolMessage(results[i])
    BY <1>1
  <2> QED
    BY <2>1 DEF EachMade
<1> HIDE DEF tm, ms
<1>5. Makes(one, Sent, Message) /\ Flat(one, results) = EachMade(tm, results)
  <2>1. results \in Seq(Sent)
    BY <1>1
  <2> QED
    BY ONLY <1>3, <2>1, FlatOnes
<1>6. \A p \in Sent : one[p] = <<tm[p]>>
  BY DEF Ones
<1> HIDE DEF one
<1>7. ms \in Seq(Message)
  <2>1. Flat(one, results) \in Seq(Message)
    BY <1>1, <1>5, FlatConcat
  <2> QED
    BY <1>4, <1>5, <2>1
<1>8. ASSUME NEW T, NEW F, Makes(F, Message, T), NEW g,
             \A p \in ToSet(s) : g[p] = IF p \in R THEN F[tm[p]] ELSE <<>>
      PROVE  Flat(F, ms) = Flat(g, s)
  <2> DEFINE k == [x \in Sent |-> Flat(F, one[x])]
             l == [x \in Sent |-> IF x \in R THEN k[x] ELSE <<>>]
  <2>1. Flat(F, Flat(one, results)) = Flat(k, results)
    BY <1>1, <1>5, <1>8, FlatFlat
  <2>2. ASSUME NEW x \in Sent
        PROVE  Flat(F, one[x]) = F[tm[x]] /\ F[tm[x]] \in Seq(T)
    <3> DEFINE y == tm[x]
    <3>1. y \in Message
      BY <1>2
    <3> HIDE DEF y
    <3>2. Flat(F, <<y>>) = F[y] /\ F[y] \in Seq(T)
      BY <1>8, <3>1, FlatOne
    <3> QED
      BY <1>6, <3>2 DEF y
  <2>3. Makes(k, Sent, T) /\ \A x \in Sent : k[x] = F[tm[x]]
    BY <2>2 DEF Makes
  <2> HIDE DEF k
  <2>4. Flat(k, Flat(Sel(Sent, R), s)) = Flat(l, s)
    BY <2>3, FlatOfSel
  <2>5. \A p \in ToSet(s) : p \in Sent
    BY DEF ToSet
  <2>6. \A p \in ToSet(s) : l[p] = g[p]
    BY <1>8, <2>3, <2>5
  <2> HIDE DEF l
  <2>7. Flat(l, s) = Flat(g, s)
    BY <2>6, FlatSame
  <2> QED
    BY <1>1, <1>4, <1>5, <2>1, <2>4, <2>7
<1>9. \A p \in ToSet(s) : p \in Sent
  BY DEF ToSet
<1>10. ASSUME NEW own \in BOOLEAN
       PROVE  Flat(Show(own), ms) = IF own THEN <<>> ELSE Flat(Picked(ResultKind), s)
  <2> DEFINE K == IF own THEN {} ELSE ResultKind
  <2>1. Makes(Show(own), Message, LineType)
    BY MessagesMake
  <2>2. ASSUME NEW p \in ToSet(s)
        PROVE  Picked(K)[p] = IF p \in R THEN Show(own)[tm[p]] ELSE <<>>
    <3>1. p \in Sent /\ tm[p] \in Message /\ tm[p].role = "tool"
      BY <1>2, <1>9
    <3>2. Show(own)[tm[p]] = IF own THEN <<>> ELSE MessageLines(tm[p])
      BY <3>1 DEF Show
    <3>3. p \in R <=> p.kind \in ResultKind
      BY <3>1 DEF Having
    <3> QED
      BY <1>2, <3>1, <3>2, <3>3 DEF Picked
  <2>3. Flat(Show(own), ms) = Flat(Picked(K), s)
    BY <1>8, <2>1, <2>2
  <2>4. Flat(Picked({}), s) = <<>>
    BY PickedSequence
  <2> QED
    BY <2>3, <2>4
<1>11. Flat(Images, ms) = <<>>
  <2> DEFINE g == [p \in Sent |-> <<>>]
  <2>1. Makes(Images, Message, PieceType)
    BY MessagesMake
  <2>2. \A p \in ToSet(s) : g[p] = IF p \in R THEN Images[tm[p]] ELSE <<>>
    BY <1>2, <1>9 DEF Images
  <2>3. \A p \in ToSet(s) : g[p] = <<>>
    BY <1>9
  <2> HIDE DEF g
  <2>4. Flat(Images, ms) = Flat(g, s)
    BY <1>8, <2>1, <2>2
  <2>5. Flat(g, s) = <<>>
    BY <2>3, FlatNothing
  <2> QED
    BY <2>4, <2>5
<1> QED
  BY <1>7, <1>10, <1>11 DEF ms, results

-----------------------------------------------------------------------------
(* What a turn shows, protocol by protocol. *)

(* The pieces one speaker may say in a turn.                                   *)
SaidBy(role, s) == role \in Speaker /\ s \in Seq(Sent) /\ \A p \in ToSet(s) : p.kind \in KindsIn(role)

(* The protocols whose messages name texts before calls before results.        *)
InGroups(protocol, role) == protocol = "anthropic" \/ (protocol \in {"chat", "gemini"} /\ role # "user")

(* The images a protocol forwards of a piece.                                  *)
ImageOf(protocol, role) ==
    [p \in Sent |->
        IF p.kind = "shot" THEN IF protocol = "chat" THEN <<[p EXCEPT !.kind = "inline"]>> ELSE <<>>
        ELSE IF p.kind \in ImageKind /\ (protocol = "gemini" => p.kind # "remote" /\ role = "user")
             THEN <<p>> ELSE <<>>]

(* What becomes of a turn.                                                     *)
TurnShown(protocol, role, s, ms) ==
    /\ ms \in Seq(Message)
    /\ \A own \in BOOLEAN :
          Flat(Show(own), ms) = IF (role = "system") = own THEN TurnLines(InGroups(protocol, role), s) ELSE <<>>
    /\ Flat(Images, ms) = Flat(ImageOf(protocol, role), s)

(* Of every piece come images.                                                 *)
LEMMA ImageOfMakes ==
    ASSUME NEW protocol, NEW role, NEW S, S \subseteq Sent
    PROVE  Makes(ImageOf(protocol, role), S, PieceType)
<1> SUFFICES ASSUME NEW p \in S
             PROVE  ImageOf(protocol, role)[p] \in Seq(PieceType)
  BY DEF Makes
<1>1. p \in Sent /\ p \in PieceType
  BY DEF Sent
<1>2. [p EXCEPT !.kind = "inline"] \in PieceType
  BY <1>1 DEF PieceType, Kind, ImageKind
<1>3. <<p>> \in Seq(PieceType) /\ <<>> \in Seq(PieceType) /\ <<[p EXCEPT !.kind = "inline"]>> \in Seq(PieceType)
  BY <1>1, <1>2
<1> QED
  BY <1>1, <1>3 DEF ImageOf

(* A turn that becomes one message: of the system, or of a chat client that    *)
(* is not the user.                                                            *)
LEMMA OneMessageTurn ==
    ASSUME NEW protocol \in {"chat", "gemini"}, NEW role, NEW s, SaidBy(role, s), role # "user", role = "system" \/ protocol = "chat"
    PROVE  TurnShown(protocol, role, s, <<ChatMessage(role, s)>>)
<1> DEFINE ms == <<ChatMessage(role, s)>>
<1>1. role \in Role /\ s \in Seq(Sent) /\ \A p \in ToSet(s) : p \in Sent /\ p.kind \in KindsIn(role)
  BY DEF SaidBy, Role, Speaker, ToSet
<1>2. \A p \in ToSet(s) : p.kind \notin ResultKind
  BY <1>1 DEF KindsIn, ResultKind, SaidBy, Speaker
<1>3. TurnLines(TRUE, s) = Flat(Picked({"text"}), s) \o Flat(Picked({"call"}), s)
  BY <1>1, <1>2, Ungrouped
<1>4. InGroups(protocol, role) = TRUE
  BY DEF InGroups
<1>5. \A p \in ToSet(s) : ImageOf(protocol, role)[p] = IF p.kind \in ImageKind THEN <<p>> ELSE <<>>
  <2> TAKE p \in ToSet(s)
  <2>1. p \in Sent /\ p.kind # "shot" /\ (role = "system" => p.kind = "text")
    BY <1>1, <1>2 DEF KindsIn, ResultKind
  <2>2. role = "system" => p.kind \notin ImageKind
    BY <2>1 DEF ImageKind
  <2> QED
    BY <2>1, <2>2 DEF ImageOf
<1>6. Only(ImageKind, s) = Flat(ImageOf(protocol, role), s)
  BY <1>1, <1>5, ImagesOfKind
<1>7. ASSUME NEW own \in BOOLEAN
      PROVE  /\ ms \in Seq(Message)
             /\ Flat(Show(own), ms) =
                  IF (role = "system") = own THEN Flat(Picked({"text"}), s) \o Flat(Picked({"call"}), s) ELSE <<>>
             /\ Flat(Images, ms) = Only(ImageKind, s)
  BY <1>1, OneShows
<1> HIDE DEF ms
<1> QED
  BY <1>3, <1>4, <1>6, <1>7 DEF TurnShown, ms

(* A model's turn in Gemini's protocol.                                        *)
LEMMA GeminiModelTurn ==
    ASSUME NEW s, SaidBy("assistant", s)
    PROVE  TurnShown("gemini", "assistant", s, geminiModelContentToChat(s))
<1> DEFINE e == Except(ImageKind, s)
           ms == <<ChatMessage("assistant", e)>>
<1>1. s \in Seq(Sent) /\ \A p \in ToSet(s) : p \in Sent /\ p.kind \in {"text", "inline", "call"}
  BY DEF SaidBy, ToSet, KindsIn
<1>2. e \in Seq(Sent)
  BY <1>1, SelectedPieces
<1>3. /\ Flat(Picked({"text"}), e) = Flat(Picked({"text"} \ ImageKind), s)
      /\ Flat(Picked({"call"}), e) = Flat(Picked({"call"} \ ImageKind), s)
  BY <1>1, PickedExcept
<1>4. {"text"} \ ImageKind = {"text"} /\ {"call"} \ ImageKind = {"call"} /\ "assistant" \in Role
  BY DEF ImageKind, Role
<1>5. TurnLines(TRUE, s) = Flat(Picked({"text"}), s) \o Flat(Picked({"call"}), s)
  BY <1>1, Ungrouped DEF ResultKind
<1>6. InGroups("gemini", "assistant") = TRUE
  BY DEF InGroups
<1>7. \A p \in ToSet(s) : ImageOf("gemini", "assistant")[p] = IF p.kind \in ImageKind \ ImageKind THEN <<p>> ELSE <<>>
  BY <1>1 DEF ImageOf
<1>8. Only(ImageKind, e) = Flat(ImageOf("gemini", "assistant"), s)
  BY <1>1, <1>7, ImagesExcept
<1> HIDE DEF e
<1>9. ASSUME NEW own \in BOOLEAN
      PROVE  /\ ms \in Seq(Message)
             /\ Flat(Show(own), ms) =
                  IF ("assistant" = "system") = own THEN Flat(Picked({"text"}), e) \o Flat(Picked({"call"}), e) ELSE <<>>
             /\ Flat(Images, ms) = Only(ImageKind, e)
  BY <1>2, <1>4, OneShows
<1>10. geminiModelContentToChat(s) = ms
  BY DEF geminiModelContentToChat, e
<1> HIDE DEF ms
<1> QED
  BY <1>3, <1>4, <1>5, <1>6, <1>8, <1>9, <1>10 DEF TurnShown

(* Turns that are split.                                                       *)
LEMMA SplitTurn ==
    ASSUME NEW protocol \in Wire, NEW role, NEW s, SaidBy(role, s), ~InGroups(protocol, role), NEW L \in SUBSET ImageKind,
           NEW alone, \A p \in ToSet(s) : p.kind \in ResultKind \cup {"call"} => StandsAlone(role, alone, p),
           \A p \in ToSet(s) : p.kind \in ResultKind \cup {"call"} => alone[p].images = ImageOf(protocol, role)[p],
           \A p \in ToSet(s) : p.kind \in ImageKind =>
                ImageOf(protocol, role)[p] = IF p.kind \in L THEN <<>> ELSE <<p>>
    PROVE  TurnShown(protocol, role, s, Split(role, Except(L, s), alone))
<1> DEFINE e == Except(L, s)
           S == Lacking(ToSet(s), L)
           g == ImageOf(protocol, role)
           ms == Split(role, e, alone)
<1>1. role \in Speaker /\ s \in Seq(Sent) /\ s \in Seq(ToSet(s)) /\ ToSet(s) \subseteq Sent
  BY DEF SaidBy, ToSet
<1>2. S \subseteq Sent /\ S \subseteq ToSet(s)
  BY <1>1 DEF Lacking
<1>3. e \in Seq(S)
  <2> DEFINE D == ToSet(s)
             B == Lacking(D, L)
             sel == [x \in D |-> IF x \in B THEN <<x>> ELSE <<>>]
  <2>1. s \in Seq(D)
    BY <1>1
  <2>2. Makes(Sel(D, B), D, B)
    <3> SUFFICES ASSUME NEW x \in D
                 PROVE  Sel(D, B)[x] \in Seq(B)
      BY DEF Makes
    <3> HIDE DEF D, B
    <3>1. x \in B => <<x>> \in Seq(B)
      OBVIOUS
    <3> QED
      BY <3>1 DEF Sel
  <2> HIDE DEF D
  <2>3. e = Flat(Sel(D, B), s)
    BY <2>1, SelectedPieces
  <2> HIDE DEF B
  <2>4. Flat(Sel(D, B), s) \in Seq(B)
    BY <2>1, <2>2, FlatConcat
  <2> QED
    BY <2>3, <2>4 DEF B, D
<1>4. InGroups(protocol, role) = FALSE
  BY DEF InGroups
<1>5. \A p \in S : p.kind \in ResultKind \cup {"call"} => StandsAlone(role, alone, p)
  BY <1>2
<1>6. Flat(Picked(Shown), e) = Flat(Picked(Shown), s)
  <2>1. Flat(Picked(Shown), e) = Flat(Picked(Shown \ L), s)
    BY <1>1, PickedExcept
  <2>2. Shown \ L = Shown
    BY DEF Shown, ImageKind, ResultKind
  <2> QED
    BY <2>1, <2>2
<1> HIDE DEF e, S
<1>7. ms \in Seq(Message) /\ \A own \in BOOLEAN :
         Flat(Show(own), ms) = IF (role = "system") = own THEN Flat(Picked(Shown), e) ELSE <<>>
  <2>1. role \in Speaker /\ S \subseteq Sent /\ e \in Seq(S)
    BY <1>1, <1>2, <1>3
  <2>2. ASSUME NEW own \in BOOLEAN
        PROVE  /\ ms \in Seq(Message)
               /\ Flat(Show(own), ms) = IF (role = "system") = own THEN Flat(Picked(Shown), e) ELSE <<>>
    BY ONLY <1>5, <2>1, <2>2, SplitShows
  <2> QED
    BY <2>2
<1>8. Makes(g, S, PieceType)
  BY <1>2, ImageOfMakes
<1>9. \A p \in S : p.kind \in ResultKind \cup {"call"} => alone[p] \in Message /\ alone[p].images = g[p]
  BY <1>2, <1>5 DEF StandsAlone
<1>10. \A p \in Loose(S) : g[p] = IF p.kind \in ImageKind THEN <<p>> ELSE <<>>
  <2> TAKE p \in Loose(S)
  <2>1. p \in Sent /\ p \in ToSet(s) /\ p.kind \notin L /\ p.kind \notin ResultKind
    BY <1>1 DEF Loose, S, Lacking
  <2>2. CASE p.kind \in ImageKind
    BY <2>1, <2>2
  <2>3. CASE p.kind \notin ImageKind
    BY <2>1, <2>3 DEF ImageOf, ResultKind
  <2> QED
    BY <2>2, <2>3
<1> HIDE DEF g
<1>11. Flat(Images, ms) = Flat(g, e)
  BY <1>1, <1>2, <1>3, <1>8, <1>9, <1>10, SplitImages
<1>12. Flat(g, e) = Flat(g, s)
  <2> DEFINE B == Lacking(Sent, L)
             f == [x \in Sent |-> IF x \in B THEN g[x] ELSE <<>>]
  <2>1. e = Flat(Sel(Sent, B), s)
    BY <1>1, SelectedPieces DEF e
  <2>2. Makes(g, Sent, PieceType)
    BY ImageOfMakes DEF g
  <2>3. \A p \in ToSet(s) : f[p] = g[p]
    <3> TAKE p \in ToSet(s)
    <3>1. p \in Sent
      BY <1>1
    <3>2. p \notin B => g[p] = <<>>
      BY <3>1 DEF Lacking, g
    <3> QED
      BY <3>1, <3>2
  <2> HIDE DEF B
  <2>4. Flat(g, Flat(Sel(Sent, B), s)) = Flat(f, s)
    BY <1>1, <2>2, FlatOfSel
  <2> HIDE DEF f
  <2>5. Flat(f, s) = Flat(g, s)
    BY <2>3, FlatSame
  <2> QED
    BY <2>1, <2>4, <2>5
<1>13. TurnLines(InGroups(protocol, role), s) = Flat(Picked(Shown), s)
  BY <1>4 DEF TurnLines
<1> HIDE DEF ms
<1>14. TurnShown(protocol, role, s, ms)
  BY <1>6, <1>7, <1>11, <1>12, <1>13 DEF TurnShown, g
<1> QED
  BY <1>14 DEF ms, e

(* Nothing is left out when no kind is.                                        *)
LEMMA ExceptNone ==
    ASSUME NEW s \in Seq(Sent), NEW L, \A p \in ToSet(s) : p.kind \notin L
    PROVE  Except(L, s) = s
<1> DEFINE g == [p \in Sent |-> p]
           one == Ones(Sent, g)
<1>1. Except(L, s) = Flat(Sel(Sent, Lacking(Sent, L)), s)
  BY SelectedPieces
<1>2. \A p \in ToSet(s) : p \in Sent
  BY DEF ToSet
<1>3. \A p \in ToSet(s) : Sel(Sent, Lacking(Sent, L))[p] = one[p]
  BY <1>2 DEF Sel, Lacking, Ones
<1>4. g \in [Sent -> Sent]
  OBVIOUS
<1>5. EachMade(g, s) = s
  BY DEF EachMade
<1> HIDE DEF g
<1>6. Flat(one, s) = EachMade(g, s)
  BY <1>4, FlatOnes
<1> HIDE DEF one
<1>7. Flat(Sel(Sent, Lacking(Sent, L)), s) = Flat(one, s)
  BY <1>3, FlatSame
<1> QED
  BY <1>1, <1>5, <1>6, <1>7

(* chatMessages shows a whole turn of the user.                                *)
LEMMA ChatUserTurn ==
    ASSUME NEW s, SaidBy("user", s)
    PROVE  TurnShown("chat", "user", s, chatMessages("user", s))
<1> DEFINE alone == [p \in ToSet(s) |-> [ToolMessage(p) EXCEPT
                         !.images = IF p.kind = "shot" THEN <<[p EXCEPT !.kind = "inline"]>> ELSE <<>>]]
           g == ImageOf("chat", "user")
<1>1. s \in Seq(Sent) /\ \A p \in ToSet(s) : p \in Sent /\ p.kind \in {"text"} \cup ImageKind \cup ResultKind
  BY DEF SaidBy, ToSet, KindsIn
<1>2. ASSUME NEW p \in ToSet(s), p.kind \in ResultKind \cup {"call"}
      PROVE  StandsAlone("user", alone, p) /\ alone[p].images = g[p]
  <2> DEFINE v == IF p.kind = "shot" THEN <<[p EXCEPT !.kind = "inline"]>> ELSE <<>>
  <2>1. p \in Sent /\ p.kind \in ResultKind
    BY <1>1, <1>2 DEF ImageKind, ResultKind
  <2>2. v \in Seq(PieceType) /\ g[p] = v
    <3>1. Makes(g, Sent, PieceType)
      BY ImageOfMakes
    <3>2. p.kind \notin ImageKind
      BY <2>1 DEF ResultKind, ImageKind
    <3>3. g[p] = v
      BY <2>1, <3>2 DEF ImageOf
    <3> QED
      BY <2>1, <3>1, <3>3 DEF Makes
  <2>3. alone[p] = [ToolMessage(p) EXCEPT !.images = v]
    OBVIOUS
  <2> HIDE DEF v, alone, g
  <2>4. /\ [ToolMessage(p) EXCEPT !.images = v] \in Message
        /\ [ToolMessage(p) EXCEPT !.images = v].images = v
        /\ [ToolMessage(p) EXCEPT !.images = v].role = "tool"
        /\ MessageLines([ToolMessage(p) EXCEPT !.images = v]) = <<LineOf(p)>>
    BY <2>1, <2>2, MessageOfOne
  <2> QED
    BY <2>2, <2>3, <2>4 DEF StandsAlone
<1>3. \A p \in ToSet(s) : p.kind \in ImageKind => g[p] = IF p.kind \in {} THEN <<>> ELSE <<p>>
  BY <1>1 DEF ImageOf, ImageKind
<1>4. Except({}, s) = s
  BY <1>1, ExceptNone
<1>5. chatMessages("user", s) = Split("user", s, alone)
  BY DEF chatMessages
<1>6. "chat" \in Wire /\ ~InGroups("chat", "user") /\ {} \in SUBSET ImageKind
  BY DEF Wire, InGroups
<1> HIDE DEF alone
<1>7. TurnShown("chat", "user", s, Split("user", Except({}, s), alone))
  BY <1>2, <1>3, <1>6, SplitTurn
<1> QED
  BY <1>4, <1>5, <1>7

(* The items of the Responses protocol show a whole turn.                      *)
LEMMA ResponsesTurn ==
    ASSUME NEW role, NEW s, SaidBy(role, s)
    PROVE  TurnShown("responses", role, s, ToChatMessages("responses", role, s))
<1> DEFINE alone == [p \in ToSet(s) |-> responseInputItemToMessage(p)]
           g == ImageOf("responses", role)
<1>1. s \in Seq(Sent) /\ role \in Speaker /\ \A p \in ToSet(s) : p \in Sent /\ p.kind \in KindsIn(role)
  BY DEF SaidBy, ToSet
<1>2. ASSUME NEW p \in ToSet(s), p.kind \in ResultKind \cup {"call"}
      PROVE  StandsAlone(role, alone, p) /\ alone[p].images = g[p]
  <2>1. p \in Sent /\ role # "system"
    BY <1>1, <1>2 DEF KindsIn, ResultKind
  <2>2. g[p] = <<>>
    BY <1>2, <2>1 DEF ImageOf, ResultKind, ImageKind
  <2>3. alone[p] = IF p.kind = "call" THEN ChatMessage("assistant", <<p>>) ELSE ToolMessage(p)
    BY DEF responseInputItemToMessage
  <2>4. <<>> \in Seq(PieceType) /\ [ToolMessage(p) EXCEPT !.images = <<>>] = ToolMessage(p)
    BY DEF ToolMessage
  <2> HIDE DEF alone, g
  <2>5. CASE p.kind = "call"
    <3>1. /\ ChatMessage("assistant", <<p>>) \in Message
          /\ ChatMessage("assistant", <<p>>).images = <<>>
          /\ ChatMessage("assistant", <<p>>).role = "assistant"
          /\ MessageLines(ChatMessage("assistant", <<p>>)) = <<LineOf(p)>>
      BY <2>1, <2>4, <2>5, MessageOfOne
    <3> QED
      BY <2>1, <2>2, <2>3, <2>5, <3>1 DEF StandsAlone
  <2>6. CASE p.kind # "call"
    <3>1. p.kind \in ResultKind
      BY <1>2, <2>6
    <3>2. /\ [ToolMessage(p) EXCEPT !.images = <<>>] \in Message
          /\ [ToolMessage(p) EXCEPT !.images = <<>>].images = <<>>
          /\ [ToolMessage(p) EXCEPT !.images = <<>>].role = "tool"
          /\ MessageLines([ToolMessage(p) EXCEPT !.images = <<>>]) = <<LineOf(p)>>
      BY <2>1, <2>4, <3>1, MessageOfOne
    <3> QED
      BY <2>1, <2>2, <2>3, <2>4, <2>6, <3>2 DEF StandsAlone
  <2> QED
    BY <2>5, <2>6
<1>3. \A p \in ToSet(s) : p.kind \in ImageKind => g[p] = IF p.kind \in {} THEN <<>> ELSE <<p>>
  BY <1>1 DEF ImageOf, ImageKind
<1>4. Except({}, s) = s
  BY <1>1, ExceptNone
<1>5. ToChatMessages("responses", role, s) = Split(role, s, alone)
  BY DEF ToChatMessages
<1>6. "responses" \in Wire /\ ~InGroups("responses", role) /\ {} \in SUBSET ImageKind
  BY DEF Wire, InGroups
<1> HIDE DEF alone
<1>7. TurnShown("responses", role, s, Split(role, Except({}, s), alone))
  BY <1>2, <1>3, <1>6, SplitTurn
<1> QED
  BY <1>4, <1>5, <1>7

(* geminiUserContentToChat shows a whole turn of the user, but for remote      *)
(* images.                                                                     *)
LEMMA GeminiUserTurn ==
    ASSUME NEW s, SaidBy("user", s)
    PROVE  TurnShown("gemini", "user", s, geminiUserContentToChat(s))
<1> DEFINE alone == [p \in ToSet(s) |-> ToolMessage(p)]
           g == ImageOf("gemini", "user")
<1>1. s \in Seq(Sent) /\ \A p \in ToSet(s) : p \in Sent /\ p.kind \in {"text"} \cup ImageKind \cup ResultKind
  BY DEF SaidBy, ToSet, KindsIn
<1>2. ASSUME NEW p \in ToSet(s), p.kind \in ResultKind \cup {"call"}
      PROVE  StandsAlone("user", alone, p) /\ alone[p].images = g[p]
  <2>1. p \in Sent /\ p.kind \in ResultKind
    BY <1>1, <1>2 DEF ImageKind, ResultKind
  <2>2. g[p] = <<>>
    BY <1>2, <2>1 DEF ImageOf, ResultKind, ImageKind
  <2>3. alone[p] = ToolMessage(p)
    OBVIOUS
  <2>4. <<>> \in Seq(PieceType) /\ [ToolMessage(p) EXCEPT !.images = <<>>] = ToolMessage(p)
    BY DEF ToolMessage
  <2> HIDE DEF alone, g
  <2>5. /\ [ToolMessage(p) EXCEPT !.images = <<>>] \in Message
        /\ [ToolMessage(p) EXCEPT !.images = <<>>].images = <<>>
        /\ [ToolMessage(p) EXCEPT !.images = <<>>].role = "tool"
        /\ MessageLines([ToolMessage(p) EXCEPT !.images = <<>>]) = <<LineOf(p)>>
    BY <2>1, <2>4, MessageOfOne
  <2> QED
    BY <2>2, <2>3, <2>4, <2>5 DEF StandsAlone
<1>3. \A p \in ToSet(s) : p.kind \in ImageKind => g[p] = IF p.kind \in {"remote"} THEN <<>> ELSE <<p>>
  BY <1>1 DEF ImageOf, ImageKind
<1>4. geminiUserContentToChat(s) = Split("user", Except({"remote"}, s), alone)
  BY DEF geminiUserContentToChat
<1>5. "gemini" \in Wire /\ ~InGroups("gemini", "user") /\ {"remote"} \in SUBSET ImageKind
  BY DEF Wire, InGroups, ImageKind
<1> HIDE DEF alone
<1>6. TurnShown("gemini", "user", s, Split("user", Except({"remote"}, s), alone))
  BY <1>2, <1>3, <1>5, SplitTurn
<1> QED
  BY <1>4, <1>6

(* anthropicMessageToChatMessages shows a whole turn, its results last.        *)
LEMMA AnthropicTurn ==
    ASSUME NEW role, NEW s, SaidBy(role, s)
    PROVE  TurnShown("anthropic", role, s, anthropicMessageToChatMessages(role, s))
<1> DEFINE e == Except(ResultKind, s)
           results == Only(ResultKind, s)
           a == IF e = <<>> THEN <<>> ELSE <<ChatMessage(role, e)>>
           b == [i \in DOMAIN results |-> ToolMessage(results[i])]
           text == Flat(Picked({"text"}), s)
           call == Flat(Picked({"call"}), s)
           rest == Flat(Picked(ResultKind), s)
           g == ImageOf("anthropic", role)
<1>1. role \in Role /\ s \in Seq(Sent) /\ \A p \in ToSet(s) : p \in Sent /\ p.kind \in KindsIn(role)
  BY DEF SaidBy, Role, Speaker, ToSet
<1>2. e \in Seq(Sent)
  BY <1>1, SelectedPieces
<1>3. Flat(Picked({"text"}), e) = text /\ Flat(Picked({"call"}), e) = call
  <2>1. /\ Flat(Picked({"text"}), e) = Flat(Picked({"text"} \ ResultKind), s)
        /\ Flat(Picked({"call"}), e) = Flat(Picked({"call"} \ ResultKind), s)
    BY <1>1, PickedExcept
  <2>2. {"text"} \ ResultKind = {"text"} /\ {"call"} \ ResultKind = {"call"}
    BY DEF ResultKind
  <2> QED
    BY <2>1, <2>2
<1>4. text \in Seq(LineType) /\ call \in Seq(LineType) /\ rest \in Seq(LineType)
  BY <1>1, PickedSequence
<1>5. role = "system" => rest = <<>>
  <2>1. role = "system" => \A p \in ToSet(s) : p.kind \notin ResultKind
    BY <1>1 DEF KindsIn, ResultKind
  <2> QED
    BY <1>1, <2>1, PickedSequence
<1>6. Only(ImageKind, e) = Flat(g, s)
  <2>1. \A p \in ToSet(s) : g[p] = IF p.kind \in ImageKind \ ResultKind THEN <<p>> ELSE <<>>
    BY <1>1 DEF ImageOf, ImageKind, ResultKind
  <2> QED
    BY <1>1, <2>1, ImagesExcept
<1>7. Flat(g, s) \in Seq(PieceType)
  <2>1. Makes(g, Sent, PieceType)
    BY ImageOfMakes
  <2> QED
    BY <1>1, <2>1, FlatConcat
<1>8. /\ b \in Seq(Message) /\ Flat(Images, b) = <<>>
      /\ \A own \in BOOLEAN : Flat(Show(own), b) = IF own THEN <<>> ELSE rest
  BY <1>1, ResultMessages
<1>9. anthropicMessageToChatMessages(role, s) = a \o b
  BY DEF anthropicMessageToChatMessages
<1> HIDE DEF e, results, b, text, call, rest, g
<1>10. /\ a \in Seq(Message) /\ Flat(Images, a) = Flat(g, s)
       /\ \A own \in BOOLEAN : Flat(Show(own), a) = IF (role = "system") = own THEN text \o call ELSE <<>>
  <2>1. CASE e = <<>>
    <3>1. /\ Flat(Picked({"text"}), <<>>) = <<>> /\ Flat(Picked({"call"}), <<>>) = <<>>
          /\ Flat(Images, <<>>) = <<>> /\ \A own \in BOOLEAN : Flat(Show(own), <<>>) = <<>>
      BY DEF Flat, FlattenSeq
    <3>2. text = <<>> /\ call = <<>> /\ a = <<>>
      BY <1>3, <2>1, <3>1
    <3>3. Flat(g, s) = <<>>
      <4> DEFINE h == Sel(Sent, Having(Sent, ImageKind))
      <4>1. Only(ImageKind, e) = Flat(h, e)
        BY <1>2, SelectedPieces
      <4>2. Flat(h, <<>>) = <<>>
        BY DEF Flat, FlattenSeq
      <4> QED
        BY <1>6, <2>1, <4>1, <4>2
    <3>4. <<>> \o <<>> = <<>> /\ <<>> \in Seq(Message)
      OBVIOUS
    <3> QED
      BY <3>1, <3>2, <3>3, <3>4
  <2>2. CASE e # <<>>
    <3>1. a = <<ChatMessage(role, e)>>
      BY <2>2
    <3> HIDE DEF a
    <3>2. ASSUME NEW own \in BOOLEAN
          PROVE  /\ <<ChatMessage(role, e)>> \in Seq(Message)
                 /\ Flat(Show(own), <<ChatMessage(role, e)>>) =
                      IF (role = "system") = own THEN Flat(Picked({"text"}), e) \o Flat(Picked({"call"}), e) ELSE <<>>
                 /\ Flat(Images, <<ChatMessage(role, e)>>) = Only(ImageKind, e)
      BY <1>1, <1>2, OneShows
    <3> QED
      BY <1>3, <1>6, <3>1, <3>2
  <2> QED
    BY <2>1, <2>2
<1> HIDE DEF a
<1>11. a \o b \in Seq(Message)
  BY <1>8, <1>10
<1>12. Flat(Images, a \o b) = Flat(g, s)
  <2>1. Makes(Images, Message, PieceType)
    BY MessagesMake
  <2>2. Flat(Images, a \o b) = Flat(Images, a) \o Flat(Images, b)
    <3>1. Makes(Images, Message, PieceType) /\ a \in Seq(Message) /\ b \in Seq(Message)
      BY <1>8, <1>10, <2>1
    <3> QED
      BY ONLY <3>1, FlatConcat
  <2>3. Flat(g, s) \o <<>> = Flat(g, s)
    BY <1>7
  <2> QED
    BY <1>8, <1>10, <2>2, <2>3
<1>13. ASSUME NEW own \in BOOLEAN
       PROVE  Flat(Show(own), a \o b) = IF (role = "system") = own THEN (text \o call) \o rest ELSE <<>>
  <2>1. Makes(Show(own), Message, LineType)
    BY MessagesMake
  <2>2. Flat(Show(own), a \o b) = Flat(Show(own), a) \o Flat(Show(own), b)
    BY <1>8, <1>10, <2>1, FlatConcat
  <2>3. <<>> \o <<>> = <<>>
    OBVIOUS
  <2>4. CASE role = "system"
    BY <1>5, <1>8, <1>10, <2>2, <2>3, <2>4
  <2>5. CASE role # "system"
    BY <1>8, <1>10, <2>2, <2>3, <2>5
  <2> QED
    BY <2>4, <2>5
<1>14. TurnLines(InGroups("anthropic", role), s) = (text \o call) \o rest
  BY DEF TurnLines, InGroups, text, call, rest
<1> QED
  BY <1>9, <1>11, <1>12, <1>13, <1>14 DEF TurnShown, g

(* Every protocol shows a turn: all its pieces, in their order or in groups.   *)
LEMMA EveryTurn ==
    ASSUME NEW protocol \in Wire, NEW role, NEW s, SaidBy(role, s)
    PROVE  TurnShown(protocol, role, s, ToChatMessages(protocol, role, s))
<1>1. role \in Speaker
  BY DEF SaidBy
<1>2. CASE protocol = "chat"
  <2>1. ToChatMessages(protocol, role, s) = chatMessages(role, s)
    BY <1>2 DEF ToChatMessages
  <2>2. CASE role = "user"
    BY <1>2, <2>1, <2>2, ChatUserTurn
  <2>3. CASE role # "user"
    <3>1. chatMessages(role, s) = <<ChatMessage(role, s)>>
      BY <2>3 DEF chatMessages
    <3> QED
      BY <1>2, <2>1, <2>3, <3>1, OneMessageTurn
  <2> QED
    BY <2>2, <2>3
<1>3. CASE protocol = "responses"
  BY <1>3, ResponsesTurn
<1>4. CASE protocol = "anthropic"
  <2>1. ToChatMessages(protocol, role, s) = anthropicMessageToChatMessages(role, s)
    BY <1>4 DEF ToChatMessages
  <2> QED
    BY <1>4, <2>1, AnthropicTurn
<1>5. CASE protocol = "gemini"
  <2>1. CASE role = "assistant"
    <3>1. ToChatMessages(protocol, role, s) = geminiModelContentToChat(s)
      BY <1>5, <2>1 DEF ToChatMessages
    <3> QED
      BY <1>5, <2>1, <3>1, GeminiModelTurn
  <2>2. CASE role = "system"
    <3>1. ToChatMessages(protocol, role, s) = <<ChatMessage(role, s)>>
      BY <1>5, <2>2 DEF ToChatMessages
    <3> QED
      BY <1>5, <2>2, <3>1, OneMessageTurn
  <2>3. CASE role = "user"
    <3>1. ToChatMessages(protocol, role, s) = geminiUserContentToChat(s)
      BY <1>5, <2>3 DEF ToChatMessages
    <3> QED
      BY <1>5, <2>3, <3>1, GeminiUserTurn
  <2> QED
    BY <1>1, <2>1, <2>2, <2>3 DEF Speaker
<1> QED
  BY <1>2, <1>3, <1>4, <1>5 DEF Wire

-----------------------------------------------------------------------------
(* The order of what is shown. *)

(* What may come before what: an earlier turn, and in a turn an earlier piece  *)
(* of the same kind.                                                           *)
Before ==
    {l \in LineType \X LineType :
        /\ l[1].at[1] <= l[2].at[1] /\ l[1].at # l[2].at
        /\ l[1].at[1] = l[2].at[1] /\ l[1].kind = l[2].kind => l[1].at[2] < l[2].at[2]}

(* The pieces of turn n are addressed by their place.                          *)
Placed(s, n) == \A i \in DOMAIN s : s[i].at = <<n, i>>

(* The lines of the pieces of some kinds are in the order of a turn whose      *)
(* pieces are addressed by their place.                                        *)
LEMMA PickedPlaced ==
    ASSUME NEW s \in Seq(Sent), NEW n \in Nat, Placed(s, n), NEW K
    PROVE  /\ InOrder(Before, Flat(Picked(K), s))
           /\ ToSet(Flat(Picked(K), s)) = {LineOf(p) : p \in Having(ToSet(s), K)}
           /\ Flat(Picked(K), s) \in Seq(LineType)
<1> DEFINE g == Picked(K)
<1>1. Makes(g, Sent, LineType)
  BY PickedMakes
<1>2. \A p \in ToSet(s) : p \in Sent
  BY DEF ToSet
<1>3. \A p \in Sent : LineOf(p) \in LineType /\ LineOf(p).at = p.at /\ LineOf(p).kind = p.kind
  <2> TAKE p \in Sent
  <2>1. p \in PieceType /\ p.id \in Id
    BY DEF Sent, PieceType
  <2>2. LineOf(p) \in LineType
    BY <2>1, LineIsTyped
  <2> QED
    BY <2>2 DEF LineOf, Line
<1>4. \A p \in Sent : g[p] = IF p.kind \in K THEN <<LineOf(p)>> ELSE <<>>
  BY DEF Picked
<1>5. \A p \in Sent : ToSet(g[p]) = IF p.kind \in K THEN {LineOf(p)} ELSE {}
  <2> TAKE p \in Sent
  <2>1. ToSet(<<>>) = {} /\ ToSet(<<LineOf(p)>>) = {LineOf(p)}
    BY DEF ToSet
  <2> QED
    BY <1>4, <2>1
<1> HIDE DEF g
<1>6. ToSet(Flat(g, s)) = UNION {ToSet(g[p]) : p \in ToSet(s)}
  BY <1>1, SetOfFlat
<1>7. ToSet(Flat(g, s)) = {LineOf(p) : p \in Having(ToSet(s), K)}
  <2>1. ASSUME NEW l \in ToSet(Flat(g, s))
        PROVE  l \in {LineOf(p) : p \in Having(ToSet(s), K)}
    <3>1. PICK p \in ToSet(s) : l \in ToSet(g[p])
      BY <1>6
    <3>2. p.kind \in K /\ l = LineOf(p)
      <4>1. p \in Sent
        BY <1>2
      <4>2. ToSet(g[p]) = IF p.kind \in K THEN {LineOf(p)} ELSE {}
        BY <1>5, <4>1
      <4> QED
        BY <3>1, <4>2
    <3> QED
      BY <3>2 DEF Having
  <2>2. ASSUME NEW p \in Having(ToSet(s), K)
        PROVE  LineOf(p) \in ToSet(Flat(g, s))
    <3>1. p \in ToSet(s) /\ p \in Sent /\ p.kind \in K
      BY <1>2 DEF Having
    <3>2. LineOf(p) \in ToSet(g[p])
      BY <1>5, <3>1
    <3> QED
      BY <1>6, <3>1, <3>2
  <2> QED
    BY <2>1, <2>2
<1>8. \A p \in ToSet(s) : InOrder(Before, g[p])
  <2> TAKE p \in ToSet(s)
  <2>1. g[p] = <<LineOf(p)>> \/ g[p] = <<>>
    BY <1>2, <1>4
  <2> QED
    BY <2>1 DEF InOrder
<1>9. ASSUME NEW i \in DOMAIN s, NEW j \in DOMAIN s, i < j, NEW x \in ToSet(g[s[i]]), NEW y \in ToSet(g[s[j]])
      PROVE  <<x, y>> \in Before
  <2>1. s[i] \in Sent /\ s[j] \in Sent /\ i \in Nat /\ j \in Nat
    OBVIOUS
  <2>2. x = LineOf(s[i]) /\ y = LineOf(s[j])
    BY <1>5, <1>9, <2>1
  <2>3. x \in LineType /\ y \in LineType /\ x.at = <<n, i>> /\ y.at = <<n, j>>
    BY <1>3, <2>1, <2>2 DEF Placed
  <2>4. x.at[1] = n /\ x.at[2] = i /\ y.at[1] = n /\ y.at[2] = j
    BY <2>3
  <2>5. x.at # y.at
    BY <1>9, <2>1, <2>4
  <2> QED
    BY <1>9, <2>3, <2>4, <2>5 DEF Before
<1>10. InOrder(Before, Flat(g, s))
  BY <1>1, <1>8, <1>9, OrderOfFlat
<1>11. Flat(g, s) \in Seq(LineType)
  BY <1>1, FlatConcat
<1> QED
  BY <1>7, <1>10, <1>11 DEF g

(* Lines of pieces of different kinds may come in any order.                   *)
LEMMA KindsApart ==
    ASSUME NEW s \in Seq(Sent), NEW n \in Nat, Placed(s, n), NEW p \in ToSet(s), NEW q \in ToSet(s), p.kind # q.kind
    PROVE  <<LineOf(p), LineOf(q)>> \in Before
<1>1. PICK i \in DOMAIN s : p = s[i]
  BY DEF ToSet
<1>2. PICK j \in DOMAIN s : q = s[j]
  BY DEF ToSet
<1>3. p \in Sent /\ q \in Sent /\ p.at = <<n, i>> /\ q.at = <<n, j>>
  BY <1>1, <1>2 DEF Placed
<1>4. i # j
  BY <1>1, <1>2
<1>5. LineOf(p) \in LineType /\ LineOf(q) \in LineType
  BY <1>3, LineIsTyped DEF Sent, PieceType
<1>6. LineOf(p).at = p.at /\ LineOf(p).kind = p.kind /\ LineOf(q).at = q.at /\ LineOf(q).kind = q.kind
  BY DEF LineOf, Line
<1>7. p.at[1] = n /\ q.at[1] = n /\ p.at # q.at
  BY <1>3, <1>4
<1> QED
  BY <1>5, <1>6, <1>7 DEF Before

(* A turn is shown in order, and nothing but its images is left out.           *)
LEMMA TurnOrdered ==
    ASSUME NEW s \in Seq(Sent), NEW n \in Nat, Placed(s, n), NEW grouped \in BOOLEAN
    PROVE  /\ TurnLines(grouped, s) \in Seq(LineType)
           /\ InOrder(Before, TurnLines(grouped, s))
           /\ ToSet(TurnLines(grouped, s)) = {LineOf(p) : p \in Lacking(ToSet(s), ImageKind)}
<1> DEFINE D == ToSet(s)
           a == Flat(Picked({"text"}), s)
           b == Flat(Picked({"call"}), s)
           c == Flat(Picked(ResultKind), s)
<1>1. \A p \in D : p.kind \in Kind
  BY DEF ToSet, Sent, PieceType
<1>2. /\ InOrder(Before, a) /\ ToSet(a) = {LineOf(p) : p \in Having(D, {"text"})} /\ a \in Seq(LineType)
      /\ InOrder(Before, b) /\ ToSet(b) = {LineOf(p) : p \in Having(D, {"call"})} /\ b \in Seq(LineType)
      /\ InOrder(Before, c) /\ ToSet(c) = {LineOf(p) : p \in Having(D, ResultKind)} /\ c \in Seq(LineType)
  BY PickedPlaced
<1> HIDE DEF a, b, c
<1>3. CASE grouped
  <2>1. ASSUME NEW x \in ToSet(a), NEW y \in ToSet(b)
        PROVE  <<x, y>> \in Before
    <3>1. PICK p \in Having(D, {"text"}) : x = LineOf(p)
      BY <1>2
    <3>2. PICK q \in Having(D, {"call"}) : y = LineOf(q)
      BY <1>2
    <3>3. p \in D /\ q \in D /\ p.kind # q.kind
      BY <3>1, <3>2 DEF Having
    <3> QED
      BY <3>1, <3>2, <3>3, KindsApart
  <2>2. InOrder(Before, a \o b) /\ ToSet(a \o b) = ToSet(a) \cup ToSet(b) /\ a \o b \in Seq(LineType)
    <3>1. InOrder(Before, a \o b)
      BY <1>2, <2>1, OrderOfConcat
    <3>2. ToSet(a \o b) = ToSet(a) \cup ToSet(b)
      BY <1>2, SetOfConcat
    <3> QED
      BY <1>2, <3>1, <3>2
  <2> DEFINE ab == a \o b
  <2>3. ASSUME NEW x \in ToSet(ab), NEW y \in ToSet(c)
        PROVE  <<x, y>> \in Before
    <3>1. PICK p \in D : x = LineOf(p) /\ p.kind \in {"text", "call"}
      BY <1>2, <2>2 DEF Having
    <3>2. PICK q \in Having(D, ResultKind) : y = LineOf(q)
      BY <1>2
    <3>3. p \in D /\ q \in D /\ p.kind # q.kind
      BY <3>1, <3>2 DEF Having, ResultKind
    <3> QED
      BY <3>1, <3>2, <3>3, KindsApart
  <2> HIDE DEF ab
  <2>4. InOrder(Before, ab \o c) /\ ToSet(ab \o c) = ToSet(ab) \cup ToSet(c) /\ ab \o c \in Seq(LineType)
    <3>0. ab \in Seq(LineType) /\ InOrder(Before, ab)
      BY <2>2 DEF ab
    <3>1. InOrder(Before, ab \o c)
      BY <1>2, <2>3, <3>0, OrderOfConcat
    <3>2. ToSet(ab \o c) = ToSet(ab) \cup ToSet(c)
      BY <1>2, <3>0, SetOfConcat
    <3> QED
      BY <1>2, <3>0, <3>1, <3>2
  <2>5. TurnLines(grouped, s) = ab \o c
    BY <1>3 DEF TurnLines, ab, a, b, c
  <2>6. \A p \in D : p \in Lacking(D, ImageKind) <=>
             p \in Having(D, {"text"}) \/ p \in Having(D, {"call"}) \/ p \in Having(D, ResultKind)
    BY <1>1 DEF Having, Lacking, Kind, ImageKind, ResultKind
  <2>7. ToSet(ab) = ToSet(a) \cup ToSet(b)
    BY <2>2 DEF ab
  <2>8. /\ Lacking(D, ImageKind) \subseteq D /\ Having(D, {"text"}) \subseteq D
        /\ Having(D, {"call"}) \subseteq D /\ Having(D, ResultKind) \subseteq D
    BY DEF Lacking, Having
  <2>9. ToSet(ab \o c) = {LineOf(p) : p \in Lacking(D, ImageKind)}
    BY <1>2, <2>4, <2>6, <2>7, <2>8
  <2> QED
    BY <2>4, <2>5, <2>9
<1>4. CASE ~grouped
  <2>1. TurnLines(grouped, s) = Flat(Picked(Shown), s)
    BY <1>4 DEF TurnLines
  <2>2. /\ InOrder(Before, Flat(Picked(Shown), s))
        /\ ToSet(Flat(Picked(Shown), s)) = {LineOf(p) : p \in Having(D, Shown)}
        /\ Flat(Picked(Shown), s) \in Seq(LineType)
    BY PickedPlaced
  <2>3. Having(D, Shown) = Lacking(D, ImageKind)
    BY <1>1 DEF Having, Lacking, Shown, Kind, ImageKind, ResultKind
  <2> QED
    BY <2>1, <2>2, <2>3
<1> QED
  BY <1>3, <1>4

-----------------------------------------------------------------------------
(* What a talk shows. *)

(* A turn of a talk.                                                           *)
TalkTurn == {t \in [role : Speaker, pieces : Seq(Sent)] : SaidBy(t.role, t.pieces)}

(* A result names a call of the talk by the id and the name it came with.      *)
AnswersCall(q, p) ==
    /\ p.of[1] \in DOMAIN q /\ p.of[2] \in DOMAIN q[p.of[1]].pieces
    /\ q[p.of[1]].pieces[p.of[2]].id = p.id /\ q[p.of[1]].pieces[p.of[2]].name = p.name

(* A talk: its pieces are addressed by their place, and its results answer     *)
(* calls of it.                                                                *)
WellSaid(q) ==
    /\ q \in Seq(TalkTurn)
    /\ \A n \in DOMAIN q :
          /\ Placed(q[n].pieces, n)
          /\ \A i \in DOMAIN q[n].pieces : q[n].pieces[i].kind \in ResultKind => AnswersCall(q, q[n].pieces[i])

(* What may be shown before what of a talk: what the system says before the    *)
(* rest, each by turns, and in a turn an earlier piece of the same kind.       *)
Systems(q) == {n \in DOMAIN q : q[n].role = "system"}
Hoisted(q) ==
    {l \in LineType \X LineType :
        /\ l[1].at # l[2].at
        /\ l[2].at[1] \in Systems(q) => l[1].at[1] \in Systems(q)
        /\ (l[1].at[1] \in Systems(q) <=> l[2].at[1] \in Systems(q)) => l[1].at[1] <= l[2].at[1]
        /\ l[1].at[1] = l[2].at[1] /\ l[1].kind = l[2].kind => l[1].at[2] < l[2].at[2]}

(* A turn with the ids the conversion gives its calls and results.             *)
Wired(protocol, s) == [i \in DOMAIN s |-> Identified(protocol, s[i])]

(* The messages of a turn, the lines of one that the system speaks or another, *)
(* the images, and the pieces with the ids they are shown under and without.   *)
MessagesOf(protocol) == [t \in TalkTurn |-> ToChatMessages(protocol, t.role, Wired(protocol, t.pieces))]
LinesOf(protocol, own) ==
    [t \in TalkTurn |->
        IF (t.role = "system") = own
        THEN TurnLines(InGroups(protocol, t.role), Wired(protocol, t.pieces)) ELSE <<>>]
ImagesOf(protocol) == [t \in TalkTurn |-> Flat(ImageOf(protocol, t.role), Wired(protocol, t.pieces))]
PiecesOf == [t \in TalkTurn |-> t.pieces]

(* A piece is the same but for its id.                                         *)
LEMMA IdentifiedPiece ==
    ASSUME NEW protocol, NEW p \in Sent
    PROVE  /\ Identified(protocol, p) \in Sent
           /\ Identified(protocol, p).at = p.at /\ Identified(protocol, p).kind = p.kind
           /\ p.kind \notin Named => Identified(protocol, p) = p
           /\ p.kind \in Named => Identified(protocol, p).id =
                  IF protocol = "gemini" THEN firstNonEmpty(p.id, p.name) ELSE p.id
<1>1. p \in PieceType /\ p.id \in Id /\ p.name \in Id
  BY DEF Sent, PieceType
<1>2. firstNonEmpty(p.id, p.name) \in Id
  BY <1>1 DEF firstNonEmpty
<1>3. CASE protocol = "gemini" /\ p.kind \in Named
  <2> DEFINE id == firstNonEmpty(p.id, p.name)
             r == [p EXCEPT !.id = id]
  <2>1. Identified(protocol, p) = r
    BY <1>3 DEF Identified, Named
  <2> HIDE DEF id
  <2>2. r \in PieceType /\ r.at = p.at /\ r.kind = p.kind /\ r.id = id
    BY <1>1, <1>2 DEF PieceType, id
  <2> HIDE DEF r
  <2>3. r \in Sent
    BY <1>3, <2>2 DEF Sent
  <2> QED
    BY <1>3, <2>1, <2>2, <2>3 DEF id
<1>4. CASE ~(protocol = "gemini" /\ p.kind \in Named)
  <2>1. Identified(protocol, p) = p
    BY <1>4 DEF Identified, Named
  <2> QED
    BY <1>4, <2>1
<1> QED
  BY <1>3, <1>4

(* So is a turn.                                                               *)
LEMMA WiredTurn ==
    ASSUME NEW protocol, NEW s \in Seq(Sent)
    PROVE  /\ Wired(protocol, s) \in Seq(Sent) /\ DOMAIN Wired(protocol, s) = DOMAIN s
           /\ \A i \in DOMAIN s : Wired(protocol, s)[i] = Identified(protocol, s[i])
           /\ \A role : SaidBy(role, s) => SaidBy(role, Wired(protocol, s))
           /\ \A n : Placed(s, n) => Placed(Wired(protocol, s), n)
<1> DEFINE w == Wired(protocol, s)
<1>1. \A i \in DOMAIN s : s[i] \in Sent /\ w[i] = Identified(protocol, s[i])
  BY DEF Wired
<1>2. DOMAIN w = DOMAIN s /\ DOMAIN s = 1..Len(s) /\ Len(s) \in Nat /\ w = [i \in DOMAIN s |-> w[i]]
  BY DEF Wired
<1> HIDE DEF w
<1>3. \A i \in DOMAIN s : w[i] \in Sent /\ w[i].at = s[i].at /\ w[i].kind = s[i].kind
  BY <1>1, IdentifiedPiece
<1>4. w \in Seq(Sent)
  BY <1>2, <1>3
<1>5. ASSUME NEW role, SaidBy(role, s)
      PROVE  SaidBy(role, w)
  <2>1. \A p \in ToSet(w) : p.kind \in KindsIn(role)
    BY <1>2, <1>3, <1>5 DEF SaidBy, ToSet
  <2> QED
    BY <1>4, <1>5, <2>1 DEF SaidBy
<1>6. ASSUME NEW n, Placed(s, n)
      PROVE  Placed(w, n)
  BY <1>2, <1>3, <1>6 DEF Placed
<1> QED
  BY <1>1, <1>2, <1>4, <1>5, <1>6 DEF w

(* Of every turn come messages, images and pieces.                             *)
LEMMA TurnMakes ==
    ASSUME NEW protocol \in Wire
    PROVE  /\ Makes(MessagesOf(protocol), TalkTurn, Message)
           /\ Makes(ImagesOf(protocol), TalkTurn, PieceType)
           /\ Makes(PiecesOf, TalkTurn, Sent)
<1>1. ASSUME NEW t \in TalkTurn
      PROVE  /\ MessagesOf(protocol)[t] \in Seq(Message)
             /\ ImagesOf(protocol)[t] \in Seq(PieceType)
             /\ PiecesOf[t] \in Seq(Sent)
  <2> DEFINE s == Wired(protocol, t.pieces)
  <2>1. SaidBy(t.role, s) /\ s \in Seq(Sent) /\ t.pieces \in Seq(Sent)
    BY WiredTurn DEF TalkTurn
  <2> HIDE DEF s
  <2>2. TurnShown(protocol, t.role, s, ToChatMessages(protocol, t.role, s))
    BY <2>1, EveryTurn
  <2>3. Makes(ImageOf(protocol, t.role), Sent, PieceType)
    BY ImageOfMakes
  <2>4. Flat(ImageOf(protocol, t.role), s) \in Seq(PieceType)
    BY <2>1, <2>3, FlatConcat
  <2> QED
    BY <2>1, <2>2, <2>4 DEF TurnShown, MessagesOf, ImagesOf, PiecesOf, s
<1> QED
  BY <1>1 DEF Makes

(* What becomes of a talk, turn by turn.                                       *)
LEMMA RequestShown ==
    ASSUME NEW protocol \in Wire, NEW q \in Seq(TalkTurn)
    PROVE  LET ms == Flat(MessagesOf(protocol), q)
           IN  /\ ms \in Seq(Message)
               /\ \A own \in BOOLEAN : Flat(Show(own), ms) = Flat(LinesOf(protocol, own), q)
               /\ Flat(Images, ms) = Flat(ImagesOf(protocol), q)
<1> DEFINE g == MessagesOf(protocol)
           ms == Flat(g, q)
<1>1. Makes(g, TalkTurn, Message) /\ \A own : Makes(Show(own), Message, LineType)
  BY TurnMakes, MessagesMake
<1>2. Makes(Images, Message, PieceType)
  BY MessagesMake
<1>3. ASSUME NEW t \in TalkTurn
      PROVE  TurnShown(protocol, t.role, Wired(protocol, t.pieces), g[t])
  <2>1. SaidBy(t.role, Wired(protocol, t.pieces))
    BY WiredTurn DEF TalkTurn
  <2> QED
    BY <2>1, EveryTurn DEF MessagesOf
<1>4. \A t \in ToSet(q) : t \in TalkTurn
  BY DEF ToSet
<1> HIDE DEF g
<1>5. ms \in Seq(Message)
  BY <1>1, FlatConcat
<1>6. ASSUME NEW own \in BOOLEAN
      PROVE  Flat(Show(own), ms) = Flat(LinesOf(protocol, own), q)
  <2> DEFINE h == Show(own)
             k == [x \in TalkTurn |-> Flat(h, g[x])]
  <2>1. Makes(h, Message, LineType)
    BY <1>1
  <2>2. \A t \in ToSet(q) : k[t] = LinesOf(protocol, own)[t]
    BY <1>3, <1>4 DEF TurnShown, LinesOf
  <2> HIDE DEF h
  <2>3. Flat(h, Flat(g, q)) = Flat(k, q)
    BY <1>1, <2>1, FlatFlat
  <2> HIDE DEF k
  <2>4. Flat(k, q) = Flat(LinesOf(protocol, own), q)
    BY <2>2, FlatSame
  <2> QED
    BY <2>3, <2>4 DEF h
<1>7. Flat(Images, ms) = Flat(ImagesOf(protocol), q)
  <2> DEFINE k == [x \in TalkTurn |-> Flat(Images, g[x])]
  <2>1. \A t \in ToSet(q) : k[t] = ImagesOf(protocol)[t]
    BY <1>3, <1>4 DEF TurnShown, ImagesOf
  <2>2. Flat(Images, Flat(g, q)) = Flat(k, q)
    BY <1>1, <1>2, FlatFlat
  <2> HIDE DEF k
  <2>3. Flat(k, q) = Flat(ImagesOf(protocol), q)
    BY <2>1, FlatSame
  <2> QED
    BY <2>2, <2>3
<1> QED
  BY <1>5, <1>6, <1>7 DEF g

(* The prompt has what the system says before the rest.                        *)
LEMMA PromptRendered ==
    ASSUME NEW ms \in Seq(Message)
    PROVE  renderPrompt(ms) = Flat(Show(TRUE), ms) \o Flat(Show(FALSE), ms)
<1> DEFINE h == [m \in Message |-> MessageLines(m)]
           A == {m \in Message : m.role = "system"}
           B == {m \in Message : m.role # "system"}
           f == [m \in Message |-> IF m \in A THEN h[m] ELSE <<>>]
           g == [m \in Message |-> IF m \in B THEN h[m] ELSE <<>>]
           lines(x) == FlattenSeq([i \in DOMAIN x |-> MessageLines(x[i])])
           systems == Where(ms, LAMBDA m : m.role = "system")
           convo == Where(ms, LAMBDA m : m.role # "system")
<1>1. Makes(h, Message, LineType)
  <2>1. ASSUME NEW m \in Message
        PROVE  h[m] \in Seq(LineType)
    BY MessageShowsLines
  <2> QED
    BY <2>1 DEF Makes
<1>2. systems = Flat(Sel(Message, A), ms) /\ convo = Flat(Sel(Message, B), ms)
  <2>1. \A i \in DOMAIN ms : /\ Sel(Message, A)[ms[i]] = IF ms[i].role = "system" THEN <<ms[i]>> ELSE <<>>
                             /\ Sel(Message, B)[ms[i]] = IF ms[i].role # "system" THEN <<ms[i]>> ELSE <<>>
    BY DEF Sel
  <2> QED
    BY <2>1 DEF Where, Flat
<1>3. ASSUME NEW x \in Seq(Message)
      PROVE  lines(x) = Flat(h, x)
  <2>1. \A i \in DOMAIN x : h[x[i]] = MessageLines(x[i])
    OBVIOUS
  <2> QED
    BY <2>1 DEF Flat
<1>4. renderPrompt(ms) = lines(systems) \o lines(convo)
  BY DEF renderPrompt
<1>5. \A m \in ToSet(ms) : m \in Message
  BY DEF ToSet
<1>6. \A m \in ToSet(ms) : f[m] = Show(TRUE)[m] /\ g[m] = Show(FALSE)[m]
  BY <1>5 DEF Show
<1> HIDE DEF h, A, B, systems, convo, lines
<1>7. Flat(Sel(Message, A), ms) \in Seq(Message) /\ Flat(h, Flat(Sel(Message, A), ms)) = Flat(f, ms)
  BY <1>1, FlatOfSel
<1>8. Flat(Sel(Message, B), ms) \in Seq(Message) /\ Flat(h, Flat(Sel(Message, B), ms)) = Flat(g, ms)
  BY <1>1, FlatOfSel
<1> HIDE DEF f, g
<1>9. Flat(f, ms) = Flat(Show(TRUE), ms) /\ Flat(g, ms) = Flat(Show(FALSE), ms)
  BY <1>6, FlatSame
<1>10. lines(systems) = Flat(h, systems) /\ lines(convo) = Flat(h, convo)
  BY <1>2, <1>3, <1>7, <1>8
<1> QED
  BY <1>2, <1>4, <1>7, <1>8, <1>9, <1>10

(* What is attached is all the messages have, or nothing is.                   *)
LEMMA AllAttached ==
    ASSUME NEW ms \in Seq(Message), sdkAttachments(ms) # Refused
    PROVE  sdkAttachments(ms) = Flat(Images, ms)
<1> DEFINE declared == FlattenSeq([i \in DOMAIN ms |-> ms[i].images])
           A == Having(PieceType, {"inline"})
           converted == Only({"inline"}, declared)
<1>1. declared = Flat(Images, ms)
  <2>1. \A i \in DOMAIN ms : Images[ms[i]] = ms[i].images
    BY DEF Images
  <2> QED
    BY <2>1 DEF Flat
<1>2. declared \in Seq(PieceType)
  <2>1. Makes(Images, Message, PieceType)
    BY MessagesMake
  <2> QED
    BY <1>1, <2>1, FlatConcat
<1>3. sdkAttachments(ms) = IF Len(declared) > Len(converted) THEN Refused ELSE converted
  BY DEF sdkAttachments
<1> HIDE DEF declared
<1>4. converted = Flat(Sel(PieceType, A), declared) /\ converted \in Seq(PieceType)
  BY <1>2, SelectedPieces
<1>5. /\ Len(Flat(Sel(PieceType, A), declared)) <= Len(declared)
      /\ Len(Flat(Sel(PieceType, A), declared)) = Len(declared) => Flat(Sel(PieceType, A), declared) = declared
  BY <1>2, AllSelected
<1> HIDE DEF converted
<1>6. Len(converted) \in Nat /\ Len(declared) \in Nat
  BY <1>2, <1>4
<1>7. ~(Len(declared) > Len(converted)) /\ sdkAttachments(ms) = converted
  BY <1>3
<1> QED
  BY <1>1, <1>4, <1>5, <1>6, <1>7

(* What is shown of a talk is in order, and complete but for the images.       *)
LEMMA TalkOrdered ==
    ASSUME NEW protocol \in Wire, NEW q, WellSaid(q)
    PROVE  LET lines == Flat(LinesOf(protocol, TRUE), q) \o Flat(LinesOf(protocol, FALSE), q)
           IN  /\ InOrder(Hoisted(q), lines)
               /\ ToSet(lines) = {LineOf(Identified(protocol, p)) :
                                     p \in Lacking(ToSet(Flat(PiecesOf, q)), ImageKind)}
<1> DEFINE L(own) == LinesOf(protocol, own)
           W(t) == Wired(protocol, t.pieces)
           D(t) == Lacking(ToSet(W(t)), ImageKind)
<1>1. q \in Seq(TalkTurn) /\ \A n \in DOMAIN q : q[n] \in TalkTurn /\ n \in Nat
  BY DEF WellSaid
<1>0. \A n \in DOMAIN q : W(q[n]) \in Seq(Sent) /\ Placed(W(q[n]), n)
  BY <1>1, WiredTurn DEF WellSaid, TalkTurn
<1>2. ASSUME NEW n \in DOMAIN q, NEW own \in BOOLEAN
      PROVE  /\ L(own)[q[n]] \in Seq(LineType) /\ InOrder(Before, L(own)[q[n]])
             /\ ToSet(L(own)[q[n]]) = IF (q[n].role = "system") = own THEN {LineOf(p) : p \in D(q[n])} ELSE {}
  <2> DEFINE t == q[n]
             grouped == InGroups(protocol, t.role)
  <2>1. t \in TalkTurn /\ W(t) \in Seq(Sent) /\ n \in Nat /\ Placed(W(t), n)
    BY <1>0, <1>1
  <2>2. grouped \in BOOLEAN
    BY DEF InGroups
  <2>3. L(own)[t] = IF (t.role = "system") = own THEN TurnLines(grouped, W(t)) ELSE <<>>
    BY <2>1 DEF LinesOf
  <2> HIDE DEF grouped, t
  <2>4. /\ TurnLines(grouped, W(t)) \in Seq(LineType) /\ InOrder(Before, TurnLines(grouped, W(t)))
        /\ ToSet(TurnLines(grouped, W(t))) = {LineOf(p) : p \in D(t)}
    BY <2>1, <2>2, TurnOrdered
  <2>5. <<>> \in Seq(LineType) /\ InOrder(Before, <<>>) /\ ToSet(<<>>) = {}
    BY DEF InOrder, ToSet
  <2> HIDE DEF L
  <2>6. L(own)[t] \in Seq(LineType) /\ InOrder(Before, L(own)[t])
    BY <2>3, <2>4, <2>5
  <2>7. ToSet(L(own)[t]) = IF (t.role = "system") = own THEN {LineOf(p) : p \in D(t)} ELSE {}
    BY <2>3, <2>4, <2>5
  <2> QED
    BY <2>6, <2>7 DEF t
<1>3. ASSUME NEW n \in DOMAIN q, NEW own \in BOOLEAN, NEW x \in ToSet(L(own)[q[n]])
      PROVE  x \in LineType /\ x.at[1] = n /\ (q[n].role = "system") = own /\ \E p \in D(q[n]) : x = LineOf(p)
  <2>1. (q[n].role = "system") = own /\ \E p \in D(q[n]) : x = LineOf(p)
    <3> DEFINE s == L(own)[q[n]]
               d == D(q[n])
    <3>1. ToSet(s) = IF (q[n].role = "system") = own THEN {LineOf(p) : p \in d} ELSE {}
      BY <1>2
    <3>2. x \in ToSet(s)
      BY <1>3
    <3> HIDE DEF s, d
    <3>3. (q[n].role = "system") = own /\ \E p \in d : x = LineOf(p)
      <4>1. (q[n].role = "system") = own
        BY <3>1, <3>2
      <4>2. x \in {LineOf(p) : p \in d}
        BY <3>1, <3>2, <4>1
      <4> QED
        BY <4>1, <4>2
    <3> QED
      BY <3>3 DEF d
  <2>2. PICK p \in D(q[n]) : x = LineOf(p)
    BY <2>1
  <2>3. PICK i \in DOMAIN W(q[n]) : p = W(q[n])[i]
    BY DEF Lacking, ToSet
  <2>4. W(q[n]) \in Seq(Sent) /\ Placed(W(q[n]), n)
    BY <1>0
  <2>5. p \in Sent /\ p.at = <<n, i>>
    BY <2>3, <2>4 DEF Placed
  <2>6. x \in LineType /\ x.at = p.at
    <3>1. p \in PieceType /\ p.id \in Id
      BY <2>5 DEF Sent, PieceType
    <3> QED
      BY <2>2, <3>1, LineIsTyped DEF LineOf, Line
  <2> QED
    BY <2>1, <2>5, <2>6
<1>4. \A t \in ToSet(q) : \E n \in DOMAIN q : t = q[n]
  BY DEF ToSet
<1>5. ASSUME NEW own \in BOOLEAN
      PROVE  Makes(L(own), ToSet(q), LineType)
  BY <1>2, <1>4 DEF Makes
<1>6. q \in Seq(ToSet(q))
  BY <1>1 DEF ToSet
<1>7. ASSUME NEW m \in DOMAIN q, NEW n \in DOMAIN q, m < n, NEW o \in BOOLEAN, NEW p \in BOOLEAN,
             NEW x \in ToSet(L(o)[q[m]]), NEW y \in ToSet(L(p)[q[n]])
      PROVE  <<x, y>> \in Before
  <2>1. x \in LineType /\ y \in LineType /\ x.at[1] = m /\ y.at[1] = n
    BY <1>3
  <2>2. m \in Nat /\ n \in Nat
    BY <1>1
  <2> QED
    BY <1>7, <2>1, <2>2 DEF Before
<1> HIDE DEF L
<1>8. ASSUME NEW own \in BOOLEAN
      PROVE  /\ Flat(L(own), q) \in Seq(LineType) /\ InOrder(Before, Flat(L(own), q))
             /\ ToSet(Flat(L(own), q)) = UNION {ToSet(L(own)[t]) : t \in ToSet(q)}
  <2> DEFINE g == L(own)
  <2>1. Makes(g, ToSet(q), LineType)
    BY <1>5
  <2>2. \A t \in ToSet(q) : InOrder(Before, g[t])
    BY <1>2, <1>4
  <2>3. \A m, n \in DOMAIN q : m < n => \A x \in ToSet(g[q[m]]), y \in ToSet(g[q[n]]) : <<x, y>> \in Before
    BY <1>7
  <2> HIDE DEF g
  <2>4. Flat(g, q) \in Seq(LineType)
    BY <1>6, <2>1, FlatConcat
  <2>5. InOrder(Before, Flat(g, q))
    BY <1>6, <2>1, <2>2, <2>3, OrderOfFlat
  <2>6. ToSet(Flat(g, q)) = UNION {ToSet(g[t]) : t \in ToSet(q)}
    BY <1>6, <2>1, SetOfFlat
  <2> QED
    BY <2>4, <2>5, <2>6 DEF g
<1> DEFINE a == Flat(L(TRUE), q)
           b == Flat(L(FALSE), q)
<1>9. /\ a \in Seq(LineType) /\ InOrder(Before, a) /\ ToSet(a) = UNION {ToSet(L(TRUE)[t]) : t \in ToSet(q)}
      /\ b \in Seq(LineType) /\ InOrder(Before, b) /\ ToSet(b) = UNION {ToSet(L(FALSE)[t]) : t \in ToSet(q)}
  BY <1>8
<1> HIDE DEF a, b
<1>10. /\ \A x \in ToSet(a) : \E n \in DOMAIN q : x \in ToSet(L(TRUE)[q[n]])
       /\ \A x \in ToSet(b) : \E n \in DOMAIN q : x \in ToSet(L(FALSE)[q[n]])
  <2>1. ASSUME NEW own \in BOOLEAN, NEW x \in UNION {ToSet(L(own)[t]) : t \in ToSet(q)}
        PROVE  \E n \in DOMAIN q : x \in ToSet(L(own)[q[n]])
    <3>1. PICK t \in ToSet(q) : x \in ToSet(L(own)[t])
      OBVIOUS
    <3>2. PICK n \in DOMAIN q : t = q[n]
      BY <1>4
    <3> QED
      BY <3>1, <3>2
  <2> QED
    BY <1>9, <2>1
<1>h. ASSUME NEW own \in BOOLEAN, NEW s \in Seq(LineType), InOrder(Before, s),
             \A x \in ToSet(s) : \E n \in DOMAIN q : x \in ToSet(L(own)[q[n]])
      PROVE  InOrder(Hoisted(q), s)
  <2> SUFFICES ASSUME NEW i \in DOMAIN s, NEW j \in DOMAIN s, i < j
               PROVE  <<s[i], s[j]>> \in Hoisted(q)
    BY DEF InOrder
  <2> DEFINE x == s[i]
             y == s[j]
  <2>1. x \in ToSet(s) /\ y \in ToSet(s)
    BY DEF ToSet
  <2>2. PICK m \in DOMAIN q : x \in ToSet(L(own)[q[m]])
    BY <1>h, <2>1
  <2>3. PICK n \in DOMAIN q : y \in ToSet(L(own)[q[n]])
    BY <1>h, <2>1
  <2>4. <<x, y>> \in Before
    BY <1>h DEF InOrder
  <2> HIDE DEF x, y
  <2>5. x.at[1] = m /\ (q[m].role = "system") = own /\ y.at[1] = n /\ (q[n].role = "system") = own
    BY <1>3, <2>2, <2>3
  <2>6. m \in Systems(q) <=> n \in Systems(q)
    BY <2>5 DEF Systems
  <2> QED
    BY <2>4, <2>5, <2>6 DEF Before, Hoisted, x, y
<1>11. ASSUME NEW x \in ToSet(a), NEW y \in ToSet(b)
       PROVE  <<x, y>> \in Hoisted(q)
  <2>1. PICK m \in DOMAIN q : x \in ToSet(L(TRUE)[q[m]])
    BY <1>11, <1>10
  <2>2. PICK n \in DOMAIN q : y \in ToSet(L(FALSE)[q[n]])
    BY <1>11, <1>10
  <2>3. q[m].role = "system" /\ q[n].role # "system" /\ x.at[1] = m /\ y.at[1] = n /\ x \in LineType /\ y \in LineType
    BY <1>3, <2>1, <2>2
  <2>4. m \in Systems(q) /\ n \notin Systems(q)
    BY <2>3 DEF Systems
  <2>5. x.at # y.at /\ x.at[1] # y.at[1]
    BY <2>3, <2>4
  <2> QED
    BY <2>3, <2>4, <2>5 DEF Hoisted
<1>12. InOrder(Hoisted(q), a \o b) /\ ToSet(a \o b) = ToSet(a) \cup ToSet(b)
  <2>1. InOrder(Hoisted(q), a) /\ InOrder(Hoisted(q), b)
    BY <1>9, <1>10, <1>h
  <2>2. InOrder(Hoisted(q), a \o b)
    BY <1>9, <1>11, <2>1, OrderOfConcat
  <2>3. ToSet(a \o b) = ToSet(a) \cup ToSet(b)
    <3>1. a \in Seq(LineType) /\ b \in Seq(LineType)
      BY <1>9
    <3> QED
      BY ONLY <3>1, SetOfConcat
  <2> QED
    BY <2>2, <2>3
<1>13. ToSet(Flat(PiecesOf, q)) = UNION {ToSet(t.pieces) : t \in ToSet(q)}
  <2>1. Makes(PiecesOf, TalkTurn, Sent)
    BY TurnMakes
  <2>2. ToSet(Flat(PiecesOf, q)) = UNION {ToSet(PiecesOf[t]) : t \in ToSet(q)}
    BY <1>1, <2>1, SetOfFlat
  <2>3. \A t \in ToSet(q) : PiecesOf[t] = t.pieces
    BY <1>1, <1>4 DEF PiecesOf
  <2> QED
    BY <2>2, <2>3
<1>14. ASSUME NEW n \in DOMAIN q
       PROVE  /\ \A p \in D(q[n]) : \E r \in Lacking(ToSet(q[n].pieces), ImageKind) : p = Identified(protocol, r)
              /\ \A r \in Lacking(ToSet(q[n].pieces), ImageKind) : Identified(protocol, r) \in D(q[n])
  <2> DEFINE s == q[n].pieces
             w == W(q[n])
  <2>1. s \in Seq(Sent) /\ DOMAIN w = DOMAIN s /\ \A i \in DOMAIN s : w[i] = Identified(protocol, s[i])
    BY <1>1, WiredTurn DEF TalkTurn
  <2> HIDE DEF s, w
  <2>2. \A i \in DOMAIN s : w[i].kind = s[i].kind
    BY <2>1, IdentifiedPiece
  <2> QED
    BY <2>1, <2>2 DEF Lacking, ToSet, s, w
<1>15. ToSet(a \o b) = {LineOf(Identified(protocol, p)) : p \in Lacking(ToSet(Flat(PiecesOf, q)), ImageKind)}
  <2>1. ASSUME NEW x \in ToSet(a \o b)
        PROVE  \E p \in Lacking(ToSet(Flat(PiecesOf, q)), ImageKind) : x = LineOf(Identified(protocol, p))
    <3>1. PICK n \in DOMAIN q, own \in BOOLEAN : x \in ToSet(L(own)[q[n]])
      <4>1. CASE x \in ToSet(a)
        BY <4>1, <1>10
      <4>2. CASE x \in ToSet(b)
        BY <4>2, <1>10
      <4> QED
        BY <1>12, <4>1, <4>2
    <3>2. PICK p \in D(q[n]) : x = LineOf(p)
      BY <1>3, <3>1
    <3>3. PICK r \in Lacking(ToSet(q[n].pieces), ImageKind) : p = Identified(protocol, r)
      BY <1>14
    <3>4. q[n] \in ToSet(q)
      BY DEF ToSet
    <3>5. r \in Lacking(ToSet(Flat(PiecesOf, q)), ImageKind)
      BY <1>13, <3>3, <3>4 DEF Lacking
    <3> QED
      BY <3>2, <3>3, <3>5
  <2>2. ASSUME NEW r \in Lacking(ToSet(Flat(PiecesOf, q)), ImageKind)
        PROVE  LineOf(Identified(protocol, r)) \in ToSet(a \o b)
    <3>1. PICK t \in ToSet(q) : r \in ToSet(t.pieces) /\ r.kind \notin ImageKind
      BY <1>13 DEF Lacking
    <3>2. PICK n \in DOMAIN q : t = q[n]
      BY <1>4
    <3> DEFINE p == Identified(protocol, r)
    <3>3. p \in D(q[n])
      <4>1. r \in Lacking(ToSet(q[n].pieces), ImageKind)
        BY <3>1, <3>2 DEF Lacking
      <4> QED
        BY <1>14, <4>1
    <3> HIDE DEF p
    <3> DEFINE own == q[n].role = "system"
    <3>4. own \in BOOLEAN /\ ToSet(L(own)[q[n]]) = {LineOf(o) : o \in D(q[n])}
      BY <1>2
    <3>5. LineOf(p) \in ToSet(L(own)[t])
      BY <3>2, <3>3, <3>4
    <3> HIDE DEF own
    <3>6. CASE own = TRUE
      BY <1>9, <1>12, <3>5, <3>6 DEF p
    <3>7. CASE own = FALSE
      BY <1>9, <1>12, <3>5, <3>7 DEF p
    <3> QED
      BY <3>4, <3>6, <3>7
  <2> QED
    BY <2>1, <2>2
<1> QED
  BY <1>12, <1>15 DEF a, b, L

-----------------------------------------------------------------------------
(* The images of a talk. *)

(* The images whose piece of the talk is no result, and the pieces that are    *)
(* images the protocol forwards.                                               *)
PlainAt(q) == {p \in PieceType : q[p.at[1]].pieces[p.at[2]].kind # "shot"}
OwnIn(protocol, q) ==
    {p \in Sent : p.kind \in ImageKind /\ (protocol = "gemini" => p.kind # "remote" /\ q[p.at[1]].role = "user")}

(* A piece that is an image is forwarded as it is, no other is a plain image.  *)
LEMMA ImageOfPiece ==
    ASSUME NEW protocol \in Wire, NEW q, NEW o \in Sent, NEW t, q[o.at[1]] = t, t.pieces[o.at[2]] = o
    PROVE  Flat(Sel(PieceType, PlainAt(q)), ImageOf(protocol, t.role)[Identified(protocol, o)]) = Sel(Sent, OwnIn(protocol, q))[o]
<1> DEFINE p == Identified(protocol, o)
           A == PlainAt(q)
           g == Sel(PieceType, A)
           r == [p EXCEPT !.kind = "inline"]
           sent == ImageOf(protocol, t.role)[p]
           own == Sel(Sent, OwnIn(protocol, q))[o]
<1>0. p \in Sent /\ p.at = o.at /\ p.kind = o.kind /\ (p.kind \in ImageKind => p = o)
  <2>1. \A k \in ImageKind : k \notin Named
    BY DEF ImageKind, Named, ResultKind
  <2> QED
    BY <2>1, IdentifiedPiece
<1> HIDE DEF p
<1>1. p \in PieceType /\ r \in PieceType /\ r.at = p.at
  BY <1>0 DEF Sent, PieceType, Kind, ImageKind
<1>2. r \in A <=> p.kind # "shot"
  BY <1>0, <1>1 DEF PlainAt
<1>3. p \in A <=> p.kind # "shot"
  BY <1>0, <1>1 DEF PlainAt
<1>4. Makes(g, PieceType, PieceType) /\ g[p] = (IF p \in A THEN <<p>> ELSE <<>>) /\ g[r] = (IF r \in A THEN <<r>> ELSE <<>>)
  BY <1>1 DEF Makes, Sel
<1>5. own = IF p.kind \in ImageKind /\ (protocol = "gemini" => p.kind # "remote" /\ t.role = "user")
            THEN <<p>> ELSE <<>>
  BY <1>0 DEF Sel, OwnIn
<1>6. sent = IF p.kind = "shot" THEN IF protocol = "chat" THEN <<r>> ELSE <<>>
             ELSE IF p.kind \in ImageKind /\ (protocol = "gemini" => p.kind # "remote" /\ t.role = "user")
                  THEN <<p>> ELSE <<>>
  BY <1>0 DEF ImageOf
<1>7. "shot" \notin ImageKind
  BY DEF ImageKind
<1> HIDE DEF A, g, r, sent, own
<1>8. Flat(g, <<>>) = <<>> /\ Flat(g, <<p>>) = g[p] /\ Flat(g, <<r>>) = g[r]
  BY <1>1, <1>4, FlatOne
<1>9. CASE p.kind = "shot"
  <2>1. own = <<>> /\ g[r] = <<>> /\ (sent = <<r>> \/ sent = <<>>)
    BY <1>2, <1>4, <1>5, <1>6, <1>7, <1>9
  <2>2. Flat(g, sent) = own
    BY <2>1, <1>8
  <2> QED
    BY <2>2 DEF g, A, sent, own, p
<1>10. CASE p.kind # "shot"
  <2>1. g[p] = <<p>> /\ sent = own /\ (sent = <<p>> \/ sent = <<>>)
    BY <1>3, <1>4, <1>5, <1>6, <1>10
  <2>2. Flat(g, sent) = own
    BY <2>1, <1>8
  <2> QED
    BY <2>2 DEF g, A, sent, own, p
<1> QED
  BY <1>9, <1>10

(* What is forwarded of a talk, but for the images of results, is the images   *)
(* that are pieces of it.                                                      *)
LEMMA OwnImages ==
    ASSUME NEW protocol \in Wire, NEW q, WellSaid(q)
    PROVE  Flat(Sel(PieceType, PlainAt(q)), Flat(ImagesOf(protocol), q))
               = Flat(Sel(Sent, OwnIn(protocol, q)), Flat(PiecesOf, q))
<1> DEFINE g == Sel(PieceType, PlainAt(q))
           h == Sel(Sent, OwnIn(protocol, q))
           k == [t \in TalkTurn |-> Flat(g, ImagesOf(protocol)[t])]
           l == [t \in TalkTurn |-> Flat(h, PiecesOf[t])]
<1>1. q \in Seq(TalkTurn) /\ \A n \in DOMAIN q : q[n] \in TalkTurn /\ Placed(q[n].pieces, n)
  BY DEF WellSaid
<1>2. Makes(g, PieceType, PieceType) /\ Makes(h, Sent, Sent)
  BY DEF Makes, Sel
<1>3. Makes(ImagesOf(protocol), TalkTurn, PieceType) /\ Makes(PiecesOf, TalkTurn, Sent)
  BY TurnMakes
<1>4. ASSUME NEW t \in ToSet(q)
      PROVE  k[t] = l[t]
  <2>1. PICK n \in DOMAIN q : t = q[n]
    BY DEF ToSet
  <2>2. t \in TalkTurn /\ t.pieces \in Seq(Sent) /\ Placed(t.pieces, n)
    BY <1>1, <2>1 DEF TalkTurn
  <2> DEFINE f == ImageOf(protocol, t.role)
             j == [p \in Sent |-> Flat(g, f[p])]
             s == t.pieces
             w == Wired(protocol, s)
  <2>3. k[t] = Flat(g, Flat(f, w)) /\ l[t] = Flat(h, s)
    BY <2>2 DEF ImagesOf, PiecesOf
  <2>w. w \in Seq(Sent) /\ DOMAIN w = DOMAIN s /\ \A i \in DOMAIN s : w[i] = Identified(protocol, s[i])
    BY <2>2, WiredTurn
  <2>4. ASSUME NEW i \in DOMAIN s
        PROVE  j[w[i]] = h[s[i]]
    <3> DEFINE o == s[i]
    <3>1. o \in Sent /\ o.at = <<n, i>> /\ w[i] \in Sent /\ w[i] = Identified(protocol, o)
      BY <2>2, <2>w DEF Placed
    <3>2. q[o.at[1]] = t /\ t.pieces[o.at[2]] = o
      BY <2>1, <3>1
    <3> HIDE DEF o
    <3>3. Flat(g, f[Identified(protocol, o)]) = h[o]
      BY <3>1, <3>2, ImageOfPiece
    <3> QED
      BY <3>1, <3>3 DEF o
  <2>5. Makes(f, Sent, PieceType)
    BY ImageOfMakes
  <2> HIDE DEF g, h, k, l, f, w, s
  <2>6. Flat(g, Flat(f, w)) = Flat(j, w)
    BY <1>2, <2>w, <2>5, FlatFlat
  <2> HIDE DEF j
  <2>7. Flat(j, w) = Flat(h, s)
    BY <2>w, <2>4 DEF Flat
  <2> QED
    BY <2>3, <2>6, <2>7
<1> HIDE DEF g, h
<1>5. Flat(g, Flat(ImagesOf(protocol), q)) = Flat(k, q)
  BY <1>1, <1>2, <1>3, FlatFlat
<1>6. Flat(h, Flat(PiecesOf, q)) = Flat(l, q)
  BY <1>1, <1>2, <1>3, FlatFlat
<1> HIDE DEF k, l
<1>7. Flat(k, q) = Flat(l, q)
  BY <1>4, FlatSame
<1> QED
  BY <1>5, <1>6, <1>7 DEF g, h

-----------------------------------------------------------------------------
(* What holds of every state: the talk is well said, and once it is sent with  *)
(* success the model is shown what its messages make.                          *)
TalkInv ==
    /\ WellSaid(talk)
    /\ wire # Nobody =>
          /\ wire \in Wire
          /\ wire # "gemini" => HasIds
          /\ attached # Refused =>
                LET messages == Flat(MessagesOf(wire), talk)
                IN  prompt = renderPrompt(messages) /\ attached = sdkAttachments(messages)

(* The messages and the pieces of a talk, turn by turn.                        *)
LEMMA RequestIsFlat ==
    ASSUME WellSaid(talk)
    PROVE  /\ \A protocol : ToChatRequest(protocol) = Flat(MessagesOf(protocol), talk)
           /\ Pieces = Flat(PiecesOf, talk)
<1>1. \A n \in DOMAIN talk : talk[n] \in TalkTurn
  BY DEF WellSaid
<1>2. ASSUME NEW protocol
      PROVE  ToChatRequest(protocol) = Flat(MessagesOf(protocol), talk)
  <2>1. \A n \in DOMAIN talk :
          MessagesOf(protocol)[talk[n]] = ToChatMessages(protocol, talk[n].role, Wired(protocol, talk[n].pieces))
    BY <1>1 DEF MessagesOf
  <2> QED
    BY <2>1 DEF ToChatRequest, Flat, Wired
<1>3. \A n \in DOMAIN talk : PiecesOf[talk[n]] = talk[n].pieces
  BY <1>1 DEF PiecesOf
<1> QED
  BY <1>2, <1>3 DEF Pieces, Flat

(* The pieces of a talk are those of its turns.                                *)
LEMMA PieceOfTalk ==
    ASSUME WellSaid(talk)
    PROVE  /\ Pieces \in Seq(Sent)
           /\ \A p \in ToSet(Pieces) :
                 /\ p \in Sent
                 /\ \E n \in DOMAIN talk : \E i \in DOMAIN talk[n].pieces :
                       p = talk[n].pieces[i] /\ p.at = <<n, i>>
<1>1. talk \in Seq(TalkTurn) /\ \A n \in DOMAIN talk : talk[n] \in TalkTurn /\ Placed(talk[n].pieces, n)
  BY DEF WellSaid
<1>2. Pieces = Flat(PiecesOf, talk) /\ Makes(PiecesOf, TalkTurn, Sent)
  <2>1. "chat" \in Wire
    BY DEF Wire
  <2> QED
    BY <2>1, RequestIsFlat, TurnMakes
<1>3. Pieces \in Seq(Sent)
  BY <1>1, <1>2, FlatConcat
<1>4. ToSet(Flat(PiecesOf, talk)) = UNION {ToSet(PiecesOf[t]) : t \in ToSet(talk)}
  BY <1>1, <1>2, SetOfFlat
<1>5. ASSUME NEW p \in ToSet(Pieces)
      PROVE  \E n \in DOMAIN talk : \E i \in DOMAIN talk[n].pieces :
                p = talk[n].pieces[i] /\ p.at = <<n, i>>
  <2>1. PICK t \in ToSet(talk) : p \in ToSet(PiecesOf[t])
    BY <1>2, <1>4, <1>5
  <2>2. PICK n \in DOMAIN talk : t = talk[n]
    BY DEF ToSet
  <2>3. PiecesOf[t] = t.pieces
    BY <1>1, <2>2 DEF PiecesOf
  <2>4. PICK i \in DOMAIN talk[n].pieces : p = talk[n].pieces[i]
    BY <2>1, <2>2, <2>3 DEF ToSet
  <2>5. talk[n].pieces[i].at = <<n, i>>
    BY <1>1 DEF Placed
  <2> QED
    BY <2>4, <2>5
<1>6. \A p \in ToSet(Pieces) : p \in Sent
  BY <1>3 DEF ToSet
<1> QED
  BY <1>3, <1>5, <1>6

(* A turn begins with nothing said.                                            *)
LEMMA TurnBegun ==
    ASSUME TalkInv, NEW role \in Speaker, AddTurn(role)
    PROVE  WellSaid(talk')
<1> DEFINE t == [role |-> role, pieces |-> <<>>]
<1>1. talk' = Append(talk, t)
  BY DEF AddTurn
<1>2. talk \in Seq(TalkTurn)
      /\ \A n \in DOMAIN talk :
            /\ Placed(talk[n].pieces, n)
            /\ \A i \in DOMAIN talk[n].pieces :
                  talk[n].pieces[i].kind \in ResultKind => AnswersCall(talk, talk[n].pieces[i])
  BY DEF TalkInv, WellSaid
<1>3. t \in TalkTurn
  <2>1. t \in [role : Speaker, pieces : Seq(Sent)]
    OBVIOUS
  <2>2. SaidBy(role, <<>>)
    BY DEF SaidBy, ToSet
  <2> QED
    BY <2>1, <2>2 DEF TalkTurn
<1>4. Placed(t.pieces, Len(talk) + 1) /\ DOMAIN t.pieces = {}
  BY DEF Placed
<1> HIDE DEF t
<1>5. talk' \in Seq(TalkTurn)
  BY <1>1, <1>2, <1>3
<1>6. \A n \in DOMAIN talk : n \in DOMAIN talk' /\ talk'[n] = talk[n]
  BY <1>1, <1>2, <1>3
<1>7. \A p : AnswersCall(talk, p) => AnswersCall(talk', p)
  BY <1>6 DEF AnswersCall
<1>8. ASSUME NEW n \in DOMAIN talk'
      PROVE  /\ Placed(talk'[n].pieces, n)
             /\ \A i \in DOMAIN talk'[n].pieces :
                   talk'[n].pieces[i].kind \in ResultKind => AnswersCall(talk', talk'[n].pieces[i])
  <2>1. CASE n \in DOMAIN talk
    BY <1>2, <1>6, <1>7, <2>1
  <2>2. CASE n \notin DOMAIN talk
    <3>1. n = Len(talk) + 1 /\ talk'[n] = t
      BY <1>1, <1>2, <1>3, <2>2
    <3> QED
      BY <1>4, <3>1
  <2> QED
    BY <2>1, <2>2
<1> QED
  BY <1>5, <1>8 DEF WellSaid

(* A turn with one more piece.                                                 *)
LEMMA PieceAppended ==
    ASSUME NEW t \in [role : Speaker, pieces : Seq(Sent)], NEW p \in Sent
    PROVE  LET u == [t EXCEPT !.pieces = Append(@, p)]
           IN  /\ u \in [role : Speaker, pieces : Seq(Sent)]
               /\ u.role = t.role /\ u.pieces = Append(t.pieces, p)
               /\ ToSet(u.pieces) = ToSet(t.pieces) \cup {p}
<1> DEFINE s == t.pieces
           q == Append(s, p)
           u == [t EXCEPT !.pieces = q]
<1>1. s \in Seq(Sent) /\ q \in Seq(Sent)
  OBVIOUS
<1>2. u.role = t.role /\ u.pieces = q /\ u \in [role : Speaker, pieces : Seq(Sent)]
  <2> HIDE DEF q
  <2> QED
    BY <1>1
<1>3. ToSet(q) = ToSet(s) \cup {p}
  <2> HIDE DEF s
  <2>1. Len(q) = Len(s) + 1 /\ q[Len(s) + 1] = p /\ \A i \in 1..Len(s) : q[i] = s[i]
    BY <1>1
  <2>2. DOMAIN q = 1..(Len(s) + 1) /\ DOMAIN s = 1..Len(s) /\ Len(s) \in Nat
    BY <1>1, <2>1
  <2> HIDE DEF q
  <2> QED
    BY <2>1, <2>2 DEF ToSet
<1> QED
  BY <1>2, <1>3

(* A piece that may be added is one, and a result answers a call.              *)
LEMMA NewPiece ==
    ASSUME WellSaid(talk), NEW kind \in Kind, NEW at \in Nat \X Nat, NEW p \in NewPieces(kind, at)
    PROVE  /\ p \in Sent /\ p.at = at /\ p.kind = kind
           /\ kind \in ResultKind => AnswersCall(talk, p)
<1>1. CASE kind \in ResultKind
  <2>1. PICK c \in OpenCalls : p = [at |-> at, kind |-> kind, of |-> c.at, id |-> c.id, name |-> c.name]
    <3>1. kind # "call"
      BY <1>1 DEF ResultKind
    <3>2. NewPieces(kind, at) = {[at |-> at, kind |-> kind, of |-> c.at, id |-> c.id, name |-> c.name] : c \in OpenCalls}
      BY <1>1, <3>1 DEF NewPieces
    <3> QED
      BY <3>2
  <2>2. c \in ToSet(Pieces)
    <3>1. Pieces \in Seq(Sent) /\ c \in ToSet(Only({"call"}, Pieces))
      BY PieceOfTalk DEF OpenCalls
    <3> QED
      BY <3>1, SelectedSet DEF Having
  <2>3. PICK n \in DOMAIN talk : \E i \in DOMAIN talk[n].pieces : c = talk[n].pieces[i] /\ c.at = <<n, i>>
    BY <2>2, PieceOfTalk
  <2>4. PICK i \in DOMAIN talk[n].pieces : c = talk[n].pieces[i] /\ c.at = <<n, i>>
    BY <2>3
  <2>5. c \in PieceType
    BY <2>2, PieceOfTalk DEF Sent
  <2>6. c.at \in Id /\ c.id \in Id /\ c.name \in Id
    BY <2>5 DEF PieceType, Id
  <2>7. p \in PieceType /\ p.kind = kind /\ p.at = at /\ p.of = <<n, i>> /\ p.id = c.id /\ p.name = c.name
    BY <2>1, <2>4, <2>6 DEF PieceType
  <2>8. p \in Sent
    BY <1>1, <2>7 DEF Sent, Named
  <2>9. AnswersCall(talk, p)
    <3>1. p.of[1] = n /\ p.of[2] = i
      BY <2>7
    <3> QED
      BY <2>4, <2>7, <3>1 DEF AnswersCall
  <2> QED
    BY <2>7, <2>8, <2>9
<1>2. CASE kind = "call"
  <2>1. p \in [at : {at}, kind : {kind}, of : {Nobody}, id : {at, Nobody}, name : ToolName]
    BY <1>2 DEF NewPieces, ResultKind
  <2>2. {at, Nobody} \subseteq Id /\ ToolName \subseteq Id
    BY DEF Id
  <2>3. p \in PieceType /\ p.at = at /\ p.kind = kind
    BY <2>1, <2>2 DEF PieceType
  <2> QED
    BY <1>2, <2>3 DEF Sent, Named, ResultKind
<1>3. CASE kind \notin ResultKind /\ kind # "call"
  <2>1. p = [at |-> at, kind |-> kind, of |-> Nobody, id |-> Nobody, name |-> Nobody]
    BY <1>3 DEF NewPieces
  <2>2. Nobody \in Id
    BY DEF Id
  <2> QED
    BY <1>3, <2>1, <2>2 DEF Sent, PieceType, Named
<1> QED
  BY <1>1, <1>2, <1>3

(* A piece is placed after those of its turn.                                  *)
LEMMA PieceAdded ==
    ASSUME TalkInv, NEW kind \in Kind, AddPiece(kind)
    PROVE  WellSaid(talk')
<1> DEFINE m == Len(talk)
           t == talk[m]
           at == <<m, Len(t.pieces) + 1>>
<1>1. /\ WellSaid(talk) /\ talk \in Seq(TalkTurn)
      /\ \A n \in DOMAIN talk :
            /\ Placed(talk[n].pieces, n)
            /\ \A i \in DOMAIN talk[n].pieces :
                  talk[n].pieces[i].kind \in ResultKind => AnswersCall(talk, talk[n].pieces[i])
  BY DEF TalkInv, WellSaid
<1>2. Last(talk) = t /\ talk # <<>> /\ MayAdd(kind)
  BY DEF AddPiece, Last
<1>3. m \in DOMAIN talk /\ m \in Nat /\ t \in TalkTurn
  BY <1>1, <1>2
<1>4. t.role \in Speaker /\ t.pieces \in Seq(Sent) /\ SaidBy(t.role, t.pieces)
      /\ t \in [role : Speaker, pieces : Seq(Sent)]
  BY <1>3 DEF TalkTurn
<1>5. PICK p \in NewPieces(kind, at) : talk' = [talk EXCEPT ![m].pieces = Append(@, p)]
  BY <1>2 DEF AddPiece
<1> DEFINE u == [t EXCEPT !.pieces = Append(@, p)]
<1>6. talk' = [talk EXCEPT ![m] = u]
  BY <1>3, <1>5
<1>7. at \in Nat \X Nat
  BY <1>3, <1>4
<1>8. p \in Sent /\ p.at = at /\ p.kind = kind /\ (kind \in ResultKind => AnswersCall(talk, p))
  <2> HIDE DEF at
  <2> QED
    BY <1>1, <1>5, <1>7, NewPiece
<1>9. kind \in KindsIn(t.role)
  BY <1>2, <1>4 DEF MayAdd, KindsIn, Speaker, ImageKind
<1>10. /\ u.role = t.role /\ u.pieces = Append(t.pieces, p) /\ u \in [role : Speaker, pieces : Seq(Sent)]
       /\ ToSet(u.pieces) = ToSet(t.pieces) \cup {p}
  <2> HIDE DEF t
  <2> QED
    BY <1>4, <1>8, PieceAppended
<1>11. u \in TalkTurn
  <2>1. \A r \in ToSet(u.pieces) : r.kind \in KindsIn(u.role)
    BY <1>4, <1>8, <1>9, <1>10 DEF SaidBy
  <2>2. SaidBy(u.role, u.pieces)
    BY <1>10, <2>1 DEF SaidBy
  <2> QED
    BY <1>10, <2>2 DEF TalkTurn
<1>12. /\ \A i \in DOMAIN t.pieces : i \in DOMAIN u.pieces /\ u.pieces[i] = t.pieces[i]
       /\ \A i \in DOMAIN u.pieces : i \in DOMAIN t.pieces \/ (i = Len(t.pieces) + 1 /\ u.pieces[i] = p)
  <2> DEFINE s == t.pieces
             w == u.pieces
  <2>1. s \in Seq(Sent) /\ w = Append(s, p)
    BY <1>4, <1>10
  <2> HIDE DEF s, w
  <2> QED
    BY <1>8, <2>1 DEF s, w
<1> HIDE DEF u
<1>13. talk' \in Seq(TalkTurn) /\ DOMAIN talk' = DOMAIN talk /\ talk'[m] = u
       /\ \A n \in DOMAIN talk : n # m => talk'[n] = talk[n]
  BY <1>1, <1>3, <1>6, <1>11
<1>14. \A r : AnswersCall(talk, r) => AnswersCall(talk', r)
  <2> TAKE r
  <2> HAVE AnswersCall(talk, r)
  <2> DEFINE n == r.of[1]
             i == r.of[2]
  <2>1. n \in DOMAIN talk /\ i \in DOMAIN talk[n].pieces /\ talk[n].pieces[i].id = r.id /\ talk[n].pieces[i].name = r.name
    BY DEF AnswersCall
  <2> HIDE DEF n, i
  <2>2. n \in DOMAIN talk' /\ i \in DOMAIN talk'[n].pieces /\ talk'[n].pieces[i] = talk[n].pieces[i]
    BY <1>12, <1>13, <2>1
  <2> QED
    BY <2>1, <2>2 DEF AnswersCall, n, i
<1>15. \A i \in DOMAIN u.pieces : u.pieces[i].at = <<m, i>> /\ (u.pieces[i].kind \in ResultKind => AnswersCall(talk', u.pieces[i]))
  <2> TAKE i \in DOMAIN u.pieces
  <2>1. CASE i \in DOMAIN t.pieces
    <3>1. u.pieces[i] = t.pieces[i] /\ t.pieces[i].at = <<m, i>>
          /\ (t.pieces[i].kind \in ResultKind => AnswersCall(talk, t.pieces[i]))
      BY <1>1, <1>3, <1>12, <2>1 DEF Placed
    <3> QED
      BY <1>14, <3>1
  <2>2. CASE i \notin DOMAIN t.pieces
    <3>1. i = Len(t.pieces) + 1 /\ u.pieces[i] = p
      BY <1>12, <2>2
    <3> QED
      BY <1>8, <1>14, <3>1
  <2> QED
    BY <2>1, <2>2
<1>16. ASSUME NEW n \in DOMAIN talk'
       PROVE  /\ Placed(talk'[n].pieces, n)
              /\ \A i \in DOMAIN talk'[n].pieces :
                    talk'[n].pieces[i].kind \in ResultKind => AnswersCall(talk', talk'[n].pieces[i])
  <2>1. CASE n = m
    <3> HIDE DEF m
    <3> QED
      BY <1>13, <1>15, <2>1 DEF Placed
  <2>2. CASE n # m
    BY <1>1, <1>13, <1>14, <2>2
  <2> QED
    BY <2>1, <2>2
<1> QED
  BY <1>13, <1>16 DEF WellSaid

(* Sending shows what the messages make.                                       *)
LEMMA TalkSent ==
    ASSUME TalkInv, NEW protocol \in Wire, Send(protocol)
    PROVE  TalkInv'
<1> DEFINE messages == Flat(MessagesOf(protocol), talk)
<1>1. WellSaid(talk) /\ talk' = talk /\ wire' = protocol /\ (protocol # "gemini" => HasIds)
  BY DEF TalkInv, Send
<1>2. ToChatRequest(protocol) = messages
  BY <1>1, RequestIsFlat
<1>3. attached' # Refused => prompt' = renderPrompt(messages) /\ attached' = sdkAttachments(messages)
  BY <1>2 DEF Send
<1>4. HasIds => HasIds'
  BY <1>1 DEF HasIds, Pieces
<1>5. WellSaid(talk')
  BY <1>1
<1> QED
  BY <1>1, <1>3, <1>4, <1>5 DEF TalkInv

(* A piece of a talk that was sent goes by the id it is shown under.           *)
LEMMA ShownUnderItsId ==
    ASSUME TalkInv, wire # Nobody, NEW p \in ToSet(Pieces)
    PROVE  LineOf(Identified(wire, p)) = Line(p, ShownId(p))
<1> DEFINE id == firstNonEmpty(p.id, p.name)
           w == Identified(wire, p)
<1>1. WellSaid(talk) /\ p \in Sent /\ Pieces \in Seq(Sent)
  BY PieceOfTalk DEF TalkInv
<1>2. /\ w.at = p.at /\ w.kind = p.kind
      /\ p.kind \notin Named => w = p
      /\ p.kind \in Named => w.id = IF wire = "gemini" THEN id ELSE p.id
  BY <1>1, IdentifiedPiece
<1>3. ShownId(p) = id
  <2>1. CASE p.kind \in ResultKind
    <3>1. PICK n \in DOMAIN talk : \E i \in DOMAIN talk[n].pieces : p = talk[n].pieces[i]
      BY <1>1, PieceOfTalk
    <3>2. AnswersCall(talk, p)
      BY <1>1, <2>1, <3>1 DEF WellSaid
    <3> QED
      BY <2>1, <3>2 DEF ShownId, AnswersCall
  <2>2. CASE p.kind \notin ResultKind
    BY <2>2 DEF ShownId
  <2> QED
    BY <2>1, <2>2
<1>4. w.id = id
  <2>1. CASE p.kind \notin Named
    BY <1>1, <1>2, <2>1 DEF Sent, firstNonEmpty
  <2>2. CASE p.kind \in Named /\ wire = "gemini"
    BY <1>2, <2>2
  <2>3. CASE p.kind \in Named /\ wire # "gemini"
    <3>1. HasIds
      BY <2>3 DEF TalkInv
    <3>2. p \in ToSet(Only(Named, Pieces))
      BY <1>1, <2>3, SelectedSet DEF Having
    <3>3. p.id # Nobody
      BY <3>1, <3>2 DEF HasIds, Named
    <3> QED
      BY <1>2, <2>3, <3>3 DEF firstNonEmpty
  <2> QED
    BY <2>1, <2>2, <2>3
<1> HIDE DEF id, w
<1>5. LineOf(w) = Line(p, id)
  BY <1>2, <1>4 DEF LineOf, Line
<1> QED
  BY <1>3, <1>5 DEF w

(* In every such state the model is shown the talk.                            *)
LEMMA TalkIsShown ==
    ASSUME TalkInv
    PROVE  ModelIsShownTheTalk
<1> SUFFICES ASSUME wire # Nobody, attached # Refused
             PROVE  ModelIsShownTheTalk
  BY DEF ModelIsShownTheTalk
<1> DEFINE ms == Flat(MessagesOf(wire), talk)
           all == Flat(PiecesOf, talk)
           plain(p) == talk[p.at[1]].pieces[p.at[2]].kind # "shot"
           own(p) == p.kind \in ImageKind /\ (wire = "gemini" => p.kind # "remote" /\ talk[p.at[1]].role = "user")
<1>1. wire \in Wire /\ WellSaid(talk) /\ talk \in Seq(TalkTurn)
  BY DEF TalkInv, WellSaid
<1>2. prompt = renderPrompt(ms) /\ attached = sdkAttachments(ms)
  BY DEF TalkInv
<1>3. ms \in Seq(Message) /\ Flat(Images, ms) = Flat(ImagesOf(wire), talk)
      /\ \A o \in BOOLEAN : Flat(Show(o), ms) = Flat(LinesOf(wire, o), talk)
  BY <1>1, RequestShown
<1> HIDE DEF ms
<1>4. Pieces = all /\ all \in Seq(Sent)
  BY <1>1, RequestIsFlat, PieceOfTalk
<1> HIDE DEF all
<1>5. prompt = Flat(LinesOf(wire, TRUE), talk) \o Flat(LinesOf(wire, FALSE), talk)
  BY <1>2, <1>3, PromptRendered
<1>6. InOrder(Hoisted(talk), prompt)
      /\ ToSet(prompt) = {LineOf(Identified(wire, p)) : p \in Lacking(ToSet(all), ImageKind)}
  BY <1>1, <1>5, TalkOrdered DEF all
<1>7. ToSet(Except(ImageKind, all)) = Lacking(ToSet(all), ImageKind)
  BY <1>4, SelectedSet
<1>l. \A p \in Lacking(ToSet(all), ImageKind) : LineOf(Identified(wire, p)) = Line(p, ShownId(p))
  BY <1>4, ShownUnderItsId DEF Lacking
<1>8. ToSet(prompt) = {Line(p, ShownId(p)) : p \in ToSet(Except(ImageKind, Pieces))}
  BY <1>4, <1>6, <1>7, <1>l
<1>9. \A i, j \in DOMAIN prompt :
        i < j => /\ SaidBySystem(prompt[j]) => SaidBySystem(prompt[i])
                 /\ SaidBySystem(prompt[i]) = SaidBySystem(prompt[j])
                        => prompt[i].at[1] <= prompt[j].at[1]
                 /\ prompt[i].at = prompt[j].at => i = j
                 /\ prompt[i].at[1] = prompt[j].at[1] /\ prompt[i].kind = prompt[j].kind
                        => prompt[i].at[2] < prompt[j].at[2]
  <2>1. ASSUME NEW i \in DOMAIN prompt
        PROVE  SaidBySystem(prompt[i]) <=> prompt[i].at[1] \in Systems(talk)
    <3>1. prompt[i] \in ToSet(prompt)
      BY DEF ToSet
    <3>2. PICK p \in Lacking(ToSet(all), ImageKind) : prompt[i] = Line(p, ShownId(p))
      BY <1>6, <1>l, <3>1
    <3>3. PICK n \in DOMAIN talk : \E k \in DOMAIN talk[n].pieces : p.at = <<n, k>>
      BY <1>1, <1>4, <3>2, PieceOfTalk DEF Lacking
    <3>4. prompt[i].at[1] = n
      BY <3>2, <3>3 DEF Line
    <3> QED
      BY <3>4 DEF SaidBySystem, Systems
  <2> TAKE i, j \in DOMAIN prompt
  <2> HAVE i < j
  <2>2. <<prompt[i], prompt[j]>> \in Hoisted(talk)
    BY <1>6 DEF InOrder
  <2> DEFINE x == prompt[i]
             y == prompt[j]
  <2>3. (SaidBySystem(x) <=> x.at[1] \in Systems(talk)) /\ (SaidBySystem(y) <=> y.at[1] \in Systems(talk))
    BY <2>1
  <2> HIDE DEF x, y
  <2>4. /\ x.at # y.at
        /\ y.at[1] \in Systems(talk) => x.at[1] \in Systems(talk)
        /\ (x.at[1] \in Systems(talk) <=> y.at[1] \in Systems(talk)) => x.at[1] <= y.at[1]
        /\ x.at[1] = y.at[1] /\ x.kind = y.kind => x.at[2] < y.at[2]
    BY <2>2 DEF Hoisted, x, y
  <2>5. SaidBySystem(x) = SaidBySystem(y) => (SaidBySystem(x) <=> SaidBySystem(y))
    OBVIOUS
  <2> QED
    BY <2>3, <2>4, <2>5 DEF x, y
<1>10. attached = Flat(ImagesOf(wire), talk) /\ attached \in Seq(PieceType)
  <2>1. Makes(Images, Message, PieceType)
    BY MessagesMake
  <2> QED
    BY <1>2, <1>3, <2>1, AllAttached, FlatConcat
<1>11. Flat(Sel(PieceType, PlainAt(talk)), attached) = Flat(Sel(Sent, OwnIn(wire, talk)), all)
  BY <1>1, <1>10, OwnImages DEF all
<1>12. Where(attached, plain) = Flat(Sel(PieceType, PlainAt(talk)), attached)
  <2>1. \A i \in DOMAIN attached : attached[i] \in PieceType
    BY <1>10
  <2>2. \A i \in DOMAIN attached : Sel(PieceType, PlainAt(talk))[attached[i]] = IF plain(attached[i]) THEN <<attached[i]>> ELSE <<>>
    BY <2>1 DEF Sel, PlainAt
  <2> HIDE DEF plain
  <2> QED
    BY <2>2 DEF Where, Flat
<1>13. Where(all, own) = Flat(Sel(Sent, OwnIn(wire, talk)), all)
  <2>1. \A i \in DOMAIN all : all[i] \in Sent
    BY <1>4
  <2>2. \A i \in DOMAIN all : Sel(Sent, OwnIn(wire, talk))[all[i]] = IF own(all[i]) THEN <<all[i]>> ELSE <<>>
    BY <2>1 DEF Sel, OwnIn
  <2> HIDE DEF own
  <2> QED
    BY <2>2 DEF Where, Flat
<1>14. Where(attached, plain) = Where(Pieces, own)
  BY <1>4, <1>11, <1>12, <1>13
<1> QED
  BY <1>8, <1>9, <1>14 DEF ModelIsShownTheTalk

(* Whatever protocol a conversation is sent with, the model is shown all of    *)
(* it, the system's words first and else in order, results under the id their  *)
(* call goes by, and the images that are part of a message.                    *)
THEOREM TalksAreShownWhole == TalkInit /\ [][TalkNext]_talkVars => []ModelIsShownTheTalk
<1>1. TalkInit => TalkInv
  BY DEF TalkInit, TalkInv, WellSaid
<1>2. TalkInv /\ [TalkNext]_talkVars => TalkInv'
  <2> SUFFICES ASSUME TalkInv, [TalkNext]_talkVars
               PROVE  TalkInv'
    OBVIOUS
  <2>1. ASSUME NEW role \in Speaker, AddTurn(role)
        PROVE  TalkInv'
    BY <2>1, TurnBegun DEF TalkInv, AddTurn, Composing
  <2>2. ASSUME NEW kind \in Kind, AddPiece(kind)
        PROVE  TalkInv'
    BY <2>2, PieceAdded DEF TalkInv, AddPiece, Composing
  <2>3. ASSUME NEW protocol \in Wire, Send(protocol)
        PROVE  TalkInv'
    BY <2>3, TalkSent
  <2>4. CASE UNCHANGED talkVars
    <3>1. talk' = talk /\ wire' = wire /\ prompt' = prompt /\ attached' = attached
      BY <2>4 DEF talkVars
    <3>2. HasIds' <=> HasIds
      BY <3>1 DEF HasIds, Pieces
    <3>3. WellSaid(talk')
      BY <3>1 DEF TalkInv
    <3> QED
      BY <3>1, <3>2, <3>3 DEF TalkInv
  <2> QED
    BY <2>1, <2>2, <2>3, <2>4 DEF TalkNext, Speaker, Kind
<1>3. TalkInv => ModelIsShownTheTalk
  BY TalkIsShown
<1> QED
  BY <1>1, <1>2, <1>3, PTL
=============================================================================

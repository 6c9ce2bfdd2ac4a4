-------------------------- MODULE StreamServingProofs --------------------------
(***************************************************************************)
(* What holds of StreamServing for any set of streams, accounts, cache     *)
(* keys and length of the answers.                                         *)
(***************************************************************************)
EXTENDS StreamServing, FiniteSetTheorems, TLAPS

-----------------------------------------------------------------------------
(* The inductive invariant. *)

StreamTypes ==
    /\ prod \in [Stream -> Phase]
    /\ left \in [Stream -> Nat] /\ got \in [Stream -> Nat] /\ written \in [Stream -> Nat]
    /\ complete \in [Stream -> BOOLEAN] /\ cancelled \in [Stream -> BOOLEAN]
    /\ backend \in [Stream -> {"none", "open", "closed", "broken"}]
    /\ reader \in [Stream -> {"idle", "reading", "returned"}]
    /\ slot \in [Stream -> Account \cup {None}]
    /\ metered \in [Stream -> {"no", "success", "hit", "failure"}]
    /\ stored \in [Stream -> BOOLEAN]
    /\ cache \in [Key -> {"none", "partial", "whole"}]
    /\ inFlight \in [Account -> Nat]

(* Chunks between the opening and the closing ones: the deltas of a chat    *)
(* stream, one for a replayed answer.                                       *)
Body(s) == IF Handler[s] = "chat" /\ slot[s] # None THEN got[s] ELSE 1

(* What the handler has taken so far, and what is left of the phase.        *)
Sent(s) ==
    /\ prod[s] = "idle" => written[s] = 0 /\ left[s] = 0 /\ got[s] = 0
    /\ prod[s] = "opening" => written[s] + left[s] = OpeningChunks(s) /\ got[s] = 0
    /\ prod[s] = "calling" => written[s] = OpeningChunks(s) /\ got[s] = 0
    /\ prod[s] = "consuming" =>
          written[s] = OpeningChunks(s) + IF Handler[s] = "chat" THEN got[s] ELSE 0
    /\ prod[s] = "relaying" =>
          Handler[s] = "chat" /\ written[s] + left[s] = OpeningChunks(s) + got[s]
    /\ prod[s] = "replaying" =>
          /\ Handler[s] # "chat" \/ slot[s] = None
          /\ written[s] + left[s] = OpeningChunks(s) + 1
    /\ prod[s] = "closing" =>
          written[s] + left[s] = OpeningChunks(s) + Body(s) + ClosingChunks(s)
    /\ prod[s] = "recording" =>
          written[s] = OpeningChunks(s) + Body(s) + ClosingChunks(s)

(* Who has a slot, and when the answer counts as served.                    *)
Accounted(s) ==
    /\ prod[s] = "idle" => slot[s] = None
    /\ prod[s] \in {"calling", "consuming", "relaying", "failing"} => slot[s] # None
    /\ prod[s] = "exited" /\ slot[s] # None => LeftWhileOpening(s)
    /\ metered[s] # "no" \/ stored[s] => prod[s] = "exited"
    /\ metered[s] \in {"success", "hit"} \/ stored[s] => written[s] = ChunksOf(s)

(* The answer is complete, or the client left or the channel broke off.     *)
Ended(s) ==
    /\ backend[s] = "closed" => complete[s] \/ cancelled[s]
    /\ prod[s] \in {"replaying", "closing", "recording"} /\ slot[s] # None => backend[s] \in {"closed", "broken"}

Progress(s) == Sent(s) /\ Accounted(s) /\ Ended(s)

IInv == StreamTypes /\ \A s \in Stream : Progress(s)

-----------------------------------------------------------------------------
(* A step is the business of one stream. *)

Own(s) == <<prod[s], left[s], got[s], complete[s], backend[s], written[s], cancelled[s],
            slot[s], metered[s], stored[s]>>

Apart(s) == \A t \in Stream \ {s} : Own(t)' = Own(t)

(* A step keeps the progress of the streams it does not touch.              *)
LEMMA OthersKeepProgress ==
    ASSUME IInv, NEW s \in Stream, Apart(s), StreamTypes', Progress(s)'
    PROVE  IInv'
<1>1. ASSUME NEW t \in Stream \ {s}
      PROVE  Progress(t)'
  BY <1>1 DEF IInv, Apart, Own, Progress, Sent, Accounted, Ended, Body, LeftWhileOpening,
              ChunksOf, OpeningChunks, ClosingChunks
<1> QED
  BY <1>1 DEF IInv

(* Init establishes the invariant.                                          *)
LEMMA InitIInv == Init => IInv
BY DEF Init, PoolInit, IInv, StreamTypes, Phase, Progress, Sent, Accounted, Ended

(* Exit leaves the slot only to a Responses stream that was opening.        *)
LEMMA ExitFacts ==
    ASSUME IInv, NEW s \in Stream, Exit(s)
    PROVE  /\ prod' = [prod EXCEPT ![s] = "exited"] /\ left' = [left EXCEPT ![s] = 0]
           /\ slot' \in [Stream -> Account \cup {None}]
           /\ \A t \in Stream \ {s} : slot'[t] = slot[t]
           /\ slot'[s] \in {slot[s], None}
           /\ slot'[s] # None => Handler[s] = "responses" /\ prod[s] = "opening"
           /\ inFlight' \in [Account -> Nat]
<1>1. CASE ReleaseDeferred(s)
  <2>1. slot[s] \in Account
    BY <1>1 DEF IInv, StreamTypes, ReleaseDeferred
  <2>2. inFlight' \in [Account -> Nat]
    BY <1>1, <2>1 DEF Exit, ReleaseSlot, IInv, StreamTypes
  <2> QED
    BY <1>1, <2>2 DEF Exit, Enter, IInv, StreamTypes
<1>2. CASE ~ReleaseDeferred(s)
  BY <1>2 DEF Exit, Enter, ReleaseDeferred, poolVars, IInv, StreamTypes
<1> QED
  BY <1>1, <1>2

(* The handler takes at most one chunk, and a context that is done stays so. *)
LEMMA DeliveryFacts ==
    ASSUME IInv, NEW s \in Stream, Delivered(s) \/ Dropped(s)
    PROVE  /\ cancelled' \in [Stream -> BOOLEAN] /\ written' \in [Stream -> Nat]
           /\ reader' \in [Stream -> {"idle", "reading", "returned"}]
           /\ \A t \in Stream \ {s} : cancelled'[t] = cancelled[t] /\ written'[t] = written[t]
           /\ cancelled[s] => cancelled'[s]
           /\ Delivered(s) => written'[s] = written[s] + 1
<1>1. \/ UNCHANGED connection /\ ~Delivered(s)
      \/ /\ written' = [written EXCEPT ![s] = @ + 1]
         /\ reader' \in {reader, [reader EXCEPT ![s] = "returned"]}
         /\ cancelled' \in {cancelled, [cancelled EXCEPT ![s] = TRUE]}
  BY DEF Delivered, Dropped, HandlerReturns
<1>2. StreamTypes
  BY DEF IInv
<1>3. CASE UNCHANGED connection /\ ~Delivered(s)
  BY <1>2, <1>3 DEF StreamTypes, connection
<1>4. CASE /\ written' = [written EXCEPT ![s] = @ + 1]
           /\ reader' \in {reader, [reader EXCEPT ![s] = "returned"]}
           /\ cancelled' \in {cancelled, [cancelled EXCEPT ![s] = TRUE]}
  <2>1. /\ cancelled' \in [Stream -> BOOLEAN] /\ (cancelled[s] => cancelled'[s])
        /\ \A t \in Stream \ {s} : cancelled'[t] = cancelled[t]
    BY <1>2, <1>4, Zenon DEF StreamTypes
  <2>2. reader' \in [Stream -> {"idle", "reading", "returned"}]
    BY <1>2, <1>4 DEF StreamTypes
  <2>3. /\ written' \in [Stream -> Nat] /\ written'[s] = written[s] + 1
        /\ \A t \in Stream \ {s} : written'[t] = written[t]
    BY <1>2, <1>4 DEF StreamTypes
  <2> QED
    BY <2>1, <2>2, <2>3
<1> QED
  BY <1>1, <1>3, <1>4

(* A step of one stream keeps the invariant.                                *)
LEMMA StreamStep ==
    ASSUME IInv, NEW s \in Stream,
           \/ OpenHit(s) \/ \E a \in Account : OpenMiss(s, a)
           \/ ClientLeaves(s) \/ NoticeGone(s) \/ StopReading(s)
           \/ Producer(s) \/ BackendCloses(s) \/ BackendBreaks(s) \/ NextRequest(s)
    PROVE  IInv'
<1> USE StreamAssumption
    DEF producerVars, connection, Enter, Phase, LeftWhileOpening, ChunksOf, OpeningChunks, ClosingChunks, Body
<1> DEFINE Kept == StreamTypes' /\ Apart(s) /\ Progress(s)'
<1> SUFFICES Kept
  BY OthersKeepProgress
<1>0. StreamTypes /\ Progress(s)
  BY DEF IInv
<1>1. CASE OpenHit(s)
  <2>1. StreamTypes' /\ Apart(s)
    BY <1>0, <1>1 DEF OpenHit, Start, poolVars, StreamTypes, Apart, Own
  <2>2. Progress(s)'
    BY <1>0, <1>1 DEF OpenHit, Start, StreamTypes, Progress, Sent, Accounted, Ended
  <2> QED
    BY <2>1, <2>2
<1>2. ASSUME NEW a \in Account, OpenMiss(s, a)
      PROVE  Kept
  <2>1. StreamTypes' /\ Apart(s)
    BY <1>0, <1>2 DEF OpenMiss, Start, Admit, StreamTypes, Apart, Own
  <2>2. Progress(s)'
    BY <1>0, <1>2 DEF OpenMiss, Start, StreamTypes, Progress, Sent, Accounted, Ended
  <2> QED
    BY <2>1, <2>2
<1>3. CASE ClientLeaves(s)
  BY <1>0, <1>3 DEF ClientLeaves, poolVars, StreamTypes, Apart, Own, Progress, Sent, Accounted, Ended
<1>4. CASE NoticeGone(s) \/ StopReading(s)
  <2>1. StreamTypes' /\ Apart(s)
    <3>1. /\ cancelled' = [cancelled EXCEPT ![s] = TRUE]
          /\ reader' = reader \/ reader' = [reader EXCEPT ![s] = "returned"]
          /\ UNCHANGED <<poolVars, producerVars, written, backend, gone, slot>>
      BY <1>4 DEF NoticeGone, StopReading, HandlerReturns
    <3>2. StreamTypes'
      BY <1>0, <3>1 DEF producerVars, poolVars, StreamTypes
    <3>3. Apart(s)
      BY <1>0, <3>1 DEF producerVars, StreamTypes, Apart, Own
    <3> QED
      BY <3>2, <3>3
  <2>2. Progress(s)'
    BY <1>0, <1>4 DEF NoticeGone, StopReading, HandlerReturns, StreamTypes, Progress, Sent, Accounted, Ended
  <2> QED
    BY <2>1, <2>2
<1>5. CASE Send(s)
  <2>1. /\ prod[s] \in {"opening", "relaying", "replaying", "closing"} /\ left[s] > 0
        /\ left' = [left EXCEPT ![s] = @ - 1] /\ inFlight' = inFlight /\ Delivered(s)
        /\ UNCHANGED <<prod, got, complete, metered, stored, cache, backend, slot>>
    BY <1>5 DEF Send, poolVars
  <2>2. StreamTypes' /\ Apart(s)
    BY <1>0, <2>1, DeliveryFacts DEF StreamTypes, Apart, Own
  <2>3. written'[s] + left'[s] = written[s] + left[s] /\ (cancelled[s] => cancelled'[s])
    BY <1>0, <2>1, DeliveryFacts DEF StreamTypes
  <2>4. Progress(s)'
    BY <1>0, <2>1, <2>3 DEF Progress, Sent, Accounted, Ended
  <2> QED
    BY <2>2, <2>4
<1>6. CASE Abandon(s)
  <2>1. /\ UNCHANGED <<got, complete, metered, stored, cache, backend, reader, cancelled, written>>
        /\ Exit(s) /\ cancelled[s] /\ left[s] > 0
        /\ prod[s] \in {"opening", "relaying", "replaying", "closing"}
    BY <1>6 DEF Abandon, Dropped
  <2>2. StreamTypes' /\ Apart(s)
    BY <1>0, <2>1, ExitFacts DEF StreamTypes, Apart, Own
  <2>3. prod'[s] = "exited" /\ (slot'[s] # None => LeftWhileOpening(s))
    BY <1>0, <2>1, ExitFacts DEF StreamTypes, Progress, Sent
  <2>4. Progress(s)'
    BY <1>0, <2>1, <2>3 DEF Progress, Sent, Accounted, Ended
  <2> QED
    BY <2>2, <2>4
<1>7. CASE Advance(s)
  <2>1. StreamTypes' /\ Apart(s)
    BY <1>0, <1>7 DEF Advance, poolVars, StreamTypes, Apart, Own
  <2>2. Progress(s)'
    BY <1>0, <1>7 DEF Advance, StreamTypes, Progress, Sent, Accounted, Ended
  <2> QED
    BY <2>1, <2>2
<1>8. CASE Call(s)
  <2>1. inFlight' = inFlight
    BY <1>8 DEF Call, poolVars, RecordFailure
  <2>2. StreamTypes' /\ Apart(s)
    BY <1>0, <1>8, <2>1 DEF Call, StreamTypes, Apart, Own
  <2>3. Progress(s)'
    BY <1>0, <1>8 DEF Call, StreamTypes, Progress, Sent, Accounted, Ended
  <2> QED
    BY <2>2, <2>3
<1>9. CASE EndOfItems(s)
  <2>1. StreamTypes' /\ Apart(s)
    BY <1>0, <1>9 DEF EndOfItems, poolVars, StreamTypes, Apart, Own
  <2>2. Progress(s)'
    BY <1>0, <1>9 DEF EndOfItems, StreamTypes, Progress, Sent, Accounted, Ended
  <2> QED
    BY <2>1, <2>2
<1>10. CASE Record(s)
  <2>1. inFlight' \in [Account -> Nat]
    BY <1>0, <1>10 DEF Record, poolVars, StreamTypes
  <2>2. StreamTypes' /\ Apart(s)
    BY <1>0, <1>10, <2>1 DEF Record, Content, Observe, StreamTypes, Apart, Own
  <2>3. Progress(s)'
    BY <1>0, <1>10 DEF Record, Observe, StreamTypes, Progress, Sent, Accounted, Ended
  <2> QED
    BY <2>2, <2>3
<1>11. CASE Fail(s)
  <2>1. /\ prod[s] = "failing" /\ Exit(s) /\ metered' = [metered EXCEPT ![s] = "failure"]
        /\ UNCHANGED <<got, complete, stored, cache, backend>>
        /\ Delivered(s) \/ Dropped(s)
    BY <1>11 DEF Fail, Observe
  <2>2. StreamTypes' /\ Apart(s)
    BY <1>0, <2>1, DeliveryFacts, ExitFacts DEF StreamTypes, Apart, Own
  <2>3. prod'[s] = "exited" /\ slot'[s] = None /\ metered'[s] = "failure" /\ ~stored[s]
    BY <1>0, <2>1, ExitFacts DEF StreamTypes, Progress, Accounted
  <2>4. Progress(s)'
    BY <1>0, <2>1, <2>3, DeliveryFacts DEF Progress, Sent, Accounted, Ended
  <2> QED
    BY <2>2, <2>4
<1>12. CASE ReceiveDelta(s)
  <2>1. StreamTypes' /\ Apart(s)
    BY <1>0, <1>12 DEF ReceiveDelta, poolVars, StreamTypes, Apart, Own
  <2>2. Progress(s)'
    BY <1>0, <1>12 DEF ReceiveDelta, StreamTypes, Progress, Sent, Accounted, Ended
  <2> QED
    BY <2>1, <2>2
<1>13. CASE ReceiveDone(s)
  <2>1. StreamTypes' /\ Apart(s)
    BY <1>0, <1>13 DEF ReceiveDone, poolVars, StreamTypes, Apart, Own
  <2>2. Progress(s)'
    BY <1>0, <1>13 DEF ReceiveDone, StreamTypes, Progress, Sent, Accounted, Ended
  <2> QED
    BY <2>1, <2>2
<1>14. CASE ReceiveError(s)
  <2>1. inFlight' = inFlight
    BY <1>14 DEF ReceiveError, RecordFailure
  <2>2. StreamTypes' /\ Apart(s)
    BY <1>0, <1>14, <2>1 DEF ReceiveError, StreamTypes, Apart, Own
  <2>3. Progress(s)'
    BY <1>0, <1>14 DEF ReceiveError, StreamTypes, Progress, Sent, Accounted, Ended
  <2> QED
    BY <2>2, <2>3
<1>15. CASE BackendCloses(s)
  <2>1. StreamTypes' /\ Apart(s)
    BY <1>0, <1>15 DEF BackendCloses, poolVars, StreamTypes, Apart, Own
  <2>2. Progress(s)'
    BY <1>0, <1>15 DEF BackendCloses, StreamTypes, Progress, Sent, Accounted, Ended
  <2> QED
    BY <2>1, <2>2
<1>16. CASE NextRequest(s)
  <2>1. StreamTypes' /\ Apart(s)
    BY <1>0, <1>16 DEF NextRequest, poolVars, StreamTypes, Apart, Own
  <2>2. Progress(s)'
    BY <1>0, <1>16 DEF NextRequest, StreamTypes, Progress, Sent, Accounted, Ended
  <2> QED
    BY <2>1, <2>2
<1>17. CASE BackendBreaks(s)
  <2>1. StreamTypes' /\ Apart(s)
    BY <1>0, <1>17 DEF BackendBreaks, producerVars, connection, poolVars, StreamTypes, Apart, Own
  <2>2. Progress(s)'
    BY <1>0, <1>17 DEF BackendBreaks, StreamTypes, Progress, Sent, Accounted, Ended
  <2> QED
    BY <2>1, <2>2
<1> HIDE DEF Kept
<1> QED
  BY <1>1, <1>2, <1>3, <1>4, <1>5, <1>6, <1>7, <1>8, <1>9, <1>10, <1>11, <1>12, <1>13, <1>14,
     <1>15, <1>16, <1>17 DEF Producer

(* The invariant of every behaviour.                                        *)
LEMMA Inductive == Spec => []IInv
<1>1. IInv /\ [Next]_vars => IInv'
  <2> SUFFICES ASSUME IInv, [Next]_vars
               PROVE  IInv'
    OBVIOUS
  <2>1. ASSUME UNCHANGED <<streamVars, inFlight>>
        PROVE  IInv'
    BY <2>1 DEF streamVars, producerVars, connection, IInv, StreamTypes, Progress, Sent, Accounted,
                Ended, Body, LeftWhileOpening, ChunksOf, OpeningChunks, ClosingChunks
  <2>2. ASSUME NEW k \in Key, Evict(k)
        PROVE  IInv'
    BY <2>2 DEF Evict, poolVars, connection, IInv, StreamTypes, Progress, Sent, Accounted,
                Ended, Body, LeftWhileOpening, ChunksOf, OpeningChunks, ClosingChunks
  <2>3. CASE (CooldownTick \/ \E a \in Administered, on \in BOOLEAN : SetEnabled(a, on)) /\ UNCHANGED streamVars
    BY <2>1, <2>3 DEF CooldownTick, SetEnabled
  <2>4. CASE UNCHANGED vars
    BY <2>1, <2>4 DEF vars, poolVars
  <2> QED
    BY <2>2, <2>3, <2>4, StreamStep DEF Next
<1> QED
  BY <1>1, InitIInv, PTL DEF Spec

(* A stream that is metered as served, or kept for GET /v1/responses, had   *)
(* every chunk taken by its handler (writeStream, emitSSE).                 *)
THEOREM Delivery == Spec => []ServedMeansDelivered
<1>1. IInv => ServedMeansDelivered
  BY DEF IInv, Progress, Accounted, ServedMeansDelivered
<1> QED
  BY <1>1, Inductive, PTL

(* Only a Responses stream whose client left while it was opening returns   *)
(* without giving its slot back (gateway.go, defer account.Release()).      *)
THEOREM LeaksNowhereElse == Spec => []LeakOnlyWhileOpening
<1>1. IInv => LeakOnlyWhileOpening
  BY DEF IInv, Progress, Accounted, LeakOnlyWhileOpening
<1> QED
  BY <1>1, Inductive, PTL
-----------------------------------------------------------------------------
(* Slots.  A step takes one, gives one back, or leaves them alone.          *)

Takes(s, a) ==
    /\ slot[s] = None /\ slot' = [slot EXCEPT ![s] = a]
    /\ inFlight' = [inFlight EXCEPT ![a] = @ + 1]

Gives(s, a) ==
    /\ slot[s] = a /\ slot' = [slot EXCEPT ![s] = None]
    /\ inFlight' = [inFlight EXCEPT ![a] = IF @ > 0 THEN @ - 1 ELSE 0]

SlotStep ==
    \/ UNCHANGED <<slot, inFlight>>
    \/ \E s \in Stream, a \in Account : Takes(s, a) \/ Gives(s, a)

(* Every action is one of the three.                                        *)
LEMMA NextIsSlotStep ==
    ASSUME IInv, [Next]_vars
    PROVE  SlotStep
<1> USE DEF poolVars
<1>1. ASSUME NEW s \in Stream, NEW a \in Account, OpenMiss(s, a)
      PROVE  SlotStep
  <2>1. slot[s] = None
    BY <1>1 DEF OpenMiss, IInv, Progress, Accounted
  <2> QED
    BY <1>1, <2>1 DEF OpenMiss, Admit, Takes, SlotStep
<1>2. ASSUME NEW s \in Stream, Exit(s)
      PROVE  SlotStep
  <2>1. ReleaseDeferred(s) => slot[s] \in Account
    BY DEF ReleaseDeferred, IInv, StreamTypes
  <2> QED
    BY <1>2, <2>1 DEF Exit, ReleaseSlot, Gives, SlotStep
<1>3. ASSUME NEW s \in Stream, Record(s)
      PROVE  SlotStep
  <2>1. slot[s] # None => slot[s] \in Account
    BY DEF IInv, StreamTypes
  <2> QED
    BY <1>3, <2>1 DEF Record, Gives, SlotStep
<1>4. ASSUME NEW s \in Stream, Call(s) \/ ReceiveError(s)
      PROVE  SlotStep
  BY <1>4 DEF Call, ReceiveError, RecordFailure, SlotStep
<1>5. ASSUME NEW s \in Stream,
             \/ OpenHit(s) \/ ClientLeaves(s) \/ NoticeGone(s) \/ StopReading(s)
             \/ Send(s) \/ Advance(s) \/ EndOfItems(s) \/ ReceiveDelta(s) \/ ReceiveDone(s)
             \/ BackendCloses(s) \/ BackendBreaks(s) \/ NextRequest(s)
      PROVE  SlotStep
  BY <1>5 DEF OpenHit, ClientLeaves, NoticeGone, StopReading, Send, Advance, EndOfItems,
              ReceiveDelta, ReceiveDone, BackendCloses, BackendBreaks, NextRequest, SlotStep
<1>6. ASSUME NEW k \in Key, Evict(k)
      PROVE  SlotStep
  BY <1>6 DEF Evict, SlotStep
<1>7. CASE (CooldownTick \/ \E a \in Administered, on \in BOOLEAN : SetEnabled(a, on)) /\ UNCHANGED streamVars
  BY <1>7 DEF CooldownTick, SetEnabled, streamVars, SlotStep
<1>8. CASE UNCHANGED vars
  BY <1>8 DEF vars, streamVars, SlotStep
<1> QED
  BY <1>1, <1>2, <1>3, <1>4, <1>5, <1>6, <1>7, <1>8 DEF Next, Producer, Abandon, Fail

(* The streams of an account can be counted.                                *)
LEMMA StreamsFinite == \A a : IsFiniteSet(StreamsOn(a)) /\ Cardinality(StreamsOn(a)) \in Nat
<1> TAKE a
<1>1. StreamsOn(a) \in SUBSET Stream
  BY DEF StreamsOn
<1> QED
  BY <1>1, FS_Subset, FS_CardinalityType, StreamAssumption

(* Taking a slot adds one stream, giving it back removes that stream.       *)
LEMMA SlotStepKeepsCount ==
    ASSUME IInv, SlotsAccounted, SlotStep
    PROVE  SlotsAccounted'
<1> USE StreamAssumption DEF SlotsAccounted
<1>0. inFlight \in [Account -> Nat] /\ slot \in [Stream -> Account \cup {None}]
  BY DEF IInv, StreamTypes
<1>1. CASE UNCHANGED <<slot, inFlight>>
  BY <1>1 DEF StreamsOn
<1>2. ASSUME NEW s \in Stream, NEW a \in Account, Takes(s, a)
      PROVE  SlotsAccounted'
  <2>1. s \notin StreamsOn(a) /\ StreamsOn(a)' = StreamsOn(a) \cup {s}
    BY <1>0, <1>2 DEF Takes, StreamsOn
  <2>2. Cardinality(StreamsOn(a)') = inFlight[a] + 1
    BY <2>1, StreamsFinite, FS_AddElement
  <2>3. \A b \in Account \ {a} : StreamsOn(b)' = StreamsOn(b)
    BY <1>0, <1>2 DEF Takes, StreamsOn
  <2>4. inFlight'[a] = inFlight[a] + 1 /\ \A b \in Account \ {a} : inFlight'[b] = inFlight[b]
    BY <1>0, <1>2 DEF Takes
  <2> TAKE b \in Account
  <2> QED
    BY <2>2, <2>3, <2>4
<1>3. ASSUME NEW s \in Stream, NEW a \in Account, Gives(s, a)
      PROVE  SlotsAccounted'
  <2>1. s \in StreamsOn(a) /\ StreamsOn(a)' = StreamsOn(a) \ {s}
    BY <1>0, <1>3 DEF Gives, StreamsOn
  <2>2. Cardinality(StreamsOn(a)') = inFlight[a] - 1
    <3>1. IsFiniteSet(StreamsOn(a))
      BY StreamsFinite
    <3>2. Cardinality(StreamsOn(a) \ {s}) = Cardinality(StreamsOn(a)) - 1
      BY <2>1, <3>1, FS_RemoveElement
    <3> QED
      BY <2>1, <3>2
  <2>3. inFlight[a] > 0
    BY <1>0, <2>1, StreamsFinite, FS_EmptySet
  <2>4. \A b \in Account \ {a} : StreamsOn(b)' = StreamsOn(b)
    BY <1>0, <1>3 DEF Gives, StreamsOn
  <2>5. inFlight'[a] = inFlight[a] - 1 /\ \A b \in Account \ {a} : inFlight'[b] = inFlight[b]
    BY <1>0, <1>3, <2>3 DEF Gives
  <2> TAKE b \in Account
  <2> QED
    BY <2>2, <2>4, <2>5
<1> QED
  BY <1>1, <1>2, <1>3 DEF SlotStep

(* An account's InFlight is the number of streams that hold its slots, also *)
(* of those that leaked one (Account.Release, deferred in gateway.go).      *)
THEOREM StreamSlots == Spec => []SlotsAccounted
<1>1. Init => SlotsAccounted
  <2> SUFFICES ASSUME Init, NEW a \in Account
               PROVE  inFlight[a] = Cardinality(StreamsOn(a))
    BY DEF SlotsAccounted
  <2>1. StreamsOn(a) = {} /\ inFlight[a] = 0
    BY StreamAssumption DEF Init, PoolInit, StreamsOn
  <2> QED
    BY <2>1, FS_EmptySet
<1>2. IInv /\ SlotsAccounted /\ [Next]_vars => SlotsAccounted'
  BY NextIsSlotStep, SlotStepKeepsCount
<1> QED
  BY <1>1, <1>2, Inductive, PTL DEF Spec

-----------------------------------------------------------------------------
(* A failure the backend reports never leaves half an answer in the cache:  *)
(* what is recorded is whole, unless the channel ended early because the    *)
(* client disconnected or the prompt was not sent (gateway.go, Store).      *)
THEOREM CacheOnlyWhole == Spec => TruncatedOnlyWhenBrokenOff
<1> DEFINE P == \A k \in Key :
        cache[k] # "partial" /\ cache'[k] = "partial" =>
            \E s \in Stream :
                /\ KeyOf[s] = k /\ prod[s] = "recording"
                /\ cancelled[s] \/ backend[s] = "broken"
<1>1. IInv /\ [Next]_vars => [P]_vars
  <2> SUFFICES ASSUME IInv, Next, NEW k \in Key, cache[k] # "partial", cache'[k] = "partial"
               PROVE  \E s \in Stream : KeyOf[s] = k /\ prod[s] = "recording" /\ (cancelled[s] \/ backend[s] = "broken")
    OBVIOUS
  <2>1. cache \in [Key -> {"none", "partial", "whole"}]
    BY DEF IInv, StreamTypes
  <2>2. ASSUME NEW j \in Key, Evict(j)
        PROVE  FALSE
    BY <2>1, <2>2 DEF Evict
  <2>3. ASSUME NEW s \in Stream, Record(s)
        PROVE  KeyOf[s] = k /\ prod[s] = "recording" /\ (cancelled[s] \/ backend[s] = "broken")
    <3>1. /\ prod[s] = "recording" /\ slot[s] # None
          /\ cache' = [cache EXCEPT ![KeyOf[s]] = Content(s)]
      BY <2>3 DEF Record
    <3>2. KeyOf[s] = k /\ Content(s) = "partial"
      BY <2>1, <3>1
    <3>3. ~complete[s] /\ Progress(s)
      BY <3>2 DEF Content, IInv
    <3> QED
      BY <3>1, <3>2, <3>3 DEF Progress, Ended
  <2>4. ASSUME NEW s \in Stream,
               \/ OpenHit(s) \/ \E a \in Account : OpenMiss(s, a)
               \/ ClientLeaves(s) \/ NoticeGone(s) \/ StopReading(s)
               \/ Send(s) \/ Abandon(s) \/ Advance(s) \/ Call(s) \/ EndOfItems(s) \/ Fail(s)
               \/ ReceiveDelta(s) \/ ReceiveDone(s) \/ ReceiveError(s)
               \/ BackendCloses(s) \/ BackendBreaks(s) \/ NextRequest(s)
        PROVE  cache' = cache
    BY <2>4 DEF OpenHit, OpenMiss, ClientLeaves, NoticeGone, StopReading, producerVars, Send,
                Abandon, Advance, Call, EndOfItems, Fail, ReceiveDelta, ReceiveDone,
                ReceiveError, BackendCloses, BackendBreaks, NextRequest
  <2>5. CASE UNCHANGED streamVars
    BY <2>5 DEF streamVars, producerVars
  <2> QED
    BY <2>2, <2>3, <2>4, <2>5 DEF Next, Producer
<1> QED
  BY <1>1, Inductive, PTL DEF Spec, TruncatedOnlyWhenBrokenOff
=============================================================================

---------------------------- MODULE UsageSinkProofs ----------------------------
(***************************************************************************)
(* What holds of UsageSink for any set of events, buffer and batch size.   *)
(***************************************************************************)
EXTENDS UsageSink, FiniteSetTheorems, TLAPS

-----------------------------------------------------------------------------
(* Queues without duplicates. *)

(* An event sent to a queue is one more element of it, and no duplicate.      *)
LEMMA AppendQueue ==
    ASSUME NEW S, NEW s \in Seq(S), NEW x \in S
    PROVE  /\ Append(s, x) \in Seq(S)
           /\ ToSet(Append(s, x)) = ToSet(s) \cup {x}
           /\ IsInjective(s) /\ x \notin ToSet(s) => IsInjective(Append(s, x))
<1>1. /\ DOMAIN Append(s, x) = 1..Len(s) + 1
      /\ \A i \in 1..Len(s) : Append(s, x)[i] = s[i]
      /\ Append(s, x)[Len(s) + 1] = x
      /\ DOMAIN s = 1..Len(s) /\ Len(s) \in Nat
  OBVIOUS
<1>2. ToSet(Append(s, x)) = ToSet(s) \cup {x}
  BY <1>1 DEF ToSet
<1>3. ASSUME IsInjective(s), x \notin ToSet(s), NEW i \in DOMAIN Append(s, x),
             NEW j \in DOMAIN Append(s, x), Append(s, x)[i] = Append(s, x)[j]
      PROVE  i = j
  BY <1>1, <1>3 DEF ToSet, IsInjective
<1> QED
  BY <1>2, <1>3 DEF IsInjective

(* An event received from a queue is one element less.                        *)
LEMMA TailQueue ==
    ASSUME NEW S, NEW s \in Seq(S), s # <<>>
    PROVE  /\ Head(s) \in S /\ Tail(s) \in Seq(S) /\ Len(Tail(s)) <= Len(s)
           /\ ToSet(s) = ToSet(Tail(s)) \cup {Head(s)}
           /\ IsInjective(s) => IsInjective(Tail(s)) /\ Head(s) \notin ToSet(Tail(s))
<1>1. /\ Len(s) \in Nat \ {0} /\ DOMAIN s = 1..Len(s)
      /\ Head(s) = s[1] /\ DOMAIN Tail(s) = 1..Len(s) - 1
      /\ \A i \in 1..Len(s) - 1 : Tail(s)[i] = s[i + 1]
  OBVIOUS
<1>2. Head(s) \in S /\ Tail(s) \in Seq(S) /\ Len(Tail(s)) <= Len(s)
  OBVIOUS
<1>3. \A i \in DOMAIN s : i = 1 \/ (i - 1 \in DOMAIN Tail(s) /\ s[i] = Tail(s)[i - 1])
  BY <1>1
<1>4. ToSet(s) = ToSet(Tail(s)) \cup {Head(s)}
  <2>1. ASSUME NEW e \in ToSet(s)
        PROVE  e \in ToSet(Tail(s)) \cup {Head(s)}
    BY <1>1, <1>3 DEF ToSet
  <2>2. ASSUME NEW e \in ToSet(Tail(s)) \cup {Head(s)}
        PROVE  e \in ToSet(s)
    BY <1>1 DEF ToSet
  <2> QED
    BY <2>1, <2>2
<1>5. ASSUME IsInjective(s)
      PROVE  IsInjective(Tail(s)) /\ Head(s) \notin ToSet(Tail(s))
  BY <1>1, <1>5 DEF IsInjective, ToSet
<1> QED
  BY <1>2, <1>4, <1>5

(* An empty queue has no elements and no duplicates.                          *)
LEMMA EmptyQueue == ToSet(<<>>) = {} /\ IsInjective(<<>>)
BY DEF ToSet, IsInjective

-----------------------------------------------------------------------------
(* Types. *)

(* The worker moves the head of the buffer to its batch, in Collect and in  *)
(* Drain alike.                                                             *)
MoveHead ==
    /\ events # <<>>
    /\ events' = Tail(events)
    /\ batch' = Append(batch, Head(events))

(* Every step keeps the types.                                                *)
LEMMA TypeStep ==
    ASSUME TypeOK, [Next]_vars
    PROVE  TypeOK'
<1> USE UsageAssumption DEF TypeOK, requestVars, queueVars, workerVars
<1>1. ASSUME NEW e \in Event, Begin(e) \/ RecordRow(e)
      PROVE  TypeOK'
  BY <1>1 DEF Begin, RecordRow
<1>2. ASSUME NEW e \in Event, Emit(e)
      PROVE  TypeOK'
  <2>1. request' \in [Event -> {"waiting", "running", "recorded", "emitted"}]
    BY <1>2 DEF Emit
  <2>2. CASE Len(events) < BufferSize
    <3>1. events' = Append(events, e) /\ dropped' = dropped
      BY <1>2, <2>2 DEF Emit
    <3>2. events' \in Seq(Event) /\ Len(events') = Len(events) + 1 /\ Len(events) \in Nat
      BY <3>1
    <3>3. Len(events') <= BufferSize
      BY <2>2, <3>2
    <3> QED
      BY <1>2, <2>1, <3>1, <3>2, <3>3 DEF Emit
  <2>3. CASE ~(Len(events) < BufferSize)
    BY <1>2, <2>1, <2>3 DEF Emit
  <2> QED
    BY <2>2, <2>3
<1>3. CASE Collect
  <2>1. MoveHead
    BY <1>3 DEF Collect, MoveHead
  <2>2. events' \in Seq(Event) /\ Len(events') <= BufferSize /\ batch' \in Seq(Event)
    BY <2>1, TailQueue, AppendQueue DEF MoveHead
  <2> QED
    BY <1>3, <2>2 DEF Collect
<1>4. CASE Drain
  <2>1. MoveHead
    BY <1>4 DEF Drain, MoveHead
  <2>2. events' \in Seq(Event) /\ Len(events') <= BufferSize /\ batch' \in Seq(Event)
    BY <2>1, TailQueue, AppendQueue DEF MoveHead
  <2> QED
    BY <1>4, <2>2 DEF Drain
<1>5. CASE FlushTick \/ NoticeDone \/ Drained
  BY <1>5 DEF FlushTick, NoticeDone, Drained
<1>6. CASE Upload
  <2>1. CASE Posted
    BY <1>6, <2>1 DEF Upload, Posted
  <2>2. CASE PostFailed
    BY <1>6, <2>2 DEF Upload, PostFailed, ToSet
  <2> QED
    BY <1>6, <2>1, <2>2 DEF Upload
<1>7. CASE Interrupt \/ SinkClosed \/ CloseStore \/ Exit
  BY <1>7 DEF Interrupt, SinkClosed, CloseStore, Exit
<1>8. CASE CloseSink
  BY <1>8 DEF CloseSink, ToSet
<1>9. CASE UNCHANGED vars
  BY <1>9 DEF vars
<1> QED
  BY <1>1, <1>2, <1>3, <1>4, <1>5, <1>6, <1>7, <1>8, <1>9 DEF Next, Worker, Shutdown

(* The types at the start.                                                    *)
LEMMA TypeInit == ASSUME Init PROVE TypeOK
<1>1. <<>> \in Seq(Event) /\ Len(<<>>) = 0
  OBVIOUS
<1>2. posts \in [Event -> Nat]
  BY DEF Init
<1>3. request \in [Event -> {"waiting", "running", "recorded", "emitted"}]
  BY DEF Init
<1>4. events \in Seq(Event) /\ Len(events) <= BufferSize /\ batch \in Seq(Event)
  BY <1>1, UsageAssumption DEF Init
<1>5. rows \subseteq Event /\ refused \subseteq Event /\ failed \subseteq Event /\ due \subseteq Event
  BY DEF Init
<1>6. /\ dropped \in Nat /\ done \in BOOLEAN
      /\ worker \in {"selecting", "uploading", "draining", "lastUpload", "stopped"}
      /\ main \in {"serving", "stoppingServer", "closingSink", "closingStore", "storeClosed", "exited"}
  BY DEF Init
<1> QED
  BY <1>2, <1>3, <1>4, <1>5, <1>6 DEF TypeOK

(* Every variable of the sink keeps its type; the buffer never holds more   *)
(* than its size.                                                           *)
THEOREM TypeCorrect == Spec => []TypeOK
BY TypeInit, TypeStep, PTL DEF Spec

-----------------------------------------------------------------------------
(* The inductive invariant. *)

(* No event is twice in the buffer or in the batch, which with              *)
(* EventsConserved gives that none is posted twice.                         *)
NoDuplicates == IsInjective(events) /\ IsInjective(batch) /\ PostedAtMostOnce

(* The store is closed only after the worker, which stops with an empty     *)
(* batch.  The worker drains only after Close was called.                   *)
ShutdownOrder ==
    /\ main \in {"closingStore", "storeClosed", "exited"} => worker = "stopped"
    /\ worker = "stopped" => batch = <<>>
    /\ worker \in {"draining", "lastUpload", "stopped"} => done

(* As long as the worker can still post, whatever was handed to the sink    *)
(* was offered to the open store.                                           *)
OfferedFirst ==
    /\ worker # "stopped" =>
         \A e \in Event : request[e] \in {"recorded", "emitted"} => e \in rows \cup refused
    /\ PostedWasOffered

(* What Close found is accounted for, and once the worker has drained none  *)
(* of it is in the buffer.                                                  *)
DueAccounted ==
    /\ due \subseteq OnTheWay \cup Accepted \cup failed
    /\ main \in {"serving", "stoppingServer"} => ~done
    /\ worker \in {"lastUpload", "stopped"} => due \cap ToSet(events) = {}

IInv == EventsConserved /\ NoDuplicates /\ ShutdownOrder /\ OfferedFirst /\ DueAccounted

Placed == OnTheWay \cup Accepted \cup failed

(* The invariant at the start: every event is still to come.                  *)
LEMMA InitIInv == ASSUME Init PROVE IInv
<1>1. Emitted = {} /\ Accepted = {} /\ OnTheWay = {} /\ ToSet(events) = {} /\ ToSet(batch) = {}
  BY EmptyQueue DEF Init, Emitted, Accepted, OnTheWay
<1>2. Cardinality({}) = 0
  BY FS_EmptySet
<1>3. EventsConserved
  BY <1>1, <1>2 DEF EventsConserved, Init
<1> QED
  BY <1>1, <1>3, EmptyQueue
    
     DEF IInv, Init, NoDuplicates, PostedAtMostOnce, ShutdownOrder, OfferedFirst, PostedWasOffered, DueAccounted

-----------------------------------------------------------------------------
(* Steps. *)

(* A request that records its event keeps the invariant.                      *)
LEMMA RequestStep ==
    ASSUME TypeOK, IInv, NEW e \in Event, Begin(e) \/ RecordRow(e)
    PROVE  IInv'
<1>1. /\ Emitted' = Emitted /\ Accepted' = Accepted /\ OnTheWay' = OnTheWay
      /\ UNCHANGED <<events, batch, posts, failed, dropped, worker, done, main, due>>
  BY DEF Begin, RecordRow, queueVars, workerVars, TypeOK, Emitted, Accepted, OnTheWay
<1>2. EventsConserved' /\ NoDuplicates' /\ ShutdownOrder' /\ DueAccounted'
  BY <1>1 DEF IInv, EventsConserved, NoDuplicates, PostedAtMostOnce, ShutdownOrder, DueAccounted
<1>3. OfferedFirst'
  BY <1>1
     DEF IInv, OfferedFirst, PostedWasOffered, ShutdownOrder, Begin, RecordRow, StoreOpen, TypeOK
<1> QED
  BY <1>2, <1>3 DEF IInv

(* Emit, into the buffer or dropped, keeps the invariant.                     *)
LEMMA EmitStep ==
    ASSUME TypeOK, IInv, NEW e \in Event, Emit(e)
    PROVE  IInv'
<1>1. /\ e \notin Emitted /\ Emitted' = Emitted \cup {e} /\ Accepted' = Accepted
      /\ UNCHANGED <<rows, refused, batch, posts, failed, worker, done, main, due>>
  BY DEF Emit, workerVars, TypeOK, Emitted, Accepted
<1>2. e \notin Placed
  BY <1>1 DEF IInv, EventsConserved, Placed
<1>3. ShutdownOrder' /\ OfferedFirst' /\ PostedAtMostOnce'
  <2>1. ShutdownOrder' /\ PostedAtMostOnce'
    BY <1>1 DEF IInv, NoDuplicates, PostedAtMostOnce, ShutdownOrder
  <2>2. OfferedFirst'
    BY <1>1 DEF IInv, OfferedFirst, PostedWasOffered, Emit, TypeOK
  <2> QED
    BY <2>1, <2>2
<1>4. IsFiniteSet(Emitted \ Placed)
  BY UsageAssumption, FS_Subset DEF Emitted
<1>5. CASE Len(events) < BufferSize
  <2>1. events' = Append(events, e) /\ dropped' = dropped
    BY <1>5 DEF Emit
  <2>2. ToSet(events') = ToSet(events) \cup {e}
    BY <2>1, AppendQueue DEF TypeOK
  <2>3. IsInjective(events')
    BY <2>1, <1>2, AppendQueue DEF TypeOK, IInv, NoDuplicates, Placed, OnTheWay
  <2>4. OnTheWay' = OnTheWay \cup {e}
    BY <2>2, <1>1 DEF OnTheWay
  <2>5. Emitted' \ Placed' = Emitted \ Placed
    BY <2>4, <1>1 DEF Placed
  <2>6. EventsConserved'
    <3>1. ToSet(events') \cap ToSet(batch') = {}
      BY <1>1, <1>2, <2>2 DEF IInv, EventsConserved, Placed, OnTheWay
    <3>2. OnTheWay' \cap (Accepted \cup failed)' = {}
      BY <1>1, <1>2, <2>4 DEF IInv, EventsConserved, Placed
    <3>3. (Accepted \cap failed)' = {} /\ Placed' \subseteq Emitted'
      BY <1>1, <2>4 DEF IInv, EventsConserved, Placed
    <3>4. Cardinality(Emitted' \ Placed') = dropped'
      BY <2>1, <2>5 DEF IInv, EventsConserved, Placed
    <3> QED
      BY <3>1, <3>2, <3>3, <3>4 DEF EventsConserved, Placed
  <2>7. DueAccounted'
    BY <1>1, <1>2, <2>2, <2>4 DEF IInv, DueAccounted, Placed
  <2> QED
    BY <1>1, <1>3, <2>3, <2>6, <2>7 DEF IInv, NoDuplicates
<1>6. CASE ~(Len(events) < BufferSize)
  <2>1. events' = events /\ dropped' = dropped + 1
    BY <1>6 DEF Emit
  <2>2. OnTheWay' = OnTheWay
    BY <2>1, <1>1 DEF OnTheWay
  <2>3. Emitted' \ Placed' = (Emitted \ Placed) \cup {e}
    BY <2>2, <1>1, <1>2 DEF Placed
  <2>4. Cardinality(Emitted' \ Placed') = Cardinality(Emitted \ Placed) + 1
    BY <2>3, <1>1, <1>4, FS_AddElement
  <2>5. EventsConserved'
    BY <1>1, <2>1, <2>2, <2>4 DEF IInv, EventsConserved, Placed
  <2> QED
    BY <1>1, <1>3, <2>1, <2>2, <2>5 DEF IInv, NoDuplicates, DueAccounted
<1> QED
  BY <1>5, <1>6

(* Moving an event to the batch changes no account of it.                   *)
LEMMA MoveStep ==
    ASSUME TypeOK, IInv, Collect \/ Drain
    PROVE  IInv'
<1>1. /\ MoveHead
      /\ UNCHANGED <<request, rows, refused, posts, failed, dropped, done, main, due>>
      /\ worker \in {"selecting", "draining"} /\ worker' \in {"selecting", "uploading", "draining"}
      /\ worker' = "draining" => worker = "draining"
  BY DEF Collect, Drain, MoveHead, requestVars
<1>2. /\ events # <<>> /\ Head(events) \in Event
      /\ ToSet(events) = ToSet(events') \cup {Head(events)}
      /\ IsInjective(events') /\ Head(events) \notin ToSet(events')
  BY <1>1, TailQueue DEF MoveHead, TypeOK, IInv, NoDuplicates
<1>3. /\ ToSet(batch') = ToSet(batch) \cup {Head(events)}
      /\ IsInjective(batch')
  BY <1>1, <1>2, AppendQueue DEF MoveHead, TypeOK, IInv, NoDuplicates, EventsConserved
<1>4. OnTheWay' = OnTheWay /\ Emitted' = Emitted /\ Accepted' = Accepted
  BY <1>1, <1>2, <1>3 DEF OnTheWay, Emitted, Accepted
<1>5. EventsConserved'
  BY <1>1, <1>2, <1>3, <1>4 DEF IInv, EventsConserved
<1>6. NoDuplicates'
  BY <1>1, <1>2, <1>3 DEF IInv, NoDuplicates, PostedAtMostOnce
<1>7. ShutdownOrder' /\ OfferedFirst' /\ DueAccounted'
  BY <1>1, <1>4 DEF IInv, ShutdownOrder, OfferedFirst, PostedWasOffered, DueAccounted
<1> QED
  BY <1>5, <1>6, <1>7 DEF IInv

(* The worker's turns without an event, tick and drain, keep the invariant.   *)
LEMMA SelectStep ==
    ASSUME TypeOK, IInv, FlushTick \/ NoticeDone \/ Drained
    PROVE  IInv'
<1>1. /\ Emitted' = Emitted /\ Accepted' = Accepted /\ OnTheWay' = OnTheWay
      /\ UNCHANGED <<request, rows, refused, events, batch, posts, failed, dropped, done, main, due>>
  BY DEF FlushTick, NoticeDone, Drained, requestVars, queueVars, Emitted, Accepted, OnTheWay
<1>2. EventsConserved' /\ NoDuplicates'
  BY <1>1 DEF IInv, EventsConserved, NoDuplicates, PostedAtMostOnce
<1>3. ShutdownOrder' /\ OfferedFirst' /\ DueAccounted'
  BY <1>1, EmptyQueue
    
     DEF IInv, ShutdownOrder, OfferedFirst, PostedWasOffered, DueAccounted, FlushTick, NoticeDone, Drained
<1> QED
  BY <1>2, <1>3 DEF IInv

(* A flush of the worker keeps the invariant.                                 *)
LEMMA UploadStep ==
    ASSUME TypeOK, IInv, Upload
    PROVE  IInv'
<1>1. /\ UNCHANGED <<request, rows, refused, events, dropped, done, main, due>>
      /\ worker \in {"uploading", "lastUpload"}
      /\ worker' = IF worker = "uploading" THEN "selecting" ELSE "stopped"
      /\ batch' = <<>>
      /\ Posted \/ PostFailed
  BY DEF Upload, Posted, PostFailed, requestVars, queueVars
<1>2. ToSet(batch') = {} /\ IsInjective(batch') /\ OnTheWay' = ToSet(events) /\ Emitted' = Emitted
  BY <1>1, EmptyQueue DEF OnTheWay, Emitted
<1>3. ToSet(batch) \subseteq rows \cup refused /\ ToSet(batch) \subseteq Event
  <2>1. ToSet(batch) \subseteq Event
    BY DEF ToSet, TypeOK
  <2> QED
    BY <1>1, <2>1 DEF IInv, OfferedFirst, PostedWasOffered, EventsConserved, OnTheWay, Emitted
<1>4. /\ (Accepted' = Accepted \cup ToSet(batch) /\ failed' = failed)
         \/ (Accepted' = Accepted /\ failed' = failed \cup ToSet(batch))
      /\ PostedAtMostOnce'
  <2>1. \A e \in ToSet(batch) : posts[e] = 0
    BY <1>3 DEF IInv, EventsConserved, OnTheWay, Accepted, TypeOK
  <2>2. CASE Posted
    <3>1. Accepted' = Accepted \cup ToSet(batch)
      BY <2>2, <1>3 DEF Posted, Accepted, TypeOK
    <3>2. PostedAtMostOnce'
      BY <2>1, <2>2 DEF Posted, PostedAtMostOnce, IInv, NoDuplicates, TypeOK
    <3> QED
      BY <2>2, <3>1, <3>2 DEF Posted
  <2>3. CASE PostFailed
    BY <2>3 DEF PostFailed, Accepted, PostedAtMostOnce, IInv, NoDuplicates
  <2> QED
    BY <1>1, <2>2, <2>3
<1>5. Placed' = Placed
  BY <1>2, <1>4 DEF Placed, OnTheWay
<1>6. EventsConserved'
  BY <1>1, <1>2, <1>4, <1>5 DEF IInv, EventsConserved, Placed, OnTheWay
<1>7. NoDuplicates'
  BY <1>1, <1>2, <1>4 DEF IInv, NoDuplicates
<1>8. ShutdownOrder' /\ OfferedFirst'
  BY <1>1, <1>3, <1>4 DEF IInv, ShutdownOrder, OfferedFirst, PostedWasOffered
<1>9. DueAccounted'
  BY <1>1, <1>5 DEF IInv, DueAccounted, Placed
<1> QED
  BY <1>6, <1>7, <1>8, <1>9 DEF IInv

(* The steps of the process's shutdown keep the invariant.                    *)
LEMMA MainStep ==
    ASSUME TypeOK, IInv, Interrupt \/ Shutdown
    PROVE  IInv'
<1>1. /\ Emitted' = Emitted /\ Accepted' = Accepted /\ OnTheWay' = OnTheWay
      /\ UNCHANGED <<request, rows, refused, events, batch, posts, failed, dropped, worker>>
  BY DEF Interrupt, Shutdown, CloseSink, SinkClosed, CloseStore, Exit, requestVars, queueVars,
         workerVars, Emitted, Accepted, OnTheWay
<1>2. EventsConserved' /\ NoDuplicates'
  BY <1>1 DEF IInv, EventsConserved, NoDuplicates, PostedAtMostOnce
<1>3. ShutdownOrder' /\ OfferedFirst'
  BY <1>1
     DEF IInv, ShutdownOrder, OfferedFirst, PostedWasOffered, Interrupt, Shutdown, CloseSink, SinkClosed, CloseStore, Exit
<1>4. DueAccounted'
  <2>1. CASE CloseSink
    <3>1. ~done /\ worker \notin {"lastUpload", "stopped"}
      BY <2>1 DEF CloseSink, IInv, DueAccounted, ShutdownOrder
    <3> QED
      BY <1>1, <2>1, <3>1 DEF CloseSink, DueAccounted, OnTheWay
  <2>2. CASE Interrupt \/ SinkClosed \/ CloseStore \/ Exit
    BY <1>1, <2>2 DEF IInv, DueAccounted, Interrupt, SinkClosed, CloseStore, Exit
  <2> QED
    BY <2>1, <2>2 DEF Shutdown
<1> QED
  BY <1>2, <1>3, <1>4 DEF IInv

(* Every step keeps the invariant.                                            *)
LEMMA StepIInv ==
    ASSUME TypeOK, IInv, [Next]_vars
    PROVE  IInv'
<1>1. CASE UNCHANGED vars
  BY <1>1 DEF vars, requestVars, queueVars, workerVars, IInv, EventsConserved, NoDuplicates,
     PostedAtMostOnce, ShutdownOrder, OfferedFirst, PostedWasOffered, DueAccounted, Emitted, Accepted, OnTheWay
<1>2. CASE Next
  BY <1>2, RequestStep, EmitStep, MoveStep, SelectStep, UploadStep, MainStep DEF Next, Worker
<1> QED
  BY <1>1, <1>2

(* Types and invariant hold of every state of the sink.                       *)
LEMMA Invariance == Spec => [](TypeOK /\ IInv)
<1>1. Init => TypeOK /\ IInv
  BY TypeInit, InitIInv
<1>2. TypeOK /\ IInv /\ [Next]_vars => TypeOK' /\ IInv'
  BY TypeStep, StepIInv
<1> QED
  BY <1>1, <1>2, PTL DEF Spec

-----------------------------------------------------------------------------
(* Every event handed to the sink is in one place or counted as dropped.    *)
THEOREM Conservation == Spec => []EventsConserved
<1>1. IInv => EventsConserved
  BY DEF IInv
<1> QED
  BY <1>1, Invariance, PTL

(* No usage event is posted twice, whatever posts fail.                     *)
THEOREM AtMostOnce == Spec => []PostedAtMostOnce
<1>1. IInv => PostedAtMostOnce
  BY DEF IInv, NoDuplicates
<1> QED
  BY <1>1, Invariance, PTL

(* What Azure has, the local database has or refused while it was open,     *)
(* whatever the order in which requests, worker and shutdown run.           *)
THEOREM OfferedBeforePosted == Spec => []PostedWasOffered
<1>1. IInv => PostedWasOffered
  BY DEF IInv, OfferedFirst, PostedWasOffered
<1> QED
  BY <1>1, Invariance, PTL

(* When Close has returned, all that it found was posted, or its post       *)
(* failed.                                                                  *)
THEOREM CloseFlushesAll == Spec => []CloseFlushes
<1>1. IInv => CloseFlushes
  BY EmptyQueue DEF IInv, ShutdownOrder, DueAccounted, OnTheWay, CloseFlushes
<1> QED
  BY <1>1, Invariance, PTL
=============================================================================

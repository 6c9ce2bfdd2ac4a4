---------------------------- MODULE RequestServing ----------------------------
(***************************************************************************)
(* The goroutines that serve non-streamed requests: Gateway.PrepareWithWait,*)
(* Router.Select, CompleteResult with its failover through SelectExcluding *)
(* (gateway.go, routing.go), and CreateEmbeddings, which selects once.     *)
(*                                                                         *)
(* Every critical section is a step of its own: a goroutine looks at a     *)
(* candidate (Available), then takes a global token, then tries the        *)
(* account, and the others, the administrator and the clock run between.   *)
(* Request is a set of goroutines; each serves one request after another.  *)
(***************************************************************************)
EXTENDS AccountPool

CONSTANTS
    Request,      \* request goroutines
    Kind,         \* Kind[r]: "chat" or "embeddings"
    MaxPolls,     \* 200ms polls that fit in RouteBusyWaitSeconds
    None          \* no account

ASSUME RequestAssumption ==
    /\ IsFiniteSet(Request)
    /\ Kind \in [Request -> {"chat", "embeddings"}]
    /\ MaxPolls \in Nat
    /\ None \notin Account

VARIABLES
    pc,         \* where each goroutine is
    held,       \* the account whose slot it holds
    target,     \* the account it is trying to acquire
    cands,      \* candidates it has not tried in this selection
    eligible,   \* all candidates of this selection
    excluded,   \* ids that already failed this request
    polls,      \* polls left before the busy-wait deadline
    gone,       \* ctx was cancelled while PrepareWithWait runs
    outcome     \* what the caller is told

selection == <<target, cands, eligible>>
requestVars == <<pc, held, selection, excluded, polls, gone, outcome>>
vars == <<poolVars, requestVars>>

Outcome == {"none", "ok", "retry", "error", "busy", "no_account", "rate_limited", "cancelled"}

Location == {"idle", "prepare", "invalid", "pick", "global", "acquire", "call", "release",
             "reselect", "wait", "done"}

Goto(r, l) == pc' = [pc EXCEPT ![r] = l]

(* The locals of Select go out of scope.                                    *)
SelectionEnds(r) ==
    /\ target' = [target EXCEPT ![r] = None]
    /\ cands' = [cands EXCEPT ![r] = {}]
    /\ eligible' = [eligible EXCEPT ![r] = {}]

Answer(r, o) == Goto(r, "done") /\ outcome' = [outcome EXCEPT ![r] = o]

FailingOver(r) == excluded[r] # {}

(* Mutant: the failover selects like the first selection.                   *)
NothingExcluded(r) == Candidates

NotExcluded(r) == {a \in Candidates : IdOf[a] \notin excluded[r]}

-----------------------------------------------------------------------------
(* A chat has the polls that fit before its deadline, and may ask for a     *)
(* reasoning effort or a context tier that does not exist.                  *)
Arrive(r) ==
    /\ pc[r] = "idle"
    /\ \/ Goto(r, "prepare")
       \/ Kind[r] = "chat" /\ Goto(r, "invalid")
    /\ polls' = [polls EXCEPT ![r] = IF Kind[r] = "chat" THEN MaxPolls ELSE 0]
    /\ UNCHANGED <<poolVars, held, selection, excluded, gone, outcome>>

(* PrepareWithWait alone looks at the context itself: later, a backend that *)
(* returns early because of it fails like any other.                        *)
Disconnect(r) ==
    /\ Kind[r] = "chat" /\ ~gone[r] /\ ~FailingOver(r)
    /\ pc[r] \in {"prepare", "invalid", "pick", "global", "acquire", "wait"}
    /\ gone' = [gone EXCEPT ![r] = TRUE]
    /\ UNCHANGED <<poolVars, pc, held, selection, excluded, polls, outcome>>

(* Prepare finds the answer in the cache: no account is needed.             *)
CacheHit(r) ==
    /\ pc[r] = "prepare" /\ Kind[r] = "chat"
    /\ Answer(r, "ok")
    /\ UNCHANGED <<poolVars, held, selection, excluded, polls, gone>>

(* Prepare refuses the effort or the tier.  That is neither of the errors   *)
(* PrepareWithWait returns at once, so it polls until its deadline.         *)
PrepareInvalid(r) ==
    /\ pc[r] = "invalid"
    /\ \/ /\ polls[r] > 0
          /\ polls' = [polls EXCEPT ![r] = @ - 1]
          /\ UNCHANGED <<pc, outcome>>
       \/ polls[r] = 0 /\ Answer(r, "error") /\ UNCHANGED polls
       \/ gone[r] /\ Answer(r, "cancelled") /\ UNCHANGED polls
    /\ UNCHANGED <<poolVars, held, selection, excluded, gone>>

BeginPicking(r, from) ==
    /\ cands' = [cands EXCEPT ![r] = from]
    /\ eligible' = [eligible EXCEPT ![r] = from]
    /\ Goto(r, "pick")
    /\ UNCHANGED <<poolVars, held, target, excluded, polls, gone, outcome>>

(* The head of Router.Select.                                               *)
Select(r) ==
    /\ pc[r] = "prepare"
    /\ \/ /\ Candidates = {}
          /\ Answer(r, "no_account")
          /\ UNCHANGED <<poolVars, held, selection, excluded, polls, gone>>
       \/ /\ Candidates # {} /\ RateLimited(global)
          /\ Answer(r, "rate_limited")
          /\ UNCHANGED <<poolVars, held, selection, excluded, polls, gone>>
       \/ /\ Candidates # {} /\ ~RateLimited(global)
          /\ BeginPicking(r, Candidates)

(* The head of Router.SelectExcluding.                                      *)
SelectExcluding(r) ==
    /\ pc[r] = "reselect"
    /\ \/ /\ RateLimited(global)
          /\ Answer(r, "error")
          /\ UNCHANGED <<poolVars, held, selection, excluded, polls, gone>>
       \/ /\ ~RateLimited(global)
          /\ BeginPicking(r, NotExcluded(r))

(* The candidate goes, with everything under its id; on to the next.        *)
Discard(r, a) ==
    /\ cands' = [cands EXCEPT ![r] = @ \ SameId(a)]
    /\ target' = [target EXCEPT ![r] = None]
    /\ Goto(r, "pick")
    /\ UNCHANGED <<held, eligible, excluded, polls, gone, outcome>>

(* Which candidate a strategy picks depends on counters it reads without    *)
(* their locks: any may come first.                                         *)
Pick(r, a) ==
    /\ pc[r] = "pick" /\ a \in cands[r]
    /\ \/ /\ Available(a)
          /\ target' = [target EXCEPT ![r] = a]
          /\ Goto(r, "global")
          /\ UNCHANGED <<held, cands, eligible, excluded, polls, gone, outcome>>
       \/ /\ ~Available(a)
          /\ Discard(r, a)
    /\ UNCHANGED poolVars

TakeGlobalToken(r) ==
    /\ pc[r] = "global"
    /\ \/ /\ ConsumeGlobal
          /\ Goto(r, "acquire")
          /\ UNCHANGED <<held, selection, excluded, polls, gone, outcome>>
       \/ /\ RateLimited(global)
          /\ Discard(r, target[r])
          /\ UNCHANGED poolVars

(* With an account PrepareWithWait returns, and its deadline with it.       *)
TryAcquire(r) ==
    /\ pc[r] = "acquire"
    /\ \/ /\ Admit(target[r])
          /\ held' = [held EXCEPT ![r] = target[r]]
          /\ SelectionEnds(r)
          /\ polls' = [polls EXCEPT ![r] = 0]
          /\ gone' = [gone EXCEPT ![r] = FALSE]
          /\ Goto(r, "call")
          /\ UNCHANGED <<excluded, outcome>>
       \/ /\ Refuse(target[r])
          /\ Discard(r, target[r])

(* No candidate is left.  A failover ends with the last backend error; a    *)
(* first selection ends as rate limited, or busy, and then a chat polls.    *)
AllRateLimited(r) == \A a \in eligible[r] : RateLimited(bucket[a])

Exhausted(r) ==
    /\ pc[r] = "pick" /\ cands[r] = {}
    /\ \/ FailingOver(r) /\ Answer(r, "error") /\ UNCHANGED polls
       \/ ~FailingOver(r) /\ AllRateLimited(r) /\ Answer(r, "rate_limited") /\ UNCHANGED polls
       \/ /\ ~FailingOver(r) /\ ~AllRateLimited(r)
          /\ Kind[r] = "embeddings" \/ polls[r] = 0
          /\ Answer(r, "busy") /\ UNCHANGED polls
       \/ /\ ~FailingOver(r) /\ ~AllRateLimited(r)
          /\ Kind[r] = "chat" /\ polls[r] > 0
          /\ Goto(r, "wait")
          /\ polls' = [polls EXCEPT ![r] = @ - 1]
          /\ UNCHANGED outcome
    /\ SelectionEnds(r)
    /\ UNCHANGED <<poolVars, held, excluded, gone>>

(* Mutant: the deadline is computed anew at every poll.                     *)
PollAfresh(r) ==
    /\ pc[r] = "wait"
    /\ \/ Goto(r, "prepare") /\ polls' = [polls EXCEPT ![r] = MaxPolls] /\ UNCHANGED outcome
       \/ gone[r] /\ Answer(r, "cancelled") /\ UNCHANGED polls
    /\ UNCHANGED <<poolVars, held, selection, excluded, gone>>

(* PrepareWithWait's select between the poll timer and ctx.Done().          *)
PollAgain(r) ==
    /\ pc[r] = "wait"
    /\ \/ Goto(r, "prepare") /\ UNCHANGED outcome
       \/ gone[r] /\ Answer(r, "cancelled")
    /\ UNCHANGED <<poolVars, held, selection, excluded, polls, gone>>

-----------------------------------------------------------------------------
(* Backend.Chat or Backend.Embeddings returns, and the result is recorded.  *)

BackendSucceeds(r) ==
    /\ pc[r] = "call"
    /\ RecordSuccess(held[r])
    /\ outcome' = [outcome EXCEPT ![r] = "ok"]
    /\ Goto(r, "release")
    /\ UNCHANGED <<held, selection, excluded, polls, gone>>

Retryable(r, kind) == Kind[r] = "chat" /\ kind # "client"

BackendFails(r, kind) ==
    /\ pc[r] = "call"
    /\ RecordFailure(held[r], kind)
    /\ outcome' = [outcome EXCEPT ![r] = IF Retryable(r, kind) THEN "retry" ELSE "error"]
    /\ Goto(r, "release")
    /\ UNCHANGED <<held, selection, excluded, polls, gone>>

(* ErrEmbeddingsUnsupported is reported and not recorded.                   *)
EmbeddingsUnsupported(r) ==
    /\ pc[r] = "call" /\ Kind[r] = "embeddings"
    /\ outcome' = [outcome EXCEPT ![r] = "error"]
    /\ Goto(r, "release")
    /\ UNCHANGED <<poolVars, held, selection, excluded, polls, gone>>

(* Mutant: the failover moves on without releasing the failed account.      *)
ReleaseAtTheEnd(r) ==
    /\ pc[r] = "release"
    /\ held' = [held EXCEPT ![r] = None]
    /\ IF outcome[r] = "retry"
       THEN /\ excluded' = [excluded EXCEPT ![r] = @ \cup {IdOf[held[r]]}]
            /\ Goto(r, "reselect") /\ UNCHANGED poolVars
       ELSE ReleaseSlot(held[r]) /\ Goto(r, "done") /\ UNCHANGED excluded
    /\ UNCHANGED <<selection, polls, gone, outcome>>

Release(r) ==
    /\ pc[r] = "release"
    /\ ReleaseSlot(held[r])
    /\ held' = [held EXCEPT ![r] = None]
    /\ IF outcome[r] = "retry"
       THEN /\ excluded' = [excluded EXCEPT ![r] = @ \cup {IdOf[held[r]]}]
            /\ Goto(r, "reselect")
       ELSE Goto(r, "done") /\ UNCHANGED excluded
    /\ UNCHANGED <<selection, polls, gone, outcome>>

(* The handler writes the answer; its goroutine is free for another request.*)
Reply(r) ==
    /\ pc[r] = "done"
    /\ Goto(r, "idle")
    /\ excluded' = [excluded EXCEPT ![r] = {}]
    /\ polls' = [polls EXCEPT ![r] = 0]
    /\ gone' = [gone EXCEPT ![r] = FALSE]
    /\ outcome' = [outcome EXCEPT ![r] = "none"]
    /\ UNCHANGED <<poolVars, held, selection>>

-----------------------------------------------------------------------------
Routing(r) ==
    \/ CacheHit(r) \/ PrepareInvalid(r) \/ Select(r) \/ SelectExcluding(r)
    \/ (\E a \in Account : Pick(r, a)) \/ TakeGlobalToken(r) \/ TryAcquire(r)
    \/ Exhausted(r) \/ PollAgain(r)

BackendReturns(r) ==
    BackendSucceeds(r) \/ EmbeddingsUnsupported(r) \/ \E kind \in FailureKind : BackendFails(r, kind)

(* What the goroutine itself does, once it has a request.                   *)
Serve(r) == Routing(r) \/ BackendReturns(r) \/ Release(r) \/ Reply(r)

Client(r) == Arrive(r) \/ Disconnect(r)

Init ==
    /\ PoolInit
    /\ pc = [r \in Request |-> "idle"]
    /\ held = [r \in Request |-> None]
    /\ target = [r \in Request |-> None]
    /\ cands = [r \in Request |-> {}]
    /\ eligible = [r \in Request |-> {}]
    /\ excluded = [r \in Request |-> {}]
    /\ polls = [r \in Request |-> 0]
    /\ gone = [r \in Request |-> FALSE]
    /\ outcome = [r \in Request |-> "none"]

Next ==
    \/ \E r \in Request : Client(r) \/ Serve(r)
    \/ Environment /\ UNCHANGED requestVars

Spec == Init /\ [][Next]_vars

(* The Go scheduler runs every goroutine that can run, and the SDK backend  *)
(* answers Chat within its own timeout; clients, the administrator and the  *)
(* clock are promised nothing.                                              *)
FairSpec == Spec /\ \A r \in Request : WF_vars(Serve(r))

-----------------------------------------------------------------------------
TypeOK ==
    /\ PoolTypeOK
    /\ pc \in [Request -> Location]
    /\ held \in [Request -> Account \cup {None}]
    /\ target \in [Request -> Account \cup {None}]
    /\ cands \in [Request -> SUBSET Account]
    /\ eligible \in [Request -> SUBSET Account]
    /\ excluded \in [Request -> SUBSET Id]
    /\ polls \in [Request -> 0..MaxPolls]
    /\ gone \in [Request -> BOOLEAN]
    /\ outcome \in [Request -> Outcome]

Holders(a) == {r \in Request : held[r] = a}

(* Account.InFlight is the number of requests that hold one of the          *)
(* account's slots: no path through selection, failover, an error or a      *)
(* disconnect loses a Release or releases twice, and removing or disabling  *)
(* the account meanwhile changes nothing.                                   *)
SlotsAccounted == \A a \in Account : inFlight[a] = Cardinality(Holders(a))

(* Account.TryAcquire keeps an account at or below max_concurrency although *)
(* every selector checked Available in an earlier step.                     *)
InFlightBounded == \A a \in Account : inFlight[a] <= MaxConcurrency[a]

(* CompleteResult's failover never goes back to an id that failed the same  *)
(* request, even if the id was removed and added again meanwhile.           *)
FailoverMovesOn ==
    \A r \in Request : \A a \in {held[r], target[r]} \ {None} : IdOf[a] \notin excluded[r]

(* Every request is answered: the busy wait, the walk through candidates    *)
(* and the failover all end, whatever the administrator does meanwhile.     *)
EveryRequestAnswered ==
    \A r \in Request : pc[r] \in {"prepare", "invalid"} ~> pc[r] = "done"

(* An account that stays disabled, or stays out of the pool, drains: the    *)
(* requests that hold it finish and no late selector enters.                *)
WithdrawnAccountDrains ==
    \A a \in Account :
        <>[](~enabled[a]) \/ <>[](a \notin pool) => <>[](inFlight[a] = 0)

(* The goroutines together are a pool of counted slots that are all given   *)
(* back: they implement SlotPool.                                           *)
Slots == INSTANCE SlotPool WITH holder <- held, Capacity <- MaxConcurrency

ImplementsSlotPool == Slots!Spec
=============================================================================

------------------------------ MODULE AccountPool ------------------------------
(***************************************************************************)
(* The shared state of the account pool (pool.go): the pooled accounts,    *)
(* their admission state, their RPM token buckets, and the operations the  *)
(* administration endpoints and the clock perform on it.  The modules of   *)
(* the request goroutines extend this one, so an action here says only     *)
(* what happens to the pool's own variables.                               *)
(*                                                                         *)
(* An element of Account is one Account OBJECT.  The pool's map is keyed   *)
(* by id, and an id that is removed and added again gets a new object      *)
(* while requests may still hold the old one.                              *)
(*                                                                         *)
(* Time is abstracted to what admission looks at: cooldown[a] counts the   *)
(* ticks left before a's cooldown ends, a bucket counts whole tokens.      *)
(***************************************************************************)
EXTENDS Naturals, FiniteSets

CONSTANTS
    Account,          \* the account objects that may ever exist
    InitialPool,      \* those installed from the configuration
    Id,               \* configuration ids
    IdOf,             \* IdOf[a]: the id object a is installed under
    MaxConcurrency,   \* MaxConcurrency[a]: its slots
    AccountRPM,       \* every account's configured rpm at first; 0 is no limit
    GlobalRPM,        \* the configured global rpm at first; 0 is no limit
    RateSettings,     \* the rpm values an administrator may set later
    Administered,     \* the accounts an administrator acts on
    ShortBackoff,     \* 30s in the code
    LongBackoff,      \* 120s, after a rate-limit error
    MaxBackoff        \* 300s

ASSUME PoolAssumption ==
    /\ InitialPool \subseteq Account
    /\ IdOf \in [Account -> Id]
    /\ \A a, b \in InitialPool : IdOf[a] = IdOf[b] => a = b
    /\ MaxConcurrency \in [Account -> Nat \ {0}]
    /\ AccountRPM \in Nat /\ GlobalRPM \in Nat /\ RateSettings \subseteq Nat
    /\ Administered \subseteq Account
    /\ ShortBackoff \in Nat \ {0} /\ LongBackoff \in Nat \ {0} /\ MaxBackoff \in Nat

VARIABLES
    pool,         \* the objects in PoolManager.Accounts
    adding,       \* progress of the AddAccount call for an object
    enabled,      \* Account.Enabled
    cooldown,     \* ticks until Account.Cooldown
    failures,     \* Account.Failures, up to MaxBackoff (see RecordFailure)
    inFlight,     \* Account.InFlight
    bucket,       \* Account.RateLimiter
    global,       \* PoolManager.GlobalRateLimiter
    swapped,      \* a running ConfigureRateLimits has replaced global only
    configuring   \* accounts a running ConfigureRateLimits has yet to visit

health == <<cooldown, failures>>
limits == <<bucket, global, swapped, configuring>>
members == <<pool, adding, enabled>>
poolVars == <<members, health, inFlight, limits>>

-----------------------------------------------------------------------------
(* Token buckets.  A bucket with rpm 0 stands for the nil *TokenBucket.     *)

NewTokenBucket(rpm) == [rpm |-> rpm, tokens |-> rpm]

HasToken(b) == b.rpm = 0 \/ b.tokens > 0

Consume(b) == IF b.rpm = 0 THEN b ELSE [b EXCEPT !.tokens = @ - 1]

RateLimited(b) == ~HasToken(b)

Refilled(b) == IF b.tokens < b.rpm THEN [b EXCEPT !.tokens = @ + 1] ELSE b

(* What the pool's readers see. *)

SameId(a) == {b \in Account : IdOf[b] = IdOf[a]}

Available(a) ==
    enabled[a] /\ cooldown[a] = 0 /\ inFlight[a] < MaxConcurrency[a] /\ HasToken(bucket[a])

Candidates == {a \in pool : enabled[a]}

-----------------------------------------------------------------------------
(* Operations on one account, each a critical section of Account.mu.        *)

(* Mutant: the recheck under the lock leaves the slot bound to Available.   *)
MayAdmitUnbounded(a) == enabled[a] /\ cooldown[a] = 0

MayAdmit(a) == enabled[a] /\ cooldown[a] = 0 /\ inFlight[a] < MaxConcurrency[a]

Admit(a) ==
    /\ MayAdmit(a) /\ HasToken(bucket[a])
    /\ bucket' = [bucket EXCEPT ![a] = Consume(@)]
    /\ inFlight' = [inFlight EXCEPT ![a] = @ + 1]
    /\ UNCHANGED <<members, health, global, swapped, configuring>>

Refuse(a) ==
    /\ ~(MayAdmit(a) /\ HasToken(bucket[a]))
    /\ UNCHANGED poolVars

(* Mutant: the slot is given back through a lookup in the pool's map.       *)
ReleaseSlotIfPooled(a) ==
    /\ inFlight' = [inFlight EXCEPT ![a] = IF a \in pool /\ @ > 0 THEN @ - 1 ELSE @]
    /\ UNCHANGED <<members, health, limits>>

ReleaseSlot(a) ==
    /\ inFlight' = [inFlight EXCEPT ![a] = IF @ > 0 THEN @ - 1 ELSE 0]
    /\ UNCHANGED <<members, health, limits>>

RecordSuccess(a) ==
    /\ failures' = [failures EXCEPT ![a] = 0]
    /\ UNCHANGED <<members, cooldown, inFlight, limits>>

(* Mutant: a backoff without its cap.                                       *)
Uncapped(n, bound) == n

AtMost(n, bound) == IF n < bound THEN n ELSE bound

(* How the two classifiers of a backend error combine.  RecordFailure       *)
(* (isNonRetryableClientError, then isRateLimitError, on the text) decides  *)
(* what the account pays: a "rate" error earns the long backoff, a "quiet"  *)
(* and a "client" one nothing.  CompleteResult (isNonRetryableBackendError) *)
(* ends the request on a "client" error only.  "quiet" is where they        *)
(* differ: a typed upstream error that is no 400 with an invalid request,   *)
(* but whose text says so.  The converse, an error that ends the request    *)
(* and is charged, does not exist: an error that is not typed goes through  *)
(* the same list twice, and the text of a typed 400 starts with that list's *)
(* "copilot upstream error 400".  Failures beyond MaxBackoff no longer      *)
(* change the backoff and are not counted.                                  *)
FailureKind == {"plain", "rate", "quiet", "client"}

Penalise(a, kind) ==
    IF kind \in {"quiet", "client"}
    THEN UNCHANGED health
    ELSE LET n == AtMost(failures[a] + 1, MaxBackoff)
             base == IF kind = "rate" THEN LongBackoff ELSE ShortBackoff
         IN  /\ failures' = [failures EXCEPT ![a] = n]
             /\ cooldown' = [cooldown EXCEPT ![a] = AtMost(n * base, MaxBackoff)]

RecordFailure(a, kind) ==
    /\ Penalise(a, kind)
    /\ UNCHANGED <<members, inFlight, limits>>

(* ClearError: a model refresh that reached the account's backend.          *)
ClearError(a) ==
    /\ a \in pool /\ failures[a] > 0
    /\ failures' = [failures EXCEPT ![a] = 0]
    /\ UNCHANGED <<members, cooldown, inFlight, limits>>

(* The single token PoolManager.TryAcquire takes from the global bucket.    *)
ConsumeGlobal ==
    /\ HasToken(global)
    /\ global' = Consume(global)
    /\ UNCHANGED <<members, health, inFlight, bucket, swapped, configuring>>

-----------------------------------------------------------------------------
(* Administration. *)

(* The object is looked up in the map and written under its own lock later, *)
(* when it may have left the map.                                           *)
SetEnabled(a, on) ==
    /\ adding[a] \in {"installed", "failing", "settled"} /\ enabled[a] # on
    /\ enabled' = [enabled EXCEPT ![a] = on]
    /\ UNCHANGED <<pool, adding, health, inFlight, limits>>

(* The object leaves the map; whoever already selected it still has it.     *)
RemoveAccount(a) ==
    /\ a \in pool
    /\ pool' = pool \ {a}
    /\ UNCHANGED <<adding, enabled, health, inFlight, limits>>

(* AddAccount: the existence check, the installation that overwrites the    *)
(* map entry, and the start of the backend are separate critical sections.  *)
AddCheck(a) ==
    /\ adding[a] = "absent" /\ pool \cap SameId(a) = {}
    /\ adding' = [adding EXCEPT ![a] = "checked"]
    /\ UNCHANGED <<pool, enabled, health, inFlight, limits>>

AddInstall(a, rpm) ==
    /\ adding[a] = "checked"
    /\ pool' = (pool \ SameId(a)) \cup {a}
    /\ adding' = [adding EXCEPT ![a] = "installed"]
    /\ bucket' = [bucket EXCEPT ![a] = NewTokenBucket(rpm)]
    /\ UNCHANGED <<enabled, health, inFlight, global, swapped, configuring>>

AddStarted(a) ==
    /\ adding[a] = "installed"
    /\ adding' = [adding EXCEPT ![a] = "settled"]
    /\ UNCHANGED <<pool, enabled, health, inFlight, limits>>

(* StartAccount looks the id up again, so it is whichever object the map    *)
(* holds now that fails to start and is charged with it.                    *)
AddStartFails(a) ==
    /\ adding[a] = "installed" /\ enabled[a]
    /\ adding' = [adding EXCEPT ![a] = "failing"]
    /\ \E b \in pool \cap SameId(a), kind \in FailureKind : Penalise(b, kind)
    /\ UNCHANGED <<pool, enabled, inFlight, limits>>

(* The id is deleted, whichever object it stands for by now.                *)
AddUndone(a) ==
    /\ adding[a] = "failing"
    /\ adding' = [adding EXCEPT ![a] = "settled"]
    /\ pool' = pool \ SameId(a)
    /\ UNCHANGED <<enabled, health, inFlight, limits>>

(* ConfigureRateLimits replaces the global bucket, takes a snapshot of the  *)
(* pool, and replaces every account's bucket, one lock at a time.  A        *)
(* replaced bucket starts full.  Calls may overlap: an account two of them  *)
(* have yet to visit is visited once for both.                              *)
ConfigureGlobal(rpm) ==
    /\ global' = NewTokenBucket(rpm)
    /\ swapped' = TRUE
    /\ UNCHANGED <<members, health, inFlight, bucket, configuring>>

ConfigureSnapshot ==
    /\ swapped
    /\ swapped' = FALSE
    /\ configuring' = configuring \cup pool
    /\ UNCHANGED <<members, health, inFlight, bucket, global>>

ConfigureAccount(a, rpm) ==
    /\ a \in configuring
    /\ bucket' = [bucket EXCEPT ![a] = NewTokenBucket(rpm)]
    /\ configuring' = configuring \ {a}
    /\ UNCHANGED <<members, health, inFlight, global, swapped>>

-----------------------------------------------------------------------------
(* The clock. *)

CooldownTick ==
    /\ \E a \in Account : cooldown[a] > 0
    /\ cooldown' = [a \in Account |-> IF cooldown[a] > 0 THEN cooldown[a] - 1 ELSE 0]
    /\ UNCHANGED <<members, failures, inFlight, limits>>

RefillAccount(a) ==
    /\ bucket[a].tokens < bucket[a].rpm
    /\ bucket' = [bucket EXCEPT ![a] = Refilled(@)]
    /\ UNCHANGED <<members, health, inFlight, global, swapped, configuring>>

RefillGlobal ==
    /\ global.tokens < global.rpm
    /\ global' = Refilled(global)
    /\ UNCHANGED <<members, health, inFlight, bucket, swapped, configuring>>

Clock == CooldownTick \/ RefillGlobal \/ \E a \in Account : RefillAccount(a)

Administration ==
    \/ \E a \in Administered :
         \/ \E on \in BOOLEAN : SetEnabled(a, on)
         \/ RemoveAccount(a)
         \/ AddCheck(a) \/ AddStarted(a) \/ AddStartFails(a) \/ AddUndone(a)
         \/ \E rpm \in RateSettings \cup {AccountRPM} : AddInstall(a, rpm)
    \/ \E a \in Account : ClearError(a) \/ \E rpm \in RateSettings : ConfigureAccount(a, rpm)
    \/ (\E rpm \in RateSettings : ConfigureGlobal(rpm)) \/ ConfigureSnapshot

Environment == Clock \/ Administration

PoolInit ==
    /\ pool = InitialPool
    /\ adding = [a \in Account |-> IF a \in InitialPool THEN "settled" ELSE "absent"]
    /\ enabled \in [Account -> BOOLEAN]
    /\ cooldown = [a \in Account |-> 0]
    /\ failures = [a \in Account |-> 0]
    /\ inFlight = [a \in Account |-> 0]
    /\ bucket = [a \in Account |-> NewTokenBucket(AccountRPM)]
    /\ global = NewTokenBucket(GlobalRPM)
    /\ swapped = FALSE /\ configuring = {}

Bucket == {b \in [rpm : Nat, tokens : Nat] : b.tokens <= b.rpm}

PoolTypeOK ==
    /\ pool \subseteq Account
    /\ adding \in [Account -> {"absent", "checked", "installed", "failing", "settled"}]
    /\ enabled \in [Account -> BOOLEAN]
    /\ cooldown \in [Account -> 0..MaxBackoff]
    /\ failures \in [Account -> 0..MaxBackoff]
    /\ inFlight \in [Account -> Nat]
    /\ bucket \in [Account -> Bucket]
    /\ global \in Bucket
    /\ swapped \in BOOLEAN /\ configuring \subseteq Account
=============================================================================

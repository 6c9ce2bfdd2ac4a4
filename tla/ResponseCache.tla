---------------------------- MODULE ResponseCache ----------------------------
(***************************************************************************)
(* The response cache (cache.go): CacheLayer over MemoryCache, an LRU list *)
(* with a map, a time to live and a bound on the entries, as the request   *)
(* goroutines use it: Lookup while preparing (Gateway.Prepare), Store when *)
(* the answer is complete, and the administrator's Clear in between.       *)
(*                                                                         *)
(* A question is what a client asks: a namespace, the text (model, message *)
(* texts and parameters), and the rest of the messages, which MakeKey      *)
(* leaves out (attachments, tool calls and tool call ids; the Responses    *)
(* and Anthropic endpoints have them among the parameters as well, chat    *)
(* completions have not).  An answer is identified with the question it    *)
(* was computed for.  Hit counters are left out.  The age of an entry is   *)
(* in ticks, up to one past its TTL.                                       *)
(***************************************************************************)
EXTENDS Naturals, FiniteSets, SequencesExt

CONSTANTS
    Client,
    Namespace, Text, Rest,
    MaxEntries,   \* max_entries
    TTL,          \* ttl_seconds
    None

ASSUME CacheAssumption == MaxEntries \in Nat /\ TTL \in Nat

Question == [namespace : Namespace, text : Text, rest : Rest]
Control == {"default", "no-cache", "no-store"}

MakeKey(q) == <<q.namespace, q.text>>

Key == Namespace \X Text

VARIABLES
    order,     \* MemoryCache.order, the next victim first
    record,    \* MemoryCache.items: the answer under each cached key
    age,       \* ticks since the entry was stored
    elapsed,   \* (history) ticks since the answer was stored
    pending,   \* per client: idle, computing, or answered
    asked,     \* per client: its question and its x-ghcp-cache control
    answer,    \* per client: the answer it got, and from where
    used       \* (history) keys by the time they were last hit or stored

cacheVars == <<order, record, age, used, elapsed>>
clientVars == <<pending, asked, answer>>
vars == <<cacheVars, clientVars>>

Cached == DOMAIN record

Bound == IF MaxEntries > 1 THEN MaxEntries ELSE 1

-----------------------------------------------------------------------------
(* MemoryCache, under CacheLayer.mu. *)

(* The list without k's element; the map knows where it is.                 *)
Unlink(q, k) == IF k \in ToSet(q) THEN RemoveAt(q, CHOOSE i \in DOMAIN q : q[i] = k) ELSE q

MoveToBack(k) == order' = Append(Unlink(order, k), k)

Use(k) == used' = Append(Unlink(used, k), k)

Expired(k) == age[k] > TTL

Expire(k) ==
    /\ order' = Unlink(order, k)
    /\ record' = [j \in Cached \ {k} |-> record[j]]
    /\ age' = [j \in Cached \ {k} |-> age[j]]
    /\ elapsed' = [j \in Cached \ {k} |-> elapsed[j]]
    /\ used' = Unlink(used, k)

(* Mutant: a hit renews the entry's time to live.                           *)
HitRenewing(k) ==
    /\ k \in Cached /\ ~Expired(k)
    /\ MoveToBack(k) /\ Use(k)
    /\ age' = [age EXCEPT ![k] = 0]
    /\ UNCHANGED <<record, elapsed>>

Hit(k) ==
    /\ k \in Cached /\ ~Expired(k)
    /\ MoveToBack(k) /\ Use(k)
    /\ UNCHANGED <<record, age, elapsed>>

Miss(k) ==
    \/ k \notin Cached /\ UNCHANGED cacheVars
    \/ k \in Cached /\ Expired(k) /\ Expire(k)

(* Mutant: the victim leaves the list but not the map.                      *)
SetEvictingFromList(k, value) ==
    /\ Use(k)
    /\ LET pushed == Append(Unlink(order, k), k)
       IN  /\ order' = IF Len(pushed) > Bound THEN Tail(pushed) ELSE pushed
           /\ record' = [j \in Cached \cup {k} |-> IF j = k THEN value ELSE record[j]]
           /\ age' = [j \in Cached \cup {k} |-> IF j = k THEN 0 ELSE age[j]]
           /\ elapsed' = [j \in Cached \cup {k} |-> IF j = k THEN 0 ELSE elapsed[j]]

(* One entry is pushed, so one at most has to leave.                        *)
Set(k, value) ==
    /\ Use(k)
    /\ LET pushed == Append(Unlink(order, k), k)
           kept == IF Len(pushed) > Bound THEN Tail(pushed) ELSE pushed
       IN  /\ order' = kept
           /\ record' = [j \in ToSet(kept) |-> IF j = k THEN value ELSE record[j]]
           /\ age' = [j \in ToSet(kept) |-> IF j = k THEN 0 ELSE age[j]]
           /\ elapsed' = [j \in ToSet(kept) |-> IF j = k THEN 0 ELSE elapsed[j]]

Clear ==
    /\ Cached # {}
    /\ order' = <<>> /\ record' = <<>> /\ age' = <<>>
    /\ used' = <<>> /\ elapsed' = <<>>
    /\ UNCHANGED clientVars

Tick ==
    /\ \E k \in Cached : ~Expired(k)
    /\ age' = [k \in Cached |-> IF Expired(k) THEN age[k] ELSE age[k] + 1]
    /\ elapsed' = [k \in Cached |-> IF elapsed[k] > TTL THEN elapsed[k] ELSE elapsed[k] + 1]
    /\ UNCHANGED <<order, record, used, clientVars>>

-----------------------------------------------------------------------------
(* The request goroutines. *)

Bypasses(control) == control \in {"no-store", "no-cache"}

Ask(c, q, control) ==
    /\ pending[c] = "idle"
    /\ asked' = [asked EXCEPT ![c] = [question |-> q, control |-> control]]
    /\ LET k == MakeKey(q)
       IN  \/ /\ IF Bypasses(control) THEN UNCHANGED cacheVars ELSE Miss(k)
              /\ pending' = [pending EXCEPT ![c] = "computing"]
              /\ UNCHANGED answer
           \/ /\ ~Bypasses(control) /\ Hit(k)
              /\ pending' = [pending EXCEPT ![c] = "answered"]
              /\ answer' = [answer EXCEPT ![c] = [to |-> record[k], from |-> "cache"]]

(* The backend's answer is complete; a no-cache request stores it as well.  *)
Complete(c) ==
    /\ pending[c] = "computing"
    /\ LET q == asked[c].question
       IN  /\ answer' = [answer EXCEPT ![c] = [to |-> q, from |-> "backend"]]
           /\ IF asked[c].control = "no-store" THEN UNCHANGED cacheVars ELSE Set(MakeKey(q), q)
    /\ pending' = [pending EXCEPT ![c] = "answered"]
    /\ UNCHANGED asked

(* The goroutine is free for another request. *)
Forget(c) ==
    /\ pending' = [pending EXCEPT ![c] = "idle"]
    /\ asked' = [asked EXCEPT ![c] = None]
    /\ answer' = [answer EXCEPT ![c] = None]

(* The request failed, or its client left.                                  *)
Abandon(c) == pending[c] = "computing" /\ Forget(c) /\ UNCHANGED cacheVars

Reply(c) == pending[c] = "answered" /\ Forget(c) /\ UNCHANGED cacheVars

-----------------------------------------------------------------------------
Init ==
    /\ order = <<>> /\ record = <<>> /\ age = <<>> /\ used = <<>> /\ elapsed = <<>>
    /\ pending = [c \in Client |-> "idle"]
    /\ asked = [c \in Client |-> None]
    /\ answer = [c \in Client |-> None]

Next ==
    \/ \E c \in Client :
         \/ \E q \in Question, control \in Control : Ask(c, q, control)
         \/ Complete(c) \/ Abandon(c) \/ Reply(c)
    \/ Clear \/ Tick

Spec == Init /\ [][Next]_vars

-----------------------------------------------------------------------------
(* The list and the map of MemoryCache lose the same entry: each cached key *)
(* is in the list exactly once, there are never more than max_entries, and  *)
(* those that are left are the most recently hit or stored, in that order.  *)
CacheKeepsNewest ==
    /\ ToSet(order) = Cached /\ Len(order) = Cardinality(Cached)
    /\ Cardinality(Cached) <= Bound
    /\ IsSuffix(order, used)

FromCache(c) == pending[c] = "answered" /\ answer[c].from = "cache"

(* A hit is an answer to the same text, computed for a principal of the     *)
(* same namespace however the questions of other clients interleave, and it *)
(* was stored no longer than ttl_seconds ago, however often it was hit.     *)
HitIsOwnAndFresh ==
    [][\A c \in Client : ~FromCache(c) /\ FromCache(c)' =>
          LET q == asked'[c].question
              a == answer'[c].to
          IN  /\ a.namespace = q.namespace /\ a.text = q.text
              /\ elapsed[MakeKey(q)] <= TTL]_vars

(* README.md calls it an "exact-match cache": a hit answers the very        *)
(* question that was asked.                                                 *)
HitIsExact == \A c \in Client : FromCache(c) => answer[c].to = asked[c].question
=============================================================================

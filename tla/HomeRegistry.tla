---------------------------- MODULE HomeRegistry ----------------------------
(* The home directories of accounts (homes.go): an index in memory that is   *)
(* saved whole, by a temporary file and a rename, under one lock.  A home is  *)
(* a number that is never given out twice.                                    *)
EXTENDS Naturals, FiniteSets

CONSTANTS
    HomeId,       \* account ids without a configured directory
    MaxHomes,     \* bound: homes given out
    MaxHomeFaults \* bound: failing saves

ASSUME HomeAssumption == MaxHomes \in Nat /\ MaxHomeFaults \in Nat

VARIABLES
    homeIndex,  \* HomeRegistry.index: id -> home, 0 for none
    saved,      \* homes.json
    given,      \* homes given out so far
    inUse,      \* the home each pooled account works in, 0 for none
    deleted,    \* history: the homes each id was deleted with
    homeFaults

homeVars == <<homeIndex, saved, given, inUse, deleted, homeFaults>>

HomeInit ==
    /\ homeIndex = [i \in HomeId |-> 0] /\ saved = [i \in HomeId |-> 0]
    /\ given = 0 /\ inUse = [i \in HomeId |-> 0] /\ deleted = {} /\ homeFaults = 0

(* Mutant: the file gets the index as it was before the change.               *)
SaveStale(index, ok) ==
    /\ IF ok THEN saved' = homeIndex /\ UNCHANGED homeFaults
       ELSE homeFaults < MaxHomeFaults /\ homeFaults' = homeFaults + 1 /\ UNCHANGED saved

(* save writes the index as it is now; a failure leaves the old file.         *)
Save(index, ok) ==
    /\ IF ok THEN saved' = index /\ UNCHANGED homeFaults
       ELSE homeFaults < MaxHomeFaults /\ homeFaults' = homeFaults + 1 /\ UNCHANGED saved

(* Resolve for an account that enters the pool: the assigned home, or a new   *)
(* one, which stays in the index when it cannot be saved.  MkdirAll may fail  *)
(* after either: the account does not enter and its home stays assigned.      *)
Resolve(i, ok) ==
    /\ inUse[i] = 0 /\ UNCHANGED deleted
    /\ IF homeIndex[i] # 0
       THEN ok /\ UNCHANGED <<homeIndex, saved, given, homeFaults>>
       ELSE /\ given < MaxHomes /\ given' = given + 1
            /\ homeIndex' = [homeIndex EXCEPT ![i] = given + 1]
            /\ Save([homeIndex EXCEPT ![i] = given + 1], ok)
    /\ \E made \in BOOLEAN :
         inUse' = IF ok /\ made THEN [inUse EXCEPT ![i] = homeIndex'[i]] ELSE inUse

(* Forget after the account was removed; a failing save is ignored.           *)
ForgetHome(i, ok) ==
    /\ inUse[i] # 0 /\ inUse' = [inUse EXCEPT ![i] = 0]
    /\ deleted' = deleted \cup {inUse[i]}
    /\ IF homeIndex[i] # 0
       THEN /\ homeIndex' = [homeIndex EXCEPT ![i] = 0]
            /\ Save([homeIndex EXCEPT ![i] = 0], ok)
       ELSE ok /\ UNCHANGED <<homeIndex, saved, homeFaults>>
    /\ UNCHANGED given

(* A restart reads the file; the accounts come back one by one.               *)
HomeRestart ==
    /\ homeIndex' = saved /\ inUse' = [i \in HomeId |-> 0]
    /\ UNCHANGED <<saved, given, deleted, homeFaults>>

HomeNext == HomeRestart \/ \E i \in HomeId, ok \in BOOLEAN : Resolve(i, ok) \/ ForgetHome(i, ok)

(* Without a failing save, an account that comes back after a restart gets    *)
(* the home it had, and nobody gets a home that was deleted with its account.  *)
(* (A save that failed is made good only by the next change of the index.)     *)
(* HomeRegistry.Resolve, Forget.                                               *)
HomesSurviveRestart ==
    homeFaults = 0 => /\ \A i \in HomeId : inUse[i] # 0 => saved[i] = inUse[i]
                      /\ \A i \in HomeId : saved[i] \notin deleted /\ homeIndex[i] \notin deleted
=============================================================================

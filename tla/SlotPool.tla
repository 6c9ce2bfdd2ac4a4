-------------------------------- MODULE SlotPool --------------------------------
(***************************************************************************)
(* What an account pool promises its requests: each account has a number   *)
(* of slots, a request holds at most one slot at a time, an account never  *)
(* has more holders than slots, and every slot taken is given back.        *)
(***************************************************************************)
EXTENDS Naturals, FiniteSets

CONSTANTS Account, Request, Capacity, None

VARIABLE holder   \* holder[r]: the account whose slot r holds, or None

HoldersOf(a) == {r \in Request : holder[r] = a}

Init == holder = [r \in Request |-> None]

Take(r, a) ==
    /\ holder[r] = None
    /\ Cardinality(HoldersOf(a)) < Capacity[a]
    /\ holder' = [holder EXCEPT ![r] = a]

Give(r) ==
    /\ holder[r] # None
    /\ holder' = [holder EXCEPT ![r] = None]

Next == \E r \in Request : Give(r) \/ \E a \in Account : Take(r, a)

SafeSpec == Init /\ [][Next]_holder

Spec == SafeSpec /\ \A r \in Request : WF_holder(Give(r))
=============================================================================

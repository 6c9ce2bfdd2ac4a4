--------------------------- MODULE MCRequestServing ---------------------------
(* Small instances of RequestServing for TLC. *)
EXTENDS RequestServing

CONSTANTS a1, a1b, a2, r1, r2, x1, x2

TwoAccounts == {a1, a2}
ReAdded == {a1, a1b, a2}

(* a1b is a second object under the id of a1: it may be added in its place. *)
Ids == [a \in Account |-> IF a = a2 THEN x2 ELSE x1]

(* One chat request, which fails over, and one embeddings request, which does not. *)
ChatAndEmbeddings == [r \in Request |-> IF r = r1 THEN "chat" ELSE "embeddings"]

OneSlotEach == [a \in Account |-> 1]
=============================================================================

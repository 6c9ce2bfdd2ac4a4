--------------------------- MODULE MCStreamServing ---------------------------
(* Small instances of StreamServing for TLC. *)
EXTENDS StreamServing

CONSTANTS a1, s1, s2, x1, k1, k2

Ids == [a \in Account |-> x1]
TwoSlots == [a \in Account |-> 2]

ChatAndResponses == [s \in Stream |-> IF s = s1 THEN "chat" ELSE "responses"]

SharedKey == [s \in Stream |-> k1]
=============================================================================

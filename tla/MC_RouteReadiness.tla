--------------------------- MODULE MC_RouteReadiness ---------------------------
(* Small instances of the route tables for TLC. *)
EXTENDS RouteReadiness, TLC

CONSTANTS t1, t2, m1, m2, p1, p2, b1, b2, b3

\* m1 is served by both providers, m2 by the first one only.
ModelOfBinding    == [b \in Bindings |-> IF b = b3 THEN m2 ELSE m1]
ProviderOfBinding == [b \in Bindings |-> IF b = b2 THEN p2 ELSE p1]

\* Teachers are alike: no action and no property tells them apart.
AnyTeacher == Permutations(Teachers)
===============================================================================

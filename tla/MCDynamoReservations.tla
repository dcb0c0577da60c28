------------------------ MODULE MCDynamoReservations ------------------------
(* Instances of DynamoReservations: two handlers on one or two reservations. *)
EXTENDS DynamoReservations, TLC

CONSTANTS h1, h2

MCHandlers == {h1, h2}
HandlerSymmetry == Permutations(MCHandlers)

OneRes == {1}
OneOriginal == [r \in OneRes |-> 3]
TwoRes == {1, 2}
TwoOriginal == [r \in TwoRes |-> 2]
=============================================================================

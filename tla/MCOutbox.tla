------------------------------ MODULE MCOutbox ------------------------------
(* Instances of Outbox: two servers, three events.                          *)
EXTENDS Outbox

CONSTANTS d1, d2

MCDispatchers == {d1, d2}
=============================================================================

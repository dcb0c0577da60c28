------------------------------ MODULE MCStores ------------------------------
(* Two owners of two tenants, and ids in every order.                      *)
EXTENDS Stores

TwoAccounts == {[id |-> "a1", owner |-> "u1", tenant_id |-> "t1"],
                [id |-> "a2", owner |-> "u2", tenant_id |-> "t2"]}
=============================================================================

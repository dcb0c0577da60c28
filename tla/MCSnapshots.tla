---------------------------- MODULE MCSnapshots ----------------------------
(* Instances of Snapshots: two accounts, p moves money between them and q   *)
(* touches one of them.  The calls of TakeBalanceSnapshot are alike.        *)
EXTENDS Snapshots, TLC

CONSTANTS p, q, t1, t2

MCEntryAccounts == [x \in {p, q} |-> IF x = p THEN {1, 2} ELSE {1}]

Calls == Permutations({t1, t2})
=============================================================================

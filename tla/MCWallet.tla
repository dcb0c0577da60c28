------------------------------ MODULE MCWallet ------------------------------
(* An instance of Wallet: a player with two reservations, two servers.        *)
EXTENDS Wallet

MCRes == {1, 2}
MCOriginal == [r \in MCRes |-> IF r = 1 THEN 3 ELSE 2]
=============================================================================

------------------------------ MODULE MCRecon ------------------------------
(* Instances of Recon: windows that are apart, overlap and contain others.  *)
EXTENDS Recon, TLC

CONSTANTS r1, r2, k1, k2

MCWindows == {<<1, 1>>, <<1, 2>>, <<2, 3>>}

Keys == Permutations({k1, k2})
=============================================================================

---------------------------- MODULE MCClaimPlane ----------------------------
EXTENDS ClaimPlaneProps, TLC

CONSTANTS w1, w2, t1, t2, c1, c2

OneIntent == 1..1
TwoIntents == 1..2
OneTenant == (c1 :> t1)
TwoTenants == (c1 :> t1 @@ c2 :> t2)

WorkerSymmetry == Permutations(Workers)
=============================================================================

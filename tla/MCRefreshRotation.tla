-------------------------- MODULE MCRefreshRotation -------------------------
EXTENDS RefreshRotation, TLC

ReqSymmetry == Permutations(Req)
=============================================================================

---------------------------- MODULE MCAuthClient ----------------------------
EXTENDS AuthClient, TLC

TabSymmetry == Permutations(Tabs)
=============================================================================

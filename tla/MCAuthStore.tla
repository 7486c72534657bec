----------------------------- MODULE MCAuthStore -----------------------------
EXTENDS AuthStore, TLC

MCSymmetry == Permutations(Callers) \cup Permutations(Passwords)
===============================================================================

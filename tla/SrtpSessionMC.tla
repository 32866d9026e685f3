---------------------------- MODULE SrtpSessionMC ----------------------------
EXTENDS SrtpSession, TLC

\* Nothing tells one key from another.
KeySymmetry == Permutations(Keys)
=============================================================================

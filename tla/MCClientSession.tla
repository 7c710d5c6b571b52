--------------------------- MODULE MCClientSession ---------------------------
EXTENDS ClientSession, TLC

\* Tabs and accounts are interchangeable in Init, Next and the invariants.
Symmetry == Permutations(Tabs) \cup Permutations(Accounts)
==============================================================================

\* Two tabs, two accounts, and up to two tokens.
CONSTANTS
  Tabs = {t1, t2}
  Accounts = {alice, bob}
  MaxTokens = 2
  None = None
SYMMETRY Symmetry
SPECIFICATION Spec
INVARIANTS SessionInv GhostHasCause
CHECK_DEADLOCK FALSE

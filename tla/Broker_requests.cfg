SPECIFICATION SystemSpec
CONSTANTS
  Accounts = {ada, bob}
  Clients = {c1, c2}
  MaxCalls = 2
  MaxFaults = 1
SYMMETRY Symmetric
VIEW View
INVARIANTS AccountsSound AuthorityBehindEffects AnswersTellEffects
\* clients may fall silent, and requests are bounded
CHECK_DEADLOCK FALSE

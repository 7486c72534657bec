CONSTANTS
  Users = {ann, bob}
  Passwords = {p, q}
  Callers = {c1, c2}
  Cli = cli
  Tokens = {k}
  MaxAccounts = 3
  MaxCalls = 2
  MaxEvents = 4
SYMMETRY MCSymmetry
SPECIFICATION Spec
INVARIANTS TypeOK AckedChangeIsDurable LoginStaysRequired SessionsHaveAccounts
CHECK_DEADLOCK FALSE

SPECIFICATION Spec
CONSTANTS
  Rps = {r1}
  Users = {u1, u2}
  MaxUvAttempts = 1
  CountErased = 3
  Failing = {}
  MaxCreds = 2
  MaxResets = 0
INVARIANT AssertionVerified

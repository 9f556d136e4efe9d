SPECIFICATION FairSpec
CONSTANTS
  Rps = {r1}
  Users = {u1}
  MaxUvAttempts = 1
  CountErased = 3
  Failing = {"keygen", "task", "save", "wrap", "sign", "attestation", "flash", "nvs", "find"}
  MaxCreds = 2
  MaxResets = 1
INVARIANTS
  FreshCount
  StoreSound
  NeverAgain
PROPERTY OpEnds

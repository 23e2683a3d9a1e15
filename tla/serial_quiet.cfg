CONSTANTS
  None = None
  s1 = s1
  s2 = s2
  alice = alice
  bob = bob
  carol = carol
  Servers = {s1, s2}
  Accounts = {alice, bob, carol}
  Home <- MCHome
  Callers = {c1}
  Ops = {"connect", "create_owner", "sign_in", "enroll_this_device", "account_call", "get_avatar", "set_avatar", "sign_out", "forget_server", "restore"}
  Faults = {"lost_reply"}
SPECIFICATION Spec
INVARIANTS AvatarUnderOwnKey MemoryMatchesVault ReturnNeedsOnlyPassword
PROPERTIES RestoreReportsTokenUser

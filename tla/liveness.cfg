CONSTANTS
  None = None
  s1 = s1
  s2 = s2
  alice = alice
  bob = bob
  carol = carol
  Servers = {s1}
  Accounts = {alice}
  Home <- MCHome
  Callers = {c1, c2}
  Ops = {"connect", "create_owner", "sign_in", "enroll_this_device", "account_call", "get_avatar", "set_avatar", "sign_out", "forget_server", "restore"}
  Faults = {"storage", "lost_reply", "crash"}
SPECIFICATION FairSpec
INVARIANTS TypeOK
PROPERTIES EveryCallReturns

CONSTANTS
  None = None
  s1 = s1
  s2 = s2
  alice = alice
  bob = bob
  carol = carol
  Servers = {s1, s2}
  Accounts = {alice, bob, carol}
  Home <- MCHome
  Callers = {c1}
  Keys = {k1, k2}
  Ops = {"connect", "create_owner", "sign_in", "enroll_this_device", "account_call", "sign_out", "forget_server", "restore"}
  Faults = {"storage", "lost_reply", "crash"}
SPECIFICATION DSpec
SYMMETRY KeySymmetry
INVARIANTS SecretRegistered SessionAtHome KeysGenuine
PROPERTIES TofuRefined PinStable SignInHeals SignOutDropsSession ForgetWipesVault EnrolledMeansHeld DeviceKept

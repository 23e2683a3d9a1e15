CONSTANTS
  None = None
  s1 = s1
  s2 = s2
  alice = alice
  bob = bob
  carol = carol
  Servers = {s1}
  Accounts = {alice}
  Home <- MCHome
  Callers = {c1}
  Ops = {"connect", "create_owner"}
  Faults = {"storage"}
SPECIFICATION Spec
INVARIANT SecretKeyRetained

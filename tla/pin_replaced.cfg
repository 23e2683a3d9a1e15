CONSTANTS
  None = None
  s1 = s1
  s2 = s2
  alice = alice
  bob = bob
  carol = carol
  Servers = {s1, s2}
  Accounts = {alice, carol}
  Home <- MCHome
  Callers = {c1, c2}
  Ops = {"connect", "sign_in"}
  Faults = {}
SPECIFICATION Spec
PROPERTY PinStable

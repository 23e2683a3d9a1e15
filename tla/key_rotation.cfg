CONSTANTS
  None = None
  alice = alice
  bob = bob
  d1 = d1
  d2 = d2
  p1 = p1
  p2 = p2
  x = x
  y = y
  light = light
  heavy = heavy
  Accounts = {alice, bob}
  Devices = {d1, d2}
  Passwords = {p1, p2}
  Salts = {x, y}
  Params = {light, heavy}
  DefaultParams = heavy
  MaxDelayed = 2
  GroupSecrets = {g1, g2}
  Ephemerals = {e1, e2}
  Reports = {r1}
SPECIFICATION Spec
SYMMETRY Symmetry
INVARIANTS TypeOK OneCredential SignInUnlocksOwn TelemetryReadable

SPECIFICATION Spec
CONSTANTS
  None = None
  Callers = {c1, c2}
  Servers <- MCServers
  Hosts = {"host"}
  Ports <- MCPorts
  Names <- MCNames
  Versions = {1, 2}
  Nonces <- MCNonces
  History <- MCHistory
  Endpoints <- MCEndpoints
  Malformed <- MCMalformed
  ConnectLists <- MCConnectLists
INVARIANTS
  TypeOK
  Fresh
  SteadyEndpointWins
  ErrorOfLastEndpoint
SYMMETRY MCSymmetry

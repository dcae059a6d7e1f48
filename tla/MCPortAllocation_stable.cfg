\* Every configuration of one to three connections, in every order, after any other.
SPECIFICATION PortsSpec
CONSTANTS
  ConnId <- ThreeIds
  Transport <- BothTransports
  Explicit = {5061}
  FirstPort = 5060
  Inputs <- AnyConfiguration
INVARIANTS SocketsDistinct
PROPERTIES StableAcrossEdits

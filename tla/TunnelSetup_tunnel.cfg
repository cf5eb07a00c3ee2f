SPECIFICATION Spec
CONSTANTS
  Width = 3
  Address <- MCAddress
  Dns <- MCDns
  Domain <- MCDomain
  Replies <- MCReplies
  LocalNetworks <- MCLocalNetworks
  RejectedIps <- MCRejectedIps
  MulticastRange <- MCMulticastRange
  AllowLocalLAN = TRUE
  PersistTun = TRUE
INVARIANTS
  TypeOK
  ExactWhenFresh
  NothingRequestedMissing
  KeptTunIsCurrent
  RoutesDisjoint
  RoutesMostSpecific
PROPERTIES
  ImplementsAtomicSetup
  SetupEnds

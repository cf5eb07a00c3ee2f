SPECIFICATION Spec
CONSTANTS
  Width = 3
  Address <- MCAddress
  Dns <- MCDns
  Domain <- MCDomain
  Replies <- StaleReplies
  LocalNetworks <- MCLocalNetworks
  RejectedIps <- MCRejectedIps
  MulticastRange <- MCMulticastRange
  AllowLocalLAN = TRUE
  PersistTun = TRUE
INVARIANT
  TunnelAsRequested

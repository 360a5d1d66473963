CONSTANTS
  d1 = d1
  d2 = d2
  c1 = c1
  c2 = c2
  Nobody = Nobody
  Daemons = {d1, d2}
  Clients = {c1}
  Parts <- MCParts
  Number <- MCNumber
  Digits <- MCDigits
  Bits = 30
  Ip = {"127.0.0.1"}
  Resolve <- MCResolve
  HereCids = {2}
  Setups <- MCSetups
  Addresses <- MCAddresses
SPECIFICATION FairSpec
CHECK_DEADLOCK FALSE
INVARIANTS
  TypeOK
  NoCallOutlivesThePrograms
  DaemonsEndForAReason
  ShownAddressLeadsBack
PROPERTIES
  LeftoversDoNotBlock
  OnlyStartersTakeAPath
  DoomedDaemonsEnd
  ConnectionsAreServed

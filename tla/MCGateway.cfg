\* Two connections, two users who may have one each, and two channels.
SPECIFICATION FairSpec
CONSTANTS
  c1 = c1
  c2 = c2
  alice = alice
  bob = bob
  Conns = {c1, c2}
  Users = {alice, bob}
  Channels = {"quotes", "market"}
  Market = "market"
  MaxConnections = 1
  MaxSubscriptions = 1
INVARIANTS
  RegistriesAgree
  LeaksHoldNothing
PROPERTIES
  SilentClientsFreeTheirSlot

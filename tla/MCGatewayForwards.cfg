\* One connection that subscribes to a channel the bridge publishes to.
SPECIFICATION FairSpec
CONSTANTS
  c1 = c1
  c2 = c2
  alice = alice
  bob = bob
  Conns = {c1}
  Users = {alice}
  Channels = {"quotes", "market"}
  Market = "market"
  MaxConnections = 1
  MaxSubscriptions = 1
PROPERTIES
  SubscribersGetUpdates

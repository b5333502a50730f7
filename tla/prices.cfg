SPECIFICATION FairSpec
CONSTANTS
  od = od
  sp = sp
  small = small
  zone = zone
  Unknown = Unknown
  NodeSpec <- TwoSpecs
  Spot <- OneSpot
  OnDemandKey <- MCOnDemandKey
  SpotKey <- MCSpotKey
  Region <- MCRegion
  InstanceType <- MCInstanceType
  Offered <- OneType
  Sampled <- OneZone
  OnDemandTTL = 3
  SpotTTL = 2
INVARIANTS PriceTypeOK NoLostWakeup ReasonOnlyWithoutPrices
PROPERTIES ImplementsPriceBoard NodesGetPriced StalePricesRefresh

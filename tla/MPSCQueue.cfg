CONSTANTS
  Producers = {p1, p2}
  Consumer = cons
  Main = main
  Items = {i1, i2, i3, i4}
  Stub = stub
  Kinds = {"plain", "intrusive"}
  NULL = null
SPECIFICATION FairSpec
INVARIANTS
  LinksFollowExchanges
  NodesOutliveUse
  FalseOnlyIfBusy
PROPERTIES
  ImplementsFifo
  EventuallyDelivered

SPECIFICATION Spec
CONSTANTS
    Datasets <- TwoDatasets
    Marts <- TwoMarts
    Reads <- ReadsOfTwo
    Reconciled = {"security_daily"}
    Slots = {e1, e2}
    Ticks <- TwoTicks
    TicksAt <- NewsTwiceADay
    Configured = {"news", "publish"}
    Requested = {"quality_validation", "rebuild_marts"}
    MaxLake <- UpToTwoPrices
    MaxQueue = 1
INVARIANTS
    TypeOK
    OneRunPerTick
    ReadyMeansHealthy
PROPERTIES
    PublishedWasTested
    PublishedCoversObserved

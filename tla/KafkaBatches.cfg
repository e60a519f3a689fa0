SPECIFICATION FairSpec
CONSTANTS
    Consumers = {c1, c2}
    EventIds <- TwoEvents
    HourOf <- TwoHours
    Malformed = Malformed
    Tombstone = Tombstone
    Nobody = Nobody
    MaxRecords = 2
    MaxLog = 2
INVARIANTS
    TypeOK
    CommittedAccounted
    OneRowPerEvent
PROPERTIES
    WellFormedTopicPassed

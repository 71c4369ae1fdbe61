SPECIFICATION FairSpec

CONSTANTS
    c1 = c1
    c2 = c2
    m1 = m1
    m2 = m2
    None = None
    Consumers <- ConsumerSet
    Messages <- MessageSet
    Body <- BodyOf
    Topic <- TopicOrder
    MaxReceive = 2
    BatchSize = 2
    MaxDisruptions = 2

INVARIANTS TypeOK AcknowledgedWasSplit ReceivedIsAccounted
PROPERTIES OffsetRewindsOnlyAfterRejoin ImplementsDelivery RequestsCarriedOut QueueDrains

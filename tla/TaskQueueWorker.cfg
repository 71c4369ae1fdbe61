SPECIFICATION FairSpec
CONSTANTS
    p1 = p1
    p2 = p2
    m1 = m1
    m2 = m2
    None = None
    Pods <- PodSet
    Messages <- MessageSet
    Kind <- KindOf
    MaxReceive = 2
    BatchSize = 2
    MaxDisruptions = 1
INVARIANTS TypeOK DeletionRule
PROPERTIES DeliveryHandledOnce ImplementsTaskDelivery EverySettled

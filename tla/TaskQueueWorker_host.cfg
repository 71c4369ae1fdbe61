SPECIFICATION Spec
CONSTANTS
    p1 = p1
    p2 = p2
    m1 = m1
    m2 = m2
    None = None
    Pods <- PodSet
    Messages <- OneMessage
    Kind <- OneKind
    MaxReceive = 2
    BatchSize = 2
    MaxDisruptions = 0
PROPERTY HostSurvivesReports

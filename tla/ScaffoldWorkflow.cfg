SPECIFICATION WorkflowSpec
CONSTANTS
    w1 = w1
    w2 = w2
    q1 = q1
    q2 = q2
    n1 = n1
    Foreign = Foreign
    None = None
    Workers <- WorkerSet
    RequestIds <- RequestSet
    Names <- NameSet
    Wants <- WantsSame
    MaxLapses = 1
SYMMETRY Symmetric
INVARIANTS WorkflowTypeOK OwnRepositoryRecorded OneWinnerPerName CreatedIsHosted SaveNeverRefused ReservationGuards TablesAgree DoneOwnsName
PROPERTY ImplementsScaffolding
CHECK_DEADLOCK FALSE

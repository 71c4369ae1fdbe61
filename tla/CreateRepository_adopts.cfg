SPECIFICATION Spec
CONSTANTS
    w1 = w1
    w2 = w2
    w3 = w3
    q1 = q1
    q2 = q2
    q3 = q3
    q4 = q4
    n1 = n1
    n2 = n2
    Foreign = Foreign
    None = None
    Workers <- WorkerSet
    RequestIds <- RequestSet
    Names <- NameSet
    Wants <- WantsSame
SYMMETRY Symmetric
INVARIANT AdoptsOnlyOwn

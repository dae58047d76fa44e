CONSTANTS
    Thread = {t1, t2, t3}
    Lease = {l1, l2, l3}
    NoLease = NoLease
    MaxCount = 2
SPECIFICATION Spec
INVARIANTS
    CountIsNumberOfLeases
PROPERTIES
    ErrorsAreTruthful
    ImplementsContract
SYMMETRY Symmetry

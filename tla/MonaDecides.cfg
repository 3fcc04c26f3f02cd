SPECIFICATION Spec
CONSTANTS
    Tracks = 3
    WordLength = 3
    ExtraLetters = 1
    Families <- MCFamilies
INVARIANTS
    TypeOK
    AtomsMean
    AutomatonMeans
    ReductionSafe
    VerdictRight
    MadeOnce
    RefsExact
    InMemoryExact
    RelabelSafe
    ProductFollows
    Quotient
    NeverSplits
    SubsetSuccessors
    EvalDescends

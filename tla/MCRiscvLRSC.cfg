\* Two harts, two domains, two granules of four bytes, accesses of two and one.
SPECIFICATION Spec
CONSTANTS
    h1 = h1
    h2 = h2
    d1 = d1
    d2 = d2
    NoHart = NoHart
    Harts <- TwoHarts
    Domains <- TwoDomains
    LastAddr = 7
    Grain = 4
    Size = 2
    StoreSizes = {1}
SYMMETRY Symmetry
INVARIANTS
    SCIsAtomic
    SuspendedReservationWatched

\* Translation, MPRV, ASIDs, exclusive accesses, reset and NMI; CSRs are also
\* written by a debugger, at any time.
SPECIFICATION Spec
CONSTANTS
    HasS = TRUE
    HasU = TRUE
    HasN = FALSE
    Interrupts = {}
    Exceptions = {2, 12}
    StatusVals <- DomainStatusVals
    ASIDs = {0, 1}
    SatpVals <- DomainSatpVals
    HasA = TRUE
    DebugWrites = TRUE
INVARIANTS
    TypeOK
    ModesImplemented
    FetchDomainConsistent
    DataDomainStaleOnlyAfterReset
    SimASIDFollows
PROPERTIES
    PrivilegeRaisedByTrap
    ReservationWithinMode

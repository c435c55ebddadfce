\* Callers that do not hold _mmf_rw_lock race a reload of the configuration.
CONSTANTS
    Addresses = {a1, a2}
    Readers = {r1, r2}
    CallersLock = FALSE
    MaxUpdates = 3
SYMMETRY MCSymmetry
SPECIFICATION MmfSpec
INVARIANT NoOutOfRange

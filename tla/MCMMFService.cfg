\* Callers hold _mmf_rw_lock shared around apply_mmf_pre_as/post_as.
CONSTANTS
    Addresses = {a1, a2}
    Readers = {r1, r2}
    CallersLock = TRUE
    MaxUpdates = 3
SYMMETRY MCSymmetry
SPECIFICATION MmfSpec
INVARIANT NoOutOfRange

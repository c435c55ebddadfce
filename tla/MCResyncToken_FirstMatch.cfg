\* Headers with two AUTN parameters carrying different tokens.
CONSTANTS
    ParamNames = {"autn", "AUTN", "ck"}
    ParamValues = {v1, v2}
    Fold <- MCFold
    StrAutn = "autn"
    Empty = Empty
    None = None
    MaxParams = 3
SPECIFICATION Spec
CHECK_DEADLOCK FALSE
INVARIANT ResyncFirstMatchWins

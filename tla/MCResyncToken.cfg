\* Three names (STR_AUTN in both cases and another), two token values, up
\* to three parameters: repeats, case variants and the order of the names.
CONSTANTS
    ParamNames = {"autn", "AUTN", "ck"}
    ParamValues = {v1, v2}
    Fold <- MCFold
    StrAutn = "autn"
    Empty = Empty
    None = None
    MaxParams = 3
SPECIFICATION Spec
CHECK_DEADLOCK FALSE

INVARIANT ResyncForwarded
PROPERTY ResyncRefinesRequest

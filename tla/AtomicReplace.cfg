SPECIFICATION ReplaceSpec
CONSTANTS
    Writer = {w1, w2, w3}
    Rotation = {w1}
    Inode = {i1, i2, i3, i4}
    MayDie = TRUE
    Nothing = Nothing
    Empty = Empty
    Torn = Torn
PROPERTIES
    ReplacesAtOnce
CHECK_DEADLOCK FALSE

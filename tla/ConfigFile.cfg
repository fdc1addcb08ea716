CONSTANTS
    Windows = {w1, w2}
    Visible = {w1}
    Urls = {u1}
    MaxEdits = 2
    MaxFiles = 2
    Nothing = Nothing
SPECIFICATION Spec
INVARIANTS SavesLast TokenOfUrl 
PROPERTY PageCatchesUp
CHECK_DEADLOCK FALSE

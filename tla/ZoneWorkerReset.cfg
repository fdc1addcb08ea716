SPECIFICATION Spec
CONSTANTS
    MaxGen = 2
    Nothing = Nothing
INVARIANT MembershipKnown
CHECK_DEADLOCK FALSE

SPECIFICATION FairSpec
CONSTANTS
    CPU = {c1, c2, c3}
    Misuse = TRUE
    NULL = NULL
PROPERTIES
    Implements
    NoFalsePanic
    Progress
CHECK_DEADLOCK FALSE

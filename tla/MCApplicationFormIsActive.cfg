CONSTANTS
    a1 = a1
    c1 = c1
    none = none
    Apps <- MCApps
    Comps <- MCComps
    NoName <- none
    MaxOps = 2
    MaxSharedEnvs = 1
    LostResponses = TRUE
SPECIFICATION FormSpec
\* The user may stop clicking: a form with nothing in flight is idle, not stuck.
CHECK_DEADLOCK FALSE
PROPERTY
    SubmitSendsClickedIsActive

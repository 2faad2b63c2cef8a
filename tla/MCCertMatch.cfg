CONSTANTS
    Labels <- MCLabels
    Lower <- MCLower
    MaxLabels = 3
    MaxDomains = 2
    MaxCerts = 2
SPECIFICATION Spec
\* One evaluation per input: the step after it has nothing left to compute.
CHECK_DEADLOCK FALSE
INVARIANT
    CertSelectedPerSpec

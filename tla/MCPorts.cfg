CONSTANTS
    nan = nan
    emptyStr = emptyStr
    NaN <- nan
    EmptyStr <- emptyStr
    DigitValue <- MCDigitValue
    PortNames <- MCPortNames
    ServiceTexts <- MCServiceTexts
    MaxPorts = 3
SPECIFICATION Spec
INVARIANT
    ServicePortIsClampedLeadingNumber
PROPERTY
    ImplementsPortsTable

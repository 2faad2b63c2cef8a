CONSTANTS
    nan = nan
    undefined = undefined
    NaN <- nan
    Undefined <- undefined
    PortChoices <- MCPortChoices
    Inputs <- MCInputs
    MaxPorts = 2
SPECIFICATION Spec
VIEW SeenView
PROPERTY
    ProbePortFromCurrentPorts

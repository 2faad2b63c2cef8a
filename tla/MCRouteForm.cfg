CONSTANTS
    devHost = devHost
    plainHost = plainHost
    ingressIP = ingressIP
    Hosts <- MCHosts
    ForceHttps <- MCForceHttps
    IngressIP <- ingressIP
    Weights = {0, 1}
    MaxTargets = 2
    HttpMethods = {"GET"}
SPECIFICATION Spec

    
PROPERTY
    UpdatesSettle

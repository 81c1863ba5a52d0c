CONSTANTS
    Address <- MCAddress
    kindsOf <- MCKindsOf
    unmapped <- MCUnmapped
    Prefix <- MCPrefix
    Name <- MCName
    suffixesOf <- MCSuffixesOf
    Catalogue = {"chrome"}
    MinTimeout = 2
    MaxTimeout = 3
    MaxInjected = 1
    bareHostname <- MCBareHostname
    Offers <- MCOffers
    Requests <- MCRequests
    Worlds <- MCWorlds
    None = None
SPECIFICATION AdmissionSpec
INVARIANTS
    
    PolicyIsEnforced

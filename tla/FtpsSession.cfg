SPECIFICATION FairSpec
CONSTANTS
    c1 = c1
    Certs <- MCCerts
    SignedCerts <- MCSignedCerts
    NsapiCodes <- MCNsapiCodes
    NoCert = NoCert
    NoPin = NoPin
    PartialPin = PartialPin
    MaxLate = 0
    MaxStores = 1
PROPERTIES
    ImplementsSession
    CallReturns

SPECIFICATION Spec
CONSTANTS
    c1 = c1
    c2 = c2
    Certs <- MCCerts
    SignedCerts <- MCSignedCerts
    NsapiCodes <- MCNsapiCodes
    NoCert = NoCert
    NoPin = NoPin
    PartialPin = PartialPin
    MaxLate = 1
    MaxStores = 1
INVARIANTS
    TypeOK
    NoSocketLost
    NoWrapperLost
    SocketsFollowCall
    PeersVouched
    RepliesPairedUnlessMissed
    OneUploadPerSession
    RetriableKeepsSession

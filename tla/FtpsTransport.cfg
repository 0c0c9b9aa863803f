SPECIFICATION TransportAndNumbers
CONSTANTS
    c1 = c1
    c2 = c2
    c3 = c3
    Certs <- MCCerts
    SignedCerts <- MCSignedCerts
    NsapiCodes <- MCNsapiCodes
    NoCert = NoCert
    NoPin = NoPin
    PartialPin = PartialPin
    MaxOverwritten = 1
    Parts = 2
    MaxWord = 65555
    Digits = {0, 2, 5, 6}
INVARIANTS
    TransportTypeOK
    NoSocketLost
    ChannelsConsistent
    NumbersTypeOK
    AcceptedAsWritten
    RefusedIfTooLarge
PROPERTIES
    ControlOutlivesData

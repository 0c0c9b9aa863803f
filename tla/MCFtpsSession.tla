---------------------------- MODULE MCFtpsSession ----------------------------
(* FtpsClient, checked against FtpsSession, with a single certificate (a     *)
(* handshake may still fail to authenticate it) and one socket error code.   *)
EXTENDS FtpsClient

CONSTANT c1

MCCerts == {c1}
MCSignedCerts == {c1}
MCNsapiCodes == {NsapiNoSocket}

=============================================================================

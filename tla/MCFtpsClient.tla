---------------------------- MODULE MCFtpsClient ----------------------------
(* FtpsClient with two certificates, the first signed by the imported root   *)
(* CA, and two socket error codes (one of them the exhausted pool).          *)
EXTENDS FtpsClient

CONSTANTS c1, c2

MCCerts == {c1, c2}
MCSignedCerts == {c1}
MCNsapiCodes == {NsapiNoSocket, -3008}

=============================================================================

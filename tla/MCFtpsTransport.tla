--------------------------- MODULE MCFtpsTransport ---------------------------
(* FtpsTransport with three certificates, one of them signed by the imported *)
(* root CA, and four socket error codes; and FtpsNumbers with a tuple of a    *)
(* port alone and digits and a word with which both limits, 255 and the       *)
(* word's, are met exactly.  The program has one thread: a reply is parsed    *)
(* between two calls of the transport.  MaxOverwritten is a bound of the     *)
(* instance: how many wrappers a caller loses by upgrading a data channel    *)
(* again.                                                                    *)
EXTENDS FtpsTransport, FtpsNumbers

CONSTANTS c1, c2, c3, MaxOverwritten

MCCerts == {c1, c2, c3}
MCSignedCerts == {c1}
MCNsapiCodes == {NsapiNoSocket, -3008, -3012, -3001}

TransportAndNumbersInit == TransportInit /\ NumbersInit

Parses == NumbersNext /\ UNCHANGED transport

UsesTransport ==
    /\ at = "open"
    /\ TransportNext
    /\ transport'.overwritten <= MaxOverwritten
    /\ UNCHANGED numbersVars

TransportAndNumbers ==
    /\ TransportAndNumbersInit
    /\ [][Parses \/ UsesTransport]_<<transport, numbersVars>>

=============================================================================

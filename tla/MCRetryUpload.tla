--------------------------- MODULE MCRetryUpload ---------------------------
(* RetryUpload with the Opta's four sockets, one of them the control         *)
(* connection's.  A unit of time is 20 s: pauses of 20 and 40 s, and a       *)
(* TIME_WAIT of 80 s, longer than the two together, so that the last attempt *)
(* too may find the pool full.                                               *)
EXTENDS RetryUpload

CONSTANTS s1, s2, s3

MCSlots == {s1, s2, s3}
MCNsapiCodes == {-3008}

=============================================================================

--------------------------- MODULE MCFtpsDataPump ---------------------------
(* FtpsDataPump with files that fit the buffer, fill it and overrun it, and a *)
(* clock that wraps within a few silences.                                   *)
EXTENDS FtpsDataPump

=============================================================================

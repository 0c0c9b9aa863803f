------------------------- MODULE MCFtpsReplyReader -------------------------
(* FtpsReplyReader with a command that is answered once and one that is       *)
(* answered twice.                                                           *)
EXTENDS FtpsReplyReader

MCCommands == {"TYPE", "STOR"}

=============================================================================

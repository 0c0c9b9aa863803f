----------------------------- MODULE FtpsErrors -----------------------------
(***************************************************************************)
(* The error values of FtpsErrors.h and the two classifiers an application *)
(* uses on them: is the session still usable, and may the failed transfer  *)
(* be repeated on it?                                                      *)
(***************************************************************************)
EXTENDS Integers

\* Every value of enum class FtpsError.
FtpsError ==
    {"None", "NetworkNotInitialized", "BannerReadFailed", "PbszRejected",
     "ProtPRejected", "TypeRejected", "PasvParseFailed",
     "DataConnectionFailed", "QuitFailed", "AuthTlsRejected",
     "ControlTlsHandshakeFailed", "CertValidationFailed",
     "DataTlsHandshakeFailed", "SessionReuseRequired", "LoginRejected",
     "TransferFailed", "FinalReplyFailed", "PassiveModeRejected",
     "ConnectionFailed", "DirectoryCreateFailed", "SizeQueryFailed",
     "ListFailed", "DeleteFailed", "RenameFailed", "DirectoryRemoveFailed"}

\* NSAPI_ERROR_NO_SOCKET: the LWIP socket pool is exhausted.
NsapiNoSocket == -3005

SessionDeadErrors ==
    {"ConnectionFailed", "NetworkNotInitialized", "BannerReadFailed",
     "AuthTlsRejected", "ControlTlsHandshakeFailed", "CertValidationFailed",
     "LoginRejected", "PbszRejected", "ProtPRejected", "TypeRejected"}

\* A mutant: a control connection that fails is not taken for a lost one.
IsSessionDeadAtLogin(err) == err \in SessionDeadErrors \ {"ConnectionFailed"}

\* A mutant: a transfer that fails is taken for a lost session.
IsSessionDeadOrTransfer(err) == err \in SessionDeadErrors \cup {"TransferFailed"}

IsSessionDead(err) == err \in SessionDeadErrors

\* A mutant: a lost control connection counts as a failed data connection.
IsTransferRetriableToo(err, nsapiCode) ==
    \/ /\ err \in {"DataConnectionFailed", "ConnectionFailed"}
       /\ nsapiCode \in {0, NsapiNoSocket}
    \/ err = "DataTlsHandshakeFailed"

IsTransferRetriable(err, nsapiCode) ==
    \/ err = "DataConnectionFailed" /\ nsapiCode \in {0, NsapiNoSocket}
    \/ err = "DataTlsHandshakeFailed"

=============================================================================

----------------------------- MODULE FtpsClient -----------------------------
(***************************************************************************)
(* FtpsClient: the public API of the library, one action for each call     *)
(* that needs at most one exchange with the server and one for each step   *)
(* of the longer ones.  The caller is single threaded: a call returns      *)
(* before the next one begins.  Between any two steps the server answers   *)
(* late or not at all, the network fails, and each TLS handshake may meet  *)
(* a different certificate.                                                *)
(*                                                                         *)
(* session    the members of FtpsClient                                    *)
(* transport  the transport it owns (FtpsTransport)                        *)
(* wire       the replies in flight on the control connection              *)
(* call       the call in progress and where it stands                     *)
(* result     what the last call returned, and lastError() after it (no    *)
(*            call reads _lastError, every return but one of quit()'s sets *)
(*            it: between calls is where it can be observed)               *)
(* history    auxiliary: what the properties say about the past            *)
(***************************************************************************)
EXTENDS FtpsTransport, FtpsControl

CONSTANT
    MaxStores   \* bound: _storesSinceConnect saturates here (only its being
                \* zero is ever read)

ASSUME MaxStoresAssumption == MaxStores \in Nat \ {0}

VARIABLES session, wire, call, result, history

vars == <<transport, session, wire, call, result, history>>

TrustModes == {"Fingerprint", "ImportedCert"}

\* What _activeConfig remembers: is a host cached, are all the settings
\* connect() copies cached with it, and the trust mode (0 is Fingerprint).
Config == [host: BOOLEAN, complete: BOOLEAN, trust: TrustModes]
NoConfig == [host |-> FALSE, complete |-> FALSE, trust |-> "Fingerprint"]

\* began: _transport is not null.  pin: _normalizedFingerprint.
Session ==
    [began: BOOLEAN, connected: BOOLEAN, reconnectBetween: BOOLEAN,
     stores: 0..MaxStores, config: Config, pin: PinValues]

\* Calls that need a connected session and report their own error when the
\* server refuses, or the argument is missing.
FailError ==
    [mkd |-> "DirectoryCreateFailed", size |-> "SizeQueryFailed",
     dele |-> "DeleteFailed", rmd |-> "DirectoryRemoveFailed",
     rename |-> "RenameFailed", noop |-> "TransferFailed",
     list |-> "ListFailed", retrieve |-> "TransferFailed",
     store |-> "TransferFailed"]

SessionOps == DOMAIN FailError
TransferOps == {"store", "retrieve", "list"}
ConnectOps == {"connect", "reconnect", "store", "discover"}
Ops == SessionOps \cup {"begin", "connect", "reconnect", "discover", "quit"}

ConnectSteps == {"tcp", "banner", "authTls", "authSsl", "controlTls", "pbsz",
                 "protP", "user", "pass", "typeI"}
TransferSteps == {"pasv", "open", "command", "list", "dataTls", "data",
                  "final"}

\* A path or name argument: as it should be, missing, or too long for the
\* command buffer.
Arguments == {"ok", "empty", "long"}

Idle == [op |-> "none", pc |-> "idle", arg |-> "ok"]

Calls ==
    {Idle} \cup [op: {"rename"}, pc: {"rnto"}, arg: {"ok"}]
           \cup [op: ConnectOps, pc: ConnectSteps, arg: Arguments]
           \cup [op: TransferOps, pc: TransferSteps, arg: Arguments]

Results == [op: Ops \cup {"none"}, ok: BOOLEAN, lastError: FtpsError]

\* Before the first call returns, and while a call is in progress.
NoResult == [op |-> "none", ok |-> TRUE, lastError |-> "None"]

Init ==
    /\ TransportInit
    /\ session = [began |-> FALSE, connected |-> FALSE,
                  reconnectBetween |-> FALSE, stores |-> 0,
                  config |-> NoConfig, pin |-> NoPin]
    /\ wire = <<>>
    /\ call = Idle
    /\ result = NoResult
    /\ history = [own |-> TRUE, missed |-> FALSE, uploads |-> 0,
                  refused |-> FALSE, trust |-> "Fingerprint", pin |-> NoPin]

-----------------------------------------------------------------------------
(* Helpers. *)

\* The precondition every call on a session checks first.
Usable == session.began /\ session.connected

\* The call op returns ok, with _lastError = err and the other members = s.
Finish(op, ok, err, s) ==
    /\ call' = Idle
    /\ session' = s
    /\ result' = [op |-> op, ok |-> ok, lastError |-> err]

\* A longer call begins, or goes on.
StartCall(op, pc, arg) ==
    call' = [op |-> op, pc |-> pc, arg |-> arg] /\ result' = NoResult

GoTo(pc) == call' = [call EXCEPT !.pc = pc] /\ UNCHANGED result

Disconnected(s) == [s EXCEPT !.connected = FALSE]

\* A mutant: _connected survives.
FailAndStayConnected(op, err) ==
    /\ transport' = CloseAll(transport)
    /\ wire' = <<>>
    /\ Finish(op, FALSE, err, session)

\* failAndDisconnect().
FailAndDisconnect(op, err) ==
    /\ transport' = CloseAll(transport)
    /\ wire' = <<>>
    /\ Finish(op, FALSE, err, Disconnected(session))

\* A reply has been taken for the answer to the command just sent.
Heard(e) == history' = [history EXCEPT !.own = @ /\ e.own]

\* The FtpTlsConfig that connect() and the transfers build from the members.
SessionTls ==
    [pin |-> IF session.config.trust = "Fingerprint" THEN session.pin
                                                     ELSE NoPin,
     ca |-> session.config.trust = "ImportedCert",
     validate |-> session.config.complete]

\* discoverFingerprint() accepts any certificate.
DiscoveryTls == [pin |-> NoPin, ca |-> FALSE, validate |-> FALSE]

\* A transport that replaces, or is deleted with, transport t.
Deleted(t) ==
    LET closed == CloseAll(t)
    IN  [NewTransport EXCEPT !.sockets = closed.sockets,
                             !.wrappers = closed.wrappers,
                             !.overwritten = closed.overwritten]

-----------------------------------------------------------------------------
(* begin(), quit(), setReconnectBetweenStores(). *)

Begin ==
    /\ call = Idle
    /\ transport' = Deleted(transport)
    /\ wire' = <<>>
    /\ Finish("begin", TRUE, "None",
              [session EXCEPT !.began = TRUE, !.connected = FALSE,
                              !.config = NoConfig, !.pin = NoPin])
    /\ history' = [history EXCEPT !.refused = FALSE]

BeginWithoutNetwork ==
    /\ call = Idle
    /\ Finish("begin", FALSE, "NetworkNotInitialized", session)
    /\ UNCHANGED <<transport, wire, history>>

\* The old transport is gone; _connected keeps its value.
BeginWithoutMemory ==
    /\ call = Idle
    /\ transport' = Deleted(transport)
    /\ wire' = <<>>
    /\ Finish("begin", FALSE, "ConnectionFailed",
              [session EXCEPT !.began = FALSE])
    /\ UNCHANGED history

\* QUIT is sent only on a connected session; lastError() stays as it was when
\* there is nothing to send it on.
Quit ==
    /\ call = Idle
    /\ transport' = CloseAll(transport)
    /\ wire' = <<>>
    /\ \/ ~session.began /\ Finish("quit", TRUE, "None", Disconnected(session))
       \/ /\ session.began /\ ~session.connected
          /\ Finish("quit", TRUE, result.lastError, session)
       \/ /\ Usable
          /\ \E e \in Exchanges(wire, "QUIT", "ok") :
                Finish("quit", TRUE,
                       IF e.code = 221 THEN "None" ELSE "QuitFailed",
                       Disconnected(session))
    /\ UNCHANGED history

SetReconnectBetweenStores ==
    /\ call = Idle
    /\ \E enabled \in BOOLEAN :
          session' = [session EXCEPT !.reconnectBetween = enabled]
    /\ UNCHANGED <<transport, wire, call, result, history>>

-----------------------------------------------------------------------------
(* Calls of one exchange. *)

\* Any call on a session that is not connected.
NotConnected ==
    /\ call = Idle
    /\ ~Usable
    /\ \E op \in SessionOps : Finish(op, FALSE, "ConnectionFailed", session)
    /\ UNCHANGED <<transport, wire, history>>

\* A missing path, name or buffer; store() checks its own after it may have
\* reconnected.
MissingArgument ==
    /\ call = Idle
    /\ Usable
    /\ \E op \in SessionOps \ {"store", "noop"} :
          Finish(op, FALSE, FailError[op], session)
    /\ UNCHANGED <<transport, wire, history>>

\* Send a command; silence costs the session, a reply outside good is the
\* call's own error.
SendCommand(op, cmd, good, args) ==
    /\ call = Idle
    /\ Usable
    /\ \E arg \in args : \E e \in Exchanges(wire, cmd, arg) :
          /\ Heard(e)
          /\ \/ /\ e.code = Silence
                /\ FailAndDisconnect(op, "ConnectionFailed")
             \/ /\ e.code \in good
                /\ wire' = e.rest
                /\ Finish(op, TRUE, "None", session)
                /\ UNCHANGED transport
             \/ /\ e.code \notin good \cup {Silence}
                /\ wire' = e.rest
                /\ Finish(op, FALSE, FailError[op], session)
                /\ UNCHANGED transport

Mkd == SendCommand("mkd", "MKD", {257, 250, 521}, {"ok", "long"})

Dele == SendCommand("dele", "DELE", {250}, {"ok", "long"})

Rmd == SendCommand("rmd", "RMD", {250}, {"ok", "long"})

IsControlAlive == SendCommand("noop", "NOOP", {200}, {"ok"})

Size == SendCommand("size", "SIZE", {213}, {"ok", "long"})

\* 213 with a text parseSizeReplyBytes cannot read.
SizeMalformed ==
    /\ call = Idle
    /\ Usable
    /\ \E e \in Exchanges(wire, "SIZE", "ok") :
          /\ e.code = 213
          /\ Heard(e)
          /\ wire' = e.rest
    /\ Finish("size", FALSE, "SizeQueryFailed", session)
    /\ UNCHANGED transport

RenameFrom ==
    /\ call = Idle
    /\ Usable
    /\ \E arg \in {"ok", "long"} : \E e \in Exchanges(wire, "RNFR", arg) :
          /\ Heard(e)
          /\ \/ /\ e.code = Silence
                /\ FailAndDisconnect("rename", "ConnectionFailed")
             \/ /\ e.code = 350
                /\ wire' = e.rest
                /\ StartCall("rename", "rnto", "ok")
                /\ UNCHANGED <<transport, session>>
             \/ /\ e.code \notin {350, Silence}
                /\ wire' = e.rest
                /\ Finish("rename", FALSE, "RenameFailed", session)
                /\ UNCHANGED transport

RenameTo ==
    /\ call.pc = "rnto"
    /\ \E arg \in {"ok", "long"} : \E e \in Exchanges(wire, "RNTO", arg) :
          /\ Heard(e)
          /\ \/ /\ e.code = Silence
                /\ FailAndDisconnect("rename", "ConnectionFailed")
             \/ /\ e.code # Silence
                /\ wire' = e.rest
                /\ Finish("rename", e.code = 250,
                          IF e.code = 250 THEN "None" ELSE "RenameFailed",
                          session)
                /\ UNCHANGED transport

-----------------------------------------------------------------------------
(* connect(): arguments.  Whatever the arguments, _storesSinceConnect is     *)
(* zeroed first.                                                             *)

Uncounted == [session EXCEPT !.stores = 0]

\* A call that refuses its configuration before it touches the session.
Refuse(s, errors) ==
    /\ call = Idle
    /\ session.began
    /\ \E err \in errors : Finish("connect", FALSE, err, s)
    /\ history' = [history EXCEPT !.refused = TRUE]
    /\ UNCHANGED <<transport, wire>>

ConnectBeforeBegin ==
    /\ call = Idle
    /\ ~session.began
    /\ Finish("connect", FALSE, "NetworkNotInitialized", Uncounted)
    /\ UNCHANGED <<transport, wire, history>>

\* No host, user, password or port, validation off, or an unknown trust mode.
ConnectRefusesArguments ==
    Refuse(Uncounted,
           {"ConnectionFailed", "LoginRejected", "CertValidationFailed"})

\* Fingerprint trust with a fingerprint that is missing, too short, or longer
\* than 64 digits: normalising it into _normalizedFingerprint left there
\* nothing, some digits, or the first 64.
ConnectRefusesFingerprint ==
    \E left \in PinValues :
        Refuse([Uncounted EXCEPT !.pin = left], {"CertValidationFailed"})

\* ImportedCert trust with a missing or malformed PEM, or for an IP address
\* without a server name; _normalizedFingerprint has been erased.
ConnectRefusesCertificate ==
    Refuse([Uncounted EXCEPT !.pin = NoPin], {"CertValidationFailed"})

\* The old session is closed before the settings are copied; one that does
\* not fit leaves the rest of the cache empty (the host; the user or the
\* password; the server name or the PEM).
ConnectRefusesLength ==
    /\ call = Idle
    /\ session.began
    /\ transport' = CloseAll(transport)
    /\ wire' = <<>>
    /\ \E trust \in TrustModes, cached \in {"none", "host", "all"} :
          LET config == CASE cached = "none" -> NoConfig
                          [] cached = "host" -> [NoConfig EXCEPT !.host = TRUE]
                          [] cached = "all" -> [host |-> TRUE, complete |-> TRUE,
                                                trust |-> trust]
              errors == CASE cached = "none" -> {"ConnectionFailed"}
                          [] cached = "host" -> {"LoginRejected"}
                          [] cached = "all" -> {"CertValidationFailed"}
          IN  \E pin \in (IF trust = "Fingerprint" THEN Certs ELSE {NoPin}),
                 err \in errors :
                /\ Finish("connect", FALSE, err,
                          [Disconnected(Uncounted) EXCEPT !.config = config,
                                                          !.pin = pin])
                /\ history' = [history EXCEPT !.refused = FALSE,
                                              !.trust = trust, !.pin = pin]

ConnectStart ==
    /\ call = Idle
    /\ session.began
    /\ transport' = CloseAll(transport)
    /\ wire' = <<>>
    /\ \E trust \in TrustModes :
          \E pin \in (IF trust = "Fingerprint" THEN Certs ELSE {NoPin}) :
            /\ session' = [Disconnected(Uncounted) EXCEPT
                              !.config = [host |-> TRUE, complete |-> TRUE,
                                          trust |-> trust],
                              !.pin = pin]
            /\ history' = [history EXCEPT !.refused = FALSE, !.trust = trust,
                                          !.pin = pin]
    /\ StartCall("connect", "tcp", "ok")

-----------------------------------------------------------------------------
(* reconnect(), and store() when it reconnects first: the cached settings    *)
(* are handed to connect().                                                  *)

\* ImportedCert, or nothing cached: the session is left as it is.
ReconnectRefused(op) ==
    /\ session.began
    /\ session.config.trust = "ImportedCert" \/ ~session.config.host
    /\ Finish(op, FALSE, "ConnectionFailed", session)
    /\ UNCHANGED <<transport, wire, history>>

\* Otherwise all sockets are closed, without QUIT, and connect() runs; the
\* cache may fail its checks (no user or password, no full fingerprint).
Reconnecting(op, arg) ==
    /\ session.began
    /\ session.config.trust = "Fingerprint" /\ session.config.host
    /\ transport' = CloseAll(transport)
    /\ wire' = <<>>
    /\ LET closed == Disconnected(Uncounted)
       IN  \/ /\ ~session.config.complete
              /\ Finish(op, FALSE, "LoginRejected", closed)
           \/ /\ session.config.complete /\ session.pin \notin Certs
              /\ Finish(op, FALSE, "CertValidationFailed", closed)
           \/ /\ session.config.complete /\ session.pin \in Certs
              /\ session' = closed
              /\ StartCall(op, "tcp", arg)
    /\ UNCHANGED history

Reconnect ==
    /\ call = Idle
    /\ \/ ReconnectRefused("reconnect")
       \/ Reconnecting("reconnect", "ok")

ReconnectBeforeBegin ==
    /\ call = Idle
    /\ ~session.began
    /\ Finish("reconnect", FALSE, "NetworkNotInitialized", session)
    /\ UNCHANGED <<transport, wire, history>>

-----------------------------------------------------------------------------
(* discoverFingerprint(): arguments. *)

DiscoverRefused ==
    /\ call = Idle
    /\ \E err \in IF session.began THEN {"ConnectionFailed", "CertValidationFailed"}
                                   ELSE {"NetworkNotInitialized"} :
          Finish("discover", FALSE, err, session)
    /\ UNCHANGED <<transport, wire, history>>

DiscoverStart ==
    /\ call = Idle
    /\ session.began
    /\ transport' = CloseAll(transport)
    /\ wire' = <<>>
    /\ session' = Disconnected(session)
    /\ StartCall("discover", "tcp", "ok")
    /\ UNCHANGED history

-----------------------------------------------------------------------------
(* The login sequence.  discoverFingerprint() shares it up to the control    *)
(* channel's TLS handshake.                                                  *)

\* A step fails: close all, report err.
LoginFails(t, err) ==
    /\ transport' = CloseAll(t)
    /\ wire' = <<>>
    /\ Finish(call.op, FALSE, err, session)

\* The properties count what happens on one control connection.
Tcp ==
    /\ call.pc = "tcp"
    /\ \E net \in NetResults :
          /\ transport' = ConnectControl(transport, net)
          /\ wire' = <<>>
          /\ IF ConnectControlOk(net)
             THEN GoTo("banner") /\ UNCHANGED session
             ELSE Finish(call.op, FALSE, "ConnectionFailed", session)
    /\ history' = [history EXCEPT !.own = TRUE, !.missed = FALSE, !.uploads = 0]

\* One command of the sequence.
LoginStep(pc, cmd, good, next, err) ==
    /\ call.pc = pc
    /\ \E e \in Exchanges(wire, cmd, "ok") :
          /\ Heard(e)
          /\ \/ /\ e.code \in good
                /\ wire' = e.rest
                /\ GoTo(next)
                /\ UNCHANGED <<transport, session>>
             \/ e.code \notin good /\ LoginFails(transport, err)

Banner == LoginStep("banner", "banner", {220}, "authTls", "BannerReadFailed")

\* No reply to AUTH TLS counts as a refusal, and the answer may yet come.
AuthTls ==
    /\ call.pc = "authTls"
    /\ \E e \in Exchanges(wire, "AUTH", "ok") :
          /\ wire' = e.rest
          /\ GoTo(IF e.code = 234 THEN "controlTls" ELSE "authSsl")
          /\ history' = [history EXCEPT !.own = @ /\ e.own,
                                        !.missed = @ \/ e.rest # <<>>]
    /\ UNCHANGED <<transport, session>>

AuthSsl == LoginStep("authSsl", "AUTH", {234}, "controlTls", "AuthTlsRejected")

\* A plaintext reply that arrives once the handshake has begun breaks it.
HandshakesOnWire(tls) ==
    {h \in Handshakes(tls) : h.at \in {"done", "opaque"} => wire = <<>>}

ControlTls ==
    /\ call.pc = "controlTls" /\ call.op # "discover"
    /\ \E h \in HandshakesOnWire(SessionTls) :
          LET t == UpgradeControlToTls(transport, SessionTls, h)
          IN  \/ /\ UpgradeControlToTlsOk(transport, SessionTls, h)
                 /\ transport' = t
                 /\ GoTo("pbsz")
                 /\ UNCHANGED <<session, wire>>
              \/ /\ ~UpgradeControlToTlsOk(transport, SessionTls, h)
                 /\ LoginFails(t, IF t.lastTlsError = AuthFailure
                                  THEN "CertValidationFailed"
                                  ELSE "ControlTlsHandshakeFailed")
    /\ UNCHANGED history

\* discoverFingerprint() reads the certificate and closes everything.
DiscoverTls ==
    /\ call.pc = "controlTls" /\ call.op = "discover"
    /\ \E h \in HandshakesOnWire(DiscoveryTls) :
          LET t == UpgradeControlToTls(transport, DiscoveryTls, h)
              ok == UpgradeControlToTlsOk(transport, DiscoveryTls, h)
          IN  \/ ~ok /\ LoginFails(t, "ControlTlsHandshakeFailed")
              \/ ok /\ h.at = "opaque" /\ LoginFails(t, "CertValidationFailed")
              \/ /\ ok /\ h.at = "done"
                 /\ transport' = CloseAll(t)
                 /\ wire' = <<>>
                 /\ Finish("discover", TRUE, "None", session)
    /\ UNCHANGED history

Pbsz == LoginStep("pbsz", "PBSZ", {200}, "protP", "PbszRejected")

ProtP == LoginStep("protP", "PROT", {200}, "user", "ProtPRejected")

User ==
    /\ call.pc = "user"
    /\ \E e \in Exchanges(wire, "USER", "ok") :
          /\ Heard(e)
          /\ \/ /\ e.code \in {230, 331}
                /\ wire' = e.rest
                /\ GoTo(IF e.code = 331 THEN "pass" ELSE "typeI")
                /\ UNCHANGED <<transport, session>>
             \/ e.code \notin {230, 331} /\ LoginFails(transport, "LoginRejected")

Pass == LoginStep("pass", "PASS", {230}, "typeI", "LoginRejected")

\* The last step: connected.  A store() that reconnected goes on.
TypeI ==
    /\ call.pc = "typeI"
    /\ \E e \in Exchanges(wire, "TYPE", "ok") :
          /\ Heard(e)
          /\ \/ /\ e.code = 200
                /\ wire' = e.rest
                /\ LET s == [session EXCEPT !.connected = TRUE]
                   IN  IF call.op = "store"
                       THEN session' = s /\ GoTo("pasv")
                       ELSE Finish(call.op, TRUE, "None", s)
                /\ UNCHANGED transport
             \/ e.code # 200 /\ LoginFails(transport, "TypeRejected")

Login ==
    \/ Tcp \/ Banner \/ AuthTls \/ AuthSsl \/ ControlTls \/ DiscoverTls
    \/ Pbsz \/ ProtP \/ User \/ Pass \/ TypeI

-----------------------------------------------------------------------------
(* store(), retrieve() and list().                                           *)

\* With the opt-in on and a store() behind it, store() reconnects first.
StoreStart ==
    /\ call = Idle
    /\ Usable
    /\ \E arg \in Arguments :
          IF session.reconnectBetween /\ session.stores > 0
          THEN ReconnectRefused("store") \/ Reconnecting("store", arg)
          ELSE /\ StartCall("store", "pasv", arg)
               /\ UNCHANGED <<transport, session, wire, history>>

TransferStart(op) ==
    /\ call = Idle
    /\ Usable
    /\ \E arg \in {"ok", "long"} : StartCall(op, "pasv", arg)
    /\ UNCHANGED <<transport, session, wire, history>>

RetrieveStart == TransferStart("retrieve")

ListStart == TransferStart("list")

\* The call fails and the session goes on, with transport t.
TransferFails(err, t, w) ==
    /\ transport' = t
    /\ wire' = w
    /\ Finish(call.op, FALSE, err, session)

\* PASV; a 227 may still not parse (parsePasv).
Pasv ==
    /\ call.pc = "pasv"
    /\ IF call.arg = "empty"
       THEN /\ TransferFails("TransferFailed", transport, wire)
            /\ UNCHANGED history
       ELSE \E e \in Exchanges(wire, "PASV", "ok") :
            /\ Heard(e)
            /\ \/ /\ e.code = Silence
                  /\ FailAndDisconnect(call.op, "ConnectionFailed")
               \/ /\ e.code = 227
                  /\ wire' = e.rest
                  /\ GoTo("open")
                  /\ UNCHANGED <<transport, session>>
               \/ /\ e.code = 227
                  /\ TransferFails("PasvParseFailed", transport, e.rest)
               \/ /\ e.code \notin {227, Silence}
                  /\ TransferFails("PassiveModeRejected", transport, e.rest)

\* The data connection is opened before the transfer command is sent.
OpenData ==
    /\ call.pc = "open"
    /\ \E net \in NetResults :
          LET t == OpenDataChannel(transport, net)
          IN  \/ /\ OpenDataChannelOk(net)
                 /\ transport' = t
                 /\ GoTo("command")
                 /\ UNCHANGED <<session, wire>>
              \/ /\ ~OpenDataChannelOk(net)
                 /\ TransferFails("DataConnectionFailed", t, wire)
    /\ UNCHANGED history

\* A mutant: the data channel opened for the command stays open.
CommandRefusedOpen(w) ==
    TransferFails(FailError[call.op], transport, w)

CommandRefused(w) ==
    TransferFails(FailError[call.op], CloseData(transport), w)

\* A mutant: a fresh data connection is asked for, and MLSD sent on it.
TryMlsdAgain(w) ==
    /\ transport' = CloseData(transport)
    /\ wire' = w
    /\ GoTo("pasv")
    /\ UNCHANGED session

\* LIST goes out on the same data connection.
TryList(w) ==
    /\ wire' = w
    /\ GoTo("list")
    /\ UNCHANGED <<transport, session>>

\* The transfer command.  A server that refuses MLSD is asked for LIST.
SendTransferCommand(pc, op, cmd) ==
    /\ call.pc = pc /\ call.op = op
    /\ \E e \in Exchanges(wire, cmd, call.arg) :
          /\ Heard(e)
          /\ \/ /\ e.code = Silence
                /\ FailAndDisconnect(call.op, "ConnectionFailed")
             \/ /\ e.code = 150
                /\ wire' = e.rest
                /\ GoTo("dataTls")
                /\ UNCHANGED <<transport, session>>
             \/ /\ e.code \notin {150, Silence}
                /\ IF cmd = "MLSD" THEN TryList(e.rest)
                                   ELSE CommandRefused(e.rest)

StoreCommand == SendTransferCommand("command", "store", "STOR")

RetrieveCommand == SendTransferCommand("command", "retrieve", "RETR")

ListCommand == SendTransferCommand("command", "list", "MLSD")

ListFallback == SendTransferCommand("list", "list", "LIST")

\* A mutant: nobody waits for the final reply.
TransferFailsUndrained(err, t) ==
    TransferFails(err, t, wire) /\ UNCHANGED history

\* drainFinalTransferReply: the transfer is lost, the client waits once for
\* the final reply the server owes and goes on whether it came or not.
TransferFailsAndDrains(err, t) ==
    \E e \in Reads(wire) :
        /\ TransferFails(err, t, e.rest)
        /\ history' = [history EXCEPT !.missed = @ \/ e.rest # <<>>]

\* An authentication failure of the data handshake is taken for a server that
\* insists on TLS session reuse.
DataTls ==
    /\ call.pc = "dataTls"
    /\ \E h \in Handshakes(SessionTls) :
          LET t == UpgradeDataToTls(transport, SessionTls, h)
          IN  \/ /\ UpgradeDataToTlsOk(transport, SessionTls, h)
                 /\ transport' = t
                 /\ GoTo("data")
                 /\ UNCHANGED <<session, wire, history>>
              \/ /\ ~UpgradeDataToTlsOk(transport, SessionTls, h)
                 /\ TransferFailsAndDrains(IF t.lastTlsError = AuthFailure
                                           THEN "SessionReuseRequired"
                                           ELSE "DataTlsHandshakeFailed",
                                           t)

\* The data has been moved: all of it written, or the end of it read.
DataMoved(op) ==
    /\ call.pc = "data" /\ call.op = op
    /\ transport' = CloseData(transport)
    /\ GoTo("final")
    /\ UNCHANGED <<session, wire, history>>

StoreWritten == DataMoved("store")

RetrieveRead == DataMoved("retrieve")

ListRead == DataMoved("list")

\* A write or a read failed or timed out, or the caller's buffer is full.
DataFails(op) ==
    /\ call.pc = "data" /\ call.op = op
    /\ TransferFailsAndDrains(FailError[op], CloseData(transport))

StoreDataFails == DataFails("store")

RetrieveDataFails == DataFails("retrieve")

ListDataFails == DataFails("list")

\* The final reply decides; only store() counts its successes.
FinalReply(op, counted) ==
    /\ call.pc = "final" /\ call.op = op
    /\ \E e \in Reads(wire) :
          \/ /\ e.code = Silence
             /\ FailAndDisconnect(op, "ConnectionFailed")
             /\ UNCHANGED history
          \/ /\ e.code \in {226, 250}
             /\ wire' = e.rest
             /\ Finish(op, TRUE, "None", counted)
             /\ history' = [history EXCEPT !.own = @ /\ e.own,
                              !.uploads = IF op = "store" THEN 1 ELSE @]
             /\ UNCHANGED transport
          \/ /\ e.code \notin {226, 250, Silence}
             /\ TransferFails("FinalReplyFailed", transport, e.rest)
             /\ Heard(e)

\* A mutant: store() does not count itself.
StoreNotCounted == session

StoreCounted ==
    [session EXCEPT !.stores = IF @ < MaxStores THEN @ + 1 ELSE @]

StoreFinal == FinalReply("store", StoreCounted)

RetrieveFinal == FinalReply("retrieve", session)

ListFinal == FinalReply("list", session)

Transfer ==
    \/ Pasv \/ OpenData
    \/ StoreCommand \/ RetrieveCommand \/ ListCommand \/ ListFallback
    \/ DataTls \/ StoreWritten \/ RetrieveRead \/ ListRead
    \/ StoreDataFails \/ RetrieveDataFails \/ ListDataFails
    \/ StoreFinal \/ RetrieveFinal \/ ListFinal

-----------------------------------------------------------------------------

Single ==
    \/ Begin \/ BeginWithoutNetwork \/ BeginWithoutMemory
    \/ Quit \/ SetReconnectBetweenStores
    \/ NotConnected \/ MissingArgument
    \/ Mkd \/ Dele \/ Rmd \/ IsControlAlive \/ Size \/ SizeMalformed
    \/ RenameFrom \/ RenameTo
    \/ ConnectBeforeBegin \/ ConnectRefusesArguments
    \/ ConnectRefusesFingerprint \/ ConnectRefusesCertificate
    \/ ConnectRefusesLength
    \/ ReconnectBeforeBegin \/ DiscoverRefused

Start ==
    \/ ConnectStart \/ Reconnect \/ DiscoverStart
    \/ StoreStart \/ RetrieveStart \/ ListStart

Next == Single \/ Start \/ Login \/ Transfer

Spec == Init /\ [][Next]_vars

\* A call in progress goes on: every wait in it has a time-out, and its caller
\* does nothing else meanwhile.  Nobody has to make a call.
Progress == WF_vars(Login \/ Transfer \/ RenameTo)

FairSpec == Spec /\ Progress

-----------------------------------------------------------------------------
(* Properties. *)

History ==
    [own: BOOLEAN, missed: BOOLEAN, uploads: 0..1, refused: BOOLEAN,
     trust: TrustModes, pin: PinValues]

\* Type correctness.
TypeOK ==
    /\ TransportTypeOK
    /\ session \in Session
    /\ wire \in Seq(Reply)
    /\ call \in Calls
    /\ result \in Results
    /\ history \in History

Stage(channel) ==
    CASE ~channel.tcp -> "closed"
      [] channel.tcp /\ ~channel.tls -> "tcp"
      [] channel.tcp /\ channel.tls -> "tls"

\* How far the control channel must be at each step.
ControlStage ==
    CASE call.pc = "idle" -> IF Usable THEN "tls" ELSE "closed"
      [] call.pc = "tcp" -> "closed"
      [] call.pc \in {"banner", "authTls", "authSsl", "controlTls"} -> "tcp"
      [] OTHER -> "tls"

DataStage ==
    CASE call.pc \in {"command", "list", "dataTls"} -> "tcp"
      [] call.pc = "data" -> "tls"
      [] OTHER -> "closed"

\* Every way out of every call leaves the sockets as the session says: both
\* channels closed when it is not connected, control up under TLS and no data
\* channel when it is.  There are some thirty early returns, each with its own
\* closeAll(), closeData() or neither.
SocketsFollowCall ==
    /\ Stage(transport.control) = ControlStage
    /\ Stage(transport.data) = DataStage

\* The client loses no TLSSocketWrapper, some 10 KB of heap each: it never takes
\* the one way the transport has of losing one, upgrading a data connection
\* that is already under TLS, and every other wrapper is deleted with its
\* channel.
NoWrapperLost ==
    transport.wrappers = Wrapped(transport.control) + Wrapped(transport.data)

\* A peer the trust settings accept.
Vouched(peer, trust, pin) ==
    IF trust = "Fingerprint" THEN peer = pin ELSE peer \in SignedCerts

\* No channel is ever under TLS with a peer nobody vouched for: the data
\* channel's certificate is the pinned one, or signed, by the settings in
\* force (even those a refused connect() left behind), and while no connect()
\* has been refused both channels' are, by the settings the last connect() was
\* given, across any number of reconnects.
PeersVouched ==
    /\ transport.data.tls
         => Vouched(transport.data.peer, session.config.trust, session.pin)
    /\ ~history.refused
         => \A channel \in {transport.control, transport.data} :
              channel.tls => Vouched(channel.peer, history.trust, history.pin)

\* A reply is only ever taken for the answer to the command it answers, as
\* long as no wait on a live connection has been given up with a reply still
\* to come (drainFinalTransferReply, AUTH TLS).
RepliesPairedUnlessMissed == ~history.missed => history.own

\* With the opt-in on, and no connect() refused since, a store() never begins
\* on a control connection that has already carried a successful one.
OneUploadPerSession ==
    session.reconnectBetween /\ ~history.refused
      /\ call.op = "store" /\ call.pc = "pasv"
    => history.uploads = 0

\* An error an application is told it may retry on the same session
\* (ftpsIsTransferRetriable) never comes from a session that is gone.
RetriableKeepsSession ==
    call = Idle /\ ~result.ok
      /\ IsTransferRetriable(result.lastError, transport.lastNsapiError)
    => Usable /\ transport.control.tls

-----------------------------------------------------------------------------
(* The promise to the application. *)

Contract ==
    INSTANCE FtpsSession WITH
        up <- Usable,
        outcome <- IF call = Idle THEN result
                   ELSE [op |-> "pending", ok |-> FALSE, lastError |-> "None"]

\* The client implements FtpsSession.
ImplementsSession == Contract!Spec

\* Every call returns, whatever the server refuses, leaves unanswered or
\* answers late: no chain of fallbacks and reconnects inside one goes round.
CallReturns == call # Idle ~> call = Idle

-----------------------------------------------------------------------------
(* What the documentation says and the code does not do. *)

\* "REPO-1 control-channel desync: Fixed" (FINAL_PASS_04152026.md:23): a call
\* reports success only on the reply to its own command.
SuccessIsOwnReply ==
    call = Idle /\ result.ok /\ result.op \in SessionOps => history.own

\* reconnect() uses "the cached configuration" (FtpsClient.h:107-108): every
\* control connection under TLS has a peer that the settings given to the last
\* connect() to accept its arguments vouch for.
ReconnectKeepsTrust ==
    transport.control.tls
        => Vouched(transport.control.peer, history.trust, history.pin)

\* With the opt-in, store() reconnects "before each upload after the first"
\* (FtpsClient.h:114-115).
EveryUploadReconnects ==
    session.reconnectBetween /\ call.op = "store" /\ call.pc = "pasv"
        => history.uploads = 0

\* A session-dead error means "the control/session state is no longer usable"
\* and the batch is to be abandoned (FtpsErrors.h:39-40).
DeadErrorMeansDead ==
    call = Idle /\ result.op \in SessionOps /\ IsSessionDead(result.lastError)
        => ~Usable

=============================================================================

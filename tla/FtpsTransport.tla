--------------------------- MODULE FtpsTransport ---------------------------
(***************************************************************************)
(* MbedSecureSocketFtpsTransport: the two sockets of an FTPS session, each *)
(* a TCPSocket that a TLSSocketWrapper may wrap, and the two error codes   *)
(* the client reads back.                                                  *)
(*                                                                         *)
(* Each method is an operator from the transport before the call, and what *)
(* the network did during it, to the transport after it; a method that can *)
(* fail has a companion XxxOk that is its boolean result.  The client      *)
(* (FtpsClient) composes these operators.  TransportSpec, at the end, lets *)
(* any method be called at any time: what holds there holds for any        *)
(* caller of IFtpsTransport.                                               *)
(***************************************************************************)
EXTENDS Integers, FtpsErrors

CONSTANTS
    Certs,        \* certificates a server may present; a SHA-256 pin is
                  \* identified with the one certificate it is the digest of
    SignedCerts,  \* those the imported root CA vouches for, for this host
    NoCert,       \* no TLS peer
    NoPin,        \* an empty pinned fingerprint
    PartialPin,   \* a buffer holding fewer than 64 hex digits
    NsapiCodes    \* error codes of open() and connect() on a TCPSocket

ASSUME TransportAssumption ==
    /\ SignedCerts \subseteq Certs
    /\ NoCert \notin Certs
    /\ NoPin \notin Certs /\ PartialPin \notin Certs /\ NoPin # PartialPin
    /\ NsapiCodes \subseteq Int /\ 0 \notin NsapiCodes

PinValues == Certs \cup {NoPin, PartialPin}

\* FtpTlsConfig: the pin, whether a root CA is given, validateServerCert.
TlsConfig == [pin: PinValues, ca: BOOLEAN, validate: BOOLEAN]

\* tcp and tls: is the pointer non-null; up: the _controlConnected or
\* _dataConnected flag; peer: the certificate of the wrapper's SSL context.
Channel == [tcp: BOOLEAN, tls: BOOLEAN, up: BOOLEAN, peer: Certs \cup {NoCert}]
Closed == [tcp |-> FALSE, tls |-> FALSE, up |-> FALSE, peer |-> NoCert]

\* NSAPI_ERROR_AUTH_FAILURE, and any other failure of a TLS handshake.
AuthFailure == -3011
OtherTlsFailure == -3004
TlsCodes == {0, AuthFailure, OtherTlsFailure}

\* The resources, counted where they are taken and given back.  sockets: the
\* TCPSockets LWIP holds open for this program; wrappers: the TLSSocketWrappers
\* on the heap; overwritten: those of them whose pointer was overwritten, which
\* nothing can delete any more.
Transport ==
    [control: Channel, data: Channel,
     lastTlsError: TlsCodes, lastNsapiError: NsapiCodes \cup {0},
     sockets: Nat, wrappers: Nat, overwritten: Nat]

NewTransport ==
    [control |-> Closed, data |-> Closed,
     lastTlsError |-> 0, lastNsapiError |-> 0,
     sockets |-> 0, wrappers |-> 0, overwritten |-> 0]

Held(channel) == IF channel.tcp THEN 1 ELSE 0
Wrapped(channel) == IF channel.tls THEN 1 ELSE 0

-----------------------------------------------------------------------------
(* Closing. *)

\* What ftpsReleaseSocketPair leaves of a channel: both pointers null, the
\* connected flag as it was.
Released(channel) == [Closed EXCEPT !.up = channel.up]

\* A mutant: the socket is given back twice.
CloseDataTwice(t) ==
    [t EXCEPT !.data = [Released(t.data) EXCEPT !.up = FALSE],
              !.sockets = @ - 2 * Held(t.data),
              !.wrappers = @ - Wrapped(t.data)]

\* A mutant: the socket is closed and the wrapper left on the heap, as a build
\* with FTPS_ABANDON_ON_CLOSE does.
CloseDataAbandons(t) ==
    [t EXCEPT !.data = [Released(t.data) EXCEPT !.up = FALSE],
              !.sockets = @ - Held(t.data)]

CloseData(t) ==
    [t EXCEPT !.data = [Released(t.data) EXCEPT !.up = FALSE],
              !.sockets = @ - Held(t.data),
              !.wrappers = @ - Wrapped(t.data)]

CloseControl(t) ==
    [t EXCEPT !.control = [Released(t.control) EXCEPT !.up = FALSE],
              !.sockets = @ - Held(t.control),
              !.wrappers = @ - Wrapped(t.control)]

CloseAll(t) == CloseControl(CloseData(t))

-----------------------------------------------------------------------------
(* Opening a TCP connection. *)

\* How far connectSocket gets: the name does not resolve, no memory for the
\* TCPSocket, open() or connect() fails with a code, or the socket is up.
NetResults ==
    [at: {"dns", "memory"}, code: {0}]
      \cup [at: {"open", "connect"}, code: NsapiCodes]
      \cup [at: {"up"}, code: {0}]

\* Mutants: a failed connect() forgets the socket, or keeps it.
ConnectSocketForgets(t, c, net) ==
    CASE net.at = "connect" ->
            [t EXCEPT ![c].tcp = FALSE, !.lastNsapiError = net.code,
                      !.sockets = @ - Held(t[c]) + 1]
      [] net.at = "up" ->
            [t EXCEPT ![c].tcp = TRUE, !.lastNsapiError = 0,
                      !.sockets = @ - Held(t[c]) + 1]
      [] OTHER -> t

ConnectSocketKeeps(t, c, net) ==
    IF net.at \in {"connect", "up"}
    THEN [t EXCEPT ![c].tcp = TRUE, !.lastNsapiError = net.code,
                   !.sockets = @ - Held(t[c]) + 1]
    ELSE t

\* connectSocket on a channel: a socket the channel already has is closed and
\* opened again; open() or connect() failing deletes it; a failure before
\* open() leaves the last NSAPI code as it was.
ConnectSocket(t, c, net) ==
    CASE net.at = "dns" -> t
      [] net.at = "memory" -> t
      [] net.at \in {"open", "connect"} ->
            [t EXCEPT ![c].tcp = FALSE,
                      !.lastNsapiError = net.code,
                      !.sockets = @ - Held(t[c])]
      [] net.at = "up" ->
            [t EXCEPT ![c].tcp = TRUE,
                      !.lastNsapiError = 0,
                      !.sockets = @ - Held(t[c]) + 1]

ConnectControlOk(net) == net.at = "up"

ConnectControl(t, net) ==
    LET clean == [CloseAll(t) EXCEPT !.lastTlsError = 0]
        t2 == ConnectSocket(clean, "control", net)
    IN  IF ConnectControlOk(net) THEN [t2 EXCEPT !.control.up = TRUE] ELSE t2

OpenDataChannelOk(net) == net.at = "up"

\* A mutant: everything is closed before the data channel is opened.
OpenDataChannelAfresh(t, net) ==
    LET t2 == ConnectSocket(CloseAll(t), "data", net)
    IN  IF OpenDataChannelOk(net) THEN [t2 EXCEPT !.data.up = TRUE] ELSE t2

OpenDataChannel(t, net) ==
    LET t2 == ConnectSocket(CloseData(t), "data", net)
    IN  IF OpenDataChannelOk(net) THEN [t2 EXCEPT !.data.up = TRUE] ELSE t2

-----------------------------------------------------------------------------
(* TLS. *)

\* configureTlsSocket: the handshake does not verify the chain when
\* validation is off or a pin will be compared instead.
VerifiesChain(tls) == tls.validate /\ tls.pin = NoPin

\* A mutant: a certificate the stack does not expose passes.
PinMatchesIfExposed(tls, h) ==
    tls.pin = NoPin \/ h.at = "opaque" \/ tls.pin = h.cert

\* completePinnedFingerprintCheck: an empty pin passes.
PinMatches(tls, h) == tls.pin = NoPin \/ (h.at = "done" /\ tls.pin = h.cert)

\* How far a TLS upgrade gets: no memory for the wrapper, configuring it
\* fails, the handshake fails, it is done, or it is done but the stack does
\* not expose the peer's certificate ("opaque").  A handshake that verifies
\* the chain completes only with a certificate the given CA vouches for.
Handshakes(tls) ==
    [at: {"memory", "config", "auth", "net"}, cert: {NoCert}]
      \cup [at: {"done", "opaque"},
            cert: {c \in Certs : VerifiesChain(tls)
                                   => tls.ca /\ c \in SignedCerts}]

TlsErrorOf(h) ==
    CASE h.at = "auth" -> AuthFailure
      [] h.at = "net" -> OtherTlsFailure
      [] OTHER -> 0

UpgradeControlToTlsOk(t, tls, h) ==
    t.control.tcp /\ h.at \in {"done", "opaque"} /\ PinMatches(tls, h)

\* An earlier wrapper is deleted first.  One that cannot be allocated or
\* configured leaves the TCP connection alone; a failed handshake or pin check
\* releases the pair.  (The TLS session cached here is written and never read:
\* not modelled.)
UpgradeControlToTls(t, tls, h) ==
    LET bare == [t EXCEPT !.control.tls = FALSE, !.control.peer = NoCert,
                          !.wrappers = @ - Wrapped(t.control)]
        attempted == [bare EXCEPT !.lastTlsError = TlsErrorOf(h)]
    IN  CASE ~t.control.tcp -> t
          [] t.control.tcp /\ h.at \in {"memory", "config"} -> bare
          [] t.control.tcp /\ h.at \notin {"memory", "config"} ->
                IF UpgradeControlToTlsOk(t, tls, h)
                THEN [attempted EXCEPT !.control.tls = TRUE,
                                       !.control.peer = h.cert,
                                       !.wrappers = @ + 1]
                ELSE CloseControl(attempted)

UpgradeDataToTlsOk(t, tls, h) ==
    t.data.tcp /\ t.data.up /\ h.at \in {"done", "opaque"} /\ PinMatches(tls, h)

\* An earlier wrapper is not deleted: its pointer is overwritten.  Every failure
\* closes the data channel, a new wrapper included; one before the handshake
\* leaves the last TLS error as it was.
UpgradeDataToTls(t, tls, h) ==
    LET bare == [t EXCEPT !.data.tls = FALSE, !.data.peer = NoCert,
                          !.overwritten = @ + Wrapped(t.data)]
        attempted == [bare EXCEPT !.lastTlsError = TlsErrorOf(h)]
    IN  CASE ~(t.data.tcp /\ t.data.up) -> t
          [] t.data.tcp /\ t.data.up /\ h.at \in {"memory", "config"} ->
                CloseData(bare)
          [] t.data.tcp /\ t.data.up /\ h.at \notin {"memory", "config"} ->
                IF UpgradeDataToTlsOk(t, tls, h)
                THEN [attempted EXCEPT !.data.tls = TRUE, !.data.peer = h.cert,
                                       !.wrappers = @ + 1]
                ELSE CloseData(attempted)

-----------------------------------------------------------------------------
(* The transport under any caller. *)

VARIABLE transport

TransportInit == transport = NewTransport

DoConnectControl ==
    \E net \in NetResults : transport' = ConnectControl(transport, net)

DoUpgradeControlToTls ==
    \E tls \in TlsConfig : \E h \in Handshakes(tls) :
        transport' = UpgradeControlToTls(transport, tls, h)

DoOpenDataChannel ==
    \E net \in NetResults : transport' = OpenDataChannel(transport, net)

DoUpgradeDataToTls ==
    \E tls \in TlsConfig : \E h \in Handshakes(tls) :
        transport' = UpgradeDataToTls(transport, tls, h)

DoCloseData == transport' = CloseData(transport)

DoCloseAll == transport' = CloseAll(transport)

TransportNext ==
    \/ DoConnectControl
    \/ DoUpgradeControlToTls
    \/ DoOpenDataChannel
    \/ DoUpgradeDataToTls
    \/ DoCloseData
    \/ DoCloseAll

TransportSpec == TransportInit /\ [][TransportNext]_transport

-----------------------------------------------------------------------------
(* Properties. *)

\* Type correctness of the transport's state.
TransportTypeOK == transport \in Transport

\* No TCPSocket is ever lost: LWIP holds exactly the sockets the two channel
\* pointers reach, whatever order the methods are called in and wherever they
\* fail.  The Opta's pool has four; the retry logic of the examples exists
\* because it ran dry.
NoSocketLost ==
    transport.sockets = Held(transport.control) + Held(transport.data)

\* The pointers and flags of a channel agree: ctrlRead and dataRead dispatch on
\* the pointers, the upgrade methods on pointer and flag, and a wrapper that is
\* reached has its TCPSocket, to which it keeps a bare pointer (TRANSPORT_KEEP).
WrapperHasSocket(channel) ==
    /\ channel.tls => channel.tcp
    /\ channel.up = channel.tcp
    /\ channel.tls = (channel.peer # NoCert)

\* A TLSSocketWrapper outlives its TCPSocket in one way only: a data channel
\* that is under TLS is upgraded again, and the new wrapper's pointer takes the
\* place of the old one's.  Every other wrapper is one a channel reaches, and
\* the channel that reaches it has its socket, whatever order the methods are
\* called in and wherever they fail.
ChannelsConsistent ==
    /\ WrapperHasSocket(transport.control) /\ WrapperHasSocket(transport.data)
    /\ transport.wrappers = Wrapped(transport.control) + Wrapped(transport.data)
                                + transport.overwritten

\* No work on the data channel changes the control channel: not opening it, nor
\* securing it, nor closing it, whether it succeeds or fails.  The client does
\* all three while its session is up.
DataWork == DoOpenDataChannel \/ DoUpgradeDataToTls \/ DoCloseData

ControlOutlivesData ==
    [][transport'.control # transport.control => ~DataWork]_transport

=============================================================================

------------------------- MODULE FtpsSessionProofs -------------------------
(***************************************************************************)
(* What holds of a session because of what has happened to it: who its     *)
(* peers are (PeersVouched), which replies it has heard                    *)
(* (RepliesPairedUnlessMissed) and which uploads its control connection has*)
(* carried (OneUploadPerSession), for any certificates and bounds.  Each   *)
(* has an invariant of its own over ClientInv and the auxiliary variable   *)
(* history.  The last part is what the results say of it: the client        *)
(* implements FtpsSession.                                                 *)
(***************************************************************************)
EXTENDS FtpsClientProofs

-----------------------------------------------------------------------------
(***************************************************************************)
(* PeersVouched: no channel is under TLS with a peer that the trust        *)
(* settings do not vouch for.  The settings reach a handshake through three*)
(* pieces of state, the cached configuration, the normalised fingerprint   *)
(* and the call in progress; TrustInv says how they agree with the settings*)
(* the last connect() was given.                                           *)
(***************************************************************************)

\* A login that will use the session's settings.
InLogin == call.pc \in ConnectSteps /\ call.op # "discover"

DiscoverSteps == {"tcp", "banner", "authTls", "authSsl", "controlTls"}

\* There are settings whenever a handshake may use them; discovery, which
\* accepts any certificate, ends with its handshake.
SettingsComplete ==
    /\ session.connected \/ InLogin => session.config.complete
    /\ call.op = "discover" => call.pc \in DiscoverSteps

\* They are the last connect()'s, as long as none was refused since.
SettingsCurrent ==
    ~history.refused /\ session.config.complete =>
        session.config.trust = history.trust /\ session.pin = history.pin

TrustInv == SettingsComplete /\ SettingsCurrent /\ PeersVouched

-----------------------------------------------------------------------------
(* Steps that leave the settings alone and secure no channel. *)

SameSettings ==
    /\ session'.config = session.config /\ session'.pin = session.pin
    /\ history'.refused = history.refused
    /\ history'.trust = history.trust /\ history'.pin = history.pin

NoNewPeer ==
    /\ transport'.control = transport.control \/ ~transport'.control.tls
    /\ transport'.data = transport.data \/ ~transport'.data.tls

NoNewUse ==
    /\ session'.connected \/ InLogin' => session.connected \/ InLogin
    /\ call'.op = "discover" => call'.pc \in DiscoverSteps

Quiet == SameSettings /\ NoNewPeer /\ NoNewUse

LEMMA QuietKeeps == ASSUME TrustInv, Quiet PROVE TrustInv'
<1>1. SettingsComplete'
  BY DEF TrustInv, SettingsComplete, Quiet, SameSettings, NoNewUse
<1>2. SettingsCurrent'
  BY DEF TrustInv, SettingsCurrent, Quiet, SameSettings
<1>3. PeersVouched'
  BY DEF TrustInv, PeersVouched, Quiet, SameSettings, NoNewPeer, Vouched
<1> QED BY <1>1, <1>2, <1>3 DEF TrustInv

\* A closed or plain channel is not under TLS.
LEMMA NoTls == ~Closed.tls /\ ~Connected.tls
BY DEF Closed, Connected

\* A call that returns is no login, and no discovery.
LEMMA Returned ==
    ASSUME call' = Idle
    PROVE  ~InLogin' /\ call'.op # "discover"
BY DEF InLogin, Idle, ConnectSteps

\* Closing the session keeps the settings.
LEMMA DisconnectedSettings ==
    ASSUME session \in Session
    PROVE  LET s == Disconnected(session)
           IN  /\ s.config = session.config /\ s.pin = session.pin
               /\ s.connected = FALSE
<1>1. Disconnected(session) = SetConnected(session, FALSE)
  BY DEF Disconnected, SetConnected
<1> QED BY <1>1, SetConnectedFields

\* A call that returns, with everything closed or the transport as it was.
LEMMA ReturnQuiet ==
    ASSUME Typed, call' = Idle,
           \/ UNCHANGED transport
           \/ ~transport'.control.tls /\ ~transport'.data.tls
           \/ transport'.control = transport.control /\ ~transport'.data.tls,
           SameSettings,
           session'.connected => session.connected \/ InLogin
    PROVE  Quiet
<1>1. NoNewPeer
  BY DEF NoNewPeer
<1>2. NoNewUse
  BY Returned DEF NoNewUse
<1> QED BY <1>1, <1>2 DEF Quiet

\* The history keeps the settings when a reply is heard.
SameTrust ==
    /\ history'.refused = history.refused
    /\ history'.trust = history.trust /\ history'.pin = history.pin

LEMMA FailQuiet ==
    ASSUME Typed, NEW op, NEW err, FailAndDisconnect(op, err), SameTrust
    PROVE  Quiet
<1>1. /\ transport' = CloseAll(transport) /\ call' = Idle
      /\ session' = Disconnected(session)
  BY DEF FailAndDisconnect, Finish
<1>2. ~transport'.control.tls /\ ~transport'.data.tls
  BY <1>1, CloseAllSound, NoTls DEF Typed
<1>3. /\ session'.config = session.config /\ session'.pin = session.pin
      /\ session'.connected = FALSE
  BY <1>1, DisconnectedSettings DEF Typed
<1> QED BY <1>1, <1>2, <1>3, ReturnQuiet DEF SameSettings, SameTrust

\* A call that returns and keeps transport and session.
LEMMA KeepQuiet ==
    ASSUME Typed, NEW op, NEW ok, NEW err, Finish(op, ok, err, session),
           UNCHANGED transport, SameTrust
    PROVE  Quiet
<1>1. call' = Idle /\ session' = session
  BY DEF Finish
<1> QED BY <1>1, ReturnQuiet DEF SameSettings, SameTrust

LEMMA RefusalsQuiet ==
    ASSUME ClientInv,
           \/ BeginWithoutNetwork \/ NotConnected \/ MissingArgument
           \/ ReconnectBeforeBegin \/ DiscoverRefused
    PROVE  Quiet
<1>1. Typed
  BY Before
<1>2. UNCHANGED <<transport, history>>
  BY DEF BeginWithoutNetwork, NotConnected, MissingArgument,
         ReconnectBeforeBegin, DiscoverRefused
<1>3. \E op, ok, err : Finish(op, ok, err, session)
  BY DEF BeginWithoutNetwork, NotConnected, MissingArgument,
         ReconnectBeforeBegin, DiscoverRefused
<1> QED BY <1>1, <1>2, <1>3, KeepQuiet DEF SameTrust

LEMMA CommandQuiet ==
    ASSUME ClientInv, NEW op, NEW cmd \in PlainCommands, NEW good, NEW args,
           SendCommand(op, cmd, good, args)
    PROVE  Quiet
<1>1. Typed /\ wire \in Seq(Reply) /\ history \in History
  BY Before DEF Typed
<1>2. PICK arg, e :
         /\ e \in Exchanges(wire, cmd, arg) /\ Heard(e)
         /\ \/ FailAndDisconnect(op, "ConnectionFailed")
            \/ /\ wire' = e.rest /\ UNCHANGED transport
               /\ \/ Finish(op, TRUE, "None", session)
                  \/ Finish(op, FALSE, FailError[op], session)
  BY DEF SendCommand
<1>3. SameTrust
  BY <1>1, <1>2, ExchangesTyped, HeardTyped DEF SameTrust
<1> QED BY <1>1, <1>2, <1>3, FailQuiet, KeepQuiet

LEMMA CommandsQuiet ==
    ASSUME ClientInv, Mkd \/ Dele \/ Rmd \/ IsControlAlive \/ Size
    PROVE  Quiet
<1>1. {"MKD", "DELE", "RMD", "NOOP", "SIZE"} \subseteq PlainCommands
  BY DEF PlainCommands
<1> QED BY <1>1, CommandQuiet DEF Mkd, Dele, Rmd, IsControlAlive, Size

LEMMA RenameQuiet ==
    ASSUME ClientInv, SizeMalformed \/ RenameFrom \/ RenameTo
    PROVE  Quiet
<1>1. Typed /\ wire \in Seq(Reply) /\ history \in History
  BY Before DEF Typed
<1>2. {"SIZE", "RNFR", "RNTO"} \subseteq PlainCommands
  BY DEF PlainCommands
<1>3. CASE SizeMalformed
  <2>1. PICK e \in Exchanges(wire, "SIZE", "ok") : Heard(e)
    BY <1>3 DEF SizeMalformed
  <2>2. SameTrust
    BY <1>1, <1>2, <2>1, ExchangesTyped, HeardTyped DEF SameTrust
  <2> QED BY <1>1, <1>3, <2>2, KeepQuiet DEF SizeMalformed
<1>4. CASE RenameFrom
  <2>1. PICK arg, e :
           /\ e \in Exchanges(wire, "RNFR", arg) /\ Heard(e)
           /\ \/ e.code = Silence /\ FailAndDisconnect("rename", "ConnectionFailed")
              \/ /\ e.code = 350
                 /\ wire' = e.rest
                 /\ StartCall("rename", "rnto", "ok")
                 /\ UNCHANGED <<transport, session>>
              \/ /\ e.code \notin {350, Silence}
                 /\ wire' = e.rest
                 /\ Finish("rename", FALSE, "RenameFailed", session)
                 /\ UNCHANGED transport
    BY <1>4 DEF RenameFrom
  <2>2. SameTrust
    BY <1>1, <1>2, <2>1, ExchangesTyped, HeardTyped DEF SameTrust
  <2>3. CASE /\ StartCall("rename", "rnto", "ok")
             /\ UNCHANGED <<transport, session>>
    BY <2>2, <2>3
       DEF Quiet, SameTrust, SameSettings, NoNewPeer, NoNewUse, StartCall,
           InLogin, ConnectSteps
  <2> QED BY <1>1, <2>1, <2>2, <2>3, FailQuiet, KeepQuiet
<1>5. CASE RenameTo
  <2>1. PICK arg, e :
           /\ e \in Exchanges(wire, "RNTO", arg) /\ Heard(e)
           /\ \/ FailAndDisconnect("rename", "ConnectionFailed")
              \/ /\ wire' = e.rest /\ UNCHANGED transport
                 /\ Finish("rename", e.code = 250,
                           IF e.code = 250 THEN "None" ELSE "RenameFailed",
                           session)
    BY <1>5 DEF RenameTo
  <2>2. SameTrust
    BY <1>1, <1>2, <2>1, ExchangesTyped, HeardTyped DEF SameTrust
  <2> QED BY <1>1, <2>1, <2>2, FailQuiet, KeepQuiet
<1> QED BY <1>3, <1>4, <1>5

LEMMA QuitQuiet == ASSUME ClientInv, Quit PROVE Quiet
<1>1. Typed /\ session \in Session
  BY Before DEF Typed
<1>2. /\ call' = Idle /\ UNCHANGED history
      /\ session' = session \/ session' = Disconnected(session)
  BY DEF Quit, Finish
<1>3. ~transport'.control.tls /\ ~transport'.data.tls
  BY <1>1, CloseAllSound, NoTls DEF Quit, Typed
<1>4. /\ session'.config = session.config /\ session'.pin = session.pin
      /\ session'.connected => session.connected
  BY <1>1, <1>2, DisconnectedSettings
<1> QED BY <1>1, <1>2, <1>3, <1>4, ReturnQuiet DEF SameSettings

LEMMA BeginWithoutMemoryQuiet ==
    ASSUME ClientInv, BeginWithoutMemory PROVE Quiet
<1>1. Typed /\ session \in Session
  BY Before DEF Typed
<1>2. /\ call' = Idle /\ UNCHANGED history
      /\ session' = SetBegan(session, FALSE)
  BY DEF BeginWithoutMemory, Finish, SetBegan
<1>3. ~transport'.control.tls /\ ~transport'.data.tls
  BY <1>1, DeletedSound, NoTls DEF BeginWithoutMemory, Typed
<1>4. /\ session'.config = session.config /\ session'.pin = session.pin
      /\ session'.connected = session.connected
  BY <1>1, <1>2, SetBeganFields
<1> QED BY <1>1, <1>2, <1>3, <1>4, ReturnQuiet DEF SameSettings

LEMMA SettersQuiet ==
    ASSUME ClientInv, SetReconnectBetweenStores \/ ConnectBeforeBegin
    PROVE  Quiet
<1>1. Typed /\ session \in Session
  BY Before DEF Typed
<1>2. CASE SetReconnectBetweenStores
  <2>1. PICK enabled \in BOOLEAN :
           session' = [session EXCEPT !.reconnectBetween = enabled]
    BY <1>2 DEF SetReconnectBetweenStores
  <2>2. /\ session'.config = session.config /\ session'.pin = session.pin
        /\ session'.connected = session.connected
    BY <1>1, <2>1 DEF Session
  <2>3. call' = Idle /\ UNCHANGED <<transport, history>>
    BY <1>2 DEF SetReconnectBetweenStores
  <2> QED BY <1>1, <2>2, <2>3, ReturnQuiet DEF SameSettings
<1>3. CASE ConnectBeforeBegin
  <2>1. call' = Idle /\ session' = Uncounted /\ UNCHANGED <<transport, history>>
    BY <1>3 DEF ConnectBeforeBegin, Finish
  <2>2. /\ session'.config = session.config /\ session'.pin = session.pin
        /\ session'.connected = session.connected
    BY <1>1, <2>1, UncountedFields
  <2> QED BY <1>1, <2>1, <2>2, ReturnQuiet DEF SameSettings
<1> QED BY <1>2, <1>3

LEMMA SingleQuiet ==
    ASSUME ClientInv, Single,
           ~Begin, ~ConnectRefusesArguments, ~ConnectRefusesFingerprint,
           ~ConnectRefusesCertificate, ~ConnectRefusesLength
    PROVE  Quiet
BY RefusalsQuiet, CommandsQuiet, RenameQuiet, QuitQuiet,
   BeginWithoutMemoryQuiet, SettersQuiet
   DEF Single

-----------------------------------------------------------------------------
(* Steps that change the settings. *)

\* With no channel under TLS, only the settings matter.
LEMMA AllClosed ==
    ASSUME ~transport'.control.tls, ~transport'.data.tls
    PROVE  PeersVouched'
BY DEF PeersVouched

LEMMA BeginTrusted == ASSUME ClientInv, TrustInv, Begin PROVE TrustInv'
<1>1. Typed /\ session \in Session /\ history \in History
  BY Before DEF Typed
<1>2. PeersVouched'
  BY <1>1, DeletedSound, NoTls, AllClosed DEF Begin, Typed
<1>3. /\ call' = Idle /\ session'.connected = FALSE
      /\ session'.config = NoConfig
  BY <1>1, Begun DEF Begin, Finish
<1>4. session'.config.complete = FALSE
  BY <1>3 DEF NoConfig
<1>5. SettingsComplete'
  BY <1>3, Returned DEF SettingsComplete
<1>6. SettingsCurrent'
  BY <1>4 DEF SettingsCurrent
<1> QED BY <1>2, <1>5, <1>6 DEF TrustInv

\* A connect() that is refused changes the pin, and is remembered.
LEMMA RefuseTrusted ==
    ASSUME ClientInv, TrustInv, NEW s \in Session, s.config = session.config,
           s.connected = session.connected, NEW errors, Refuse(s, errors)
    PROVE  TrustInv'
<1>1. Typed /\ history \in History
  BY Before DEF Typed
<1>2. /\ call = Idle /\ call' = Idle /\ session' = s /\ UNCHANGED transport
      /\ history' = SetRefused(history, TRUE)
  BY DEF Refuse, Finish, SetRefused
<1>3. history'.refused = TRUE
  BY <1>1, <1>2, SetRefusedFields
<1>4. ~transport.data.tls
  BY <1>1, <1>2, Before, NoTls
<1>5. SettingsComplete'
  BY <1>2, Returned DEF TrustInv, SettingsComplete
<1>6. SettingsCurrent'
  BY <1>3 DEF SettingsCurrent
<1>7. PeersVouched'
  BY <1>2, <1>3, <1>4 DEF PeersVouched
<1> QED BY <1>5, <1>6, <1>7 DEF TrustInv

LEMMA RefusalsTrusted ==
    ASSUME ClientInv, TrustInv,
           \/ ConnectRefusesArguments \/ ConnectRefusesFingerprint
           \/ ConnectRefusesCertificate
    PROVE  TrustInv'
<1>1. session \in Session /\ NoPin \in PinValues
  BY Before DEF Typed, PinValues
<1>2. CASE ConnectRefusesArguments
  BY <1>1, <1>2, UncountedFields, RefuseTrusted DEF ConnectRefusesArguments
<1>3. CASE ConnectRefusesFingerprint
  <2>1. PICK left \in PinValues :
           Refuse([Uncounted EXCEPT !.pin = left], {"CertValidationFailed"})
    BY <1>3 DEF ConnectRefusesFingerprint
  <2> QED BY <1>1, <2>1, RepinnedFields, RefuseTrusted
<1>4. CASE ConnectRefusesCertificate
  BY <1>1, <1>4, RepinnedFields, RefuseTrusted DEF ConnectRefusesCertificate
<1> QED BY <1>2, <1>3, <1>4

\* Settings just accepted, everything closed.
LEMMA AcceptedTrusted ==
    ASSUME Typed, transport' = CloseAll(transport),
           NEW trust \in TrustModes, NEW pin \in PinValues, NEW config \in Config,
           config.complete => config.trust = trust,
           session' = [Disconnected(Uncounted) EXCEPT !.config = config,
                                                      !.pin = pin],
           history' = Noted(trust, pin),
           call' = Idle \/ (config.complete /\ call'.op = "connect")
    PROVE  TrustInv'
<1>1. PeersVouched'
  BY CloseAllSound, NoTls, AllClosed DEF Typed
<1>2. /\ session'.config = config /\ session'.pin = pin
      /\ session'.connected = FALSE
  BY Reconfigured DEF Typed
<1>3. history'.trust = trust /\ history'.pin = pin
  BY NotedFields DEF Typed
<1>4. SettingsComplete'
  BY <1>2, Returned DEF SettingsComplete
<1>5. SettingsCurrent'
  BY <1>2, <1>3 DEF SettingsCurrent
<1> QED BY <1>1, <1>4, <1>5 DEF TrustInv

LEMMA ConnectStartTrusted == ASSUME ClientInv, ConnectStart PROVE TrustInv'
<1>1. Typed /\ transport' = CloseAll(transport) /\ call'.op = "connect"
  BY Before DEF ConnectStart, StartCall
<1>2. PICK trust \in TrustModes :
         \E pin \in (IF trust = "Fingerprint" THEN Certs ELSE {NoPin}) :
            /\ session' = [Disconnected(Uncounted) EXCEPT
                              !.config = [host |-> TRUE, complete |-> TRUE,
                                          trust |-> trust],
                              !.pin = pin]
            /\ history' = Noted(trust, pin)
  BY DEF ConnectStart, Noted
<1>3. PICK pin \in PinValues :
         /\ session' = [Disconnected(Uncounted) EXCEPT
                           !.config = [host |-> TRUE, complete |-> TRUE,
                                       trust |-> trust],
                           !.pin = pin]
         /\ history' = Noted(trust, pin)
  BY <1>2 DEF PinValues
<1> DEFINE config == [host |-> TRUE, complete |-> TRUE, trust |-> trust]
<1>4. config \in Config /\ config.complete /\ config.trust = trust
  BY NewConfig
<1>5. session' = [Disconnected(Uncounted) EXCEPT !.config = config, !.pin = pin]
  BY <1>3
<1> HIDE DEF config
<1> QED BY <1>1, <1>3, <1>4, <1>5, AcceptedTrusted

LEMMA LengthTrusted == ASSUME ClientInv, ConnectRefusesLength PROVE TrustInv'
<1>1. Typed /\ transport' = CloseAll(transport)
  BY Before DEF ConnectRefusesLength
<1>2. PICK trust \in TrustModes, cached \in {"none", "host", "all"} :
         LET config == CASE cached = "none" -> NoConfig
                         [] cached = "host" -> [NoConfig EXCEPT !.host = TRUE]
                         [] cached = "all" -> [host |-> TRUE, complete |-> TRUE,
                                               trust |-> trust]
             errors == CASE cached = "none" -> {"ConnectionFailed"}
                         [] cached = "host" -> {"LoginRejected"}
                         [] cached = "all" -> {"CertValidationFailed"}
         IN  \E pin \in (IF trust = "Fingerprint" THEN Certs ELSE {NoPin}),
                err \in errors :
               /\ Finish("connect", FALSE, err,
                         [Disconnected(Uncounted) EXCEPT !.config = config,
                                                         !.pin = pin])
               /\ history' = Noted(trust, pin)
  BY DEF ConnectRefusesLength, Noted
<1> DEFINE config == CASE cached = "none" -> NoConfig
                       [] cached = "host" -> [NoConfig EXCEPT !.host = TRUE]
                       [] cached = "all" -> [host |-> TRUE, complete |-> TRUE,
                                             trust |-> trust]
           pins == IF trust = "Fingerprint" THEN Certs ELSE {NoPin}
<1>3. config \in Config /\ (config.complete => config.trust = trust)
  <2>1. /\ NoConfig.complete = FALSE
        /\ [NoConfig EXCEPT !.host = TRUE].complete = FALSE
    BY DEF NoConfig
  <2> QED BY <2>1, NewConfig
<1>4. pins \subseteq PinValues
  BY DEF PinValues
<1>5. \E pin \in pins : \E err :
         /\ Finish("connect", FALSE, err,
                   [Disconnected(Uncounted) EXCEPT !.config = config,
                                                   !.pin = pin])
         /\ history' = Noted(trust, pin)
  BY <1>2
<1> HIDE DEF config, pins
<1>6. PICK pin \in PinValues :
         /\ session' = [Disconnected(Uncounted) EXCEPT !.config = config,
                                                       !.pin = pin]
         /\ call' = Idle
         /\ history' = Noted(trust, pin)
  BY <1>4, <1>5 DEF Finish
<1> QED BY <1>1, <1>3, <1>6, AcceptedTrusted

\* A reconnect that begins uses the cached settings.
LEMMA ReconnectingTrusted ==
    ASSUME ClientInv, TrustInv, NEW op, op # "discover", NEW arg,
           Reconnecting(op, arg)
    PROVE  TrustInv'
<1>1. Typed /\ session \in Session
  BY Before DEF Typed
<1>2. transport' = CloseAll(transport) /\ UNCHANGED history
  BY DEF Reconnecting
<1>3. session' = Disconnected(Uncounted)
  BY DEF Reconnecting, Finish
<1>4. /\ session'.config = session.config /\ session'.pin = session.pin
      /\ session'.connected = FALSE
  BY <1>1, <1>3, ClosedUncounted
<1>5. PeersVouched'
  BY <1>1, <1>2, CloseAllSound, NoTls, AllClosed DEF Typed
<1>6. call' = Idle \/ (session.config.complete /\ call'.op = op)
  BY DEF Reconnecting, Finish, StartCall
<1>7. SettingsComplete'
  BY <1>4, <1>6, Returned DEF SettingsComplete
<1>8. SettingsCurrent'
  BY <1>2, <1>4 DEF TrustInv, SettingsCurrent
<1> QED BY <1>5, <1>7, <1>8 DEF TrustInv

LEMMA DiscoverStartTrusted ==
    ASSUME ClientInv, TrustInv, DiscoverStart PROVE TrustInv'
<1>1. Typed /\ session \in Session
  BY Before DEF Typed
<1>2. /\ transport' = CloseAll(transport) /\ UNCHANGED history
      /\ session' = Disconnected(session)
      /\ call' = [op |-> "discover", pc |-> "tcp", arg |-> "ok"]
  BY DEF DiscoverStart, StartCall
<1>3. /\ session'.config = session.config /\ session'.pin = session.pin
      /\ session'.connected = FALSE
  BY <1>1, <1>2, DisconnectedSettings
<1>4. ~transport'.control.tls /\ ~transport'.data.tls
  BY <1>1, <1>2, CloseAllSound, NoTls DEF Typed
<1>5. NoNewUse
  BY <1>2, <1>3 DEF NoNewUse, InLogin, DiscoverSteps
<1> QED
  BY <1>2, <1>3, <1>4, <1>5, QuietKeeps DEF Quiet, SameSettings, NoNewPeer

LEMMA StartTrusted == ASSUME ClientInv, TrustInv, Start PROVE TrustInv'
<1>1. Typed
  BY Before
<1>2. ASSUME NEW op, ReconnectRefused(op)
      PROVE  TrustInv'
  BY <1>1, <1>2, KeepQuiet, QuietKeeps DEF ReconnectRefused, SameTrust
<1>3. ASSUME NEW op, op # "discover", NEW arg, StartCall(op, "pasv", arg),
             UNCHANGED <<transport, session, wire, history>>
      PROVE  TrustInv'
  <2>1. NoNewUse
    BY <1>3 DEF NoNewUse, StartCall, InLogin, ConnectSteps
  <2> QED BY <1>3, <2>1, QuietKeeps DEF Quiet, SameSettings, NoNewPeer
<1>4. CASE ConnectStart
  BY <1>4, ConnectStartTrusted
<1>5. CASE DiscoverStart
  BY <1>5, DiscoverStartTrusted
<1>6. CASE Reconnect
  BY <1>2, <1>6, ReconnectingTrusted DEF Reconnect
<1>7. CASE StoreStart
  BY <1>2, <1>3, <1>7, ReconnectingTrusted DEF StoreStart
<1>8. CASE RetrieveStart
  BY <1>3, <1>8 DEF RetrieveStart, TransferStart
<1>9. CASE ListStart
  BY <1>3, <1>9 DEF ListStart, TransferStart
<1> QED BY <1>4, <1>5, <1>6, <1>7, <1>8, <1>9 DEF Start

-----------------------------------------------------------------------------
(* The login. *)

LEMMA LoginFailsQuiet ==
    ASSUME ClientInv, call.pc \in ConnectSteps, NEW t, Sound(t), NEW err,
           LoginFails(t, err), SameTrust
    PROVE  Quiet
<1>1. Typed /\ session \in Session
  BY Before DEF Typed
<1>2. transport' = CloseAll(t) /\ call' = Idle /\ session' = session
  BY DEF LoginFails, Finish
<1>3. ~transport'.control.tls /\ ~transport'.data.tls
  BY <1>2, CloseAllSound, NoTls
<1> QED BY <1>1, <1>2, <1>3, ReturnQuiet DEF SameSettings, SameTrust

\* The next step of the same login.
LEMMA GoesOnQuiet ==
    ASSUME ClientInv, TrustInv, call.pc \in ConnectSteps,
           NEW next \in ConnectSteps, GoTo(next), UNCHANGED session, SameTrust,
           NoNewPeer, call.op = "discover" => next \in DiscoverSteps
    PROVE  Quiet
<1>1. call'.pc = next /\ call'.op = call.op
  BY NextLoginStep, Before DEF Typed, GoTo
<1>2. NoNewUse
  BY <1>1 DEF NoNewUse, InLogin
<1> QED BY <1>2 DEF Quiet, SameSettings, SameTrust

\* Discovery does not get past its handshake.
LEMMA DiscoverOnly ==
    ASSUME TrustInv, call.pc \notin DiscoverSteps
    PROVE  call.op # "discover"
BY DEF TrustInv, SettingsComplete

LEMMA LoginStepQuiet ==
    ASSUME ClientInv, TrustInv, NEW pc, NEW cmd \in PlainCommands, NEW good,
           NEW next, NEW err, SameStage(pc, next),
           LoginStep(pc, cmd, good, next, err)
    PROVE  Quiet
<1>1. call.pc = pc /\ call.pc \in ConnectSteps /\ next \in ConnectSteps
  BY DEF LoginStep, SameStage, ConnectSteps
<1>2. Typed /\ history \in History /\ wire \in Seq(Reply) /\ Sound(transport)
  BY Before DEF Typed
<1>3. PICK e \in Exchanges(wire, cmd, "ok") :
         /\ Heard(e)
         /\ \/ GoTo(next) /\ UNCHANGED <<transport, session>>
            \/ LoginFails(transport, err)
  BY DEF LoginStep
<1>4. SameTrust
  BY <1>2, <1>3, ExchangesTyped, HeardTyped DEF SameTrust
<1>5. CASE GoTo(next) /\ UNCHANGED <<transport, session>>
  <2>1. call.op = "discover" => next \in DiscoverSteps
    <3>1. CASE {pc, next} \subseteq {"banner", "authTls", "authSsl", "controlTls"}
      BY <3>1 DEF DiscoverSteps
    <3>2. CASE {pc, next} \subseteq {"pbsz", "protP", "user", "pass", "typeI"}
      <4>1. call.pc \notin DiscoverSteps
        BY <1>1, <3>2 DEF DiscoverSteps
      <4> QED BY <4>1, DiscoverOnly
    <3> QED BY <3>1, <3>2 DEF SameStage
  <2>2. NoNewPeer
    BY <1>5 DEF NoNewPeer
  <2> QED BY <1>1, <1>4, <1>5, <2>1, <2>2, GoesOnQuiet
<1>6. CASE LoginFails(transport, err)
  BY <1>1, <1>2, <1>4, <1>6, LoginFailsQuiet
<1> QED BY <1>3, <1>5, <1>6

LEMMA LoginCommandsQuiet ==
    ASSUME ClientInv, TrustInv, Banner \/ AuthSsl \/ Pbsz \/ ProtP \/ Pass
    PROVE  Quiet
<1>1. {"banner", "AUTH", "PBSZ", "PROT", "PASS"} \subseteq PlainCommands
  BY DEF PlainCommands
<1>2. /\ SameStage("banner", "authTls") /\ SameStage("authSsl", "controlTls")
      /\ SameStage("pbsz", "protP") /\ SameStage("protP", "user")
      /\ SameStage("pass", "typeI")
  BY DEF SameStage
<1> QED BY <1>1, <1>2, LoginStepQuiet DEF Banner, AuthSsl, Pbsz, ProtP, Pass

LEMMA TcpQuiet == ASSUME ClientInv, TrustInv, Tcp PROVE Quiet
<1>1. call.pc = "tcp" /\ history' = Fresh
  BY DEF Tcp, Fresh
<1>2. call.pc \in ConnectSteps /\ "banner" \in ConnectSteps /\ "banner" \in DiscoverSteps
  BY <1>1 DEF ConnectSteps, DiscoverSteps
<1>3. Typed /\ Sound(transport) /\ history \in History
  BY Before DEF Typed
<1>4. SameTrust
  BY <1>1, <1>3, FreshFields DEF SameTrust
<1>5. PICK net \in NetResults :
         /\ transport' = ConnectControl(transport, net)
         /\ \/ GoTo("banner") /\ UNCHANGED session
            \/ Finish(call.op, FALSE, "ConnectionFailed", session)
  BY DEF Tcp
<1>6. ~transport'.control.tls /\ ~transport'.data.tls
  BY <1>3, <1>5, ConnectControlSound, NoTls
<1>7. CASE GoTo("banner") /\ UNCHANGED session
  BY <1>2, <1>4, <1>6, <1>7, GoesOnQuiet DEF NoNewPeer
<1>8. CASE Finish(call.op, FALSE, "ConnectionFailed", session)
  <2>1. call' = Idle /\ session' = session
    BY <1>8 DEF Finish
  <2> QED BY <1>3, <1>4, <1>6, <2>1, ReturnQuiet DEF SameSettings, SameTrust
<1> QED BY <1>5, <1>7, <1>8

LEMMA AuthTlsQuiet == ASSUME ClientInv, TrustInv, AuthTls PROVE Quiet
<1>1. call.pc = "authTls" /\ UNCHANGED <<transport, session>>
  BY DEF AuthTls
<1>2. /\ call.pc \in ConnectSteps
      /\ {"controlTls", "authSsl"} \subseteq ConnectSteps
      /\ {"controlTls", "authSsl"} \subseteq DiscoverSteps
  BY <1>1 DEF ConnectSteps, DiscoverSteps
<1>3. Typed /\ history \in History /\ wire \in Seq(Reply)
  BY Before DEF Typed
<1>4. PICK e \in Exchanges(wire, "AUTH", "ok"), next \in {"controlTls", "authSsl"} :
         /\ GoTo(next)
         /\ history' = [history EXCEPT !.own = @ /\ e.own,
                                       !.missed = @ \/ e.rest # <<>>]
  BY DEF AuthTls
<1>5. history' = SetMissed(SetOwn(history, history.own /\ e.own),
                           history.missed \/ e.rest # <<>>)
  BY <1>4 DEF SetMissed, SetOwn
<1> DEFINE h == SetOwn(history, history.own /\ e.own)
<1>6. e.own \in BOOLEAN
  BY <1>3, <1>4, ExchangesTyped DEF PlainCommands
<1>7. /\ h \in History /\ h.refused = history.refused
      /\ h.trust = history.trust /\ h.pin = history.pin
  BY <1>3, <1>6, SetOwnFields, HistoryFields
<1>8. history' = SetMissed(h, history.missed \/ e.rest # <<>>)
  BY <1>5
<1> HIDE DEF h
<1>9. SameTrust
  BY <1>3, <1>7, <1>8, SetMissedFields, HistoryFields DEF SameTrust
<1>10. NoNewPeer
  BY <1>1 DEF NoNewPeer
<1> QED BY <1>1, <1>2, <1>4, <1>9, <1>10, GoesOnQuiet

LEMMA UserQuiet == ASSUME ClientInv, TrustInv, User PROVE Quiet
<1>1. call.pc = "user"
  BY DEF User
<1>2. call.pc \in ConnectSteps /\ {"pass", "typeI"} \subseteq ConnectSteps
  BY <1>1 DEF ConnectSteps
<1>3. Typed /\ history \in History /\ wire \in Seq(Reply) /\ Sound(transport)
  BY Before DEF Typed
<1>4. PICK e \in Exchanges(wire, "USER", "ok"), next \in {"pass", "typeI"} :
         /\ Heard(e)
         /\ \/ GoTo(next) /\ UNCHANGED <<transport, session>>
            \/ LoginFails(transport, "LoginRejected")
  BY DEF User
<1>5. SameTrust
  BY <1>3, <1>4, ExchangesTyped, HeardTyped DEF SameTrust, PlainCommands
<1>6. call.op # "discover"
  BY <1>1, DiscoverOnly DEF DiscoverSteps
<1>7. CASE GoTo(next) /\ UNCHANGED <<transport, session>>
  BY <1>2, <1>4, <1>5, <1>6, <1>7, GoesOnQuiet DEF NoNewPeer
<1>8. CASE LoginFails(transport, "LoginRejected")
  BY <1>2, <1>3, <1>5, <1>8, LoginFailsQuiet
<1> QED BY <1>4, <1>7, <1>8

LEMMA DiscoverTlsQuiet == ASSUME ClientInv, TrustInv, DiscoverTls PROVE Quiet
<1>1. /\ call.pc = "controlTls" /\ call.op = "discover" /\ UNCHANGED history
  BY DEF DiscoverTls
<1>2. Typed /\ session \in Session /\ Sound(transport)
  BY Before DEF Typed
<1>3. PICK h \in Handshakes(DiscoveryTls) :
         /\ transport' = CloseAll(UpgradeControlToTls(transport, DiscoveryTls, h))
         /\ call' = Idle /\ session' = session
  BY <1>1 DEF DiscoverTls, HandshakesOnWire, LoginFails, Finish
<1>4. ~transport'.control.tls /\ ~transport'.data.tls
  BY <1>2, <1>3, SessionTlsTyped, UpgradeControlSound, CloseAllSound, NoTls
<1> QED BY <1>1, <1>2, <1>3, <1>4, ReturnQuiet DEF SameSettings

LEMMA TypeIQuiet == ASSUME ClientInv, TrustInv, TypeI PROVE Quiet
<1>1. call.pc = "typeI"
  BY DEF TypeI
<1>2. call.pc \in ConnectSteps /\ call.op # "discover"
  BY <1>1, DiscoverOnly DEF ConnectSteps, DiscoverSteps
<1>3. /\ Typed /\ history \in History /\ wire \in Seq(Reply)
      /\ Sound(transport) /\ session \in Session /\ call \in Calls
  BY Before DEF Typed
<1>4. PICK e \in Exchanges(wire, "TYPE", "ok") :
         /\ Heard(e)
         /\ \/ /\ UNCHANGED transport
               /\ session' = SetConnected(session, TRUE)
               /\ \/ call.op = "store" /\ GoTo("pasv")
                  \/ call' = Idle
            \/ LoginFails(transport, "TypeRejected")
  BY DEF TypeI, SetConnected, Finish
<1>5. SameTrust
  BY <1>3, <1>4, ExchangesTyped, HeardTyped DEF SameTrust, PlainCommands
<1>6. CASE /\ UNCHANGED transport
           /\ session' = SetConnected(session, TRUE)
           /\ \/ call.op = "store" /\ GoTo("pasv")
              \/ call' = Idle
  <2>1. session'.config = session.config /\ session'.pin = session.pin
    BY <1>3, <1>6, SetConnectedFields
  <2>2. call'.op # "discover"
    <3>1. CASE call' = Idle
      BY <3>1, Returned
    <3>2. CASE call.op = "store" /\ GoTo("pasv")
      <4>1. "pasv" \in TransferSteps /\ call.op \in TransferOps
        BY <3>2 DEF TransferSteps, TransferOps
      <4> QED BY <1>2, <1>3, <3>2, <4>1, NextTransferStep DEF GoTo
    <3> QED BY <1>6, <3>1, <3>2
  <2>3. NoNewUse
    BY <1>2, <2>2 DEF NoNewUse, InLogin
  <2> QED
    BY <1>5, <1>6, <2>1, <2>3 DEF Quiet, SameSettings, SameTrust, NoNewPeer
<1>7. CASE LoginFails(transport, "TypeRejected")
  BY <1>2, <1>3, <1>5, <1>7, LoginFailsQuiet
<1> QED BY <1>4, <1>6, <1>7

\* What a handshake with the session's settings accepts, they vouch for: with
\* a pin the certificate is compared; without one, Fingerprint trust has no CA
\* to verify the chain with, and ImportedCert trust has verified it.
LEMMA HandshakeVouches ==
    ASSUME session \in Session, session.config.complete,
           NEW h \in Handshakes(SessionTls), h.at \in {"done", "opaque"},
           PinMatches(SessionTls, h)
    PROVE  Vouched(h.cert, session.config.trust, session.pin)
<1>1. session.config \in Config /\ session.pin \in PinValues
  BY SessionFields
<1>2. session.config.complete = TRUE /\ session.config.trust \in TrustModes
  BY <1>1 DEF Config
<1>3. /\ h.cert \in Certs
      /\ VerifiesChain(SessionTls) => SessionTls.ca /\ h.cert \in SignedCerts
  BY Handshake
<1>4. SessionTls.validate
  BY <1>2 DEF SessionTls
<1>5. CASE session.config.trust = "Fingerprint"
  <2>1. SessionTls.pin = session.pin /\ ~SessionTls.ca
    BY <1>5 DEF SessionTls
  <2>2. SessionTls.pin # NoPin
    BY <1>3, <1>4, <2>1 DEF VerifiesChain
  <2>3. SessionTls.pin = h.cert
    BY <2>2 DEF PinMatches
  <2> QED BY <1>5, <2>1, <2>3 DEF Vouched
<1>6. CASE session.config.trust # "Fingerprint"
  <2>1. SessionTls.pin = NoPin
    BY <1>6 DEF SessionTls
  <2> QED BY <1>3, <1>4, <1>6, <2>1 DEF VerifiesChain, Vouched
<1> QED BY <1>5, <1>6

\* The peer of a secured channel.
LEMMA SecuredPeer ==
    ASSUME NEW cert
    PROVE  Secured(cert).peer = cert
BY DEF Secured

\* One channel newly secured, by a certificate the settings vouch for.
LEMMA SecuredTrusted ==
    ASSUME TrustInv, UNCHANGED <<session, history>>, NoNewUse,
           session.config.complete, NEW cert,
           Vouched(cert, session.config.trust, session.pin),
           \/ transport'.control = transport.control
           \/ transport'.control = Secured(cert),
           \/ transport'.data = transport.data
           \/ transport'.data = Secured(cert)
    PROVE  TrustInv'
<1>1. SettingsComplete'
  BY DEF TrustInv, SettingsComplete, NoNewUse
<1>2. SettingsCurrent'
  BY DEF TrustInv, SettingsCurrent
<1>3. ~history.refused => Vouched(cert, history.trust, history.pin)
  BY DEF TrustInv, SettingsCurrent
<1>4. /\ transport'.data.tls =>
           Vouched(transport'.data.peer, session.config.trust, session.pin)
      /\ ~history.refused =>
           /\ transport'.control.tls =>
                Vouched(transport'.control.peer, history.trust, history.pin)
           /\ transport'.data.tls =>
                Vouched(transport'.data.peer, history.trust, history.pin)
  BY <1>3, SecuredPeer DEF TrustInv, PeersVouched
<1>5. PeersVouched'
  BY <1>4 DEF PeersVouched, Vouched
<1> QED BY <1>1, <1>2, <1>5 DEF TrustInv

LEMMA ControlTlsTrusted == ASSUME ClientInv, TrustInv, ControlTls PROVE TrustInv'
<1>1. call.pc = "controlTls" /\ call.op # "discover" /\ UNCHANGED history
  BY DEF ControlTls
<1>2. call.pc \in ConnectSteps /\ "pbsz" \in ConnectSteps
  BY <1>1 DEF ConnectSteps
<1>3. Typed /\ session \in Session /\ Sound(transport) /\ call \in Calls
  BY Before DEF Typed
<1>4. session.config.complete
  BY <1>1, <1>2 DEF TrustInv, SettingsComplete, InLogin
<1>5. PICK h \in Handshakes(SessionTls) :
         \/ /\ UpgradeControlToTlsOk(transport, SessionTls, h)
            /\ transport' = UpgradeControlToTls(transport, SessionTls, h)
            /\ GoTo("pbsz") /\ UNCHANGED session
         \/ \E err : LoginFails(UpgradeControlToTls(transport, SessionTls, h), err)
  BY DEF ControlTls, HandshakesOnWire
<1> DEFINE t == UpgradeControlToTls(transport, SessionTls, h)
<1>6. /\ Sound(t) /\ t.data = transport.data
      /\ UpgradeControlToTlsOk(transport, SessionTls, h) =>
           t.control = Secured(h.cert)
  BY <1>3, <1>5, SessionTlsTyped, UpgradeControlSound
<1> HIDE DEF t
<1>7. CASE /\ UpgradeControlToTlsOk(transport, SessionTls, h)
           /\ transport' = t /\ GoTo("pbsz") /\ UNCHANGED session
  <2>1. h.at \in {"done", "opaque"} /\ PinMatches(SessionTls, h)
    BY <1>7 DEF UpgradeControlToTlsOk
  <2>2. Vouched(h.cert, session.config.trust, session.pin)
    BY <1>3, <1>4, <1>5, <2>1, HandshakeVouches
  <2>3. call'.op = call.op
    BY <1>2, <1>3, <1>7, NextLoginStep DEF GoTo
  <2>4. NoNewUse
    BY <1>1, <1>2, <1>7, <2>3 DEF NoNewUse, InLogin
  <2> QED BY <1>1, <1>4, <1>6, <1>7, <2>2, <2>4, SecuredTrusted
<1>8. ASSUME NEW err, LoginFails(t, err)
      PROVE  TrustInv'
  BY <1>1, <1>2, <1>6, <1>8, LoginFailsQuiet, QuietKeeps DEF SameTrust
<1> QED BY <1>5, <1>7, <1>8 DEF t

LEMMA LoginTrusted == ASSUME ClientInv, TrustInv, Login PROVE TrustInv'
<1>1. CASE ControlTls
  BY <1>1, ControlTlsTrusted
<1>2. CASE ~ControlTls
  <2>1. Quiet
    BY <1>2, TcpQuiet, LoginCommandsQuiet, AuthTlsQuiet, UserQuiet,
       DiscoverTlsQuiet, TypeIQuiet
       DEF Login
  <2> QED BY <2>1, QuietKeeps
<1> QED BY <1>1, <1>2

-----------------------------------------------------------------------------
(* A transfer. *)

\* One that goes on, with no channel newly secured.
LEMMA TransferGoesOnQuiet ==
    ASSUME ClientInv, call.pc \in TransferSteps, NEW next \in TransferSteps,
           GoTo(next), UNCHANGED session, SameTrust, NoNewPeer
    PROVE  Quiet
<1>1. /\ call \in Calls /\ call.op \in TransferOps /\ Usable
  BY InTransfer
<1>2. call'.op = call.op
  BY <1>1, NextTransferStep DEF GoTo
<1>3. NoNewUse
  BY <1>1, <1>2 DEF NoNewUse, Usable, TransferOps
<1> QED BY <1>3 DEF Quiet, SameSettings, SameTrust

\* One that fails and keeps the session.
LEMMA TransferFailsQuiet ==
    ASSUME ClientInv, NEW t, t.control = transport.control, ~t.data.tls,
           NEW err, NEW w, TransferFails(err, t, w), SameTrust
    PROVE  Quiet
<1>1. Typed /\ transport' = t /\ call' = Idle /\ session' = session
  BY Before DEF TransferFails, Finish
<1> QED BY <1>1, ReturnQuiet DEF SameSettings, SameTrust

LEMMA DrainQuiet ==
    ASSUME ClientInv, NEW t, t.control = transport.control, ~t.data.tls,
           NEW err, TransferFailsAndDrains(err, t)
    PROVE  Quiet
<1>1. history \in History /\ wire \in Seq(Reply)
  BY Before DEF Typed
<1>2. PICK e \in Reads(wire) :
         /\ TransferFails(err, t, e.rest)
         /\ history' = SetMissed(history, history.missed \/ e.rest # <<>>)
  BY DEF TransferFailsAndDrains, SetMissed
<1>3. SameTrust
  BY <1>1, <1>2, SetMissedFields, HistoryFields DEF SameTrust
<1> QED BY <1>2, <1>3, TransferFailsQuiet

LEMMA PasvQuiet == ASSUME ClientInv, Pasv PROVE Quiet
<1>1. call.pc = "pasv"
  BY DEF Pasv
<1>2. call.pc \in TransferSteps /\ "open" \in TransferSteps
  BY <1>1 DEF TransferSteps
<1>3. /\ Typed /\ wire \in Seq(Reply) /\ history \in History
      /\ ~transport.data.tls
  <2>1. DataStage = "closed"
    BY <1>1 DEF DataStage
  <2> QED BY <1>2, <2>1, InTransfer, StageClosed, NoTls DEF Sound, Accounted
<1>4. CASE TransferFails("TransferFailed", transport, wire) /\ UNCHANGED history
  BY <1>3, <1>4, TransferFailsQuiet DEF SameTrust
<1>5. ASSUME NEW e \in Exchanges(wire, "PASV", "ok"), Heard(e),
             \/ FailAndDisconnect(call.op, "ConnectionFailed")
             \/ GoTo("open") /\ UNCHANGED <<transport, session>>
             \/ TransferFails("PasvParseFailed", transport, e.rest)
             \/ TransferFails("PassiveModeRejected", transport, e.rest)
      PROVE  Quiet
  <2>1. SameTrust
    BY <1>3, <1>5, ExchangesTyped, HeardTyped DEF SameTrust, PlainCommands
  <2>2. CASE FailAndDisconnect(call.op, "ConnectionFailed")
    BY <1>3, <2>1, <2>2, FailQuiet
  <2>3. CASE GoTo("open") /\ UNCHANGED <<transport, session>>
    BY <1>2, <2>1, <2>3, TransferGoesOnQuiet DEF NoNewPeer
  <2>4. CASE \/ TransferFails("PasvParseFailed", transport, e.rest)
             \/ TransferFails("PassiveModeRejected", transport, e.rest)
    BY <1>3, <2>1, <2>4, TransferFailsQuiet
  <2> QED BY <1>5, <2>2, <2>3, <2>4
<1>6. CASE call.arg = "empty"
  BY <1>4, <1>6 DEF Pasv
<1>7. CASE call.arg # "empty"
  BY <1>5, <1>7 DEF Pasv
<1> QED BY <1>6, <1>7

LEMMA OpenDataQuiet == ASSUME ClientInv, OpenData PROVE Quiet
<1>1. call.pc = "open" /\ UNCHANGED history
  BY DEF OpenData
<1>2. call.pc \in TransferSteps /\ "command" \in TransferSteps
  BY <1>1 DEF TransferSteps
<1>3. Sound(transport)
  BY <1>2, InTransfer
<1>4. PICK net \in NetResults :
         \/ /\ transport' = OpenDataChannel(transport, net)
            /\ GoTo("command") /\ UNCHANGED session
         \/ TransferFails("DataConnectionFailed",
                          OpenDataChannel(transport, net), wire)
  BY DEF OpenData
<1> DEFINE t == OpenDataChannel(transport, net)
<1>5. t.control = transport.control /\ ~t.data.tls
  BY <1>3, <1>4, OpenDataChannelSound, NoTls
<1> HIDE DEF t
<1>6. CASE transport' = t /\ GoTo("command") /\ UNCHANGED session
  BY <1>1, <1>2, <1>5, <1>6, TransferGoesOnQuiet DEF NoNewPeer, SameTrust
<1>7. CASE TransferFails("DataConnectionFailed", t, wire)
  BY <1>1, <1>5, <1>7, TransferFailsQuiet DEF SameTrust
<1> QED BY <1>4, <1>6, <1>7 DEF t

LEMMA TransferCommandQuiet ==
    ASSUME ClientInv, NEW pc \in {"command", "list"}, NEW op,
           NEW cmd \in TransferCommands, SendTransferCommand(pc, op, cmd)
    PROVE  Quiet
<1>1. call.pc = pc
  BY DEF SendTransferCommand
<1>2. call.pc \in TransferSteps /\ "dataTls" \in TransferSteps /\ "list" \in TransferSteps
  BY <1>1 DEF TransferSteps
<1>3. /\ Typed /\ Sound(transport) /\ wire \in Seq(Reply) /\ history \in History
  BY <1>2, InTransfer
<1>4. PICK e \in Exchanges(wire, cmd, call.arg) :
         /\ Heard(e)
         /\ \/ FailAndDisconnect(call.op, "ConnectionFailed")
            \/ /\ UNCHANGED <<transport, session>>
               /\ GoTo("dataTls") \/ GoTo("list")
            \/ TransferFails(FailError[call.op], CloseData(transport), e.rest)
  BY DEF SendTransferCommand, TryList, CommandRefused
<1>5. SameTrust
  BY <1>3, <1>4, ExchangesTyped, HeardTyped DEF SameTrust
<1>6. CASE FailAndDisconnect(call.op, "ConnectionFailed")
  BY <1>3, <1>5, <1>6, FailQuiet
<1>7. CASE /\ UNCHANGED <<transport, session>>
           /\ GoTo("dataTls") \/ GoTo("list")
  BY <1>2, <1>5, <1>7, TransferGoesOnQuiet DEF NoNewPeer
<1>8. CASE TransferFails(FailError[call.op], CloseData(transport), e.rest)
  BY <1>3, <1>5, <1>8, CloseDataSound, NoTls, TransferFailsQuiet
<1> QED BY <1>4, <1>6, <1>7, <1>8

LEMMA TransferCommandsQuiet ==
    ASSUME ClientInv,
           StoreCommand \/ RetrieveCommand \/ ListCommand \/ ListFallback
    PROVE  Quiet
<1>1. {"STOR", "RETR", "MLSD", "LIST"} \subseteq TransferCommands
  BY DEF TransferCommands
<1> QED
  BY <1>1, TransferCommandQuiet
     DEF StoreCommand, RetrieveCommand, ListCommand, ListFallback

LEMMA DataTlsTrusted == ASSUME ClientInv, TrustInv, DataTls PROVE TrustInv'
<1>1. call.pc = "dataTls"
  BY DEF DataTls
<1>2. call.pc \in TransferSteps /\ "data" \in TransferSteps
  BY <1>1 DEF TransferSteps
<1>3. /\ Typed /\ Sound(transport) /\ session \in Session /\ Usable
      /\ transport.data.tcp /\ ~transport.data.tls
      /\ call \in Calls /\ call.op \in TransferOps
  <2>1. DataStage = "tcp"
    BY <1>1 DEF DataStage
  <2> QED BY <1>2, <2>1, InTransfer, StageTells DEF Sound, Accounted
<1>4. session.config.complete
  BY <1>3 DEF TrustInv, SettingsComplete, Usable
<1>5. PICK h \in Handshakes(SessionTls) :
         \/ /\ UpgradeDataToTlsOk(transport, SessionTls, h)
            /\ transport' = UpgradeDataToTls(transport, SessionTls, h)
            /\ GoTo("data") /\ UNCHANGED <<session, history>>
         \/ /\ ~UpgradeDataToTlsOk(transport, SessionTls, h)
            /\ \E err : TransferFailsAndDrains(err,
                           UpgradeDataToTls(transport, SessionTls, h))
  BY DEF DataTls
<1> DEFINE t == UpgradeDataToTls(transport, SessionTls, h)
<1>6. /\ t.control = transport.control
      /\ UpgradeDataToTlsOk(transport, SessionTls, h) => t.data = Secured(h.cert)
      /\ ~UpgradeDataToTlsOk(transport, SessionTls, h) => ~t.data.tls
  BY <1>3, <1>5, SessionTlsTyped, UpgradeDataSound, NoTls
<1> HIDE DEF t
<1>7. CASE /\ UpgradeDataToTlsOk(transport, SessionTls, h)
           /\ transport' = t
           /\ GoTo("data") /\ UNCHANGED <<session, history>>
  <2>1. h.at \in {"done", "opaque"} /\ PinMatches(SessionTls, h)
    BY <1>7 DEF UpgradeDataToTlsOk
  <2>2. Vouched(h.cert, session.config.trust, session.pin)
    BY <1>3, <1>4, <1>5, <2>1, HandshakeVouches
  <2>3. call'.op = call.op
    BY <1>2, <1>3, <1>7, NextTransferStep DEF GoTo
  <2>4. NoNewUse
    BY <1>3, <1>7, <2>3 DEF NoNewUse, Usable, TransferOps
  <2> QED BY <1>4, <1>6, <1>7, <2>2, <2>4, SecuredTrusted
<1>8. CASE /\ ~UpgradeDataToTlsOk(transport, SessionTls, h)
           /\ \E err : TransferFailsAndDrains(err, t)
  BY <1>6, <1>8, DrainQuiet, QuietKeeps
<1> QED BY <1>5, <1>7, <1>8 DEF t

LEMMA DataMovedQuiet == ASSUME ClientInv, NEW op, DataMoved(op) PROVE Quiet
<1>1. /\ call.pc = "data" /\ transport' = CloseData(transport) /\ GoTo("final")
      /\ UNCHANGED <<session, history>>
  BY DEF DataMoved
<1>2. call.pc \in TransferSteps /\ "final" \in TransferSteps
  BY <1>1 DEF TransferSteps
<1>3. NoNewPeer
  BY <1>1, <1>2, InTransfer, CloseDataSound, NoTls DEF NoNewPeer
<1> QED BY <1>1, <1>2, <1>3, TransferGoesOnQuiet DEF SameTrust

LEMMA DataFailsQuiet == ASSUME ClientInv, NEW op, DataFails(op) PROVE Quiet
<1>1. Sound(transport)
  BY Before DEF Typed
<1> QED BY <1>1, CloseDataSound, NoTls, DrainQuiet DEF DataFails

LEMMA FinalReplyQuiet ==
    ASSUME ClientInv, NEW op, NEW counted \in Session,
           counted.config = session.config, counted.pin = session.pin,
           counted.connected = session.connected, FinalReply(op, counted)
    PROVE  Quiet
<1>1. call.pc = "final"
  BY DEF FinalReply
<1>2. call.pc \in TransferSteps
  BY <1>1 DEF TransferSteps
<1>3. /\ Typed /\ wire \in Seq(Reply) /\ history \in History
      /\ ~transport.data.tls
  <2>1. DataStage = "closed"
    BY <1>1 DEF DataStage
  <2> QED BY <1>2, <2>1, InTransfer, StageClosed, NoTls DEF Sound, Accounted
<1>4. PICK e \in Reads(wire), n \in {1, history.uploads} :
         \/ FailAndDisconnect(op, "ConnectionFailed") /\ UNCHANGED history
         \/ /\ UNCHANGED transport
            /\ Finish(op, TRUE, "None", counted)
            /\ history' = [history EXCEPT !.own = @ /\ e.own, !.uploads = n]
         \/ TransferFails("FinalReplyFailed", transport, e.rest) /\ Heard(e)
  BY DEF FinalReply
<1>5. e.own \in BOOLEAN
  BY <1>3, <1>4, ReadsTyped
<1>6. CASE FailAndDisconnect(op, "ConnectionFailed") /\ UNCHANGED history
  BY <1>3, <1>6, FailQuiet DEF SameTrust
<1>7. CASE /\ UNCHANGED transport
           /\ Finish(op, TRUE, "None", counted)
           /\ history' = [history EXCEPT !.own = @ /\ e.own, !.uploads = n]
  <2> DEFINE h == SetOwn(history, history.own /\ e.own)
  <2>1. history' = SetUploads(h, n)
    BY <1>7 DEF SetUploads, SetOwn
  <2>2. n \in 0..1
    BY <1>3, <1>4, HistoryFields
  <2>3. /\ h \in History /\ h.refused = history.refused
        /\ h.trust = history.trust /\ h.pin = history.pin
    BY <1>3, <1>5, SetOwnFields, HistoryFields
  <2> HIDE DEF h
  <2>4. SameTrust
    BY <2>1, <2>2, <2>3, SetUploadsFields DEF SameTrust
  <2>5. call' = Idle /\ session' = counted
    BY <1>7 DEF Finish
  <2> QED BY <1>3, <1>7, <2>4, <2>5, ReturnQuiet DEF SameSettings, SameTrust
<1>8. CASE TransferFails("FinalReplyFailed", transport, e.rest) /\ Heard(e)
  <2>1. SameTrust
    BY <1>3, <1>5, <1>8, HeardTyped DEF SameTrust
  <2> QED BY <1>3, <1>8, <2>1, TransferFailsQuiet
<1> QED BY <1>4, <1>6, <1>7, <1>8

LEMMA TransferTrusted == ASSUME ClientInv, TrustInv, Transfer PROVE TrustInv'
<1>1. CASE DataTls
  BY <1>1, DataTlsTrusted
<1>2. CASE StoreFinal \/ RetrieveFinal \/ ListFinal
  <2>1. session \in Session
    BY Before DEF Typed
  <2>2. Quiet
    BY <1>2, <2>1, Counted, FinalReplyQuiet DEF StoreFinal, RetrieveFinal, ListFinal
  <2> QED BY <2>2, QuietKeeps
<1>3. CASE \/ StoreWritten \/ RetrieveRead \/ ListRead
           \/ StoreDataFails \/ RetrieveDataFails \/ ListDataFails
  <2>1. Quiet
    BY <1>3, DataMovedQuiet, DataFailsQuiet
       DEF StoreWritten, RetrieveRead, ListRead, StoreDataFails,
           RetrieveDataFails, ListDataFails
  <2> QED BY <2>1, QuietKeeps
<1> QED
  BY <1>1, <1>2, <1>3, PasvQuiet, OpenDataQuiet, TransferCommandsQuiet,
     QuietKeeps
     DEF Transfer

-----------------------------------------------------------------------------
(* The theorem. *)

LEMMA TrustInit == Init => TrustInv
<1> SUFFICES ASSUME Init PROVE TrustInv
  OBVIOUS
<1>1. /\ ~session.connected /\ session.config = NoConfig /\ call = Idle
      /\ transport.control = Closed /\ transport.data = Closed
  BY NewTransportSound DEF Init, TransportInit
<1>2. ~session.config.complete
  BY <1>1 DEF NoConfig
<1> QED
  BY <1>1, <1>2, NoTls
     DEF TrustInv, SettingsComplete, SettingsCurrent, PeersVouched, InLogin,
         Idle, ConnectSteps

LEMMA TrustStep == ClientInv /\ TrustInv /\ [Next]_vars => TrustInv'
<1> SUFFICES ASSUME ClientInv, TrustInv, [Next]_vars PROVE TrustInv'
  OBVIOUS
<1>1. CASE Single
  BY <1>1, SingleQuiet, QuietKeeps, BeginTrusted, RefusalsTrusted, LengthTrusted
<1>2. CASE Start
  BY <1>2, StartTrusted
<1>3. CASE Login
  BY <1>3, LoginTrusted
<1>4. CASE Transfer
  BY <1>4, TransferTrusted
<1>5. CASE UNCHANGED vars
  BY <1>5
     DEF vars, TrustInv, SettingsComplete, SettingsCurrent, PeersVouched,
         InLogin, Vouched
<1> QED BY <1>1, <1>2, <1>3, <1>4, <1>5 DEF Next

\* The settings in force at a handshake are those the last connect() was
\* given, unless one was refused since.
THEOREM TrustInvariant == Spec => []TrustInv
BY TrustInit, TrustStep, ClientInvariant, PTL DEF Spec

\* No channel is under TLS with a peer that nobody vouched for.
THEOREM PeersAlwaysVouched == Spec => []PeersVouched
<1>1. TrustInv => PeersVouched
  BY DEF TrustInv
<1> QED BY <1>1, TrustInvariant, PTL

-----------------------------------------------------------------------------
(***************************************************************************)
(* RepliesPairedUnlessMissed: as long as no wait on a live connection has  *)
(* been given up with a reply still to come, every reply taken for an      *)
(* answer is the answer to the command before it.  The invariant says what *)
(* is in flight: the final reply of a transfer between its 150 and that    *)
(* reply, and nothing at any other moment.                                 *)
(***************************************************************************)

\* The steps of a transfer that has been answered 150.
FinalSteps == {"dataTls", "data", "final"}

InFlight ==
    IF call.pc \in FinalSteps THEN FinalPending(wire) ELSE wire = <<>>

PairedInv == ~history.missed => history.own /\ InFlight

-----------------------------------------------------------------------------
(* How a step may leave the wire. *)

\* A call that returns is at none of those steps.
LEMMA IdleSteps == call' = Idle => call'.pc \notin FinalSteps
BY DEF Idle, FinalSteps

\* As it was.
LEMMA Untouched ==
    ASSUME PairedInv, wire' = wire, history'.missed = history.missed,
           history'.own = history.own,
           call'.pc \in FinalSteps <=> call.pc \in FinalSteps
    PROVE  PairedInv'
BY DEF PairedInv, InFlight

\* A reply heard while no transfer waits for its final one.
LEMMA Answered ==
    ASSUME ClientInv, PairedInv, call.pc \notin FinalSteps,
           NEW cmd \in PlainCommands \cup TransferCommands, NEW arg,
           NEW e \in Exchanges(wire, cmd, arg), Heard(e)
    PROVE  /\ history'.missed = history.missed
           /\ ~history.missed =>
                /\ history'.own
                /\ e.code \notin {150, Silence} => e.rest = <<>>
                /\ cmd \in PlainCommands => e.code # 150
                /\ e.code = 150 => FinalPending(e.rest)
<1>1. wire \in Seq(Reply) /\ history \in History
  BY Before DEF Typed
<1>2. e.own \in BOOLEAN
  BY <1>1, ExchangesTyped
<1>3. history'.missed = history.missed /\ history'.own = (history.own /\ e.own)
  BY <1>1, <1>2, HeardTyped
<1>4. ASSUME ~history.missed
      PROVE  /\ history'.own
             /\ e.code \notin {150, Silence} => e.rest = <<>>
             /\ cmd \in PlainCommands => e.code # 150
             /\ e.code = 150 => FinalPending(e.rest)
  <2>1. history.own /\ wire = <<>>
    BY <1>4 DEF PairedInv, InFlight
  <2>2. e \in Exchanges(<<>>, cmd, arg)
    BY <2>1
  <2>3. /\ e.own = TRUE
        /\ e.code \notin {150, Silence} => e.rest = <<>>
        /\ cmd \in PlainCommands => e.code # 150
        /\ e.code = 150 => FinalPending(e.rest)
    BY <2>2, ExchangesPaired, ZenonT(30)
  <2> QED BY <1>3, <2>1, <2>3
<1> QED BY <1>3, <1>4

\* A plain command is never answered 150, on a connection in step.
LEMMA PlainDone ==
    ASSUME ClientInv, PairedInv, call.pc \notin FinalSteps,
           NEW cmd \in PlainCommands, NEW arg,
           NEW e \in Exchanges(wire, cmd, arg), Heard(e),
           call'.pc \notin FinalSteps,
           wire' = <<>> \/ (wire' = e.rest /\ e.code # Silence)
    PROVE  PairedInv'
<1>1. /\ history'.missed = history.missed
      /\ ~history.missed =>
           /\ history'.own /\ e.code # 150
           /\ e.code \notin {150, Silence} => e.rest = <<>>
  BY Answered
<1> QED BY <1>1 DEF PairedInv, InFlight

-----------------------------------------------------------------------------
(* The actions. *)

\* Those that hear nothing: they change no history of replies, and leave the
\* wire as it is or empty it.
LEMMA SilentPaired ==
    ASSUME PairedInv, wire' = wire \/ wire' = <<>>,
           call.pc \notin FinalSteps, call'.pc \notin FinalSteps,
           history'.missed = history.missed, history'.own = history.own
    PROVE  PairedInv'
BY DEF PairedInv, InFlight

LEMMA IdlePaired ==
    ASSUME ClientInv, PairedInv, call = Idle, call' = Idle,
           \/ UNCHANGED history
           \/ \E b \in BOOLEAN : history' = SetRefused(history, b)
           \/ \E trust \in TrustModes, pin \in PinValues :
                 history' = Noted(trust, pin),
           wire' = wire \/ wire' = <<>>
    PROVE  PairedInv'
<1>1. history \in History
  BY Before DEF Typed
<1>2. history'.missed = history.missed /\ history'.own = history.own
  <2>1. CASE UNCHANGED history
    BY <2>1
  <2>2. CASE \E b \in BOOLEAN : history' = SetRefused(history, b)
    BY <1>1, <2>2, SetRefusedFields
  <2>3. CASE \E trust \in TrustModes, pin \in PinValues :
                history' = Noted(trust, pin)
    <3>1. PICK trust \in TrustModes, pin \in PinValues :
             history' = Noted(trust, pin)
      BY <2>3
    <3> QED BY <1>1, <3>1, NotedFields
  <2> QED BY <2>1, <2>2, <2>3
<1>3. call.pc \notin FinalSteps /\ call'.pc \notin FinalSteps
  BY DEF Idle, FinalSteps
<1> QED BY <1>2, <1>3, SilentPaired

LEMMA QuietPaired ==
    ASSUME ClientInv, PairedInv,
           \/ Begin \/ BeginWithoutNetwork \/ BeginWithoutMemory
           \/ Quit \/ SetReconnectBetweenStores
           \/ NotConnected \/ MissingArgument
           \/ ConnectBeforeBegin \/ ConnectRefusesArguments
           \/ ConnectRefusesFingerprint \/ ConnectRefusesCertificate
           \/ ReconnectBeforeBegin \/ DiscoverRefused
    PROVE  PairedInv'
<1>1. CASE Begin
  BY <1>1, IdlePaired DEF Begin, Finish, SetRefused
<1>2. CASE Quit
  BY <1>2, IdlePaired DEF Quit, Finish
<1>3. CASE \/ BeginWithoutNetwork \/ BeginWithoutMemory \/ NotConnected
           \/ MissingArgument \/ ConnectBeforeBegin \/ ReconnectBeforeBegin
           \/ DiscoverRefused
  BY <1>3, IdlePaired
     DEF BeginWithoutNetwork, BeginWithoutMemory, NotConnected,
         MissingArgument, ConnectBeforeBegin, ReconnectBeforeBegin,
         DiscoverRefused, Finish
<1>4. CASE SetReconnectBetweenStores
  BY <1>4, IdlePaired DEF SetReconnectBetweenStores
<1>5. CASE \/ ConnectRefusesArguments \/ ConnectRefusesFingerprint
           \/ ConnectRefusesCertificate
  BY <1>5, IdlePaired
     DEF ConnectRefusesArguments, ConnectRefusesFingerprint,
         ConnectRefusesCertificate, Refuse, Finish, SetRefused
<1> QED BY <1>1, <1>2, <1>3, <1>4, <1>5

LEMMA LengthPaired ==
    ASSUME ClientInv, PairedInv, ConnectRefusesLength PROVE PairedInv'
<1>1. call = Idle /\ wire' = <<>>
  BY DEF ConnectRefusesLength
<1>2. PICK trust \in TrustModes :
         \E pin \in (IF trust = "Fingerprint" THEN Certs ELSE {NoPin}) :
            call' = Idle /\ history' = Noted(trust, pin)
  BY DEF ConnectRefusesLength, Noted, Finish
<1>3. \E pin \in PinValues : call' = Idle /\ history' = Noted(trust, pin)
  BY <1>2 DEF PinValues
<1> QED BY <1>1, <1>3, IdlePaired

LEMMA CommandPaired ==
    ASSUME ClientInv, PairedInv, NEW op, NEW cmd \in PlainCommands, NEW good,
           NEW args, SendCommand(op, cmd, good, args), Silence \notin good
    PROVE  PairedInv'
<1>1. call.pc \notin FinalSteps
  BY DEF SendCommand, Idle, FinalSteps
<1>2. PICK arg, e :
         /\ e \in Exchanges(wire, cmd, arg) /\ Heard(e)
         /\ \/ FailAndDisconnect(op, "ConnectionFailed")
            \/ /\ e.code # Silence /\ wire' = e.rest
               /\ \/ Finish(op, TRUE, "None", session)
                  \/ Finish(op, FALSE, FailError[op], session)
  BY DEF SendCommand
<1>3. /\ call'.pc \notin FinalSteps
      /\ wire' = <<>> \/ (wire' = e.rest /\ e.code # Silence)
  BY <1>2, IdleSteps DEF FailAndDisconnect, Finish
<1> QED BY <1>1, <1>2, <1>3, PlainDone

LEMMA CommandsPaired ==
    ASSUME ClientInv, PairedInv, Mkd \/ Dele \/ Rmd \/ IsControlAlive \/ Size
    PROVE  PairedInv'
<1>1. {"MKD", "DELE", "RMD", "NOOP", "SIZE"} \subseteq PlainCommands
  BY DEF PlainCommands
<1>2. /\ Silence \notin {257, 250, 521} /\ Silence \notin {250}
      /\ Silence \notin {200} /\ Silence \notin {213}
  BY DEF Silence
<1> QED BY <1>1, <1>2, CommandPaired DEF Mkd, Dele, Rmd, IsControlAlive, Size

LEMMA SizeAndRenamePaired ==
    ASSUME ClientInv, PairedInv, SizeMalformed \/ RenameFrom \/ RenameTo
    PROVE  PairedInv'
<1>1. {"SIZE", "RNFR", "RNTO"} \subseteq PlainCommands
  BY DEF PlainCommands
<1>2. CASE SizeMalformed
  <2>1. PICK e \in Exchanges(wire, "SIZE", "ok") :
           e.code = 213 /\ Heard(e) /\ wire' = e.rest
    BY <1>2 DEF SizeMalformed
  <2>2. call.pc \notin FinalSteps /\ call' = Idle
    BY <1>2 DEF SizeMalformed, Finish, Idle, FinalSteps
  <2> QED BY <1>1, <2>1, <2>2, IdleSteps, PlainDone DEF Silence
<1>3. CASE RenameFrom
  <2>1. PICK arg, e :
           /\ e \in Exchanges(wire, "RNFR", arg) /\ Heard(e)
           /\ \/ e.code = Silence /\ FailAndDisconnect("rename", "ConnectionFailed")
              \/ /\ e.code = 350
                 /\ wire' = e.rest
                 /\ StartCall("rename", "rnto", "ok")
                 /\ UNCHANGED <<transport, session>>
              \/ /\ e.code \notin {350, Silence}
                 /\ wire' = e.rest
                 /\ Finish("rename", FALSE, "RenameFailed", session)
                 /\ UNCHANGED transport
    BY <1>3 DEF RenameFrom
  <2>2. call.pc \notin FinalSteps
    BY <1>3 DEF RenameFrom, Idle, FinalSteps
  <2>3. CASE /\ e.code = 350 /\ wire' = e.rest
             /\ StartCall("rename", "rnto", "ok")
    <3>1. call'.pc \notin FinalSteps
      BY <2>3 DEF StartCall, FinalSteps
    <3> QED BY <1>1, <2>1, <2>2, <2>3, <3>1, PlainDone DEF Silence
  <2>4. CASE \/ FailAndDisconnect("rename", "ConnectionFailed")
             \/ /\ e.code # Silence /\ wire' = e.rest
                /\ Finish("rename", FALSE, "RenameFailed", session)
    <3>1. /\ call'.pc \notin FinalSteps
          /\ wire' = <<>> \/ (wire' = e.rest /\ e.code # Silence)
      BY <2>4, IdleSteps DEF FailAndDisconnect, Finish
    <3> QED BY <1>1, <2>1, <2>2, <3>1, PlainDone
  <2> QED BY <2>1, <2>3, <2>4
<1>4. CASE RenameTo
  <2>1. PICK arg, e :
           /\ e \in Exchanges(wire, "RNTO", arg) /\ Heard(e)
           /\ \/ FailAndDisconnect("rename", "ConnectionFailed")
              \/ /\ e.code # Silence /\ wire' = e.rest
                 /\ Finish("rename", e.code = 250,
                           IF e.code = 250 THEN "None" ELSE "RenameFailed",
                           session)
    BY <1>4 DEF RenameTo
  <2>2. call.pc \notin FinalSteps
    BY <1>4 DEF RenameTo, FinalSteps
  <2>3. /\ call'.pc \notin FinalSteps
        /\ wire' = <<>> \/ (wire' = e.rest /\ e.code # Silence)
    BY <2>1, IdleSteps DEF FailAndDisconnect, Finish
  <2> QED BY <1>1, <2>1, <2>2, <2>3, PlainDone
<1> QED BY <1>2, <1>3, <1>4

LEMMA SinglePaired == ASSUME ClientInv, PairedInv, Single PROVE PairedInv'
BY QuietPaired, LengthPaired, CommandsPaired, SizeAndRenamePaired DEF Single

\* A longer call begins: everything is closed, or nothing has been sent.
LEMMA BeginsPaired ==
    ASSUME ClientInv, PairedInv, call = Idle,
           NEW op, NEW pc \in {"tcp", "pasv"}, NEW arg, StartCall(op, pc, arg),
           \/ UNCHANGED history
           \/ \E trust \in TrustModes, pin \in PinValues :
                 history' = Noted(trust, pin),
           wire' = wire \/ wire' = <<>>
    PROVE  PairedInv'
<1>1. history \in History
  BY Before DEF Typed
<1>2. history'.missed = history.missed /\ history'.own = history.own
  <2>1. ASSUME NEW trust \in TrustModes, NEW pin \in PinValues,
               history' = Noted(trust, pin)
        PROVE  history'.missed = history.missed /\ history'.own = history.own
    BY <1>1, <2>1, NotedFields
  <2> QED BY <2>1
<1>3. call.pc \notin FinalSteps /\ call'.pc \notin FinalSteps
  BY DEF Idle, StartCall, FinalSteps
<1> QED BY <1>2, <1>3, SilentPaired

LEMMA StartPaired == ASSUME ClientInv, PairedInv, Start PROVE PairedInv'
<1>1. ASSUME NEW op, call = Idle, ReconnectRefused(op)
      PROVE  PairedInv'
  BY <1>1, IdlePaired DEF ReconnectRefused, Finish
<1>2. ASSUME NEW op, NEW arg, call = Idle, Reconnecting(op, arg)
      PROVE  PairedInv'
  <2>1. UNCHANGED history /\ wire' = <<>>
    BY <1>2 DEF Reconnecting
  <2>2. call' = Idle \/ StartCall(op, "tcp", arg)
    BY <1>2 DEF Reconnecting, Finish
  <2> QED BY <1>2, <2>1, <2>2, IdlePaired, BeginsPaired
<1>3. CASE ConnectStart
  <2>1. PICK trust \in TrustModes :
           \E pin \in (IF trust = "Fingerprint" THEN Certs ELSE {NoPin}) :
              history' = Noted(trust, pin)
    BY <1>3 DEF ConnectStart, Noted
  <2>2. \E pin \in PinValues : history' = Noted(trust, pin)
    BY <2>1 DEF PinValues
  <2> QED BY <1>3, <2>2, BeginsPaired DEF ConnectStart
<1>4. CASE DiscoverStart
  BY <1>4, BeginsPaired DEF DiscoverStart
<1>5. CASE Reconnect
  BY <1>1, <1>2, <1>5 DEF Reconnect
<1>6. CASE StoreStart
  BY <1>1, <1>2, <1>6, BeginsPaired DEF StoreStart
<1>7. CASE RetrieveStart \/ ListStart
  BY <1>7, BeginsPaired DEF RetrieveStart, ListStart, TransferStart
<1> QED BY <1>3, <1>4, <1>5, <1>6, <1>7 DEF Start

-----------------------------------------------------------------------------
(* The login. *)

\* A login step's continuation is at no step of a transfer.
LEMMA LoginGoesTo ==
    ASSUME ClientInv, call.pc \in ConnectSteps, NEW next \in ConnectSteps,
           GoTo(next)
    PROVE  call.pc \notin FinalSteps /\ call'.pc \notin FinalSteps
<1>1. call'.pc = next
  BY Before, NextLoginStep DEF Typed, GoTo
<1> QED BY <1>1 DEF FinalSteps, ConnectSteps

LEMMA LoginStepPaired ==
    ASSUME ClientInv, PairedInv, NEW pc, NEW cmd \in PlainCommands, NEW good,
           Silence \notin good, NEW next, NEW err, SameStage(pc, next),
           LoginStep(pc, cmd, good, next, err)
    PROVE  PairedInv'
<1>1. call.pc = pc /\ call.pc \in ConnectSteps /\ next \in ConnectSteps
  BY DEF LoginStep, SameStage, ConnectSteps
<1>2. PICK e \in Exchanges(wire, cmd, "ok") :
         /\ Heard(e)
         /\ \/ e.code # Silence /\ wire' = e.rest /\ GoTo(next)
            \/ LoginFails(transport, err)
  BY DEF LoginStep
<1>3. call.pc \notin FinalSteps
  BY <1>1 DEF ConnectSteps, FinalSteps
<1>4. /\ call'.pc \notin FinalSteps
      /\ wire' = <<>> \/ (wire' = e.rest /\ e.code # Silence)
  BY <1>1, <1>2, LoginGoesTo, IdleSteps DEF LoginFails, Finish
<1> QED BY <1>2, <1>3, <1>4, PlainDone

LEMMA LoginCommandsPaired ==
    ASSUME ClientInv, PairedInv, Banner \/ AuthSsl \/ Pbsz \/ ProtP \/ Pass
    PROVE  PairedInv'
<1>1. {"banner", "AUTH", "PBSZ", "PROT", "PASS"} \subseteq PlainCommands
  BY DEF PlainCommands
<1>2. /\ SameStage("banner", "authTls") /\ SameStage("authSsl", "controlTls")
      /\ SameStage("pbsz", "protP") /\ SameStage("protP", "user")
      /\ SameStage("pass", "typeI")
  BY DEF SameStage
<1>3. /\ Silence \notin {220} /\ Silence \notin {234} /\ Silence \notin {200}
      /\ Silence \notin {230}
  BY DEF Silence
<1> QED BY <1>1, <1>2, <1>3, LoginStepPaired DEF Banner, AuthSsl, Pbsz, ProtP, Pass

LEMMA TcpPaired == ASSUME ClientInv, Tcp PROVE PairedInv'
<1>1. call.pc = "tcp" /\ history' = Fresh /\ wire' = <<>>
  BY DEF Tcp, Fresh
<1>2. call.pc \in ConnectSteps /\ "banner" \in ConnectSteps
  BY <1>1 DEF ConnectSteps
<1>3. GoTo("banner") \/ call' = Idle
  BY DEF Tcp, Finish
<1>4. call'.pc \notin FinalSteps
  BY <1>2, <1>3, LoginGoesTo, IdleSteps
<1>5. history'.own = TRUE
  BY <1>1, FreshFields, Before DEF Typed
<1> QED BY <1>1, <1>4, <1>5 DEF PairedInv, InFlight

\* A reply to AUTH TLS that is not waited for counts as missed.
LEMMA AuthTlsPaired == ASSUME ClientInv, PairedInv, AuthTls PROVE PairedInv'
<1>1. call.pc = "authTls"
  BY DEF AuthTls
<1>2. /\ call.pc \in ConnectSteps /\ call.pc \notin FinalSteps
      /\ {"controlTls", "authSsl"} \subseteq ConnectSteps
  BY <1>1 DEF ConnectSteps, FinalSteps
<1>3. Typed /\ history \in History /\ wire \in Seq(Reply)
  BY Before DEF Typed
<1>4. PICK e \in Exchanges(wire, "AUTH", "ok"), next \in {"controlTls", "authSsl"} :
         /\ wire' = e.rest /\ GoTo(next)
         /\ history' = [history EXCEPT !.own = @ /\ e.own,
                                       !.missed = @ \/ e.rest # <<>>]
  BY DEF AuthTls
<1> DEFINE h == SetOwn(history, history.own /\ e.own)
<1>5. history' = SetMissed(h, history.missed \/ e.rest # <<>>)
  BY <1>4 DEF SetMissed, SetOwn
<1>6. e.own \in BOOLEAN
  BY <1>3, <1>4, ExchangesTyped DEF PlainCommands
<1>7. h \in History /\ h.own = (history.own /\ e.own)
  BY <1>3, <1>6, SetOwnFields, HistoryFields
<1> HIDE DEF h
<1>8. /\ history'.own = (history.own /\ e.own)
      /\ history'.missed = (history.missed \/ e.rest # <<>>)
  BY <1>3, <1>5, <1>7, SetMissedFields, HistoryFields
<1>9. ~history.missed => history.own /\ wire = <<>>
  BY <1>2 DEF PairedInv, InFlight
<1>10. ~history.missed => e.own = TRUE
  BY <1>4, <1>9, ExchangesPaired DEF PlainCommands
<1>11. call'.pc \notin FinalSteps
  BY <1>2, <1>4, LoginGoesTo
<1> QED BY <1>4, <1>8, <1>9, <1>10, <1>11 DEF PairedInv, InFlight

LEMMA UserPaired == ASSUME ClientInv, PairedInv, User PROVE PairedInv'
<1>1. call.pc = "user"
  BY DEF User
<1>2. /\ call.pc \in ConnectSteps /\ call.pc \notin FinalSteps
      /\ {"pass", "typeI"} \subseteq ConnectSteps
  BY <1>1 DEF ConnectSteps, FinalSteps
<1>3. PICK e \in Exchanges(wire, "USER", "ok"), next \in {"pass", "typeI"} :
         /\ Heard(e)
         /\ \/ e.code # Silence /\ wire' = e.rest /\ GoTo(next)
            \/ LoginFails(transport, "LoginRejected")
  BY DEF User, Silence
<1>4. /\ call'.pc \notin FinalSteps
      /\ wire' = <<>> \/ (wire' = e.rest /\ e.code # Silence)
  BY <1>2, <1>3, LoginGoesTo, IdleSteps DEF LoginFails, Finish
<1> QED BY <1>2, <1>3, <1>4, PlainDone DEF PlainCommands

LEMMA ControlTlsPaired ==
    ASSUME ClientInv, PairedInv, ControlTls \/ DiscoverTls PROVE PairedInv'
<1>1. call.pc = "controlTls" /\ UNCHANGED history
  BY DEF ControlTls, DiscoverTls
<1>2. /\ call.pc \in ConnectSteps /\ call.pc \notin FinalSteps
      /\ "pbsz" \in ConnectSteps
  BY <1>1 DEF ConnectSteps, FinalSteps
<1>3. \/ GoTo("pbsz") /\ wire' = wire
      \/ call' = Idle /\ wire' = <<>>
  BY DEF ControlTls, DiscoverTls, LoginFails, Finish
<1>4. call'.pc \notin FinalSteps
  BY <1>2, <1>3, LoginGoesTo, IdleSteps
<1> QED BY <1>1, <1>2, <1>3, <1>4, SilentPaired

LEMMA TypeIPaired == ASSUME ClientInv, PairedInv, TypeI PROVE PairedInv'
<1>1. call.pc = "typeI"
  BY DEF TypeI
<1>2. call.pc \in ConnectSteps /\ call.pc \notin FinalSteps
  BY <1>1 DEF ConnectSteps, FinalSteps
<1>3. PICK e \in Exchanges(wire, "TYPE", "ok") :
         /\ Heard(e)
         /\ \/ /\ e.code # Silence /\ wire' = e.rest
               /\ \/ call.op = "store" /\ GoTo("pasv")
                  \/ call' = Idle
            \/ LoginFails(transport, "TypeRejected")
  BY DEF TypeI, Finish, Silence
<1>4. GoTo("pasv") /\ call.op = "store" => call'.pc \notin FinalSteps
  <2>1. ASSUME GoTo("pasv"), call.op = "store"
        PROVE  call'.pc \notin FinalSteps
    <3>1. "pasv" \in TransferSteps /\ call.op \in TransferOps
      BY <2>1 DEF TransferSteps, TransferOps
    <3>2. call'.pc = "pasv"
      BY <1>2, <2>1, <3>1, Before, NextTransferStep DEF Typed, GoTo
    <3> QED BY <3>2 DEF FinalSteps
  <2> QED BY <2>1
<1>5. /\ call'.pc \notin FinalSteps
      /\ wire' = <<>> \/ (wire' = e.rest /\ e.code # Silence)
  BY <1>3, <1>4, IdleSteps DEF LoginFails, Finish
<1> QED BY <1>2, <1>3, <1>5, PlainDone DEF PlainCommands

LEMMA LoginPaired == ASSUME ClientInv, PairedInv, Login PROVE PairedInv'
BY LoginCommandsPaired, TcpPaired, AuthTlsPaired, UserPaired, ControlTlsPaired,
   TypeIPaired
   DEF Login

-----------------------------------------------------------------------------
(* A transfer. *)

LEMMA PasvPaired == ASSUME ClientInv, PairedInv, Pasv PROVE PairedInv'
<1>1. call.pc = "pasv"
  BY DEF Pasv
<1>2. /\ call.pc \in TransferSteps /\ call.pc \notin FinalSteps
      /\ "open" \in TransferSteps /\ "open" \notin FinalSteps
  BY <1>1 DEF TransferSteps, FinalSteps
<1>3. CASE call.arg = "empty"
  <2>1. call' = Idle /\ wire' = wire /\ UNCHANGED history
    BY <1>3 DEF Pasv, TransferFails, Finish
  <2> QED BY <1>2, <2>1, IdleSteps, SilentPaired
<1>4. CASE call.arg # "empty"
  <2>1. PICK e \in Exchanges(wire, "PASV", "ok") :
           /\ Heard(e)
           /\ \/ FailAndDisconnect(call.op, "ConnectionFailed")
              \/ e.code # Silence /\ wire' = e.rest /\ GoTo("open")
              \/ e.code # Silence /\ wire' = e.rest /\ call' = Idle
    BY <1>4 DEF Pasv, TransferFails, Finish, Silence
  <2>2. /\ call'.pc \notin FinalSteps
        /\ wire' = <<>> \/ (wire' = e.rest /\ e.code # Silence)
    BY <1>2, <2>1, Arrives, IdleSteps DEF FailAndDisconnect, Finish
  <2> QED BY <1>2, <2>1, <2>2, PlainDone DEF PlainCommands
<1> QED BY <1>3, <1>4

LEMMA OpenDataPaired == ASSUME ClientInv, PairedInv, OpenData PROVE PairedInv'
<1>1. call.pc = "open" /\ UNCHANGED history
  BY DEF OpenData
<1>2. /\ call.pc \in TransferSteps /\ call.pc \notin FinalSteps
      /\ "command" \in TransferSteps /\ "command" \notin FinalSteps
  BY <1>1 DEF TransferSteps, FinalSteps
<1>3. wire' = wire /\ (GoTo("command") \/ call' = Idle)
  BY DEF OpenData, TransferFails, Finish
<1>4. call'.pc \notin FinalSteps
  BY <1>2, <1>3, Arrives, IdleSteps
<1> QED BY <1>1, <1>2, <1>3, <1>4, SilentPaired

\* After 150 the final reply is in flight; after any other answer nothing is.
LEMMA TransferCommandPaired ==
    ASSUME ClientInv, PairedInv, NEW pc \in {"command", "list"}, NEW op,
           NEW cmd \in TransferCommands, SendTransferCommand(pc, op, cmd)
    PROVE  PairedInv'
<1>1. call.pc = pc
  BY DEF SendTransferCommand
<1>2. /\ call.pc \in TransferSteps /\ call.pc \notin FinalSteps
      /\ "dataTls" \in TransferSteps /\ "dataTls" \in FinalSteps
      /\ "list" \in TransferSteps /\ "list" \notin FinalSteps
  BY <1>1 DEF TransferSteps, FinalSteps
<1>3. PICK e \in Exchanges(wire, cmd, call.arg) :
         /\ Heard(e)
         /\ \/ FailAndDisconnect(call.op, "ConnectionFailed")
            \/ e.code = 150 /\ wire' = e.rest /\ GoTo("dataTls")
            \/ /\ e.code \notin {150, Silence} /\ wire' = e.rest
               /\ GoTo("list") \/ call' = Idle
  BY DEF SendTransferCommand, TryList, CommandRefused, TransferFails, Finish
<1>4. /\ history'.missed = history.missed
      /\ ~history.missed =>
           /\ history'.own
           /\ e.code \notin {150, Silence} => e.rest = <<>>
           /\ e.code = 150 => FinalPending(e.rest)
  BY <1>2, <1>3, Answered
<1>5. CASE FailAndDisconnect(call.op, "ConnectionFailed")
  <2>1. wire' = <<>> /\ call'.pc \notin FinalSteps
    BY <1>5, IdleSteps DEF FailAndDisconnect, Finish
  <2> QED BY <1>4, <2>1 DEF PairedInv, InFlight
<1>6. CASE e.code = 150 /\ wire' = e.rest /\ GoTo("dataTls")
  <2>1. call'.pc \in FinalSteps
    BY <1>2, <1>6, Arrives
  <2>2. ~history.missed => FinalPending(wire')
    BY <1>4, <1>6
  <2>3. ~history'.missed => history'.own /\ InFlight'
    BY <1>4, <2>1, <2>2 DEF InFlight, FinalPending
  <2> QED BY <2>3 DEF PairedInv
<1>7. CASE /\ e.code \notin {150, Silence} /\ wire' = e.rest
           /\ GoTo("list") \/ call' = Idle
  <2>1. call'.pc \notin FinalSteps
    BY <1>2, <1>7, Arrives, IdleSteps
  <2> QED BY <1>4, <1>7, <2>1 DEF PairedInv, InFlight
<1> QED BY <1>3, <1>5, <1>6, <1>7

\* The drain hears the final reply, or counts it as missed.
LEMMA DrainPaired ==
    ASSUME ClientInv, PairedInv, call.pc \in FinalSteps, NEW err, NEW t,
           TransferFailsAndDrains(err, t)
    PROVE  PairedInv'
<1>1. history \in History /\ wire \in Seq(Reply)
  BY Before DEF Typed
<1>2. PICK e \in Reads(wire) :
         /\ wire' = e.rest /\ call' = Idle
         /\ history' = SetMissed(history, history.missed \/ e.rest # <<>>)
  BY DEF TransferFailsAndDrains, TransferFails, Finish, SetMissed
<1>3. /\ history'.own = history.own
      /\ history'.missed = (history.missed \/ e.rest # <<>>)
  BY <1>1, <1>2, SetMissedFields, HistoryFields
<1> QED BY <1>2, <1>3, IdleSteps DEF PairedInv, InFlight

LEMMA DataTlsPaired == ASSUME ClientInv, PairedInv, DataTls PROVE PairedInv'
<1>1. call.pc = "dataTls"
  BY DEF DataTls
<1>2. /\ call.pc \in TransferSteps /\ call.pc \in FinalSteps
      /\ "data" \in TransferSteps /\ "data" \in FinalSteps
  BY <1>1 DEF TransferSteps, FinalSteps
<1>3. \/ GoTo("data") /\ UNCHANGED <<wire, history>>
      \/ \E err, t : TransferFailsAndDrains(err, t)
  BY DEF DataTls
<1>4. CASE GoTo("data") /\ UNCHANGED <<wire, history>>
  BY <1>2, <1>4, Arrives, Untouched
<1> QED BY <1>2, <1>3, <1>4, DrainPaired

LEMMA DataPaired ==
    ASSUME ClientInv, PairedInv, NEW op, DataMoved(op) \/ DataFails(op)
    PROVE  PairedInv'
<1>1. call.pc = "data"
  BY DEF DataMoved, DataFails
<1>2. /\ call.pc \in TransferSteps /\ call.pc \in FinalSteps
      /\ "final" \in TransferSteps /\ "final" \in FinalSteps
  BY <1>1 DEF TransferSteps, FinalSteps
<1>3. CASE DataMoved(op)
  BY <1>2, <1>3, Arrives, Untouched DEF DataMoved
<1>4. CASE DataFails(op)
  BY <1>2, <1>4, DrainPaired DEF DataFails
<1> QED BY <1>3, <1>4

LEMMA FinalReplyPaired ==
    ASSUME ClientInv, PairedInv, NEW op, NEW counted, FinalReply(op, counted)
    PROVE  PairedInv'
<1>1. call.pc \in FinalSteps
  BY DEF FinalReply, FinalSteps
<1>2. history \in History /\ wire \in Seq(Reply)
  BY Before DEF Typed
<1>3. PICK e \in Reads(wire), n \in {1, history.uploads} :
         \/ FailAndDisconnect(op, "ConnectionFailed") /\ UNCHANGED history
         \/ /\ e.code \in {226, 250} /\ wire' = e.rest
            /\ Finish(op, TRUE, "None", counted)
            /\ history' = [history EXCEPT !.own = @ /\ e.own, !.uploads = n]
         \/ /\ e.code \notin {226, 250, Silence}
            /\ TransferFails("FinalReplyFailed", transport, e.rest)
            /\ Heard(e)
  BY DEF FinalReply
<1>4. \/ FailAndDisconnect(op, "ConnectionFailed") /\ UNCHANGED history
      \/ /\ e.code # Silence /\ wire' = e.rest /\ call' = Idle
         /\ \/ history' = [history EXCEPT !.own = @ /\ e.own, !.uploads = n]
            \/ Heard(e)
  BY <1>3 DEF TransferFails, Finish, Silence
<1>5. e.own \in BOOLEAN
  BY <1>2, <1>3, ReadsTyped
<1>6. CASE FailAndDisconnect(op, "ConnectionFailed") /\ UNCHANGED history
  <2>1. wire' = <<>> /\ call'.pc \notin FinalSteps
    BY <1>6, IdleSteps DEF FailAndDisconnect, Finish
  <2> QED BY <1>6, <2>1 DEF PairedInv, InFlight
<1>7. CASE /\ e.code # Silence /\ wire' = e.rest /\ call' = Idle
           /\ \/ history' = [history EXCEPT !.own = @ /\ e.own, !.uploads = n]
              \/ Heard(e)
  <2>1. history'.own = (history.own /\ e.own) /\ history'.missed = history.missed
    <3>1. CASE Heard(e)
      BY <1>2, <1>5, <3>1, HeardTyped
    <3>2. CASE history' = [history EXCEPT !.own = @ /\ e.own, !.uploads = n]
      <4> DEFINE h == SetOwn(history, history.own /\ e.own)
      <4>1. history' = SetUploads(h, n)
        BY <3>2 DEF SetUploads, SetOwn
      <4>2. n \in 0..1
        BY <1>2, <1>3, HistoryFields
      <4>3. /\ h \in History /\ h.own = (history.own /\ e.own)
            /\ h.missed = history.missed
        BY <1>2, <1>5, SetOwnFields, HistoryFields
      <4> HIDE DEF h
      <4> QED BY <4>1, <4>2, <4>3, SetUploadsFields
    <3> QED BY <1>7, <3>1, <3>2
  <2>2. ~history.missed => history.own /\ e.own = TRUE /\ e.rest = <<>>
    <3>1. ASSUME ~history.missed
          PROVE  history.own /\ e.own = TRUE /\ e.rest = <<>>
      <4>1. history.own /\ FinalPending(wire)
        BY <1>1, <3>1 DEF PairedInv, InFlight
      <4> QED BY <1>2, <1>3, <1>7, <4>1, FinalRead
    <3> QED BY <3>1
  <2> QED BY <1>7, <2>1, <2>2, IdleSteps DEF PairedInv, InFlight
<1> QED BY <1>6, <1>7, <1>4

LEMMA TransferPaired == ASSUME ClientInv, PairedInv, Transfer PROVE PairedInv'
<1>1. {"STOR", "RETR", "MLSD", "LIST"} \subseteq TransferCommands
  BY DEF TransferCommands
<1>2. CASE StoreCommand \/ RetrieveCommand \/ ListCommand \/ ListFallback
  BY <1>1, <1>2, TransferCommandPaired
     DEF StoreCommand, RetrieveCommand, ListCommand, ListFallback
<1>3. CASE \/ StoreWritten \/ RetrieveRead \/ ListRead
           \/ StoreDataFails \/ RetrieveDataFails \/ ListDataFails
  BY <1>3, DataPaired
     DEF StoreWritten, RetrieveRead, ListRead, StoreDataFails,
         RetrieveDataFails, ListDataFails
<1>4. CASE StoreFinal \/ RetrieveFinal \/ ListFinal
  BY <1>4, FinalReplyPaired DEF StoreFinal, RetrieveFinal, ListFinal
<1> QED
  BY <1>2, <1>3, <1>4, PasvPaired, OpenDataPaired, DataTlsPaired DEF Transfer

-----------------------------------------------------------------------------
(* The theorem. *)

LEMMA PairedInit == Init => PairedInv
BY DEF Init, PairedInv, InFlight, Idle, FinalSteps

LEMMA PairedStep == ClientInv /\ PairedInv /\ [Next]_vars => PairedInv'
<1> SUFFICES ASSUME ClientInv, PairedInv, [Next]_vars PROVE PairedInv'
  OBVIOUS
<1>1. CASE Next
  BY <1>1, SinglePaired, StartPaired, LoginPaired, TransferPaired DEF Next
<1>2. CASE UNCHANGED vars
  BY <1>2, Untouched DEF vars
<1> QED BY <1>1, <1>2

\* What is in flight at every moment, as long as no reply has been missed.
THEOREM PairedInvariant == Spec => []PairedInv
BY PairedInit, PairedStep, ClientInvariant, PTL DEF Spec

\* Every reply taken for an answer is one, as long as none has been missed.
THEOREM RepliesArePaired == Spec => []RepliesPairedUnlessMissed
<1>1. PairedInv => RepliesPairedUnlessMissed
  BY DEF PairedInv, RepliesPairedUnlessMissed
<1> QED BY <1>1, PairedInvariant, PTL

-----------------------------------------------------------------------------
(***************************************************************************)
(* OneUploadPerSession.  What carries it is that the counter of successful *)
(* store() calls and the control connection agree: a session whose         *)
(* connection has carried an upload has counted it, unless a refused       *)
(* connect() has zeroed the counter, and a login runs on a connection that *)
(* has carried none.                                                       *)
(***************************************************************************)

\* The steps of a login once there is a connection.
LoginSteps == ConnectSteps \ {"tcp"}

UploadInv ==
    /\ call.pc \in LoginSteps => history.uploads = 0
    /\ Usable /\ ~history.refused /\ history.uploads # 0 => session.stores > 0
    /\ OneUploadPerSession

-----------------------------------------------------------------------------
(* Steps that have nothing to do with it. *)

Still ==
    /\ history'.uploads = history.uploads
    /\ Usable' /\ ~history'.refused =>
         Usable /\ ~history.refused /\ session'.stores = session.stores
    /\ call'.pc \in LoginSteps => call.pc \in LoginSteps
    /\ ~(call'.op = "store" /\ call'.pc = "pasv")

LEMMA StillKeeps == ASSUME UploadInv, Still PROVE UploadInv'
BY DEF UploadInv, Still, OneUploadPerSession

\* A call that returns with the session as it was.
LEMMA Returns ==
    ASSUME call' = Idle, history'.uploads = history.uploads,
           history'.refused = history.refused, session' = session
    PROVE  Still
BY DEF Still, Idle, Usable, LoginSteps, ConnectSteps

\* A call that returns, or begins a login, without a session.
LEMMA ReturnsDown ==
    ASSUME call' = Idle \/ call'.pc = "tcp", ~Usable',
           history'.uploads = history.uploads
    PROVE  Still
BY DEF Still, Idle, LoginSteps, ConnectSteps

\* A refused connect() may zero the counter.
LEMMA ReturnsRefused ==
    ASSUME call' = Idle, history'.uploads = history.uploads, history'.refused
    PROVE  Still
BY DEF Still, Idle, LoginSteps, ConnectSteps

LEMMA HeardStill ==
    ASSUME ClientInv, NEW e, Heard(e)
    PROVE  /\ history'.uploads = history.uploads
           /\ history'.refused = history.refused
<1>1. history \in History
  BY Before DEF Typed
<1> QED BY <1>1 DEF Heard, History

\* failAndDisconnect() leaves no session.
LEMMA FailStill ==
    ASSUME ClientInv, NEW op, NEW err, FailAndDisconnect(op, err),
           history'.uploads = history.uploads
    PROVE  Still
<1>1. session \in Session
  BY Before DEF Typed
<1>2. session' = SetConnected(session, FALSE) /\ call' = Idle
  BY DEF FailAndDisconnect, Finish, Disconnected, SetConnected
<1>3. ~Usable'
  BY <1>1, <1>2, SetConnectedFields DEF Usable
<1> QED BY <1>2, <1>3, ReturnsDown

-----------------------------------------------------------------------------
(* The calls of one exchange. *)

LEMMA CommandStill ==
    ASSUME ClientInv, NEW op, NEW cmd, NEW good, NEW args,
           SendCommand(op, cmd, good, args)
    PROVE  Still
<1>1. PICK e : /\ Heard(e)
               /\ \/ FailAndDisconnect(op, "ConnectionFailed")
                  \/ call' = Idle /\ session' = session
  BY DEF SendCommand, Finish
<1>2. /\ history'.uploads = history.uploads
      /\ history'.refused = history.refused
  BY <1>1, HeardStill
<1> QED BY <1>1, <1>2, FailStill, Returns

LEMMA RenameStill ==
    ASSUME ClientInv, SizeMalformed \/ RenameFrom \/ RenameTo
    PROVE  Still
<1>1. PICK e : /\ Heard(e)
               /\ \/ FailAndDisconnect("rename", "ConnectionFailed")
                  \/ call' = Idle /\ session' = session
                  \/ call'.pc = "rnto" /\ call'.op = "rename" /\ session' = session
  <2>1. CASE SizeMalformed
    BY <2>1 DEF SizeMalformed, Finish
  <2>2. CASE RenameFrom
    BY <2>2 DEF RenameFrom, Finish, StartCall
  <2>3. CASE RenameTo
    BY <2>3 DEF RenameTo, Finish
  <2> QED BY <2>1, <2>2, <2>3
<1>2. /\ history'.uploads = history.uploads
      /\ history'.refused = history.refused
  BY <1>1, HeardStill
<1>3. CASE call'.pc = "rnto" /\ call'.op = "rename" /\ session' = session
  BY <1>2, <1>3 DEF Still, Usable, LoginSteps, ConnectSteps
<1> QED BY <1>1, <1>2, <1>3, FailStill, Returns

LEMMA RefusalsStill ==
    ASSUME ClientInv,
           \/ BeginWithoutNetwork \/ NotConnected \/ MissingArgument
           \/ ReconnectBeforeBegin \/ DiscoverRefused
    PROVE  Still
BY Returns
   DEF BeginWithoutNetwork, NotConnected, MissingArgument,
       ReconnectBeforeBegin, DiscoverRefused, Finish

LEMMA BeginStill ==
    ASSUME ClientInv, Begin \/ BeginWithoutMemory \/ Quit
    PROVE  Still
<1>1. session \in Session /\ history \in History
  BY Before DEF Typed
<1>2. call' = Idle /\ history'.uploads = history.uploads
  BY <1>1 DEF Begin, BeginWithoutMemory, Quit, Finish, History
<1>3. ~Usable'
  <2>1. CASE Begin
    BY <1>1, <2>1, Begun DEF Begin, Finish, Usable
  <2>2. CASE BeginWithoutMemory
    <3>1. session' = SetBegan(session, FALSE)
      BY <2>2 DEF BeginWithoutMemory, Finish, SetBegan
    <3> QED BY <1>1, <3>1, SetBeganFields DEF Usable
  <2>3. CASE Quit
    <3>1. \/ session' = SetConnected(session, FALSE)
          \/ session' = session /\ ~session.connected
      BY <2>3 DEF Quit, Finish, Disconnected, SetConnected
    <3> QED BY <1>1, <3>1, SetConnectedFields DEF Usable
  <2> QED BY <2>1, <2>2, <2>3
<1> QED BY <1>2, <1>3, ReturnsDown

LEMMA SetReconnectStill ==
    ASSUME ClientInv, SetReconnectBetweenStores PROVE Still
<1>1. session \in Session
  BY Before DEF Typed
<1>2. /\ session'.began = session.began /\ session'.stores = session.stores
      /\ session'.connected = session.connected
  BY <1>1 DEF SetReconnectBetweenStores, Session
<1> QED
  BY <1>2
     DEF SetReconnectBetweenStores, Still, Usable, Idle, LoginSteps, ConnectSteps

-----------------------------------------------------------------------------
(* connect(), reconnect() and discoverFingerprint(): up to the login. *)

LEMMA ConnectRefusalsStill ==
    ASSUME ClientInv,
           \/ ConnectBeforeBegin \/ ConnectRefusesArguments
           \/ ConnectRefusesFingerprint \/ ConnectRefusesCertificate
    PROVE  Still
<1>1. session \in Session /\ history \in History
  BY Before DEF Typed
<1>2. CASE ConnectBeforeBegin
  <2>1. session' = Uncounted /\ call' = Idle /\ ~session.began /\ UNCHANGED history
    BY <1>2 DEF ConnectBeforeBegin, Finish
  <2>2. ~Usable'
    BY <1>1, <2>1, UncountedFields DEF Usable
  <2> QED BY <2>1, <2>2, ReturnsDown
<1>3. CASE \/ ConnectRefusesArguments \/ ConnectRefusesFingerprint
           \/ ConnectRefusesCertificate
  <2>1. call' = Idle /\ history' = SetRefused(history, TRUE)
    BY <1>3 DEF ConnectRefusesArguments, ConnectRefusesFingerprint,
                ConnectRefusesCertificate, Refuse, Finish, SetRefused
  <2> QED BY <1>1, <2>1, SetRefusedFields, ReturnsRefused
<1> QED BY <1>2, <1>3

\* connect() with new settings closes the session.
LEMMA NotedStill ==
    ASSUME ClientInv, NEW trust \in TrustModes, NEW pin \in PinValues,
           history' = Noted(trust, pin), NEW config \in Config,
           session' = [Disconnected(Uncounted) EXCEPT !.config = config,
                                                      !.pin = pin],
           call' = Idle \/ call'.pc = "tcp"
    PROVE  Still
<1>1. session \in Session /\ history \in History
  BY Before DEF Typed
<1>2. history'.uploads = history.uploads
  BY <1>1, NotedFields
<1>3. ~Usable'
  BY <1>1, Reconfigured DEF Usable
<1> QED BY <1>2, <1>3, ReturnsDown

LEMMA LengthStill == ASSUME ClientInv, ConnectRefusesLength PROVE Still
<1>1. PICK trust \in TrustModes, cached \in {"none", "host", "all"} :
         LET config == CASE cached = "none" -> NoConfig
                         [] cached = "host" -> [NoConfig EXCEPT !.host = TRUE]
                         [] cached = "all" -> [host |-> TRUE, complete |-> TRUE,
                                               trust |-> trust]
         IN  \E pin \in (IF trust = "Fingerprint" THEN Certs ELSE {NoPin}) :
                /\ call' = Idle
                /\ session' = [Disconnected(Uncounted) EXCEPT !.config = config,
                                                              !.pin = pin]
                /\ history' = Noted(trust, pin)
  BY DEF ConnectRefusesLength, Noted, Finish
<1> DEFINE config == CASE cached = "none" -> NoConfig
                       [] cached = "host" -> [NoConfig EXCEPT !.host = TRUE]
                       [] cached = "all" -> [host |-> TRUE, complete |-> TRUE,
                                             trust |-> trust]
<1>2. config \in Config
  BY NewConfig
<1>3. \E pin \in PinValues :
         /\ call' = Idle
         /\ session' = [Disconnected(Uncounted) EXCEPT !.config = config,
                                                       !.pin = pin]
         /\ history' = Noted(trust, pin)
  BY <1>1 DEF PinValues
<1> HIDE DEF config
<1> QED BY <1>1, <1>2, <1>3, NotedStill

LEMMA ConnectStartStill == ASSUME ClientInv, ConnectStart PROVE Still
<1>1. PICK trust \in TrustModes :
         \E pin \in (IF trust = "Fingerprint" THEN Certs ELSE {NoPin}) :
            /\ session' = [Disconnected(Uncounted) EXCEPT
                              !.config = [host |-> TRUE, complete |-> TRUE,
                                          trust |-> trust],
                              !.pin = pin]
            /\ history' = Noted(trust, pin)
  BY DEF ConnectStart, Noted
<1>2. \E pin \in PinValues :
         /\ session' = [Disconnected(Uncounted) EXCEPT
                           !.config = [host |-> TRUE, complete |-> TRUE,
                                       trust |-> trust],
                           !.pin = pin]
         /\ history' = Noted(trust, pin)
  BY <1>1 DEF PinValues
<1>3. [host |-> TRUE, complete |-> TRUE, trust |-> trust] \in Config
  BY NewConfig
<1>4. call'.pc = "tcp"
  BY DEF ConnectStart, StartCall
<1> QED BY <1>1, <1>2, <1>3, <1>4, NotedStill

LEMMA ReconnectStill ==
    ASSUME ClientInv, NEW op, NEW arg,
           ReconnectRefused(op) \/ Reconnecting(op, arg)
    PROVE  Still
<1>1. session \in Session
  BY Before DEF Typed
<1>2. CASE ReconnectRefused(op)
  BY <1>2, Returns DEF ReconnectRefused, Finish
<1>3. CASE Reconnecting(op, arg)
  <2>1. /\ session' = Disconnected(Uncounted) /\ UNCHANGED history
        /\ call' = Idle \/ call'.pc = "tcp"
    BY <1>3 DEF Reconnecting, Finish, StartCall
  <2>2. ~Usable'
    BY <1>1, <2>1, ClosedUncounted DEF Usable
  <2> QED BY <2>1, <2>2, ReturnsDown
<1> QED BY <1>2, <1>3

LEMMA DiscoverStartStill == ASSUME ClientInv, DiscoverStart PROVE Still
<1>1. session \in Session
  BY Before DEF Typed
<1>2. /\ session' = SetConnected(session, FALSE) /\ UNCHANGED history
      /\ call'.pc = "tcp"
  BY DEF DiscoverStart, Disconnected, SetConnected, StartCall
<1>3. ~Usable'
  BY <1>1, <1>2, SetConnectedFields DEF Usable
<1> QED BY <1>2, <1>3, ReturnsDown

LEMMA SingleStill == ASSUME ClientInv, Single PROVE Still
BY BeginStill, SetReconnectStill, RefusalsStill, CommandStill, RenameStill,
   ConnectRefusalsStill, LengthStill
   DEF Single, Mkd, Dele, Rmd, IsControlAlive, Size

\* With the opt-in on, store() begins on the session it has only when none
\* is counted on it.
LEMMA StoreStartKeeps == ASSUME ClientInv, UploadInv, StoreStart PROVE UploadInv'
<1>1. call = Idle /\ Usable
  BY DEF StoreStart
<1>2. \/ \E arg : ReconnectRefused("store") \/ Reconnecting("store", arg)
      \/ /\ ~(session.reconnectBetween /\ session.stores > 0)
         /\ \E arg : StartCall("store", "pasv", arg)
         /\ UNCHANGED <<session, history>>
  BY DEF StoreStart
<1>3. CASE \E arg : ReconnectRefused("store") \/ Reconnecting("store", arg)
  BY <1>3, ReconnectStill, StillKeeps
<1>4. CASE /\ ~(session.reconnectBetween /\ session.stores > 0)
           /\ \E arg : StartCall("store", "pasv", arg)
           /\ UNCHANGED <<session, history>>
  <2>1. call'.pc = "pasv"
    BY <1>4 DEF StartCall
  <2>2. call'.pc \notin LoginSteps
    BY <2>1 DEF LoginSteps, ConnectSteps
  <2> QED BY <1>1, <1>4, <2>2 DEF UploadInv, OneUploadPerSession, Usable
<1> QED BY <1>2, <1>3, <1>4

LEMMA StartKeeps == ASSUME ClientInv, UploadInv, Start PROVE UploadInv'
<1>1. CASE RetrieveStart \/ ListStart
  <2>1. /\ UNCHANGED <<session, history>>
        /\ call'.pc = "pasv" /\ call'.op # "store"
    BY <1>1 DEF RetrieveStart, ListStart, TransferStart, StartCall
  <2> QED BY <2>1, StillKeeps DEF Still, Usable, LoginSteps, ConnectSteps
<1> QED
  BY <1>1, StoreStartKeeps, ConnectStartStill, ReconnectStill,
     DiscoverStartStill, StillKeeps
     DEF Start, Reconnect

-----------------------------------------------------------------------------
(* The login. *)

LEMMA LoginFailsStill ==
    ASSUME ClientInv, call.pc \in ConnectSteps, session' = session,
           call' = Idle, history'.uploads = history.uploads
    PROVE  Still
<1>1. ~Usable'
  BY Before DEF Usable
<1> QED BY <1>1, ReturnsDown

LEMMA LoginGoesOnStill ==
    ASSUME ClientInv, call.pc \in LoginSteps, NEW next \in LoginSteps,
           GoTo(next), session' = session,
           history'.uploads = history.uploads,
           history'.refused = history.refused
    PROVE  Still
<1>1. /\ call \in Calls /\ ~Usable' /\ call.pc \in ConnectSteps
      /\ next \in ConnectSteps
  BY Before DEF Typed, LoginSteps, Usable
<1>2. call'.pc = next
  BY <1>1, NextLoginStep DEF GoTo
<1> QED BY <1>1, <1>2 DEF Still, LoginSteps, ConnectSteps

LEMMA LoginStepStill ==
    ASSUME ClientInv, NEW pc \in LoginSteps, NEW cmd, NEW good,
           NEW next \in LoginSteps, NEW err, LoginStep(pc, cmd, good, next, err)
    PROVE  Still
<1>1. PICK e : /\ Heard(e) /\ session' = session
               /\ GoTo(next) \/ call' = Idle
  BY DEF LoginStep, LoginFails, Finish
<1>2. /\ history'.uploads = history.uploads
      /\ history'.refused = history.refused
  BY <1>1, HeardStill
<1>3. call.pc \in LoginSteps /\ call.pc \in ConnectSteps
  BY DEF LoginStep, LoginSteps
<1> QED BY <1>1, <1>2, <1>3, LoginGoesOnStill, LoginFailsStill

LEMMA LoginCommandsStill ==
    ASSUME ClientInv, Banner \/ AuthSsl \/ Pbsz \/ ProtP \/ Pass
    PROVE  Still
<1>1. {"banner", "authTls", "authSsl", "controlTls", "pbsz", "protP", "user",
       "pass", "typeI"} \subseteq LoginSteps
  BY DEF LoginSteps, ConnectSteps
<1> QED BY <1>1, LoginStepStill DEF Banner, AuthSsl, Pbsz, ProtP, Pass

\* A new connection has carried no upload.
LEMMA TcpKeeps == ASSUME ClientInv, Tcp PROVE UploadInv'
<1>1. call.pc = "tcp" /\ history' = Fresh
  BY DEF Tcp, Fresh
<1>2. call.pc \in ConnectSteps /\ "banner" \in ConnectSteps
  BY <1>1 DEF ConnectSteps
<1>3. history \in History /\ call \in Calls
  BY Before DEF Typed
<1>4. history'.uploads = 0
  BY <1>1, <1>3, FreshFields
<1>5. call' = Idle \/ call'.pc = "banner"
  BY <1>2, <1>3, NextLoginStep DEF Tcp, GoTo, Finish
<1> QED BY <1>4, <1>5 DEF UploadInv, OneUploadPerSession

LEMMA AuthTlsStill == ASSUME ClientInv, AuthTls PROVE Still
<1>1. call.pc \in LoginSteps /\ session' = session
  BY DEF AuthTls, LoginSteps, ConnectSteps
<1>2. PICK next \in {"controlTls", "authSsl"} : GoTo(next)
  BY DEF AuthTls
<1>3. next \in LoginSteps
  BY DEF LoginSteps, ConnectSteps
<1>4. history \in History
  BY Before DEF Typed
<1>5. /\ history'.uploads = history.uploads
      /\ history'.refused = history.refused
  BY <1>4 DEF AuthTls, History
<1> QED BY <1>1, <1>2, <1>3, <1>5, LoginGoesOnStill

LEMMA UserStill == ASSUME ClientInv, User PROVE Still
<1>1. call.pc \in LoginSteps /\ call.pc \in ConnectSteps
  BY DEF User, LoginSteps, ConnectSteps
<1>2. PICK e : /\ Heard(e) /\ session' = session
               /\ \/ GoTo(IF e.code = 331 THEN "pass" ELSE "typeI")
                  \/ call' = Idle
  BY DEF User, LoginFails, Finish
<1> DEFINE next == IF e.code = 331 THEN "pass" ELSE "typeI"
<1>3. next \in LoginSteps
  BY DEF LoginSteps, ConnectSteps
<1>4. /\ history'.uploads = history.uploads
      /\ history'.refused = history.refused
  BY <1>2, HeardStill
<1> QED BY <1>1, <1>2, <1>3, <1>4, LoginGoesOnStill, LoginFailsStill

LEMMA ControlTlsStill ==
    ASSUME ClientInv, ControlTls \/ DiscoverTls PROVE Still
<1>1. call.pc \in LoginSteps /\ call.pc \in ConnectSteps /\ UNCHANGED history
  BY DEF ControlTls, DiscoverTls, LoginSteps, ConnectSteps
<1>2. "pbsz" \in LoginSteps
  BY DEF LoginSteps, ConnectSteps
<1>3. session' = session /\ (GoTo("pbsz") \/ call' = Idle)
  BY DEF ControlTls, DiscoverTls, LoginFails, Finish
<1> QED BY <1>1, <1>2, <1>3, LoginGoesOnStill, LoginFailsStill

\* The login's connection is the one store() goes on with.
LEMMA TypeIKeeps == ASSUME ClientInv, UploadInv, TypeI PROVE UploadInv'
<1>1. call.pc \in LoginSteps /\ call.pc \in ConnectSteps
  BY DEF TypeI, LoginSteps, ConnectSteps
<1>2. PICK e : /\ Heard(e)
               /\ \/ call.op = "store" /\ GoTo("pasv")
                  \/ call' = Idle
  BY DEF TypeI, LoginFails, Finish
<1>3. history'.uploads = 0
  BY <1>1, <1>2, HeardStill DEF UploadInv
<1>4. call'.pc \notin LoginSteps
  <2>1. CASE call' = Idle
    BY <2>1 DEF Idle, LoginSteps, ConnectSteps
  <2>2. CASE call.op = "store" /\ GoTo("pasv")
    <3>1. call \in Calls /\ call.op \in TransferOps /\ "pasv" \in TransferSteps
      BY <2>2, Before DEF Typed, TransferOps, TransferSteps
    <3>2. call'.pc = "pasv"
      BY <1>1, <2>2, <3>1, NextTransferStep DEF GoTo
    <3> QED BY <3>2 DEF LoginSteps, ConnectSteps
  <2> QED BY <1>2, <2>1, <2>2
<1> QED BY <1>3, <1>4 DEF UploadInv, OneUploadPerSession

LEMMA LoginKeeps == ASSUME ClientInv, UploadInv, Login PROVE UploadInv'
BY LoginCommandsStill, TcpKeeps, AuthTlsStill, UserStill, ControlTlsStill,
   TypeIKeeps, StillKeeps
   DEF Login

-----------------------------------------------------------------------------
(* The transfers. *)

\* A step that goes on, fails, or loses the session.
LEMMA TransferStepStill ==
    ASSUME ClientInv, call.pc \in TransferSteps,
           NEW next \in TransferSteps \ {"pasv"},
           \/ GoTo(next) /\ session' = session
           \/ call' = Idle /\ session' = session
           \/ \E op, err : FailAndDisconnect(op, err),
           history'.uploads = history.uploads,
           history'.refused = history.refused
    PROVE  Still
<1>1. CASE GoTo(next) /\ session' = session
  <2>1. call \in Calls /\ call.op \in TransferOps
    BY Before, CallFields DEF Typed
  <2>2. call'.pc = next
    BY <1>1, <2>1, NextTransferStep DEF GoTo
  <2> QED BY <1>1, <2>2 DEF Still, Usable, TransferSteps, LoginSteps, ConnectSteps
<1>2. CASE call' = Idle /\ session' = session
  BY <1>2, Returns
<1>3. CASE \E op, err : FailAndDisconnect(op, err)
  BY <1>3, FailStill
<1> QED BY <1>1, <1>2, <1>3

\* One that hears a reply.
LEMMA TransferHearsStill ==
    ASSUME ClientInv, call.pc \in TransferSteps,
           NEW next \in TransferSteps \ {"pasv"}, NEW e, Heard(e),
           \/ GoTo(next) /\ session' = session
           \/ call' = Idle /\ session' = session
           \/ \E op, err : FailAndDisconnect(op, err)
    PROVE  Still
BY HeardStill, TransferStepStill

LEMMA OtherSteps ==
    {"open", "command", "list", "dataTls", "data", "final"}
       \subseteq TransferSteps \ {"pasv"}
BY DEF TransferSteps

LEMMA PasvStill == ASSUME ClientInv, Pasv PROVE Still
<1>1. call.pc \in TransferSteps
  BY DEF Pasv, TransferSteps
<1>2. \/ UNCHANGED history /\ call' = Idle /\ session' = session
      \/ \E e : /\ Heard(e)
                /\ \/ GoTo("open") /\ session' = session
                   \/ call' = Idle /\ session' = session
                   \/ FailAndDisconnect(call.op, "ConnectionFailed")
  BY DEF Pasv, TransferFails, Finish
<1> QED BY <1>1, <1>2, OtherSteps, TransferHearsStill, TransferStepStill

LEMMA OpenDataStill == ASSUME ClientInv, OpenData PROVE Still
<1>1. call.pc \in TransferSteps /\ UNCHANGED history
  BY DEF OpenData, TransferSteps
<1>2. session' = session /\ (GoTo("command") \/ call' = Idle)
  BY DEF OpenData, TransferFails, Finish
<1> QED BY <1>1, <1>2, OtherSteps, TransferStepStill

LEMMA TransferCommandStill ==
    ASSUME ClientInv, NEW pc \in TransferSteps, NEW op, NEW cmd,
           SendTransferCommand(pc, op, cmd)
    PROVE  Still
<1>1. call.pc \in TransferSteps
  BY DEF SendTransferCommand
<1>2. PICK e : /\ Heard(e)
               /\ \/ \E next \in {"dataTls", "list"} :
                        GoTo(next) /\ session' = session
                  \/ call' = Idle /\ session' = session
                  \/ FailAndDisconnect(call.op, "ConnectionFailed")
  BY DEF SendTransferCommand, TryList, CommandRefused, TransferFails, Finish
<1> QED BY <1>1, <1>2, OtherSteps, TransferHearsStill

\* Waiting for a final reply that nobody needs any more.
LEMMA DrainStill ==
    ASSUME ClientInv, call.pc \in TransferSteps, NEW err, NEW t,
           TransferFailsAndDrains(err, t)
    PROVE  Still
<1>1. call' = Idle /\ session' = session
  BY DEF TransferFailsAndDrains, TransferFails, Finish
<1>2. history \in History
  BY Before DEF Typed
<1>3. /\ history'.uploads = history.uploads
      /\ history'.refused = history.refused
  BY <1>2 DEF TransferFailsAndDrains, History
<1> QED BY <1>1, <1>3, Returns

LEMMA DataStill ==
    ASSUME ClientInv,
           DataTls \/ (\E op : DataMoved(op) \/ DataFails(op))
    PROVE  Still
<1>1. call.pc \in TransferSteps
  BY DEF DataTls, DataMoved, DataFails, TransferSteps
<1>2. \/ \E err, t : TransferFailsAndDrains(err, t)
      \/ /\ UNCHANGED history /\ session' = session
         /\ GoTo("data") \/ GoTo("final")
  BY DEF DataTls, DataMoved, DataFails
<1> QED BY <1>1, <1>2, DrainStill, OtherSteps, TransferStepStill

\* A successful store() is counted with the upload.
LEMMA FinalReplyKeeps ==
    ASSUME ClientInv, UploadInv, NEW op, NEW counted,
           op = "store" => counted.stores > 0,
           op # "store" => counted = session, FinalReply(op, counted)
    PROVE  UploadInv'
<1>1. call.pc \in TransferSteps
  BY DEF FinalReply, TransferSteps
<1>2. Typed /\ history \in History
  BY Before DEF Typed
<1>3. PICK e : \/ FailAndDisconnect(op, "ConnectionFailed") /\ UNCHANGED history
               \/ /\ call' = Idle /\ session' = counted
                  /\ history' = [history EXCEPT !.own = @ /\ e.own,
                                   !.uploads = IF op = "store" THEN 1 ELSE @]
               \/ call' = Idle /\ session' = session /\ Heard(e)
  BY DEF FinalReply, TransferFails, Finish
<1>4. CASE FailAndDisconnect(op, "ConnectionFailed") /\ UNCHANGED history
  BY <1>4, FailStill, StillKeeps
<1>5. CASE /\ call' = Idle /\ session' = counted
           /\ history' = [history EXCEPT !.own = @ /\ e.own,
                            !.uploads = IF op = "store" THEN 1 ELSE @]
  <2>1. history'.refused = history.refused
    BY <1>2, <1>5 DEF History
  <2>2. CASE op = "store"
    BY <1>5, <2>2
       DEF UploadInv, OneUploadPerSession, Idle, LoginSteps, ConnectSteps
  <2>3. CASE op # "store"
    <3>1. history'.uploads = history.uploads
      BY <1>2, <1>5, <2>3 DEF History
    <3> QED BY <1>5, <2>1, <2>3, <3>1, Returns, StillKeeps
  <2> QED BY <2>2, <2>3
<1>6. CASE call' = Idle /\ session' = session /\ Heard(e)
  BY <1>6, HeardStill, Returns, StillKeeps
<1> QED BY <1>3, <1>4, <1>5, <1>6

LEMMA TransferKeeps == ASSUME ClientInv, UploadInv, Transfer PROVE UploadInv'
<1>1. CASE StoreCommand \/ RetrieveCommand \/ ListCommand \/ ListFallback
  <2>1. "command" \in TransferSteps /\ "list" \in TransferSteps
    BY DEF TransferSteps
  <2> QED
    BY <1>1, <2>1, TransferCommandStill, StillKeeps
       DEF StoreCommand, RetrieveCommand, ListCommand, ListFallback
<1>2. CASE \/ DataTls \/ StoreWritten \/ RetrieveRead \/ ListRead
           \/ StoreDataFails \/ RetrieveDataFails \/ ListDataFails
  BY <1>2, DataStill, StillKeeps
     DEF StoreWritten, RetrieveRead, ListRead, StoreDataFails,
         RetrieveDataFails, ListDataFails
<1>3. CASE StoreFinal
  <2>1. session \in Session
    BY Before DEF Typed
  <2> QED BY <1>3, <2>1, Counted, FinalReplyKeeps DEF StoreFinal
<1>4. CASE RetrieveFinal \/ ListFinal
  BY <1>4, FinalReplyKeeps DEF RetrieveFinal, ListFinal
<1> QED
  BY <1>1, <1>2, <1>3, <1>4, PasvStill, OpenDataStill, StillKeeps DEF Transfer

-----------------------------------------------------------------------------
(* The theorem. *)

LEMMA UploadStep == ClientInv /\ UploadInv /\ [Next]_vars => UploadInv'
<1> SUFFICES ASSUME ClientInv, UploadInv, [Next]_vars PROVE UploadInv'
  OBVIOUS
<1>1. CASE Next
  BY <1>1, SingleStill, StillKeeps, StartKeeps, LoginKeeps, TransferKeeps DEF Next
<1>2. CASE UNCHANGED vars
  BY <1>2 DEF vars, UploadInv, OneUploadPerSession, Usable
<1> QED BY <1>1, <1>2

\* With the opt-in on, and no connect() refused since, no store() begins on a
\* control connection that has carried one.
THEOREM UploadsShareNoSession == Spec => []OneUploadPerSession
<1>1. Init => UploadInv
  BY DEF Init, UploadInv, OneUploadPerSession, Usable, Idle
<1>2. UploadInv => OneUploadPerSession
  BY DEF UploadInv
<1> QED BY <1>1, <1>2, UploadStep, ClientInvariant, PTL DEF Spec

-----------------------------------------------------------------------------
(***************************************************************************)
(* The client implements FtpsSession.  Each step of the client is a step   *)
(* of the contract or leaves its two variables alone: one lemma for each    *)
(* way of being so, then one for each group of actions.  What the contract *)
(* says of results is inherited: a failure whose error is not session-dead *)
(* leaves a session.                                                       *)
(***************************************************************************)

\* A step of the contract, or none.
Allowed == [Contract!Next]_(Contract!sessionVars)

-----------------------------------------------------------------------------
(* How a step may be allowed. *)

\* The contract's errors are the client's.
LEMMA SameErrors ==
    /\ Contract!FtpsError = FtpsError
    /\ Contract!SessionDeadErrors = SessionDeadErrors
BY DEF Contract!FtpsError, FtpsError, Contract!SessionDeadErrors,
       SessionDeadErrors

\* A call returns.
LEMMA Reported ==
    ASSUME NEW op, NEW ok, NEW err, NEW s, Finish(op, ok, err, s)
    PROVE  Contract!Return(op, ok, err)
BY DEF Contract!Return, Finish

\* Between calls the outcome is the last call's; in a call it is pending.
LEMMA OutcomeTells ==
    ASSUME Typed
    PROVE  (call = Idle) <=>
             (IF call = Idle THEN result
              ELSE [op |-> "pending", ok |-> FALSE, lastError |-> "None"])
               # Contract!Pending
<1>1. call = Idle => result.op # "pending"
  BY DEF Typed, Results, Ops, SessionOps, FailError
<1>2. Contract!Pending.op = "pending"
  BY DEF Contract!Pending
<1> QED BY <1>1, <1>2 DEF Contract!Pending

LEMMA Success ==
    ASSUME NEW op \in SessionOps, NEW s, Finish(op, TRUE, "None", s),
           Usable, Usable'
    PROVE  Allowed
<1>1. Contract!Succeeds(op)
  BY Reported DEF Contract!Succeeds
<1> QED BY <1>1 DEF Allowed, Contract!Next

LEMMA SoftFailure ==
    ASSUME NEW op \in SessionOps,
           NEW err \in FtpsError \ (SessionDeadErrors \cup {"None"}),
           NEW s, Finish(op, FALSE, err, s), Usable, Usable'
    PROVE  Allowed
<1>1. Contract!FailsSoftly(op)
  BY Reported, SameErrors DEF Contract!FailsSoftly
<1> QED BY <1>1 DEF Allowed, Contract!Next

LEMMA Failure ==
    ASSUME NEW op \in SessionOps \cup {"begin", "connect", "reconnect", "discover"},
           NEW err \in SessionDeadErrors, NEW s, Finish(op, FALSE, err, s),
           ~Usable'
    PROVE  Allowed
<1>1. Contract!Fails(op)
  BY Reported, SameErrors DEF Contract!Fails
<1> QED BY <1>1 DEF Allowed, Contract!Next

LEMMA Refusal ==
    ASSUME Typed, call = Idle,
           NEW op \in {"begin", "connect", "reconnect", "discover", "store"},
           NEW err \in SessionDeadErrors, NEW s, Finish(op, FALSE, err, s),
           Usable' = Usable
    PROVE  Allowed
<1>1. Contract!Refused(op)
  BY Reported, SameErrors, OutcomeTells DEF Contract!Refused
<1> QED BY <1>1 DEF Allowed, Contract!Next

LEMMA Begins ==
    ASSUME Typed, call = Idle, NEW op, NEW pc, pc # "idle", NEW arg,
           StartCall(op, pc, arg), Usable' \in {Usable, FALSE}
    PROVE  Allowed
<1>1. call' # Idle
  BY DEF StartCall, Idle
<1>2. Contract!CallBegins
  BY <1>1, OutcomeTells DEF Contract!CallBegins, Contract!Pending
<1> QED BY <1>2 DEF Allowed, Contract!Next

LEMMA GoesOn ==
    ASSUME call # Idle, call' # Idle, Usable' = Usable
    PROVE  Allowed
BY DEF Allowed, Contract!sessionVars

-----------------------------------------------------------------------------
(* The calls of one exchange. *)

\* Errors of the two kinds.
LEMMA SoftErrors ==
    /\ \A op \in SessionOps :
          FailError[op] \in FtpsError \ (SessionDeadErrors \cup {"None"})
    /\ {"SizeQueryFailed", "RenameFailed", "PasvParseFailed",
        "PassiveModeRejected", "DataConnectionFailed", "SessionReuseRequired",
        "DataTlsHandshakeFailed", "TransferFailed", "FinalReplyFailed"}
          \subseteq FtpsError \ (SessionDeadErrors \cup {"None"})
BY DEF FailError, SessionOps, FtpsError, SessionDeadErrors

LEMMA DeadErrors ==
    {"ConnectionFailed", "NetworkNotInitialized", "LoginRejected",
     "CertValidationFailed", "BannerReadFailed", "AuthTlsRejected",
     "ControlTlsHandshakeFailed", "PbszRejected", "ProtPRejected",
     "TypeRejected"} \subseteq SessionDeadErrors
BY DEF SessionDeadErrors

\* failAndDisconnect() leaves no session.
LEMMA Down ==
    ASSUME session \in Session
    PROVE  Disconnected(session).connected = FALSE
<1>1. Disconnected(session) = SetConnected(session, FALSE)
  BY DEF Disconnected, SetConnected
<1> QED BY <1>1, SetConnectedFields

LEMMA DisconnectAllowed ==
    ASSUME Typed, NEW op \in SessionOps,
           FailAndDisconnect(op, "ConnectionFailed")
    PROVE  Allowed
<1>1. /\ Finish(op, FALSE, "ConnectionFailed", Disconnected(session))
      /\ session' = Disconnected(session)
  BY DEF FailAndDisconnect, Finish
<1>2. ~Usable'
  BY <1>1, Down DEF Typed, Usable
<1> QED BY <1>1, <1>2, Failure, DeadErrors

\* A call on the session that keeps it.
LEMMA KeepAllowed ==
    ASSUME Usable, NEW op \in SessionOps,
           \/ Finish(op, TRUE, "None", session)
           \/ \E err \in FtpsError \ (SessionDeadErrors \cup {"None"}) :
                 Finish(op, FALSE, err, session)
    PROVE  Allowed
<1>1. Usable'
  BY DEF Finish, Usable
<1> QED BY <1>1, Success, SoftFailure

LEMMA CommandAllowed ==
    ASSUME ClientInv, NEW op \in SessionOps, NEW cmd, NEW good, NEW args,
           SendCommand(op, cmd, good, args)
    PROVE  Allowed
<1>1. \/ FailAndDisconnect(op, "ConnectionFailed")
      \/ Finish(op, TRUE, "None", session)
      \/ Finish(op, FALSE, FailError[op], session)
  BY DEF SendCommand
<1>2. Typed /\ Usable
  BY Before DEF SendCommand
<1> QED BY <1>1, <1>2, DisconnectAllowed, KeepAllowed, SoftErrors

LEMMA CommandsAllowed ==
    ASSUME ClientInv, Mkd \/ Dele \/ Rmd \/ IsControlAlive \/ Size
    PROVE  Allowed
BY CommandAllowed, Names DEF Mkd, Dele, Rmd, IsControlAlive, Size

LEMMA SizeAndRenameAllowed ==
    ASSUME ClientInv, SizeMalformed \/ RenameFrom \/ RenameTo
    PROVE  Allowed
<1>1. Typed
  BY Before
<1>2. CASE SizeMalformed
  <2>1. Usable /\ Finish("size", FALSE, "SizeQueryFailed", session)
    BY <1>2 DEF SizeMalformed
  <2> QED BY <2>1, KeepAllowed, SoftErrors, Names
<1>3. CASE RenameFrom
  <2>1. \/ FailAndDisconnect("rename", "ConnectionFailed")
        \/ StartCall("rename", "rnto", "ok") /\ UNCHANGED session
        \/ Finish("rename", FALSE, "RenameFailed", session)
    BY <1>3 DEF RenameFrom
  <2>2. call = Idle /\ Usable
    BY <1>3 DEF RenameFrom
  <2>3. CASE StartCall("rename", "rnto", "ok") /\ UNCHANGED session
    BY <1>1, <2>2, <2>3, Begins DEF Usable
  <2> QED
    BY <1>1, <2>1, <2>2, <2>3, DisconnectAllowed, KeepAllowed, SoftErrors, Names
<1>4. CASE RenameTo
  <2>1. \/ FailAndDisconnect("rename", "ConnectionFailed")
        \/ Finish("rename", TRUE, "None", session)
        \/ Finish("rename", FALSE, "RenameFailed", session)
    BY <1>4 DEF RenameTo
  <2>2. Usable
    BY <1>4, Before DEF RenameTo, Usable
  <2> QED
    BY <1>1, <2>1, <2>2, DisconnectAllowed, KeepAllowed, SoftErrors, Names
<1> QED BY <1>2, <1>3, <1>4

LEMMA BeginAllowed ==
    ASSUME ClientInv, Begin \/ BeginWithoutNetwork \/ BeginWithoutMemory
    PROVE  Allowed
<1>1. Typed /\ session \in Session
  BY Before DEF Typed
<1>2. CASE Begin
  <2>1. ~session'.connected
    BY <1>1, <1>2, Begun DEF Begin, Finish
  <2>2. \E s : Finish("begin", TRUE, "None", s)
    BY <1>2 DEF Begin
  <2>3. Contract!Cleared("begin")
    BY <2>1, <2>2, Reported DEF Contract!Cleared, Usable
  <2> QED BY <2>3 DEF Allowed, Contract!Next
<1>3. CASE BeginWithoutNetwork
  <2>1. Finish("begin", FALSE, "NetworkNotInitialized", session)
    BY <1>3 DEF BeginWithoutNetwork
  <2>2. call = Idle /\ Usable' = Usable
    BY <1>3, <2>1 DEF BeginWithoutNetwork, Finish, Usable
  <2> QED BY <1>1, <2>1, <2>2, Refusal, DeadErrors
<1>4. CASE BeginWithoutMemory
  <2>1. session' = SetBegan(session, FALSE)
    BY <1>4 DEF BeginWithoutMemory, Finish, SetBegan
  <2>2. ~Usable'
    BY <1>1, <2>1, SetBeganFields DEF Usable
  <2>3. \E s : Finish("begin", FALSE, "ConnectionFailed", s)
    BY <1>4 DEF BeginWithoutMemory
  <2> QED BY <2>2, <2>3, Failure, DeadErrors
<1> QED BY <1>2, <1>3, <1>4

LEMMA QuitAllowed == ASSUME ClientInv, Quit PROVE Allowed
<1>1. Typed /\ session \in Session /\ call = Idle
  BY Before DEF Typed, Quit
<1>2. Disconnected(session).connected = FALSE
  BY <1>1, Down
<1>3. PICK err \in {"None", "QuitFailed", result.lastError} :
         \/ Finish("quit", TRUE, err, Disconnected(session))
         \/ Finish("quit", TRUE, err, session) /\ ~session.connected
  BY DEF Quit
<1>4. ~Usable'
  BY <1>2, <1>3 DEF Finish, Usable
<1>5. Contract!Return("quit", TRUE, err)
  BY <1>3, Reported
<1>6. Contract!QuitReturns
  BY <1>1, <1>3, <1>4, <1>5 DEF Contract!QuitReturns
<1> QED BY <1>6 DEF Allowed, Contract!Next

LEMMA SetReconnectAllowed ==
    ASSUME ClientInv, SetReconnectBetweenStores PROVE Allowed
<1>1. session \in Session
  BY Before DEF Typed
<1>2. Usable' = Usable
  BY <1>1 DEF SetReconnectBetweenStores, Usable, Session
<1> QED BY <1>2 DEF Allowed, Contract!sessionVars, SetReconnectBetweenStores

LEMMA RefusalsAllowed ==
    ASSUME ClientInv,
           NotConnected \/ MissingArgument \/ ReconnectBeforeBegin \/ DiscoverRefused
    PROVE  Allowed
<1>1. Typed
  BY Before
<1>2. CASE NotConnected
  <2>1. PICK op \in SessionOps : Finish(op, FALSE, "ConnectionFailed", session)
    BY <1>2 DEF NotConnected
  <2>2. ~Usable'
    BY <1>2, <2>1 DEF NotConnected, Finish, Usable
  <2> QED BY <2>1, <2>2, Failure, DeadErrors
<1>3. CASE MissingArgument
  <2>1. /\ Usable
        /\ \E op \in SessionOps : Finish(op, FALSE, FailError[op], session)
    BY <1>3 DEF MissingArgument
  <2> QED BY <2>1, KeepAllowed, SoftErrors
<1>4. CASE ReconnectBeforeBegin \/ DiscoverRefused
  <2>1. PICK op \in {"reconnect", "discover"},
             err \in {"ConnectionFailed", "CertValidationFailed",
                      "NetworkNotInitialized"} :
           Finish(op, FALSE, err, session)
    BY <1>4 DEF ReconnectBeforeBegin, DiscoverRefused
  <2>2. call = Idle /\ Usable' = Usable
    BY <1>4, <2>1 DEF ReconnectBeforeBegin, DiscoverRefused, Finish, Usable
  <2> QED BY <1>1, <2>1, <2>2, Refusal, DeadErrors
<1> QED BY <1>2, <1>3, <1>4

-----------------------------------------------------------------------------
(* connect(), reconnect() and discoverFingerprint(): up to the login. *)

\* connect() that refuses its configuration leaves the session as it is.
LEMMA RefuseAllowed ==
    ASSUME ClientInv, NEW s, s.began = session.began,
           s.connected = session.connected, NEW errors,
           errors \subseteq SessionDeadErrors, Refuse(s, errors)
    PROVE  Allowed
<1>1. call = Idle /\ Typed
  BY Before DEF Refuse
<1>2. PICK err \in errors : Finish("connect", FALSE, err, s)
  BY DEF Refuse
<1>3. Usable' = Usable
  BY <1>2 DEF Finish, Usable
<1> QED BY <1>1, <1>2, <1>3, Refusal

LEMMA ConnectRefusalsAllowed ==
    ASSUME ClientInv,
           \/ ConnectBeforeBegin \/ ConnectRefusesArguments
           \/ ConnectRefusesFingerprint \/ ConnectRefusesCertificate
    PROVE  Allowed
<1>1. Typed /\ session \in Session
  BY Before DEF Typed
<1>2. CASE ConnectBeforeBegin
  <2>1. call = Idle /\ Finish("connect", FALSE, "NetworkNotInitialized", Uncounted)
    BY <1>2 DEF ConnectBeforeBegin
  <2>2. Usable' = Usable
    BY <1>1, <2>1, UncountedFields DEF Finish, Usable
  <2> QED BY <1>1, <2>1, <2>2, Refusal, DeadErrors
<1>3. CASE ConnectRefusesArguments
  <2>1. {"ConnectionFailed", "LoginRejected", "CertValidationFailed"}
           \subseteq SessionDeadErrors
    BY DeadErrors
  <2> QED
    BY <1>1, <1>3, <2>1, UncountedFields, RefuseAllowed
       DEF ConnectRefusesArguments
<1>4. CASE ConnectRefusesFingerprint \/ ConnectRefusesCertificate
  <2>1. NoPin \in PinValues /\ {"CertValidationFailed"} \subseteq SessionDeadErrors
    BY DeadErrors DEF PinValues
  <2>2. PICK left \in PinValues :
           Refuse([Uncounted EXCEPT !.pin = left], {"CertValidationFailed"})
    BY <1>4, <2>1 DEF ConnectRefusesFingerprint, ConnectRefusesCertificate
  <2> QED BY <1>1, <2>1, <2>2, RepinnedFields, RefuseAllowed
<1> QED BY <1>2, <1>3, <1>4

LEMMA LengthAllowed == ASSUME ClientInv, ConnectRefusesLength PROVE Allowed
<1>1. Typed /\ session \in Session
  BY Before DEF Typed
<1>2. PICK trust \in TrustModes, cached \in {"none", "host", "all"} :
         LET config == CASE cached = "none" -> NoConfig
                         [] cached = "host" -> [NoConfig EXCEPT !.host = TRUE]
                         [] cached = "all" -> [host |-> TRUE, complete |-> TRUE,
                                               trust |-> trust]
             errors == CASE cached = "none" -> {"ConnectionFailed"}
                         [] cached = "host" -> {"LoginRejected"}
                         [] cached = "all" -> {"CertValidationFailed"}
         IN  \E pin \in (IF trust = "Fingerprint" THEN Certs ELSE {NoPin}),
                err \in errors :
               Finish("connect", FALSE, err,
                      [Disconnected(Uncounted) EXCEPT !.config = config,
                                                      !.pin = pin])
  BY DEF ConnectRefusesLength
<1> DEFINE config == CASE cached = "none" -> NoConfig
                       [] cached = "host" -> [NoConfig EXCEPT !.host = TRUE]
                       [] cached = "all" -> [host |-> TRUE, complete |-> TRUE,
                                             trust |-> trust]
           errors == CASE cached = "none" -> {"ConnectionFailed"}
                       [] cached = "host" -> {"LoginRejected"}
                       [] cached = "all" -> {"CertValidationFailed"}
           pins == IF trust = "Fingerprint" THEN Certs ELSE {NoPin}
<1>3. config \in Config
  BY NewConfig
<1>4. errors \subseteq SessionDeadErrors
  BY DeadErrors
<1>5. pins \subseteq PinValues
  BY DEF PinValues
<1>6. \E pin \in pins, err \in errors :
         Finish("connect", FALSE, err,
                [Disconnected(Uncounted) EXCEPT !.config = config, !.pin = pin])
  BY <1>2
<1> HIDE DEF config, errors, pins
<1>7. PICK pin \in PinValues, err \in SessionDeadErrors :
         Finish("connect", FALSE, err,
                [Disconnected(Uncounted) EXCEPT !.config = config, !.pin = pin])
  BY <1>4, <1>5, <1>6
<1> DEFINE s == [Disconnected(Uncounted) EXCEPT !.config = config, !.pin = pin]
<1>8. s.connected = FALSE
  BY <1>1, <1>3, <1>7, Reconfigured
<1>9. Finish("connect", FALSE, err, s)
  BY <1>7
<1> HIDE DEF s
<1>10. ~Usable'
  BY <1>8, <1>9 DEF Finish, Usable
<1> QED BY <1>7, <1>9, <1>10, Failure

LEMMA ConnectStartAllowed == ASSUME ClientInv, ConnectStart PROVE Allowed
<1>1. Typed /\ session \in Session
  BY Before DEF Typed
<1>2. PICK trust \in TrustModes :
         \E pin \in (IF trust = "Fingerprint" THEN Certs ELSE {NoPin}) :
            session' = [Disconnected(Uncounted) EXCEPT
                           !.config = [host |-> TRUE, complete |-> TRUE,
                                       trust |-> trust],
                           !.pin = pin]
  BY DEF ConnectStart
<1>3. PICK pin \in PinValues :
         session' = [Disconnected(Uncounted) EXCEPT
                        !.config = [host |-> TRUE, complete |-> TRUE,
                                    trust |-> trust],
                        !.pin = pin]
  BY <1>2 DEF PinValues
<1>4. [host |-> TRUE, complete |-> TRUE, trust |-> trust] \in Config
  BY NewConfig
<1>5. Usable' = FALSE
  BY <1>1, <1>3, <1>4, Reconfigured DEF Usable
<1> QED BY <1>1, <1>5, Begins DEF ConnectStart

LEMMA ReconnectAllowed ==
    ASSUME ClientInv, call = Idle, NEW op \in {"reconnect", "store"}, NEW arg,
           ReconnectRefused(op) \/ Reconnecting(op, arg)
    PROVE  Allowed
<1>1. Typed /\ session \in Session /\ op \in SessionOps \cup {"reconnect"}
  BY Before, Names DEF Typed, TransferOps
<1>2. CASE ReconnectRefused(op)
  <2>1. Finish(op, FALSE, "ConnectionFailed", session)
    BY <1>2 DEF ReconnectRefused
  <2>2. Usable' = Usable
    BY <2>1 DEF Finish, Usable
  <2> QED BY <1>1, <2>1, <2>2, Refusal, DeadErrors
<1>3. CASE Reconnecting(op, arg)
  <2> DEFINE s == Disconnected(Uncounted)
  <2>1. s.connected = FALSE
    BY <1>1, ClosedUncounted
  <2>2. \/ Finish(op, FALSE, "LoginRejected", s)
        \/ Finish(op, FALSE, "CertValidationFailed", s)
        \/ session' = s /\ StartCall(op, "tcp", arg)
    BY <1>3 DEF Reconnecting
  <2> HIDE DEF s
  <2>3. Usable' = FALSE
    BY <2>1, <2>2 DEF Finish, Usable
  <2>4. CASE session' = s /\ StartCall(op, "tcp", arg)
    BY <1>1, <2>3, <2>4, Begins
  <2>5. CASE \/ Finish(op, FALSE, "LoginRejected", s)
             \/ Finish(op, FALSE, "CertValidationFailed", s)
    BY <1>1, <2>3, <2>5, Failure, DeadErrors
  <2> QED BY <2>2, <2>4, <2>5
<1> QED BY <1>2, <1>3

LEMMA SingleAllowed == ASSUME ClientInv, Single PROVE Allowed
BY BeginAllowed, QuitAllowed, SetReconnectAllowed, RefusalsAllowed,
   CommandsAllowed, SizeAndRenameAllowed, ConnectRefusalsAllowed, LengthAllowed
   DEF Single

LEMMA StartAllowed == ASSUME ClientInv, Start PROVE Allowed
<1>1. Typed /\ session \in Session
  BY Before DEF Typed
<1>2. CASE DiscoverStart
  <2>1. Usable' = FALSE
    BY <1>1, <1>2, Down DEF DiscoverStart, Usable
  <2> QED BY <1>1, <1>2, <2>1, Begins DEF DiscoverStart
<1>3. CASE Reconnect
  BY <1>3, ReconnectAllowed DEF Reconnect
<1>4. CASE StoreStart \/ RetrieveStart \/ ListStart
  <2>1. call = Idle
    BY <1>4 DEF StoreStart, RetrieveStart, ListStart, TransferStart
  <2>2. \/ \E arg : ReconnectRefused("store") \/ Reconnecting("store", arg)
        \/ \E op, arg : StartCall(op, "pasv", arg) /\ UNCHANGED session
    BY <1>4 DEF StoreStart, RetrieveStart, ListStart, TransferStart
  <2>3. ASSUME NEW op, NEW arg, StartCall(op, "pasv", arg), UNCHANGED session
        PROVE  Allowed
    BY <1>1, <2>1, <2>3, Begins DEF Usable
  <2> QED BY <2>1, <2>2, <2>3, ReconnectAllowed
<1> QED BY <1>2, <1>3, <1>4, ConnectStartAllowed DEF Start

-----------------------------------------------------------------------------
(* The login. *)

\* No step of it is taken on a connected session.
LEMMA LoginNames ==
    ASSUME ClientInv, call.pc \in ConnectSteps
    PROVE  /\ Typed /\ session \in Session /\ ~Usable /\ call # Idle
           /\ call.op \in SessionOps \cup {"connect", "reconnect", "discover"}
           /\ call.op \in {"store", "connect", "reconnect", "discover"}
<1>1. Typed /\ ~session.connected
  BY Before
<1>2. call.op \in {"store", "connect", "reconnect", "discover"}
  BY <1>1, CallFields DEF Typed, ConnectOps
<1>3. "store" \in SessionOps
  BY Names DEF TransferOps
<1>4. call # Idle
  BY DEF Idle, ConnectSteps
<1> QED BY <1>1, <1>2, <1>3, <1>4 DEF Typed, Usable

LEMMA LoginFailsAllowed ==
    ASSUME ClientInv, call.pc \in ConnectSteps, NEW err \in SessionDeadErrors,
           Finish(call.op, FALSE, err, session)
    PROVE  Allowed
<1>1. ~Usable'
  BY LoginNames DEF Finish, Usable
<1> QED BY <1>1, LoginNames, Failure

LEMMA LoginGoesOnAllowed ==
    ASSUME ClientInv, call.pc \in ConnectSteps, NEW next \in ConnectSteps,
           GoTo(next), UNCHANGED session
    PROVE  Allowed
<1>1. call'.pc = next
  BY LoginNames, NextLoginStep DEF Typed, GoTo
<1>2. call' # Idle
  BY <1>1 DEF Idle, ConnectSteps
<1> QED BY <1>2, LoginNames, GoesOn DEF Usable

LEMMA LoginStepAllowed ==
    ASSUME ClientInv, NEW pc \in ConnectSteps, NEW cmd, NEW good,
           NEW next \in ConnectSteps, NEW err \in SessionDeadErrors,
           LoginStep(pc, cmd, good, next, err)
    PROVE  Allowed
<1>1. call.pc \in ConnectSteps
  BY DEF LoginStep
<1>2. \/ GoTo(next) /\ UNCHANGED session
      \/ Finish(call.op, FALSE, err, session)
  BY DEF LoginStep, LoginFails
<1> QED BY <1>1, <1>2, LoginGoesOnAllowed, LoginFailsAllowed

LEMMA LoginCommandsAllowed ==
    ASSUME ClientInv, Banner \/ AuthSsl \/ Pbsz \/ ProtP \/ Pass
    PROVE  Allowed
<1>1. {"banner", "authTls", "authSsl", "controlTls", "pbsz", "protP", "user",
       "pass", "typeI"} \subseteq ConnectSteps
  BY DEF ConnectSteps
<1> QED
  BY <1>1, LoginStepAllowed, DeadErrors DEF Banner, AuthSsl, Pbsz, ProtP, Pass

LEMMA LoginNetworkAllowed ==
    ASSUME ClientInv, Tcp \/ AuthTls \/ User \/ ControlTls
    PROVE  Allowed
<1>1. call.pc \in ConnectSteps
  BY DEF Tcp, AuthTls, User, ControlTls, ConnectSteps
<1>2. PICK next \in ConnectSteps, err \in SessionDeadErrors :
         \/ GoTo(next) /\ UNCHANGED session
         \/ Finish(call.op, FALSE, err, session)
  <2>1. {"banner", "authSsl", "controlTls", "pbsz", "pass", "typeI"}
           \subseteq ConnectSteps
    BY DEF ConnectSteps
  <2>2. {"ConnectionFailed", "CertValidationFailed", "LoginRejected",
         "ControlTlsHandshakeFailed"} \subseteq SessionDeadErrors
    BY DeadErrors
  <2>3. CASE Tcp
    BY <2>1, <2>2, <2>3 DEF Tcp
  <2>4. CASE AuthTls
    BY <2>1, <2>2, <2>4 DEF AuthTls
  <2>5. CASE User
    <3>1. PICK next \in {"pass", "typeI"} :
             \/ GoTo(next) /\ UNCHANGED session
             \/ Finish(call.op, FALSE, "LoginRejected", session)
      BY <2>5 DEF User, LoginFails
    <3> QED BY <2>1, <2>2, <3>1
  <2>6. CASE ControlTls
    BY <2>1, <2>2, <2>6 DEF ControlTls, LoginFails
  <2> QED BY <2>3, <2>4, <2>5, <2>6
<1> QED BY <1>1, <1>2, LoginGoesOnAllowed, LoginFailsAllowed

LEMMA DiscoverTlsAllowed == ASSUME ClientInv, DiscoverTls PROVE Allowed
<1>1. call.pc \in ConnectSteps /\ call.op = "discover"
  BY DEF DiscoverTls, ConnectSteps
<1>2. \/ \E err \in {"ControlTlsHandshakeFailed", "CertValidationFailed"} :
            Finish(call.op, FALSE, err, session)
      \/ Finish("discover", TRUE, "None", session)
  BY DEF DiscoverTls, LoginFails
<1>3. CASE \E err \in {"ControlTlsHandshakeFailed", "CertValidationFailed"} :
              Finish(call.op, FALSE, err, session)
  BY <1>1, <1>3, LoginFailsAllowed, DeadErrors
<1>4. CASE Finish("discover", TRUE, "None", session)
  <2>1. ~Usable'
    BY <1>1, <1>4, LoginNames DEF Finish, Usable
  <2>2. Contract!Cleared("discover")
    BY <1>4, <2>1, Reported DEF Contract!Cleared
  <2> QED BY <2>2 DEF Allowed, Contract!Next
<1> QED BY <1>2, <1>3, <1>4

\* The last step makes the session: discovery does not get there.
LEMMA TypeIAllowed == ASSUME ClientInv, TrustInv, TypeI PROVE Allowed
<1>1. call.pc = "typeI"
  BY DEF TypeI
<1>2. call.pc \in ConnectSteps /\ call.op # "discover"
  BY <1>1, DiscoverOnly DEF ConnectSteps, DiscoverSteps
<1>3. /\ session \in Session /\ session.began /\ ~Usable /\ call # Idle
      /\ call \in Calls
  BY <1>2, Before, LoginNames DEF Typed
<1> DEFINE s == SetConnected(session, TRUE)
<1>4. s.began /\ s.connected
  BY <1>3, SetConnectedFields
<1>5. \/ call.op = "store" /\ session' = s /\ GoTo("pasv")
      \/ call.op # "store" /\ Finish(call.op, TRUE, "None", s)
      \/ Finish(call.op, FALSE, "TypeRejected", session)
  BY DEF TypeI, LoginFails, SetConnected
<1> HIDE DEF s
<1>6. CASE call.op = "store" /\ session' = s /\ GoTo("pasv")
  <2>1. "pasv" \in TransferSteps /\ call.op \in TransferOps
    BY <1>6 DEF TransferSteps, TransferOps
  <2>2. call'.pc = "pasv"
    BY <1>2, <1>3, <1>6, <2>1, NextTransferStep DEF GoTo
  <2>3. call' # Idle /\ Usable'
    BY <1>4, <1>6, <2>2 DEF Idle, Usable
  <2>4. Contract!Reestablished
    BY <1>3, <2>3 DEF Contract!Reestablished, Contract!Pending
  <2> QED BY <2>4 DEF Allowed, Contract!Next
<1>7. CASE call.op # "store" /\ Finish(call.op, TRUE, "None", s)
  <2>1. call.op \in {"connect", "reconnect"}
    BY <1>2, <1>7, LoginNames
  <2>2. Usable'
    BY <1>4, <1>7 DEF Finish, Usable
  <2>3. Contract!Connected(call.op)
    BY <1>7, <2>2, Reported DEF Contract!Connected
  <2> QED BY <2>1, <2>3 DEF Allowed, Contract!Next
<1>8. CASE Finish(call.op, FALSE, "TypeRejected", session)
  BY <1>2, <1>8, LoginFailsAllowed, DeadErrors
<1> QED BY <1>5, <1>6, <1>7, <1>8

LEMMA LoginAllowed == ASSUME ClientInv, TrustInv, Login PROVE Allowed
BY LoginCommandsAllowed, LoginNetworkAllowed, DiscoverTlsAllowed, TypeIAllowed
   DEF Login

-----------------------------------------------------------------------------
(* The transfers. *)

\* Every step of one is taken on a session.
LEMMA TransferNames ==
    ASSUME ClientInv, call.pc \in TransferSteps
    PROVE  /\ Typed /\ Usable /\ call # Idle
           /\ call.op \in TransferOps /\ call.op \in SessionOps
<1>1. Typed /\ Usable
  BY Before DEF Usable
<1>2. call.op \in TransferOps /\ call # Idle
  BY <1>1, CallFields DEF Typed, Idle, TransferSteps
<1> QED BY <1>1, <1>2, Names

LEMMA TransferGoesOnAllowed ==
    ASSUME ClientInv, call.pc \in TransferSteps, NEW next \in TransferSteps,
           GoTo(next), UNCHANGED session
    PROVE  Allowed
<1>1. call'.pc = next
  BY TransferNames, NextTransferStep DEF Typed, GoTo
<1>2. call' # Idle
  BY <1>1 DEF Idle, TransferSteps
<1> QED BY <1>2, TransferNames, GoesOn DEF Usable

LEMMA TransferFailsAllowed ==
    ASSUME ClientInv, call.pc \in TransferSteps, NEW t, NEW w,
           NEW err \in FtpsError \ (SessionDeadErrors \cup {"None"}),
           TransferFails(err, t, w)
    PROVE  Allowed
BY TransferNames, KeepAllowed DEF TransferFails

\* A step that goes on, fails on the session, or loses it.
LEMMA TransferStepAllowed ==
    ASSUME ClientInv, call.pc \in TransferSteps, NEW next \in TransferSteps,
           \/ GoTo(next) /\ UNCHANGED session
           \/ FailAndDisconnect(call.op, "ConnectionFailed")
           \/ \E err \in FtpsError \ (SessionDeadErrors \cup {"None"}) :
                 \E t, w : TransferFails(err, t, w)
    PROVE  Allowed
BY TransferNames, TransferGoesOnAllowed, DisconnectAllowed, TransferFailsAllowed

LEMMA NextSteps ==
    {"open", "command", "list", "dataTls", "data", "final"} \subseteq TransferSteps
BY DEF TransferSteps

LEMMA PasvAllowed == ASSUME ClientInv, Pasv PROVE Allowed
<1>1. call.pc \in TransferSteps
  BY DEF Pasv, TransferSteps
<1>2. \/ GoTo("open") /\ UNCHANGED session
      \/ FailAndDisconnect(call.op, "ConnectionFailed")
      \/ \E err \in {"TransferFailed", "PasvParseFailed", "PassiveModeRejected"} :
            \E t, w : TransferFails(err, t, w)
  BY DEF Pasv
<1> QED BY <1>1, <1>2, NextSteps, SoftErrors, TransferStepAllowed

LEMMA OpenDataAllowed == ASSUME ClientInv, OpenData PROVE Allowed
<1>1. call.pc \in TransferSteps
  BY DEF OpenData, TransferSteps
<1>2. \/ GoTo("command") /\ UNCHANGED session
      \/ \E t, w : TransferFails("DataConnectionFailed", t, w)
  BY DEF OpenData
<1> QED BY <1>1, <1>2, NextSteps, SoftErrors, TransferStepAllowed

LEMMA TransferCommandAllowed ==
    ASSUME ClientInv, NEW pc \in TransferSteps, NEW op, NEW cmd,
           SendTransferCommand(pc, op, cmd)
    PROVE  Allowed
<1>1. call.pc \in TransferSteps
  BY DEF SendTransferCommand
<1>2. FailError[call.op] \in FtpsError \ (SessionDeadErrors \cup {"None"})
  BY <1>1, TransferNames, SoftErrors
<1>3. \/ \E next \in {"dataTls", "list"} : GoTo(next) /\ UNCHANGED session
      \/ FailAndDisconnect(call.op, "ConnectionFailed")
      \/ \E t, w : TransferFails(FailError[call.op], t, w)
  BY DEF SendTransferCommand, TryList, CommandRefused
<1> QED BY <1>1, <1>2, <1>3, NextSteps, TransferStepAllowed

LEMMA DataTlsAllowed == ASSUME ClientInv, DataTls PROVE Allowed
<1>1. call.pc \in TransferSteps
  BY DEF DataTls, TransferSteps
<1>2. \/ GoTo("data") /\ UNCHANGED session
      \/ \E err \in {"SessionReuseRequired", "DataTlsHandshakeFailed"} :
            \E t, w : TransferFails(err, t, w)
  BY DEF DataTls, TransferFailsAndDrains
<1> QED BY <1>1, <1>2, NextSteps, SoftErrors, TransferStepAllowed

LEMMA DataAllowed ==
    ASSUME ClientInv, NEW op, DataMoved(op) \/ DataFails(op)
    PROVE  Allowed
<1>1. call.pc \in TransferSteps /\ call.op = op
  BY DEF DataMoved, DataFails, TransferSteps
<1>2. FailError[op] \in FtpsError \ (SessionDeadErrors \cup {"None"})
  BY <1>1, TransferNames, SoftErrors
<1>3. \/ GoTo("final") /\ UNCHANGED session
      \/ \E t, w : TransferFails(FailError[op], t, w)
  BY DEF DataMoved, DataFails, TransferFailsAndDrains
<1> QED BY <1>1, <1>2, <1>3, NextSteps, TransferStepAllowed

LEMMA FinalAllowed ==
    ASSUME ClientInv, NEW op, NEW counted, counted.began = session.began,
           counted.connected = session.connected, FinalReply(op, counted)
    PROVE  Allowed
<1>1. call.pc \in TransferSteps /\ call.op = op
  BY DEF FinalReply, TransferSteps
<1>2. \/ FailAndDisconnect(call.op, "ConnectionFailed")
      \/ Finish(call.op, TRUE, "None", counted)
      \/ \E t, w : TransferFails("FinalReplyFailed", t, w)
  BY <1>1 DEF FinalReply
<1>3. CASE Finish(call.op, TRUE, "None", counted)
  <2>1. Usable /\ Usable'
    BY <1>1, <1>3, TransferNames DEF Finish, Usable
  <2> QED BY <1>1, <1>3, <2>1, TransferNames, Success
<1> QED BY <1>1, <1>2, <1>3, NextSteps, SoftErrors, TransferStepAllowed

LEMMA TransferAllowed == ASSUME ClientInv, Transfer PROVE Allowed
<1>1. CASE StoreCommand \/ RetrieveCommand \/ ListCommand \/ ListFallback
  <2>1. "command" \in TransferSteps /\ "list" \in TransferSteps
    BY DEF TransferSteps
  <2> QED
    BY <1>1, <2>1, TransferCommandAllowed
       DEF StoreCommand, RetrieveCommand, ListCommand, ListFallback
<1>2. CASE \/ StoreWritten \/ RetrieveRead \/ ListRead
           \/ StoreDataFails \/ RetrieveDataFails \/ ListDataFails
  BY <1>2, DataAllowed
     DEF StoreWritten, RetrieveRead, ListRead, StoreDataFails,
         RetrieveDataFails, ListDataFails
<1>3. CASE StoreFinal
  <2>1. session \in Session
    BY Before DEF Typed
  <2> QED BY <1>3, <2>1, Counted, FinalAllowed DEF StoreFinal
<1>4. CASE RetrieveFinal \/ ListFinal
  BY <1>4, FinalAllowed DEF RetrieveFinal, ListFinal
<1> QED
  BY <1>1, <1>2, <1>3, <1>4, PasvAllowed, OpenDataAllowed, DataTlsAllowed
     DEF Transfer

-----------------------------------------------------------------------------
(* The theorems. *)

LEMMA ContractInit == Init => Contract!Init
BY DEF Init, Contract!Init, Usable, NoResult

LEMMA EveryStepAllowed ==
    ASSUME ClientInv, TrustInv, [Next]_vars PROVE Allowed
<1>1. CASE Next
  BY <1>1, SingleAllowed, StartAllowed, LoginAllowed, TransferAllowed DEF Next
<1>2. CASE UNCHANGED vars
  BY <1>2 DEF vars, Allowed, Contract!sessionVars, Usable
<1> QED BY <1>1, <1>2

\* The client implements the contract of FtpsSession.
THEOREM ClientImplementsSession == Spec => ImplementsSession
<1>1. ClientInv /\ TrustInv /\ [Next]_vars => [Contract!Next]_(Contract!sessionVars)
  BY EveryStepAllowed DEF Allowed
<1> QED
  BY <1>1, ContractInit, ClientInvariant, TrustInvariant, PTL
     DEF Spec, ImplementsSession, Contract!Spec

\* Of a failure whose error is not session-dead: there is a session.  It is
\* so because the contract has no step that would make it otherwise.
SoftFailureTells ==
    call = Idle /\ ~result.ok /\ ~IsSessionDead(result.lastError) => Usable

LEMMA AllowedTells ==
    ASSUME Typed, Typed', SoftFailureTells, Allowed PROVE SoftFailureTells'
<1> SUFFICES ASSUME call' = Idle, ~result'.ok,
                    result'.lastError \notin SessionDeadErrors
             PROVE  Usable'
  BY DEF SoftFailureTells, IsSessionDead
<1>1. CASE UNCHANGED Contract!sessionVars
  <2>1. call = Idle /\ result' = result /\ Usable' = Usable
    <3>1. (IF call' = Idle THEN result'
           ELSE [op |-> "pending", ok |-> FALSE, lastError |-> "None"])
             # Contract!Pending
      BY DEF Typed, Results, Ops, SessionOps, FailError, Contract!Pending
    <3> QED BY <1>1, <3>1 DEF Contract!sessionVars, Contract!Pending
  <2> QED BY <2>1 DEF SoftFailureTells, IsSessionDead
<1>2. CASE Contract!Next
  <2>1. result'.op # "pending"
    BY DEF Typed, Results, Ops, SessionOps, FailError
  <2>2. ~Contract!CallBegins
    <3>1. Contract!CallBegins => result' = Contract!Pending
      BY DEF Contract!CallBegins
    <3>2. Contract!Pending.op = "pending"
      BY DEF Contract!Pending
    <3> QED BY <2>1, <3>1, <3>2
  <2>3. ~Contract!Reestablished
    BY <2>1 DEF Contract!Reestablished, Contract!Pending
  <2>4. ASSUME NEW op, NEW ok, NEW err, Contract!Return(op, ok, err)
        PROVE  result'.ok = ok /\ result'.lastError = err
    BY <2>4 DEF Contract!Return
  <2>5. ASSUME NEW op,
               \/ Contract!Succeeds(op) \/ Contract!FailsSoftly(op)
               \/ Contract!Fails(op) \/ Contract!Refused(op)
               \/ Contract!Connected(op) \/ Contract!Cleared(op)
               \/ Contract!QuitReturns
        PROVE  Usable'
    BY <2>4, <2>5, SameErrors
       DEF Contract!Succeeds, Contract!FailsSoftly, Contract!Fails,
           Contract!Refused, Contract!Connected, Contract!Cleared,
           Contract!QuitReturns
  <2> QED BY <1>2, <2>2, <2>3, <2>5 DEF Contract!Next
<1> QED BY <1>1, <1>2 DEF Allowed

\* An error that ftpsIsTransferRetriable passes never comes from a session
\* that is gone.
THEOREM RetriableErrorsKeepSession == Spec => []RetriableKeepsSession
<1>1. Init => SoftFailureTells
  BY DEF Init, SoftFailureTells, NoResult
<1>2. /\ ClientInv /\ ClientInv' /\ TrustInv /\ SoftFailureTells /\ [Next]_vars
      => SoftFailureTells'
  BY EveryStepAllowed, AllowedTells DEF ClientInv
<1>3. ClientInv /\ SoftFailureTells => RetriableKeepsSession
  <2> SUFFICES ASSUME ClientInv, SoftFailureTells PROVE RetriableKeepsSession
    OBVIOUS
  <2>1. \A err, code : IsTransferRetriable(err, code) => ~IsSessionDead(err)
    BY DEF IsTransferRetriable, IsSessionDead, SessionDeadErrors
  <2> QED BY <2>1, Before DEF RetriableKeepsSession, SoftFailureTells
<1> QED BY <1>1, <1>2, <1>3, ClientInvariant, TrustInvariant, PTL DEF Spec

=============================================================================

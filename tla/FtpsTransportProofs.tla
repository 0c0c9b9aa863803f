------------------------ MODULE FtpsTransportProofs ------------------------
(***************************************************************************)
(* The transport's invariant, for any certificates and error codes and any *)
(* order of calls.  Accounted(t) is the invariant of one transport value;  *)
(* each method's operator preserves it (the lemmas), so every action of    *)
(* TransportSpec does.  Sound(t) says besides that no wrapper has been     *)
(* overwritten, which every method preserves but a second upgrade of a     *)
(* data connection: FtpsClientProofs builds on it.                         *)
(*                                                                         *)
(* The methods are taken apart into updates of single fields, SetXxx, kept *)
(* opaque: the provers then reason about named values and not about nested *)
(* EXCEPT expressions.                                                     *)
(***************************************************************************)
EXTENDS FtpsTransport, TLAPS

SoundChannel(ch) == ch \in Channel /\ WrapperHasSocket(ch)

Accounted(t) ==
    /\ t \in Transport
    /\ SoundChannel(t.control)
    /\ SoundChannel(t.data)
    /\ t.sockets = Held(t.control) + Held(t.data)
    /\ t.wrappers = Wrapped(t.control) + Wrapped(t.data) + t.overwritten

Sound(t) == Accounted(t) /\ t.overwritten = 0

\* A channel after connectSocket, and one after a TLS upgrade.
Connected == [tcp |-> TRUE, tls |-> FALSE, up |-> TRUE, peer |-> NoCert]
Secured(cert) == [tcp |-> TRUE, tls |-> TRUE, up |-> TRUE, peer |-> cert]

SetControl(t, ch) == [t EXCEPT !.control = ch]
SetData(t, ch) == [t EXCEPT !.data = ch]
SetTlsError(t, e) == [t EXCEPT !.lastTlsError = e]
SetNsapi(t, n) == [t EXCEPT !.lastNsapiError = n]
SetSockets(t, n) == [t EXCEPT !.sockets = n]
SetWrappers(t, n) == [t EXCEPT !.wrappers = n]
SetOverwritten(t, n) == [t EXCEPT !.overwritten = n]

-----------------------------------------------------------------------------
(* Channels. *)

\* Two channels with the same fields are the same.
LEMMA SameChannel ==
    ASSUME NEW a \in Channel, NEW b \in Channel,
           a.tcp = b.tcp, a.tls = b.tls, a.up = b.up, a.peer = b.peer
    PROVE  a = b
BY DEF Channel

\* The closed channel satisfies the invariant and holds no socket.
LEMMA ClosedSound ==
    /\ SoundChannel(Closed) /\ Held(Closed) = 0 /\ Wrapped(Closed) = 0
    /\ ~Closed.tcp
<1>1. Closed \in Channel
  BY DEF Channel, Closed
<1>2. WrapperHasSocket(Closed)
  BY DEF Closed, WrapperHasSocket
<1>3. Held(Closed) = 0 /\ Wrapped(Closed) = 0 /\ ~Closed.tcp
  BY DEF Held, Wrapped, Closed
<1> QED BY <1>1, <1>2, <1>3 DEF SoundChannel

\* So does a connected one, which holds one and no wrapper.
LEMMA ConnectedSound ==
    SoundChannel(Connected) /\ Held(Connected) = 1 /\ Wrapped(Connected) = 0
<1>1. Connected \in Channel
  BY DEF Channel, Connected
<1>2. WrapperHasSocket(Connected)
  BY DEF Connected, WrapperHasSocket
<1>3. Held(Connected) = 1 /\ Wrapped(Connected) = 0
  BY DEF Held, Wrapped, Connected
<1> QED BY <1>1, <1>2, <1>3 DEF SoundChannel

\* So does one with TLS and a peer, which holds one of each.
LEMMA SecuredSound ==
    ASSUME NEW cert \in Certs
    PROVE  /\ SoundChannel(Secured(cert)) /\ Held(Secured(cert)) = 1
           /\ Wrapped(Secured(cert)) = 1
<1>1. Secured(cert) \in Channel
  BY DEF Channel, Secured
<1>2. WrapperHasSocket(Secured(cert))
  BY TransportAssumption DEF Secured, WrapperHasSocket
<1>3. Held(Secured(cert)) = 1 /\ Wrapped(Secured(cert)) = 1
  BY DEF Held, Wrapped, Secured
<1> QED BY <1>1, <1>2, <1>3 DEF SoundChannel

\* A channel holds one socket or none, and one wrapper or none.
LEMMA HeldRange ==
    ASSUME NEW ch
    PROVE  /\ Held(ch) \in {0, 1}
           /\ ch.tcp => Held(ch) = 1
           /\ ~ch.tcp => Held(ch) = 0
           /\ Wrapped(ch) \in {0, 1}
           /\ ~ch.tls => Wrapped(ch) = 0
BY DEF Held, Wrapped

\* Releasing the pair and clearing the flag leaves a closed channel.
LEMMA ReleasedAndDown ==
    ASSUME NEW ch \in Channel
    PROVE  [Released(ch) EXCEPT !.up = FALSE] = Closed
<1> DEFINE r == [Released(ch) EXCEPT !.up = FALSE]
<1>1. ch.up \in BOOLEAN
  BY DEF Channel
<1>2. Released(ch) \in Channel
  BY ClosedSound, <1>1 DEF Released, Channel, SoundChannel
<1>3. r \in Channel
  BY <1>2 DEF Channel
<1>4. ~r.tcp /\ ~r.tls /\ ~r.up /\ r.peer = NoCert
  BY DEF Released, Closed
<1>5. ~Closed.tcp /\ ~Closed.tls /\ ~Closed.up /\ Closed.peer = NoCert
  BY DEF Closed
<1>6. r.tcp \in BOOLEAN /\ r.tls \in BOOLEAN /\ r.up \in BOOLEAN
  BY <1>3 DEF Channel
<1> HIDE DEF r
<1>7. r.tcp = Closed.tcp /\ r.tls = Closed.tls /\ r.up = Closed.up
  BY <1>4, <1>5, <1>6, ClosedSound DEF SoundChannel, Channel
<1> QED BY <1>3, <1>4, <1>5, <1>7, ClosedSound, SameChannel DEF SoundChannel, r

\* Clearing the pointer of a closed channel changes nothing.
LEMMA TcpDown == [Closed EXCEPT !.tcp = FALSE] = Closed
<1> DEFINE r == [Closed EXCEPT !.tcp = FALSE]
<1>1. r \in Channel
  BY ClosedSound DEF SoundChannel, Channel
<1>2. r.tcp = Closed.tcp /\ r.tls = Closed.tls /\ r.up = Closed.up /\ r.peer = Closed.peer
  BY DEF Closed
<1> HIDE DEF r
<1> QED BY <1>1, <1>2, ClosedSound, SameChannel DEF SoundChannel, r

\* A closed channel that gets its socket, then its flag, is connected.
LEMMA TcpUp ==
    /\ [Closed EXCEPT !.tcp = TRUE] \in Channel
    /\ [[Closed EXCEPT !.tcp = TRUE] EXCEPT !.up = TRUE] = Connected
<1> DEFINE q == [Closed EXCEPT !.tcp = TRUE]
           r == [q EXCEPT !.up = TRUE]
<1>1. q \in Channel /\ q.tcp /\ ~q.tls /\ q.peer = NoCert
  BY ClosedSound DEF SoundChannel, Channel, Closed
<1> HIDE DEF q
<1>2. r \in Channel /\ r.tcp = q.tcp /\ r.tls = q.tls /\ r.up = TRUE /\ r.peer = q.peer
  BY <1>1 DEF Channel
<1>3. /\ Connected.tcp = TRUE /\ Connected.tls = FALSE /\ Connected.up = TRUE
      /\ Connected.peer = NoCert
  BY DEF Connected
<1>4. q.tcp = TRUE /\ q.tls = FALSE
  BY <1>1 DEF Channel
<1> HIDE DEF r
<1>5. r = Connected
  BY <1>1, <1>2, <1>3, <1>4, ConnectedSound, SameChannel DEF SoundChannel
<1> QED BY <1>1, <1>5 DEF q, r

\* A channel with a socket that gets a wrapper and a peer is secured; one that
\* loses its wrapper is connected.
LEMMA TlsUpOrDown ==
    ASSUME NEW ch, SoundChannel(ch), ch.tcp, NEW cert \in Certs \cup {NoCert}
    PROVE  /\ [[ch EXCEPT !.tls = TRUE] EXCEPT !.peer = cert] = Secured(cert)
           /\ [[ch EXCEPT !.tls = FALSE] EXCEPT !.peer = NoCert] = Connected
<1>1. ch \in Channel /\ ch.tcp = TRUE /\ ch.up = TRUE
  BY DEF SoundChannel, WrapperHasSocket, Channel
<1>2. ASSUME NEW b \in BOOLEAN, NEW p \in Certs \cup {NoCert}
      PROVE  LET q == [ch EXCEPT !.tls = b]
                 r == [q EXCEPT !.peer = p]
             IN  /\ r \in Channel /\ r.tcp = TRUE /\ r.tls = b
                 /\ r.up = TRUE /\ r.peer = p
  <2> DEFINE q == [ch EXCEPT !.tls = b]
  <2>1. q \in Channel /\ q.tcp = TRUE /\ q.tls = b /\ q.up = TRUE
    BY <1>1 DEF Channel
  <2> HIDE DEF q
  <2>2. /\ [q EXCEPT !.peer = p] \in Channel /\ [q EXCEPT !.peer = p].tcp = TRUE
        /\ [q EXCEPT !.peer = p].tls = b /\ [q EXCEPT !.peer = p].up = TRUE
        /\ [q EXCEPT !.peer = p].peer = p
    BY <2>1 DEF Channel
  <2> QED BY <2>2 DEF q
<1>3. /\ Secured(cert) \in Channel /\ Secured(cert).tcp = TRUE
      /\ Secured(cert).tls = TRUE /\ Secured(cert).up = TRUE
      /\ Secured(cert).peer = cert
  BY DEF Secured, Channel
<1>4. /\ Connected \in Channel /\ Connected.tcp = TRUE /\ Connected.tls = FALSE
      /\ Connected.up = TRUE /\ Connected.peer = NoCert
  BY DEF Connected, Channel
<1> DEFINE up == [[ch EXCEPT !.tls = TRUE] EXCEPT !.peer = cert]
           down == [[ch EXCEPT !.tls = FALSE] EXCEPT !.peer = NoCert]
<1>5. /\ up \in Channel /\ up.tcp = TRUE /\ up.tls = TRUE
      /\ up.up = TRUE /\ up.peer = cert
  BY <1>2
<1>6. /\ down \in Channel /\ down.tcp = TRUE /\ down.tls = FALSE
      /\ down.up = TRUE /\ down.peer = NoCert
  BY <1>2
<1> HIDE DEF up, down
<1>7. up = Secured(cert)
  BY <1>3, <1>5, SameChannel
<1>8. down = Connected
  BY <1>4, <1>6, SameChannel
<1> QED BY <1>7, <1>8 DEF up, down

-----------------------------------------------------------------------------
(* Fields. *)

\* Each update changes its field and keeps the others and the type.
LEMMA SetControlFields ==
    ASSUME NEW t \in Transport, NEW ch \in Channel
    PROVE  /\ SetControl(t, ch) \in Transport
           /\ SetControl(t, ch).control = ch
           /\ SetControl(t, ch).data = t.data
           /\ SetControl(t, ch).sockets = t.sockets
           /\ SetControl(t, ch).wrappers = t.wrappers
           /\ SetControl(t, ch).overwritten = t.overwritten
BY DEF Transport, SetControl

LEMMA SetDataFields ==
    ASSUME NEW t \in Transport, NEW ch \in Channel
    PROVE  /\ SetData(t, ch) \in Transport
           /\ SetData(t, ch).control = t.control
           /\ SetData(t, ch).data = ch
           /\ SetData(t, ch).sockets = t.sockets
           /\ SetData(t, ch).wrappers = t.wrappers
           /\ SetData(t, ch).overwritten = t.overwritten
BY DEF Transport, SetData

LEMMA SetTlsErrorFields ==
    ASSUME NEW t \in Transport, NEW e \in TlsCodes
    PROVE  /\ SetTlsError(t, e) \in Transport
           /\ SetTlsError(t, e).control = t.control
           /\ SetTlsError(t, e).data = t.data
           /\ SetTlsError(t, e).sockets = t.sockets
           /\ SetTlsError(t, e).wrappers = t.wrappers
           /\ SetTlsError(t, e).overwritten = t.overwritten
BY DEF Transport, SetTlsError

LEMMA SetNsapiFields ==
    ASSUME NEW t \in Transport, NEW n \in NsapiCodes \cup {0}
    PROVE  /\ SetNsapi(t, n) \in Transport
           /\ SetNsapi(t, n).control = t.control
           /\ SetNsapi(t, n).data = t.data
           /\ SetNsapi(t, n).sockets = t.sockets
           /\ SetNsapi(t, n).wrappers = t.wrappers
           /\ SetNsapi(t, n).overwritten = t.overwritten
BY DEF Transport, SetNsapi

LEMMA SetSocketsFields ==
    ASSUME NEW t \in Transport, NEW k \in Nat
    PROVE  /\ SetSockets(t, k) \in Transport
           /\ SetSockets(t, k).control = t.control
           /\ SetSockets(t, k).data = t.data
           /\ SetSockets(t, k).sockets = k
           /\ SetSockets(t, k).wrappers = t.wrappers
           /\ SetSockets(t, k).overwritten = t.overwritten
BY DEF Transport, SetSockets

LEMMA SetWrappersFields ==
    ASSUME NEW t \in Transport, NEW k \in Nat
    PROVE  /\ SetWrappers(t, k) \in Transport
           /\ SetWrappers(t, k).control = t.control
           /\ SetWrappers(t, k).data = t.data
           /\ SetWrappers(t, k).sockets = t.sockets
           /\ SetWrappers(t, k).wrappers = k
           /\ SetWrappers(t, k).overwritten = t.overwritten
BY DEF Transport, SetWrappers

LEMMA SetOverwrittenFields ==
    ASSUME NEW t \in Transport, NEW k \in Nat
    PROVE  /\ SetOverwritten(t, k) \in Transport
           /\ SetOverwritten(t, k).control = t.control
           /\ SetOverwritten(t, k).data = t.data
           /\ SetOverwritten(t, k).sockets = t.sockets
           /\ SetOverwritten(t, k).wrappers = t.wrappers
           /\ SetOverwritten(t, k).overwritten = k
BY DEF Transport, SetOverwritten

\* The types of the fields.
LEMMA Fields ==
    ASSUME NEW t \in Transport
    PROVE  /\ t.control \in Channel /\ t.data \in Channel
           /\ t.lastTlsError \in TlsCodes
           /\ t.lastNsapiError \in NsapiCodes \cup {0} /\ t.sockets \in Nat
           /\ t.wrappers \in Nat /\ t.overwritten \in Nat
BY DEF Transport

-----------------------------------------------------------------------------
(* The methods. *)

\* A new transport is sound.
LEMMA NewTransportSound ==
    Sound(NewTransport) /\ NewTransport.control = Closed /\ NewTransport.data = Closed
<1>1. NewTransport \in Transport
  BY ClosedSound DEF NewTransport, Transport, TlsCodes, SoundChannel
<1>2. /\ NewTransport.control = Closed /\ NewTransport.data = Closed
      /\ NewTransport.sockets = 0 /\ NewTransport.wrappers = 0
      /\ NewTransport.overwritten = 0
  BY DEF NewTransport
<1> QED BY <1>1, <1>2, ClosedSound DEF Sound, Accounted

\* closeData() closes the data channel, deletes its wrapper and keeps the
\* control channel.
LEMMA CloseDataAccounted ==
    ASSUME NEW t, Accounted(t)
    PROVE  /\ Accounted(CloseData(t))
           /\ CloseData(t).data = Closed
           /\ CloseData(t).control = t.control
           /\ CloseData(t).overwritten = t.overwritten
<1> DEFINE k == t.sockets - Held(t.data)
           w == t.wrappers - Wrapped(t.data)
           u == SetData(t, Closed)
           v == SetSockets(u, k)
           r == CloseData(t)
<1>1. t \in Transport /\ t.data \in Channel /\ Closed \in Channel
  BY ClosedSound DEF Accounted, SoundChannel
<1>2. r = SetWrappers(v, w)
  BY <1>1, ReleasedAndDown DEF CloseData, SetSockets, SetData, SetWrappers
<1>3. k = Held(t.control) + Held(Closed) /\ k \in Nat
  BY ClosedSound, HeldRange DEF Accounted
<1>4. w = Wrapped(t.control) + Wrapped(Closed) + t.overwritten /\ w \in Nat
  BY <1>1, ClosedSound, HeldRange, Fields DEF Accounted
<1>5. /\ u \in Transport /\ u.control = t.control /\ u.data = Closed
      /\ u.overwritten = t.overwritten
  BY <1>1, SetDataFields
<1> HIDE DEF k, u, w
<1>6. /\ v \in Transport /\ v.control = t.control /\ v.data = Closed
      /\ v.sockets = k /\ v.overwritten = t.overwritten
  BY <1>3, <1>5, SetSocketsFields
<1> HIDE DEF v
<1>7. /\ r \in Transport /\ r.control = t.control /\ r.data = Closed
      /\ r.sockets = k /\ r.wrappers = w /\ r.overwritten = t.overwritten
  BY <1>2, <1>4, <1>6, SetWrappersFields
<1> HIDE DEF r
<1>8. Accounted(r)
  BY <1>3, <1>4, <1>7, ClosedSound DEF Accounted
<1> QED BY <1>7, <1>8 DEF r

LEMMA CloseDataSound ==
    ASSUME NEW t, Sound(t)
    PROVE  /\ Sound(CloseData(t))
           /\ CloseData(t).data = Closed
           /\ CloseData(t).control = t.control
BY CloseDataAccounted DEF Sound

\* closeControl(), the same for the control channel.
LEMMA CloseControlAccounted ==
    ASSUME NEW t, Accounted(t)
    PROVE  /\ Accounted(CloseControl(t))
           /\ CloseControl(t).control = Closed
           /\ CloseControl(t).data = t.data
           /\ CloseControl(t).overwritten = t.overwritten
<1> DEFINE k == t.sockets - Held(t.control)
           w == t.wrappers - Wrapped(t.control)
           u == SetControl(t, Closed)
           v == SetSockets(u, k)
           r == CloseControl(t)
<1>1. t \in Transport /\ t.control \in Channel /\ Closed \in Channel
  BY ClosedSound DEF Accounted, SoundChannel
<1>2. r = SetWrappers(v, w)
  BY <1>1, ReleasedAndDown DEF CloseControl, SetSockets, SetControl, SetWrappers
<1>3. k = Held(Closed) + Held(t.data) /\ k \in Nat
  BY ClosedSound, HeldRange DEF Accounted
<1>4. w = Wrapped(Closed) + Wrapped(t.data) + t.overwritten /\ w \in Nat
  BY <1>1, ClosedSound, HeldRange, Fields DEF Accounted
<1>5. /\ u \in Transport /\ u.control = Closed /\ u.data = t.data
      /\ u.overwritten = t.overwritten
  BY <1>1, SetControlFields
<1> HIDE DEF k, u, w
<1>6. /\ v \in Transport /\ v.control = Closed /\ v.data = t.data
      /\ v.sockets = k /\ v.overwritten = t.overwritten
  BY <1>3, <1>5, SetSocketsFields
<1> HIDE DEF v
<1>7. /\ r \in Transport /\ r.control = Closed /\ r.data = t.data
      /\ r.sockets = k /\ r.wrappers = w /\ r.overwritten = t.overwritten
  BY <1>2, <1>4, <1>6, SetWrappersFields
<1> HIDE DEF r
<1>8. Accounted(r)
  BY <1>3, <1>4, <1>7, ClosedSound DEF Accounted
<1> QED BY <1>7, <1>8 DEF r

\* closeAll() closes both and leaves no socket open, and no wrapper but those
\* that have been overwritten.
LEMMA CloseAllAccounted ==
    ASSUME NEW t, Accounted(t)
    PROVE  /\ Accounted(CloseAll(t))
           /\ CloseAll(t).control = Closed
           /\ CloseAll(t).data = Closed
           /\ CloseAll(t).sockets = 0
           /\ CloseAll(t).wrappers = t.overwritten
           /\ CloseAll(t).overwritten = t.overwritten
<1>1. /\ Accounted(CloseData(t)) /\ CloseData(t).data = Closed
      /\ CloseData(t).overwritten = t.overwritten
  BY CloseDataAccounted
<1>2. CloseAll(t) = CloseControl(CloseData(t))
  BY DEF CloseAll
<1>3. /\ Accounted(CloseAll(t)) /\ CloseAll(t).control = Closed
      /\ CloseAll(t).data = Closed /\ CloseAll(t).overwritten = t.overwritten
  BY <1>1, <1>2, CloseControlAccounted
<1>4. t.overwritten \in Nat
  BY Fields DEF Accounted
<1>5. CloseAll(t).sockets = 0 /\ CloseAll(t).wrappers = t.overwritten
  BY <1>3, <1>4, ClosedSound DEF Accounted
<1> QED BY <1>3, <1>5

LEMMA CloseAllSound ==
    ASSUME NEW t, Sound(t)
    PROVE  /\ Sound(CloseAll(t))
           /\ CloseAll(t).control = Closed
           /\ CloseAll(t).data = Closed
           /\ CloseAll(t).sockets = 0
           /\ CloseAll(t).wrappers = 0
           /\ CloseAll(t).overwritten = 0
BY CloseAllAccounted DEF Sound

\* What connectSocket can return.
LEMMA NetResult ==
    ASSUME NEW net \in NetResults
    PROVE  /\ net.code \in NsapiCodes \cup {0}
           /\ net.at \in {"dns", "memory", "open", "connect", "up"}
BY DEF NetResults

\* connectControl(): TCP up or nothing held, the data channel closed.
LEMMA ConnectControlAccounted ==
    ASSUME NEW t, Accounted(t), NEW net \in NetResults
    PROVE  /\ Accounted(ConnectControl(t, net))
           /\ ConnectControl(t, net).data = Closed
           /\ ConnectControl(t, net).control =
                IF ConnectControlOk(net) THEN Connected ELSE Closed
           /\ ConnectControl(t, net).overwritten = t.overwritten
<1> DEFINE all == CloseAll(t)
           o == t.overwritten
           clean == SetTlsError(all, 0)
           r == ConnectControl(t, net)
<1>1. /\ all \in Transport /\ all.control = Closed /\ all.data = Closed
      /\ all.sockets = 0 /\ all.wrappers = o /\ all.overwritten = o
      /\ o \in Nat
  BY CloseAllAccounted, Fields DEF Accounted
<1>2. /\ clean \in Transport /\ clean.control = Closed /\ clean.data = Closed
      /\ clean.sockets = 0 /\ clean.wrappers = o /\ clean.overwritten = o
  BY <1>1, SetTlsErrorFields DEF TlsCodes
<1>3. r = IF net.at = "up"
          THEN [ConnectSocket(clean, "control", net) EXCEPT !.control.up = TRUE]
          ELSE ConnectSocket(clean, "control", net)
  BY DEF ConnectControl, ConnectControlOk, SetTlsError
<1> HIDE DEF clean, r, o
<1>4. CASE net.at \in {"dns", "memory"}
  <2>1. r = clean
    BY <1>3, <1>4 DEF ConnectSocket
  <2> QED
    BY <2>1, <1>1, <1>2, <1>4, ClosedSound DEF Accounted, ConnectControlOk, r, o
<1>5. CASE net.at \in {"open", "connect"}
  <2> DEFINE down == [Closed EXCEPT !.tcp = FALSE]
             u == SetControl(clean, Closed)
             v == SetNsapi(u, net.code)
             w == SetSockets(v, 0)
  <2>1. ConnectSocket(clean, "control", net) =
          [clean EXCEPT !.control.tcp = FALSE, !.lastNsapiError = net.code,
                        !.sockets = @ - Held(clean.control)]
    BY <1>5 DEF ConnectSocket
  <2>2. ConnectSocket(clean, "control", net) =
          [clean EXCEPT !.control = down, !.lastNsapiError = net.code,
                        !.sockets = 0]
    BY <2>1, <1>2, ClosedSound
  <2>3. r = w
    BY <2>2, <1>3, <1>5, TcpDown DEF SetControl, SetNsapi, SetSockets
  <2>4. /\ u \in Transport /\ u.control = Closed /\ u.data = Closed
        /\ u.wrappers = o /\ u.overwritten = o
    BY <1>2, SetControlFields, ClosedSound DEF SoundChannel
  <2>5. /\ v \in Transport /\ v.control = Closed /\ v.data = Closed
        /\ v.wrappers = o /\ v.overwritten = o
    BY <2>4, NetResult, SetNsapiFields
  <2> HIDE DEF u, v
  <2>6. /\ w \in Transport /\ w.control = Closed /\ w.data = Closed
        /\ w.sockets = 0 /\ w.wrappers = o /\ w.overwritten = o
    BY <2>5, SetSocketsFields
  <2> HIDE DEF w
  <2> QED
    BY <2>3, <2>6, <1>1, <1>5, ClosedSound DEF Accounted, ConnectControlOk, r, o
<1>6. CASE net.at = "up"
  <2> DEFINE half == [Closed EXCEPT !.tcp = TRUE]
             u == SetControl(clean, half)
             v == SetNsapi(u, 0)
             w == SetSockets(v, 1)
             x == SetControl(w, Connected)
  <2>1. half \in Channel /\ [half EXCEPT !.up = TRUE] = Connected
    BY TcpUp
  <2>2. ConnectSocket(clean, "control", net) =
          [clean EXCEPT !.control.tcp = TRUE, !.lastNsapiError = 0,
                        !.sockets = @ - Held(clean.control) + 1]
    BY <1>6 DEF ConnectSocket
  <2>3. ConnectSocket(clean, "control", net) =
          [clean EXCEPT !.control = half, !.lastNsapiError = 0, !.sockets = 1]
    BY <2>2, <1>2, ClosedSound
  <2>4. ConnectSocket(clean, "control", net) = w
    BY <2>3 DEF SetControl, SetNsapi, SetSockets
  <2> HIDE DEF half
  <2>5. /\ u \in Transport /\ u.control = half /\ u.data = Closed
        /\ u.wrappers = o /\ u.overwritten = o
    BY <1>2, <2>1, SetControlFields
  <2>6. /\ v \in Transport /\ v.control = half /\ v.data = Closed
        /\ v.wrappers = o /\ v.overwritten = o
    BY <2>5, SetNsapiFields
  <2> HIDE DEF u, v
  <2>7. /\ w \in Transport /\ w.control = half /\ w.data = Closed
        /\ w.sockets = 1 /\ w.wrappers = o /\ w.overwritten = o
    BY <2>6, SetSocketsFields
  <2> HIDE DEF w
  <2>8. r = x
    BY <1>3, <1>6, <2>1, <2>4, <2>7 DEF SetControl
  <2>9. /\ x \in Transport /\ x.control = Connected /\ x.data = Closed
        /\ x.sockets = 1 /\ x.wrappers = o /\ x.overwritten = o
    BY <2>7, ConnectedSound, SetControlFields DEF SoundChannel
  <2> HIDE DEF x
  <2> QED
    BY <2>8, <2>9, <1>1, <1>6, ConnectedSound, ClosedSound
       DEF Accounted, ConnectControlOk, r, o
<1> QED BY <1>4, <1>5, <1>6, NetResult

LEMMA ConnectControlSound ==
    ASSUME NEW t, Sound(t), NEW net \in NetResults
    PROVE  /\ Sound(ConnectControl(t, net))
           /\ ConnectControl(t, net).data = Closed
           /\ ConnectControl(t, net).control =
                IF ConnectControlOk(net) THEN Connected ELSE Closed
BY ConnectControlAccounted DEF Sound

\* openDataChannel(): the data channel has TCP or is closed, the control
\* channel is as it was.
LEMMA OpenDataChannelAccounted ==
    ASSUME NEW t, Accounted(t), NEW net \in NetResults
    PROVE  /\ Accounted(OpenDataChannel(t, net))
           /\ OpenDataChannel(t, net).control = t.control
           /\ OpenDataChannel(t, net).data =
                IF OpenDataChannelOk(net) THEN Connected ELSE Closed
           /\ OpenDataChannel(t, net).overwritten = t.overwritten
<1> DEFINE clean == CloseData(t)
           n == Held(t.control)
           o == t.overwritten
           k == Wrapped(t.control) + o
           r == OpenDataChannel(t, net)
<1>1. /\ Accounted(clean) /\ clean.control = t.control /\ clean.data = Closed
      /\ clean.overwritten = o /\ o \in Nat
  BY CloseDataAccounted, Fields DEF Accounted
<1>2. /\ clean \in Transport /\ clean.control = t.control
      /\ clean.data = Closed /\ clean.sockets = n /\ n \in 0 .. 1
      /\ clean.wrappers = k /\ clean.overwritten = o
  BY <1>1, ClosedSound, HeldRange DEF Accounted
<1>3. r = IF net.at = "up"
          THEN [ConnectSocket(clean, "data", net) EXCEPT !.data.up = TRUE]
          ELSE ConnectSocket(clean, "data", net)
  BY DEF OpenDataChannel, OpenDataChannelOk
<1>4. SoundChannel(t.control)
  BY DEF Accounted
<1>5. n = Held(t.control) /\ k = Wrapped(t.control) + o /\ o = t.overwritten
  OBVIOUS
<1>6. clean.sockets - Held(clean.data) = n
  BY <1>2, ClosedSound
<1>7. Wrapped(t.control) \in {0, 1}
  BY HeldRange
<1> HIDE DEF clean, n, r, o, k
<1>8. CASE net.at \in {"dns", "memory"}
  <2>1. r = clean
    BY <1>3, <1>8 DEF ConnectSocket
  <2> QED BY <2>1, <1>1, <1>5, <1>8 DEF OpenDataChannelOk, r
<1>9. CASE net.at \in {"open", "connect"}
  <2> DEFINE down == [Closed EXCEPT !.tcp = FALSE]
             u == SetData(clean, Closed)
             v == SetNsapi(u, net.code)
             w == SetSockets(v, n)
  <2>1. ConnectSocket(clean, "data", net) =
          [clean EXCEPT !.data.tcp = FALSE, !.lastNsapiError = net.code,
                        !.sockets = clean.sockets - Held(clean.data)]
    BY <1>9 DEF ConnectSocket
  <2>2. ConnectSocket(clean, "data", net) =
          [clean EXCEPT !.data = down, !.lastNsapiError = net.code,
                        !.sockets = n]
    BY <2>1, <1>2, <1>6
  <2>3. r = w
    BY <2>2, <1>3, <1>9, TcpDown DEF SetData, SetNsapi, SetSockets
  <2>4. /\ u \in Transport /\ u.control = t.control /\ u.data = Closed
        /\ u.wrappers = k /\ u.overwritten = o
    BY <1>2, SetDataFields, ClosedSound DEF SoundChannel
  <2>5. /\ v \in Transport /\ v.control = t.control /\ v.data = Closed
        /\ v.wrappers = k /\ v.overwritten = o
    BY <2>4, NetResult, SetNsapiFields
  <2> HIDE DEF u, v
  <2>6. /\ w \in Transport /\ w.control = t.control /\ w.data = Closed
        /\ w.sockets = n /\ w.wrappers = k /\ w.overwritten = o
    BY <2>5, <1>2, SetSocketsFields
  <2> HIDE DEF w
  <2>7. n = n + Held(Closed) /\ k = Wrapped(t.control) + Wrapped(Closed) + o
    BY <1>1, <1>2, <1>5, <1>7, ClosedSound
  <2> QED
    BY <2>3, <2>6, <2>7, <1>4, <1>5, <1>9, ClosedSound
       DEF Accounted, OpenDataChannelOk, r
<1>10. CASE net.at = "up"
  <2> DEFINE half == [Closed EXCEPT !.tcp = TRUE]
             u == SetData(clean, half)
             v == SetNsapi(u, 0)
             w == SetSockets(v, n + 1)
             x == SetData(w, Connected)
  <2>1. half \in Channel /\ [half EXCEPT !.up = TRUE] = Connected
    BY TcpUp
  <2>2. ConnectSocket(clean, "data", net) =
          [clean EXCEPT !.data.tcp = TRUE, !.lastNsapiError = 0,
                        !.sockets = clean.sockets - Held(clean.data) + 1]
    BY <1>10 DEF ConnectSocket
  <2>3. ConnectSocket(clean, "data", net) =
          [clean EXCEPT !.data = half, !.lastNsapiError = 0, !.sockets = n + 1]
    BY <2>2, <1>2, <1>6
  <2>4. ConnectSocket(clean, "data", net) = w
    BY <2>3 DEF SetData, SetNsapi, SetSockets
  <2> HIDE DEF half
  <2>5. /\ u \in Transport /\ u.control = t.control /\ u.data = half
        /\ u.wrappers = k /\ u.overwritten = o
    BY <1>2, <2>1, SetDataFields
  <2>6. /\ v \in Transport /\ v.control = t.control /\ v.data = half
        /\ v.wrappers = k /\ v.overwritten = o
    BY <2>5, SetNsapiFields
  <2> HIDE DEF u, v
  <2>7. /\ w \in Transport /\ w.control = t.control /\ w.data = half
        /\ w.sockets = n + 1 /\ w.wrappers = k /\ w.overwritten = o
    BY <2>6, <1>2, SetSocketsFields
  <2> HIDE DEF w
  <2>8. r = x
    BY <1>3, <1>10, <2>1, <2>4, <2>7 DEF SetData
  <2>9. /\ x \in Transport /\ x.control = t.control /\ x.data = Connected
        /\ x.sockets = n + Held(Connected) /\ x.wrappers = k
        /\ x.overwritten = o
    BY <2>7, ConnectedSound, SetDataFields DEF SoundChannel
  <2> HIDE DEF x
  <2>10. k = Wrapped(t.control) + Wrapped(Connected) + o
    BY <1>1, <1>5, <1>7, ConnectedSound
  <2> QED
    BY <2>8, <2>9, <2>10, <1>4, <1>5, <1>10, ConnectedSound
       DEF Accounted, OpenDataChannelOk, r
<1> QED BY <1>8, <1>9, <1>10, NetResult

LEMMA OpenDataChannelSound ==
    ASSUME NEW t, Sound(t), NEW net \in NetResults
    PROVE  /\ Sound(OpenDataChannel(t, net))
           /\ OpenDataChannel(t, net).control = t.control
           /\ OpenDataChannel(t, net).data =
                IF OpenDataChannelOk(net) THEN Connected ELSE Closed
BY OpenDataChannelAccounted DEF Sound

\* What a TLS upgrade can return.
LEMMA Handshake ==
    ASSUME NEW tls, NEW h \in Handshakes(tls)
    PROVE  /\ h.at \in {"memory", "config", "auth", "net", "done", "opaque"}
           /\ h.at \in {"done", "opaque"} =>
                /\ h.cert \in Certs
                /\ VerifiesChain(tls) => tls.ca /\ h.cert \in SignedCerts
           /\ TlsErrorOf(h) \in TlsCodes
BY DEF Handshakes, TlsErrorOf, TlsCodes

\* An update of two fields of a channel, as one of the channel.
LEMMA ControlUpdates ==
    ASSUME NEW t \in Transport, SoundChannel(t.control), t.control.tcp
    PROVE  /\ [t EXCEPT !.control.tls = FALSE, !.control.peer = NoCert]
                = SetControl(t, Connected)
           /\ \A cert \in Certs :
                [t EXCEPT !.control.tls = TRUE, !.control.peer = cert]
                   = SetControl(t, Secured(cert))
<1>1. ASSUME NEW b \in {TRUE, FALSE}, NEW p
      PROVE  [t EXCEPT !.control.tls = b, !.control.peer = p]
                = SetControl(t, [[t.control EXCEPT !.tls = b] EXCEPT !.peer = p])
  <2> DEFINE q == [t.control EXCEPT !.tls = b]
             u == [t EXCEPT !.control = q]
  <2>1. u.control = q
    BY DEF Transport
  <2>2. [t EXCEPT !.control.tls = b, !.control.peer = p]
          = [u EXCEPT !.control = [u.control EXCEPT !.peer = p]]
    OBVIOUS
  <2> HIDE DEF q
  <2>3. [u EXCEPT !.control = [q EXCEPT !.peer = p]]
          = [t EXCEPT !.control = [q EXCEPT !.peer = p]]
    OBVIOUS
  <2> QED BY <2>1, <2>2, <2>3 DEF SetControl, q
<1>2. [[t.control EXCEPT !.tls = FALSE] EXCEPT !.peer = NoCert] = Connected
  BY TlsUpOrDown
<1>3. \A cert \in Certs :
        [[t.control EXCEPT !.tls = TRUE] EXCEPT !.peer = cert] = Secured(cert)
  BY TlsUpOrDown
<1> QED BY <1>1, <1>2, <1>3

LEMMA DataUpdates ==
    ASSUME NEW t \in Transport, SoundChannel(t.data), t.data.tcp
    PROVE  /\ [t EXCEPT !.data.tls = FALSE, !.data.peer = NoCert]
                = SetData(t, Connected)
           /\ \A cert \in Certs :
                [t EXCEPT !.data.tls = TRUE, !.data.peer = cert]
                   = SetData(t, Secured(cert))
<1>1. ASSUME NEW b \in {TRUE, FALSE}, NEW p
      PROVE  [t EXCEPT !.data.tls = b, !.data.peer = p]
                = SetData(t, [[t.data EXCEPT !.tls = b] EXCEPT !.peer = p])
  <2> DEFINE q == [t.data EXCEPT !.tls = b]
             u == [t EXCEPT !.data = q]
  <2>1. u.data = q
    BY DEF Transport
  <2>2. [t EXCEPT !.data.tls = b, !.data.peer = p]
          = [u EXCEPT !.data = [u.data EXCEPT !.peer = p]]
    OBVIOUS
  <2> HIDE DEF q
  <2>3. [u EXCEPT !.data = [q EXCEPT !.peer = p]]
          = [t EXCEPT !.data = [q EXCEPT !.peer = p]]
    OBVIOUS
  <2> QED BY <2>1, <2>2, <2>3 DEF SetData, q
<1>2. [[t.data EXCEPT !.tls = FALSE] EXCEPT !.peer = NoCert] = Connected
  BY TlsUpOrDown
<1>3. \A cert \in Certs :
        [[t.data EXCEPT !.tls = TRUE] EXCEPT !.peer = cert] = Secured(cert)
  BY TlsUpOrDown
<1> QED BY <1>1, <1>2, <1>3

\* upgradeControlToTls(): a success puts TLS with the certificate of the
\* handshake on the connection; the data channel is as it was.
LEMMA UpgradeControlAccounted ==
    ASSUME NEW t, Accounted(t), NEW tls \in TlsConfig, NEW h \in Handshakes(tls)
    PROVE  /\ Accounted(UpgradeControlToTls(t, tls, h))
           /\ UpgradeControlToTls(t, tls, h).data = t.data
           /\ UpgradeControlToTls(t, tls, h).control \in
                {t.control, Closed, Connected, Secured(h.cert)}
           /\ UpgradeControlToTlsOk(t, tls, h) =>
                /\ h.cert \in Certs
                /\ UpgradeControlToTls(t, tls, h).control = Secured(h.cert)
           /\ UpgradeControlToTls(t, tls, h).overwritten = t.overwritten
<1> DEFINE r == UpgradeControlToTls(t, tls, h)
           ok == UpgradeControlToTlsOk(t, tls, h)
           e == TlsErrorOf(h)
           w == t.wrappers - Wrapped(t.control)
           u == SetControl(t, Connected)
           bare == SetWrappers(u, w)
           attempted == SetTlsError(bare, e)
<1>1. t \in Transport /\ t.control \in Channel /\ e \in TlsCodes
  BY Fields, Handshake DEF Accounted
<1>2. /\ SoundChannel(t.control) /\ SoundChannel(t.data)
      /\ t.sockets = Held(t.control) + Held(t.data)
      /\ t.wrappers = Wrapped(t.control) + Wrapped(t.data) + t.overwritten
      /\ t.wrappers \in Nat /\ t.overwritten \in Nat
  BY Fields DEF Accounted
<1>3. ok => t.control.tcp /\ h.at \in {"done", "opaque"}
  BY DEF UpgradeControlToTlsOk
<1>4. CASE ~t.control.tcp
  <2>1. r = t
    BY <1>4 DEF UpgradeControlToTls
  <2> QED BY <1>3, <1>4, <2>1
<1>5. CASE t.control.tcp
  <2>1. [t EXCEPT !.control.tls = FALSE, !.control.peer = NoCert] = u
    BY <1>1, <1>2, <1>5, ControlUpdates
  <2>2. [t EXCEPT !.control.tls = FALSE, !.control.peer = NoCert,
                  !.wrappers = @ - Wrapped(t.control)]
          = [[t EXCEPT !.control.tls = FALSE, !.control.peer = NoCert]
               EXCEPT !.wrappers = @ - Wrapped(t.control)]
    OBVIOUS
  <2>3. /\ u \in Transport /\ u.control = Connected /\ u.data = t.data
        /\ u.sockets = t.sockets /\ u.wrappers = t.wrappers
        /\ u.overwritten = t.overwritten
    BY <1>1, ConnectedSound, SetControlFields DEF SoundChannel
  <2> HIDE DEF u
  <2> DEFINE b == [t EXCEPT !.control.tls = FALSE, !.control.peer = NoCert,
                            !.wrappers = @ - Wrapped(t.control)]
             a == [b EXCEPT !.lastTlsError = e]
             s == [a EXCEPT !.control.tls = TRUE, !.control.peer = h.cert,
                            !.wrappers = @ + 1]
  <2>4. /\ h.at \in {"memory", "config"} => r = b
        /\ h.at \notin {"memory", "config"} /\ ok => r = s
        /\ h.at \notin {"memory", "config"} /\ ~ok => r = CloseControl(a)
    <3>1. CASE h.at \in {"memory", "config"}
      BY <1>5, <3>1 DEF UpgradeControlToTls
    <3>2. CASE h.at \notin {"memory", "config"}
      BY <1>5, <3>2 DEF UpgradeControlToTls
    <3> QED BY <3>1, <3>2
  <2>5. b = bare
    BY <2>1, <2>2, <2>3 DEF SetWrappers
  <2> HIDE DEF b
  <2>6. a = attempted
    BY <2>5 DEF SetTlsError
  <2> HIDE DEF a
  <2>7. /\ h.at \in {"memory", "config"} => r = bare
        /\ h.at \notin {"memory", "config"} /\ ok =>
             r = [attempted EXCEPT !.control.tls = TRUE,
                                   !.control.peer = h.cert, !.wrappers = @ + 1]
        /\ h.at \notin {"memory", "config"} /\ ~ok =>
             r = CloseControl(attempted)
    <3>1. s = [attempted EXCEPT !.control.tls = TRUE, !.control.peer = h.cert,
                                !.wrappers = @ + 1]
      BY <2>6
    <3> HIDE DEF s
    <3> QED BY <2>4, <2>5, <2>6, <3>1, Zenon
  <2>8. w = Wrapped(Connected) + Wrapped(t.data) + t.overwritten /\ w \in Nat
    BY <1>2, ConnectedSound, HeldRange
  <2> HIDE DEF w, r, ok, e
  <2>9. /\ bare \in Transport /\ bare.control = Connected /\ bare.data = t.data
        /\ bare.sockets = t.sockets /\ bare.wrappers = w
        /\ bare.overwritten = t.overwritten
    BY <2>3, <2>8, SetWrappersFields
  <2> HIDE DEF bare
  <2>10. t.sockets = Held(Connected) + Held(t.data)
    BY <1>2, <1>5, ConnectedSound, HeldRange
  <2>11. Accounted(bare)
    BY <1>2, <2>8, <2>9, <2>10, ConnectedSound DEF Accounted
  <2>12. /\ attempted \in Transport /\ attempted.control = Connected
         /\ attempted.data = t.data /\ attempted.sockets = t.sockets
         /\ attempted.wrappers = w /\ attempted.overwritten = t.overwritten
    BY <1>1, <2>9, SetTlsErrorFields DEF e
  <2> HIDE DEF attempted
  <2>13. Accounted(attempted)
    BY <1>2, <2>8, <2>10, <2>12, ConnectedSound DEF Accounted
  <2>14. /\ Accounted(CloseControl(attempted))
         /\ CloseControl(attempted).control = Closed
         /\ CloseControl(attempted).data = t.data
         /\ CloseControl(attempted).overwritten = t.overwritten
    BY <2>12, <2>13, CloseControlAccounted
  <2>15. CASE h.at \in {"memory", "config"}
    BY <1>3, <2>7, <2>9, <2>11, <2>15 DEF r, ok
  <2>16. CASE h.at \notin {"memory", "config"} /\ ~ok
    BY <2>7, <2>14, <2>16 DEF r, ok
  <2>17. CASE h.at \notin {"memory", "config"} /\ ok
    <3> DEFINE v == SetControl(attempted, Secured(h.cert))
               x == SetWrappers(v, w + 1)
    <3>1. h.cert \in Certs
      BY <1>3, <2>17, Handshake DEF ok
    <3>2. [attempted EXCEPT !.control.tls = TRUE, !.control.peer = h.cert] = v
      <4>1. SoundChannel(attempted.control) /\ attempted.control.tcp
        BY <2>12, ConnectedSound DEF Connected
      <4> QED BY <2>12, <3>1, <4>1, ControlUpdates
    <3>3. [attempted EXCEPT !.control.tls = TRUE, !.control.peer = h.cert,
                            !.wrappers = @ + 1]
            = [[attempted EXCEPT !.control.tls = TRUE, !.control.peer = h.cert]
                 EXCEPT !.wrappers = @ + 1]
      OBVIOUS
    <3>4. /\ v \in Transport /\ v.control = Secured(h.cert) /\ v.data = t.data
          /\ v.sockets = t.sockets /\ v.wrappers = w
          /\ v.overwritten = t.overwritten
      BY <2>12, <3>1, SecuredSound, SetControlFields DEF SoundChannel
    <3> HIDE DEF v
    <3>5. r = x
      BY <2>7, <2>17, <3>2, <3>3, <3>4 DEF SetWrappers
    <3> DEFINE k == w + 1
    <3>6. k \in Nat
      BY <2>8
    <3> HIDE DEF k
    <3>7. /\ SetWrappers(v, k) \in Transport
           /\ SetWrappers(v, k).control = v.control
           /\ SetWrappers(v, k).data = v.data
           /\ SetWrappers(v, k).sockets = v.sockets
           /\ SetWrappers(v, k).wrappers = k
           /\ SetWrappers(v, k).overwritten = v.overwritten
      BY <3>4, <3>6, SetWrappersFields
    <3>8. /\ x \in Transport /\ x.control = Secured(h.cert) /\ x.data = t.data
          /\ x.sockets = t.sockets /\ x.wrappers = w + 1
          /\ x.overwritten = t.overwritten
      BY <3>4, <3>7 DEF k
    <3> HIDE DEF x
    <3>9. t.sockets = Held(Secured(h.cert)) + Held(t.data)
      BY <2>10, <3>1, SecuredSound, ConnectedSound
    <3>10. w + 1 = Wrapped(Secured(h.cert)) + Wrapped(t.data) + t.overwritten
      BY <1>2, <2>8, <3>1, SecuredSound, ConnectedSound, HeldRange
    <3>11. Accounted(x)
      BY <1>2, <3>1, <3>8, <3>9, <3>10, SecuredSound DEF Accounted
    <3> QED BY <3>1, <3>5, <3>8, <3>11 DEF r
  <2> QED BY <2>15, <2>16, <2>17
<1> QED BY <1>4, <1>5

LEMMA UpgradeControlSound ==
    ASSUME NEW t, Sound(t), NEW tls \in TlsConfig, NEW h \in Handshakes(tls)
    PROVE  /\ Sound(UpgradeControlToTls(t, tls, h))
           /\ UpgradeControlToTls(t, tls, h).data = t.data
           /\ UpgradeControlToTls(t, tls, h).control \in
                {t.control, Closed, Connected, Secured(h.cert)}
           /\ UpgradeControlToTlsOk(t, tls, h) =>
                /\ h.cert \in Certs
                /\ UpgradeControlToTls(t, tls, h).control = Secured(h.cert)
BY UpgradeControlAccounted DEF Sound

\* upgradeDataToTls(): TLS on the data connection, or the data channel closed;
\* the control channel is as it was, and a wrapper that was there is lost.
LEMMA UpgradeDataAccounted ==
    ASSUME NEW t, Accounted(t), NEW tls \in TlsConfig, NEW h \in Handshakes(tls)
    PROVE  /\ Accounted(UpgradeDataToTls(t, tls, h))
           /\ UpgradeDataToTls(t, tls, h).control = t.control
           /\ UpgradeDataToTlsOk(t, tls, h) =>
                /\ h.cert \in Certs
                /\ UpgradeDataToTls(t, tls, h).data = Secured(h.cert)
           /\ t.data.tcp /\ ~UpgradeDataToTlsOk(t, tls, h) =>
                UpgradeDataToTls(t, tls, h).data = Closed
           /\ ~t.data.tls =>
                UpgradeDataToTls(t, tls, h).overwritten = t.overwritten
<1> DEFINE r == UpgradeDataToTls(t, tls, h)
           ok == UpgradeDataToTlsOk(t, tls, h)
           e == TlsErrorOf(h)
           o == t.overwritten + Wrapped(t.data)
           u == SetData(t, Connected)
           bare == SetOverwritten(u, o)
           attempted == SetTlsError(bare, e)
<1>1. t \in Transport /\ t.data \in Channel /\ e \in TlsCodes
  BY Fields, Handshake DEF Accounted
<1>2. /\ SoundChannel(t.control) /\ SoundChannel(t.data)
      /\ t.sockets = Held(t.control) + Held(t.data)
      /\ t.wrappers = Wrapped(t.control) + Wrapped(t.data) + t.overwritten
      /\ t.wrappers \in Nat /\ t.overwritten \in Nat
  BY Fields DEF Accounted
<1>3. t.data.tcp <=> t.data.up
  BY <1>2 DEF SoundChannel, WrapperHasSocket
<1>4. ok => t.data.tcp /\ h.at \in {"done", "opaque"}
  BY DEF UpgradeDataToTlsOk
<1>5. CASE ~t.data.tcp
  <2>1. r = t
    BY <1>5 DEF UpgradeDataToTls
  <2> QED BY <1>4, <1>5, <2>1
<1>6. CASE t.data.tcp
  <2>1. [t EXCEPT !.data.tls = FALSE, !.data.peer = NoCert] = u
    BY <1>1, <1>2, <1>6, DataUpdates
  <2>2. [t EXCEPT !.data.tls = FALSE, !.data.peer = NoCert,
                  !.overwritten = @ + Wrapped(t.data)]
          = [[t EXCEPT !.data.tls = FALSE, !.data.peer = NoCert]
               EXCEPT !.overwritten = @ + Wrapped(t.data)]
    OBVIOUS
  <2>3. /\ u \in Transport /\ u.control = t.control /\ u.data = Connected
        /\ u.sockets = t.sockets /\ u.wrappers = t.wrappers
        /\ u.overwritten = t.overwritten
    BY <1>1, ConnectedSound, SetDataFields DEF SoundChannel
  <2> HIDE DEF u
  <2> DEFINE b == [t EXCEPT !.data.tls = FALSE, !.data.peer = NoCert,
                            !.overwritten = @ + Wrapped(t.data)]
             a == [b EXCEPT !.lastTlsError = e]
             s == [a EXCEPT !.data.tls = TRUE, !.data.peer = h.cert,
                            !.wrappers = @ + 1]
  <2>4. /\ h.at \in {"memory", "config"} => r = CloseData(b)
        /\ h.at \notin {"memory", "config"} /\ ok => r = s
        /\ h.at \notin {"memory", "config"} /\ ~ok => r = CloseData(a)
    <3>1. CASE h.at \in {"memory", "config"}
      BY <1>3, <1>6, <3>1 DEF UpgradeDataToTls
    <3>2. CASE h.at \notin {"memory", "config"}
      BY <1>3, <1>6, <3>2 DEF UpgradeDataToTls
    <3> QED BY <3>1, <3>2
  <2>5. b = bare
    BY <2>1, <2>2, <2>3 DEF SetOverwritten
  <2> HIDE DEF b
  <2>6. a = attempted
    BY <2>5 DEF SetTlsError
  <2> HIDE DEF a
  <2>7. /\ h.at \in {"memory", "config"} => r = CloseData(bare)
        /\ h.at \notin {"memory", "config"} /\ ok =>
             r = [attempted EXCEPT !.data.tls = TRUE, !.data.peer = h.cert,
                                   !.wrappers = @ + 1]
        /\ h.at \notin {"memory", "config"} /\ ~ok =>
             r = CloseData(attempted)
    <3>1. s = [attempted EXCEPT !.data.tls = TRUE, !.data.peer = h.cert,
                                !.wrappers = @ + 1]
      BY <2>6
    <3> HIDE DEF s
    <3> QED BY <2>4, <2>5, <2>6, <3>1, Zenon
  <2>8. /\ t.wrappers = Wrapped(t.control) + Wrapped(Connected) + o
        /\ o \in Nat
        /\ ~t.data.tls => o = t.overwritten
    BY <1>2, ConnectedSound, HeldRange
  <2> HIDE DEF o, r, ok, e
  <2>9. /\ bare \in Transport /\ bare.control = t.control
        /\ bare.data = Connected /\ bare.sockets = t.sockets
        /\ bare.wrappers = t.wrappers /\ bare.overwritten = o
    BY <2>3, <2>8, SetOverwrittenFields
  <2> HIDE DEF bare
  <2>10. t.sockets = Held(t.control) + Held(Connected)
    BY <1>2, <1>6, ConnectedSound, HeldRange
  <2>11. Accounted(bare)
    BY <1>2, <2>8, <2>9, <2>10, ConnectedSound DEF Accounted
  <2>12. /\ attempted \in Transport /\ attempted.control = t.control
         /\ attempted.data = Connected /\ attempted.sockets = t.sockets
         /\ attempted.wrappers = t.wrappers /\ attempted.overwritten = o
    BY <1>1, <2>9, SetTlsErrorFields DEF e
  <2> HIDE DEF attempted
  <2>13. Accounted(attempted)
    BY <1>2, <2>8, <2>10, <2>12, ConnectedSound DEF Accounted
  <2>14. ASSUME NEW c \in {bare, attempted}
         PROVE  /\ Accounted(CloseData(c)) /\ CloseData(c).data = Closed
                /\ CloseData(c).control = t.control
                /\ CloseData(c).overwritten = o
    BY <2>9, <2>11, <2>12, <2>13, CloseDataAccounted
  <2>15. CASE h.at \in {"memory", "config"}
    BY <1>4, <2>7, <2>8, <2>14, <2>15 DEF r, ok
  <2>16. CASE h.at \notin {"memory", "config"} /\ ~ok
    BY <2>7, <2>8, <2>14, <2>16 DEF r, ok
  <2>17. CASE h.at \notin {"memory", "config"} /\ ok
    <3> DEFINE v == SetData(attempted, Secured(h.cert))
               x == SetWrappers(v, t.wrappers + 1)
    <3>1. h.cert \in Certs
      BY <1>4, <2>17, Handshake DEF ok
    <3>2. [attempted EXCEPT !.data.tls = TRUE, !.data.peer = h.cert] = v
      <4>1. SoundChannel(attempted.data) /\ attempted.data.tcp
        BY <2>12, ConnectedSound DEF Connected
      <4> QED BY <2>12, <3>1, <4>1, DataUpdates
    <3>3. [attempted EXCEPT !.data.tls = TRUE, !.data.peer = h.cert,
                            !.wrappers = @ + 1]
            = [[attempted EXCEPT !.data.tls = TRUE, !.data.peer = h.cert]
                 EXCEPT !.wrappers = @ + 1]
      OBVIOUS
    <3>4. /\ v \in Transport /\ v.control = t.control
          /\ v.data = Secured(h.cert) /\ v.sockets = t.sockets
          /\ v.wrappers = t.wrappers /\ v.overwritten = o
      BY <2>12, <3>1, SecuredSound, SetDataFields DEF SoundChannel
    <3> HIDE DEF v
    <3>5. r = x
      BY <2>7, <2>17, <3>2, <3>3, <3>4 DEF SetWrappers
    <3> DEFINE k == t.wrappers + 1
    <3>6. k \in Nat
      BY <1>2
    <3> HIDE DEF k
    <3>7. /\ SetWrappers(v, k) \in Transport
           /\ SetWrappers(v, k).control = v.control
           /\ SetWrappers(v, k).data = v.data
           /\ SetWrappers(v, k).sockets = v.sockets
           /\ SetWrappers(v, k).wrappers = k
           /\ SetWrappers(v, k).overwritten = v.overwritten
      BY <3>4, <3>6, SetWrappersFields
    <3>8. /\ x \in Transport /\ x.control = t.control
          /\ x.data = Secured(h.cert) /\ x.sockets = t.sockets
          /\ x.wrappers = t.wrappers + 1 /\ x.overwritten = o
      BY <3>4, <3>7 DEF k
    <3> HIDE DEF x
    <3>9. t.sockets = Held(t.control) + Held(Secured(h.cert))
      BY <2>10, <3>1, SecuredSound, ConnectedSound
    <3>10. t.wrappers + 1 = Wrapped(t.control) + Wrapped(Secured(h.cert)) + o
      BY <1>2, <2>8, <3>1, SecuredSound, ConnectedSound, HeldRange
    <3>11. Accounted(x)
      BY <1>2, <3>1, <3>8, <3>9, <3>10, SecuredSound DEF Accounted
    <3> QED BY <2>8, <2>17, <3>1, <3>5, <3>8, <3>11 DEF r, ok
  <2> QED BY <2>15, <2>16, <2>17
<1> QED BY <1>5, <1>6

\* A connection that is not under TLS yet loses nothing.
LEMMA UpgradeDataSound ==
    ASSUME NEW t, Sound(t), ~t.data.tls,
           NEW tls \in TlsConfig, NEW h \in Handshakes(tls)
    PROVE  /\ Sound(UpgradeDataToTls(t, tls, h))
           /\ UpgradeDataToTls(t, tls, h).control = t.control
           /\ UpgradeDataToTlsOk(t, tls, h) =>
                /\ h.cert \in Certs
                /\ UpgradeDataToTls(t, tls, h).data = Secured(h.cert)
           /\ t.data.tcp /\ ~UpgradeDataToTlsOk(t, tls, h) =>
                UpgradeDataToTls(t, tls, h).data = Closed
BY UpgradeDataAccounted DEF Sound

-----------------------------------------------------------------------------
(* The invariant. *)

TransportInv == TransportTypeOK /\ NoSocketLost /\ ChannelsConsistent

\* The invariant is the accounting of the one transport.
LEMMA InvIsAccounted == TransportInv <=> Accounted(transport)
BY Fields
   DEF TransportInv, TransportTypeOK, NoSocketLost, ChannelsConsistent,
       Accounted, SoundChannel

\* Every method keeps the transport accounted for.
LEMMA TransportStep ==
    ASSUME Accounted(transport), [TransportNext]_transport
    PROVE  Accounted(transport')
<1>1. CASE DoConnectControl
  BY <1>1, ConnectControlAccounted DEF DoConnectControl
<1>2. CASE DoUpgradeControlToTls
  BY <1>2, UpgradeControlAccounted DEF DoUpgradeControlToTls
<1>3. CASE DoOpenDataChannel
  BY <1>3, OpenDataChannelAccounted DEF DoOpenDataChannel
<1>4. CASE DoUpgradeDataToTls
  BY <1>4, UpgradeDataAccounted DEF DoUpgradeDataToTls
<1>5. CASE DoCloseData
  BY <1>5, CloseDataAccounted DEF DoCloseData
<1>6. CASE DoCloseAll
  BY <1>6, CloseAllAccounted DEF DoCloseAll
<1>7. CASE UNCHANGED transport
  BY <1>7
<1> QED
  BY <1>1, <1>2, <1>3, <1>4, <1>5, <1>6, <1>7 DEF TransportNext

\* No method of the data channel changes the control channel.
LEMMA DataWorkStep ==
    ASSUME Accounted(transport), DataWork
    PROVE  transport'.control = transport.control
<1>1. CASE DoOpenDataChannel
  BY <1>1, OpenDataChannelAccounted DEF DoOpenDataChannel
<1>2. CASE DoUpgradeDataToTls
  BY <1>2, UpgradeDataAccounted DEF DoUpgradeDataToTls
<1>3. CASE DoCloseData
  BY <1>3, CloseDataAccounted DEF DoCloseData
<1> QED BY <1>1, <1>2, <1>3 DEF DataWork

\* Whatever the order of calls and wherever they fail, the transport's state
\* has its type, LWIP holds exactly the sockets the transport can still
\* reach, and the heap the wrappers it reaches and those that were overwritten.
THEOREM TransportInvariant == TransportSpec => []TransportInv
<1>1. TransportInit => TransportInv
  BY NewTransportSound, InvIsAccounted DEF TransportInit, Sound
<1>2. TransportInv /\ [TransportNext]_transport => TransportInv'
  <2> SUFFICES ASSUME TransportInv, [TransportNext]_transport
               PROVE  TransportInv'
    OBVIOUS
  <2>1. Accounted(transport')
    BY TransportStep, InvIsAccounted
  <2> QED
    BY <2>1, Fields
       DEF TransportInv, TransportTypeOK, NoSocketLost, ChannelsConsistent,
           Accounted, SoundChannel
<1> QED BY <1>1, <1>2, PTL DEF TransportSpec

\* The transport's state has its type.
THEOREM TransportTypeCorrect == TransportSpec => []TransportTypeOK
<1>1. TransportInv => TransportTypeOK
  BY DEF TransportInv
<1> QED BY <1>1, TransportInvariant, PTL

\* No TCPSocket is ever lost to LWIP's pool.
THEOREM NoSocketEverLost == TransportSpec => []NoSocketLost
<1>1. TransportInv => NoSocketLost
  BY DEF TransportInv
<1> QED BY <1>1, TransportInvariant, PTL

\* A wrapper that a channel reaches has its socket, every other one was lost to
\* a second upgrade, and flags agree with pointers.
THEOREM WrappersHaveSockets == TransportSpec => []ChannelsConsistent
<1>1. TransportInv => ChannelsConsistent
  BY DEF TransportInv
<1> QED BY <1>1, TransportInvariant, PTL

\* No method called for the data channel changes the control channel.
THEOREM DataWorkSparesControl == TransportSpec => ControlOutlivesData
<1> DEFINE A == transport'.control # transport.control => ~DataWork
<1>1. TransportInv => [A]_transport
  BY DataWorkStep, InvIsAccounted
<1> QED
  BY <1>1, TransportInvariant, PTL DEF ControlOutlivesData

=============================================================================

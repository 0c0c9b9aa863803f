# A TLA+ model of the Opta FTPS client

This directory holds a TLA+ model of the FTPS client library for the Arduino
Opta (`src/FtpsClient.*`, `src/transport/*`, `src/FtpsErrors.h`,
`src/FtpsTrust.*`) and of three of its applications (`examples/RetryUpload`,
`examples/WebHarnessLiveTest`, `examples/WebFileManagerLiveTest`), the TLC runs that check it on small instances, and TLAPS
proofs of all its safety properties and of both its refinements for every value
of the constants. Paths in this file are relative to the repository's root.

    tlc -workers 2 -config FtpsClient.cfg MCFtpsClient.tla     # check a run
    tlapm FtpsClientProofs.tla                                 # check a module's proofs

`PROJECT.json` lists the components, the runs, the source lines each definition
models, a mutant for each property (a plausible bug that makes the run fail),
the hazards of this code and the theorems.

## 1. The system

The library is single threaded and blocking: an application calls a method of
`FtpsClient`, the method exchanges commands and replies with an FTP server over
a control connection, opens a data connection when there is data to move, and
returns a boolean. `lastError()` and two socket-level codes say what went wrong.
What makes it hard is not interleaving in the program but everything that goes
on around it: replies that come late or never, TLS handshakes that meet another
certificate than the one before, about thirty early returns with three
different ways to clean up, four sockets in all, and settings that a call may
have half replaced when it gives up.

| Component | State | Operations | Uses | Its correctness |
|---|---|---|---|---|
| **FtpsClient**: the session (`src/FtpsClient.cpp`) | `_transport`, `_connected`, `_reconnectBetweenStores`, `_storesSinceConnect`, `_activeConfig` and the cached strings, `_normalizedFingerprint`, `_lastError` | `begin connect reconnect discoverFingerprint store retrieve list mkd size dele rmd rename isControlAlive quit setReconnectBetweenStores` | transport, exchanges, parsers, trust helpers | the sockets are as the flags say after every return; only vouched-for peers; the opt-in keeps uploads on separate control connections; results tell the truth about the session |
| **Control exchanges** (`ftpSendCommand`, `ftpReadResponse`, `drainFinalTransferReply`) | what is in flight on the control connection | send one command, read one reply, drain | `ctrlRead`, `ctrlWrite` | a reply is taken for the answer to its own command |
| **Transport** (`src/transport/MbedSecureSocketFtpsTransport.cpp`) | two `TCPSocket`/`TLSSocketWrapper` pairs, two flags, two error codes | `connectControl upgradeControlToTls openDataChannel upgradeDataToTls openProtectedDataChannel closeData closeAll` and byte I/O | Mbed sockets, mbedTLS, LWIP's pool of four | no socket lost; a wrapper lost only where a data channel is upgraded twice; data work spares the control channel |
| **Error taxonomy** (`src/FtpsErrors.h`) | – | `ftpsIsSessionDead`, `ftpsIsTransferRetriable` | – | the two classifiers agree with what happened to the session |
| **Trust helpers** (`src/FtpsTrust.cpp`) | – | normalise and compare fingerprints, validate a PEM | – | nothing but 64 equal hex digits compares equal |
| **Reply parsing** (`parsePasv`, `parseSizeReplyBytes`, `ftpParseCode`) | – | – | – | the numbers sent, or a refusal; no overflow |
| **Data loops** (`writeAll`, the read loops of `retrieve` and `list`) | bytes moved, a `millis()` timer | – | `dataRead`, `dataWrite` | all bytes or a failure; they end |
| **RetryUpload** (`examples/RetryUpload`) | attempt counter, back-off, counts | `storeWithRetry`, the batch loop | FtpsClient, the classifiers, the socket pool | the pauses drain the pool for the last attempt; no upload on a lost session; every file is counted; the batch ends |
| **WebHarnessLiveTest**, **WebFileManagerLiveTest** | `gConfig`, `gStatus.connected`, `gFtpsBegun`, `gAuthToken`; in the browser `s.pending`, `s.authorized`, `s.hydrated`, `s.authToken`, the buttons | routes `/auth /status /set /action /report`, and `/fs` in the second; the page's chains of requests and its timer | FtpsClient | their view of "connected" is explained by the last call; an operation runs with the form saved for it; the page comes back; success means done |
| other examples, `FtpsSpikeTest`, `ftps_server.py` | – | straight-line callers; a one-off experiment; a test server's configuration | | |

How they interact: the application calls FtpsClient, FtpsClient calls the
transport, and there are no callbacks into the session (the trace and progress
hooks are diagnostics). Concurrency is outside: the web sketches serve one
request at a time, but the page they serve has two on their way at once, a
script may send others, and any of them may be lost. A component fails by returning false; what it leaves
behind is what the next call starts from, and that is where the properties aim.

The list of hazards, each at its line and with the properties that would catch
it, is `hazards` in `PROJECT.json`.

## 2. The modules

    FtpsErrors        error values and classifiers
      FtpsTransport     the transport; a specification of its own
        FtpsClient        the session: EXTENDS FtpsTransport, FtpsControl
      FtpsSession       abstract: what results say about the session
        RetryUpload       a batch of uploads over FtpsSession and the pool
        WebHarness        a page, scripts and a sketch over FtpsSession
          WebFileManager    the same with /fs; their specification
    FtpsControl       commands, replies, what is in flight
      FtpsReplyChannel  abstract: FtpsControl as a specification
      FtpsReplyReader   ftpReadResponse, line by line; implements it
    FtpsDataPump      the loops that move data
    FtpsNumbers       the numbers in PASV and SIZE replies

    MCFtpsTransport, MCFtpsClient, MCFtpsSession, MCRetryUpload, MCWebFileManager,
    MCFtpsReplyReader, MCFtpsDataPump                       instances for TLC
    FtpsTransportProofs, FtpsClientProofs, FtpsSessionProofs, RetryUploadProofs,
    WebFileManagerProofs, FtpsReplyReaderProofs, FtpsDataPumpProofs,
    FtpsNumbersProofs                                       theorems

The modules meet at two contracts. FtpsSession stands between the library and
its applications: FtpsClient implements it (checked and proved), RetryUpload and
WebHarness are built on its operators with `INSTANCE`, so that they meet every
behaviour of the library and none of its detail. FtpsReplyChannel stands between
the bytes of the control connection and FtpsClient: FtpsReplyReader implements
it, FtpsClient uses the same operators of FtpsControl.

### FtpsTransport

`transport` is a record: for each channel `tcp` and `tls` (is the pointer
non-null), `up` (`_controlConnected`, `_dataConnected`) and `peer` (the
certificate under the wrapper); the two error codes; and three counts, kept where
resources are taken and given back and not derived from the pointers: `sockets`,
the TCPSockets LWIP holds open for the program, `wrappers`, the TLSSocketWrappers on
the heap, and `overwritten`, those of them that nothing can delete any more.
`upgradeControlToTls` deletes an earlier wrapper before it makes a new one;
`upgradeDataToTls` does not (line 582), and a data channel that is upgraded again
loses its first wrapper. FtpsClient never does that; another caller of `IFtpsTransport`
may. Each method is an
operator from a transport, and what the network did, to a transport:
`ConnectControl`, `UpgradeControlToTls`, `OpenDataChannel`, `UpgradeDataToTls`,
`CloseData`, `CloseAll`; `XxxOk` is its boolean result. `NetResults` and
`Handshakes` enumerate how far a connection or a handshake gets. A handshake
that verifies the chain completes only with a certificate in `SignedCerts`; one
with a pin, or none, completes with any, as `configureTlsSocket` asks for
`MBEDTLS_SSL_VERIFY_NONE`, and the pin comparison is what is left.

`TransportSpec` lets any method be called at any time, so what holds there
holds for any caller of `IFtpsTransport`, not only this client.
`openProtectedDataChannel` is `openDataChannel` and then `upgradeDataToTls`.

### FtpsControl

`wire` (in FtpsClient) is the sequence of replies in flight. A reply is a code
and `own`: is it an answer to the last command sent? The client cannot see that
field; the properties can. `Exchanges(wire, cmd, arg)` is `ftpSendCommand`:
older replies stop being the last command's, the server's answers follow, and
either the first one in flight is read or nothing comes in time (`Silence`).
A wait that is given up may have read a part of a line (`Abandoned`): the rest is
then no reply, or looks like one that nobody sent (`Garbled`). A command line longer than the 192-byte buffer is not sent and also reads as
silence, which is what `ftpSendCommandWithArg` returns. Codes that
the client treats alike are one code.

The server is external and is modelled by what FtpsClient.cpp tells apart: it
answers each command once, in order (a transfer it accepts twice, 150 and a
final reply), and its banner counts as an answer to the connection. A reply
lost for good is a reply that is never read.

### FtpsReplyChannel and FtpsReplyReader

FtpsReplyReader has the lines themselves. A line arrives as a head (its code,
and whether `-` follows it) and an end; a line of text is an end alone. `line`
is what `buf` holds, `multi` is `multiCode`, `start` and `clock` are `millis()`
with its wrap. `ReadHead` and `ReadEnd` are the loop's body, `TimeUp` and
`ConnectionFails` its two exits; what they drop is gone, and the next call
starts in the middle of a line or of a reply of several. The server lays out each
reply in one line or in several, and text may arrive at any time. The
refinement mapping is `wire <- InFlight`: a reply is where its last line's head
is. That lines of text which begin with a code are indented in a reply of several
lines is what RFC 959 asks of a server, and an assumption. A line longer than the
256-byte buffer keeps its head, all that is looked at.

### FtpsDataPump

One module for the three loops, which differ in who bounds them (`Full`,
`Written`), what they ask for (`Ask`) and what a failure leaves in `bytesRead`
(`Fails`). `BytesMove` moves any number of bytes up to what was asked; `Tick`
lets time pass while the transport blocks, at most `Poll`
(`FTPS_SOCKET_TIMEOUT_MS`); `AsksAgain` and `TimesOut` are the two sides of the
would-block branch; `FinalReply` is what the code does after the loop. `moved` and
`silent` are auxiliary: what has really been moved, and how long nothing has.

### FtpsNumbers

`parsePasv` and `parseSizeReplyBytes`, a character a step. `numbers` is `parts`
(its first place `parsed`), `index` and `hasDigits` are the code's; `written` is
auxiliary: the same numbers without a word's width. `TooLarge` is the test before
each digit, `LastPart` what ends the tuple: the parenthesis or the sixth number,
whichever is first, so that what follows a sixth comma is never looked at. Blanks
are skipped everywhere in a tuple: `1 2` is read as 12, and `written` says the same.
The code that precedes a size, and what stands before the parenthesis, are skipped
too. FtpsClient keeps the two outcomes (`Pasv`, `SizeMalformed`).

### FtpsClient

`session` holds the members. `config` says which cached settings there are:
`connect()` copies them one at a time and may stop in the middle, so
"complete" is separate from "host". `pin` is `_normalizedFingerprint`: nothing,
part of a fingerprint, or one certificate's. `call` is the call in progress and
the step it is at; a call of at most one exchange is one action, a longer one is
one action per exchange, connection or handshake. `result` is what the last
call returned and `lastError()` after it. `history` is auxiliary: has every
reply so far been the right one, has one been missed, has this control
connection carried an upload, has a `connect()` been refused since one was
accepted, and the settings of the last accepted one.

| Code | Actions |
|---|---|
| `begin()` | `Begin`, `BeginWithoutNetwork`, `BeginWithoutMemory` |
| `connect()` | `ConnectBeforeBegin`, `ConnectRefusesArguments`, `ConnectRefusesFingerprint`, `ConnectRefusesCertificate`, `ConnectRefusesLength`, `ConnectStart`, then the login |
| `reconnect()` | `Reconnect` (`ReconnectRefused`, `Reconnecting`), `ReconnectBeforeBegin`, then the login |
| `discoverFingerprint()` | `DiscoverRefused`, `DiscoverStart`, `Tcp`, `Banner`, `AuthTls`, `AuthSsl`, `DiscoverTls` |
| the login sequence | `Tcp Banner AuthTls AuthSsl ControlTls Pbsz ProtP User Pass TypeI` |
| `store()` `retrieve()` `list()` | `XxxStart`, `Pasv`, `OpenData`, `XxxCommand` (`ListFallback`: LIST after a refused MLSD), `DataTls`, `StoreWritten`/`RetrieveRead`/`ListRead` or `XxxDataFails`, `XxxFinal` |
| `mkd dele rmd size isControlAlive` | `Mkd Dele Rmd Size SizeMalformed IsControlAlive` |
| `rename()` | `RenameFrom`, `RenameTo` |
| `quit()`, `setReconnectBetweenStores()` | `Quit`, `SetReconnectBetweenStores` |
| the common preconditions | `NotConnected`, `MissingArgument` |

The exact lines of every definition are in `PROJECT.json` under `map`.

### FtpsSession

What an application that only looks at results may rely on. State: `up` (is
there a session) and `outcome` (the last call, its result, its error). Success
of a call that needs a session means there is one; a failure either leaves the
session up with an error that is not a session-dead one, or leaves no session
with one that is; `Refused` is the exception the code makes (a request turned
down before anything was done reports a session-dead error and leaves a running
session alone). FtpsClient implements it under the mapping `up <- Usable`,
`outcome <- IF call = Idle THEN result ELSE Pending`.

### RetryUpload

`pc` is the sketch's place: `begin`, `connect`, `next` (the loop over the files),
`store` and `transfer` (inside `store()`, before and after its data connection is
open), `judge` (store() has returned), `wait` (the pause), `quit`, `done`. `pool`
is what each slot has left of TIME_WAIT; a `store()` takes a free slot, or fails
with -3005 when there is none (`OpenRefused`), and gives it back to TIME_WAIT.
What `store()` returns and what that says of the session is FtpsSession's.
The control connection has a slot of its own throughout and is left out.

### WebHarness and WebFileManager

`page` is the script's state `s` and what its buttons show. A click starts a
chain (`page.stage`): save the form, run the operation, show the result; `act` is
the request or the answer the chain is waiting for and `poll` that of the periodic
refresh. `serving` is the sketch's request in progress, one action per call of the
library, each a call of FtpsSession. `config` says for each setting whether it has a
value or is empty. A form is a sequence of fields, in the order they are posted;
`applyConfigFromQuery` takes them one by one up to the first it cannot take, leaves
the settings that are not posted as they are, and accepts an empty form. The page
always posts all of its settings (`configParams`), a script any part of them, as the
repository's own cURL example does. `stale` is auxiliary: the settings that nobody has
posted since, or in, the page's last save. The actions are in the source's order:

| Code | Actions |
|---|---|
| `unlockHarness()` | `Unlock`, `Unlocked`, `UnlockShowsStatus` |
| `doAction()`, `doFsAction()` | `Click`, `Saved`, `Done` |
| `exportReport()` | `Export`, `Exported` |
| `refreshStatus()` and its timer | `Refresh`, `Refreshed`, `RefreshRefused`, `RefreshFails` |
| the 401 and `catch` branches | `ChainRefused`, `ChainFails` |
| `handleClient()` | `Receives`, `ServeUnauthorized`, `ServeAuth`, `ServeStatus` |
| `handleSetRequest()`, `applyConfigFromQuery()` | `ServeSet`, `ApplyConfig` |
| `handleActionRequest()` and `runXxxAction()` | `ServeAction`, `CallBegin`, `CallConnect`, `CallTransfer`, `CallQuit` |
| `handleFsRequest()` | `ServeFs`, `FsBadRequest`, `FsCommand`, `FsDele`, `FsRmd`, `FsSize`, `FsRetrieve`, `FsStore` |

## 3. Properties and runs

| Run | Instance | Checks |
|---|---|---|
| `ftps_transport` | 3 certificates (1 signed), 4 socket codes and at most one wrapper lost; a tuple of 2 parts, a word up to 65,555, the digits 0, 2, 5 and 6; together 2,641,134 states | `TransportTypeOK`, `NoSocketLost`, `ChannelsConsistent`, `ControlOutlivesData`; `NumbersTypeOK`, `AcceptedAsWritten`, `RefusedIfTooLarge` |
| `ftps_client` | 2 certificates (1 signed), 2 socket codes, `MaxLate = 1`, `MaxStores = 1`; 560,196 states, about 2 minutes | `TypeOK`, `NoSocketLost`, `NoWrapperLost`, `SocketsFollowCall`, `PeersVouched`, `RepliesPairedUnlessMissed`, `OneUploadPerSession`, `RetriableKeepsSession` |
| `ftps_session` | 1 certificate, 1 socket code, `MaxLate = 0`; 107,174 states, about 3 minutes | `ImplementsSession` (refinement of FtpsSession), `CallReturns` (liveness) |
| `retry_upload` | 3 slots, 2 files, TIME_WAIT 4, pauses 1 and 2 (a unit is 20 s), a clock of 4; 312,188 states | `TypeOK`, `NoStoreOnLostSession`, `PausesDrainPool`, `BatchAccounted`, `BatchEnds` (liveness) |
| `web_file_manager` | one soft error and one that loses the session, two settings, a page's form and one with a value too long, a script's empty, partial and whole ones; 326,056 states, about 3 minutes | `TypeOK`, `EnabledOnlyWhenReady`, `ClickRunsItsForm`, `DisagreementExplained`, `FsSuccessMeansDone`, `PageComesBack` (liveness) |
| `data_pump` | files of 0 to 5 bytes, a buffer of 4, time-out 3, blocking 2, a clock of 7; 7,672 states | `TypeOK`, `BufferHolds`, `SuccessIsWhole`, `TimeoutInTime`, `TransferEnds` (liveness) |
| `replies` | a command answered once and one answered twice, `MaxLate = 1`, time-out 2, a clock of 4; 334,172 states | `TypeOK`, `ImplementsChannel` (refinement of FtpsReplyChannel), `WaitEnds` (liveness) |

- `NoSocketLost`: LWIP holds exactly the sockets the two pointers reach, through
  every failure, `begin()` replacing the transport included.
- `ChannelsConsistent`: flag, pointer and peer of a channel agree, and every
  `TLSSocketWrapper` on the heap is one that a channel reaches, with its TCPSocket,
  but for those whose pointer a second upgrade of the data channel has overwritten.
- `NoWrapperLost`: under the client there are none of those either.
- `ControlOutlivesData`: a step of `openDataChannel`, `upgradeDataToTls` or
  `closeData`, whether it succeeds or fails, leaves the control channel as it was. It
  is said of the methods, so that one which closed both channels would break it.
- `SocketsFollowCall`: at every step, and after every return, each channel is
  closed, plain or under TLS as the session and the step say.
- `PeersVouched`: no channel is under TLS with a peer that nobody vouched for, by
  the settings in force for the data channel and, while no `connect()` has been
  refused, by those the last accepted `connect()` was given for both.
- `RepliesPairedUnlessMissed`: as long as no wait has been given up with a reply
  still to come, every reply is taken for the answer to the command it answers. It
  catches a failure after 150 that does not read the final reply. It says nothing
  after a drain that ends in silence, which `success_is_own_reply` shows, nor after an
  AUTH TLS that times out, for which there is no property: the code does nothing
  about it.
- `OneUploadPerSession`: with the opt-in on (and no refused `connect()`), a
  `store()` never begins on a control connection that has carried one. It holds with
  the opt-in kept across `connect()`, which is what the code does and its comment says
  (`FtpsClient.cpp:1003-1006`), and not what the header says ("Reset by connect()",
  `FtpsClient.h:116`).
- `RetriableKeepsSession`: an error `ftpsIsTransferRetriable` accepts never comes
  from a session that is gone.
- `ImplementsSession`: the contract above, over whole behaviours.
- `CallReturns`: every call of the API returns, through its fall-backs and the
  reconnect inside `store()`, even if the server never answers.
- `PausesDrainPool`: what the sketch's pauses achieve, whatever TIME_WAIT is. When the
  third attempt begins, every slot has had the second pause to drain and all but one
  have had both, whatever earlier attempts and files have closed; with the first pause
  repeated instead of the second it fails (the mutant). What follows depends on the
  board. With two or more slots for data connections the third attempt is turned away
  only if TIME_WAIT is longer than 20 s + 40 s; the run has a TIME_WAIT of 80 s, where it
  may be. `README.md:289-292` and `CHANGELOG.md:154-156` put TIME_WAIT at "~60 s" and
  pace an application by 65 s a file: one whose web server holds two of the four sockets,
  so that one is left for data. There only the second pause counts, 40 s, and the
  third attempt can be refused. The sketch runs no server and has three slots for
  data; against ~60 s its two pauses have no margin.
- `NoStoreOnLostSession`, `BatchAccounted`: the sketch decides by
  `ftpsIsSessionDead` and `ftpsIsTransferRetriable` alone, at two places, and
  never tries a file on a session that is gone, nor loses count of one. `BatchEnds`
  adds that no file is tried for ever.
- `EnabledOnlyWhenReady`: the refresh's answers, which enable the buttons, may come
  at any point of a chain; still the buttons never work in the middle of one,
  on a locked page, or before the form has been filled in.
- `ClickRunsItsForm`: while a click's operation is on its way and its save was accepted,
  no setting is older than that save: none of an earlier sender is left, through a
  script's partial saves and lost or refused requests. A save that passed over what it
  cannot take, and was accepted, would break it (the mutant). Two things are not
  excluded, and the code allows both: a script that saves between the page's save and
  its operation, and the operation after a refused save, which the page sends all the
  same.
- `DisagreementExplained`: where `gStatus.connected` and the session disagree, the
  last call's error says why. They do disagree (see the last divergence).
- `FsSuccessMeansDone`: `/fs` answers 200 only if every call it made succeeded, the
  automatic connect included (of a delete, the last).
- `PageComesBack`: every chain ends, and an unlocked page does not stay without its
  buttons, through lost answers and refused tokens. The second half rests on an answer
  of the refresh coming through and being read (see Fairness).
- `BufferHolds`, `SuccessIsWhole`: no piece size overruns the buffer, a listing's
  NUL included, and success means the whole file; a file that just fills the
  buffer is refused (what the code does; its message says "too small"). That a
  download is whole rests on an assumption about the server: it confirms a transfer
  (226) only when it has sent all of it.
- `TimeoutInTime`, `TransferEnds`: the time-out counts silence, through a wrap of
  `millis()`; the total is bounded by the buffer alone, since every byte restarts
  the timer.
- `ImplementsChannel`, `WaitEnds`: the reader returns whole replies in order, in
  whatever lines they come and wherever earlier waits were cut; text without end
  does not keep it.

- `AcceptedAsWritten`, `RefusedIfTooLarge`: the tests before each digit are exact. An
  endpoint or a size that is accepted is the one that was written, no number
  wrapped or cut to a byte; none that fits is refused. `NumbersTypeOK` says that no
  part past the array is ever written. The run takes turns: a reply is parsed
  between two calls of the transport, as in the program, which has one thread.

Five runs show where the documentation says something the code does not do. TLC
finds each a counterexample, and each is a finding in `PROJECT.json` with both
lines quoted:

| Run | The documents say | The code |
|---|---|---|
| `success_is_own_reply` | the control-channel desync is fixed by `drainFinalTransferReply` | it waits once; a later reply answers the next command, which can return true on it |
| `reconnect_keeps_trust` | `reconnect()` uses the cached configuration | a `connect()` refused for an over-long fingerprint has already replaced the pin |
| `every_upload_reconnects` | each upload after the first reconnects | a refused `connect()` zeroes the counter and leaves the session up (the header's "Reset by connect()" is true of the counter, not of the opt-in) |
| `dead_error_means_dead` | a session-dead error means the session is unusable | `store()` on an ImportedCert session with the opt-in reports one on a live session |
| `connected_until_transfer_fails` | the harness's `gStatus.connected` stays true until the next `store()` or `retrieve()` fails | it stays true after that too: only connect and quit write it |

### Bounds, and why they are enough

- `MaxLate` bounds the replies outstanding from earlier commands: with more, the
  server sends no more. One late reply is the whole desynchronisation (from then
  on every exchange is off by one), so 1 is where everything that can happen
  does; the refinement does not depend on which reply is read, and uses 0. The
  proofs hold for any value.
- `MaxStores` saturates `_storesSinceConnect`, which is only ever compared with
  zero.
- Certificates: two are what it takes for a server to present another than the
  pinned one; one of them signed and one not separates the two trust modes. The
  transport run has a third.
- `MaxOverwritten`, of the transport's run, stops a caller from losing a second wrapper:
  the count only grows. The proofs have no such bound.
- Socket codes: -3005 (no socket), which the classifier singles out, and one
  other. The refinement ignores the code.
- `history.uploads` stops at 1.
- RetryUpload has the Opta's four sockets (one is the control connection's) and
  its times to scale: pauses of 20 s and 40 s and a TIME_WAIT of 80 s are 1, 2 and 4
  units, so that TIME_WAIT outlasts the pauses and the pool may be full at every
  attempt. Two
  files are what it takes for one to inherit the other's slots. The clock
  wraps every 4 units, so that every pause meets a wrap; its start is arbitrary.
- The web run shares the operations out: the page connects and copies, a script
  uploads, deletes, moves, quits and lists. `Errors` are a soft one and a session-dead
  one, all that is told apart. The settings are two, the server's and the path: what
  `connect()` and what a transfer need; the page may post a server that is too long, a
  script nothing, the path, or both. One refresh at a time is a bound: a browser may
  have more on their way. A refresh that is lost is modelled by the loss of its
  answer, since `/status` changes nothing.
- The pump's files are shorter than the buffer, one byte shorter, as long and
  longer; a clock of 7 is above `Timeout + Poll`, the least the assumption allows
  being 5. In the code they are 2^32 ms against some tens of seconds.
- Two parts are a port without an address; the code's six differ in how much there is
  before it. The word ends at 65555, so that four digits are enough to write numbers
  on both sides of each limit (255 and 256, 65555 and 65556), and a port of 0; the proofs
  have any tuple, any word of at least 16 bits and all ten digits.
- `MaxStream` bounds text sent unasked; answers to commands are bounded by
  `MaxLate`, as above.

No run sets `CHECK_DEADLOCK FALSE`: an application can always make another call.

### Fairness

Each fairness condition is on something that does go on by itself:

- FtpsClient (`Progress`): the step of a call in progress is taken, because every
  wait under it ends: `WaitEnds` and `TransferEnds` show that of the two loops, and
  connections and handshakes have Mbed's own time-outs. Nothing is assumed of the
  server.
- FtpsReplyReader, FtpsDataPump: the loop runs and `millis()` goes on. The peer may
  stop at any time. In FtpsReplyReader the loop reads (weak fairness of `Reader`)
  and looks at the clock.
- RetryUpload: the sketch's next step is taken and time passes while it pauses; the
  library's calls return (`CallReturns`).
- WebFileManager: the browser handles the answers it has and its timer goes on; the
  library returns; a request of the page that is waiting is served in the end although
  scripts keep the sketch busy (strong fairness, one at a time: the sketch takes
  connections from `gWebServer.available()` as they come); and the network does not
  lose every single refresh (strong fairness of `RefreshAnswered`, a promise the
  code cannot make: without it `PageComesBack` says nothing of the buttons; a `/status`
  whose text does not parse, as one with a control character that `jsonPrintEscaped`
  leaves as it is, counts as lost, and one like that every time is left out). That a
  user clicks is not assumed.

## 4. Proofs

Every safety property above, every action property and both refinements are proved
by TLAPS for all values of the constants. The assumptions are those named in the
modules: `TransportAssumption` (signed certificates are certificates; the three
markers `NoCert`, `NoPin`, `PartialPin` are not, and the two pins differ; socket codes
are non-zero integers), `MaxLateAssumption` (a natural number),
`MaxStoresAssumption` (a positive one); `TimesAssumption` (the pauses and TIME_WAIT
are positive, each pause fits the clock; nothing relates TIME_WAIT to the pauses),
`SlotsAssumption` (a slot), `OtherAssumption` (types);
`ReaderAssumption` (commands that have answers; the time-out fits the clock);
`ErrorsAssumption`, `PageOpsAssumption` (the errors and operations are the library's
and the page's), `NamesAssumption` (there are a server's and a path's settings),
`FormsAssumption` (forms are sequences of fields, and the page posts every setting); `PumpAssumption` (the sizes and times
are positive, time-out and blocking call together fit the clock); and
`NumbersAssumption` (two parts at least, words of 16 bits at least). TLC evaluates
them in the runs.

- **FtpsTransportProofs.** The invariant is `Accounted(transport)`: each channel is
  one of closed, connected or secured, the codes are typed, `sockets` is what
  the pointers hold, and `wrappers` is what they hold and what was overwritten.
  `Sound` adds that nothing was, which the client preserves. The invariant has to be
  about whole channels: `sockets - Held(...)` is a natural number only if the count is
  exact before the call. One lemma per method shows that it preserves it, and what it
  does to the other channel;
  `TransportInvariant`, `NoSocketEverLost`, `WrappersHaveSockets` and
  `DataWorkSparesControl` follow. Lemmas about single fields
  (`SetControlFields` and so on) keep record updates out of the later proofs.
- **FtpsClientProofs.** `ClientInv` is type correctness with `Sound(transport)`,
  `SocketsFollowCall`, and `SessionFollowsCall`: what the flags must be at each
  step (a login step has a transport and no session; a transfer step has both).
  `SocketsFollowCall` alone is not inductive: at a `return` the channels must
  match `Usable`, and only the step tells what that is. The proof has a lemma for
  each kind of exit (`FailAndDisconnectStep`, `KeepStep`, `LoginFailsStep`,
  `TransferFailsStep`, `DrainStep`, ...), then one per action.
- **FtpsSessionProofs**, four parts, all over `ClientInv`.
  `PeersVouched` needs two facts no step states: a connection under TLS has a complete
  set of settings behind it (`SettingsComplete`; otherwise validation would be off),
  and the settings in force are those last accepted unless a `connect()` has been
  refused (`SettingsCurrent`). Most actions leave peers and settings alone (`Quiet`);
  the handshakes are the interesting ones (`HandshakeVouches`).
  `RepliesPairedUnlessMissed` needs `PairedInv`: while nothing has been missed, what is in
  flight is the transfer's own final reply between its 150 and the final read, and
  otherwise nothing.
  `OneUploadPerSession` needs `UploadInv`: a control connection that has carried an
  upload, with no `connect()` refused since, has a non-zero counter; the login
  steps start from none.
  The refinement: every step of the client is a step of the contract or a
  stutter (`EveryStepAllowed`), one lemma per action, hence
  `ClientImplementsSession`. `RetriableErrorsKeepSession` is then derived from
  the contract: no session-dead error is retriable, so a retriable error comes
  from `FailsSoftly`, which keeps the session.
- **FtpsReplyReaderProofs.** The refinement mapping, `Replies`, is recursive over a
  sequence of any length. The library's induction theorems take an operator, which
  the provers cannot instantiate, so two induction lemmas over sets are proved first
  (`NatIsLeast`, from the well-foundedness of strict inclusion on finite sets, and
  `SeqIsLeast`); with them follow that the recursion defines a function
  (`RepliesExist`, `RepliesFunction`) and how it goes through appending, concatenating, taking
  the head and ageing (`RepliesOfAppend`, `RepliesOfConcat`, `RepliesOfCons`,
  `RepliesOfOlder`). The invariant `ReaderInv` is about `Unread`, the head that has been
  read and what is in flight: every head has the end of its line after it, and a reply
  of several lines has its last line, with the same code and nothing but text in
  between (`WellFormed`, `Closed`); while `multi` is set, that line is what is awaited.
  Without it the reader could skip the reply it should return, and the mapping would
  lose one. Under the mapping `SendCommand` is `Send`, the end of a last line is
  the `Read` of the first reply, giving up is a `Read` of `Silence` that drops nothing,
  a reply or a part of one (`Abandoned`), and the rest are stutters.
- **WebFileManagerProofs.** The properties are about the page, the sketch or the
  session, and none is inductive alone. `WebInv` adds what ties them together:
  the page's request says what the page is doing (`RequestFits`); a request that is
  served for the page is the one it waits for (`ServingFits`); and what is called next
  agrees with `gStatus.connected` and `gFtpsBegun` (`CallFits`: `connect()` only after
  `begin()`, a call that needs a session only when the sketch believes there is one,
  no failure forgotten but in a deletion, which tries a file and then a directory).
  `DisagreementExplained` needs the last, since a call without a session would
  otherwise fail with an error that explains nothing; `FsSuccessMeansDone` is an action
  property from the same invariant.

- **RetryUploadProofs.** `RetryInv`. For `PausesDrainPool` the invariant has to
  follow the pool through the pauses (`PoolInv`): what each slot has left at most, at
  each attempt and in each pause, and that an attempt closes one slot at most. It needs
  neither how long TIME_WAIT is nor how many files or slots there are. `SessionInv` ties the session to the
  last error at each place where the sketch looks at it; `CountInv` is the
  arithmetic of the counters.
- **FtpsDataPumpProofs.** `PumpInv`: what is counted is what has moved (`CountInv`);
  where each loop stops (`EndedInv`); and that the wrapped difference of the clock
  is the time of silence (`SilenceInv`), true because a silence never outlasts
  the clock, for which it in turn needs the time-out.
- **FtpsNumbersProofs.** `NumbersInv`: what has been built is what was written, and within
  its limit, up to a refusal. `TooLargeIsExact` is the arithmetic: the test before a
  digit says exactly that the next number would be above the limit, hence nothing
  wraps (`NoWrap`) and the port loses no bit (`PortIsWhole`).

Only model-checked: the five divergences (a counterexample is their proof), and the
liveness properties (`CallReturns`, `BatchEnds`, `PageComesBack`, `TransferEnds`,
`WaitEnds`), which with `ENABLED` are out of the prover's reach.

## 5. What is not modelled

- Data: bytes have no value anywhere, texts and listings no content. The hex digits
  of a fingerprint and the text of a PEM are choices between the outcomes
  (`PinValues`): nothing else in the system depends on how they are reached.
- The TLS session the transport caches after a control handshake is written and
  never read: it changes nothing.
- Trace, progress and phase hooks, and `FTPS_SKIP_STORE_FINAL_REPLY_DIAG` (a
  constant, false), are diagnostics. Memory: the default build
  (`FTPS_ABANDON_ON_CLOSE` 0) deletes wrapper and socket, as modelled; the build
  with 1 gives back the sockets too but leaves each wrapper on the heap, which is
  the mutant of `NoWrapperLost` (`CloseDataAbandons`).
- A misbehaving server: unsolicited replies, several final replies, replies out
  of order. TIME_WAIT in the pool is in RetryUpload, not in FtpsTransport.
- Of the web sketches: parsing of HTTP and URLs, with the answers to malformed or
  unknown requests; the log, the preview and the last outcome, which are shown and
  never decide anything; `gStatus.busy`, which is set and cleared within one
  request, with the next not read before it ends, so that its 409 cannot be
  answered; the boot self-test, disabled by a constant. The nine settings are
  a server's and a path's in the run, any in the proofs; a form whose query is too
  long or badly encoded is one with a field that cannot be taken. Several
  pages at once are a page and a script.
- RetryUpload's Ethernet start-up.
- The other example sketches call the API in straight lines: every sequence of
  calls they make is already a behaviour of FtpsClient. `FtpsSpikeTest` does not use
  the library; it is one experiment, written out as a single function.

## 6. Plan

Done, in this order: FtpsErrors, FtpsTransport, FtpsControl, FtpsClient,
FtpsSession and their proofs; liveness of the client; RetryUpload, FtpsDataPump
and their proofs; FtpsReplyChannel and FtpsReplyReader; WebHarness and
WebFileManager; proofs of the reader's refinement and of the web sketches'
invariants; FtpsNumbers and its proofs. What is left, in order of use:

1. Fingerprint normalising and comparison (`FtpsTrust.cpp`) a character a step, as
   FtpsNumbers does with the replies.
2. A second page instead of the script, with its own token: only one is in force.

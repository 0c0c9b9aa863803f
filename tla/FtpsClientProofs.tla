------------------------- MODULE FtpsClientProofs -------------------------
(***************************************************************************)
(* What holds of the client for any certificates, error codes and bounds.  *)
(*                                                                         *)
(* The first invariant says, of every moment of every call, where the two  *)
(* channels stand and whether the session is connected; the promises about *)
(* sockets follow from it.  Each further invariant assumes the first.      *)
(***************************************************************************)
EXTENDS FtpsClient, FtpsTransportProofs, SequenceTheorems

SetBegan(s, b) == [s EXCEPT !.began = b]
SetConnected(s, b) == [s EXCEPT !.connected = b]
SetStores(s, n) == [s EXCEPT !.stores = n]
SetConfig(s, c) == [s EXCEPT !.config = c]
SetPin(s, p) == [s EXCEPT !.pin = p]

SetOwn(h, b) == [h EXCEPT !.own = b]
SetMissed(h, b) == [h EXCEPT !.missed = b]
SetUploads(h, n) == [h EXCEPT !.uploads = n]
SetRefused(h, b) == [h EXCEPT !.refused = b]
SetTrust(h, m) == [h EXCEPT !.trust = m]
SetHistoryPin(h, p) == [h EXCEPT !.pin = p]

-----------------------------------------------------------------------------
(* The members of the session, and the history. *)

\* Each update changes its field and keeps the others and the type.
LEMMA SessionFields ==
    ASSUME NEW s \in Session
    PROVE  /\ s.began \in BOOLEAN /\ s.connected \in BOOLEAN
           /\ s.reconnectBetween \in BOOLEAN /\ s.stores \in 0..MaxStores
           /\ s.config \in Config /\ s.pin \in PinValues
BY DEF Session

LEMMA SetBeganFields ==
    ASSUME NEW s \in Session, NEW b \in BOOLEAN
    PROVE  /\ SetBegan(s, b) \in Session
           /\ SetBegan(s, b).began = b
           /\ SetBegan(s, b).connected = s.connected
           /\ SetBegan(s, b).reconnectBetween = s.reconnectBetween
           /\ SetBegan(s, b).stores = s.stores
           /\ SetBegan(s, b).config = s.config
           /\ SetBegan(s, b).pin = s.pin
BY DEF Session, SetBegan

LEMMA SetConnectedFields ==
    ASSUME NEW s \in Session, NEW b \in BOOLEAN
    PROVE  /\ SetConnected(s, b) \in Session
           /\ SetConnected(s, b).began = s.began
           /\ SetConnected(s, b).connected = b
           /\ SetConnected(s, b).reconnectBetween = s.reconnectBetween
           /\ SetConnected(s, b).stores = s.stores
           /\ SetConnected(s, b).config = s.config
           /\ SetConnected(s, b).pin = s.pin
BY DEF Session, SetConnected

LEMMA SetStoresFields ==
    ASSUME NEW s \in Session, NEW n \in 0..MaxStores
    PROVE  /\ SetStores(s, n) \in Session
           /\ SetStores(s, n).began = s.began
           /\ SetStores(s, n).connected = s.connected
           /\ SetStores(s, n).reconnectBetween = s.reconnectBetween
           /\ SetStores(s, n).stores = n
           /\ SetStores(s, n).config = s.config
           /\ SetStores(s, n).pin = s.pin
BY DEF Session, SetStores

LEMMA SetConfigFields ==
    ASSUME NEW s \in Session, NEW c \in Config
    PROVE  /\ SetConfig(s, c) \in Session
           /\ SetConfig(s, c).began = s.began
           /\ SetConfig(s, c).connected = s.connected
           /\ SetConfig(s, c).reconnectBetween = s.reconnectBetween
           /\ SetConfig(s, c).stores = s.stores
           /\ SetConfig(s, c).config = c
           /\ SetConfig(s, c).pin = s.pin
BY DEF Session, SetConfig

LEMMA SetPinFields ==
    ASSUME NEW s \in Session, NEW p \in PinValues
    PROVE  /\ SetPin(s, p) \in Session
           /\ SetPin(s, p).began = s.began
           /\ SetPin(s, p).connected = s.connected
           /\ SetPin(s, p).reconnectBetween = s.reconnectBetween
           /\ SetPin(s, p).stores = s.stores
           /\ SetPin(s, p).config = s.config
           /\ SetPin(s, p).pin = p
BY DEF Session, SetPin

\* The same for the history.
LEMMA HistoryFields ==
    ASSUME NEW h \in History
    PROVE  /\ h.own \in BOOLEAN /\ h.missed \in BOOLEAN /\ h.uploads \in 0..1
           /\ h.refused \in BOOLEAN /\ h.trust \in TrustModes
           /\ h.pin \in PinValues
BY DEF History

LEMMA SetOwnFields ==
    ASSUME NEW h \in History, NEW b \in BOOLEAN
    PROVE  /\ SetOwn(h, b) \in History
           /\ SetOwn(h, b).own = b
           /\ SetOwn(h, b).missed = h.missed
           /\ SetOwn(h, b).uploads = h.uploads
           /\ SetOwn(h, b).refused = h.refused
           /\ SetOwn(h, b).trust = h.trust
           /\ SetOwn(h, b).pin = h.pin
BY DEF History, SetOwn

LEMMA SetMissedFields ==
    ASSUME NEW h \in History, NEW b \in BOOLEAN
    PROVE  /\ SetMissed(h, b) \in History
           /\ SetMissed(h, b).own = h.own
           /\ SetMissed(h, b).missed = b
           /\ SetMissed(h, b).uploads = h.uploads
           /\ SetMissed(h, b).refused = h.refused
           /\ SetMissed(h, b).trust = h.trust
           /\ SetMissed(h, b).pin = h.pin
BY DEF History, SetMissed

LEMMA SetUploadsFields ==
    ASSUME NEW h \in History, NEW n \in 0..1
    PROVE  /\ SetUploads(h, n) \in History
           /\ SetUploads(h, n).own = h.own
           /\ SetUploads(h, n).missed = h.missed
           /\ SetUploads(h, n).uploads = n
           /\ SetUploads(h, n).refused = h.refused
           /\ SetUploads(h, n).trust = h.trust
           /\ SetUploads(h, n).pin = h.pin
BY DEF History, SetUploads

LEMMA SetRefusedFields ==
    ASSUME NEW h \in History, NEW b \in BOOLEAN
    PROVE  /\ SetRefused(h, b) \in History
           /\ SetRefused(h, b).own = h.own
           /\ SetRefused(h, b).missed = h.missed
           /\ SetRefused(h, b).uploads = h.uploads
           /\ SetRefused(h, b).refused = b
           /\ SetRefused(h, b).trust = h.trust
           /\ SetRefused(h, b).pin = h.pin
BY DEF History, SetRefused

LEMMA SetTrustFields ==
    ASSUME NEW h \in History, NEW m \in TrustModes
    PROVE  /\ SetTrust(h, m) \in History
           /\ SetTrust(h, m).own = h.own
           /\ SetTrust(h, m).missed = h.missed
           /\ SetTrust(h, m).uploads = h.uploads
           /\ SetTrust(h, m).refused = h.refused
           /\ SetTrust(h, m).trust = m
           /\ SetTrust(h, m).pin = h.pin
BY DEF History, SetTrust

LEMMA SetHistoryPinFields ==
    ASSUME NEW h \in History, NEW p \in PinValues
    PROVE  /\ SetHistoryPin(h, p) \in History
           /\ SetHistoryPin(h, p).own = h.own
           /\ SetHistoryPin(h, p).missed = h.missed
           /\ SetHistoryPin(h, p).uploads = h.uploads
           /\ SetHistoryPin(h, p).refused = h.refused
           /\ SetHistoryPin(h, p).trust = h.trust
           /\ SetHistoryPin(h, p).pin = p
BY DEF History, SetHistoryPin

\* connect() with new settings: counter zeroed, session closed, cache and pin
\* replaced.
LEMMA Reconfigured ==
    ASSUME session \in Session, NEW config \in Config, NEW pin \in PinValues
    PROVE  LET s == [Disconnected(Uncounted) EXCEPT !.config = config,
                                                    !.pin = pin]
           IN  /\ s \in Session
               /\ s.began = session.began /\ s.connected = FALSE
               /\ s.reconnectBetween = session.reconnectBetween
               /\ s.stores = 0 /\ s.config = config /\ s.pin = pin
<1> DEFINE a == SetStores(session, 0)
           b == SetConnected(a, FALSE)
           c == SetConfig(b, config)
           d == SetPin(c, pin)
<1>1. [Disconnected(Uncounted) EXCEPT !.config = config, !.pin = pin] = d
  BY DEF Disconnected, Uncounted, SetStores, SetConnected, SetConfig, SetPin
<1>2. /\ a \in Session /\ a.began = session.began /\ a.stores = 0
      /\ a.reconnectBetween = session.reconnectBetween
  BY SetStoresFields, MaxStoresAssumption
<1> HIDE DEF a
<1>3. /\ b \in Session /\ b.began = session.began /\ b.stores = 0
      /\ b.reconnectBetween = session.reconnectBetween /\ b.connected = FALSE
  BY <1>2, SetConnectedFields
<1> HIDE DEF b
<1>4. /\ c \in Session /\ c.began = session.began /\ c.stores = 0
      /\ c.reconnectBetween = session.reconnectBetween /\ c.connected = FALSE
      /\ c.config = config
  BY <1>3, SetConfigFields
<1> HIDE DEF c
<1>5. /\ d \in Session /\ d.began = session.began /\ d.stores = 0
      /\ d.reconnectBetween = session.reconnectBetween /\ d.connected = FALSE
      /\ d.config = config /\ d.pin = pin
  BY <1>4, SetPinFields
<1> HIDE DEF d
<1> QED BY <1>1, <1>5

\* begin(): a new transport and an empty cache.
LEMMA Begun ==
    ASSUME session \in Session
    PROVE  LET s == [session EXCEPT !.began = TRUE, !.connected = FALSE,
                                    !.config = NoConfig, !.pin = NoPin]
           IN  /\ s \in Session
               /\ s.began = TRUE /\ s.connected = FALSE
               /\ s.config = NoConfig /\ s.pin = NoPin
<1> DEFINE a == SetBegan(session, TRUE)
           b == SetConnected(a, FALSE)
           c == SetConfig(b, NoConfig)
           d == SetPin(c, NoPin)
<1>1. [session EXCEPT !.began = TRUE, !.connected = FALSE,
                      !.config = NoConfig, !.pin = NoPin] = d
  BY DEF SetBegan, SetConnected, SetConfig, SetPin
<1>2. a \in Session /\ a.began = TRUE
  BY SetBeganFields
<1> HIDE DEF a
<1>3. b \in Session /\ b.began = TRUE /\ b.connected = FALSE
  BY <1>2, SetConnectedFields
<1> HIDE DEF b
<1>4. NoConfig \in Config
  BY DEF NoConfig, Config, TrustModes
<1>5. /\ c \in Session /\ c.began = TRUE /\ c.connected = FALSE
      /\ c.config = NoConfig
  BY <1>3, <1>4, SetConfigFields
<1> HIDE DEF c
<1>6. /\ d \in Session /\ d.began = TRUE /\ d.connected = FALSE
      /\ d.config = NoConfig /\ d.pin = NoPin
  BY <1>5, SetPinFields DEF PinValues
<1> HIDE DEF d
<1> QED BY <1>1, <1>6

\* store() counts itself, up to the bound.
LEMMA Counted ==
    ASSUME session \in Session
    PROVE  /\ StoreCounted \in Session
           /\ StoreCounted.began = session.began
           /\ StoreCounted.connected = session.connected
           /\ StoreCounted.reconnectBetween = session.reconnectBetween
           /\ StoreCounted.stores > 0
           /\ StoreCounted.config = session.config
           /\ StoreCounted.pin = session.pin
<1> DEFINE n == IF session.stores < MaxStores THEN session.stores + 1
                                              ELSE session.stores
<1>1. n \in 0..MaxStores /\ n > 0
  BY SessionFields, MaxStoresAssumption
<1>2. StoreCounted = SetStores(session, n)
  BY DEF StoreCounted, SetStores
<1> HIDE DEF n
<1> QED BY <1>1, <1>2, SetStoresFields

-----------------------------------------------------------------------------
(* Replies. *)

\* Commands answered once, and commands that start a transfer.
TransferCommands == {"STOR", "RETR", "MLSD", "LIST"}
PlainCommands == {"banner", "AUTH", "PBSZ", "PROT", "USER", "PASS", "TYPE",
                  "PASV", "MKD", "SIZE", "DELE", "RMD", "RNFR", "RNTO", "NOOP",
                  "QUIT"}

\* The answers to a plain command are single codes, none of them 150.
LEMMA PlainAnswers ==
    ASSUME NEW cmd \in PlainCommands, NEW a \in Answers[cmd]
    PROVE  a \in Seq(Codes) /\ Len(a) = 1 /\ a[1] # 150
<1>1. \E c \in Codes \ {150} : a = <<c>>
  BY DEF PlainCommands, Answers, Codes
<1>2. PICK c \in Codes \ {150} : a = <<c>>
  BY <1>1
<1>3. <<c>> \in Seq(Codes)
  OBVIOUS
<1> QED BY <1>2, <1>3

\* Those to a transfer command are a refusal, or 150 and a final reply.
LEMMA TransferCommandAnswers ==
    ASSUME NEW cmd \in TransferCommands, NEW a \in Answers[cmd]
    PROVE  /\ a \in Seq(Codes)
           /\ \/ Len(a) = 1 /\ a[1] = 550
              \/ Len(a) = 2 /\ a[1] = 150
<1>1. a \in TransferAnswers
  BY DEF TransferCommands, Answers
<1>2. a = <<550>> \/ a = <<150, 226>> \/ a = <<150, 451>>
  BY <1>1 DEF TransferAnswers
<1>3. {150, 226, 451, 550} \subseteq Codes
  BY DEF Codes
<1>4. <<550>> \in Seq(Codes) /\ <<150, 226>> \in Seq(Codes) /\ <<150, 451>> \in Seq(Codes)
  BY <1>3
<1>5. /\ Len(<<550>>) = 1 /\ <<550>>[1] = 550
      /\ Len(<<150, 226>>) = 2 /\ <<150, 226>>[1] = 150
      /\ Len(<<150, 451>>) = 2 /\ <<150, 451>>[1] = 150
  OBVIOUS
<1>6. CASE a = <<550>>
  BY <1>4, <1>5, <1>6
<1>7. CASE a = <<150, 226>>
  BY <1>4, <1>5, <1>7
<1>8. CASE a = <<150, 451>>
  BY <1>4, <1>5, <1>8
<1> QED BY <1>2, <1>6, <1>7, <1>8

\* A sequence of codes, as replies to the last command.
Marked(a) == [i \in DOMAIN a |-> [own |-> TRUE, code |-> a[i]]]

LEMMA MarkedReplies ==
    ASSUME NEW a \in Seq(Codes)
    PROVE  /\ Marked(a) \in Seq(Reply)
           /\ Len(Marked(a)) = Len(a)
           /\ \A i \in 1..Len(a) : Marked(a)[i] = [own |-> TRUE, code |-> a[i]]
<1>1. Len(a) \in Nat /\ DOMAIN a = 1..Len(a) /\ \A i \in 1..Len(a) : a[i] \in Codes
  BY LenProperties, ElementOfSeq
<1>2. \A i \in 1..Len(a) : [own |-> TRUE, code |-> a[i]] \in Reply
  BY <1>1 DEF Reply
<1> QED BY <1>1, <1>2 DEF Marked

\* Replies in flight when another command is sent.
Older(w) == [i \in DOMAIN w |-> [w[i] EXCEPT !.own = FALSE]]

LEMMA OlderReplies ==
    ASSUME NEW w \in Seq(Reply)
    PROVE  Older(w) \in Seq(Reply) /\ Len(Older(w)) = Len(w)
<1>1. Len(w) \in Nat /\ DOMAIN w = 1..Len(w) /\ \A i \in 1..Len(w) : w[i] \in Reply
  BY LenProperties, ElementOfSeq
<1>2. \A i \in 1..Len(w) : [w[i] EXCEPT !.own = FALSE] \in Reply
  <2> SUFFICES ASSUME NEW i \in 1..Len(w)
               PROVE  [w[i] EXCEPT !.own = FALSE] \in Reply
    OBVIOUS
  <2>1. \A r \in Reply : [r EXCEPT !.own = FALSE] \in Reply
    BY DEF Reply
  <2> QED BY <1>1, <2>1
<1> DEFINE f(i) == [w[i] EXCEPT !.own = FALSE]
<1>3. Older(w) = [i \in 1..Len(w) |-> f(i)]
  BY <1>1 DEF Older
<1>4. \A i \in 1..Len(w) : f(i) \in Reply
  BY <1>2
<1> HIDE DEF f
<1> QED BY <1>1, <1>3, <1>4

\* After a command, replies are in flight: the older ones and its answer.
LEMMA AfterSendingTyped ==
    ASSUME NEW w \in Seq(Reply), NEW cmd \in PlainCommands \cup TransferCommands,
           NEW w2 \in AfterSending(w, cmd)
    PROVE  w2 \in Seq(Reply)
<1>1. PICK a \in (IF Len(w) > MaxLate THEN {<<>>} ELSE Answers[cmd]) :
         w2 = Older(w) \o Marked(a)
  BY DEF AfterSending, Older, Marked
<1>2. a \in Seq(Codes)
  <2>1. CASE Len(w) > MaxLate
    BY <1>1, <2>1, EmptySeq
  <2>2. CASE ~(Len(w) > MaxLate)
    <3>1. a \in Answers[cmd]
      BY <1>1, <2>2
    <3>2. CASE cmd \in PlainCommands
      BY <3>1, <3>2, PlainAnswers
    <3>3. CASE cmd \in TransferCommands
      BY <3>1, <3>3, TransferCommandAnswers
    <3> QED BY <3>2, <3>3
  <2> QED BY <2>1, <2>2
<1> QED BY <1>1, <1>2, MarkedReplies, OlderReplies, ConcatProperties

\* What a wait that is given up leaves in flight is replies.
LEMMA AbandonedTyped ==
    ASSUME NEW w \in Seq(Reply), NEW left \in Abandoned(w)
    PROVE  left \in Seq(Reply)
<1>1. CASE left = w
  BY <1>1
<1>2. CASE w # <<>> /\ left \in {Tail(w), <<Garbled>> \o Tail(w),
                                <<Garbled>> \o w}
  <2>1. Tail(w) \in Seq(Reply)
    BY <1>2, HeadTailProperties
  <2>2. Garbled \in Reply
    BY DEF Garbled, Reply, Codes
  <2>3. <<Garbled>> \in Seq(Reply)
    BY <2>2
  <2>4. /\ <<Garbled>> \o Tail(w) \in Seq(Reply)
        /\ <<Garbled>> \o w \in Seq(Reply)
    BY <2>1, <2>3, ConcatProperties
  <2> QED BY <1>2, <2>1, <2>4
<1> QED BY <1>1, <1>2 DEF Abandoned

\* What reading a reply returns, and leaves in flight.
LEMMA ReadsTyped ==
    ASSUME NEW w \in Seq(Reply), NEW e \in Reads(w)
    PROVE  /\ e.code \in Codes \cup {Silence}
           /\ e.own \in BOOLEAN
           /\ e.rest \in Seq(Reply)
<1>1. CASE e \in {[code |-> Silence, own |-> TRUE, rest |-> left] :
                    left \in Abandoned(w)}
  <2>1. PICK left \in Abandoned(w) :
           e = [code |-> Silence, own |-> TRUE, rest |-> left]
    BY <1>1
  <2> QED BY <2>1, AbandonedTyped
<1>2. CASE /\ w # <<>>
           /\ e = [code |-> Head(w).code, own |-> Head(w).own,
                   rest |-> Tail(w)]
  <2>1. Head(w) \in Reply /\ Tail(w) \in Seq(Reply)
    BY <1>2, HeadTailProperties
  <2> QED BY <1>2, <2>1 DEF Reply
<1> QED BY <1>1, <1>2 DEF Reads

\* The same of an exchange.
LEMMA ExchangesTyped ==
    ASSUME NEW w \in Seq(Reply), NEW cmd \in PlainCommands \cup TransferCommands,
           NEW arg, NEW e \in Exchanges(w, cmd, arg)
    PROVE  /\ e.code \in Codes \cup {Silence}
           /\ e.own \in BOOLEAN
           /\ e.rest \in Seq(Reply)
<1>1. CASE arg = "long"
  <2>1. e \in Reads(w)
    BY <1>1 DEF Exchanges, Reads, Abandoned
  <2> QED BY <2>1, ReadsTyped
<1>2. CASE arg # "long"
  <2>1. PICK w2 \in AfterSending(w, cmd) : e \in Reads(w2)
    BY <1>2 DEF Exchanges
  <2> QED BY <2>1, AfterSendingTyped, ReadsTyped
<1> QED BY <1>1, <1>2

\* The final reply of the transfer in progress, and nothing else, in flight.
FinalPending(w) == Len(w) = 1 /\ w[1].own = TRUE

\* Reading it.
LEMMA FinalRead ==
    ASSUME NEW w \in Seq(Reply), FinalPending(w), NEW e \in Reads(w)
    PROVE  e.own = TRUE /\ (e.rest = <<>> \/ e.code = Silence)
<1>1. w # <<>> /\ Head(w) = w[1]
  BY EmptySeq DEF FinalPending
<1>2. Tail(w) \in Seq(Reply) /\ Len(Tail(w)) = 0
  BY <1>1, HeadTailProperties DEF FinalPending
<1>3. Tail(w) = <<>>
  BY <1>2, EmptySeq
<1> QED BY <1>1, <1>3 DEF Reads, FinalPending

\* On a connection with nothing in flight, an answer is to the command just
\* sent; after it there is nothing in flight but, after 150, the final reply.
LEMMA ExchangesPaired ==
    ASSUME NEW cmd \in PlainCommands \cup TransferCommands,
           NEW arg, NEW e \in Exchanges(<<>>, cmd, arg)
    PROVE  /\ e.own = TRUE
           /\ e.code \notin {150, Silence} => e.rest = <<>>
           /\ cmd \in PlainCommands => e.code # 150
           /\ e.code = 150 => FinalPending(e.rest)
<1> <<>> \in Seq(Reply)
  BY EmptySeq
<1>1. CASE arg = "long"
  BY <1>1 DEF Exchanges, Silence
<1>2. CASE arg # "long"
  <2>1. PICK w2 \in AfterSending(<<>>, cmd) : e \in Reads(w2)
    BY <1>2 DEF Exchanges
  <2>2. PICK a \in Answers[cmd] : w2 = Older(<<>>) \o Marked(a)
    <3>1. ~(Len(<<>>) > MaxLate)
      BY MaxLateAssumption
    <3> QED BY <2>1, <3>1 DEF AfterSending, Older, Marked
  <2>3. /\ a \in Seq(Codes) /\ Len(a) \in {1, 2}
        /\ Len(a) = 1 => a[1] # 150
        /\ Len(a) = 2 => a[1] = 150 /\ cmd \notin PlainCommands
    BY PlainAnswers, TransferCommandAnswers DEF PlainCommands, TransferCommands
  <2>4. w2 = Marked(a)
    <3>1. Older(<<>>) = <<>>
      BY OlderReplies, EmptySeq
    <3> QED BY <2>2, <2>3, <3>1, MarkedReplies, ConcatEmptySeq
  <2>5. /\ w2 \in Seq(Reply) /\ Len(w2) = Len(a)
        /\ w2[1].own = TRUE /\ w2[1].code = a[1]
        /\ Len(a) = 2 => w2[2].own = TRUE
    <3>1. /\ w2 \in Seq(Reply) /\ Len(w2) = Len(a)
          /\ \A i \in 1..Len(a) : w2[i] = [own |-> TRUE, code |-> a[i]]
      BY <2>3, <2>4, MarkedReplies
    <3>2. 1 \in 1..Len(a) /\ (Len(a) = 2 => 2 \in 1..Len(a))
      <4>1. \A n \in {1, 2} : 1 \in 1..n /\ (n = 2 => 2 \in 1..n)
        OBVIOUS
      <4>2. Len(a) \in {1, 2}
        BY <2>3
      <4> QED BY <4>1, <4>2, Zenon
    <3>3. w2[1] = [own |-> TRUE, code |-> a[1]]
      BY <3>1, <3>2
    <3>4. Len(a) = 2 => w2[2] = [own |-> TRUE, code |-> a[2]]
      BY <3>1, <3>2
    <3> QED BY <3>1, <3>3, <3>4
  <2>6. w2 # <<>> /\ Head(w2) = w2[1]
    BY <2>3, <2>5, EmptySeq
  <2>7. /\ Tail(w2) \in Seq(Reply) /\ Len(Tail(w2)) = Len(a) - 1
        /\ \A i \in 1..Len(Tail(w2)) : Tail(w2)[i] = w2[i + 1]
    BY <2>5, <2>6, HeadTailProperties
  <2>8. Head(w2).own = TRUE /\ Head(w2).code = a[1]
    BY <2>3, <2>5, <2>6
  <2>9. CASE Len(a) = 1
    <3>1. Tail(w2) = <<>>
      BY <2>7, <2>9, EmptySeq
    <3> QED BY <2>1, <2>3, <2>6, <2>8, <2>9, <3>1 DEF Reads, Silence
  <2>10. CASE Len(a) = 2
    <3>1. Len(Tail(w2)) = 1
      BY <2>7, <2>10
    <3>2. Tail(w2)[1] = w2[2]
      <4> DEFINE u == Tail(w2)
      <4>1. Len(u) = 1 /\ \A i \in 1..Len(u) : u[i] = w2[i + 1]
        BY <2>7, <3>1
      <4> HIDE DEF u
      <4>2. 1 \in 1..Len(u) /\ 1 + 1 = 2
        BY <4>1
      <4>3. u[1] = w2[1 + 1]
        BY <4>1, <4>2
      <4> QED BY <4>2, <4>3 DEF u
    <3>3. FinalPending(Tail(w2))
      BY <2>5, <2>10, <3>1, <3>2 DEF FinalPending
    <3>4. CASE e.code = Silence /\ e.own = TRUE
      BY <3>4 DEF Silence
    <3>5. CASE e = [code |-> Head(w2).code, own |-> Head(w2).own,
                    rest |-> Tail(w2)]
      BY <2>3, <2>8, <2>10, <3>3, <3>5
    <3>6. \/ e.own = TRUE /\ e.code = Silence
          \/ e = [code |-> Head(w2).code, own |-> Head(w2).own,
                  rest |-> Tail(w2)]
      BY <2>1, <2>6 DEF Reads
    <3> QED BY <3>4, <3>5, <3>6
  <2> QED BY <2>3, <2>9, <2>10
<1> QED BY <1>1, <1>2

-----------------------------------------------------------------------------
(* The first invariant. *)

Typed ==
    /\ Sound(transport)
    /\ session \in Session
    /\ wire \in Seq(Reply)
    /\ call \in Calls
    /\ result \in Results
    /\ history \in History

\* A call that uses the session has one; a login has none yet.
SessionFollowsCall ==
    /\ call.pc \in TransferSteps \cup {"rnto"} => Usable
    /\ call.pc \in ConnectSteps => session.began /\ ~session.connected

ClientInv == Typed /\ SocketsFollowCall /\ SessionFollowsCall

\* The stages of the channels the transport's methods leave, and back.
LEMMA Stages ==
    /\ Stage(Closed) = "closed"
    /\ Stage(Connected) = "tcp"
    /\ \A cert : Stage(Secured(cert)) = "tls"
BY DEF Stage, Closed, Connected, Secured

LEMMA StageTells ==
    ASSUME NEW ch, SoundChannel(ch)
    PROVE  /\ Stage(ch) = "closed" <=> ~ch.tcp
           /\ Stage(ch) = "tcp" => ch.tcp /\ ~ch.tls
           /\ Stage(ch) = "tls" <=> ch.tls
BY DEF Stage, SoundChannel, WrapperHasSocket, Channel

LEMMA StageClosed ==
    ASSUME NEW ch, SoundChannel(ch), Stage(ch) = "closed"
    PROVE  ch = Closed
<1>1. /\ ch \in Channel /\ Closed \in Channel /\ ~ch.tcp /\ ~ch.tls /\ ~ch.up
      /\ ch.peer = NoCert
  BY StageTells, ClosedSound DEF SoundChannel, WrapperHasSocket
<1>2. /\ Closed.tcp = FALSE /\ Closed.tls = FALSE /\ Closed.up = FALSE
      /\ Closed.peer = NoCert
  BY DEF Closed
<1>3. ch.tcp = FALSE /\ ch.tls = FALSE /\ ch.up = FALSE
  BY <1>1 DEF Channel
<1> QED BY <1>1, <1>2, <1>3, SameChannel

\* What the steps of a call can be.
LEMMA CallFields ==
    ASSUME NEW c \in Calls
    PROVE  /\ c.pc \in {"idle", "rnto"} \cup ConnectSteps \cup TransferSteps
           /\ c.pc = "idle" => c = Idle
           /\ c.pc \in ConnectSteps => c.op \in ConnectOps
           /\ c.pc \in TransferSteps => c.op \in TransferOps
           /\ c.pc = "rnto" => c.op = "rename"
           /\ c.arg \in Arguments
BY DEF Calls, Idle, ConnectSteps, TransferSteps, Arguments

\* A call goes on within the login, or within a transfer.
LEMMA NextLoginStep ==
    ASSUME call \in Calls, call.pc \in ConnectSteps, NEW pc \in ConnectSteps
    PROVE  /\ [call EXCEPT !.pc = pc] \in Calls
           /\ [call EXCEPT !.pc = pc].pc = pc
           /\ [call EXCEPT !.pc = pc].op = call.op
BY DEF Calls, Idle, ConnectSteps, TransferSteps

LEMMA NextTransferStep ==
    ASSUME call \in Calls, call.op \in TransferOps,
           call.pc \in TransferSteps \cup ConnectSteps,
           NEW pc \in TransferSteps
    PROVE  /\ [call EXCEPT !.pc = pc] \in Calls
           /\ [call EXCEPT !.pc = pc].pc = pc
           /\ [call EXCEPT !.pc = pc].op = call.op
BY DEF Calls, Idle, ConnectSteps, TransferSteps

\* A call begins.
LEMMA NewCall ==
    ASSUME NEW op, NEW pc, NEW arg \in Arguments,
           (op \in ConnectOps /\ pc \in ConnectSteps)
             \/ (op \in TransferOps /\ pc \in TransferSteps)
    PROVE  [op |-> op, pc |-> pc, arg |-> arg] \in Calls
BY DEF Calls

\* The result of a call.
LEMMA NewResult ==
    ASSUME NEW op \in Ops, NEW ok \in BOOLEAN, NEW err \in FtpsError
    PROVE  [op |-> op, ok |-> ok, lastError |-> err] \in Results
BY DEF Results

LEMMA NoResultTyped == NoResult \in Results
BY DEF NoResult, Results, FtpsError

\* The errors the calls report are error values.
LEMMA Errors ==
    /\ \A op \in SessionOps : FailError[op] \in FtpsError
    /\ SessionDeadErrors \subseteq FtpsError
    /\ {"None", "QuitFailed", "SizeQueryFailed", "RenameFailed",
        "PasvParseFailed", "PassiveModeRejected", "DataConnectionFailed",
        "SessionReuseRequired", "DataTlsHandshakeFailed", "TransferFailed",
        "FinalReplyFailed"} \subseteq FtpsError
BY DEF FailError, SessionOps, FtpsError, SessionDeadErrors

\* The calls' names.
LEMMA Names ==
    /\ SessionOps \subseteq Ops /\ ConnectOps \subseteq Ops
    /\ TransferOps \subseteq SessionOps
    /\ {"mkd", "dele", "rmd", "noop", "size", "rename"} \subseteq SessionOps
    /\ {"begin", "connect", "reconnect", "discover", "quit"} \subseteq Ops
BY DEF Ops, SessionOps, ConnectOps, TransferOps, FailError

\* A transport that replaces another is closed, and holds nothing.
LEMMA DeletedSound ==
    ASSUME NEW t, Sound(t)
    PROVE  /\ Sound(Deleted(t))
           /\ Deleted(t).control = Closed /\ Deleted(t).data = Closed
<1> DEFINE c == CloseAll(t)
<1>1. c.sockets = 0 /\ c.wrappers = 0 /\ c.overwritten = 0
  <2>1. Sound(c) /\ c.control = Closed /\ c.data = Closed
    BY CloseAllSound
  <2> QED BY <2>1, ClosedSound DEF Sound, Accounted
<1>2. Deleted(t) = [NewTransport EXCEPT !.sockets = c.sockets,
                                        !.wrappers = c.wrappers,
                                        !.overwritten = c.overwritten]
  BY DEF Deleted
<1> HIDE DEF c
<1>3. Deleted(t) = NewTransport
  BY <1>1, <1>2 DEF NewTransport
<1> QED BY <1>3, NewTransportSound

\* The settings of a handshake.
LEMMA SessionTlsTyped ==
    ASSUME session \in Session
    PROVE  SessionTls \in TlsConfig /\ DiscoveryTls \in TlsConfig
<1>1. /\ session.pin \in PinValues /\ NoPin \in PinValues
      /\ session.config.complete \in BOOLEAN
  BY SessionFields DEF PinValues, Config
<1> QED BY <1>1 DEF SessionTls, DiscoveryTls, TlsConfig

\* Hearing a reply, and giving up on one.
LEMMA HeardTyped ==
    ASSUME history \in History, NEW e, e.own \in BOOLEAN, Heard(e)
    PROVE  /\ history' \in History
           /\ history'.own = (history.own /\ e.own)
           /\ history'.missed = history.missed
           /\ history'.uploads = history.uploads
           /\ history'.refused = history.refused
           /\ history'.trust = history.trust /\ history'.pin = history.pin
<1>1. history' = SetOwn(history, history.own /\ e.own)
  BY DEF Heard, SetOwn
<1> QED BY <1>1, SetOwnFields, HistoryFields

-----------------------------------------------------------------------------
(* How a step may leave the client. *)

\* With no session: both channels closed.
LEMMA EndsDown ==
    ASSUME Sound(transport'), transport'.control = Closed,
           transport'.data = Closed,
           session' \in Session, ~(session'.began /\ session'.connected),
           wire' \in Seq(Reply), call' = Idle, result' \in Results,
           history' \in History
    PROVE  ClientInv'
<1>1. call' \in Calls /\ call'.pc = "idle"
  BY DEF Calls, Idle
<1>2. Typed'
  BY <1>1 DEF Typed
<1>3. SocketsFollowCall'
  BY <1>1, Stages
     DEF SocketsFollowCall, ControlStage, DataStage, Usable
<1>4. SessionFollowsCall'
  BY <1>1 DEF SessionFollowsCall, TransferSteps, ConnectSteps
<1> QED BY <1>2, <1>3, <1>4 DEF ClientInv

\* With the session it had, or has made: the control channel under TLS.
LEMMA EndsUp ==
    ASSUME Sound(transport'), transport'.control.tls, transport'.data = Closed,
           session' \in Session, session'.began /\ session'.connected,
           wire' \in Seq(Reply), call' = Idle, result' \in Results,
           history' \in History
    PROVE  ClientInv'
<1>1. call' \in Calls /\ call'.pc = "idle"
  BY DEF Calls, Idle
<1>2. Typed'
  BY <1>1 DEF Typed
<1>3. Stage(transport'.control) = "tls" /\ Stage(transport'.data) = "closed"
  BY Stages, StageTells DEF Sound, Accounted
<1>4. SocketsFollowCall'
  BY <1>1, <1>3 DEF SocketsFollowCall, ControlStage, DataStage, Usable
<1>5. SessionFollowsCall'
  BY <1>1 DEF SessionFollowsCall, TransferSteps, ConnectSteps
<1> QED BY <1>2, <1>4, <1>5 DEF ClientInv

\* As it was, between calls.
LEMMA EndsSame ==
    ASSUME ClientInv, call = Idle, UNCHANGED <<transport, wire>>,
           session' \in Session, session'.began = session.began,
           session'.connected = session.connected,
           call' = Idle, result' \in Results, history' \in History
    PROVE  ClientInv'
<1>1. Typed'
  BY DEF ClientInv, Typed
<1>2. SocketsFollowCall'
  BY DEF ClientInv, SocketsFollowCall, ControlStage, DataStage, Usable
<1>3. SessionFollowsCall'
  BY DEF SessionFollowsCall, Idle, TransferSteps, ConnectSteps
<1> QED BY <1>1, <1>2, <1>3 DEF ClientInv

\* In the middle of a login.
LEMMA EndsInLogin ==
    ASSUME Sound(transport'), transport'.data = Closed,
           session' \in Session, session'.began, ~session'.connected,
           wire' \in Seq(Reply), call' \in Calls, call'.pc \in ConnectSteps,
           result' \in Results, history' \in History,
           Stage(transport'.control) = ControlStage'
    PROVE  ClientInv'
<1>1. Typed'
  BY DEF Typed
<1>2. SocketsFollowCall'
  BY Stages DEF SocketsFollowCall, DataStage, ConnectSteps
<1>3. SessionFollowsCall'
  BY DEF SessionFollowsCall, TransferSteps, ConnectSteps
<1> QED BY <1>1, <1>2, <1>3 DEF ClientInv

\* In the middle of a call on the session.
LEMMA EndsInCall ==
    ASSUME Sound(transport'), transport'.control.tls,
           session' \in Session, session'.began, session'.connected,
           wire' \in Seq(Reply), call' \in Calls,
           call'.pc \in TransferSteps \cup {"rnto"},
           result' \in Results, history' \in History,
           Stage(transport'.data) = DataStage'
    PROVE  ClientInv'
<1>1. Typed'
  BY DEF Typed
<1>2. Stage(transport'.control) = "tls"
  BY StageTells DEF Sound, Accounted
<1>3. SocketsFollowCall'
  BY <1>2 DEF SocketsFollowCall, ControlStage, TransferSteps
<1>4. SessionFollowsCall'
  BY DEF SessionFollowsCall, TransferSteps, ConnectSteps, Usable
<1> QED BY <1>1, <1>3, <1>4 DEF ClientInv

\* What the invariant says before a step.
LEMMA Before ==
    ASSUME ClientInv
    PROVE  /\ Typed
           /\ call = Idle \/ call.pc # "idle"
           /\ call = Idle /\ Usable =>
                transport.control.tls /\ transport.data = Closed
           /\ call = Idle /\ ~Usable =>
                transport.control = Closed /\ transport.data = Closed
           /\ call.pc \in ConnectSteps =>
                /\ session.began /\ ~session.connected
                /\ transport.data = Closed
                /\ Stage(transport.control) = ControlStage
           /\ call.pc \in TransferSteps \cup {"rnto"} =>
                /\ session.began /\ session.connected
                /\ transport.control.tls
                /\ Stage(transport.data) = DataStage
<1>1. Typed /\ SocketsFollowCall /\ SessionFollowsCall
  BY DEF ClientInv
<1>2. SoundChannel(transport.control) /\ SoundChannel(transport.data)
  BY <1>1 DEF Typed, Sound, Accounted
<1>3. \A ch : SoundChannel(ch) /\ Stage(ch) = "closed" => ch = Closed
  BY StageClosed
<1>4. call = Idle \/ call.pc # "idle"
  BY <1>1, CallFields DEF Typed
<1>5. ASSUME call = Idle
      PROVE  /\ DataStage = "closed"
             /\ ControlStage = IF Usable THEN "tls" ELSE "closed"
  BY <1>5 DEF Idle, DataStage, ControlStage
<1>6. call = Idle /\ Usable => transport.control.tls /\ transport.data = Closed
  BY <1>1, <1>2, <1>3, <1>5, StageTells DEF SocketsFollowCall
<1>7. call = Idle /\ ~Usable => transport.control = Closed /\ transport.data = Closed
  BY <1>1, <1>2, <1>3, <1>5 DEF SocketsFollowCall
<1>8. ASSUME call.pc \in ConnectSteps
      PROVE  /\ session.began /\ ~session.connected
             /\ transport.data = Closed
             /\ Stage(transport.control) = ControlStage
  <2>1. DataStage = "closed"
    BY <1>8 DEF ConnectSteps, DataStage
  <2> QED BY <1>1, <1>2, <1>3, <1>8, <2>1 DEF SocketsFollowCall, SessionFollowsCall
<1>9. ASSUME call.pc \in TransferSteps \cup {"rnto"}
      PROVE  /\ session.began /\ session.connected
             /\ transport.control.tls
             /\ Stage(transport.data) = DataStage
  <2>1. ControlStage = "tls"
    BY <1>9 DEF TransferSteps, ControlStage
  <2> QED
    BY <1>1, <1>2, <1>9, <2>1, StageTells
       DEF SocketsFollowCall, SessionFollowsCall, Usable
<1> QED BY <1>1, <1>4, <1>6, <1>7, <1>8, <1>9

-----------------------------------------------------------------------------
(* The calls of one exchange. *)

LEMMA BeginStep == ASSUME ClientInv, Begin PROVE ClientInv'
<1> USE DEF Begin
<1>1. Typed
  BY Before
<1>2. Sound(transport') /\ transport'.control = Closed /\ transport'.data = Closed
  BY <1>1, DeletedSound DEF Typed
<1>3. session' \in Session /\ ~session'.connected
  BY <1>1, Begun DEF Typed, Finish
<1>4. result' \in Results
  BY NewResult, Errors, Names DEF Finish
<1>5. history' \in History
  <2>1. history' = SetRefused(history, FALSE)
    BY DEF SetRefused
  <2> QED BY <1>1, <2>1, SetRefusedFields DEF Typed
<1> QED BY <1>2, <1>3, <1>4, <1>5, EndsDown, EmptySeq DEF Finish

LEMMA BeginWithoutMemoryStep ==
    ASSUME ClientInv, BeginWithoutMemory PROVE ClientInv'
<1> USE DEF BeginWithoutMemory
<1>1. Typed
  BY Before
<1>2. Sound(transport') /\ transport'.control = Closed /\ transport'.data = Closed
  BY <1>1, DeletedSound DEF Typed
<1>3. session' \in Session /\ ~session'.began
  <2>1. session' = SetBegan(session, FALSE)
    BY DEF Finish, SetBegan
  <2> QED BY <1>1, <2>1, SetBeganFields DEF Typed
<1>4. result' \in Results
  BY NewResult, Errors, Names DEF Finish, SessionDeadErrors
<1> QED BY <1>1, <1>2, <1>3, <1>4, EndsDown, EmptySeq DEF Finish, Typed

\* A call that changes nothing but what it returns.
LEMMA RefusalStep ==
    ASSUME ClientInv, call = Idle, NEW op \in Ops, NEW ok \in BOOLEAN,
           NEW err \in FtpsError, Finish(op, ok, err, session),
           UNCHANGED <<transport, wire, history>>
    PROVE  ClientInv'
<1>1. Typed
  BY Before
<1>2. result' \in Results /\ call' = Idle /\ session' = session
  BY NewResult DEF Finish
<1> QED BY <1>1, <1>2, EndsSame DEF Typed

LEMMA Refusals ==
    ASSUME ClientInv,
           \/ BeginWithoutNetwork \/ NotConnected \/ MissingArgument
           \/ ReconnectBeforeBegin \/ DiscoverRefused
    PROVE  ClientInv'
<1>1. CASE BeginWithoutNetwork
  BY <1>1, RefusalStep, Errors, Names DEF BeginWithoutNetwork, SessionDeadErrors
<1>2. CASE NotConnected
  BY <1>2, RefusalStep, Errors, Names DEF NotConnected, SessionDeadErrors
<1>3. CASE MissingArgument
  BY <1>3, RefusalStep, Errors, Names DEF MissingArgument
<1>4. CASE ReconnectBeforeBegin
  BY <1>4, RefusalStep, Errors, Names DEF ReconnectBeforeBegin, SessionDeadErrors
<1>5. CASE DiscoverRefused
  <2>1. PICK err \in {"ConnectionFailed", "CertValidationFailed",
                      "NetworkNotInitialized"} :
           Finish("discover", FALSE, err, session)
    BY <1>5 DEF DiscoverRefused
  <2>2. err \in FtpsError
    BY <2>1, Errors DEF SessionDeadErrors
  <2> QED BY <1>5, <2>1, <2>2, RefusalStep, Names DEF DiscoverRefused
<1> QED BY <1>1, <1>2, <1>3, <1>4, <1>5

LEMMA SetReconnectStep ==
    ASSUME ClientInv, SetReconnectBetweenStores PROVE ClientInv'
<1> USE DEF SetReconnectBetweenStores
<1>1. Typed
  BY Before
<1>2. PICK enabled \in BOOLEAN :
         session' = [session EXCEPT !.reconnectBetween = enabled]
  OBVIOUS
<1>3. /\ session' \in Session /\ session'.began = session.began
      /\ session'.connected = session.connected
  BY <1>1, <1>2 DEF Typed, Session
<1> QED BY <1>1, <1>3, EndsSame DEF Typed

\* A call that closes everything and reports err.
LEMMA DisconnectStep ==
    ASSUME Typed, NEW t, Sound(t), transport' = CloseAll(t), wire' = <<>>,
           NEW op \in Ops, NEW ok \in BOOLEAN, NEW err \in FtpsError,
           NEW s \in Session, ~(s.began /\ s.connected), Finish(op, ok, err, s),
           history' \in History
    PROVE  ClientInv'
<1>1. Sound(transport') /\ transport'.control = Closed /\ transport'.data = Closed
  BY CloseAllSound
<1>2. result' \in Results /\ call' = Idle /\ session' = s
  BY NewResult DEF Finish
<1> QED BY <1>1, <1>2, EndsDown, EmptySeq

LEMMA FailAndDisconnectStep ==
    ASSUME Typed, NEW op \in Ops, NEW err \in FtpsError,
           FailAndDisconnect(op, err), history' \in History
    PROVE  ClientInv'
<1>1. /\ Disconnected(session) \in Session
      /\ Disconnected(session) = SetConnected(session, FALSE)
      /\ ~Disconnected(session).connected
  BY SetConnectedFields DEF Disconnected, Typed, SetConnected
<1> QED BY <1>1, DisconnectStep DEF FailAndDisconnect, Typed

\* A call on the session that returns and keeps it.
LEMMA KeepStep ==
    ASSUME Typed, Usable, transport.control.tls, NEW t, Sound(t),
           t.control = transport.control, t.data = Closed, transport' = t,
           wire' \in Seq(Reply), NEW op \in Ops, NEW ok \in BOOLEAN,
           NEW err \in FtpsError, NEW s \in Session, s.began = session.began,
           s.connected = session.connected, Finish(op, ok, err, s),
           history' \in History
    PROVE  ClientInv'
<1>1. result' \in Results /\ call' = Idle /\ session' = s
  BY NewResult DEF Finish
<1> QED BY <1>1, EndsUp DEF Usable

LEMMA QuitStep == ASSUME ClientInv, Quit PROVE ClientInv'
<1> USE DEF Quit
<1>1. Typed
  BY Before
<1>2. /\ Disconnected(session) \in Session
      /\ Disconnected(session) = SetConnected(session, FALSE)
      /\ ~Disconnected(session).connected
  BY <1>1, SetConnectedFields DEF Disconnected, Typed, SetConnected
<1>3. "None" \in FtpsError /\ "QuitFailed" \in FtpsError /\ "quit" \in Ops
  BY Errors, Names
<1>4. CASE ~session.began /\ Finish("quit", TRUE, "None", Disconnected(session))
  BY <1>1, <1>2, <1>3, <1>4, DisconnectStep DEF Typed
<1>5. CASE /\ session.began /\ ~session.connected
           /\ Finish("quit", TRUE, result.lastError, session)
  <2>1. result.lastError \in FtpsError
    BY <1>1 DEF Typed, Results
  <2> QED BY <1>1, <1>3, <1>5, <2>1, DisconnectStep DEF Typed
<1>6. CASE /\ Usable
           /\ \E e \in Exchanges(wire, "QUIT", "ok") :
                 Finish("quit", TRUE,
                        IF e.code = 221 THEN "None" ELSE "QuitFailed",
                        Disconnected(session))
  <2>1. PICK err \in {"None", "QuitFailed"} :
           Finish("quit", TRUE, err, Disconnected(session))
    BY <1>6
  <2> QED BY <1>1, <1>2, <1>3, <2>1, DisconnectStep DEF Typed
<1> QED BY <1>4, <1>5, <1>6

LEMMA SendCommandStep ==
    ASSUME ClientInv, NEW op \in SessionOps, NEW cmd \in PlainCommands,
           NEW good, NEW args, SendCommand(op, cmd, good, args)
    PROVE  ClientInv'
<1>1. call = Idle /\ Usable
  BY DEF SendCommand
<1>2. /\ Typed /\ transport.control.tls /\ transport.data = Closed
      /\ Sound(transport) /\ session \in Session /\ wire \in Seq(Reply)
      /\ history \in History
  BY <1>1, Before DEF Typed
<1>3. PICK arg, e :
         /\ e \in Exchanges(wire, cmd, arg) /\ Heard(e)
         /\ \/ FailAndDisconnect(op, "ConnectionFailed")
            \/ /\ wire' = e.rest /\ UNCHANGED transport
               /\ \/ Finish(op, TRUE, "None", session)
                  \/ Finish(op, FALSE, FailError[op], session)
  BY DEF SendCommand
<1>4. e.own \in BOOLEAN /\ e.rest \in Seq(Reply)
  BY <1>2, <1>3, ExchangesTyped
<1>5. history' \in History
  BY <1>2, <1>3, <1>4, HeardTyped
<1>6. op \in Ops /\ FailError[op] \in FtpsError
  BY Errors, Names
<1>7. CASE FailAndDisconnect(op, "ConnectionFailed")
  BY <1>2, <1>5, <1>6, <1>7, FailAndDisconnectStep, Errors DEF SessionDeadErrors
<1>8. CASE /\ wire' = e.rest /\ UNCHANGED transport
           /\ \/ Finish(op, TRUE, "None", session)
              \/ Finish(op, FALSE, FailError[op], session)
  <2>1. "None" \in FtpsError
    BY Errors
  <2> QED BY <1>1, <1>2, <1>4, <1>5, <1>6, <1>8, <2>1, KeepStep
<1> QED BY <1>3, <1>7, <1>8

LEMMA Commands ==
    ASSUME ClientInv, Mkd \/ Dele \/ Rmd \/ IsControlAlive \/ Size
    PROVE  ClientInv'
<1>1. {"MKD", "DELE", "RMD", "NOOP", "SIZE"} \subseteq PlainCommands
  BY DEF PlainCommands
<1>2. CASE Mkd
  BY <1>1, <1>2, SendCommandStep, Names DEF Mkd
<1>3. CASE Dele
  BY <1>1, <1>3, SendCommandStep, Names DEF Dele
<1>4. CASE Rmd
  BY <1>1, <1>4, SendCommandStep, Names DEF Rmd
<1>5. CASE IsControlAlive
  BY <1>1, <1>5, SendCommandStep, Names DEF IsControlAlive
<1>6. CASE Size
  BY <1>1, <1>6, SendCommandStep, Names DEF Size
<1> QED BY <1>2, <1>3, <1>4, <1>5, <1>6

LEMMA SizeMalformedStep == ASSUME ClientInv, SizeMalformed PROVE ClientInv'
<1>1. /\ call = Idle /\ Usable /\ UNCHANGED transport
      /\ Finish("size", FALSE, "SizeQueryFailed", session)
  BY DEF SizeMalformed
<1>2. /\ Typed /\ transport.control.tls /\ transport.data = Closed
      /\ Sound(transport) /\ session \in Session /\ wire \in Seq(Reply)
      /\ history \in History
  BY <1>1, Before DEF Typed
<1>3. PICK e \in Exchanges(wire, "SIZE", "ok") : Heard(e) /\ wire' = e.rest
  BY DEF SizeMalformed
<1>4. e.own \in BOOLEAN /\ e.rest \in Seq(Reply)
  BY <1>2, <1>3, ExchangesTyped DEF PlainCommands
<1>5. history' \in History
  BY <1>2, <1>3, <1>4, HeardTyped
<1> QED
  BY <1>1, <1>2, <1>3, <1>4, <1>5, KeepStep, Errors, Names

LEMMA RenameFromStep == ASSUME ClientInv, RenameFrom PROVE ClientInv'
<1>1. call = Idle /\ Usable
  BY DEF RenameFrom
<1>2. /\ Typed /\ transport.control.tls /\ transport.data = Closed
      /\ Sound(transport) /\ session \in Session /\ wire \in Seq(Reply)
      /\ history \in History
  BY <1>1, Before DEF Typed
<1>3. PICK arg, e :
         /\ e \in Exchanges(wire, "RNFR", arg) /\ Heard(e)
         /\ \/ e.code = Silence /\ FailAndDisconnect("rename", "ConnectionFailed")
            \/ /\ e.code = 350
               /\ wire' = e.rest
               /\ StartCall("rename", "rnto", "ok")
               /\ UNCHANGED <<transport, session>>
            \/ /\ e.code \notin {350, Silence}
               /\ wire' = e.rest
               /\ Finish("rename", FALSE, "RenameFailed", session)
               /\ UNCHANGED transport
  BY DEF RenameFrom
<1>4. e.own \in BOOLEAN /\ e.rest \in Seq(Reply)
  BY <1>2, <1>3, ExchangesTyped DEF PlainCommands
<1>5. history' \in History
  BY <1>2, <1>3, <1>4, HeardTyped
<1>6. "rename" \in Ops
  BY Names
<1>7. CASE FailAndDisconnect("rename", "ConnectionFailed")
  BY <1>2, <1>5, <1>6, <1>7, FailAndDisconnectStep, Errors DEF SessionDeadErrors
<1>8. CASE /\ wire' = e.rest /\ UNCHANGED <<transport, session>>
           /\ StartCall("rename", "rnto", "ok")
  <2>1. call' = [op |-> "rename", pc |-> "rnto", arg |-> "ok"]
    BY <1>8 DEF StartCall
  <2>2. call' \in Calls /\ call'.pc = "rnto"
    BY <2>1 DEF Calls
  <2>3. result' \in Results
    BY <1>8, NoResultTyped DEF StartCall
  <2>4. DataStage' = "closed"
    BY <2>2 DEF DataStage
  <2> QED
    BY <1>1, <1>2, <1>4, <1>5, <1>8, <2>2, <2>3, <2>4, EndsInCall, Stages
       DEF Usable
<1>9. CASE /\ wire' = e.rest /\ UNCHANGED transport
           /\ Finish("rename", FALSE, "RenameFailed", session)
  BY <1>1, <1>2, <1>4, <1>5, <1>6, <1>9, KeepStep, Errors
<1> QED BY <1>3, <1>7, <1>8, <1>9

LEMMA RenameToStep == ASSUME ClientInv, RenameTo PROVE ClientInv'
<1>1. call.pc = "rnto"
  BY DEF RenameTo
<1>2. DataStage = "closed"
  BY <1>1 DEF DataStage
<1>3. /\ Typed /\ transport.control.tls /\ Usable
      /\ Sound(transport) /\ session \in Session /\ wire \in Seq(Reply)
      /\ history \in History
  BY <1>1, Before DEF Typed, Usable
<1>4. transport.data = Closed
  BY <1>1, <1>2, <1>3, Before, StageClosed DEF Sound, Accounted
<1>5. PICK arg, e :
         /\ e \in Exchanges(wire, "RNTO", arg) /\ Heard(e)
         /\ \/ FailAndDisconnect("rename", "ConnectionFailed")
            \/ /\ wire' = e.rest /\ UNCHANGED transport
               /\ Finish("rename", e.code = 250,
                         IF e.code = 250 THEN "None" ELSE "RenameFailed",
                         session)
  BY DEF RenameTo
<1>6. e.own \in BOOLEAN /\ e.rest \in Seq(Reply)
  BY <1>3, <1>5, ExchangesTyped DEF PlainCommands
<1>7. history' \in History
  BY <1>3, <1>5, <1>6, HeardTyped
<1>8. "rename" \in Ops
  BY Names
<1>9. CASE FailAndDisconnect("rename", "ConnectionFailed")
  BY <1>3, <1>7, <1>8, <1>9, FailAndDisconnectStep, Errors DEF SessionDeadErrors
<1>10. CASE /\ wire' = e.rest /\ UNCHANGED transport
            /\ Finish("rename", e.code = 250,
                      IF e.code = 250 THEN "None" ELSE "RenameFailed",
                      session)
  <2>1. PICK ok \in BOOLEAN, err \in {"None", "RenameFailed"} :
           Finish("rename", ok, err, session)
    BY <1>10
  <2>2. err \in FtpsError
    BY <2>1, Errors
  <2> QED BY <1>3, <1>4, <1>6, <1>7, <1>8, <1>10, <2>1, <2>2, KeepStep
<1> QED BY <1>5, <1>9, <1>10

-----------------------------------------------------------------------------
(* connect(), reconnect() and discoverFingerprint(): up to the login. *)

\* connect() that refuses its arguments leaves the session as it is.
LEMMA RefuseStep ==
    ASSUME ClientInv, NEW s \in Session, s.began = session.began,
           s.connected = session.connected, NEW errors,
           errors \subseteq FtpsError, Refuse(s, errors)
    PROVE  ClientInv'
<1>1. /\ call = Idle /\ UNCHANGED <<transport, wire>>
      /\ history' = SetRefused(history, TRUE)
  BY DEF Refuse, SetRefused
<1>2. PICK err \in errors : Finish("connect", FALSE, err, s)
  BY DEF Refuse
<1>3. Typed
  BY Before
<1>4. history' \in History
  BY <1>1, <1>3, SetRefusedFields DEF Typed
<1>5. result' \in Results /\ call' = Idle /\ session' = s
  BY <1>2, NewResult, Names DEF Finish
<1> QED BY <1>1, <1>4, <1>5, EndsSame

\* The session with its counter zeroed, and perhaps another pin.
LEMMA UncountedFields ==
    ASSUME session \in Session
    PROVE  /\ Uncounted \in Session
           /\ Uncounted.began = session.began
           /\ Uncounted.connected = session.connected
           /\ Uncounted.reconnectBetween = session.reconnectBetween
           /\ Uncounted.config = session.config /\ Uncounted.pin = session.pin
           /\ Uncounted.stores = 0
<1>1. Uncounted = SetStores(session, 0)
  BY DEF Uncounted, SetStores
<1> QED BY <1>1, SetStoresFields, MaxStoresAssumption

LEMMA RepinnedFields ==
    ASSUME session \in Session, NEW pin \in PinValues
    PROVE  LET s == [Uncounted EXCEPT !.pin = pin]
           IN  /\ s \in Session
               /\ s.began = session.began /\ s.connected = session.connected
               /\ s.reconnectBetween = session.reconnectBetween
               /\ s.config = session.config /\ s.pin = pin /\ s.stores = 0
<1>1. [Uncounted EXCEPT !.pin = pin] = SetPin(Uncounted, pin)
  BY DEF SetPin
<1> QED BY <1>1, UncountedFields, SetPinFields

LEMMA ConnectRefusals ==
    ASSUME ClientInv,
           \/ ConnectBeforeBegin \/ ConnectRefusesArguments
           \/ ConnectRefusesFingerprint \/ ConnectRefusesCertificate
    PROVE  ClientInv'
<1>1. Typed /\ session \in Session
  BY Before DEF Typed
<1>2. SessionDeadErrors \subseteq FtpsError
  BY Errors
<1>3. CASE ConnectBeforeBegin
  <2>1. /\ call = Idle /\ UNCHANGED <<transport, wire, history>>
        /\ Finish("connect", FALSE, "NetworkNotInitialized", Uncounted)
    BY <1>3 DEF ConnectBeforeBegin
  <2>2. result' \in Results /\ call' = Idle /\ session' = Uncounted
    BY <1>2, <2>1, NewResult, Names DEF Finish, SessionDeadErrors
  <2> QED BY <1>1, <2>1, <2>2, UncountedFields, EndsSame DEF Typed
<1>4. CASE ConnectRefusesArguments
  <2>1. {"ConnectionFailed", "LoginRejected", "CertValidationFailed"}
           \subseteq FtpsError
    BY <1>2 DEF SessionDeadErrors
  <2> QED BY <1>1, <1>4, <2>1, UncountedFields, RefuseStep DEF ConnectRefusesArguments
<1>5. {"CertValidationFailed"} \subseteq FtpsError
  BY <1>2 DEF SessionDeadErrors
<1>6. CASE ConnectRefusesFingerprint
  <2>1. PICK left \in PinValues :
           Refuse([Uncounted EXCEPT !.pin = left], {"CertValidationFailed"})
    BY <1>6 DEF ConnectRefusesFingerprint
  <2> QED BY <1>1, <1>5, <2>1, RepinnedFields, RefuseStep
<1>7. CASE ConnectRefusesCertificate
  <2>1. NoPin \in PinValues
    BY DEF PinValues
  <2> QED
    BY <1>1, <1>5, <1>7, <2>1, RepinnedFields, RefuseStep
       DEF ConnectRefusesCertificate
<1> QED BY <1>3, <1>4, <1>6, <1>7

\* The history takes note of new settings.
Noted(trust, pin) ==
    [history EXCEPT !.refused = FALSE, !.trust = trust, !.pin = pin]

LEMMA NotedFields ==
    ASSUME history \in History, NEW trust \in TrustModes, NEW pin \in PinValues
    PROVE  /\ Noted(trust, pin) \in History
           /\ Noted(trust, pin).own = history.own
           /\ Noted(trust, pin).missed = history.missed
           /\ Noted(trust, pin).uploads = history.uploads
           /\ Noted(trust, pin).refused = FALSE
           /\ Noted(trust, pin).trust = trust /\ Noted(trust, pin).pin = pin
<1> DEFINE a == SetRefused(history, FALSE)
           b == SetTrust(a, trust)
           c == SetHistoryPin(b, pin)
<1>1. Noted(trust, pin) = c
  BY DEF Noted, SetRefused, SetTrust, SetHistoryPin
<1>2. /\ a \in History /\ a.own = history.own /\ a.missed = history.missed
      /\ a.uploads = history.uploads /\ a.refused = FALSE
  BY SetRefusedFields
<1> HIDE DEF a
<1>3. /\ b \in History /\ b.own = history.own /\ b.missed = history.missed
      /\ b.uploads = history.uploads /\ b.refused = FALSE /\ b.trust = trust
  BY <1>2, SetTrustFields
<1> HIDE DEF b
<1>4. /\ c \in History /\ c.own = history.own /\ c.missed = history.missed
      /\ c.uploads = history.uploads /\ c.refused = FALSE /\ c.trust = trust
      /\ c.pin = pin
  BY <1>3, SetHistoryPinFields
<1> HIDE DEF c
<1> QED BY <1>1, <1>4

\* What connect() copies.
LEMMA NewConfig ==
    ASSUME NEW trust \in TrustModes
    PROVE  /\ NoConfig \in Config
           /\ [NoConfig EXCEPT !.host = TRUE] \in Config
           /\ [host |-> TRUE, complete |-> TRUE, trust |-> trust] \in Config
BY DEF NoConfig, Config, TrustModes

LEMMA ConnectRefusesLengthStep ==
    ASSUME ClientInv, ConnectRefusesLength PROVE ClientInv'
<1>1. Typed /\ session \in Session /\ history \in History /\ Sound(transport)
  BY Before DEF Typed
<1>2. transport' = CloseAll(transport) /\ wire' = <<>>
  BY DEF ConnectRefusesLength
<1>3. PICK trust \in TrustModes, cached \in {"none", "host", "all"} :
         LET config == CASE cached = "none" -> NoConfig
                         [] cached = "host" -> [NoConfig EXCEPT !.host = TRUE]
                         [] cached = "all" -> [host |-> TRUE, complete |-> TRUE,
                                               trust |-> trust]
             errors == CASE cached = "none" -> {"ConnectionFailed"}
                         [] cached = "host" -> {"LoginRejected"}
                         [] cached = "all" -> {"CertValidationFailed"}
         IN  \E pin \in (IF trust = "Fingerprint" THEN Certs ELSE {NoPin}),
                err \in errors :
               /\ Finish("connect", FALSE, err,
                         [Disconnected(Uncounted) EXCEPT !.config = config,
                                                         !.pin = pin])
               /\ history' = Noted(trust, pin)
  BY DEF ConnectRefusesLength, Noted
<1> DEFINE config == CASE cached = "none" -> NoConfig
                       [] cached = "host" -> [NoConfig EXCEPT !.host = TRUE]
                       [] cached = "all" -> [host |-> TRUE, complete |-> TRUE,
                                             trust |-> trust]
           errors == CASE cached = "none" -> {"ConnectionFailed"}
                       [] cached = "host" -> {"LoginRejected"}
                       [] cached = "all" -> {"CertValidationFailed"}
           pins == IF trust = "Fingerprint" THEN Certs ELSE {NoPin}
<1>a. config \in Config
  BY NewConfig
<1>b. errors \subseteq FtpsError
  BY Errors DEF SessionDeadErrors
<1>c. pins \subseteq PinValues
  BY DEF PinValues
<1>d. \E pin \in pins, err \in errors :
         /\ Finish("connect", FALSE, err,
                   [Disconnected(Uncounted) EXCEPT !.config = config,
                                                   !.pin = pin])
         /\ history' = Noted(trust, pin)
  BY <1>3
<1> HIDE DEF config, errors, pins
<1>4. PICK pin \in PinValues, err \in FtpsError :
         /\ Finish("connect", FALSE, err,
                   [Disconnected(Uncounted) EXCEPT !.config = config,
                                                   !.pin = pin])
         /\ history' = Noted(trust, pin)
  BY <1>b, <1>c, <1>d
<1> DEFINE s == [Disconnected(Uncounted) EXCEPT !.config = config, !.pin = pin]
<1>5. s \in Session /\ s.connected = FALSE
  BY <1>1, <1>4, <1>a, Reconfigured
<1>6. history' \in History
  BY <1>1, <1>4, NotedFields
<1>7. Finish("connect", FALSE, err, s)
  BY <1>4
<1> HIDE DEF s
<1> QED BY <1>1, <1>2, <1>4, <1>5, <1>6, <1>7, DisconnectStep, Names

\* A login begins: everything closed first.
LEMMA LoginBegins ==
    ASSUME Typed, NEW s \in Session, s.began, ~s.connected, session' = s,
           transport' = CloseAll(transport), wire' = <<>>,
           NEW op \in ConnectOps, NEW arg \in Arguments,
           StartCall(op, "tcp", arg), history' \in History
    PROVE  ClientInv'
<1>1. Sound(transport') /\ transport'.control = Closed /\ transport'.data = Closed
  BY CloseAllSound DEF Typed
<1>2. call' = [op |-> op, pc |-> "tcp", arg |-> arg] /\ result' \in Results
  BY NoResultTyped DEF StartCall
<1>3. "tcp" \in ConnectSteps
  BY DEF ConnectSteps
<1>4. call' \in Calls /\ call'.pc = "tcp"
  BY <1>2, <1>3, NewCall
<1>5. ControlStage' = "closed"
  BY <1>4 DEF ControlStage
<1> QED BY <1>1, <1>2, <1>3, <1>4, <1>5, EndsInLogin, Stages, EmptySeq

LEMMA ConnectStartStep == ASSUME ClientInv, ConnectStart PROVE ClientInv'
<1>1. Typed /\ session \in Session /\ history \in History
  BY Before DEF Typed
<1>2. PICK trust \in TrustModes :
         \E pin \in (IF trust = "Fingerprint" THEN Certs ELSE {NoPin}) :
            /\ session' = [Disconnected(Uncounted) EXCEPT
                              !.config = [host |-> TRUE, complete |-> TRUE,
                                          trust |-> trust],
                              !.pin = pin]
            /\ history' = Noted(trust, pin)
  BY DEF ConnectStart, Noted
<1>3. PICK pin \in PinValues :
         /\ session' = [Disconnected(Uncounted) EXCEPT
                           !.config = [host |-> TRUE, complete |-> TRUE,
                                       trust |-> trust],
                           !.pin = pin]
         /\ history' = Noted(trust, pin)
  BY <1>2 DEF PinValues
<1>4. [host |-> TRUE, complete |-> TRUE, trust |-> trust] \in Config
  BY NewConfig
<1>5. /\ session' \in Session /\ session'.connected = FALSE
      /\ session'.began = session.began
  BY <1>1, <1>3, <1>4, Reconfigured
<1>6. history' \in History
  BY <1>1, <1>3, NotedFields
<1>7. "connect" \in ConnectOps /\ "ok" \in Arguments
  BY DEF ConnectOps, Arguments
<1> QED BY <1>1, <1>5, <1>6, <1>7, LoginBegins DEF ConnectStart

LEMMA DiscoverStartStep == ASSUME ClientInv, DiscoverStart PROVE ClientInv'
<1>1. Typed /\ session \in Session /\ history \in History
  BY Before DEF Typed
<1>2. session' = SetConnected(session, FALSE) /\ UNCHANGED history
  BY DEF DiscoverStart, Disconnected, SetConnected
<1>3. /\ session' \in Session /\ session'.connected = FALSE
      /\ session'.began = session.began
  BY <1>1, <1>2, SetConnectedFields
<1>4. "discover" \in ConnectOps /\ "ok" \in Arguments
  BY DEF ConnectOps, Arguments
<1> QED BY <1>1, <1>2, <1>3, <1>4, LoginBegins DEF DiscoverStart

LEMMA ReconnectRefusedStep ==
    ASSUME ClientInv, call = Idle, NEW op \in Ops, ReconnectRefused(op)
    PROVE  ClientInv'
BY RefusalStep, Errors DEF ReconnectRefused, SessionDeadErrors

\* The session closed and its counter zeroed.
LEMMA ClosedUncounted ==
    ASSUME session \in Session
    PROVE  LET s == Disconnected(Uncounted)
           IN  /\ s \in Session
               /\ s.began = session.began /\ s.connected = FALSE
               /\ s.reconnectBetween = session.reconnectBetween
               /\ s.config = session.config /\ s.pin = session.pin
               /\ s.stores = 0
<1>1. Disconnected(Uncounted) = SetConnected(Uncounted, FALSE)
  BY DEF Disconnected, SetConnected
<1> DEFINE u == Uncounted
<1>2. /\ u \in Session /\ u.began = session.began
      /\ u.reconnectBetween = session.reconnectBetween
      /\ u.config = session.config /\ u.pin = session.pin /\ u.stores = 0
  BY UncountedFields
<1> HIDE DEF u
<1>3. /\ SetConnected(u, FALSE) \in Session
      /\ SetConnected(u, FALSE).began = session.began
      /\ SetConnected(u, FALSE).connected = FALSE
      /\ SetConnected(u, FALSE).reconnectBetween = session.reconnectBetween
      /\ SetConnected(u, FALSE).config = session.config
      /\ SetConnected(u, FALSE).pin = session.pin
      /\ SetConnected(u, FALSE).stores = 0
  BY <1>2, SetConnectedFields
<1> QED BY <1>1, <1>3 DEF u

LEMMA ReconnectingStep ==
    ASSUME ClientInv, NEW op \in ConnectOps, NEW arg \in Arguments,
           Reconnecting(op, arg)
    PROVE  ClientInv'
<1>1. Typed /\ session \in Session /\ history \in History /\ Sound(transport)
  BY Before DEF Typed
<1>2. /\ session.began /\ transport' = CloseAll(transport) /\ wire' = <<>>
      /\ UNCHANGED history
  BY DEF Reconnecting
<1> DEFINE s == Disconnected(Uncounted)
<1>3. s \in Session /\ s.connected = FALSE /\ s.began = session.began
  BY <1>1, ClosedUncounted
<1>4. \/ Finish(op, FALSE, "LoginRejected", s)
      \/ Finish(op, FALSE, "CertValidationFailed", s)
      \/ session' = s /\ StartCall(op, "tcp", arg)
  BY DEF Reconnecting
<1>5. /\ op \in Ops /\ "LoginRejected" \in FtpsError
      /\ "CertValidationFailed" \in FtpsError
  BY Names, Errors DEF SessionDeadErrors
<1> HIDE DEF s
<1>6. CASE Finish(op, FALSE, "LoginRejected", s)
  BY <1>1, <1>2, <1>3, <1>5, <1>6, DisconnectStep
<1>7. CASE Finish(op, FALSE, "CertValidationFailed", s)
  BY <1>1, <1>2, <1>3, <1>5, <1>7, DisconnectStep
<1>8. CASE session' = s /\ StartCall(op, "tcp", arg)
  BY <1>1, <1>2, <1>3, <1>8, LoginBegins
<1> QED BY <1>4, <1>6, <1>7, <1>8

\* A transfer begins on the session.
LEMMA TransferBegins ==
    ASSUME ClientInv, call = Idle, Usable, NEW op \in TransferOps,
           NEW arg \in Arguments, StartCall(op, "pasv", arg),
           UNCHANGED <<transport, session, wire, history>>
    PROVE  ClientInv'
<1>1. Typed /\ transport.control.tls /\ transport.data = Closed
  BY Before
<1>2. call' = [op |-> op, pc |-> "pasv", arg |-> arg] /\ result' \in Results
  BY NoResultTyped DEF StartCall
<1>3. "pasv" \in TransferSteps
  BY DEF TransferSteps
<1>4. call' \in Calls /\ call'.pc = "pasv"
  BY <1>2, <1>3, NewCall
<1>5. DataStage' = "closed"
  BY <1>4 DEF DataStage
<1> QED
  BY <1>1, <1>2, <1>3, <1>4, <1>5, EndsInCall, Stages DEF Typed, Usable

LEMMA StartStep == ASSUME ClientInv, Start PROVE ClientInv'
<1>1. {"ok", "long"} \subseteq Arguments /\ "ok" \in Arguments
  BY DEF Arguments
<1>2. /\ "store" \in TransferOps /\ "retrieve" \in TransferOps
      /\ "list" \in TransferOps
      /\ "store" \in ConnectOps /\ "reconnect" \in ConnectOps
  BY DEF TransferOps, ConnectOps
<1>3. CASE ConnectStart
  BY <1>3, ConnectStartStep
<1>4. CASE DiscoverStart
  BY <1>4, DiscoverStartStep
<1>5. CASE Reconnect
  <2>1. CASE ReconnectRefused("reconnect")
    BY <1>5, <2>1, ReconnectRefusedStep, Names DEF Reconnect
  <2>2. CASE Reconnecting("reconnect", "ok")
    BY <1>1, <1>2, <2>2, ReconnectingStep
  <2> QED BY <1>5, <2>1, <2>2 DEF Reconnect
<1>6. CASE StoreStart
  <2>1. call = Idle /\ Usable
    BY <1>6 DEF StoreStart
  <2>2. PICK arg \in Arguments :
           \/ ReconnectRefused("store")
           \/ Reconnecting("store", arg)
           \/ /\ StartCall("store", "pasv", arg)
              /\ UNCHANGED <<transport, session, wire, history>>
    BY <1>6 DEF StoreStart
  <2>3. CASE ReconnectRefused("store")
    BY <1>2, <2>1, <2>3, ReconnectRefusedStep, Names
  <2>4. CASE Reconnecting("store", arg)
    BY <1>2, <2>4, ReconnectingStep
  <2>5. CASE /\ StartCall("store", "pasv", arg)
             /\ UNCHANGED <<transport, session, wire, history>>
    BY <1>2, <2>1, <2>5, TransferBegins
  <2> QED BY <2>2, <2>3, <2>4, <2>5
<1>7. CASE RetrieveStart
  BY <1>1, <1>2, <1>7, TransferBegins DEF RetrieveStart, TransferStart
<1>8. CASE ListStart
  BY <1>1, <1>2, <1>8, TransferBegins DEF ListStart, TransferStart
<1> QED BY <1>3, <1>4, <1>5, <1>6, <1>7, <1>8 DEF Start

-----------------------------------------------------------------------------
(* The login. *)

\* The history of a new control connection.
Fresh == [history EXCEPT !.own = TRUE, !.missed = FALSE, !.uploads = 0]

LEMMA FreshFields ==
    ASSUME history \in History
    PROVE  /\ Fresh \in History
           /\ Fresh.own = TRUE /\ Fresh.missed = FALSE /\ Fresh.uploads = 0
           /\ Fresh.refused = history.refused
           /\ Fresh.trust = history.trust /\ Fresh.pin = history.pin
<1> DEFINE a == SetOwn(history, TRUE)
           b == SetMissed(a, FALSE)
           c == SetUploads(b, 0)
<1>1. Fresh = c
  BY DEF Fresh, SetOwn, SetMissed, SetUploads
<1>2. /\ a \in History /\ a.own = TRUE /\ a.refused = history.refused
      /\ a.trust = history.trust /\ a.pin = history.pin
  BY SetOwnFields
<1> HIDE DEF a
<1>3. /\ b \in History /\ b.own = TRUE /\ b.refused = history.refused
      /\ b.trust = history.trust /\ b.pin = history.pin /\ b.missed = FALSE
  BY <1>2, SetMissedFields
<1> HIDE DEF b
<1>4. /\ c \in History /\ c.own = TRUE /\ c.refused = history.refused
      /\ c.trust = history.trust /\ c.pin = history.pin /\ c.missed = FALSE
      /\ c.uploads = 0
  BY <1>3, SetUploadsFields
<1> HIDE DEF c
<1> QED BY <1>1, <1>4

\* A step of the login that fails.
LEMMA LoginFailsStep ==
    ASSUME ClientInv, call.pc \in ConnectSteps, NEW t, Sound(t),
           NEW err \in FtpsError, LoginFails(t, err), history' \in History
    PROVE  ClientInv'
<1>1. Typed /\ session \in Session /\ ~session.connected
  BY Before DEF Typed
<1>2. call.op \in Ops
  BY <1>1, CallFields, Names DEF Typed
<1> QED BY <1>1, <1>2, DisconnectStep DEF LoginFails

\* One that succeeds without touching the transport.
LEMMA LoginGoesOn ==
    ASSUME ClientInv, call.pc \in ConnectSteps, NEW pc \in ConnectSteps,
           GoTo(pc), UNCHANGED <<transport, session>>, wire' \in Seq(Reply),
           history' \in History, ControlStage' = ControlStage
    PROVE  ClientInv'
<1>1. /\ Typed /\ session.began /\ ~session.connected
      /\ transport.data = Closed /\ Stage(transport.control) = ControlStage
  BY Before
<1>2. call' \in Calls /\ call'.pc = pc
  BY <1>1, NextLoginStep DEF Typed, GoTo
<1>3. result' \in Results
  BY <1>1 DEF Typed, GoTo
<1> QED BY <1>1, <1>2, <1>3, EndsInLogin DEF Typed

LEMMA TcpStep == ASSUME ClientInv, Tcp PROVE ClientInv'
<1>1. call.pc = "tcp" /\ wire' = <<>> /\ history' = Fresh
  BY DEF Tcp, Fresh
<1>2. call.pc \in ConnectSteps /\ "banner" \in ConnectSteps
  BY <1>1 DEF ConnectSteps
<1>3. /\ Typed /\ session.began /\ ~session.connected /\ Sound(transport)
      /\ session \in Session /\ history \in History
  BY <1>2, Before DEF Typed
<1>4. history' \in History
  BY <1>1, <1>3, FreshFields
<1>5. PICK net \in NetResults :
         /\ transport' = ConnectControl(transport, net)
         /\ \/ ConnectControlOk(net) /\ GoTo("banner") /\ UNCHANGED session
            \/ /\ ~ConnectControlOk(net)
               /\ Finish(call.op, FALSE, "ConnectionFailed", session)
  BY DEF Tcp
<1>6. /\ Sound(transport') /\ transport'.data = Closed
      /\ transport'.control = IF ConnectControlOk(net) THEN Connected ELSE Closed
  BY <1>3, <1>5, ConnectControlSound
<1>7. CASE ConnectControlOk(net) /\ GoTo("banner") /\ UNCHANGED session
  <2>1. call' \in Calls /\ call'.pc = "banner" /\ result' \in Results
    BY <1>2, <1>3, <1>7, NextLoginStep DEF Typed, GoTo
  <2>2. ControlStage' = "tcp"
    BY <2>1 DEF ControlStage
  <2> QED
    BY <1>1, <1>2, <1>3, <1>4, <1>6, <1>7, <2>1, <2>2, EndsInLogin, Stages,
       EmptySeq
<1>8. CASE /\ ~ConnectControlOk(net)
           /\ Finish(call.op, FALSE, "ConnectionFailed", session)
  <2>1. call.op \in Ops /\ "ConnectionFailed" \in FtpsError
    BY <1>2, <1>3, CallFields, Names, Errors DEF Typed, SessionDeadErrors
  <2>2. result' \in Results /\ call' = Idle /\ session' = session
    BY <1>8, <2>1, NewResult DEF Finish
  <2> QED BY <1>1, <1>3, <1>4, <1>6, <1>8, <2>2, EndsDown, EmptySeq
<1> QED BY <1>5, <1>7, <1>8

\* Two steps at which the control channel is at the same stage.
SameStage(pc, next) ==
    \/ {pc, next} \subseteq {"banner", "authTls", "authSsl", "controlTls"}
    \/ {pc, next} \subseteq {"pbsz", "protP", "user", "pass", "typeI"}

LEMMA StageKept ==
    ASSUME call \in Calls, NEW next, SameStage(call.pc, next), GoTo(next)
    PROVE  /\ call.pc \in ConnectSteps /\ next \in ConnectSteps
           /\ ControlStage' = ControlStage
<1>1. call.pc \in ConnectSteps /\ next \in ConnectSteps
  BY DEF SameStage, ConnectSteps
<1>2. call'.pc = next
  BY <1>1, NextLoginStep DEF GoTo
<1>3. CASE {call.pc, next} \subseteq {"banner", "authTls", "authSsl", "controlTls"}
  <2>1. ControlStage = "tcp" /\ ControlStage' = "tcp"
    BY <1>2, <1>3 DEF ControlStage
  <2> QED BY <1>1, <2>1
<1>4. CASE {call.pc, next} \subseteq {"pbsz", "protP", "user", "pass", "typeI"}
  <2>1. ControlStage = "tls" /\ ControlStage' = "tls"
    BY <1>2, <1>4 DEF ControlStage
  <2> QED BY <1>1, <2>1
<1> QED BY <1>3, <1>4 DEF SameStage

LEMMA LoginStepStep ==
    ASSUME ClientInv, NEW pc, NEW cmd \in PlainCommands, NEW good, NEW next,
           NEW err \in FtpsError, SameStage(pc, next),
           LoginStep(pc, cmd, good, next, err)
    PROVE  ClientInv'
<1>1. call.pc = pc /\ call.pc \in ConnectSteps
  BY DEF LoginStep, SameStage, ConnectSteps
<1>2. Typed /\ history \in History /\ wire \in Seq(Reply) /\ Sound(transport)
  BY Before DEF Typed
<1>3. PICK e \in Exchanges(wire, cmd, "ok") :
         /\ Heard(e)
         /\ \/ /\ wire' = e.rest /\ GoTo(next) /\ UNCHANGED <<transport, session>>
            \/ LoginFails(transport, err)
  BY DEF LoginStep
<1>4. e.own \in BOOLEAN /\ e.rest \in Seq(Reply)
  BY <1>2, <1>3, ExchangesTyped
<1>5. history' \in History
  BY <1>2, <1>3, <1>4, HeardTyped
<1>6. CASE wire' = e.rest /\ GoTo(next) /\ UNCHANGED <<transport, session>>
  <2>1. /\ next \in ConnectSteps /\ ControlStage' = ControlStage
    BY <1>1, <1>2, <1>6, StageKept DEF Typed
  <2> QED BY <1>1, <1>4, <1>5, <1>6, <2>1, LoginGoesOn
<1>7. CASE LoginFails(transport, err)
  BY <1>1, <1>2, <1>5, <1>7, LoginFailsStep
<1> QED BY <1>3, <1>6, <1>7

LEMMA LoginCommands ==
    ASSUME ClientInv, Banner \/ AuthSsl \/ Pbsz \/ ProtP \/ Pass
    PROVE  ClientInv'
<1>1. {"banner", "AUTH", "PBSZ", "PROT", "PASS"} \subseteq PlainCommands
  BY DEF PlainCommands
<1>2. {"BannerReadFailed", "AuthTlsRejected", "PbszRejected", "ProtPRejected",
       "LoginRejected"} \subseteq FtpsError
  BY DEF FtpsError
<1>3. /\ SameStage("banner", "authTls") /\ SameStage("authSsl", "controlTls")
      /\ SameStage("pbsz", "protP") /\ SameStage("protP", "user")
      /\ SameStage("pass", "typeI")
  BY DEF SameStage
<1>4. CASE Banner
  BY <1>1, <1>2, <1>3, <1>4, LoginStepStep DEF Banner
<1>5. CASE AuthSsl
  BY <1>1, <1>2, <1>3, <1>5, LoginStepStep DEF AuthSsl
<1>6. CASE Pbsz
  BY <1>1, <1>2, <1>3, <1>6, LoginStepStep DEF Pbsz
<1>7. CASE ProtP
  BY <1>1, <1>2, <1>3, <1>7, LoginStepStep DEF ProtP
<1>8. CASE Pass
  BY <1>1, <1>2, <1>3, <1>8, LoginStepStep DEF Pass
<1> QED BY <1>4, <1>5, <1>6, <1>7, <1>8

LEMMA AuthTlsStep == ASSUME ClientInv, AuthTls PROVE ClientInv'
<1>1. call.pc = "authTls" /\ UNCHANGED <<transport, session>>
  BY DEF AuthTls
<1>2. call.pc \in ConnectSteps
  BY <1>1 DEF ConnectSteps
<1>3. Typed /\ history \in History /\ wire \in Seq(Reply)
  BY Before DEF Typed
<1>4. PICK e \in Exchanges(wire, "AUTH", "ok"), next \in {"controlTls", "authSsl"} :
         /\ wire' = e.rest /\ GoTo(next)
         /\ history' = [history EXCEPT !.own = @ /\ e.own,
                                       !.missed = @ \/ e.rest # <<>>]
  BY DEF AuthTls
<1>5. e.own \in BOOLEAN /\ e.rest \in Seq(Reply)
  BY <1>3, <1>4, ExchangesTyped DEF PlainCommands
<1>6. history' = SetMissed(SetOwn(history, history.own /\ e.own),
                           history.missed \/ e.rest # <<>>)
  BY <1>4 DEF SetMissed, SetOwn
<1>7. SetOwn(history, history.own /\ e.own) \in History
  BY <1>3, <1>5, SetOwnFields, HistoryFields
<1>8. history' \in History
  BY <1>6, <1>7, SetMissedFields, HistoryFields, <1>3
<1>9. SameStage("authTls", next)
  BY <1>4 DEF SameStage
<1> QED
  BY <1>1, <1>2, <1>3, <1>4, <1>5, <1>8, <1>9, StageKept, LoginGoesOn DEF Typed

LEMMA UserStep == ASSUME ClientInv, User PROVE ClientInv'
<1>1. call.pc = "user"
  BY DEF User
<1>2. call.pc \in ConnectSteps
  BY <1>1 DEF ConnectSteps
<1>3. Typed /\ history \in History /\ wire \in Seq(Reply) /\ Sound(transport)
  BY Before DEF Typed
<1>4. PICK e \in Exchanges(wire, "USER", "ok"), next \in {"pass", "typeI"} :
         /\ Heard(e)
         /\ \/ /\ wire' = e.rest /\ GoTo(next) /\ UNCHANGED <<transport, session>>
            \/ LoginFails(transport, "LoginRejected")
  BY DEF User
<1>5. e.own \in BOOLEAN /\ e.rest \in Seq(Reply)
  BY <1>3, <1>4, ExchangesTyped DEF PlainCommands
<1>6. history' \in History
  BY <1>3, <1>4, <1>5, HeardTyped
<1>7. SameStage("user", next)
  BY <1>4 DEF SameStage
<1>8. CASE wire' = e.rest /\ GoTo(next) /\ UNCHANGED <<transport, session>>
  BY <1>1, <1>2, <1>3, <1>5, <1>6, <1>7, <1>8, StageKept, LoginGoesOn DEF Typed
<1>9. CASE LoginFails(transport, "LoginRejected")
  BY <1>2, <1>3, <1>6, <1>9, LoginFailsStep, Errors DEF SessionDeadErrors
<1> QED BY <1>4, <1>8, <1>9

LEMMA ControlTlsStep == ASSUME ClientInv, ControlTls PROVE ClientInv'
<1>1. call.pc = "controlTls" /\ UNCHANGED history
  BY DEF ControlTls
<1>2. call.pc \in ConnectSteps /\ "pbsz" \in ConnectSteps
  BY <1>1 DEF ConnectSteps
<1>3. /\ Typed /\ history \in History /\ wire \in Seq(Reply) /\ Sound(transport)
      /\ session \in Session /\ session.began /\ ~session.connected
      /\ transport.data = Closed
  BY <1>2, Before DEF Typed
<1>4. PICK h \in Handshakes(SessionTls),
           err \in {"CertValidationFailed", "ControlTlsHandshakeFailed"} :
         \/ /\ UpgradeControlToTlsOk(transport, SessionTls, h)
            /\ transport' = UpgradeControlToTls(transport, SessionTls, h)
            /\ GoTo("pbsz") /\ UNCHANGED <<session, wire>>
         \/ LoginFails(UpgradeControlToTls(transport, SessionTls, h), err)
  BY DEF ControlTls, HandshakesOnWire
<1> DEFINE t == UpgradeControlToTls(transport, SessionTls, h)
<1>5. /\ Sound(t) /\ t.data = Closed
      /\ UpgradeControlToTlsOk(transport, SessionTls, h) =>
           \E cert : t.control = Secured(cert)
  BY <1>3, <1>4, SessionTlsTyped, UpgradeControlSound
<1> HIDE DEF t
<1>6. CASE /\ UpgradeControlToTlsOk(transport, SessionTls, h)
           /\ transport' = t /\ GoTo("pbsz") /\ UNCHANGED <<session, wire>>
  <2>1. call' \in Calls /\ call'.pc = "pbsz" /\ result' \in Results
    BY <1>2, <1>3, <1>6, NextLoginStep DEF Typed, GoTo
  <2>2. ControlStage' = "tls"
    BY <2>1 DEF ControlStage
  <2>3. Stage(transport'.control) = "tls"
    BY <1>5, <1>6, Stages
  <2> QED BY <1>1, <1>2, <1>3, <1>5, <1>6, <2>1, <2>2, <2>3, EndsInLogin
<1>7. CASE LoginFails(t, err)
  <2>1. err \in FtpsError
    BY <1>4 DEF FtpsError
  <2> QED BY <1>1, <1>2, <1>3, <1>5, <1>7, <2>1, LoginFailsStep
<1> QED BY <1>4, <1>6, <1>7 DEF t

LEMMA DiscoverTlsStep == ASSUME ClientInv, DiscoverTls PROVE ClientInv'
<1>1. call.pc = "controlTls" /\ call.op = "discover" /\ UNCHANGED history
  BY DEF DiscoverTls
<1>2. call.pc \in ConnectSteps
  BY <1>1 DEF ConnectSteps
<1>3. /\ Typed /\ history \in History /\ Sound(transport)
      /\ session \in Session /\ ~session.connected
  BY <1>2, Before DEF Typed
<1>4. PICK h \in Handshakes(DiscoveryTls),
           err \in {"CertValidationFailed", "ControlTlsHandshakeFailed", "None"},
           ok \in BOOLEAN :
         /\ transport' = CloseAll(UpgradeControlToTls(transport, DiscoveryTls, h))
         /\ wire' = <<>>
         /\ Finish("discover", ok, err, session)
  BY <1>1 DEF DiscoverTls, HandshakesOnWire, LoginFails
<1>5. Sound(UpgradeControlToTls(transport, DiscoveryTls, h))
  BY <1>3, <1>4, SessionTlsTyped, UpgradeControlSound
<1>6. err \in FtpsError /\ "discover" \in Ops
  BY <1>4, Names DEF FtpsError
<1> QED BY <1>1, <1>3, <1>4, <1>5, <1>6, DisconnectStep

LEMMA TypeIStep == ASSUME ClientInv, TypeI PROVE ClientInv'
<1>1. call.pc = "typeI"
  BY DEF TypeI
<1>2. call.pc \in ConnectSteps
  BY <1>1 DEF ConnectSteps
<1>3. /\ Typed /\ history \in History /\ wire \in Seq(Reply) /\ Sound(transport)
      /\ session \in Session /\ session.began /\ call \in Calls
      /\ transport.data = Closed /\ Stage(transport.control) = ControlStage
  BY <1>2, Before DEF Typed
<1>4. transport.control.tls
  <2>1. ControlStage = "tls"
    BY <1>1 DEF ControlStage
  <2> QED BY <1>3, <2>1, StageTells DEF Sound, Accounted
<1>5. PICK e \in Exchanges(wire, "TYPE", "ok") :
         /\ Heard(e)
         /\ \/ /\ wire' = e.rest /\ UNCHANGED transport
               /\ \/ /\ call.op = "store"
                     /\ session' = SetConnected(session, TRUE) /\ GoTo("pasv")
                  \/ Finish(call.op, TRUE, "None", SetConnected(session, TRUE))
            \/ LoginFails(transport, "TypeRejected")
  BY DEF TypeI, SetConnected
<1>6. e.own \in BOOLEAN /\ e.rest \in Seq(Reply)
  BY <1>3, <1>5, ExchangesTyped DEF PlainCommands
<1>7. history' \in History
  BY <1>3, <1>5, <1>6, HeardTyped
<1> DEFINE s == SetConnected(session, TRUE)
<1>8. s \in Session /\ s.began /\ s.connected
  BY <1>3, SetConnectedFields
<1> HIDE DEF s
<1>9. CASE /\ wire' = e.rest /\ UNCHANGED transport
           /\ call.op = "store" /\ session' = s /\ GoTo("pasv")
  <2>1. "pasv" \in TransferSteps /\ call.op \in TransferOps
    BY <1>9 DEF TransferSteps, TransferOps
  <2>2. call' \in Calls /\ call'.pc = "pasv" /\ result' \in Results
    BY <1>2, <1>3, <1>9, <2>1, NextTransferStep DEF Typed, GoTo
  <2>3. DataStage' = "closed"
    BY <2>2 DEF DataStage
  <2> QED
    BY <1>3, <1>4, <1>6, <1>7, <1>8, <1>9, <2>1, <2>2, <2>3, EndsInCall, Stages
<1>10. CASE /\ wire' = e.rest /\ UNCHANGED transport
            /\ Finish(call.op, TRUE, "None", s)
  <2>1. call.op \in Ops /\ "None" \in FtpsError
    BY <1>2, <1>3, CallFields, Names, Errors
  <2>2. result' \in Results /\ call' = Idle /\ session' = s
    BY <1>10, <2>1, NewResult DEF Finish
  <2> QED BY <1>3, <1>4, <1>6, <1>7, <1>8, <1>10, <2>2, EndsUp
<1>11. CASE LoginFails(transport, "TypeRejected")
  BY <1>2, <1>3, <1>7, <1>11, LoginFailsStep, Errors DEF SessionDeadErrors
<1> QED BY <1>5, <1>9, <1>10, <1>11 DEF s

LEMMA LoginPreserves == ASSUME ClientInv, Login PROVE ClientInv'
BY TcpStep, LoginCommands, AuthTlsStep, UserStep, ControlTlsStep,
   DiscoverTlsStep, TypeIStep
   DEF Login

-----------------------------------------------------------------------------
(* A transfer. *)

\* What holds at every step of one.
LEMMA InTransfer ==
    ASSUME ClientInv, call.pc \in TransferSteps
    PROVE  /\ Typed /\ Usable
           /\ transport.control.tls /\ Sound(transport)
           /\ Stage(transport.data) = DataStage
           /\ session \in Session /\ wire \in Seq(Reply) /\ history \in History
           /\ call \in Calls /\ call.op \in TransferOps
           /\ call.op \in SessionOps /\ call.op \in Ops
           /\ FailError[call.op] \in FtpsError
<1>1. /\ Typed /\ session.began /\ session.connected /\ transport.control.tls
      /\ Stage(transport.data) = DataStage
  BY Before
<1>2. call \in Calls /\ call.op \in TransferOps
  BY <1>1, CallFields DEF Typed
<1> QED BY <1>1, <1>2, Names, Errors DEF Typed, Usable

\* One that fails and keeps the session.
LEMMA TransferFailsStep ==
    ASSUME ClientInv, call.pc \in TransferSteps, NEW t, Sound(t),
           t.control = transport.control, t.data = Closed,
           NEW err \in FtpsError, NEW w \in Seq(Reply),
           TransferFails(err, t, w), history' \in History
    PROVE  ClientInv'
BY InTransfer, KeepStep DEF TransferFails

\* One that goes on, with the data channel at the next step's stage.
LEMMA TransferGoesOn ==
    ASSUME ClientInv, call.pc \in TransferSteps, NEW pc \in TransferSteps,
           GoTo(pc), UNCHANGED session, Sound(transport'),
           transport'.control = transport.control, wire' \in Seq(Reply),
           history' \in History, Stage(transport'.data) = DataStage'
    PROVE  ClientInv'
<1>1. /\ Typed /\ Usable /\ transport.control.tls /\ session \in Session
      /\ call \in Calls /\ call.op \in TransferOps
  BY InTransfer
<1>2. call' \in Calls /\ call'.pc = pc /\ result' \in Results
  BY <1>1, NextTransferStep DEF Typed, GoTo
<1> QED BY <1>1, <1>2, EndsInCall DEF Usable

\* The step a call is at, once it has gone there.
LEMMA Arrives ==
    ASSUME ClientInv, call.pc \in TransferSteps, NEW pc \in TransferSteps, GoTo(pc)
    PROVE  call'.pc = pc
BY InTransfer, NextTransferStep DEF GoTo

LEMMA PasvStep == ASSUME ClientInv, Pasv PROVE ClientInv'
<1>1. call.pc = "pasv"
  BY DEF Pasv
<1>2. call.pc \in TransferSteps /\ "open" \in TransferSteps
  BY <1>1 DEF TransferSteps
<1>3. /\ Typed /\ Sound(transport) /\ wire \in Seq(Reply) /\ history \in History
      /\ transport.data = Closed /\ call.op \in Ops
  <2>1. DataStage = "closed"
    BY <1>1 DEF DataStage
  <2> QED BY <1>2, <2>1, InTransfer, StageClosed DEF Sound, Accounted
<1>4. /\ "TransferFailed" \in FtpsError /\ "ConnectionFailed" \in FtpsError
      /\ "PasvParseFailed" \in FtpsError /\ "PassiveModeRejected" \in FtpsError
  BY DEF FtpsError
<1>5. CASE TransferFails("TransferFailed", transport, wire) /\ UNCHANGED history
  BY <1>2, <1>3, <1>4, <1>5, TransferFailsStep
<1>6. ASSUME NEW e \in Exchanges(wire, "PASV", "ok"), Heard(e),
             \/ FailAndDisconnect(call.op, "ConnectionFailed")
             \/ wire' = e.rest /\ GoTo("open") /\ UNCHANGED <<transport, session>>
             \/ TransferFails("PasvParseFailed", transport, e.rest)
             \/ TransferFails("PassiveModeRejected", transport, e.rest)
      PROVE  ClientInv'
  <2>1. e.own \in BOOLEAN /\ e.rest \in Seq(Reply)
    BY <1>3, ExchangesTyped DEF PlainCommands
  <2>2. history' \in History
    BY <1>3, <1>6, <2>1, HeardTyped
  <2>3. CASE FailAndDisconnect(call.op, "ConnectionFailed")
    BY <1>3, <1>4, <2>2, <2>3, FailAndDisconnectStep
  <2>4. CASE wire' = e.rest /\ GoTo("open") /\ UNCHANGED <<transport, session>>
    <3>1. DataStage' = "closed"
      BY <1>2, <2>4, Arrives DEF DataStage
    <3> QED BY <1>2, <1>3, <2>1, <2>2, <2>4, <3>1, TransferGoesOn, Stages
  <2>5. CASE \/ TransferFails("PasvParseFailed", transport, e.rest)
             \/ TransferFails("PassiveModeRejected", transport, e.rest)
    BY <1>2, <1>3, <1>4, <2>1, <2>2, <2>5, TransferFailsStep
  <2> QED BY <1>6, <2>3, <2>4, <2>5
<1>7. CASE call.arg = "empty"
  BY <1>5, <1>7 DEF Pasv
<1>8. CASE call.arg # "empty"
  BY <1>6, <1>8 DEF Pasv
<1> QED BY <1>7, <1>8

LEMMA OpenDataStep == ASSUME ClientInv, OpenData PROVE ClientInv'
<1>1. call.pc = "open" /\ UNCHANGED history
  BY DEF OpenData
<1>2. call.pc \in TransferSteps /\ "command" \in TransferSteps
  BY <1>1 DEF TransferSteps
<1>3. Sound(transport) /\ wire \in Seq(Reply) /\ history \in History
  BY <1>2, InTransfer
<1>4. PICK net \in NetResults :
         \/ /\ OpenDataChannelOk(net)
            /\ transport' = OpenDataChannel(transport, net)
            /\ GoTo("command") /\ UNCHANGED <<session, wire>>
         \/ /\ ~OpenDataChannelOk(net)
            /\ TransferFails("DataConnectionFailed",
                             OpenDataChannel(transport, net), wire)
  BY DEF OpenData
<1> DEFINE t == OpenDataChannel(transport, net)
<1>5. /\ Sound(t) /\ t.control = transport.control
      /\ t.data = IF OpenDataChannelOk(net) THEN Connected ELSE Closed
  BY <1>3, <1>4, OpenDataChannelSound
<1> HIDE DEF t
<1>6. CASE /\ OpenDataChannelOk(net) /\ transport' = t
           /\ GoTo("command") /\ UNCHANGED <<session, wire>>
  <2>1. DataStage' = "tcp"
    BY <1>2, <1>6, Arrives DEF DataStage
  <2> QED BY <1>1, <1>2, <1>3, <1>5, <1>6, <2>1, TransferGoesOn, Stages
<1>7. CASE ~OpenDataChannelOk(net) /\ TransferFails("DataConnectionFailed", t, wire)
  BY <1>1, <1>2, <1>3, <1>5, <1>7, TransferFailsStep, Errors
<1> QED BY <1>4, <1>6, <1>7 DEF t

LEMMA TransferCommandStep ==
    ASSUME ClientInv, NEW pc \in {"command", "list"}, NEW op,
           NEW cmd \in TransferCommands, SendTransferCommand(pc, op, cmd)
    PROVE  ClientInv'
<1>1. call.pc = pc
  BY DEF SendTransferCommand
<1>2. call.pc \in TransferSteps /\ "dataTls" \in TransferSteps /\ "list" \in TransferSteps
  BY <1>1 DEF TransferSteps
<1>3. /\ Typed /\ Sound(transport) /\ wire \in Seq(Reply) /\ history \in History
      /\ call.op \in Ops /\ FailError[call.op] \in FtpsError
      /\ Stage(transport.data) = "tcp"
  <2>1. DataStage = "tcp"
    BY <1>1 DEF DataStage
  <2> QED BY <1>2, <2>1, InTransfer
<1>4. PICK e \in Exchanges(wire, cmd, call.arg) :
         /\ Heard(e)
         /\ \/ FailAndDisconnect(call.op, "ConnectionFailed")
            \/ /\ wire' = e.rest /\ UNCHANGED <<transport, session>>
               /\ GoTo("dataTls") \/ GoTo("list")
            \/ TransferFails(FailError[call.op], CloseData(transport), e.rest)
  BY DEF SendTransferCommand, TryList, CommandRefused
<1>5. e.own \in BOOLEAN /\ e.rest \in Seq(Reply)
  BY <1>3, <1>4, ExchangesTyped
<1>6. history' \in History
  BY <1>3, <1>4, <1>5, HeardTyped
<1>7. CASE FailAndDisconnect(call.op, "ConnectionFailed")
  BY <1>3, <1>6, <1>7, FailAndDisconnectStep, Errors DEF SessionDeadErrors
<1>8. CASE /\ wire' = e.rest /\ UNCHANGED <<transport, session>>
           /\ GoTo("dataTls") \/ GoTo("list")
  <2>1. PICK next \in {"dataTls", "list"} : GoTo(next)
    BY <1>8
  <2>2. next \in TransferSteps
    BY <1>2
  <2>3. call'.pc = next
    BY <1>2, <2>1, <2>2, Arrives
  <2>4. DataStage' = "tcp"
    BY <2>1, <2>3 DEF DataStage
  <2> QED
    BY <1>2, <1>3, <1>5, <1>6, <1>8, <2>1, <2>2, <2>4, TransferGoesOn
<1>9. CASE TransferFails(FailError[call.op], CloseData(transport), e.rest)
  BY <1>2, <1>3, <1>5, <1>6, <1>9, CloseDataSound, TransferFailsStep
<1> QED BY <1>4, <1>7, <1>8, <1>9

LEMMA TransferCommandsStep ==
    ASSUME ClientInv,
           StoreCommand \/ RetrieveCommand \/ ListCommand \/ ListFallback
    PROVE  ClientInv'
<1>1. {"STOR", "RETR", "MLSD", "LIST"} \subseteq TransferCommands
  BY DEF TransferCommands
<1>2. CASE StoreCommand
  BY <1>1, <1>2, TransferCommandStep DEF StoreCommand
<1>3. CASE RetrieveCommand
  BY <1>1, <1>3, TransferCommandStep DEF RetrieveCommand
<1>4. CASE ListCommand
  BY <1>1, <1>4, TransferCommandStep DEF ListCommand
<1>5. CASE ListFallback
  BY <1>1, <1>5, TransferCommandStep DEF ListFallback
<1> QED BY <1>2, <1>3, <1>4, <1>5

\* A transfer that fails, and waits once for its final reply.
LEMMA DrainStep ==
    ASSUME ClientInv, call.pc \in TransferSteps, NEW t, Sound(t),
           t.control = transport.control, t.data = Closed,
           NEW err \in FtpsError, TransferFailsAndDrains(err, t)
    PROVE  ClientInv'
<1>1. wire \in Seq(Reply) /\ history \in History
  BY InTransfer
<1>2. PICK e \in Reads(wire) :
         /\ TransferFails(err, t, e.rest)
         /\ history' = SetMissed(history, history.missed \/ e.rest # <<>>)
  BY DEF TransferFailsAndDrains, SetMissed
<1>3. e.rest \in Seq(Reply)
  BY <1>1, <1>2, ReadsTyped
<1>4. history' \in History
  BY <1>1, <1>2, SetMissedFields, HistoryFields
<1> QED BY <1>2, <1>3, <1>4, TransferFailsStep

LEMMA DataTlsStep == ASSUME ClientInv, DataTls PROVE ClientInv'
<1>1. call.pc = "dataTls"
  BY DEF DataTls
<1>2. call.pc \in TransferSteps /\ "data" \in TransferSteps
  BY <1>1 DEF TransferSteps
<1>3. /\ Typed /\ Sound(transport) /\ wire \in Seq(Reply) /\ history \in History
      /\ session \in Session /\ transport.data.tcp /\ ~transport.data.tls
  <2>1. DataStage = "tcp"
    BY <1>1 DEF DataStage
  <2> QED BY <1>2, <2>1, InTransfer, StageTells DEF Sound, Accounted
<1>4. PICK h \in Handshakes(SessionTls),
           err \in {"SessionReuseRequired", "DataTlsHandshakeFailed"} :
         \/ /\ UpgradeDataToTlsOk(transport, SessionTls, h)
            /\ transport' = UpgradeDataToTls(transport, SessionTls, h)
            /\ GoTo("data") /\ UNCHANGED <<session, wire, history>>
         \/ /\ ~UpgradeDataToTlsOk(transport, SessionTls, h)
            /\ TransferFailsAndDrains(err,
                                      UpgradeDataToTls(transport, SessionTls, h))
  BY DEF DataTls
<1> DEFINE t == UpgradeDataToTls(transport, SessionTls, h)
<1>5. /\ Sound(t) /\ t.control = transport.control
      /\ UpgradeDataToTlsOk(transport, SessionTls, h) =>
           \E cert : t.data = Secured(cert)
      /\ ~UpgradeDataToTlsOk(transport, SessionTls, h) => t.data = Closed
  BY <1>3, <1>4, SessionTlsTyped, UpgradeDataSound
<1> HIDE DEF t
<1>6. CASE /\ UpgradeDataToTlsOk(transport, SessionTls, h)
           /\ transport' = t
           /\ GoTo("data") /\ UNCHANGED <<session, wire, history>>
  <2>1. DataStage' = "tls"
    BY <1>2, <1>6, Arrives DEF DataStage
  <2>2. Stage(transport'.data) = "tls"
    BY <1>5, <1>6, Stages
  <2> QED BY <1>2, <1>3, <1>5, <1>6, <2>1, <2>2, TransferGoesOn
<1>7. CASE /\ ~UpgradeDataToTlsOk(transport, SessionTls, h)
           /\ TransferFailsAndDrains(err, t)
  <2>1. err \in FtpsError
    BY <1>4, Errors
  <2> QED BY <1>2, <1>5, <1>7, <2>1, DrainStep
<1> QED BY <1>4, <1>6, <1>7 DEF t

LEMMA DataMovedStep == ASSUME ClientInv, NEW op, DataMoved(op) PROVE ClientInv'
<1>1. /\ call.pc = "data" /\ transport' = CloseData(transport) /\ GoTo("final")
      /\ UNCHANGED <<session, wire, history>>
  BY DEF DataMoved
<1>2. call.pc \in TransferSteps /\ "final" \in TransferSteps
  BY <1>1 DEF TransferSteps
<1>3. Sound(transport) /\ wire \in Seq(Reply) /\ history \in History
  BY <1>2, InTransfer
<1>4. /\ Sound(transport') /\ transport'.control = transport.control
      /\ transport'.data = Closed
  BY <1>1, <1>3, CloseDataSound
<1>5. DataStage' = "closed"
  BY <1>1, <1>2, Arrives DEF DataStage
<1> QED BY <1>1, <1>2, <1>3, <1>4, <1>5, TransferGoesOn, Stages

LEMMA DataFailsStep == ASSUME ClientInv, NEW op, DataFails(op) PROVE ClientInv'
<1>1. /\ call.pc = "data" /\ call.op = op
      /\ TransferFailsAndDrains(FailError[call.op], CloseData(transport))
  BY DEF DataFails
<1>2. call.pc \in TransferSteps
  BY <1>1 DEF TransferSteps
<1>3. Sound(transport) /\ FailError[call.op] \in FtpsError
  BY <1>2, InTransfer
<1> QED BY <1>1, <1>2, <1>3, CloseDataSound, DrainStep

LEMMA FinalReplyStep ==
    ASSUME ClientInv, NEW op, NEW counted \in Session,
           counted.began = session.began,
           counted.connected = session.connected, FinalReply(op, counted)
    PROVE  ClientInv'
<1>1. call.pc = "final" /\ call.op = op
  BY DEF FinalReply
<1>2. call.pc \in TransferSteps
  BY <1>1 DEF TransferSteps
<1>3. /\ Typed /\ Usable /\ transport.control.tls /\ Sound(transport)
      /\ wire \in Seq(Reply) /\ history \in History /\ op \in Ops
      /\ transport.data = Closed
  <2>1. DataStage = "closed"
    BY <1>1 DEF DataStage
  <2> QED BY <1>1, <1>2, <2>1, InTransfer, StageClosed DEF Sound, Accounted
<1>4. PICK e \in Reads(wire), n \in {1, history.uploads} :
         \/ FailAndDisconnect(op, "ConnectionFailed") /\ UNCHANGED history
         \/ /\ wire' = e.rest /\ UNCHANGED transport
            /\ Finish(op, TRUE, "None", counted)
            /\ history' = [history EXCEPT !.own = @ /\ e.own, !.uploads = n]
         \/ TransferFails("FinalReplyFailed", transport, e.rest) /\ Heard(e)
  BY DEF FinalReply
<1>5. e.own \in BOOLEAN /\ e.rest \in Seq(Reply)
  BY <1>3, <1>4, ReadsTyped
<1>6. /\ "ConnectionFailed" \in FtpsError /\ "None" \in FtpsError
      /\ "FinalReplyFailed" \in FtpsError
  BY DEF FtpsError
<1>7. CASE FailAndDisconnect(op, "ConnectionFailed") /\ UNCHANGED history
  BY <1>3, <1>6, <1>7, FailAndDisconnectStep
<1>8. CASE /\ wire' = e.rest /\ UNCHANGED transport
           /\ Finish(op, TRUE, "None", counted)
           /\ history' = [history EXCEPT !.own = @ /\ e.own, !.uploads = n]
  <2>1. history' = SetUploads(SetOwn(history, history.own /\ e.own), n)
    BY <1>8 DEF SetUploads, SetOwn
  <2>2. n \in 0..1
    BY <1>3, <1>4, HistoryFields
  <2>3. SetOwn(history, history.own /\ e.own) \in History
    BY <1>3, <1>5, SetOwnFields, HistoryFields
  <2>4. history' \in History
    BY <2>1, <2>2, <2>3, SetUploadsFields
  <2> QED BY <1>3, <1>5, <1>6, <1>8, <2>4, KeepStep
<1>9. CASE TransferFails("FinalReplyFailed", transport, e.rest) /\ Heard(e)
  <2>1. history' \in History
    BY <1>3, <1>5, <1>9, HeardTyped
  <2> QED BY <1>2, <1>3, <1>5, <1>6, <1>9, <2>1, TransferFailsStep
<1> QED BY <1>4, <1>7, <1>8, <1>9

LEMMA TransferPreserves == ASSUME ClientInv, Transfer PROVE ClientInv'
<1>1. session \in Session
  BY Before DEF Typed
<1>2. CASE StoreWritten \/ RetrieveRead \/ ListRead
  BY <1>2, DataMovedStep DEF StoreWritten, RetrieveRead, ListRead
<1>3. CASE StoreDataFails \/ RetrieveDataFails \/ ListDataFails
  BY <1>3, DataFailsStep DEF StoreDataFails, RetrieveDataFails, ListDataFails
<1>4. CASE StoreFinal
  BY <1>1, <1>4, Counted, FinalReplyStep DEF StoreFinal
<1>5. CASE RetrieveFinal \/ ListFinal
  BY <1>1, <1>5, FinalReplyStep DEF RetrieveFinal, ListFinal
<1> QED
  BY <1>2, <1>3, <1>4, <1>5, PasvStep, OpenDataStep, TransferCommandsStep,
     DataTlsStep
     DEF Transfer

-----------------------------------------------------------------------------
(* The theorems. *)

LEMMA ClientInit == Init => ClientInv
<1> SUFFICES ASSUME Init PROVE ClientInv
  OBVIOUS
<1>1. /\ Sound(transport) /\ transport.control = Closed
      /\ transport.data = Closed
  BY NewTransportSound DEF Init, TransportInit
<1>2. session \in Session
  BY MaxStoresAssumption
     DEF Init, Session, NoConfig, Config, TrustModes, PinValues
<1>3. history \in History
  BY DEF Init, History, TrustModes, PinValues
<1>4. call = Idle /\ call \in Calls /\ call.pc = "idle"
  BY DEF Init, Calls, Idle
<1>5. wire \in Seq(Reply) /\ result \in Results
  BY NoResultTyped, EmptySeq DEF Init
<1>6. ~Usable
  BY DEF Init, Usable
<1>7. SocketsFollowCall
  BY <1>1, <1>4, <1>6, Stages DEF SocketsFollowCall, ControlStage, DataStage
<1>8. SessionFollowsCall
  BY <1>4 DEF SessionFollowsCall, TransferSteps, ConnectSteps
<1> QED BY <1>1, <1>2, <1>3, <1>4, <1>5, <1>7, <1>8 DEF ClientInv, Typed

LEMMA SinglePreserves == ASSUME ClientInv, Single PROVE ClientInv'
BY BeginStep, BeginWithoutMemoryStep, QuitStep, SetReconnectStep, Refusals,
   Commands, SizeMalformedStep, RenameFromStep, RenameToStep,
   ConnectRefusals, ConnectRefusesLengthStep
   DEF Single

LEMMA ClientStep == ClientInv /\ [Next]_vars => ClientInv'
<1> SUFFICES ASSUME ClientInv, [Next]_vars PROVE ClientInv'
  OBVIOUS
<1>1. CASE Next
  BY <1>1, SinglePreserves, StartStep, LoginPreserves, TransferPreserves DEF Next
<1>2. CASE UNCHANGED vars
  BY <1>2
     DEF vars, ClientInv, Typed, SocketsFollowCall, SessionFollowsCall,
         ControlStage, DataStage, Usable
<1> QED BY <1>1, <1>2

\* The inductive invariant: types, and where the sockets, the session flag
\* and the call in progress stand to each other.
THEOREM ClientInvariant == Spec => []ClientInv
BY ClientInit, ClientStep, PTL DEF Spec

\* Every variable keeps its type.
THEOREM ClientTypeCorrect == Spec => []TypeOK
<1>1. ClientInv => TypeOK
  BY DEF ClientInv, Typed, TypeOK, Sound, Accounted, TransportTypeOK
<1> QED BY <1>1, ClientInvariant, PTL

\* Every way out of every call leaves the sockets as the session says.
THEOREM SocketsAlwaysFollowCall == Spec => []SocketsFollowCall
<1>1. ClientInv => SocketsFollowCall
  BY DEF ClientInv
<1> QED BY <1>1, ClientInvariant, PTL

\* The client loses no socket either, the ones begin() deletes included.
THEOREM ClientLosesNoSocket == Spec => []NoSocketLost
<1>1. ClientInv => NoSocketLost
  BY DEF ClientInv, Typed, Sound, Accounted, NoSocketLost
<1> QED BY <1>1, ClientInvariant, PTL

\* The client loses no TLS wrapper, although upgradeDataToTls() deletes none:
\* it never upgrades a data channel that is under TLS.
THEOREM ClientLosesNoWrapper == Spec => []NoWrapperLost
<1>1. ASSUME ClientInv
      PROVE  NoWrapperLost
  <2>1. /\ transport.wrappers = Wrapped(transport.control)
                                  + Wrapped(transport.data) + 0
        /\ transport \in Transport
    BY <1>1 DEF ClientInv, Typed, Sound, Accounted
  <2>2. /\ Wrapped(transport.control) \in Nat
        /\ Wrapped(transport.data) \in Nat
    BY DEF Wrapped
  <2> QED BY <2>1, <2>2 DEF NoWrapperLost
<1> QED BY <1>1, ClientInvariant, PTL

=============================================================================

-------------------------- MODULE FtpsReplyReader --------------------------
(***************************************************************************)
(* ftpReadResponse: the bytes of the control connection become replies.  A  *)
(* line arrives in two pieces, its head (the code, and whether more lines   *)
(* follow) and its end; a line of text is an end alone.  The wait may be    *)
(* given up anywhere, and what has been read is then forgotten: the next    *)
(* wait starts in the middle of a line, or of a reply of several lines.     *)
(*                                                                         *)
(* stream   the pieces in flight                                           *)
(* reading  ftpReadResponse has been called                                *)
(* line     the head of the line being read, or NoHead                     *)
(* multi    multiCode, the code that ends a reply of several lines, or None *)
(* reply    what the last call returned (as in FtpsReplyChannel)           *)
(* start, clock   when the call began; millis(), which wraps               *)
(***************************************************************************)
EXTENDS FtpsControl

CONSTANTS
    Commands,    \* the commands that are sent
    Timeout,     \* FTPS_REPLY_TIMEOUT_MS; drains have a shorter one
    ClockWidth,  \* millis() counts modulo this
    MaxStream    \* bound: with more pieces in flight no text is sent

ASSUME ReaderAssumption ==
    /\ Commands \subseteq DOMAIN Answers
    /\ Timeout \in Nat \ {0}
    /\ ClockWidth \in Nat /\ Timeout + 1 < ClockWidth
    /\ MaxStream \in Nat

VARIABLES stream, reading, line, multi, reply, start, clock

vars == <<stream, reading, line, multi, reply, start, clock>>

NoHead == [code |-> 0, last |-> FALSE, own |-> FALSE]

None == -1

End == [kind |-> "end", head |-> NoHead]

AHead(code, last, own) ==
    [kind |-> "head", head |-> [code |-> code, last |-> last, own |-> own]]

ReaderInit ==
    /\ stream = <<>>
    /\ reading = FALSE
    /\ line = NoHead
    /\ multi = None
    /\ reply = [code |-> Silence, own |-> TRUE]
    /\ start = 0
    /\ clock \in 0..(ClockWidth - 1)

-----------------------------------------------------------------------------
(* The server and the network (external). *)

\* How a server may lay out a reply: one line, or several, the last of which
\* repeats the code.  Lines between them that begin with a code are indented
\* (RFC 959, 4.2), which makes them text.
Layouts(code) ==
    LET last == <<AHead(code, TRUE, TRUE), End>>
    IN  {last, <<AHead(code, FALSE, TRUE), End, End>> \o last}

\* A reply is where its last line's head is.
IsReply(piece) == piece.kind = "head" /\ piece.head.last

\* The replies among the pieces, in order.
Replies(pieces) ==
    LET upTo[n \in 0..Len(pieces)] ==
            IF n = 0 THEN <<>>
            ELSE IF IsReply(pieces[n])
            THEN Append(upTo[n - 1], [own |-> pieces[n].head.own,
                                      code |-> pieces[n].head.code])
            ELSE upTo[n - 1]
    IN  upTo[Len(pieces)]

InFlight ==
    Replies(IF line = NoHead THEN stream
            ELSE <<[kind |-> "head", head |-> line]>> \o stream)

\* A command is sent and the server answers it, once or, of a transfer, twice.
SendCommand ==
    /\ ~reading
    /\ \E cmd \in Commands :
       \E answers \in (IF Len(InFlight) > MaxLate THEN {<<>>} ELSE Answers[cmd]) :
          LET older == [i \in DOMAIN stream |-> [stream[i] EXCEPT !.head.own = FALSE]]
          IN  CASE answers = <<>> -> stream' = older
                [] Len(answers) = 1 ->
                     \E a \in Layouts(answers[1]) : stream' = older \o a
                [] Len(answers) = 2 ->
                     \E a \in Layouts(answers[1]), b \in Layouts(answers[2]) :
                        stream' = older \o a \o b
    /\ UNCHANGED <<reading, line, multi, reply, start, clock>>

\* A line of text nobody asked for.
Text ==
    /\ Len(stream) <= MaxStream
    /\ stream' = Append(stream, End)
    /\ UNCHANGED <<reading, line, multi, reply, start, clock>>

-----------------------------------------------------------------------------
(* ftpReadResponse. *)

Call ==
    /\ ~reading
    /\ reading' = TRUE
    /\ start' = clock
    /\ multi' = None
    /\ UNCHANGED <<stream, line, reply, clock>>

\* A mutant: the clock is not expected to wrap.
ElapsedUnlessWrapped == clock - start

\* The unsigned difference.
Elapsed == (clock - start) % ClockWidth

Waiting == reading /\ Elapsed < Timeout

\* The head of a line is read.
ReadHead ==
    /\ Waiting
    /\ stream # <<>> /\ Head(stream).kind = "head"
    /\ line' = Head(stream).head
    /\ stream' = Tail(stream)
    /\ UNCHANGED <<reading, multi, reply, start, clock>>

Return(code, own) ==
    /\ reading' = FALSE
    /\ reply' = [code |-> code, own |-> own]

\* A mutant: a line of a reply of several lines is taken for its last.
EndsReplyAtOnce(head) == head # NoHead

\* Does the line that has been read end the reply?
EndsReply(head) ==
    head # NoHead /\ head.last /\ multi \in {None, head.code}

\* A mutant: text sets multiCode too.
KeepWaitingForText ==
    /\ multi' = IF ~line.last THEN line.code ELSE multi
    /\ UNCHANGED <<reading, reply, start>>

\* A mutant: every line that comes in starts the wait anew.
KeepWaitingAgain ==
    /\ multi' = IF line # NoHead /\ ~line.last THEN line.code ELSE multi
    /\ start' = clock
    /\ UNCHANGED <<reading, reply>>

\* A line that does not end it: the first of several sets multiCode, text and
\* the rest of a line that was cut are skipped.
KeepWaiting ==
    /\ multi' = IF line # NoHead /\ ~line.last THEN line.code ELSE multi
    /\ UNCHANGED <<reading, reply, start>>

ReadEnd ==
    /\ Waiting
    /\ stream # <<>> /\ Head(stream).kind = "end"
    /\ stream' = Tail(stream)
    /\ line' = NoHead
    /\ IF EndsReply(line)
       THEN Return(line.code, line.own) /\ UNCHANGED <<multi, start>>
       ELSE KeepWaiting
    /\ UNCHANGED clock

\* In the middle of a line, or of the text of a reply of several (that the
\* rest of a line nobody asked for looks like a reply is left out).
Cut ==
    \/ line # NoHead
    \/ stream # <<>> /\ Head(stream) = End /\ InFlight # <<>>

\* The time is up, or the connection fails: the rest of the line is left, which
\* may look like a line of its own.
GiveUp ==
    /\ reading
    /\ line' = NoHead
    /\ \/ UNCHANGED stream
       \/ /\ Cut
          /\ stream' = <<AHead(Garbled.code, TRUE, FALSE)>> \o stream
    /\ Return(Silence, TRUE)
    /\ UNCHANGED <<multi, start, clock>>

TimeUp == ~Waiting /\ GiveUp

ConnectionFails == Waiting /\ GiveUp

\* Time passes; the loop looks at the clock at least once per unit.
Tick ==
    /\ ~reading \/ Waiting
    /\ clock' = (clock + 1) % ClockWidth
    /\ UNCHANGED <<stream, reading, line, multi, reply, start>>

Reader == ReadHead \/ ReadEnd \/ TimeUp

ReaderNext == SendCommand \/ Text \/ Call \/ Reader \/ ConnectionFails \/ Tick

ReaderSpec == ReaderInit /\ [][ReaderNext]_vars

\* The loop runs and the clock goes on.
FairReaderSpec == ReaderSpec /\ WF_vars(Reader) /\ WF_vars(Tick)

-----------------------------------------------------------------------------
(* Properties. *)

Heads == [code: Codes, last: BOOLEAN, own: BOOLEAN] \cup {NoHead}

\* Type correctness.
TypeOK ==
    /\ stream \in Seq([kind: {"head", "end"}, head: Heads])
    /\ reading \in BOOLEAN
    /\ line \in Heads
    /\ multi \in Codes \cup {None}
    /\ reply \in [code: Codes \cup {Silence}, own: BOOLEAN]
    /\ start \in 0..(ClockWidth - 1) /\ clock \in 0..(ClockWidth - 1)

Channel == INSTANCE FtpsReplyChannel WITH wire <- InFlight

\* Reading lines piece by piece implements reading whole replies: whatever the
\* layout of the replies and wherever earlier waits were given up, a call
\* returns the next reply, or what a line that was cut looks like, or nothing.
ImplementsChannel == Channel!ChannelSpec

\* Every wait ends, even if the server never stops sending text.
WaitEnds == reading ~> ~reading

=============================================================================

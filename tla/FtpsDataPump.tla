---------------------------- MODULE FtpsDataPump ----------------------------
(***************************************************************************)
(* The loops that move the data of store(), retrieve() and list() (one     *)
(* action each, StoreWritten or StoreDataFails and the like, in FtpsClient). *)
(* A call of the transport moves some bytes, blocks for a while and gives    *)
(* up, reports the end of the data or fails; the loop counts, watches the    *)
(* clock and the caller's buffer, and asks again.                          *)
(*                                                                         *)
(* kind      whose loop it is: "store", "retrieve" or "list"               *)
(* length    the bytes there are to move                                   *)
(* count     offset or bytesRead                                           *)
(* pc        where it is, with the result once it is done                  *)
(* start, clock   when the last bytes moved; millis(), which wraps          *)
(* inCall    how long the transport has been blocked                       *)
(* moved     auxiliary: the bytes the transport has moved                  *)
(* silent    auxiliary: the time since the last did                        *)
(***************************************************************************)
EXTENDS Integers

CONSTANTS
    MaxLength,   \* bound: the longest file
    Size,        \* the size of the caller's buffer
    Timeout,     \* FTPS_DATA_IO_TIMEOUT_MS
    Poll,        \* FTPS_SOCKET_TIMEOUT_MS: how long a call may block
    ClockWidth   \* millis() counts modulo this

ASSUME PumpAssumption ==
    /\ MaxLength \in Nat
    /\ Size \in Nat \ {0}
    /\ Timeout \in Nat \ {0}
    /\ Poll \in Nat \ {0}
    /\ ClockWidth \in Nat
    /\ Timeout + Poll <= ClockWidth

VARIABLES kind, length, count, pc, start, clock, inCall, moved, silent

vars == <<kind, length, count, pc, start, clock, inCall, moved, silent>>

Kinds == {"store", "retrieve", "list"}

Clock == 0..(ClockWidth - 1)

Failures == {"timeout", "broken", "full", "refused"}

Init ==
    /\ kind \in Kinds
    /\ length \in 0..MaxLength
    /\ count = 0 /\ moved = 0
    /\ pc = "move"
    /\ clock \in Clock /\ start = clock
    /\ inCall = 0 /\ silent = 0

-----------------------------------------------------------------------------

\* A mutant: the buffer is found full one byte too late.
FullLate == kind # "store" /\ count > Size

\* The loop gives up before it asks: the caller's buffer is full.  list()
\* keeps a byte for the NUL.
Full ==
    \/ kind = "retrieve" /\ count >= Size
    \/ kind = "list" /\ count + 1 >= Size

\* What the transport is asked to move.
Ask ==
    CASE kind = "store" -> length - count
      [] kind = "retrieve" -> Size - count
      [] kind = "list" -> Size - count - 1

\* The loop of store() ends by itself.
Written == kind = "store" /\ count >= length

Asking == pc = "move" /\ ~Full /\ ~Written

\* A mutant: the time-out counts from the beginning.
RestartNot == UNCHANGED start

Restart == start' = clock

\* A mutant: writing nothing is progress too.
PiecesOrNone == 0..MaxLength

Pieces == 1..MaxLength

\* Some bytes move: store() has as many as it has left, a file as many as have
\* not been read.
BytesMove ==
    /\ Asking
    /\ \E n \in Pieces :
          /\ n <= Ask /\ n <= length - moved
          /\ moved' = moved + n
          /\ count' = count + n
    /\ Restart
    /\ silent' = 0 /\ inCall' = 0
    /\ UNCHANGED <<kind, length, pc, clock>>

\* The loop ends and the data channel is closed; the final reply is read next.
DataEnds ==
    /\ pc' = "reply"
    /\ UNCHANGED <<kind, length, count, start, clock, inCall, moved, silent>>

StoreEnds == pc = "move" /\ Written /\ DataEnds

\* The server closed the data connection: the file ends here, or what was left
\* of it is lost.
EndOfData == Asking /\ kind # "store" /\ DataEnds

\* What a call that fails leaves in bytesRead: nothing, but for a download that
\* found the buffer full.
Fails(why) ==
    /\ pc' = why
    /\ count' = IF kind = "store" \/ (kind = "retrieve" /\ why = "full")
                THEN count ELSE 0
    /\ UNCHANGED <<kind, length, start, clock, inCall, moved, silent>>

BufferFull == pc = "move" /\ Full /\ Fails("full")

\* The transport reports an error; to a store(), nothing written is one.
Broken == Asking /\ Fails("broken")

\* A mutant: the clock is not expected to wrap.
ElapsedUnlessWrapped == IF clock >= start THEN clock - start ELSE ClockWidth

\* The unsigned difference.
Elapsed == IF clock >= start THEN clock - start ELSE clock + ClockWidth - start

\* A call of the transport that has blocked for its time returns
\* NSAPI_ERROR_WOULD_BLOCK.
Blocked == Asking /\ inCall = Poll

AsksAgain ==
    /\ Blocked /\ Elapsed < Timeout
    /\ inCall' = 0
    /\ UNCHANGED <<kind, length, count, pc, start, clock, moved, silent>>

TimesOut == Blocked /\ Elapsed >= Timeout /\ Fails("timeout")

\* A mutant: a download that ended is taken for whole.
FinalReplyIgnored ==
    /\ pc = "reply"
    /\ pc' = "ok"
    /\ UNCHANGED <<kind, length, count, start, clock, inCall, moved, silent>>

\* The server (external) confirms a download only if it has sent the whole
\* file; what it has received of an upload it takes for the whole.
FinalReply ==
    /\ pc = "reply"
    /\ \/ /\ moved = length
          /\ pc' = "ok"
          /\ UNCHANGED <<kind, length, count, start, clock, inCall, moved, silent>>
       \/ Fails("refused")

\* A mutant: a call of the transport blocks until it has something.
PassesForEver ==
    /\ Asking
    /\ inCall' = inCall + 1

\* Time passes while the transport is blocked.
Passes ==
    /\ Asking /\ inCall < Poll
    /\ inCall' = inCall + 1

Tick ==
    /\ Passes
    /\ clock' = IF clock + 1 = ClockWidth THEN 0 ELSE clock + 1
    /\ silent' = silent + 1
    /\ UNCHANGED <<kind, length, count, pc, start, moved>>

Done == pc \in Failures \cup {"ok"} /\ UNCHANGED vars

\* The steps of the loop, and those of the transport and the peer.
Loop == StoreEnds \/ BufferFull \/ AsksAgain \/ TimesOut \/ FinalReply

Peer == BytesMove \/ EndOfData \/ Broken

Next == Loop \/ Peer \/ Tick \/ Done

Spec == Init /\ [][Next]_vars

\* The loop runs and the clock goes on; the peer need not do anything.
FairSpec == Spec /\ WF_vars(Loop) /\ WF_vars(Tick)

-----------------------------------------------------------------------------
(* Properties. *)

\* Type correctness.
TypeOK ==
    /\ kind \in Kinds
    /\ length \in 0..MaxLength
    /\ count \in Nat /\ moved \in Nat
    /\ pc \in Failures \cup {"move", "reply", "ok"}
    /\ start \in Clock /\ clock \in Clock
    /\ inCall \in 0..Poll
    /\ silent \in Nat

\* Whatever the sizes of the pieces, what is asked for next fits where it goes,
\* and a listing's NUL after it: the caller's buffer is never overrun.
BufferHolds ==
    CASE kind = "store" -> count <= length
      [] kind = "retrieve" -> /\ count <= Size
                              /\ Asking => count + Ask <= Size
      [] kind = "list" -> /\ count < Size
                          /\ Asking => Ask > 0 /\ count + Ask < Size

\* Success means the whole file, and that it was shorter than the buffer: one
\* that fills it is refused (in a list(), one that leaves room for the NUL
\* alone), and one that was cut short has no final reply to confirm it.
SuccessIsWhole ==
    pc = "ok" => /\ count = length /\ moved = length
                 /\ kind = "retrieve" => length < Size
                 /\ kind = "list" => length + 1 < Size

\* A call gives up in time and not before: the time-out comes after Timeout of
\* silence, of which a trickle of bytes is none, and at most one more call of
\* the transport later, wherever the clock wraps.
TimeoutInTime ==
    /\ pc = "timeout" => silent >= Timeout
    /\ silent < Timeout + Poll

\* Every transfer ends, even if the peer sends a byte at a time and each just
\* before the time-out: the buffer, or what there is to write, is a bound.
TransferEnds == <>(pc \in Failures \cup {"ok"})

=============================================================================

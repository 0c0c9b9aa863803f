------------------------- MODULE FtpsDataPumpProofs -------------------------
(***************************************************************************)
(* FtpsDataPump's invariants, for every size of file and buffer, every      *)
(* time-out and every width of the clock.  The inductive invariant relates  *)
(* the program's variables to what has really happened: count to the bytes  *)
(* the transport has moved, and the difference of the clock to the silence, *)
(* which is short enough for the clock not to come round.                   *)
(***************************************************************************)
EXTENDS FtpsDataPump, TLAPS

\* What is counted is what has moved, and fits.
CountInv ==
    /\ moved <= length
    /\ pc \in {"move", "reply", "ok"} => count = moved
    /\ kind = "store" => count <= length
    /\ kind = "retrieve" => count <= Size
    /\ kind = "list" => count < Size

\* The loop has ended: store() has written everything, the others have room.
EndedInv ==
    pc \in {"reply", "ok"} =>
        /\ kind = "store" => count = length
        /\ kind = "retrieve" => count < Size
        /\ kind = "list" => count + 1 < Size

ConfirmedInv == pc = "ok" => moved = length

\* The silence up to the call of the transport in progress is shorter than the
\* time-out.
SilenceInv ==
    /\ inCall <= silent
    /\ silent - inCall < Timeout
    /\ pc = "move" => Elapsed = silent
    /\ pc = "timeout" => silent >= Timeout

PumpInv == TypeOK /\ CountInv /\ EndedInv /\ ConfirmedInv /\ SilenceInv

-----------------------------------------------------------------------------

\* The unsigned difference grows with the clock, through a wrap.
LEMMA ElapsedTicks ==
    ASSUME start \in Clock, clock \in Clock, Elapsed + 1 < ClockWidth,
           UNCHANGED start,
           clock' = IF clock + 1 = ClockWidth THEN 0 ELSE clock + 1
    PROVE  Elapsed' = Elapsed + 1 /\ clock' \in Clock
BY PumpAssumption DEF Elapsed, Clock

\* Right after the bytes moved it is 0.
LEMMA ElapsedRestarts ==
    ASSUME clock \in Clock, start' = clock, UNCHANGED clock
    PROVE  Elapsed' = 0
BY PumpAssumption DEF Elapsed, Clock

LEMMA InitPump == Init => PumpInv
BY PumpAssumption
   DEF Init, PumpInv, TypeOK, CountInv, EndedInv, ConfirmedInv, SilenceInv,
       Elapsed, Clock

LEMMA MovePump == ASSUME PumpInv, BytesMove PROVE PumpInv'
<1>1. PICK n \in 1..MaxLength :
         /\ n <= Ask /\ n <= length - moved
         /\ moved' = moved + n /\ count' = count + n
  BY DEF BytesMove, Pieces
<1>2. /\ pc = "move" /\ pc' = "move"
      /\ UNCHANGED <<kind, length, clock>>
      /\ start' = clock /\ silent' = 0 /\ inCall' = 0
  BY DEF BytesMove, Asking, Restart
<1>3. /\ length \in Nat /\ count \in Nat /\ moved \in Nat /\ n \in Nat
      /\ count = moved /\ moved <= length
  BY <1>1, <1>2, PumpAssumption DEF PumpInv, TypeOK, CountInv
<1>4. TypeOK'
  BY <1>1, <1>2, <1>3, PumpAssumption DEF PumpInv, TypeOK
<1>5. /\ moved' <= length' /\ count' = moved' /\ count' <= length'
  BY <1>1, <1>2, <1>3
<1>6. kind = "retrieve" => count' <= Size
  BY <1>1, <1>3, PumpAssumption DEF Ask
<1>7. kind = "list" => count' < Size
  BY <1>1, <1>3, PumpAssumption DEF Ask
<1>8. CountInv'
  BY <1>2, <1>5, <1>6, <1>7 DEF CountInv
<1>9. EndedInv' /\ ConfirmedInv'
  BY <1>2 DEF EndedInv, ConfirmedInv
<1>10. SilenceInv'
  <2>1. Elapsed' = 0
    BY <1>2, ElapsedRestarts DEF PumpInv, TypeOK
  <2> QED BY <1>2, <2>1, PumpAssumption DEF SilenceInv
<1> QED BY <1>4, <1>8, <1>9, <1>10 DEF PumpInv

LEMMA EndPump == ASSUME PumpInv, StoreEnds \/ EndOfData PROVE PumpInv'
<1>1. /\ pc = "move" /\ pc' = "reply"
      /\ UNCHANGED <<kind, length, count, start, clock, inCall, moved, silent>>
  BY DEF StoreEnds, EndOfData, DataEnds, Asking
<1>2. EndedInv'
  <2>1. CASE StoreEnds
    BY <1>1, <2>1 DEF StoreEnds, Written, EndedInv, PumpInv, TypeOK, CountInv
  <2>2. CASE EndOfData
    BY <1>1, <2>2, PumpAssumption
       DEF EndOfData, Asking, Full, EndedInv, PumpInv, TypeOK, CountInv
  <2> QED BY <2>1, <2>2
<1>3. TypeOK' /\ CountInv' /\ ConfirmedInv' /\ SilenceInv'
  BY <1>1 DEF PumpInv, TypeOK, CountInv, ConfirmedInv, SilenceInv
<1> QED BY <1>2, <1>3 DEF PumpInv

LEMMA FailPump ==
    ASSUME PumpInv, NEW why \in Failures, Fails(why),
           why = "timeout" => silent >= Timeout
    PROVE  PumpInv'
<1>1. /\ pc' = why /\ why \notin {"move", "reply", "ok"}
      /\ UNCHANGED <<kind, length, start, clock, inCall, moved, silent>>
      /\ count' \in {count, 0}
  BY DEF Fails, Failures
<1>2. TypeOK'
  BY <1>1 DEF PumpInv, TypeOK
<1>3. CountInv'
  BY <1>1, PumpAssumption DEF PumpInv, TypeOK, CountInv
<1>4. EndedInv' /\ ConfirmedInv' /\ SilenceInv'
  BY <1>1 DEF PumpInv, EndedInv, ConfirmedInv, SilenceInv
<1> QED BY <1>2, <1>3, <1>4 DEF PumpInv

LEMMA AskPump == ASSUME PumpInv, AsksAgain PROVE PumpInv'
<1>1. /\ pc = "move" /\ Elapsed < Timeout /\ inCall' = 0
      /\ UNCHANGED <<kind, length, count, pc, start, clock, moved, silent>>
  BY DEF AsksAgain, Blocked, Asking
<1>2. Elapsed' = Elapsed
  BY <1>1 DEF Elapsed
<1>3. TypeOK'
  BY <1>1, PumpAssumption DEF PumpInv, TypeOK
<1>4. CountInv' /\ EndedInv' /\ ConfirmedInv'
  BY <1>1 DEF PumpInv, CountInv, EndedInv, ConfirmedInv
<1>5. SilenceInv'
  BY <1>1, <1>2 DEF PumpInv, TypeOK, SilenceInv
<1> QED BY <1>3, <1>4, <1>5 DEF PumpInv

LEMMA ReplyPump == ASSUME PumpInv, FinalReply PROVE PumpInv'
<1>1. CASE Fails("refused")
  BY <1>1, FailPump DEF Failures
<1>2. CASE /\ pc = "reply" /\ moved = length /\ pc' = "ok"
           /\ UNCHANGED <<kind, length, count, start, clock, inCall, moved,
                          silent>>
  BY <1>2
     DEF PumpInv, TypeOK, CountInv, EndedInv, ConfirmedInv, SilenceInv
<1> QED BY <1>1, <1>2 DEF FinalReply

LEMMA TickPump == ASSUME PumpInv, Tick PROVE PumpInv'
<1>1. /\ pc = "move" /\ inCall < Poll /\ inCall' = inCall + 1
      /\ clock' = IF clock + 1 = ClockWidth THEN 0 ELSE clock + 1
      /\ silent' = silent + 1
      /\ UNCHANGED <<kind, length, count, pc, start, moved>>
  BY DEF Tick, Passes, Asking
<1>2. /\ inCall \in Nat /\ silent \in Nat /\ Elapsed = silent
      /\ start \in Clock /\ clock \in Clock
  BY <1>1, PumpAssumption DEF PumpInv, TypeOK, SilenceInv
<1>3. silent + 1 < Timeout + Poll
  BY <1>1, <1>2, PumpAssumption DEF PumpInv, SilenceInv
<1>4. Elapsed' = Elapsed + 1 /\ clock' \in Clock
  BY <1>1, <1>2, <1>3, ElapsedTicks, PumpAssumption
<1>5. TypeOK'
  BY <1>1, <1>2, <1>4, PumpAssumption DEF PumpInv, TypeOK
<1>6. CountInv' /\ EndedInv' /\ ConfirmedInv'
  BY <1>1 DEF PumpInv, CountInv, EndedInv, ConfirmedInv
<1>7. SilenceInv'
  BY <1>1, <1>2, <1>4, PumpAssumption DEF PumpInv, SilenceInv
<1> QED BY <1>5, <1>6, <1>7 DEF PumpInv

LEMMA StepPump == PumpInv /\ [Next]_vars => PumpInv'
<1> SUFFICES ASSUME PumpInv, [Next]_vars PROVE PumpInv'
  OBVIOUS
<1>1. CASE BytesMove
  BY <1>1, MovePump
<1>2. CASE StoreEnds \/ EndOfData
  BY <1>2, EndPump
<1>3. CASE BufferFull \/ Broken
  BY <1>3, FailPump DEF BufferFull, Broken, Failures
<1>4. CASE TimesOut
  <2>1. silent >= Timeout
    BY <1>4 DEF TimesOut, Blocked, Asking, PumpInv, SilenceInv
  <2> QED BY <1>4, <2>1, FailPump DEF TimesOut, Failures
<1>5. CASE AsksAgain
  BY <1>5, AskPump
<1>6. CASE FinalReply
  BY <1>6, ReplyPump
<1>7. CASE Tick
  BY <1>7, TickPump
<1>8. CASE UNCHANGED vars
  <2>1. Elapsed' = Elapsed
    BY <1>8 DEF vars, Elapsed
  <2> QED
    BY <1>8, <2>1
       DEF vars, PumpInv, TypeOK, CountInv, EndedInv, ConfirmedInv, SilenceInv
<1> QED
  BY <1>1, <1>2, <1>3, <1>4, <1>5, <1>6, <1>7, <1>8 DEF Next, Loop, Peer, Done

\* What the loop's variables say of what has happened.
THEOREM PumpInvariant == Spec => []PumpInv
BY InitPump, StepPump, PTL DEF Spec

\* Type correctness.
THEOREM PumpTypeCorrect == Spec => []TypeOK
<1>1. PumpInv => TypeOK
  BY DEF PumpInv
<1> QED BY <1>1, PumpInvariant, PTL

\* The caller's buffer is never overrun, whatever its size.
THEOREM BufferIsSafe == Spec => []BufferHolds
<1>1. PumpInv => BufferHolds
  <2> SUFFICES ASSUME PumpInv PROVE BufferHolds
    OBVIOUS
  <2>1. count \in Nat /\ length \in Nat
    BY PumpAssumption DEF PumpInv, TypeOK
  <2>2. CASE kind = "store"
    BY <2>2 DEF PumpInv, CountInv, BufferHolds
  <2>3. CASE kind = "retrieve"
    BY <2>1, <2>3, PumpAssumption DEF PumpInv, CountInv, BufferHolds, Ask
  <2>4. CASE kind = "list"
    BY <2>1, <2>4, PumpAssumption
       DEF PumpInv, CountInv, BufferHolds, Ask, Asking, Full
  <2> QED BY <2>2, <2>3, <2>4 DEF PumpInv, TypeOK, Kinds
<1> QED BY <1>1, PumpInvariant, PTL

\* A call that succeeds has moved the whole file.
THEOREM SuccessMovedAll == Spec => []SuccessIsWhole
<1>1. PumpInv => SuccessIsWhole
  BY DEF PumpInv, CountInv, EndedInv, ConfirmedInv, SuccessIsWhole
<1> QED BY <1>1, PumpInvariant, PTL

\* The time-out comes in time, wherever the clock wraps.
THEOREM TimeoutIsInTime == Spec => []TimeoutInTime
<1>1. PumpInv => TimeoutInTime
  BY PumpAssumption DEF PumpInv, TypeOK, SilenceInv, TimeoutInTime
<1> QED BY <1>1, PumpInvariant, PTL

=============================================================================

------------------------- MODULE RetryUploadProofs -------------------------
(***************************************************************************)
(* RetryUpload's invariants, for any number of files, any pool with a slot *)
(* for data connections, and any TIME_WAIT and pauses.  The pool empties   *)
(* while the pauses last: what the first attempt found or left has had     *)
(* both, and the second attempt leaves one socket only.                    *)
(***************************************************************************)
EXTENDS RetryUpload, TLAPS

USE DEF MaxAttempts

Trying == {"store", "transfer", "judge", "wait"}

Outcomes ==
    [op: {"none", "pending", "begin", "connect", "store", "quit"},
     ok: BOOLEAN, lastError: FtpsError]

Typed ==
    /\ up \in BOOLEAN
    /\ outcome \in Outcomes
    /\ nsapi \in NsapiCodes \cup {0, NsapiNoSocket}
    /\ data \in Slots \cup {NoSlot}
    /\ data \in Slots <=> pc = "transfer"
    /\ pc \in Trying \cup {"begin", "connect", "next", "quit", "done"}

\* Where the sketch decides, the session is up exactly when the last call's
\* error is not a session-dead one.
SessionInv ==
    /\ pc \in {"store", "wait", "next"} => up
    /\ pc = "judge" => (up <=> ~IsSessionDead(outcome.lastError))
    /\ pc = "judge" /\ outcome.ok => up

CountInv ==
    /\ file \in 0..Uploads /\ ok \in Nat /\ failed \in Nat
    /\ attempt \in 0..MaxAttempts
    /\ pc \in {"begin", "connect"} => file = 0
    /\ pc \in Trying => attempt >= 1 /\ file >= 1 /\ ok + failed = file - 1
    /\ pc = "wait" => attempt < MaxAttempts
    /\ pc \in {"begin", "connect", "next", "quit"} => ok + failed = file
    /\ pc = "done" => ok + failed <= file
    /\ pc = "quit" /\ file < Uploads => ~up

\* Slot s is free after another d units of time.
FreeAfter(s, d) == pool[s] = 0 \/ pool[s] <= d

PoolInv ==
    /\ pool \in [Slots -> 0..TimeWait]
    /\ start \in 0..(ClockWidth - 1) /\ clock \in 0..(ClockWidth - 1)
    /\ pc = "wait" => Elapsed <= Backoff
    /\ pc = "wait" => \A s \in Slots : FreeAfter(s, TimeWait - Elapsed)
    /\ pc \in {"store", "transfer"} /\ attempt = 2
         => \A s \in Slots : FreeAfter(s, TimeWait - Backoff1)
    /\ pc = "judge" /\ attempt = 2
         => \E last \in Slots : \A s \in Slots \ {last} :
               FreeAfter(s, TimeWait - Backoff1)
    /\ pc = "wait" /\ attempt = 2
         => \E last \in Slots : \A s \in Slots \ {last} :
               FreeAfter(s, TimeWait - Backoff1 - Elapsed)
    /\ pc = "store" /\ attempt = MaxAttempts
         => /\ \A s \in Slots : FreeAfter(s, TimeWait - Backoff2)
            /\ \E last \in Slots : \A s \in Slots \ {last} :
                  FreeAfter(s, TimeWait - Backoff1 - Backoff2)

RetryInv == Typed /\ SessionInv /\ CountInv /\ PoolInv

-----------------------------------------------------------------------------
(* The clock. *)

LEMMA ElapsedNat ==
    ASSUME start \in 0..(ClockWidth - 1), clock \in 0..(ClockWidth - 1)
    PROVE  Elapsed \in 0..(ClockWidth - 1)
BY TimesAssumption DEF Elapsed

LEMMA BackoffNat == Backoff \in Nat \ {0} /\ Backoff < ClockWidth
BY TimesAssumption DEF Backoff

\* The difference counts up through a wrap of the clock.
LEMMA ElapsedTicks ==
    ASSUME start \in 0..(ClockWidth - 1), clock \in 0..(ClockWidth - 1),
           Elapsed < Backoff, UNCHANGED start,
           clock' = IF clock + 1 = ClockWidth THEN 0 ELSE clock + 1
    PROVE  /\ Elapsed' = Elapsed + 1
           /\ clock' \in 0..(ClockWidth - 1)
<1>1. Elapsed + 1 < ClockWidth
  BY ElapsedNat, BackoffNat, TimesAssumption
<1> QED BY <1>1, TimesAssumption DEF Elapsed

\* A unit of time brings every slot nearer to being free.
LEMMA PoolTicks ==
    ASSUME pool \in [Slots -> 0..TimeWait],
           pool' = [s \in Slots |-> IF pool[s] = 0 THEN 0 ELSE pool[s] - 1]
    PROVE  /\ pool' \in [Slots -> 0..TimeWait]
           /\ \A s \in Slots : pool'[s] = IF pool[s] = 0 THEN 0 ELSE pool[s] - 1
<1>1. TimeWait \in Nat
  BY TimesAssumption
<1>2. \A s \in Slots : pool'[s] = IF pool[s] = 0 THEN 0 ELSE pool[s] - 1
  OBVIOUS
<1>3. \A s \in Slots : pool[s] \in 0..TimeWait
  OBVIOUS
<1>4. \A s \in Slots : pool'[s] \in 0..TimeWait
  BY <1>1, <1>2, <1>3
<1> QED BY <1>2, <1>4

\* A slot taken by a connection, or left in TIME_WAIT by one.
LEMMA PoolTaken ==
    ASSUME pool \in [Slots -> 0..TimeWait], NEW s \in Slots,
           NEW rest \in {0, TimeWait}, pool' = [pool EXCEPT ![s] = rest]
    PROVE  /\ pool' \in [Slots -> 0..TimeWait]
           /\ \A t \in Slots \ {s} : pool'[t] = pool[t]
BY TimesAssumption

-----------------------------------------------------------------------------
(* Steps that leave the pool and the clock alone. *)

Quiet == UNCHANGED <<pool, clock, start>>

LEMMA QuietKeepsPool ==
    ASSUME PoolInv, Quiet, pc' \notin {"wait", "judge", "store", "transfer"}
    PROVE  PoolInv'
BY DEF PoolInv, Quiet

\* A step from one point of an attempt to another.
LEMMA AttemptKeepsPool ==
    ASSUME PoolInv, Quiet, UNCHANGED attempt, pc = "store",
           pc' \in {"transfer", "judge"}
    PROVE  PoolInv'
<1>1. PICK last \in Slots : TRUE
  BY SlotsAssumption
<1>2. pc' = "judge" /\ attempt' = 2
        => \A s \in Slots \ {last} : FreeAfter(s, TimeWait - Backoff1)'
  BY DEF PoolInv, Quiet, FreeAfter
<1>3. UNCHANGED Elapsed
  BY DEF Quiet, Elapsed
<1> QED BY <1>1, <1>2, <1>3 DEF PoolInv, Quiet, FreeAfter

-----------------------------------------------------------------------------
(* One lemma for each part of the invariant. *)

USE DEF session, sockets, counts, batch, StoreStep

LEMMA ErrorTypes ==
    /\ SessionDeadErrors \subseteq FtpsError
    /\ "None" \in FtpsError \ SessionDeadErrors
    /\ "QuitFailed" \in FtpsError
    /\ "DataConnectionFailed" \notin SessionDeadErrors
BY DEF FtpsError, SessionDeadErrors

\* FtpsSession's errors are the library's.
LEMMA SameErrors ==
    /\ Session!FtpsError = FtpsError
    /\ Session!SessionDeadErrors = SessionDeadErrors
BY DEF Session!FtpsError, FtpsError, Session!SessionDeadErrors, SessionDeadErrors

LEMMA ReturnType ==
    ASSUME NEW op \in {"begin", "connect", "store"}, NEW b \in BOOLEAN,
           NEW err \in FtpsError, Session!Return(op, b, err)
    PROVE  outcome' \in Outcomes /\ outcome'.ok = b /\ outcome'.lastError = err
BY DEF Session!Return, Outcomes

\* What each kind of return leaves.
LEMMA ReturnTypes ==
    ASSUME NEW op \in {"begin", "connect", "store"}
    PROVE  /\ Session!Succeeds(op) \/ Session!Connected(op) \/ Session!Cleared(op)
                => outcome' \in Outcomes /\ outcome'.ok
                     /\ outcome'.lastError = "None"
           /\ Session!FailsSoftly(op) \/ Session!Fails(op) \/ Session!Refused(op)
                => outcome' \in Outcomes /\ ~outcome'.ok
           /\ Session!FailsSoftly(op)
                => outcome'.lastError \notin SessionDeadErrors
           /\ Session!Fails(op) => outcome'.lastError \in SessionDeadErrors
<1>1. Session!Succeeds(op) \/ Session!Connected(op) \/ Session!Cleared(op)
        => outcome' \in Outcomes /\ outcome'.ok /\ outcome'.lastError = "None"
  BY ErrorTypes, ReturnType
     DEF Session!Succeeds, Session!Connected, Session!Cleared
<1>2. ASSUME Session!FailsSoftly(op)
      PROVE  outcome' \in Outcomes /\ ~outcome'.ok
             /\ outcome'.lastError \notin SessionDeadErrors
  <2>1. PICK err \in FtpsError \ (SessionDeadErrors \cup {"None"}) : Session!Return(op, FALSE, err)
    BY <1>2, SameErrors DEF Session!FailsSoftly
  <2>2. outcome' \in Outcomes /\ outcome'.ok = FALSE /\ outcome'.lastError = err
    BY <2>1, ErrorTypes, ReturnType
  <2> QED BY <2>1, <2>2
<1>3. ASSUME Session!Fails(op)
      PROVE  outcome' \in Outcomes /\ ~outcome'.ok
             /\ outcome'.lastError \in SessionDeadErrors
  <2>1. PICK err \in SessionDeadErrors : Session!Return(op, FALSE, err)
    BY <1>3, SameErrors DEF Session!Fails
  <2>2. outcome' \in Outcomes /\ outcome'.ok = FALSE /\ outcome'.lastError = err
    BY <2>1, ErrorTypes, ReturnType
  <2> QED BY <2>1, <2>2
<1>4. ASSUME Session!Refused(op)
      PROVE  outcome' \in Outcomes /\ ~outcome'.ok
  <2>1. PICK err \in SessionDeadErrors : Session!Return(op, FALSE, err)
    BY <1>4, SameErrors DEF Session!Refused
  <2>2. outcome' \in Outcomes /\ outcome'.ok = FALSE /\ outcome'.lastError = err
    BY <2>1, ErrorTypes, ReturnType
  <2> QED BY <2>1, <2>2
<1> QED BY <1>1, <1>2, <1>3, <1>4

LEMMA TypedStep == ASSUME RetryInv, Step PROVE Typed'
<1>1. Typed /\ NoSlot \notin Slots
  BY OtherAssumption DEF RetryInv
<1>2. CASE Begin
  BY <1>1, <1>2, ReturnTypes DEF Typed, Trying, Begin
<1>3. CASE Connect
  BY <1>1, <1>3, ReturnTypes DEF Typed, Trying, Connect
<1>4. CASE StoreFailsEarly
  BY <1>1, <1>4, ReturnTypes DEF Typed, Trying, StoreFailsEarly
<1>5. CASE OpenRefused \/ OpenFails
  BY <1>1, <1>5, ReturnTypes
     DEF Typed, Trying, OpenRefused, OpenFails, DataConnectionFails
<1>6. CASE OpenData
  <2>1. outcome' \in Outcomes
    BY <1>6, ErrorTypes
       DEF OpenData, Session!CallBegins, Session!Pending, Outcomes
  <2> QED BY <1>1, <1>6, <2>1 DEF Typed, Trying, OpenData, Free
<1>7. CASE StoreReturns
  BY <1>1, <1>7, ReturnTypes DEF Typed, Trying, StoreReturns
<1>8. CASE NextFile \/ Uploaded \/ GiveUp \/ Retry \/ WaitOver
  BY <1>1, <1>8 DEF Typed, Trying, NextFile, Uploaded, GiveUp, Retry, WaitOver
<1>9. CASE Quit
  <2>1. outcome' \in Outcomes
    BY <1>1, <1>9, ErrorTypes
       DEF Typed, Quit, Session!QuitReturns, Session!Return, Outcomes
  <2> QED BY <1>1, <1>9, <2>1 DEF Typed, Trying, Quit
<1> QED
  BY <1>2, <1>3, <1>4, <1>5, <1>6, <1>7, <1>8, <1>9 DEF Step

LEMMA SessionStep == ASSUME RetryInv, Step PROVE SessionInv'
<1> USE DEF IsSessionDead
<1>1. SessionInv /\ Typed /\ Typed'
  BY TypedStep DEF RetryInv
<1>2. CASE Begin \/ Connect
  BY <1>1, <1>2, ReturnTypes
     DEF SessionInv, Begin, Connect, Session!Connected
<1>3. ASSUME pc' = "judge", Session!Succeeds("store") \/ Session!FailsSoftly("store")
      PROVE  SessionInv'
  BY <1>1, <1>3, ReturnTypes, ErrorTypes
     DEF SessionInv, Typed, Session!Succeeds, Session!FailsSoftly
<1>4. ASSUME pc' = "judge", Session!Fails("store") PROVE SessionInv'
  BY <1>1, <1>4, ReturnTypes DEF SessionInv, Typed, Session!Fails
<1>5. CASE StoreFailsEarly \/ OpenRefused \/ OpenFails \/ StoreReturns
  BY <1>3, <1>4, <1>5
     DEF StoreFailsEarly, OpenRefused, OpenFails, DataConnectionFails,
         StoreReturns
<1>6. CASE OpenData
  BY <1>6 DEF SessionInv, OpenData
<1>7. CASE NextFile \/ Uploaded \/ GiveUp \/ Retry \/ WaitOver
  BY <1>1, <1>7
     DEF SessionInv, Typed, NextFile, Uploaded, GiveUp, Retry, Retriable, WaitOver
<1>8. CASE Quit
  BY <1>8 DEF SessionInv, Quit
<1> QED BY <1>2, <1>5, <1>6, <1>7, <1>8 DEF Step

LEMMA CountStep == ASSUME RetryInv, Step PROVE CountInv'
<1>1. CountInv /\ SessionInv /\ Uploads \in Nat
  BY OtherAssumption DEF RetryInv
<1>2. CASE Begin \/ Connect
  BY <1>1, <1>2 DEF CountInv, Trying, Begin, Connect
<1>3. CASE StoreFailsEarly \/ OpenRefused \/ OpenFails \/ OpenData \/ StoreReturns
  BY <1>1, <1>3
     DEF CountInv, Trying, StoreFailsEarly, OpenRefused, OpenFails, OpenData,
         StoreReturns
<1>4. CASE NextFile
  BY <1>1, <1>4 DEF CountInv, Trying, NextFile
<1>5. CASE Uploaded \/ Retry
  BY <1>1, <1>5 DEF CountInv, Trying, Uploaded, Retry, Retriable
<1>6. CASE GiveUp
  BY <1>1, <1>6 DEF CountInv, SessionInv, Trying, GiveUp
<1>7. CASE WaitOver
  BY <1>1, <1>7 DEF CountInv, Trying, WaitOver, NextAttempt
<1>8. CASE Quit
  BY <1>1, <1>8 DEF CountInv, Trying, Quit
<1> QED BY <1>2, <1>3, <1>4, <1>5, <1>6, <1>7, <1>8 DEF Step

LEMMA PoolStep == ASSUME RetryInv, Step PROVE PoolInv'
<1>1. PoolInv /\ attempt \in 0..MaxAttempts
  BY DEF RetryInv, CountInv
<1>2. CASE Begin \/ Connect \/ Uploaded \/ GiveUp \/ Quit
  <2>1. Quiet /\ pc' \notin {"wait", "judge", "store", "transfer"}
    BY <1>2 DEF Quiet, Begin, Connect, Uploaded, GiveUp, Quit
  <2> QED BY <1>1, <2>1, QuietKeepsPool
<1>3. CASE StoreFailsEarly \/ OpenRefused \/ OpenData
  <2>1. Quiet /\ UNCHANGED attempt /\ pc = "store"
        /\ pc' \in {"transfer", "judge"}
    BY <1>3 DEF Quiet, StoreFailsEarly, OpenRefused, OpenData
  <2> QED BY <1>1, <2>1, AttemptKeepsPool
<1>4. CASE OpenFails \/ StoreReturns
  <2>1. \E s \in Slots, rest \in {0, TimeWait} :
           pool' = [pool EXCEPT ![s] = rest]
    BY <1>4 DEF OpenFails, StoreReturns, Free, RetryInv, Typed
  <2>2. PICK s \in Slots : /\ pool' \in [Slots -> 0..TimeWait]
                           /\ \A t \in Slots \ {s} : pool'[t] = pool[t]
    BY <1>1, <2>1, PoolTaken DEF PoolInv
  <2>3. /\ pc \in {"store", "transfer"} /\ pc' = "judge"
        /\ UNCHANGED <<start, clock, attempt>>
    BY <1>4 DEF OpenFails, StoreReturns
  <2>4. attempt' = 2 => \A t \in Slots \ {s} : FreeAfter(t, TimeWait - Backoff1)'
    BY <1>1, <2>2, <2>3 DEF PoolInv, FreeAfter
  <2> QED BY <1>1, <2>2, <2>3, <2>4 DEF PoolInv
<1>5. CASE NextFile
  BY <1>1, <1>5 DEF PoolInv, NextFile
<1>6. CASE Retry
  <2>1. /\ pc = "judge" /\ pc' = "wait" /\ UNCHANGED <<pool, clock, attempt>>
        /\ start' = clock /\ attempt \in 0..2
    BY <1>1, <1>6 DEF Retry, Retriable
  <2>2. Elapsed' = 0 /\ Backoff' \in Nat \ {0} /\ Backoff' = Backoff
    BY <1>1, <2>1, BackoffNat DEF PoolInv, Elapsed, Backoff
  <2>3. \A s \in Slots : FreeAfter(s, TimeWait - Elapsed)'
    BY <1>1, <2>1, <2>2, TimesAssumption DEF PoolInv, FreeAfter
  <2>4. attempt' = 2 => \E last \in Slots : \A s \in Slots \ {last} :
                           FreeAfter(s, TimeWait - Backoff1 - Elapsed)'
    BY <1>1, <2>1, <2>2, TimesAssumption DEF PoolInv, FreeAfter
  <2> QED BY <1>1, <2>1, <2>2, <2>3, <2>4 DEF PoolInv
<1>7. CASE WaitOver
  <2>1. /\ pc = "wait" /\ pc' = "store" /\ UNCHANGED <<pool, clock, start>>
        /\ attempt' = attempt + 1
    BY <1>7 DEF WaitOver, NextAttempt
  <2>2. Elapsed = Backoff
    BY <1>1, <1>7, ElapsedNat, BackoffNat DEF PoolInv, WaitOver
  <2>3. pool \in [Slots -> 0..TimeWait] /\ TimeWait \in Nat
        /\ Backoff1 \in Nat /\ Backoff2 \in Nat
    BY <1>1, TimesAssumption DEF PoolInv
  <2>4. attempt' = 2 => \A s \in Slots : FreeAfter(s, TimeWait - Backoff1)'
    BY <1>1, <2>1, <2>2, <2>3 DEF PoolInv, FreeAfter, Backoff
  <2>5. ASSUME attempt' = MaxAttempts
        PROVE  /\ \A s \in Slots : FreeAfter(s, TimeWait - Backoff2)'
               /\ \E last \in Slots : \A s \in Slots \ {last} :
                     FreeAfter(s, TimeWait - Backoff1 - Backoff2)'
    <3>1. attempt = 2
      BY <1>1, <2>1, <2>5
    <3>2. PICK last \in Slots : \A s \in Slots \ {last} :
             FreeAfter(s, TimeWait - Backoff1 - Elapsed)
      BY <1>1, <2>1, <3>1 DEF PoolInv
    <3>3. Elapsed = Backoff2
      BY <2>2, <3>1 DEF Backoff
    <3>4. \A s \in Slots : FreeAfter(s, TimeWait - Backoff2)
      BY <1>1, <2>1, <3>3 DEF PoolInv
    <3> QED BY <2>1, <3>2, <3>3, <3>4 DEF FreeAfter
  <2> QED BY <1>1, <2>1, <2>4, <2>5 DEF PoolInv
<1> QED BY <1>2, <1>3, <1>4, <1>5, <1>6, <1>7 DEF Step

-----------------------------------------------------------------------------
(* Time. *)

LEMMA TickKeeps == ASSUME RetryInv, Tick PROVE RetryInv'
<1>1. Typed' /\ SessionInv' /\ CountInv'
  BY DEF Tick, RetryInv, Typed, SessionInv, CountInv
<1>2. /\ UNCHANGED <<pc, attempt, start>> /\ pc \in {"store", "transfer", "wait"}
      /\ pc = "wait" => Elapsed < Backoff
      /\ clock' = IF clock + 1 = ClockWidth THEN 0 ELSE clock + 1
      /\ PoolInv
  BY DEF Tick, RetryInv
<1>3. /\ start \in 0..(ClockWidth - 1) /\ clock \in 0..(ClockWidth - 1)
      /\ pool \in [Slots -> 0..TimeWait]
  BY <1>2 DEF PoolInv
<1>4. clock' \in 0..(ClockWidth - 1)
  BY <1>2, <1>3, TimesAssumption
<1>5. /\ pool' \in [Slots -> 0..TimeWait]
      /\ \A s \in Slots : pool'[s] = IF pool[s] = 0 THEN 0 ELSE pool[s] - 1
  BY <1>3, PoolTicks DEF Tick
<1>6. \A s \in Slots : pool[s] \in Nat
  BY <1>3, TimesAssumption
<1>7. ASSUME NEW s \in Slots, NEW d \in Int, FreeAfter(s, d)
      PROVE  /\ pool'[s] = 0 \/ pool'[s] <= d
             /\ pool'[s] = 0 \/ pool'[s] <= d - 1
  BY <1>5, <1>6, <1>7 DEF FreeAfter
<1>8. TimeWait \in Nat /\ Backoff1 \in Nat /\ Elapsed \in Int /\ Backoff' = Backoff
  BY <1>2, <1>3, ElapsedNat, TimesAssumption DEF Backoff
<1>9. pc = "wait" => Elapsed' = Elapsed + 1
  BY <1>2, <1>3, ElapsedTicks
<1>10. pc = "wait" => Elapsed' <= Backoff'
  BY <1>2, <1>8, <1>9, BackoffNat
<1>11. pc = "wait" => \A s \in Slots : FreeAfter(s, TimeWait - Elapsed)'
  <2> SUFFICES ASSUME pc = "wait", NEW s \in Slots
               PROVE  pool'[s] = 0 \/ pool'[s] <= TimeWait' - Elapsed'
    BY DEF FreeAfter
  <2>1. FreeAfter(s, TimeWait - Elapsed)
    BY <1>2 DEF PoolInv
  <2>2. pool'[s] = 0 \/ pool'[s] <= TimeWait - Elapsed - 1
    BY <1>7, <1>8, <2>1
  <2> QED BY <1>8, <1>9, <2>2
<1>12. pc \in {"store", "transfer"} /\ attempt = 2
         => \A s \in Slots : FreeAfter(s, TimeWait - Backoff1)'
  BY <1>2, <1>7, <1>8 DEF PoolInv, FreeAfter
<1>13. pc = "wait" /\ attempt = 2
         => \E last \in Slots : \A s \in Slots \ {last} :
               FreeAfter(s, TimeWait - Backoff1 - Elapsed)'
  <2> SUFFICES ASSUME pc = "wait", attempt = 2
               PROVE  \E last \in Slots : \A s \in Slots \ {last} :
                         FreeAfter(s, TimeWait - Backoff1 - Elapsed)'
    OBVIOUS
  <2>1. PICK last \in Slots : \A s \in Slots \ {last} :
           FreeAfter(s, TimeWait - Backoff1 - Elapsed)
    BY <1>2 DEF PoolInv
  <2>2. ASSUME NEW s \in Slots \ {last}
        PROVE  pool'[s] = 0 \/ pool'[s] <= TimeWait - Backoff1 - Elapsed'
    <3>1. pool'[s] = 0 \/ pool'[s] <= TimeWait - Backoff1 - Elapsed - 1
      BY <1>7, <1>8, <2>1
    <3> QED BY <1>8, <1>9, <3>1
  <2> QED BY <2>2 DEF FreeAfter
<1>14. pc = "store" /\ attempt = MaxAttempts
         => /\ \A s \in Slots : FreeAfter(s, TimeWait - Backoff2)'
            /\ \E last \in Slots : \A s \in Slots \ {last} :
                  FreeAfter(s, TimeWait - Backoff1 - Backoff2)'
  <2> SUFFICES ASSUME pc = "store", attempt = MaxAttempts
               PROVE  /\ \A s \in Slots : FreeAfter(s, TimeWait - Backoff2)'
                      /\ \E last \in Slots : \A s \in Slots \ {last} :
                            FreeAfter(s, TimeWait - Backoff1 - Backoff2)'
    OBVIOUS
  <2>1. TimeWait - Backoff2 \in Int /\ TimeWait - Backoff1 - Backoff2 \in Int
    BY TimesAssumption
  <2>2. \A s \in Slots : FreeAfter(s, TimeWait - Backoff2)'
    BY <1>2, <1>7, <2>1 DEF PoolInv, FreeAfter
  <2>3. PICK last \in Slots : \A s \in Slots \ {last} :
           FreeAfter(s, TimeWait - Backoff1 - Backoff2)
    BY <1>2 DEF PoolInv
  <2>4. \A s \in Slots \ {last} : FreeAfter(s, TimeWait - Backoff1 - Backoff2)'
    BY <1>7, <2>1, <2>3 DEF FreeAfter
  <2> QED BY <2>2, <2>4
<1>15. PoolInv'
  BY <1>2, <1>3, <1>4, <1>5, <1>10, <1>11, <1>12, <1>13, <1>14 DEF PoolInv
<1> QED BY <1>1, <1>15 DEF RetryInv

-----------------------------------------------------------------------------
(* The theorems. *)

LEMMA RetryInit == Init => RetryInv
<1> SUFFICES ASSUME Init PROVE RetryInv
  OBVIOUS
<1>1. Typed
  BY OtherAssumption
     DEF Init, Session!Init, Typed, Trying, Outcomes, FtpsError
<1>2. SessionInv
  BY DEF Init, SessionInv
<1>3. CountInv
  BY OtherAssumption DEF Init, CountInv, Trying
<1>4. PoolInv
  BY TimesAssumption DEF Init, PoolInv
<1> QED BY <1>1, <1>2, <1>3, <1>4 DEF RetryInv

LEMMA RetryStep == RetryInv /\ [Next]_vars => RetryInv'
<1> SUFFICES ASSUME RetryInv, [Next]_vars PROVE RetryInv'
  OBVIOUS
<1>1. CASE Step
  BY <1>1, TypedStep, SessionStep, CountStep, PoolStep DEF RetryInv
<1>2. CASE Tick
  BY <1>2, TickKeeps
<1>3. CASE UNCHANGED vars
  <2>1. UNCHANGED <<Elapsed, Backoff>>
    BY <1>3 DEF vars, Elapsed, Backoff
  <2> QED
    BY <1>3, <2>1 DEF vars, RetryInv, Typed, SessionInv, CountInv, PoolInv, FreeAfter
<1> QED BY <1>1, <1>2, <1>3 DEF Next, Done

\* The inductive invariant: who holds a session, how many files are done, and
\* how full the pool can be at each point of an attempt.
THEOREM RetryInvariant == Spec => []RetryInv
BY RetryInit, RetryStep, PTL DEF Spec

\* Type correctness.
THEOREM RetryTypeCorrect == Spec => []TypeOK
<1>1. RetryInv => TypeOK
  BY DEF RetryInv, Typed, Outcomes, Trying, CountInv, PoolInv, TypeOK
<1> QED BY <1>1, RetryInvariant, PTL

\* store() is never called on a session the library has given up.
THEOREM StoresNeedSession == Spec => []NoStoreOnLostSession
<1>1. RetryInv => NoStoreOnLostSession
  BY DEF RetryInv, SessionInv, NoStoreOnLostSession
<1> QED BY <1>1, RetryInvariant, PTL

\* When the last attempt begins every slot has had the second pause, and all
\* but one have had both.
THEOREM PausesAlwaysDrainPool == Spec => []PausesDrainPool
<1>1. ASSUME NEW s \in Slots, NEW d \in Nat, RetryInv,
             FreeAfter(s, TimeWait - d)
      PROVE  pool[s] <= Left(d)
  <2>1. pool[s] \in 0..TimeWait /\ TimeWait \in Nat
    BY <1>1, TimesAssumption DEF RetryInv, PoolInv
  <2> QED BY <1>1, <2>1 DEF FreeAfter, Left
<1>2. RetryInv => PausesDrainPool
  <2> SUFFICES ASSUME RetryInv, pc = "store", attempt = MaxAttempts
               PROVE  /\ \A s \in Slots : pool[s] <= Left(Backoff2)
                      /\ \E last \in Slots : \A s \in Slots \ {last} :
                            pool[s] <= Left(Backoff1 + Backoff2)
    BY DEF PausesDrainPool
  <2>1. /\ Backoff2 \in Nat /\ Backoff1 + Backoff2 \in Nat
        /\ TimeWait - (Backoff1 + Backoff2) = TimeWait - Backoff1 - Backoff2
    BY TimesAssumption
  <2>2. \A s \in Slots : pool[s] <= Left(Backoff2)
    BY <1>1, <2>1 DEF RetryInv, PoolInv
  <2>3. PICK last \in Slots : \A s \in Slots \ {last} :
           FreeAfter(s, TimeWait - Backoff1 - Backoff2)
    BY DEF RetryInv, PoolInv
  <2>4. \A s \in Slots \ {last} : pool[s] <= Left(Backoff1 + Backoff2)
    BY <1>1, <2>1, <2>3
  <2> QED BY <2>2, <2>4
<1> QED BY <1>2, RetryInvariant, PTL

\* Every file is accounted for when the batch ends, unless the session is lost.
THEOREM BatchAlwaysAccounted == Spec => []BatchAccounted
<1>1. RetryInv => BatchAccounted
  BY DEF RetryInv, CountInv, BatchAccounted
<1> QED BY <1>1, RetryInvariant, PTL

=============================================================================

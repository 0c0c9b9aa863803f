---------------------------- MODULE RetryUpload ----------------------------
(***************************************************************************)
(* The RetryUpload example: a batch of uploads, each tried a few times with *)
(* growing pauses, on one session of the library and on the few sockets the *)
(* board has.  The library is its promise, FtpsSession; a closed data      *)
(* socket keeps its place in the pool through TIME_WAIT.  The control      *)
(* socket keeps one place from connect() to quit() and is left out of      *)
(* Slots, as is the opt-in to reconnect, which the example turns off (so   *)
(* that store() is never Refused).                                         *)
(*                                                                         *)
(* up, outcome  the session (FtpsSession);  nsapi: lastNsapiError()        *)
(* pool         what is left of each slot's TIME_WAIT, 0 when it is free   *)
(* data         the slot of the open data connection, if any               *)
(* pc, file, attempt, ok, failed, start   the sketch's program counter and *)
(*              variables                                                  *)
(* clock        millis(), which wraps; one unit may stand for any time     *)
(***************************************************************************)
EXTENDS FtpsErrors

CONSTANTS
    Slots,       \* the sockets left for data connections
    TimeWait,    \* how long a closed socket keeps its slot
    Backoff1,    \* RETRY_BACKOFF_1_MS
    Backoff2,    \* RETRY_BACKOFF_2_MS
    ClockWidth,  \* millis() counts modulo this
    Uploads,     \* how many files there are to upload
    NsapiCodes,  \* the ways opening or connecting a socket fails
    NoSlot       \* no data connection is open

MaxAttempts == 3

ASSUME TimesAssumption ==
    /\ TimeWait \in Nat \ {0}
    /\ Backoff1 \in Nat \ {0}
    /\ Backoff2 \in Nat \ {0}
    /\ ClockWidth \in Nat
    /\ Backoff1 < ClockWidth
    /\ Backoff2 < ClockWidth

ASSUME SlotsAssumption == Slots # {}

ASSUME OtherAssumption ==
    /\ Uploads \in Nat
    /\ NsapiCodes \subseteq Int
    /\ NoSlot \notin Slots

VARIABLES up, outcome, nsapi, pool, data, pc, file, attempt, ok, failed,
          start, clock

session == <<up, outcome, nsapi>>
sockets == <<pool, data>>
counts == <<ok, failed>>
batch == <<pc, file, attempt, ok, failed, start>>

vars == <<session, sockets, batch, clock>>

Session == INSTANCE FtpsSession WITH SessionOps <- {"store"}

Init ==
    /\ Session!Init
    /\ nsapi = 0
    /\ pool = [s \in Slots |-> 0]
    /\ data = NoSlot
    /\ pc = "begin"
    /\ file = 0 /\ attempt = 0 /\ ok = 0 /\ failed = 0
    /\ start = 0
    /\ clock \in 0..(ClockWidth - 1)

-----------------------------------------------------------------------------
(* The library and the sockets under it. *)

Free == {s \in Slots : pool[s] = 0}

\* begin() and connect(); the sketch ends if one of them fails.
Begin ==
    /\ pc = "begin"
    /\ up' \in BOOLEAN
    /\ Session!Cleared("begin") \/ Session!Fails("begin")
    /\ pc' = IF outcome'.ok THEN "connect" ELSE "done"
    /\ UNCHANGED <<nsapi, sockets, file, attempt, counts, start, clock>>

Connect ==
    /\ pc = "connect"
    /\ up' \in BOOLEAN
    /\ Session!Connected("connect") \/ Session!Fails("connect")
         \/ Session!Refused("connect")
    /\ pc' = IF outcome'.ok THEN "next" ELSE "done"
    /\ nsapi' \in IF outcome'.ok THEN {0} ELSE NsapiCodes \cup {nsapi}
    /\ UNCHANGED <<sockets, file, attempt, counts, start, clock>>

\* A step of store(); time may pass before it.
StoreStep(from, to) ==
    /\ pc = from /\ pc' = to
    /\ UNCHANGED <<file, attempt, counts, start, clock>>

\* store() fails before it opens a data connection: PASV refused, malformed
\* or unanswered.
StoreFailsEarly ==
    /\ StoreStep("store", "judge")
    /\ up' \in BOOLEAN
    /\ \/ /\ Session!FailsSoftly("store")
          /\ outcome'.lastError \in {"PassiveModeRejected", "PasvParseFailed"}
       \/ Session!Fails("store")
    /\ UNCHANGED <<nsapi, sockets>>

DataConnectionFails ==
    /\ up' \in BOOLEAN
    /\ Session!FailsSoftly("store")
    /\ outcome'.lastError = "DataConnectionFailed"

\* The pool is exhausted.
OpenRefused ==
    /\ StoreStep("store", "judge")
    /\ Free = {}
    /\ DataConnectionFails
    /\ nsapi' = NsapiNoSocket
    /\ UNCHANGED sockets

\* A socket that does not connect may still have to wait; a failure that is
\* not the socket layer's leaves its code as it was.
OpenFails ==
    /\ StoreStep("store", "judge")
    /\ DataConnectionFails
    /\ nsapi' \in NsapiCodes \cup {nsapi}
    /\ \E s \in Free, rest \in {0, TimeWait} :
          pool' = [pool EXCEPT ![s] = rest]
    /\ UNCHANGED data

OpenData ==
    /\ StoreStep("store", "transfer")
    /\ UNCHANGED up /\ Session!CallBegins
    /\ nsapi' = 0
    /\ data' \in Free
    /\ UNCHANGED pool

\* store() returns with its data connection closed; its error is not one of
\* opening it.
StoreReturns ==
    /\ StoreStep("transfer", "judge")
    /\ up' \in BOOLEAN
    /\ \/ Session!Succeeds("store")
       \/ Session!FailsSoftly("store")
            /\ outcome'.lastError # "DataConnectionFailed"
       \/ Session!Fails("store")
    /\ pool' = [pool EXCEPT ![data] = TimeWait]
    /\ data' = NoSlot
    /\ UNCHANGED nsapi

-----------------------------------------------------------------------------
(* storeWithRetry() and the loop over the files.                             *)

\* A mutant: the time at which to go on is computed, and may have wrapped.
ElapsedUnlessWrapped == IF clock >= start THEN clock - start ELSE ClockWidth

\* millis() - start, unsigned.
Elapsed == IF clock >= start THEN clock - start ELSE clock + ClockWidth - start

\* A mutant: every pause is the first.
BackoffAlways == Backoff1

Backoff == IF attempt = 1 THEN Backoff1 ELSE Backoff2

NextFile ==
    /\ pc = "next"
    /\ IF file < Uploads
       THEN pc' = "store" /\ file' = file + 1 /\ attempt' = 1
       ELSE pc' = "quit" /\ UNCHANGED <<file, attempt>>
    /\ UNCHANGED <<session, sockets, counts, start, clock>>

Uploaded ==
    /\ pc = "judge"
    /\ outcome.ok
    /\ ok' = ok + 1
    /\ pc' = "next"
    /\ UNCHANGED <<session, sockets, file, attempt, failed, start, clock>>

\* A mutant: one attempt too many.
RetriableOnceMore ==
    /\ ~IsSessionDead(outcome.lastError)
    /\ IsTransferRetriable(outcome.lastError, nsapi)
    /\ attempt <= MaxAttempts

Retriable ==
    /\ ~IsSessionDead(outcome.lastError)
    /\ IsTransferRetriable(outcome.lastError, nsapi)
    /\ attempt < MaxAttempts

\* The batch is given up with the session, and only with it.
GiveUp ==
    /\ pc = "judge"
    /\ ~outcome.ok /\ ~Retriable
    /\ failed' = failed + 1
    /\ pc' = IF IsSessionDead(outcome.lastError) THEN "quit" ELSE "next"
    /\ UNCHANGED <<session, sockets, file, attempt, ok, start, clock>>

Retry ==
    /\ pc = "judge"
    /\ ~outcome.ok /\ Retriable
    /\ pc' = "wait"
    /\ start' = clock
    /\ UNCHANGED <<session, sockets, file, attempt, counts, clock>>

\* A mutant: the counter belongs to the loop's body.
FirstAttempt == 1

NextAttempt == attempt + 1

WaitOver ==
    /\ pc = "wait"
    /\ Elapsed >= Backoff
    /\ pc' = "store"
    /\ attempt' = NextAttempt
    /\ UNCHANGED <<session, sockets, file, counts, start, clock>>

Quit ==
    /\ pc = "quit"
    /\ up' \in BOOLEAN
    /\ Session!QuitReturns
    /\ pc' = "done"
    /\ UNCHANGED <<nsapi, sockets, file, attempt, counts, start, clock>>

\* Time passes while a call or a pause lasts; the pause's loop looks at the
\* clock ten times a second.
Tick ==
    /\ pc \in {"store", "transfer"} \/ (pc = "wait" /\ Elapsed < Backoff)
    /\ clock' = IF clock + 1 = ClockWidth THEN 0 ELSE clock + 1
    /\ pool' = [s \in Slots |-> IF pool[s] = 0 THEN 0 ELSE pool[s] - 1]
    /\ UNCHANGED <<session, data, batch>>

Step ==
    \/ Begin \/ Connect
    \/ StoreFailsEarly \/ OpenRefused \/ OpenFails \/ OpenData \/ StoreReturns
    \/ NextFile \/ Uploaded \/ GiveUp \/ Retry \/ WaitOver \/ Quit

Done == pc = "done" /\ UNCHANGED vars

Next == Step \/ Tick \/ Done

Spec == Init /\ [][Next]_vars

\* The sketch runs, its calls return, and time goes on while it pauses.
FairSpec == Spec /\ WF_vars(Step) /\ WF_vars(pc = "wait" /\ Tick)

-----------------------------------------------------------------------------
(* Properties. *)

TypeOK ==
    /\ up \in BOOLEAN
    /\ outcome \in [op: {"none", "pending", "begin", "connect", "store", "quit"},
                    ok: BOOLEAN, lastError: FtpsError]
    /\ nsapi \in NsapiCodes \cup {0, NsapiNoSocket}
    /\ pool \in [Slots -> 0..TimeWait]
    /\ data \in Slots \cup {NoSlot}
    /\ pc \in {"begin", "connect", "next", "store", "transfer", "judge", "wait",
               "quit", "done"}
    /\ file \in 0..Uploads
    /\ attempt \in 0..MaxAttempts
    /\ ok \in 0..file /\ failed \in 0..file
    /\ start \in 0..(ClockWidth - 1) /\ clock \in 0..(ClockWidth - 1)

\* store() is never called, for a retry or for the next file, on a session
\* the library has given up: the two classifiers the sketch decides by agree
\* with what the calls' errors say of the session.
NoStoreOnLostSession == pc \in {"store", "wait", "next"} => up

\* What may be left of TIME_WAIT after a wait.
Left(waited) == IF waited < TimeWait THEN TimeWait - waited ELSE 0

\* How far the pauses have emptied the pool when the last attempt begins,
\* whatever earlier attempts and files have closed, and across a wrap of the
\* clock: every slot has had the second pause, and all but one, that of the
\* attempt before, have had both.  So with two slots for data the last attempt
\* is turned away for want of a socket only if TIME_WAIT outlasts the two
\* pauses together, and with one slot if it outlasts the second.
PausesDrainPool ==
    pc = "store" /\ attempt = MaxAttempts =>
        /\ \A s \in Slots : pool[s] <= Left(Backoff2)
        /\ \E last \in Slots : \A s \in Slots \ {last} :
              pool[s] <= Left(Backoff1 + Backoff2)

\* Every file is accounted for when the batch ends, unless the session was
\* lost; and then the file that lost it is the last one tried.
BatchAccounted ==
    pc = "quit" => /\ ok + failed = file
                   /\ file < Uploads => ~up

\* The batch ends, with no pause that goes on for ever and no file that is
\* tried for ever.
BatchEnds == <>(pc = "done")

=============================================================================

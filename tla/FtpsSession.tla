---------------------------- MODULE FtpsSession ----------------------------
(***************************************************************************)
(* What the library promises an application that looks only at the results *)
(* of its calls: whether there is a session, and what the last call said.  *)
(* FtpsClient implements this specification.                               *)
(*                                                                         *)
(* up       the session can be used                                        *)
(* outcome  the last call's name, its boolean result and lastError();      *)
(*          Pending while a call is in progress                            *)
(***************************************************************************)
EXTENDS FtpsErrors

CONSTANT SessionOps   \* the calls that need a session

VARIABLES up, outcome

sessionVars == <<up, outcome>>

Pending == [op |-> "pending", ok |-> FALSE, lastError |-> "None"]

Init ==
    /\ up = FALSE
    /\ outcome = [op |-> "none", ok |-> TRUE, lastError |-> "None"]

Return(op, ok, err) == outcome' = [op |-> op, ok |-> ok, lastError |-> err]

\* A call that takes several steps begins; it may close the session first.
CallBegins ==
    /\ outcome # Pending
    /\ outcome' = Pending
    /\ up' \in {up, FALSE}

\* A call in progress has made a new session and goes on to use it.
Reestablished ==
    /\ outcome = Pending
    /\ ~up /\ up'
    /\ UNCHANGED outcome

\* Success of a call that needs a session: there is one, and it stays.
Succeeds(op) == up /\ up' /\ Return(op, TRUE, "None")

\* Failure the session survives; its error is not a session-dead one.
FailsSoftly(op) ==
    /\ up /\ up'
    /\ \E err \in FtpsError \ (SessionDeadErrors \cup {"None"}) :
          Return(op, FALSE, err)

\* Failure after which there is no session; its error says so.
Fails(op) ==
    /\ ~up'
    /\ \E err \in SessionDeadErrors : Return(op, FALSE, err)

\* A request turned down before anything was done: the session, if there is
\* one, goes on, although the error is a session-dead one.
Refused(op) ==
    /\ outcome # Pending
    /\ UNCHANGED up
    /\ \E err \in SessionDeadErrors : Return(op, FALSE, err)

Connected(op) == up' /\ Return(op, TRUE, "None")

\* discoverFingerprint() and begin() succeed: no session.
Cleared(op) == ~up' /\ Return(op, TRUE, "None")

QuitReturns ==
    /\ ~up'
    /\ \E err \in {"None", "QuitFailed", outcome.lastError} :
          Return("quit", TRUE, err)

Next ==
    \/ CallBegins
    \/ Reestablished
    \/ \E op \in SessionOps : Succeeds(op) \/ FailsSoftly(op) \/ Fails(op)
    \/ \E op \in {"connect", "reconnect"} : Connected(op) \/ Fails(op)
    \/ \E op \in {"begin", "discover"} : Cleared(op) \/ Fails(op)
    \/ \E op \in {"begin", "connect", "reconnect", "discover", "store"} :
          Refused(op)
    \/ QuitReturns

Spec == Init /\ [][Next]_sessionVars

=============================================================================

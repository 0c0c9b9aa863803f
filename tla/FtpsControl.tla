---------------------------- MODULE FtpsControl ----------------------------
(***************************************************************************)
(* The control connection as the client uses it: it sends one command and  *)
(* reads one reply (ftpSendCommand), or only reads one (ftpReadResponse).  *)
(* The server answers every command, in order; the network may deliver an  *)
(* answer after the client has stopped waiting for it.  Nothing in a reply *)
(* says which command it answers, so the client takes the next one there   *)
(* is.                                                                     *)
(*                                                                         *)
(* A reply in flight is its code and "own": is it an answer to the command *)
(* sent last?  The client does not see that field; the properties do.      *)
(***************************************************************************)
EXTENDS Integers, Sequences

CONSTANT
    MaxLate   \* bound: with more replies than this outstanding the server
              \* sends no more

ASSUME MaxLateAssumption == MaxLate \in Nat

\* What ftpReadResponse returns when no reply comes in time, or the
\* connection fails.
Silence == -1

\* The codes the client tells apart.  550 stands for every refusal, 521 for
\* the replies to MKD that say the directory is there already, 451 for every
\* final reply of a transfer that failed, 150 for 125 and 230 for 232 too.
Codes == {150, 200, 213, 220, 221, 226, 227, 230, 234, 250, 257, 331, 350,
          451, 521, 550}

\* The server (external).  A transfer command that is accepted is answered
\* twice: 150, and when the transfer is over its final reply.
TransferAnswers == {<<550>>, <<150, 226>>, <<150, 451>>}

Answers ==
    [banner  |-> {<<220>>, <<550>>},
     AUTH    |-> {<<234>>, <<550>>},
     PBSZ    |-> {<<200>>, <<550>>},
     PROT    |-> {<<200>>, <<550>>},
     USER    |-> {<<331>>, <<230>>, <<550>>},
     PASS    |-> {<<230>>, <<550>>},
     TYPE    |-> {<<200>>, <<550>>},
     PASV    |-> {<<227>>, <<550>>},
     STOR    |-> TransferAnswers,
     RETR    |-> TransferAnswers,
     MLSD    |-> TransferAnswers,
     LIST    |-> TransferAnswers,
     MKD     |-> {<<257>>, <<521>>, <<550>>},
     SIZE    |-> {<<213>>, <<550>>},
     DELE    |-> {<<250>>, <<550>>},
     RMD     |-> {<<250>>, <<550>>},
     RNFR    |-> {<<350>>, <<550>>},
     RNTO    |-> {<<250>>, <<550>>},
     NOOP    |-> {<<200>>},
     QUIT    |-> {<<221>>}]

Reply == [own: BOOLEAN, code: Codes]

\* What is in flight once a command has been sent on connection w: older
\* replies stop being answers to the last command, its own follow them.
AfterSending(w, cmd) ==
    LET older == [i \in DOMAIN w |-> [w[i] EXCEPT !.own = FALSE]]
        answers == IF Len(w) > MaxLate THEN {<<>>} ELSE Answers[cmd]
    IN  {older \o [i \in DOMAIN a |-> [own |-> TRUE, code |-> a[i]]] :
            a \in answers}

\* What is left of a reply when its line is cut may look like a refusal.
Garbled == [own |-> FALSE, code |-> 550]

\* What is in flight after a wait is given up: nothing has been read of it; or
\* a part of a line, which is dropped, the rest of it being skipped later or
\* taken for a reply.  The line is the reply's last or one before it.
Abandoned(w) ==
    {w} \cup (IF w = <<>> THEN {}
              ELSE {Tail(w), <<Garbled>> \o Tail(w), <<Garbled>> \o w})

\* ftpReadResponse: the code returned, whether it answers the last command,
\* and what is still in flight.
Reads(w) ==
    {[code |-> Silence, own |-> TRUE, rest |-> left] : left \in Abandoned(w)}
      \cup (IF w = <<>> THEN {}
            ELSE {[code |-> Head(w).code, own |-> Head(w).own,
                   rest |-> Tail(w)]})

\* ftpSendCommand and ftpSendCommandWithArg: a command line that is too long
\* is not sent and reads as silence.
Exchanges(w, cmd, arg) ==
    IF arg = "long"
    THEN {[code |-> Silence, own |-> TRUE, rest |-> w]}
    ELSE UNION {Reads(w2) : w2 \in AfterSending(w, cmd)}

=============================================================================

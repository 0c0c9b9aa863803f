----------------------------- MODULE FtpsNumbers -----------------------------
(***************************************************************************)
(* The numbers in a reply: parsePasv, the six that make an endpoint, and    *)
(* parseSizeReplyBytes, the size of a file.  Both read a character at a     *)
(* time and build a number digit by digit in an unsigned word; they must    *)
(* refuse one that does not fit before the word wraps.                     *)
(*                                                                         *)
(* parser    whose turn it is: "pasv" or "size"                            *)
(* at        "open" (before the number, or the parenthesis), "number",      *)
(*           "blanks" (after a size), "judge" (after the tuple), "done"    *)
(* numbers   parts; for a size numbers[0] is parsed                        *)
(* index, hasDigits   the part that is being read; has it a digit yet      *)
(* answer, value      what is returned; endpoint.port or remoteBytes       *)
(* written   auxiliary: the numbers as written, without any word's width   *)
(*                                                                         *)
(* Blanks in a tuple change nothing, even between two digits, and neither   *)
(* do those before a size; they are no step here.                          *)
(***************************************************************************)
EXTENDS Integers

CONSTANTS
    Parts,      \* 6, the last two of which are the port
    MaxWord,    \* the largest unsigned int, and size_t
    Digits      \* bound: the digits that are written, of 0..9

ASSUME NumbersAssumption ==
    /\ Parts \in Nat /\ Parts > 1
    /\ MaxWord \in Nat /\ MaxWord >= 65535
    /\ Digits \subseteq 0..9

VARIABLES parser, at, numbers, index, hasDigits, answer, value, written

numbersVars == <<parser, at, numbers, index, hasDigits, answer, value, written>>

Places == 0..(Parts - 1)

NumbersInit ==
    /\ parser \in {"pasv", "size"}
    /\ at = "open"
    /\ numbers = [i \in Places |-> 0] /\ written = numbers
    /\ index = 0 /\ hasDigits = FALSE
    /\ answer = "none" /\ value = 0

\* The next reply, when the last one has been dealt with.
Call ==
    /\ at = "done" /\ at' = "open"
    /\ parser' \in {"pasv", "size"}
    /\ numbers' = [i \in Places |-> 0] /\ written' = numbers'
    /\ index' = 0 /\ hasDigits' = FALSE
    /\ answer' = "none" /\ value' = 0

Refuse(why) ==
    /\ at' = "done" /\ answer' = why
    /\ UNCHANGED <<parser, numbers, index, hasDigits, value>>

Accept(v) ==
    /\ at' = "done" /\ answer' = "accepted" /\ value' = v
    /\ UNCHANGED <<parser, numbers, index, hasDigits, written>>

-----------------------------------------------------------------------------

\* A mutant: the last digit is not looked at.
TooLargeCoarse(n, d) ==
    IF parser = "pasv" THEN n > 25 ELSE n > MaxWord \div 10

\* A mutant: 25 is already too much.
TooLargeEarly(n, d) ==
    IF parser = "pasv" THEN n >= 25 ELSE n > (MaxWord - d) \div 10

\* With one more digit the number is above 255, or does not fit its word.
TooLarge(n, d) ==
    IF parser = "pasv"
    THEN n > 25 \/ (n = 25 /\ d > 5)
    ELSE n > (MaxWord - d) \div 10

Digit(d) ==
    /\ at = "number" \/ (parser = "size" /\ at = "open")
    /\ written' = [written EXCEPT ![index] = @ * 10 + d]
    /\ IF TooLarge(numbers[index], d)
       THEN Refuse("tooLarge")
       ELSE /\ numbers' = [numbers EXCEPT ![index] = (@ * 10 + d) % (MaxWord + 1)]
            /\ at' = "number"
            /\ hasDigits' = TRUE
            /\ UNCHANGED <<parser, index, answer, value>>

\* A character that may not stand where it is, or the end of the reply too
\* early: no '(' or, of a size, no digit; a letter; a digit after the blanks.
Malformed ==
    /\ at \in {"open", "number", "blanks"}
    /\ UNCHANGED written
    /\ Refuse("malformed")

Parenthesis ==
    /\ parser = "pasv" /\ at = "open"
    /\ at' = "number"
    /\ UNCHANGED <<parser, numbers, index, hasDigits, answer, value, written>>

\* A mutant: only the parenthesis ends the tuple.
LastPartIfClosed(closes) == closes

LastPart(closes) == closes \/ index + 1 = Parts

\* A comma, or the parenthesis that closes; a part without digits is refused.
Separator ==
    /\ parser = "pasv" /\ at = "number"
    /\ \/ /\ ~hasDigits
          /\ UNCHANGED written
          /\ Refuse("malformed")
       \/ /\ hasDigits
          /\ hasDigits' = FALSE
          /\ index' = index + 1
          /\ \E closes \in BOOLEAN :
                at' = IF LastPart(closes) THEN "judge" ELSE "number"
          /\ UNCHANGED <<parser, numbers, answer, value, written>>

\* The port is the last two parts, one byte each.
Port == (numbers[Parts - 2] * 256 + numbers[Parts - 1]) % 65536

\* After the loop: all parts, and a port.
Judge ==
    /\ parser = "pasv" /\ at = "judge"
    /\ \/ /\ index # Parts \/ Port = 0
          /\ UNCHANGED written
          /\ Refuse("malformed")
       \/ /\ index = Parts /\ Port # 0
          /\ Accept(Port)

\* Blanks after a size, and the end of its reply.
Blanks ==
    /\ parser = "size" /\ at = "number"
    /\ at' = "blanks"
    /\ UNCHANGED <<parser, numbers, index, hasDigits, answer, value, written>>

SizeEnds ==
    /\ parser = "size" /\ at \in {"number", "blanks"}
    /\ Accept(numbers[0])

NumbersNext ==
    \/ Call \/ Malformed \/ Parenthesis \/ Separator \/ Judge
    \/ Blanks \/ SizeEnds
    \/ \E d \in Digits : Digit(d)

NumbersSpec == NumbersInit /\ [][NumbersNext]_numbersVars

-----------------------------------------------------------------------------

\* The typing of the parsers' variables; a number fits its word, and the
\* part that is being read is one of the array's.
NumbersTypeOK ==
    /\ parser \in {"pasv", "size"}
    /\ at \in {"open", "number", "blanks", "judge", "done"}
    /\ numbers \in [Places -> 0..MaxWord]
    /\ written \in [Places -> Nat]
    /\ index \in 0..Parts
    /\ at \notin {"judge", "done"} => index < Parts
    /\ hasDigits \in BOOLEAN
    /\ answer \in {"none", "accepted", "tooLarge", "malformed"}
    /\ value \in 0..MaxWord

\* The largest number there may be.
Largest == IF parser = "pasv" THEN 255 ELSE MaxWord

\* What parsePasv and parseSizeReplyBytes accept is what the server wrote: no
\* number has wrapped or been cut to a byte, the endpoint has a port, and it is
\* made of the last two numbers.
AcceptedAsWritten ==
    answer = "accepted" =>
        /\ numbers = written
        /\ \A i \in Places : written[i] <= Largest
        /\ parser = "size" => value = written[0]
        /\ parser = "pasv" =>
             /\ value = written[Parts - 2] * 256 + written[Parts - 1]
             /\ value > 0

\* The tests before each digit refuse nothing that fits: a number for which
\* a reply was refused as too large is.
RefusedIfTooLarge ==
    answer = "tooLarge" => written[index] > Largest

=============================================================================

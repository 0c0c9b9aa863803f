-------------------------- MODULE FtpsNumbersProofs --------------------------
(***************************************************************************)
(* FtpsNumbers' invariants, for any number of parts and any width of the    *)
(* words.  The inductive invariant is that what has been built is what has  *)
(* been written, within its limit, up to a refusal: the test before a digit *)
(* is exactly that the next number is within it, so that nothing wraps.     *)
(***************************************************************************)
EXTENDS FtpsNumbers, TLAPS

\* Up to a refusal for its size the number is the one written.
BuiltInv ==
    /\ answer # "tooLarge" => numbers = written
    /\ \A i \in Places : numbers[i] <= Largest

\* What is returned, and which number was too large.
ReturnedInv ==
    /\ answer = "accepted" /\ parser = "size" => value = numbers[0]
    /\ answer = "accepted" /\ parser = "pasv" =>
         value = numbers[Parts - 2] * 256 + numbers[Parts - 1] /\ value > 0
    /\ at # "done" => answer = "none"

NumbersInv == NumbersTypeOK /\ BuiltInv /\ ReturnedInv /\ RefusedIfTooLarge

-----------------------------------------------------------------------------
(* The test before a digit. *)

\* It refuses exactly the numbers above the limit.
LEMMA TooLargeIsExact ==
    ASSUME parser \in {"pasv", "size"}, NEW n \in 0..Largest, NEW d \in 0..9
    PROVE  TooLarge(n, d) <=> n * 10 + d > Largest
<1>1. CASE parser = "pasv"
  BY <1>1 DEF TooLarge, Largest
<1>2. CASE parser = "size"
  <2>1. MaxWord \in Nat /\ MaxWord - d \in Nat
    BY NumbersAssumption
  <2>2. n > (MaxWord - d) \div 10 <=> n * 10 + d > MaxWord
    BY <1>2, <2>1 DEF Largest
  <2> QED BY <1>2, <2>2 DEF TooLarge, Largest
<1> QED BY <1>1, <1>2

\* Hence the word does not wrap.
LEMMA NoWrap ==
    ASSUME NEW w \in Nat, NEW m \in 0..w
    PROVE  m % (w + 1) = m
OBVIOUS

LEMMA LargestType == Largest \in Nat /\ Largest <= MaxWord
BY NumbersAssumption DEF Largest

-----------------------------------------------------------------------------

\* A parser begins: no number yet.
LEMMA NothingYet ==
    LET z == [i \in Places |-> 0]
    IN  z \in [Places -> 0..MaxWord] /\ z \in [Places -> Nat]
          /\ \A i \in Places : z[i] = 0
BY NumbersAssumption DEF Places

LEMMA InitNumbers == NumbersInit => NumbersInv
<1> SUFFICES ASSUME NumbersInit PROVE NumbersInv
  OBVIOUS
<1> DEFINE z == [i \in Places |-> 0]
<1>1. /\ z \in [Places -> 0..MaxWord] /\ z \in [Places -> Nat]
      /\ \A i \in Places : z[i] = 0
  BY NothingYet
<1>2. numbers = z /\ written = z
  BY DEF NumbersInit
<1> HIDE DEF z
<1>3. NumbersTypeOK
  <2>1. numbers \in [Places -> 0..MaxWord] /\ written \in [Places -> Nat]
    BY <1>1, <1>2
  <2>2. 0 \in 0..Parts /\ 0 < Parts /\ 0 \in 0..MaxWord
    BY NumbersAssumption
  <2> QED BY <2>1, <2>2 DEF NumbersInit, NumbersTypeOK
<1>4. BuiltInv /\ ReturnedInv /\ RefusedIfTooLarge
  BY <1>1, <1>2, LargestType DEF NumbersInit, BuiltInv, ReturnedInv, RefusedIfTooLarge
<1> QED BY <1>3, <1>4 DEF NumbersInv

LEMMA CallKeeps == ASSUME NumbersInv, Call PROVE NumbersInv'
<1> DEFINE z == [i \in Places |-> 0]
<1>1. /\ z \in [Places -> 0..MaxWord] /\ z \in [Places -> Nat]
      /\ \A i \in Places : z[i] = 0
  BY NothingYet
<1>2. numbers' = z /\ written' = z
  BY DEF Call
<1>3. Largest' \in Nat
  BY NumbersAssumption DEF Largest
<1> HIDE DEF z
<1>4. NumbersTypeOK'
  <2>1. numbers' \in [Places -> 0..MaxWord] /\ written' \in [Places -> Nat]
    BY <1>1, <1>2
  <2>2. 0 \in 0..Parts /\ 0 < Parts /\ 0 \in 0..MaxWord
    BY NumbersAssumption
  <2> QED BY <2>1, <2>2 DEF Call, NumbersTypeOK
<1>5. BuiltInv' /\ ReturnedInv' /\ RefusedIfTooLarge'
  BY <1>1, <1>2, <1>3 DEF Call, BuiltInv, ReturnedInv, RefusedIfTooLarge
<1> QED BY <1>4, <1>5 DEF NumbersInv

\* A digit: of a number that fits, or one too many.
LEMMA DigitKeeps == ASSUME NumbersInv, NEW d \in Digits, Digit(d) PROVE NumbersInv'
<1> DEFINE n == numbers[index]
           m == n * 10 + d
<1>1. d \in 0..9 /\ at # "done" /\ answer = "none" /\ at \in {"number", "open"}
  BY NumbersAssumption DEF Digit, NumbersInv, ReturnedInv
<1>2. index \in Places
  BY <1>1, NumbersAssumption DEF NumbersInv, NumbersTypeOK, Places
<1>3. numbers = written /\ n \in 0..Largest /\ n \in Nat
  BY <1>1, <1>2 DEF NumbersInv, NumbersTypeOK, BuiltInv
<1>4. m \in Nat /\ (TooLarge(n, d) <=> m > Largest)
  <2> HIDE DEF n
  <2>1. parser \in {"pasv", "size"}
    BY DEF NumbersInv, NumbersTypeOK
  <2> QED BY <1>1, <1>3, <2>1, TooLargeIsExact
<1>5. written' = [written EXCEPT ![index] = m] /\ UNCHANGED <<parser, index, value>>
  BY <1>3 DEF Digit, Refuse
<1>6. Largest' = Largest
  BY <1>5 DEF Largest
<1> HIDE DEF n, m
<1>7. written' \in [Places -> Nat] /\ written'[index] = m
  BY <1>2, <1>4, <1>5 DEF NumbersInv, NumbersTypeOK
<1>8. CASE TooLarge(n, d)
  <2>1. at' = "done" /\ answer' = "tooLarge" /\ UNCHANGED <<numbers, hasDigits>>
    BY <1>8 DEF Digit, Refuse, n
  <2>2. NumbersTypeOK'
    BY <1>5, <1>7, <2>1 DEF NumbersInv, NumbersTypeOK
  <2>3. BuiltInv' /\ ReturnedInv'
    BY <1>5, <1>6, <2>1 DEF NumbersInv, BuiltInv, ReturnedInv
  <2>4. RefusedIfTooLarge'
    BY <1>4, <1>5, <1>6, <1>7, <1>8 DEF RefusedIfTooLarge
  <2> QED BY <2>2, <2>3, <2>4 DEF NumbersInv
<1>9. CASE ~TooLarge(n, d)
  <2>1. /\ numbers' = [numbers EXCEPT ![index] = m % (MaxWord + 1)]
        /\ at' = "number" /\ hasDigits' = TRUE /\ answer' = answer
    BY <1>9 DEF Digit, n, m
  <2>2. m \in 0..Largest /\ m \in 0..MaxWord
    <3>1. m \in Nat /\ ~(m > Largest)
      BY <1>4, <1>9, Zenon
    <3> QED BY <3>1, LargestType, NumbersAssumption
  <2>3. numbers' = [numbers EXCEPT ![index] = m]
    <3>1. m % (MaxWord + 1) = m
      BY <2>2, NoWrap, NumbersAssumption
    <3> QED BY <2>1, <3>1
  <2>4. numbers' = written'
    BY <1>3, <1>5, <2>3
  <2>5. NumbersTypeOK'
    <3>1. numbers' \in [Places -> 0..MaxWord]
      BY <2>2, <2>3 DEF NumbersInv, NumbersTypeOK
    <3>2. index < Parts
      BY <1>2, NumbersAssumption DEF Places
    <3> QED BY <1>5, <1>7, <2>1, <3>1, <3>2 DEF NumbersInv, NumbersTypeOK
  <2>6. BuiltInv'
    <3>1. \A i \in Places : numbers'[i] <= Largest
      BY <2>2, <2>3, LargestType DEF NumbersInv, NumbersTypeOK, BuiltInv
    <3> QED BY <1>6, <2>4, <3>1 DEF BuiltInv
  <2>7. ReturnedInv' /\ RefusedIfTooLarge'
    BY <1>1, <2>1 DEF ReturnedInv, RefusedIfTooLarge
  <2> QED BY <2>5, <2>6, <2>7 DEF NumbersInv
<1> QED BY <1>8, <1>9

\* A step that leaves the numbers alone.
LEMMA SameNumbers ==
    ASSUME NumbersInv, UNCHANGED <<parser, numbers, written>>, answer' # "tooLarge",
           answer # "tooLarge"
    PROVE  BuiltInv' /\ RefusedIfTooLarge'
BY DEF NumbersInv, BuiltInv, RefusedIfTooLarge, Largest

LEMMA MalformedKeeps ==
    ASSUME NumbersInv, at # "done", UNCHANGED written, Refuse("malformed")
    PROVE  NumbersInv'
<1>1. answer = "none"
  BY DEF NumbersInv, ReturnedInv
<1>2. NumbersTypeOK'
  BY DEF NumbersInv, NumbersTypeOK, Refuse
<1>3. BuiltInv' /\ RefusedIfTooLarge'
  BY <1>1, SameNumbers DEF Refuse
<1>4. ReturnedInv'
  BY DEF Refuse, ReturnedInv
<1> QED BY <1>2, <1>3, <1>4 DEF NumbersInv

\* The loop goes on, or ends, with nothing to return yet.
LEMMA GoesOnKeeps ==
    ASSUME NumbersInv, at # "done", UNCHANGED <<parser, numbers, answer, value, written>>,
           at' \in {"number", "blanks", "judge"}, index' \in 0..Parts,
           at' # "judge" => index' < Parts, hasDigits' \in BOOLEAN
    PROVE  NumbersInv'
<1>1. answer = "none"
  BY DEF NumbersInv, ReturnedInv
<1>2. NumbersTypeOK'
  BY DEF NumbersInv, NumbersTypeOK
<1>3. BuiltInv' /\ RefusedIfTooLarge'
  BY <1>1, SameNumbers
<1>4. ReturnedInv'
  BY <1>1 DEF ReturnedInv
<1> QED BY <1>2, <1>3, <1>4 DEF NumbersInv

LEMMA SeparatorKeeps == ASSUME NumbersInv, Separator PROVE NumbersInv'
<1>1. at = "number" /\ index \in 0..Parts /\ index < Parts
  BY DEF Separator, NumbersInv, NumbersTypeOK
<1>2. CASE ~hasDigits
  BY <1>1, <1>2, MalformedKeeps DEF Separator
<1>3. CASE hasDigits
  <2>1. PICK closes \in BOOLEAN : at' = IF LastPart(closes) THEN "judge" ELSE "number"
    BY <1>3 DEF Separator
  <2>2. /\ UNCHANGED <<parser, numbers, answer, value, written>>
        /\ index' = index + 1 /\ hasDigits' = FALSE
    BY <1>3 DEF Separator
  <2>3. index' \in 0..Parts /\ (at' # "judge" => index' < Parts)
    BY <1>1, <2>1, <2>2, NumbersAssumption DEF LastPart
  <2> QED BY <1>1, <2>1, <2>2, <2>3, GoesOnKeeps
<1> QED BY <1>2, <1>3

\* The port does not lose a bit: its two parts are bytes.
LEMMA PortIsWhole ==
    ASSUME NumbersInv, parser = "pasv"
    PROVE  /\ Port = numbers[Parts - 2] * 256 + numbers[Parts - 1]
           /\ Port \in 0..MaxWord
<1> DEFINE a == numbers[Parts - 2]
           b == numbers[Parts - 1]
<1>1. Parts - 2 \in Places /\ Parts - 1 \in Places
  BY NumbersAssumption DEF Places
<1>2. a \in Nat /\ b \in Nat /\ a <= 255 /\ b <= 255
  BY <1>1 DEF NumbersInv, NumbersTypeOK, BuiltInv, Largest
<1> HIDE DEF a, b
<1>3. ASSUME NEW x \in Nat, NEW y \in Nat, x <= 255, y <= 255
      PROVE  /\ (x * 256 + y) % 65536 = x * 256 + y
             /\ x * 256 + y \in 0..MaxWord
  <2> DEFINE c == x * 256 + y
  <2>1. c \in Nat /\ c <= 65535
    BY <1>3
  <2> HIDE DEF c
  <2>2. c % 65536 = c
    BY <2>1
  <2>3. c \in 0..MaxWord
    BY <2>1, NumbersAssumption
  <2> QED BY <2>2, <2>3 DEF c
<1>4. Port = (a * 256 + b) % 65536
  BY DEF Port, a, b
<1>5. Port = a * 256 + b /\ Port \in 0..MaxWord
  BY <1>2, <1>3, <1>4
<1> QED BY <1>5 DEF a, b

LEMMA AcceptKeeps ==
    ASSUME NumbersInv, at # "done", NEW v \in 0..MaxWord, Accept(v),
           parser = "size" => v = numbers[0],
           parser = "pasv" =>
             v = numbers[Parts - 2] * 256 + numbers[Parts - 1] /\ v > 0
    PROVE  NumbersInv'
<1>1. answer = "none"
  BY DEF NumbersInv, ReturnedInv
<1>2. NumbersTypeOK'
  BY DEF NumbersInv, NumbersTypeOK, Accept
<1>3. BuiltInv' /\ RefusedIfTooLarge'
  BY <1>1, SameNumbers DEF Accept
<1>4. ReturnedInv'
  BY DEF Accept, ReturnedInv
<1> QED BY <1>2, <1>3, <1>4 DEF NumbersInv

LEMMA JudgeKeeps == ASSUME NumbersInv, Judge PROVE NumbersInv'
<1>1. CASE index # Parts \/ Port = 0
  BY <1>1, MalformedKeeps, AcceptKeeps, PortIsWhole DEF Judge
<1>2. CASE index = Parts /\ Port # 0
  <2>1. Accept(Port) /\ at # "done" /\ parser = "pasv"
    BY <1>2 DEF Judge
  <2>2. /\ Port \in 0..MaxWord /\ Port > 0
        /\ Port = numbers[Parts - 2] * 256 + numbers[Parts - 1]
    BY <1>2, <2>1, PortIsWhole
  <2> QED BY <2>1, <2>2, AcceptKeeps
<1> QED BY <1>1, <1>2

LEMMA SizeEndsKeeps == ASSUME NumbersInv, SizeEnds PROVE NumbersInv'
<1>1. numbers[0] \in 0..MaxWord
  BY NumbersAssumption DEF NumbersInv, NumbersTypeOK, Places
<1> QED BY <1>1, AcceptKeeps DEF SizeEnds

LEMMA NumbersSteps == NumbersInv /\ [NumbersNext]_numbersVars => NumbersInv'
<1> SUFFICES ASSUME NumbersInv, [NumbersNext]_numbersVars PROVE NumbersInv'
  OBVIOUS
<1>1. CASE Call
  BY <1>1, CallKeeps
<1>2. CASE Malformed
  BY <1>2, MalformedKeeps DEF Malformed
<1>3. CASE Parenthesis \/ Blanks
  <2>1. /\ UNCHANGED <<parser, numbers, index, hasDigits, answer, value, written>>
        /\ at' \in {"number", "blanks"} /\ at \notin {"judge", "done"}
    BY <1>3 DEF Parenthesis, Blanks
  <2>2. index' \in 0..Parts /\ index' < Parts /\ hasDigits' \in BOOLEAN
    BY <2>1 DEF NumbersInv, NumbersTypeOK
  <2> QED BY <2>1, <2>2, GoesOnKeeps
<1>4. CASE Separator
  BY <1>4, SeparatorKeeps
<1>5. CASE Judge
  BY <1>5, JudgeKeeps
<1>6. CASE SizeEnds
  BY <1>6, SizeEndsKeeps
<1>7. CASE \E d \in Digits : Digit(d)
  BY <1>7, DigitKeeps
<1>8. CASE UNCHANGED numbersVars
  BY <1>8 DEF numbersVars, NumbersInv, NumbersTypeOK, BuiltInv, ReturnedInv, RefusedIfTooLarge, Largest
<1> QED BY <1>1, <1>2, <1>3, <1>4, <1>5, <1>6, <1>7, <1>8 DEF NumbersNext

-----------------------------------------------------------------------------

\* parsePasv and parseSizeReplyBytes at every character: what has been built
\* is what was written, up to a refusal.
THEOREM NumbersInvariant == NumbersSpec => []NumbersInv
BY InitNumbers, NumbersSteps, PTL DEF NumbersSpec

\* The typing of the parsers' variables; no write past the array of parts.
THEOREM NumbersTypeCorrect == NumbersSpec => []NumbersTypeOK
<1>1. NumbersInv => NumbersTypeOK
  BY DEF NumbersInv
<1> QED BY <1>1, NumbersInvariant, PTL

\* An endpoint or a size that is accepted is the one the server wrote, for any
\* width of the words.
THEOREM NumbersAsWritten == NumbersSpec => []AcceptedAsWritten
<1>1. NumbersInv => AcceptedAsWritten
  BY NumbersAssumption
     DEF NumbersInv, NumbersTypeOK, BuiltInv, ReturnedInv, AcceptedAsWritten, Places
<1> QED BY <1>1, NumbersInvariant, PTL

\* A number that fits is never refused for its size.
THEOREM OnlyTooLargeRefused == NumbersSpec => []RefusedIfTooLarge
<1>1. NumbersInv => RefusedIfTooLarge
  BY DEF NumbersInv
<1> QED BY <1>1, NumbersInvariant, PTL

=============================================================================

----------------------- MODULE FtpsReplyReaderProofs -----------------------
(***************************************************************************)
(* Proofs about FtpsReplyReader: what Replies computes, for pieces of any   *)
(* number and in any layout; the invariant of the pieces in flight; and     *)
(* that reading them line by line implements FtpsReplyChannel.              *)
(***************************************************************************)
EXTENDS FtpsReplyReader, FiniteSetTheorems, SequenceTheorems, TLAPS

(* Induction.  The library's induction theorems take an operator as their   *)
(* parameter; these two take a set.                                         *)

\* A set that has 0, and the successor of each of its members, is Nat: of the
\* intervals below the numbers it misses, one would be minimal.
LEMMA NatIsLeast ==
    ASSUME NEW S \in SUBSET Nat, 0 \in S, \A n \in S : n + 1 \in S
    PROVE  S = Nat
<1> SUFFICES ASSUME S # Nat PROVE FALSE
  BY Zenon
<1> DEFINE Below == {0..(n - 1) : n \in Nat \ S}
<1>1. Below \subseteq FiniteSubsetsOf(Nat)
  <2>1. ASSUME NEW n \in Nat PROVE IsFiniteSet(0..(n - 1))
    BY FS_Interval
  <2> QED BY <2>1 DEF FiniteSubsetsOf
<1>2. Below # {}
  OBVIOUS
<1>3. PICK X \in Below : \A Y \in Below : ~(<<Y, X>> \in StrictSubsetOrdering(Nat))
  <2> HIDE DEF Below
  <2> QED BY <1>1, <1>2, WFMin, FS_StrictSubsetOrderingWellFounded, Zenon
<1>4. PICK x \in Nat \ S : X = 0..(x - 1)
  OBVIOUS
<1>5. x # 0 /\ x - 1 \in Nat /\ x - 1 \notin S
  OBVIOUS
<1>6. 0..(x - 2) \in Below
  BY <1>5
<1>7. <<0..(x - 2), 0..(x - 1)>> \in StrictSubsetOrdering(Nat)
  BY <1>5 DEF StrictSubsetOrdering
<1> QED BY <1>3, <1>4, <1>6, <1>7

\* A set of sequences that has <<>>, and with a sequence all that are one
\* longer, has every sequence.
LEMMA SeqIsLeast ==
    ASSUME NEW A, NEW T \in SUBSET Seq(A), <<>> \in T,
           \A s \in T, e \in A : Append(s, e) \in T
    PROVE  T = Seq(A)
<1> DEFINE S == {n \in Nat : \A s \in Seq(A) : Len(s) = n => s \in T}
<1>1. 0 \in S
  OBVIOUS
<1>2. ASSUME NEW n \in S PROVE n + 1 \in S
  <2> SUFFICES ASSUME NEW s \in Seq(A), Len(s) = n + 1 PROVE s \in T
    OBVIOUS
  <2>1. s # <<>>
    OBVIOUS
  <2>2. PICK t \in Seq(A), e \in A : s = Append(t, e)
    BY <2>1, SequenceEmptyOrAppend
  <2>3. Len(t) = n
    BY <2>2
  <2>4. t \in T
    BY <1>2, <2>3
  <2> QED BY <2>2, <2>4
<1>3. S = Nat
  <2> HIDE DEF S
  <2>1. S \in SUBSET Nat
    BY DEF S
  <2> QED BY <1>1, <1>2, <2>1, NatIsLeast, Zenon
<1>4. ASSUME NEW s \in Seq(A) PROVE s \in T
  <2>1. Len(s) \in S
    BY <1>3
  <2> QED BY <2>1
<1> QED BY <1>4

-----------------------------------------------------------------------------
(* Replies. *)

Pieces == [kind: {"head", "end"}, head: Heads]

\* The reply a last line's head is.
AsReply(p) == [own |-> p.head.own, code |-> p.head.code]

\* One step of Replies: the replies up to piece p, from those before it.
With(replies, p) == IF IsReply(p) THEN Append(replies, AsReply(p)) ELSE replies

\* Whatever the pieces, the function Replies chooses exists.
LEMMA RepliesExist ==
    ASSUME NEW s, NEW m \in Nat
    PROVE  \E f : f = [n \in 0..m |-> IF n = 0 THEN <<>> ELSE With(f[n - 1], s[n])]
<1> DEFINE S == {k \in Nat : \E f : f = [n \in 0..k |->
                    IF n = 0 THEN <<>> ELSE With(f[n - 1], s[n])]}
<1>1. 0 \in S
  <2> DEFINE f == [n \in 0..0 |-> <<>>]
  <2>1. f = [n \in 0..0 |-> IF n = 0 THEN <<>> ELSE With(f[n - 1], s[n])]
    OBVIOUS
  <2> HIDE DEF f
  <2> QED BY <2>1
<1>2. ASSUME NEW k \in S PROVE k + 1 \in S
  <2>1. PICK f : f = [n \in 0..k |-> IF n = 0 THEN <<>> ELSE With(f[n - 1], s[n])]
    OBVIOUS
  <2> DEFINE g == [n \in 0..(k + 1) |-> IF n = k + 1 THEN With(f[k], s[k + 1]) ELSE f[n]]
  <2>2. ASSUME NEW n \in 0..(k + 1)
        PROVE  g[n] = IF n = 0 THEN <<>> ELSE With(g[n - 1], s[n])
    <3>1. CASE n = k + 1
      <4>1. g[n] = With(f[k], s[k + 1]) /\ g[n - 1] = f[k] /\ n # 0
        BY <3>1
      <4> QED BY <3>1, <4>1
    <3>2. CASE n = 0
      <4>1. f[0] = <<>>
        BY <2>1
      <4> QED BY <3>2, <4>1
    <3>3. CASE n \in 1..k
      <4>1. g[n] = f[n] /\ g[n - 1] = f[n - 1]
        BY <3>3
      <4>2. f[n] = With(f[n - 1], s[n])
        BY <2>1, <3>3
      <4> HIDE DEF g
      <4> QED BY <4>1, <4>2, <3>3
    <3> QED BY <3>1, <3>2, <3>3
  <2>3. g = [n \in 0..(k + 1) |-> IF n = 0 THEN <<>> ELSE With(g[n - 1], s[n])]
    <3>1. g = [n \in 0..(k + 1) |-> g[n]]
      OBVIOUS
    <3> HIDE DEF g
    <3> QED BY <2>2, <3>1, Zenon
  <2> HIDE DEF g
  <2> QED BY <2>3
<1>3. S = Nat
  <2> HIDE DEF S
  <2>1. S \in SUBSET Nat
    BY DEF S
  <2> QED BY <1>1, <1>2, <2>1, NatIsLeast, Zenon
<1>4. m \in S
  BY <1>3
<1> QED BY <1>4

\* Replies is the last value of such a function.
LEMMA RepliesFunction ==
    ASSUME NEW s \in Seq(Pieces)
    PROVE  \E f : /\ f = [n \in 0..Len(s) |->
                            IF n = 0 THEN <<>> ELSE With(f[n - 1], s[n])]
                  /\ Replies(s) = f[Len(s)]
<1> DEFINE f == CHOOSE g : g = [n \in 0..Len(s) |->
                            IF n = 0 THEN <<>> ELSE With(g[n - 1], s[n])]
<1>1. f = [n \in 0..Len(s) |-> IF n = 0 THEN <<>> ELSE With(f[n - 1], s[n])]
  <2>1. Len(s) \in Nat
    OBVIOUS
  <2>2. \E g : g = [n \in 0..Len(s) |-> IF n = 0 THEN <<>> ELSE With(g[n - 1], s[n])]
    BY <2>1, RepliesExist
  <2> QED BY <2>2
<1>2. Replies(s) = f[Len(s)]
  BY DEF Replies, With, AsReply
<1> HIDE DEF f
<1> QED BY <1>1, <1>2

\* No pieces, no replies.
LEMMA RepliesOfNone == Replies(<<>>) = <<>>
<1>1. <<>> \in Seq(Pieces) /\ Len(<<>>) = 0
  OBVIOUS
<1>2. PICK f : /\ f = [n \in 0..Len(<<>>) |->
                        IF n = 0 THEN <<>> ELSE With(f[n - 1], (<<>>)[n])]
               /\ Replies(<<>>) = f[Len(<<>>)]
  BY <1>1, RepliesFunction
<1>3. f[0] = <<>>
  BY <1>1, <1>2
<1> QED BY <1>1, <1>2, <1>3

\* One more piece is one more reply, or none.
LEMMA RepliesOfAppend ==
    ASSUME NEW s \in Seq(Pieces), NEW p \in Pieces
    PROVE  Replies(Append(s, p)) = With(Replies(s), p)
<1> DEFINE t == Append(s, p)
<1>1. /\ t \in Seq(Pieces) /\ Len(t) = Len(s) + 1 /\ Len(s) \in Nat
      /\ \A i \in 1..Len(s) : t[i] = s[i]
      /\ t[Len(s) + 1] = p
  OBVIOUS
<1> HIDE DEF t
<1>2. PICK f : /\ f = [n \in 0..Len(s) |->
                        IF n = 0 THEN <<>> ELSE With(f[n - 1], s[n])]
               /\ Replies(s) = f[Len(s)]
  BY RepliesFunction
<1>3. PICK g : /\ g = [n \in 0..Len(t) |->
                        IF n = 0 THEN <<>> ELSE With(g[n - 1], t[n])]
               /\ Replies(t) = g[Len(t)]
  BY <1>1, RepliesFunction
<1> DEFINE S == {n \in Nat : n <= Len(s) => f[n] = g[n]}
<1>4. 0 \in S
  BY <1>1, <1>2, <1>3
<1>5. ASSUME NEW n \in S PROVE n + 1 \in S
  <2> SUFFICES ASSUME n + 1 <= Len(s) PROVE f[n + 1] = g[n + 1]
    OBVIOUS
  <2>1. f[n] = g[n] /\ n + 1 \in 0..Len(s) /\ n + 1 \in 0..Len(t) /\ n + 1 # 0
         /\ (n + 1) - 1 = n
    BY <1>1
  <2>2. f[n + 1] = With(f[n], s[n + 1])
    BY <1>2, <2>1
  <2>3. g[n + 1] = With(g[n], t[n + 1])
    BY <1>3, <2>1
  <2>4. t[n + 1] = s[n + 1]
    BY <1>1
  <2> QED BY <2>1, <2>2, <2>3, <2>4
<1>6. S = Nat
  <2> HIDE DEF S
  <2>1. S \in SUBSET Nat
    BY DEF S
  <2> QED BY <1>4, <1>5, <2>1, NatIsLeast, Zenon
<1>7. f[Len(s)] = g[Len(s)]
  BY <1>1, <1>6
<1>8. g[Len(t)] = With(g[Len(s)], t[Len(t)])
  <2>1. Len(t) \in 0..Len(t) /\ Len(t) # 0 /\ Len(t) - 1 = Len(s)
    BY <1>1
  <2> QED BY <1>3, <2>1
<1> QED BY <1>1, <1>2, <1>3, <1>7, <1>8 DEF t

\* The head of a last line has a code.
LEMMA LastHasCode ==
    ASSUME NEW p \in Pieces, IsReply(p)
    PROVE  p.head.code \in Codes /\ p.head.own \in BOOLEAN /\ AsReply(p) \in Reply
BY DEF Pieces, IsReply, Heads, NoHead, AsReply, Reply

LEMMA RepliesType ==
    ASSUME NEW s \in Seq(Pieces)
    PROVE  Replies(s) \in Seq(Reply)
<1> DEFINE T == {t \in Seq(Pieces) : Replies(t) \in Seq(Reply)}
<1>1. <<>> \in T
  <2>1. <<>> \in Seq(Pieces) /\ <<>> \in Seq(Reply)
    OBVIOUS
  <2> QED BY <2>1, RepliesOfNone
<1>2. ASSUME NEW t \in T, NEW p \in Pieces PROVE Append(t, p) \in T
  <2>1. Replies(Append(t, p)) = With(Replies(t), p)
    BY RepliesOfAppend
  <2>2. CASE IsReply(p)
    BY <2>1, <2>2, LastHasCode DEF With
  <2>3. CASE ~IsReply(p)
    BY <2>1, <2>3 DEF With
  <2> QED BY <2>2, <2>3
<1>3. T = Seq(Pieces)
  <2> HIDE DEF T
  <2>1. T \in SUBSET Seq(Pieces)
    BY DEF T
  <2> QED BY <1>1, <1>2, <2>1, SeqIsLeast, Zenon
<1> QED BY <1>3

\* Pieces that follow others give the replies that follow theirs.
LEMMA RepliesOfConcat ==
    ASSUME NEW s \in Seq(Pieces), NEW t \in Seq(Pieces)
    PROVE  Replies(s \o t) = Replies(s) \o Replies(t)
<1> DEFINE T == {u \in Seq(Pieces) : Replies(s \o u) = Replies(s) \o Replies(u)}
<1>1. <<>> \in T
  <2>1. s \o <<>> = s /\ Replies(s) \in Seq(Reply)
    BY RepliesType
  <2> QED BY <2>1, RepliesOfNone
<1>2. ASSUME NEW u \in T, NEW p \in Pieces PROVE Append(u, p) \in T
  <2>1. s \o Append(u, p) = Append(s \o u, p) /\ s \o u \in Seq(Pieces)
    OBVIOUS
  <2>2. Replies(s \o Append(u, p)) = With(Replies(s \o u), p)
    BY <2>1, RepliesOfAppend
  <2>3. Replies(Append(u, p)) = With(Replies(u), p)
    BY RepliesOfAppend
  <2>4. Replies(s) \in Seq(Reply) /\ Replies(u) \in Seq(Reply)
    BY RepliesType
  <2>5. Replies(s \o u) = Replies(s) \o Replies(u) /\ Append(u, p) \in Seq(Pieces)
    OBVIOUS
  <2>6. CASE IsReply(p)
    <3>1. AsReply(p) \in Reply
      BY <2>6, LastHasCode
    <3>2. Replies(s) \o Append(Replies(u), AsReply(p))
             = Append(Replies(s) \o Replies(u), AsReply(p))
      BY <2>4, <3>1
    <3> QED BY <2>2, <2>3, <2>5, <2>6, <3>2, Zenon DEF With
  <2>7. CASE ~IsReply(p)
    BY <2>2, <2>3, <2>5, <2>7, Zenon DEF With
  <2> QED BY <2>6, <2>7
<1>3. T = Seq(Pieces)
  <2> HIDE DEF T
  <2>1. T \in SUBSET Seq(Pieces)
    BY DEF T
  <2> QED BY <1>1, <1>2, <2>1, SeqIsLeast, Zenon
<1> QED BY <1>3

\* One piece.
LEMMA RepliesOfOne ==
    ASSUME NEW p \in Pieces
    PROVE  Replies(<<p>>) = IF IsReply(p) THEN <<AsReply(p)>> ELSE <<>>
<1>1. <<p>> = Append(<<>>, p) /\ <<>> \in Seq(Pieces)
  OBVIOUS
<1>2. Replies(<<p>>) = With(<<>>, p)
  BY <1>1, RepliesOfAppend, RepliesOfNone
<1>3. Append(<<>>, AsReply(p)) = <<AsReply(p)>>
  OBVIOUS
<1> QED BY <1>2, <1>3 DEF With

\* The first piece and the rest.
LEMMA RepliesOfCons ==
    ASSUME NEW s \in Seq(Pieces), NEW p \in Pieces
    PROVE  /\ IsReply(p) => /\ Replies(<<p>> \o s) = <<AsReply(p)>> \o Replies(s)
                            /\ Replies(<<p>> \o s) # <<>>
                            /\ Head(Replies(<<p>> \o s)) = AsReply(p)
                            /\ Tail(Replies(<<p>> \o s)) = Replies(s)
           /\ ~IsReply(p) => Replies(<<p>> \o s) = Replies(s)
<1>1. Replies(<<p>> \o s) = Replies(<<p>>) \o Replies(s)
  <2>1. <<p>> \in Seq(Pieces)
    OBVIOUS
  <2> QED BY <2>1, RepliesOfConcat
<1>2. Replies(s) \in Seq(Reply)
  BY RepliesType
<1>3. CASE IsReply(p)
  <2>1. AsReply(p) \in Reply
    BY <1>3, LastHasCode
  <2> DEFINE r == AsReply(p)
             w == Replies(s)
  <2>2. <<r>> \o w # <<>> /\ Head(<<r>> \o w) = r /\ Tail(<<r>> \o w) = w
    <3>1. r \in Reply /\ w \in Seq(Reply)
      BY <1>2, <2>1
    <3> HIDE DEF r, w
    <3> QED BY <3>1
  <2> QED BY <1>1, <1>3, <2>2, RepliesOfOne
<1>4. CASE ~IsReply(p)
  BY <1>1, <1>2, <1>4, RepliesOfOne
<1> QED BY <1>3, <1>4

\* Functions, under a name that the provers leave as it is.
Maps(A, B) == [A -> B]

\* A function applied to every member of a sequence.
Mapped(f, s) == [i \in DOMAIN s |-> f[s[i]]]

LEMMA MappedType ==
    ASSUME NEW A, NEW B, NEW f \in Maps(A, B), NEW s \in Seq(A)
    PROVE  /\ Mapped(f, s) \in Seq(B)
           /\ Len(Mapped(f, s)) = Len(s)
           /\ \A i \in 1..Len(s) : Mapped(f, s)[i] = f[s[i]]
<1>1. Mapped(f, s) = [i \in 1..Len(s) |-> f[s[i]]]
  BY DEF Mapped
<1>2. \A i \in 1..Len(s) : f[s[i]] \in B
  BY DEF Maps
<1>3. Len(s) \in Nat
  OBVIOUS
<1>4. [i \in 1..Len(s) |-> f[s[i]]] \in Seq(B)
  BY <1>2, <1>3, IsASeq
<1>5. Len([i \in 1..Len(s) |-> f[s[i]]]) = Len(s)
  BY <1>3
<1> QED BY <1>1, <1>4, <1>5

LEMMA MappedNone ==
    ASSUME NEW A, NEW B, NEW f \in Maps(A, B)
    PROVE  Mapped(f, <<>>) = <<>>
<1>1. <<>> \in Seq(A) /\ Len(<<>>) = 0
  OBVIOUS
<1>2. Mapped(f, <<>>) \in Seq(B) /\ Len(Mapped(f, <<>>)) = 0
  BY <1>1, MappedType, Zenon
<1> QED BY <1>2, EmptySeq

LEMMA MappedAppend ==
    ASSUME NEW A, NEW B, NEW f \in Maps(A, B), NEW s \in Seq(A), NEW e \in A
    PROVE  Mapped(f, Append(s, e)) = Append(Mapped(f, s), f[e])
<1> DEFINE t == Append(s, e)
           m == Mapped(f, s)
           v == f[e]
<1>1. /\ t \in Seq(A) /\ Len(t) = Len(s) + 1 /\ t[Len(s) + 1] = e
      /\ \A i \in 1..Len(s) : t[i] = s[i]
      /\ v = f[e] /\ v \in B /\ Len(s) \in Nat
  BY DEF Maps
<1>2. m \in Seq(B) /\ Len(m) = Len(s) /\ \A i \in 1..Len(s) : m[i] = f[s[i]]
  BY MappedType
<1>3. /\ Mapped(f, t) \in Seq(B) /\ Len(Mapped(f, t)) = Len(t)
      /\ \A i \in 1..Len(t) : Mapped(f, t)[i] = f[t[i]]
  <2> HIDE DEF t
  <2> QED BY <1>1, MappedType
<1> HIDE DEF t, m, v
<1> DEFINE u == Append(m, v)
<1>4. /\ u \in Seq(B) /\ Len(u) = Len(s) + 1 /\ u[Len(s) + 1] = v
      /\ \A i \in 1..Len(s) : u[i] = m[i]
  BY <1>1, <1>2, AppendProperties
<1> HIDE DEF u
<1>5. ASSUME NEW i \in 1..Len(t) PROVE Mapped(f, t)[i] = u[i]
  <2>1. CASE i = Len(s) + 1
    BY <1>1, <1>3, <1>4, <2>1
  <2>2. CASE i \in 1..Len(s)
    <3>1. t[i] = s[i] /\ m[i] = f[s[i]] /\ u[i] = m[i] /\ Mapped(f, t)[i] = f[t[i]]
      BY <1>1, <1>2, <1>3, <1>4, <2>2
    <3> QED BY <3>1
  <2> QED BY <1>1, <2>1, <2>2
<1>6. Mapped(f, t) = u
  BY <1>1, <1>3, <1>4, <1>5, SeqEqual
<1> QED BY <1>6 DEF t, m, u, v

\* The replies of pieces that have got older are the older replies.
OlderPiece(p) == [p EXCEPT !.head.own = FALSE]

OlderReply(r) == [r EXCEPT !.own = FALSE]

Older(s) == Mapped([p \in Pieces |-> OlderPiece(p)], s)

OlderReplies(w) == Mapped([r \in Reply |-> OlderReply(r)], w)

LEMMA OlderPieceType ==
    ASSUME NEW p \in Pieces
    PROVE  /\ OlderPiece(p) \in Pieces
           /\ OlderPiece(p).kind = p.kind
           /\ OlderPiece(p).head.code = p.head.code
           /\ OlderPiece(p).head.last = p.head.last
           /\ OlderPiece(p).head.own = FALSE
<1> DEFINE h == [p.head EXCEPT !.own = FALSE]
<1>1. p.head \in Heads
  BY DEF Pieces
<1>2. h \in Heads
  <2>1. CASE p.head \in [code: Codes, last: BOOLEAN, own: BOOLEAN]
    BY <2>1 DEF Heads
  <2>2. CASE p.head = NoHead
    <3> DEFINE H == [code: {0}, last: BOOLEAN, own: BOOLEAN]
               n == [NoHead EXCEPT !.own = FALSE]
    <3>a. n \in H /\ NoHead \in H
      BY DEF NoHead
    <3>b. n.own = NoHead.own /\ n.last = NoHead.last /\ n.code = NoHead.code
      BY DEF NoHead
    <3>1. [NoHead EXCEPT !.own = FALSE] = NoHead
      <4> HIDE DEF n, NoHead
      <4>1. n = NoHead
        BY <3>a, <3>b
      <4> QED BY <4>1 DEF n
    <3> QED BY <2>2, <3>1, Zenon DEF Heads
  <2> QED BY <1>1, <2>1, <2>2 DEF Heads
<1>3. h.code = p.head.code /\ h.last = p.head.last /\ h.own = FALSE
  <2>1. CASE p.head \in [code: Codes, last: BOOLEAN, own: BOOLEAN]
    BY <2>1
  <2>2. CASE p.head = NoHead
    BY <2>2 DEF NoHead
  <2> QED BY <1>1, <2>1, <2>2 DEF Heads
<1>4. OlderPiece(p) = [p EXCEPT !.head = h]
  BY DEF OlderPiece, Pieces
<1> HIDE DEF h
<1>5. [p EXCEPT !.head = h] \in Pieces /\ [p EXCEPT !.head = h].kind = p.kind
       /\ [p EXCEPT !.head = h].head = h
  BY <1>2 DEF Pieces
<1> QED BY <1>3, <1>4, <1>5

LEMMA OlderReplyType ==
    ASSUME NEW r \in Reply
    PROVE  OlderReply(r) = [own |-> FALSE, code |-> r.code] /\ OlderReply(r) \in Reply
<1>1. r = [own |-> r.own, code |-> r.code] /\ r.code \in Codes
  BY DEF Reply
<1>2. \A a, b \in BOOLEAN, c \in Codes :
        [[own |-> a, code |-> c] EXCEPT !.own = b] = [own |-> b, code |-> c]
  OBVIOUS
<1>3. r.own \in BOOLEAN /\ [own |-> FALSE, code |-> r.code] \in Reply
  BY <1>1 DEF Reply
<1> QED BY <1>1, <1>2, <1>3, Zenon DEF OlderReply

LEMMA OlderTypes ==
    /\ [p \in Pieces |-> OlderPiece(p)] \in Maps(Pieces, Pieces)
    /\ [r \in Reply |-> OlderReply(r)] \in Maps(Reply, Reply)
BY OlderPieceType, OlderReplyType DEF Maps

LEMMA OlderType ==
    ASSUME NEW s \in Seq(Pieces)
    PROVE  /\ Older(s) \in Seq(Pieces)
           /\ Len(Older(s)) = Len(s)
           /\ \A i \in 1..Len(s) : Older(s)[i] = OlderPiece(s[i])
<1> DEFINE f == [p \in Pieces |-> OlderPiece(p)]
<1>1. f \in Maps(Pieces, Pieces)
  BY OlderTypes
<1>2. \A i \in 1..Len(s) : f[s[i]] = OlderPiece(s[i])
  OBVIOUS
<1> HIDE DEF f
<1>3. /\ Mapped(f, s) \in Seq(Pieces) /\ Len(Mapped(f, s)) = Len(s)
      /\ \A i \in 1..Len(s) : Mapped(f, s)[i] = f[s[i]]
  BY <1>1, MappedType
<1> QED BY <1>2, <1>3 DEF Older, f

LEMMA RepliesOfOlder ==
    ASSUME NEW s \in Seq(Pieces)
    PROVE  Replies(Older(s)) = OlderReplies(Replies(s))
<1> DEFINE T == {u \in Seq(Pieces) : Replies(Older(u)) = OlderReplies(Replies(u))}
<1>1. <<>> \in T
  <2>1. Older(<<>>) = <<>> /\ OlderReplies(<<>>) = <<>>
    BY OlderTypes, MappedNone DEF Older, OlderReplies
  <2> QED BY <2>1, RepliesOfNone
<1>2. ASSUME NEW u \in T, NEW p \in Pieces PROVE Append(u, p) \in T
  <2>1. Older(u) \in Seq(Pieces) /\ OlderPiece(p) \in Pieces /\ Replies(u) \in Seq(Reply)
    BY OlderType, OlderPieceType, RepliesType
  <2>2. Replies(Older(Append(u, p))) = With(Replies(Older(u)), OlderPiece(p))
    <3>1. Older(Append(u, p)) = Append(Older(u), OlderPiece(p))
      <4> DEFINE f == [q \in Pieces |-> OlderPiece(q)]
      <4>1. f \in Maps(Pieces, Pieces) /\ f[p] = OlderPiece(p)
        BY OlderTypes
      <4> HIDE DEF f
      <4>2. Mapped(f, Append(u, p)) = Append(Mapped(f, u), f[p])
        BY <4>1, MappedAppend
      <4> QED BY <4>1, <4>2 DEF Older, f
    <3> QED BY <2>1, <3>1, RepliesOfAppend
  <2>3. Replies(Append(u, p)) = With(Replies(u), p)
    BY RepliesOfAppend
  <2>4. IsReply(OlderPiece(p)) <=> IsReply(p)
    BY OlderPieceType DEF IsReply
  <2>5. CASE IsReply(p)
    <3>1. AsReply(p) \in Reply
      BY <2>5, LastHasCode
    <3>2. AsReply(OlderPiece(p)) = OlderReply(AsReply(p))
      <4>1. OlderReply(AsReply(p)) = [own |-> FALSE, code |-> AsReply(p).code]
        BY <3>1, OlderReplyType
      <4> QED BY <4>1, OlderPieceType DEF AsReply
    <3>3. OlderReplies(Append(Replies(u), AsReply(p)))
             = Append(OlderReplies(Replies(u)), OlderReply(AsReply(p)))
      <4> DEFINE f == [r \in Reply |-> OlderReply(r)]
                 a == AsReply(p)
      <4>1. f \in Maps(Reply, Reply) /\ f[a] = OlderReply(a)
        BY <3>1, OlderTypes
      <4>2. Mapped(f, Append(Replies(u), a)) = Append(Mapped(f, Replies(u)), f[a])
        <5> HIDE DEF f, a
        <5>1. a \in Reply
          BY <3>1 DEF a
        <5> QED BY <2>1, <4>1, <5>1, MappedAppend
      <4> QED BY <4>1, <4>2 DEF OlderReplies
    <3>4. Append(u, p) \in Seq(Pieces)
      OBVIOUS
    <3> QED BY <2>2, <2>3, <2>4, <2>5, <3>2, <3>3, <3>4 DEF With
  <2>6. CASE ~IsReply(p)
    <3>1. Append(u, p) \in Seq(Pieces)
      OBVIOUS
    <3> QED BY <2>2, <2>3, <2>4, <2>6, <3>1 DEF With
  <2> QED BY <2>5, <2>6
<1>3. T = Seq(Pieces)
  <2> HIDE DEF T
  <2>1. T \in SUBSET Seq(Pieces)
    BY DEF T
  <2> QED BY <1>1, <1>2, <2>1, SeqIsLeast, Zenon
<1> QED BY <1>3

\* With a last line's head among the pieces there is a reply.
LEMMA RepliesNotEmpty ==
    ASSUME NEW s \in Seq(Pieces), NEW j \in 1..Len(s), IsReply(s[j])
    PROVE  Replies(s) # <<>>
<1> DEFINE T == {u \in Seq(Pieces) : \A k \in 1..Len(u) : IsReply(u[k]) => Replies(u) # <<>>}
<1>1. <<>> \in T
  <2>1. <<>> \in Seq(Pieces) /\ 1..Len(<<>>) = {}
    OBVIOUS
  <2> QED BY <2>1
<1>2. ASSUME NEW u \in T, NEW p \in Pieces PROVE Append(u, p) \in T
  <2>1. Append(u, p) \in Seq(Pieces)
    OBVIOUS
  <2>2. ASSUME NEW k \in 1..Len(Append(u, p)), IsReply(Append(u, p)[k])
        PROVE  Replies(Append(u, p)) # <<>>
    <3>1. Replies(Append(u, p)) = With(Replies(u), p) /\ Replies(u) \in Seq(Reply)
      BY RepliesOfAppend, RepliesType
    <3>2. CASE IsReply(p)
      <4>1. AsReply(p) \in Reply
        BY <3>2, LastHasCode
      <4>2. Append(Replies(u), AsReply(p)) # <<>>
        BY <3>1, <4>1, AppendProperties
      <4> QED BY <3>1, <3>2, <4>2 DEF With
    <3>3. CASE ~IsReply(p)
      <4>1. k \in 1..Len(u) /\ Append(u, p)[k] = u[k]
        <5>1. k \in 1..(Len(u) + 1) /\ Append(u, p)[Len(u) + 1] = p
          OBVIOUS
        <5> QED BY <2>2, <3>3, <5>1
      <4>2. IsReply(u[k])
        BY <2>2, <4>1
      <4>3. Replies(u) # <<>>
        BY <4>1, <4>2
      <4> QED BY <3>1, <3>3, <4>3 DEF With
    <3> QED BY <3>2, <3>3
  <2> QED BY <2>1, <2>2
<1>3. T = Seq(Pieces)
  <2> HIDE DEF T
  <2>1. T \in SUBSET Seq(Pieces)
    BY DEF T
  <2> QED BY <1>1, <1>2, <2>1, SeqIsLeast, Zenon
<1> QED BY <1>3

-----------------------------------------------------------------------------
(* The pieces that are in flight. *)

\* Between piece i and the end of the reply of several lines it belongs to
\* there are ends of lines only; the reply's last line has the same code.
Closed(s, i, code) ==
    \E j \in (i + 1)..Len(s) :
        /\ IsReply(s[j]) /\ s[j].head.code = code
        /\ \A k \in (i + 1)..(j - 1) : s[k].kind = "end"

\* Every head has a code and its line's end, and if it is not the last one its
\* reply is complete.
WellFormed(s) ==
    \A i \in 1..Len(s) : s[i].kind = "head" =>
        /\ s[i].head # NoHead
        /\ i < Len(s) /\ s[i + 1].kind = "end"
        /\ ~s[i].head.last => Closed(s, i, s[i].head.code)

\* The first piece is dropped.
LEMMA ClosedTail ==
    ASSUME NEW s \in Seq(Pieces), s # <<>>, NEW i \in Nat, NEW code,
           Closed(s, i, code), i > 0 \/ s[1].kind = "end"
    PROVE  Closed(Tail(s), IF i = 0 THEN 0 ELSE i - 1, code)
<1> DEFINE t == Tail(s)
           n == IF i = 0 THEN 0 ELSE i - 1
<1>1. /\ t \in Seq(Pieces) /\ Len(t) = Len(s) - 1 /\ Len(s) \in Nat \ {0}
      /\ \A k \in 1..Len(t) : t[k] = s[k + 1]
  BY HeadTailProperties
<1> HIDE DEF t
<1>2. PICK j \in (i + 1)..Len(s) :
        /\ IsReply(s[j]) /\ s[j].head.code = code
        /\ \A k \in (i + 1)..(j - 1) : s[k].kind = "end"
  BY DEF Closed
<1>3. j # 1
  BY <1>2 DEF IsReply
<1>4. j - 1 \in (n + 1)..Len(t) /\ t[j - 1] = s[j]
  BY <1>1, <1>2, <1>3
<1>5. ASSUME NEW k \in (n + 1)..(j - 2) PROVE t[k].kind = "end"
  <2>1. t[k] = s[k + 1] /\ k + 1 \in (i + 1)..(j - 1)
    BY <1>1, <1>2
  <2> QED BY <1>2, <2>1
<1>6. (j - 1) - 1 = j - 2
  BY <1>1, <1>2
<1> HIDE DEF n
<1>7. Closed(t, n, code)
  BY <1>2, <1>4, <1>5, <1>6 DEF Closed
<1> QED BY <1>7 DEF t, n

LEMMA WellFormedTail ==
    ASSUME NEW s \in Seq(Pieces), s # <<>>, WellFormed(s)
    PROVE  WellFormed(Tail(s))
<1> DEFINE t == Tail(s)
<1>1. /\ t \in Seq(Pieces) /\ Len(t) = Len(s) - 1 /\ Len(s) \in Nat \ {0}
      /\ \A k \in 1..Len(t) : t[k] = s[k + 1]
  BY HeadTailProperties
<1>2. ASSUME NEW i \in Nat \ {0}, NEW code, Closed(s, i, code) PROVE Closed(t, i - 1, code)
  BY <1>2, ClosedTail
<1> HIDE DEF t
<1>3. ASSUME NEW i \in 1..Len(t), t[i].kind = "head"
      PROVE  /\ t[i].head # NoHead
             /\ i < Len(t) /\ t[i + 1].kind = "end"
             /\ ~t[i].head.last => Closed(t, i, t[i].head.code)
  <2>1. i + 1 \in 1..Len(s) /\ t[i] = s[i + 1] /\ (i + 1) - 1 = i /\ i + 1 \in Nat \ {0}
    BY <1>1
  <2>2. /\ s[i + 1].head # NoHead
        /\ i + 1 < Len(s) /\ s[(i + 1) + 1].kind = "end"
        /\ ~s[i + 1].head.last => Closed(s, i + 1, s[i + 1].head.code)
    BY <1>3, <2>1 DEF WellFormed
  <2>3. i < Len(t) /\ t[i + 1] = s[(i + 1) + 1]
    BY <1>1, <2>2
  <2>4. ASSUME ~t[i].head.last PROVE Closed(t, i, t[i].head.code)
    <3>1. Closed(s, i + 1, s[i + 1].head.code)
      BY <2>1, <2>2, <2>4
    <3>2. Closed(t, (i + 1) - 1, s[i + 1].head.code)
      BY <1>2, <2>1, <3>1
    <3> QED BY <2>1, <3>2
  <2> QED BY <2>1, <2>2, <2>3, <2>4
<1>4. WellFormed(t)
  BY <1>3 DEF WellFormed
<1> QED BY <1>4 DEF t

\* Pieces follow, or go before.
LEMMA ClosedConcat ==
    ASSUME NEW s \in Seq(Pieces), NEW t \in Seq(Pieces), NEW i \in Nat, NEW code
    PROVE  /\ Closed(s, i, code) => Closed(s \o t, i, code)
           /\ Closed(t, i, code) => Closed(s \o t, i + Len(s), code)
<1> DEFINE u == s \o t
<1>1. /\ u \in Seq(Pieces) /\ Len(u) = Len(s) + Len(t)
      /\ Len(s) \in Nat /\ Len(t) \in Nat
      /\ \A k \in 1..Len(u) : u[k] = IF k <= Len(s) THEN s[k] ELSE t[k - Len(s)]
  BY ConcatProperties, LenProperties
<1> HIDE DEF u
<1>2. ASSUME Closed(s, i, code) PROVE Closed(u, i, code)
  <2>1. PICK j \in (i + 1)..Len(s) :
          /\ IsReply(s[j]) /\ s[j].head.code = code
          /\ \A k \in (i + 1)..(j - 1) : s[k].kind = "end"
    BY <1>2 DEF Closed
  <2>2. j \in (i + 1)..Len(u) /\ u[j] = s[j]
    BY <1>1
  <2>3. ASSUME NEW k \in (i + 1)..(j - 1) PROVE u[k].kind = "end"
    <3>1. u[k] = s[k]
      BY <1>1
    <3> QED BY <2>1, <3>1
  <2> QED BY <2>1, <2>2, <2>3 DEF Closed
<1>3. ASSUME Closed(t, i, code) PROVE Closed(u, i + Len(s), code)
  <2>1. PICK j \in (i + 1)..Len(t) :
          /\ IsReply(t[j]) /\ t[j].head.code = code
          /\ \A k \in (i + 1)..(j - 1) : t[k].kind = "end"
    BY <1>3 DEF Closed
  <2>2. j + Len(s) \in ((i + Len(s)) + 1)..Len(u) /\ u[j + Len(s)] = t[j]
    <3> DEFINE m == j + Len(s)
    <3>1. m \in ((i + Len(s)) + 1)..Len(u) /\ m \in 1..Len(u) /\ ~(m <= Len(s)) /\ m - Len(s) = j
      BY <1>1
    <3> HIDE DEF m
    <3>2. u[m] = t[j]
      BY <1>1, <3>1
    <3> QED BY <3>1, <3>2 DEF m
  <2>3. ASSUME NEW k \in ((i + Len(s)) + 1)..((j + Len(s)) - 1) PROVE u[k].kind = "end"
    <3>1. u[k] = t[k - Len(s)] /\ k - Len(s) \in (i + 1)..(j - 1)
      BY <1>1, <2>1
    <3> QED BY <2>1, <3>1
  <2> QED BY <2>1, <2>2, <2>3 DEF Closed
<1> QED BY <1>2, <1>3 DEF u

LEMMA WellFormedConcat ==
    ASSUME NEW s \in Seq(Pieces), NEW t \in Seq(Pieces), WellFormed(s), WellFormed(t)
    PROVE  WellFormed(s \o t)
<1> DEFINE u == s \o t
<1>1. /\ u \in Seq(Pieces) /\ Len(u) = Len(s) + Len(t)
      /\ Len(s) \in Nat /\ Len(t) \in Nat
      /\ \A k \in 1..Len(u) : u[k] = IF k <= Len(s) THEN s[k] ELSE t[k - Len(s)]
  BY ConcatProperties, LenProperties
<1>2. \A i \in Nat : \A code : /\ Closed(s, i, code) => Closed(u, i, code)
                               /\ Closed(t, i, code) => Closed(u, i + Len(s), code)
  BY ClosedConcat
<1> HIDE DEF u
<1>3. ASSUME NEW i \in 1..Len(u), u[i].kind = "head"
      PROVE  /\ u[i].head # NoHead
             /\ i < Len(u) /\ u[i + 1].kind = "end"
             /\ ~u[i].head.last => Closed(u, i, u[i].head.code)
  <2>1. CASE i \in 1..Len(s)
    <3>1. u[i] = s[i] /\ i \in Nat
      BY <1>1, <2>1
    <3>2. /\ s[i].head # NoHead /\ i < Len(s) /\ s[i + 1].kind = "end"
          /\ ~s[i].head.last => Closed(s, i, s[i].head.code)
      BY <1>3, <2>1, <3>1 DEF WellFormed
    <3>3. i < Len(u) /\ u[i + 1] = s[i + 1]
      BY <1>1, <2>1, <3>2
    <3> QED BY <1>2, <3>1, <3>2, <3>3
  <2>2. CASE i > Len(s)
    <3> DEFINE n == i - Len(s)
    <3>1. u[i] = t[n] /\ n \in 1..Len(t) /\ n + Len(s) = i /\ n \in Nat
      BY <1>1, <2>2
    <3> HIDE DEF n
    <3>2. /\ t[n].head # NoHead /\ n < Len(t) /\ t[n + 1].kind = "end"
          /\ ~t[n].head.last => Closed(t, n, t[n].head.code)
      BY <1>3, <3>1 DEF WellFormed
    <3>3. i < Len(u) /\ u[i + 1] = t[n + 1]
      <4>1. i < Len(u) /\ i + 1 \in 1..Len(u) /\ ~(i + 1 <= Len(s)) /\ (i + 1) - Len(s) = n + 1
        <5>1. i \in Nat /\ n \in Nat /\ Len(u) = Len(s) + Len(t) /\ i = n + Len(s) /\ n < Len(t)
               /\ Len(s) \in Nat /\ Len(t) \in Nat
          BY <1>1, <3>1, <3>2
        <5> QED BY <2>2, <5>1
      <4> QED BY <1>1, <4>1
    <3>4. ~t[n].head.last => Closed(u, i, t[n].head.code)
      BY <1>2, <3>1, <3>2
    <3> QED BY <3>1, <3>2, <3>3, <3>4
  <2> QED BY <1>1, <2>1, <2>2
<1>4. WellFormed(u)
  BY <1>3 DEF WellFormed
<1> QED BY <1>4 DEF u

\* That pieces get older does not matter.
LEMMA WellFormedOlder ==
    ASSUME NEW s \in Seq(Pieces), WellFormed(s)
    PROVE  WellFormed(Older(s))
<1> DEFINE t == Older(s)
<1>1. /\ t \in Seq(Pieces) /\ Len(t) = Len(s)
      /\ \A i \in 1..Len(s) :
            /\ t[i].kind = s[i].kind
            /\ t[i].head.code = s[i].head.code
            /\ t[i].head.last = s[i].head.last
  <2>1. \A i \in 1..Len(s) : s[i] \in Pieces
    BY ElementOfSeq
  <2> QED BY <2>1, OlderType, OlderPieceType
<1> HIDE DEF t
<1>2. ASSUME NEW i \in Nat, NEW code, Closed(s, i, code) PROVE Closed(t, i, code)
  <2>1. PICK j \in (i + 1)..Len(s) :
          /\ IsReply(s[j]) /\ s[j].head.code = code
          /\ \A k \in (i + 1)..(j - 1) : s[k].kind = "end"
    BY <1>2 DEF Closed
  <2>2. j \in (i + 1)..Len(t) /\ IsReply(t[j]) /\ t[j].head.code = code
    BY <1>1, <2>1 DEF IsReply
  <2>3. \A k \in (i + 1)..(j - 1) : t[k].kind = "end"
    BY <1>1, <2>1
  <2> QED BY <2>2, <2>3 DEF Closed
<1>3. ASSUME NEW i \in 1..Len(t), t[i].kind = "head"
      PROVE  /\ t[i].head # NoHead
             /\ i < Len(t) /\ t[i + 1].kind = "end"
             /\ ~t[i].head.last => Closed(t, i, t[i].head.code)
  <2>1. /\ s[i].head # NoHead /\ i < Len(s) /\ s[i + 1].kind = "end"
        /\ ~s[i].head.last => Closed(s, i, s[i].head.code)
    BY <1>1, <1>3 DEF WellFormed
  <2>2. t[i].head # NoHead
    <3>1. s[i].head \in Heads
      <4>1. s[i] \in Pieces
        BY <1>1, ElementOfSeq
      <4> QED BY <4>1 DEF Pieces
    <3>2. s[i].head.code \in Codes
      BY <2>1, <3>1 DEF Heads
    <3>3. NoHead.code \notin Codes
      BY DEF NoHead, Codes
    <3> QED BY <1>1, <3>2, <3>3
  <2>3. i < Len(t) /\ t[i + 1].kind = "end"
    BY <1>1, <2>1
  <2> QED BY <1>1, <1>2, <2>1, <2>2, <2>3
<1>4. WellFormed(t)
  BY <1>3 DEF WellFormed
<1> QED BY <1>4 DEF t

-----------------------------------------------------------------------------
(* What the server sends. *)

LEMMA PieceTypes ==
    /\ End \in Pieces /\ End.kind = "end" /\ ~IsReply(End)
    /\ \A code \in Codes, last, own \in BOOLEAN :
         /\ AHead(code, last, own) \in Pieces
         /\ AHead(code, last, own).kind = "head"
         /\ AHead(code, last, own).head # NoHead
         /\ AHead(code, last, own).head.code = code
         /\ AHead(code, last, own).head.last = last
         /\ IsReply(AHead(code, last, own)) <=> last
         /\ AsReply(AHead(code, last, own)) = [own |-> own, code |-> code]
<1>1. End \in Pieces /\ End.kind = "end" /\ ~IsReply(End)
  BY DEF End, Pieces, Heads, IsReply
<1>2. 0 \notin Codes
  BY DEF Codes
<1>3. ASSUME NEW code \in Codes, NEW last \in BOOLEAN, NEW own \in BOOLEAN
      PROVE  /\ AHead(code, last, own) \in Pieces
             /\ AHead(code, last, own).kind = "head"
             /\ AHead(code, last, own).head # NoHead
             /\ AHead(code, last, own).head.code = code
             /\ AHead(code, last, own).head.last = last
             /\ IsReply(AHead(code, last, own)) <=> last
             /\ AsReply(AHead(code, last, own)) = [own |-> own, code |-> code]
  BY <1>2 DEF AHead, Pieces, Heads, NoHead, IsReply, AsReply
<1> QED BY <1>1, <1>3

\* A line of its own.
LEMMA LastLine ==
    ASSUME NEW code \in Codes, NEW own \in BOOLEAN
    PROVE  LET l == <<AHead(code, TRUE, own), End>>
           IN  /\ l \in Seq(Pieces)
               /\ WellFormed(l)
               /\ Replies(l) = <<[own |-> own, code |-> code]>>
<1> DEFINE h == AHead(code, TRUE, own)
           l == <<h, End>>
<1>1. /\ h \in Pieces /\ End \in Pieces /\ h.head # NoHead /\ h.head.last = TRUE
      /\ IsReply(h) /\ ~IsReply(End) /\ End.kind = "end"
      /\ AsReply(h) = [own |-> own, code |-> code]
  <2>1. h.head.last = TRUE /\ IsReply(h)
    BY DEF AHead, IsReply
  <2>2. /\ h \in Pieces /\ h.head # NoHead
        /\ AsReply(h) = [own |-> own, code |-> code]
    <3>1. ASSUME NEW b \in BOOLEAN
          PROVE  /\ AHead(code, b, own) \in Pieces
                 /\ AHead(code, b, own).head # NoHead
                 /\ AsReply(AHead(code, b, own)) = [own |-> own, code |-> code]
      BY PieceTypes
    <3> QED BY <3>1, Zenon
  <2>3. End \in Pieces /\ ~IsReply(End) /\ End.kind = "end"
    BY PieceTypes
  <2> HIDE DEF h
  <2> QED BY <2>1, <2>2, <2>3
<1> HIDE DEF h
<1>2. l \in Seq(Pieces) /\ Len(l) = 2 /\ l[1] = h /\ l[2] = End /\ l = Append(<<h>>, End)
       /\ <<h>> \in Seq(Pieces)
  BY <1>1
<1> HIDE DEF l
<1>3. WellFormed(l)
  BY <1>1, <1>2 DEF WellFormed
<1>4. Replies(l) = Replies(<<h>>)
  BY <1>1, <1>2, RepliesOfAppend DEF With
<1>5. Replies(l) = <<[own |-> own, code |-> code]>>
  BY <1>1, <1>4, RepliesOfOne
<1> QED BY <1>2, <1>3, <1>5 DEF l, h

LEMMA LayoutsAreReplies ==
    ASSUME NEW code \in Codes, NEW l \in Layouts(code)
    PROVE  /\ l \in Seq(Pieces)
           /\ WellFormed(l)
           /\ Replies(l) = <<[own |-> TRUE, code |-> code]>>
<1> DEFINE last == <<AHead(code, TRUE, TRUE), End>>
           f == AHead(code, FALSE, TRUE)
           first == <<f, End, End>>
           h == AHead(code, TRUE, TRUE)
<1>1. last \in Seq(Pieces) /\ WellFormed(last) /\ Replies(last) = <<[own |-> TRUE, code |-> code]>>
  BY LastLine
<1>2. Len(last) = 2 /\ last[1] = h /\ last[2] = End
  OBVIOUS
<1>3. l = last \/ l = first \o last
  BY DEF Layouts
<1>4. /\ f \in Pieces /\ h \in Pieces /\ End \in Pieces /\ End.kind = "end"
      /\ f.head # NoHead /\ f.head.code = code /\ ~IsReply(f) /\ ~IsReply(End)
      /\ IsReply(h) /\ h.head.code = code
  BY PieceTypes
<1> HIDE DEF last, f, h
<1>5. CASE l = first \o last
  <2>1. /\ first \in Seq(Pieces) /\ Len(first) = 3 /\ first[1] = f /\ first[2] = End
        /\ first[3] = End
        /\ first = Append(Append(<<f>>, End), End)
        /\ <<f>> \in Seq(Pieces) /\ Append(<<f>>, End) \in Seq(Pieces)
    BY <1>4
  <2>2. Replies(first) = <<>>
    BY <1>4, <2>1, RepliesOfAppend, RepliesOfOne DEF With
  <2> HIDE DEF first
  <2>3. Replies(l) = <<>> \o Replies(last)
    BY <1>1, <1>5, <2>1, <2>2, RepliesOfConcat
  <2>4. <<[own |-> TRUE, code |-> code]>> \in Seq(Reply)
    BY DEF Reply
  <2>5. Replies(l) = <<[own |-> TRUE, code |-> code]>>
    BY <1>1, <2>3, <2>4, ConcatEmptySeq
  <2>6. /\ l \in Seq(Pieces) /\ Len(l) = 5
        /\ l[1] = f /\ l[2] = End /\ l[3] = End /\ l[4] = h /\ l[5] = End
    <3>1. /\ l \in Seq(Pieces) /\ Len(l) = 3 + 2
          /\ \A i \in 1..(3 + 2) : l[i] = IF i <= 3 THEN first[i] ELSE last[i - 3]
      <4>1. /\ l \in Seq(Pieces) /\ Len(l) = Len(first) + Len(last)
            /\ \A i \in 1..(Len(first) + Len(last)) :
                  l[i] = IF i <= Len(first) THEN first[i] ELSE last[i - Len(first)]
        BY <1>1, <1>5, <2>1, ConcatProperties
      <4> QED BY <1>2, <2>1, <4>1
    <3>2. l[1] = first[1] /\ l[2] = first[2] /\ l[3] = first[3]
      BY <3>1
    <3>3. l[4] = last[1] /\ l[5] = last[2]
      BY <3>1
    <3> QED BY <1>2, <2>1, <3>1, <3>2, <3>3
  <2>7. Closed(l, 1, code)
    BY <1>4, <2>6 DEF Closed
  <2>8. WellFormed(l)
    <3>1. ASSUME NEW i \in 1..Len(l), l[i].kind = "head"
          PROVE  /\ l[i].head # NoHead
                 /\ i < Len(l) /\ l[i + 1].kind = "end"
                 /\ ~l[i].head.last => Closed(l, i, l[i].head.code)
      <4>1. i = 1 \/ i = 4
        BY <1>4, <2>6, <3>1
      <4>2. CASE i = 1
        BY <1>4, <2>6, <2>7, <4>2
      <4>3. CASE i = 4
        <5>1. h.head.last /\ h.head # NoHead
          BY PieceTypes DEF h
        <5> QED BY <1>4, <2>6, <4>3, <5>1
      <4> QED BY <4>1, <4>2, <4>3
    <3> QED BY <3>1 DEF WellFormed
  <2> QED BY <2>5, <2>6, <2>8
<1> QED BY <1>1, <1>3, <1>5

\* Answers are one code or two.
LEMMA AnswersShape ==
    ASSUME NEW cmd \in DOMAIN Answers, NEW a \in Answers[cmd]
    PROVE  \/ \E c \in Codes : a = <<c>>
           \/ \E c, d \in Codes : a = <<c, d>>
<1>1. CASE cmd \in {"STOR", "RETR", "MLSD", "LIST"}
  <2>1. a \in TransferAnswers
    BY <1>1 DEF Answers
  <2> QED BY <2>1 DEF TransferAnswers, Codes
<1>2. CASE cmd \notin {"STOR", "RETR", "MLSD", "LIST"}
  <2>1. \E c \in Codes : a = <<c>>
    BY <1>2 DEF Answers, Codes
  <2> QED BY <2>1
<1> QED BY <1>1, <1>2

-----------------------------------------------------------------------------
(* The invariant. *)

\* The pieces that have not been dealt with: the head that has been read and
\* those in flight.
UnreadOf(ln, st) ==
    IF ln = NoHead THEN st ELSE <<[kind |-> "head", head |-> ln]>> \o st

Unread == UnreadOf(line, stream)

\* While a reply of several lines is being read its last line is still to
\* come, with the same code.
ReaderInv ==
    /\ TypeOK
    /\ ~reading => line = NoHead
    /\ WellFormed(Unread)
    /\ reading /\ multi # None => Closed(Unread, 0, multi)

\* With a head that has been read there are its line's end and what follows.
LEMMA UnreadHead ==
    ASSUME NEW ln \in Heads, NEW st \in Seq(Pieces), ln # NoHead,
           WellFormed(UnreadOf(ln, st))
    PROVE  LET u == UnreadOf(ln, st)
               h == [kind |-> "head", head |-> ln]
           IN  /\ h \in Pieces /\ ln.code \in Codes
               /\ u = <<h>> \o st /\ u \in Seq(Pieces) /\ u # <<>>
               /\ u[1] = h /\ Tail(u) = st
               /\ st # <<>> /\ st[1].kind = "end" /\ WellFormed(st)
               /\ ~ln.last => Closed(st, 0, ln.code)
<1> DEFINE h == [kind |-> "head", head |-> ln]
           u == UnreadOf(ln, st)
<1>1. h \in Pieces /\ h.kind = "head" /\ h.head = ln
  BY DEF Pieces
<1>2. u = <<h>> \o st
  BY DEF UnreadOf
<1>3. WellFormed(u)
  OBVIOUS
<1>4. ln.code \in Codes
  BY DEF Heads
<1> HIDE DEF h, u
<1>5. /\ u \in Seq(Pieces) /\ u # <<>> /\ u[1] = h /\ Tail(u) = st /\ Len(u) = Len(st) + 1
      /\ Len(st) \in Nat /\ 1 \in 1..Len(u)
  BY <1>1, <1>2
<1>6. 1 < Len(u) /\ u[1 + 1].kind = "end"
  BY <1>1, <1>3, <1>5 DEF WellFormed
<1>7. st # <<>> /\ st[1] = u[2]
  <2>1. Len(st) # 0
    BY <1>5, <1>6
  <2>2. Tail(u)[1] = u[1 + 1]
    BY <1>5, <2>1, HeadTailProperties
  <2> QED BY <1>5, <2>1, <2>2, EmptySeq
<1>8. WellFormed(st)
  BY <1>3, <1>5, WellFormedTail
<1>9. ASSUME ~ln.last PROVE Closed(st, 0, ln.code)
  <2>1. Closed(u, 1, ln.code)
    BY <1>3, <1>1, <1>5, <1>9 DEF WellFormed
  <2>2. \A i \in Nat \ {0} : Closed(u, i, ln.code) => Closed(Tail(u), i - 1, ln.code)
    BY <1>5, ClosedTail
  <2>3. 1 \in Nat \ {0} /\ 1 - 1 = 0
    OBVIOUS
  <2>4. Closed(Tail(u), 1 - 1, ln.code)
    BY <2>1, <2>2, <2>3, Zenon
  <2> QED BY <1>5, <2>3, <2>4
<1>10. st[1].kind = "end"
  BY <1>6, <1>7
<1> QED BY <1>1, <1>2, <1>4, <1>5, <1>7, <1>8, <1>9, <1>10, Zenon DEF h, u

\* A head that has been read: InFlight is its reply, if it is a last one, and
\* those of the stream.
LEMMA UnreadReplies ==
    ASSUME NEW ln \in Heads, NEW st \in Seq(Pieces), ln # NoHead
    PROVE  /\ ln.last => LET w == Replies(UnreadOf(ln, st))
                         IN  /\ w # <<>> /\ Tail(w) = Replies(st)
                             /\ Head(w).code = ln.code /\ Head(w).own = ln.own
           /\ ~ln.last => Replies(UnreadOf(ln, st)) = Replies(st)
<1> DEFINE h == [kind |-> "head", head |-> ln]
<1>1. h \in Pieces /\ (IsReply(h) <=> ln.last)
  BY DEF Pieces, IsReply
<1>2. AsReply(h).code = ln.code /\ AsReply(h).own = ln.own
  BY DEF AsReply
<1>3. UnreadOf(ln, st) = <<h>> \o st
  BY DEF UnreadOf
<1> HIDE DEF h
<1> QED BY <1>1, <1>2, <1>3, RepliesOfCons

\* An open reply of several lines has a reply in flight.
LEMMA ClosedNotEmpty ==
    ASSUME NEW s \in Seq(Pieces), NEW i \in Nat, NEW code, Closed(s, i, code)
    PROVE  Replies(s) # <<>>
<1>1. PICK j \in (i + 1)..Len(s) : IsReply(s[j])
  BY DEF Closed
<1>2. j \in 1..Len(s)
  OBVIOUS
<1> QED BY <1>1, <1>2, RepliesNotEmpty

-----------------------------------------------------------------------------
(* The channel. *)

\* The replies to a command, marked as answers to it.
Answer(code) == [own |-> TRUE, code |-> code]

Marked(a) == [i \in DOMAIN a |-> Answer(a[i])]

LEMMA ChannelSends ==
    ASSUME NEW w \in Seq(Reply), NEW cmd,
           NEW a \in IF Len(w) > MaxLate THEN {<<>>} ELSE Answers[cmd]
    PROVE  OlderReplies(w) \o Marked(a) \in Channel!AfterSending(w, cmd)
<1>1. OlderReplies(w) = [i \in DOMAIN w |-> [w[i] EXCEPT !.own = FALSE]]
  BY DEF OlderReplies, Mapped, OlderReply
<1>2. Channel!Answers = Answers
  BY DEF Channel!Answers, Answers, Channel!TransferAnswers, TransferAnswers
<1> QED BY <1>1, <1>2, Zenon DEF Channel!AfterSending, Marked, Answer

LEMMA ChannelReads ==
    ASSUME NEW w, NEW rest,
           \/ rest = w
           \/ w # <<>> /\ rest \in {Tail(w), <<Garbled>> \o Tail(w), <<Garbled>> \o w}
    PROVE  [code |-> Silence, own |-> TRUE, rest |-> rest] \in Channel!Reads(w)
<1>1. rest \in Channel!Abandoned(w)
  BY DEF Channel!Abandoned, Channel!Garbled, Garbled
<1>2. Channel!Silence = Silence
  BY DEF Channel!Silence, Silence
<1> QED BY <1>1, <1>2, Zenon DEF Channel!Reads

LEMMA ChannelReadsHead ==
    ASSUME NEW w, w # <<>>
    PROVE  [code |-> Head(w).code, own |-> Head(w).own, rest |-> Tail(w)]
              \in Channel!Reads(w)
BY DEF Channel!Reads

-----------------------------------------------------------------------------
(* The steps: each keeps the invariant, and is a step of the channel or a   *)
(* stutter.                                                                *)

ChannelStep == [Channel!ChannelNext]_<<InFlight, reply>>

LEMMA InFlightIsUnread == InFlight = Replies(Unread)
BY DEF InFlight, Unread, UnreadOf

LEMMA NothingAtFirst ==
    ReaderInit => ReaderInv /\ Channel!ChannelInit
<1> SUFFICES ASSUME ReaderInit PROVE ReaderInv /\ Channel!ChannelInit
  OBVIOUS
<1>1. stream = <<>> /\ line = NoHead /\ <<>> \in Seq(Pieces) /\ Len(<<>>) = 0
  BY DEF ReaderInit
<1>2. TypeOK
  <2>1. stream \in Seq([kind: {"head", "end"}, head: Heads])
    BY <1>1 DEF Pieces
  <2>2. line \in Heads /\ multi \in Codes \cup {None} /\ reading \in BOOLEAN
    BY DEF ReaderInit, Heads
  <2>3. reply \in [code: Codes \cup {Silence}, own: BOOLEAN]
    <3>1. \A b \in BOOLEAN : [code |-> Silence, own |-> b] \in [code: Codes \cup {Silence}, own: BOOLEAN]
      OBVIOUS
    <3> QED BY <3>1, Zenon DEF ReaderInit
  <2>4. start \in 0..(ClockWidth - 1) /\ clock \in 0..(ClockWidth - 1)
    BY ReaderAssumption DEF ReaderInit
  <2> QED BY <2>1, <2>2, <2>3, <2>4 DEF TypeOK
<1>3. Unread = <<>>
  BY <1>1 DEF Unread, UnreadOf
<1>4. WellFormed(Unread)
  BY <1>1, <1>3 DEF WellFormed
<1>5. InFlight = <<>>
  BY <1>3, InFlightIsUnread, RepliesOfNone
<1>6. Channel!ChannelInit
  BY <1>5 DEF ReaderInit, Channel!ChannelInit, Channel!Silence, Silence
<1> QED BY <1>2, <1>4, <1>6 DEF ReaderInit, ReaderInv

\* The server's answers go behind what was in flight, which gets older.
LEMMA SendCommandStep ==
    ReaderInv /\ SendCommand => ReaderInv' /\ ChannelStep
<1> SUFFICES ASSUME ReaderInv, SendCommand PROVE ReaderInv' /\ ChannelStep
  OBVIOUS
<1> DEFINE older == [i \in DOMAIN stream |-> [stream[i] EXCEPT !.head.own = FALSE]]
<1>1. /\ ~reading /\ line = NoHead /\ WellFormed(stream) /\ stream \in Seq(Pieces)
      /\ InFlight = Replies(stream)
  BY InFlightIsUnread DEF ReaderInv, TypeOK, Pieces, SendCommand, Unread, UnreadOf
<1>2. UNCHANGED <<reading, line, multi, reply, start, clock>>
  BY DEF SendCommand
<1> DEFINE Sent(answers) ==
             CASE answers = <<>> -> stream' = older
               [] Len(answers) = 1 ->
                    \E a \in Layouts(answers[1]) : stream' = older \o a
               [] Len(answers) = 2 ->
                    \E a \in Layouts(answers[1]), b \in Layouts(answers[2]) :
                       stream' = older \o a \o b
<1>a. PICK cmd \in Commands :
        \E answers \in (IF Len(InFlight) > MaxLate THEN {<<>>} ELSE Answers[cmd]) : Sent(answers)
  BY Zenon DEF SendCommand
<1>3. PICK answers \in (IF Len(InFlight) > MaxLate THEN {<<>>} ELSE Answers[cmd]) : Sent(answers)
  BY <1>a
<1>4. older = Older(stream)
  <2>1. \A i \in DOMAIN stream : stream[i] \in Pieces
    BY <1>1
  <2>2. \A i \in DOMAIN stream :
           [p \in Pieces |-> OlderPiece(p)][stream[i]] = OlderPiece(stream[i])
    BY <2>1
  <2> QED BY <2>2, Zenon DEF Older, Mapped, OlderPiece
<1>5. \/ answers = <<>>
      \/ \E c \in Codes : answers = <<c>>
      \/ \E c, d \in Codes : answers = <<c, d>>
  BY AnswersShape, ReaderAssumption
<1> HIDE DEF older
<1>6. \E more \in Seq(Pieces) :
        /\ stream' = older \o more /\ WellFormed(more) /\ Replies(more) = Marked(answers)
  <2>1. CASE answers = <<>>
    <3>1. stream' = older /\ older \in Seq(Pieces)
      BY <1>1, <1>3, <1>4, <2>1, OlderType
    <3>2. <<>> \in Seq(Pieces) /\ older \o <<>> = older /\ Len(<<>>) = 0
      BY <3>1
    <3>3. WellFormed(<<>>)
      BY <3>2 DEF WellFormed
    <3>4. Marked(answers) = <<>>
      BY <2>1 DEF Marked
    <3> QED BY <3>1, <3>2, <3>3, <3>4, RepliesOfNone
  <2>2. ASSUME NEW c \in Codes, answers = <<c>>
        PROVE  \E more \in Seq(Pieces) :
                  /\ stream' = older \o more /\ WellFormed(more)
                  /\ Replies(more) = Marked(answers)
    <3>1. answers # <<>> /\ Len(answers) = 1 /\ answers[1] = c
      BY <2>2
    <3>2. PICK a \in Layouts(c) : stream' = older \o a
      BY <1>3, <3>1
    <3>3. Marked(answers) = <<Answer(c)>>
      BY <2>2 DEF Marked
    <3>4. a \in Seq(Pieces) /\ WellFormed(a) /\ Replies(a) = <<Answer(c)>>
      BY LayoutsAreReplies DEF Answer
    <3> QED BY <3>2, <3>3, <3>4
  <2>3. ASSUME NEW c \in Codes, NEW d \in Codes, answers = <<c, d>>
        PROVE  \E more \in Seq(Pieces) :
                  /\ stream' = older \o more /\ WellFormed(more)
                  /\ Replies(more) = Marked(answers)
    <3>1. answers # <<>> /\ Len(answers) = 2 /\ answers[1] = c /\ answers[2] = d
      BY <2>3
    <3>2. PICK a \in Layouts(c), b \in Layouts(d) : stream' = older \o a \o b
      BY <1>3, <3>1
    <3>3. /\ a \in Seq(Pieces) /\ WellFormed(a) /\ Replies(a) = <<Answer(c)>>
          /\ b \in Seq(Pieces) /\ WellFormed(b) /\ Replies(b) = <<Answer(d)>>
      BY LayoutsAreReplies DEF Answer
    <3>4. older \o a \o b = older \o (a \o b) /\ a \o b \in Seq(Pieces)
      <4>1. older \in Seq(Pieces)
        BY <1>1, <1>4, OlderType
      <4> QED BY <3>3, <4>1, ConcatAssociative
    <3>5. WellFormed(a \o b)
      BY <3>3, WellFormedConcat
    <3>6. Replies(a \o b) = <<Answer(c), Answer(d)>>
      <4>1. Replies(a \o b) = Replies(a) \o Replies(b)
        BY <3>3, RepliesOfConcat
      <4>2. ASSUME NEW x \in Reply, NEW y \in Reply PROVE <<x>> \o <<y>> = <<x, y>>
        <5> DEFINE l == <<x>> \o <<y>>
                   m == <<x, y>>
        <5>1. <<x>> \in Seq(Reply) /\ <<y>> \in Seq(Reply) /\ m \in Seq(Reply)
               /\ Len(<<x>>) = 1 /\ Len(<<y>>) = 1 /\ Len(m) = 2
               /\ <<x>>[1] = x /\ <<y>>[1] = y /\ m[1] = x /\ m[2] = y
          OBVIOUS
        <5>2. l \in Seq(Reply) /\ Len(l) = 2 /\ l[1] = x /\ l[2] = y
          BY <5>1
        <5> HIDE DEF l, m
        <5>3. \A i \in 1..Len(l) : l[i] = m[i]
          BY <5>1, <5>2
        <5>4. l = m
          BY <5>1, <5>2, <5>3, SeqEqual
        <5> QED BY <5>4 DEF l, m
      <4>3. Answer(c) \in Reply /\ Answer(d) \in Reply
        <5>1. \A o \in BOOLEAN, k \in Codes : [own |-> o, code |-> k] \in Reply
          BY DEF Reply
        <5> QED BY <5>1, Zenon DEF Answer
      <4> QED BY <3>3, <4>1, <4>2, <4>3
    <3>7. Marked(answers) = <<Answer(c), Answer(d)>>
      BY <2>3 DEF Marked
    <3> QED BY <3>2, <3>4, <3>5, <3>6, <3>7
  <2> QED BY <1>5, <2>1, <2>2, <2>3
<1>7. PICK more \in Seq(Pieces) :
        /\ stream' = older \o more /\ WellFormed(more) /\ Replies(more) = Marked(answers)
  BY <1>6
<1>8. older \in Seq(Pieces) /\ WellFormed(older) /\ Replies(older) = OlderReplies(InFlight)
  BY <1>1, <1>4, OlderType, WellFormedOlder, RepliesOfOlder
<1>9. stream' \in Seq(Pieces) /\ WellFormed(stream')
  BY <1>7, <1>8, WellFormedConcat
<1>10. Unread' = stream' /\ InFlight' = Replies(stream')
  BY <1>1, <1>2 DEF Unread, UnreadOf, InFlight
<1>11. InFlight' = OlderReplies(InFlight) \o Marked(answers)
  BY <1>7, <1>8, <1>10, RepliesOfConcat
<1>12. InFlight \in Seq(Reply)
  BY <1>1, RepliesType
<1>13. InFlight' \in Channel!AfterSending(InFlight, cmd)
  <2> DEFINE w == InFlight
  <2>1. w \in Seq(Reply)
    BY <1>12
  <2>2. answers \in IF Len(w) > MaxLate THEN {<<>>} ELSE Answers[cmd]
    OBVIOUS
  <2> HIDE DEF w
  <2>3. OlderReplies(w) \o Marked(answers) \in Channel!AfterSending(w, cmd)
    BY <2>1, <2>2, ChannelSends
  <2> QED BY <1>11, <2>3 DEF w
<1>14. Channel!Send
  BY <1>2, <1>13 DEF Channel!Send
<1>15. TypeOK'
  BY <1>2, <1>9 DEF ReaderInv, TypeOK, Pieces
<1>16. ReaderInv'
  BY <1>1, <1>2, <1>9, <1>10, <1>15 DEF ReaderInv
<1> QED BY <1>14, <1>16 DEF ChannelStep, Channel!ChannelNext

LEMMA TextStep ==
    ReaderInv /\ Text => ReaderInv' /\ ChannelStep
<1> SUFFICES ASSUME ReaderInv, Text PROVE ReaderInv' /\ ChannelStep
  OBVIOUS
<1>1. /\ stream \in Seq(Pieces) /\ line \in Heads /\ WellFormed(Unread)
      /\ stream' = Append(stream, End)
      /\ UNCHANGED <<reading, line, multi, reply, start, clock>>
  BY DEF ReaderInv, TypeOK, Pieces, Text
<1>2. End \in Pieces /\ End.kind = "end" /\ ~IsReply(End)
  BY PieceTypes
<1> DEFINE h == [kind |-> "head", head |-> line]
<1>3. Unread \in Seq(Pieces) /\ Unread' = Unread \o <<End>>
  <2>1. h \in Pieces
    BY <1>1 DEF Pieces
  <2>2. CASE line = NoHead
    BY <1>1, <1>2, <2>2, AppendIsConcat DEF Unread, UnreadOf
  <2>3. CASE line # NoHead
    <3>1. Unread = <<h>> \o stream /\ Unread' = <<h>> \o stream'
      BY <1>1, <2>3 DEF Unread, UnreadOf
    <3> HIDE DEF h
    <3>2. <<h>> \o Append(stream, End) = (<<h>> \o stream) \o <<End>>
      BY <1>1, <1>2, <2>1
    <3> QED BY <1>1, <2>1, <3>1, <3>2
  <2> QED BY <2>2, <2>3
<1>4. <<End>> \in Seq(Pieces) /\ WellFormed(<<End>>)
  <2>1. Len(<<End>>) = 1 /\ <<End>>[1] = End
    OBVIOUS
  <2> QED BY <1>2, <2>1 DEF WellFormed
<1>5. WellFormed(Unread')
  BY <1>1, <1>3, <1>4, WellFormedConcat
<1>6. reading /\ multi # None => Closed(Unread', 0, multi)
  <2>1. \A code : Closed(Unread, 0, code) => Closed(Unread \o <<End>>, 0, code)
    BY <1>3, <1>4, ClosedConcat
  <2> QED BY <1>3, <2>1 DEF ReaderInv
<1>7. InFlight' = InFlight
  <2>1. InFlight' = Replies(Unread')
    BY DEF InFlight, Unread, UnreadOf
  <2>2. Replies(Unread \o <<End>>) = Replies(Unread) \o Replies(<<End>>)
    BY <1>3, <1>4, RepliesOfConcat
  <2>3. Replies(<<End>>) = <<>> /\ Replies(Unread) \in Seq(Reply)
    BY <1>2, <1>3, RepliesOfOne, RepliesType
  <2>4. Replies(Unread) \o <<>> = Replies(Unread)
    BY <2>3, ConcatEmptySeq
  <2> QED BY <1>3, <2>1, <2>2, <2>3, <2>4, InFlightIsUnread, Zenon
<1>8. TypeOK'
  <2>1. stream' \in Seq(Pieces)
    BY <1>1, <1>2
  <2> QED BY <1>1, <2>1 DEF ReaderInv, TypeOK, Pieces
<1>9. ReaderInv'
  BY <1>1, <1>5, <1>6, <1>8 DEF ReaderInv
<1> QED BY <1>1, <1>7, <1>9 DEF ChannelStep

\* A new wait; the clock.
LEMMA CallStep ==
    ReaderInv /\ Call => ReaderInv' /\ ChannelStep
<1> SUFFICES ASSUME ReaderInv, Call PROVE ReaderInv' /\ ChannelStep
  OBVIOUS
<1>1. UNCHANGED <<stream, line, reply, clock>> /\ multi' = None /\ start' = clock
       /\ reading' = TRUE /\ line = NoHead
  BY DEF Call, ReaderInv
<1>2. TypeOK'
  BY <1>1 DEF ReaderInv, TypeOK
<1>3. Unread' = Unread /\ InFlight' = InFlight
  BY <1>1 DEF Unread, UnreadOf, InFlight
<1>4. ReaderInv'
  BY <1>1, <1>2, <1>3 DEF ReaderInv
<1> QED BY <1>1, <1>3, <1>4 DEF ChannelStep

LEMMA TickStep ==
    ReaderInv /\ Tick => ReaderInv' /\ ChannelStep
<1> SUFFICES ASSUME ReaderInv, Tick PROVE ReaderInv' /\ ChannelStep
  OBVIOUS
<1>1. UNCHANGED <<stream, reading, line, multi, reply, start>>
       /\ clock' = (clock + 1) % ClockWidth
  BY DEF Tick
<1>2. clock' \in 0..(ClockWidth - 1)
  BY <1>1, ReaderAssumption DEF ReaderInv, TypeOK
<1>3. TypeOK'
  BY <1>1, <1>2 DEF ReaderInv, TypeOK
<1>4. Unread' = Unread /\ InFlight' = InFlight
  BY <1>1 DEF Unread, UnreadOf, InFlight
<1>5. ReaderInv'
  BY <1>1, <1>3, <1>4 DEF ReaderInv
<1> QED BY <1>1, <1>4, <1>5 DEF ChannelStep

\* The head of a line: it is read at the start of a line only, and what is
\* left to deal with is the same.
LEMMA ReadHeadStep ==
    ReaderInv /\ ReadHead => ReaderInv' /\ ChannelStep
<1> SUFFICES ASSUME ReaderInv, ReadHead PROVE ReaderInv' /\ ChannelStep
  OBVIOUS
<1>1. /\ stream \in Seq(Pieces) /\ line \in Heads /\ WellFormed(Unread)
      /\ stream # <<>> /\ Head(stream).kind = "head" /\ reading
      /\ line' = Head(stream).head /\ stream' = Tail(stream)
      /\ UNCHANGED <<reading, multi, reply, start, clock>>
  BY DEF ReaderInv, TypeOK, Pieces, ReadHead, Waiting
<1>2. /\ Head(stream) = stream[1] /\ stream[1] \in Pieces /\ stream' \in Seq(Pieces)
      /\ stream = <<stream[1]>> \o Tail(stream) /\ 1 \in 1..Len(stream)
  BY <1>1
<1>3. line = NoHead
  <2>1. ASSUME line # NoHead PROVE stream[1].kind = "end"
    BY <1>1, <2>1, UnreadHead DEF Unread
  <2> QED BY <1>1, <1>2, <2>1
<1>4. line' \in Heads /\ line' # NoHead /\ stream[1] = [kind |-> "head", head |-> line']
  <2>1. Unread = stream
    BY <1>3 DEF Unread, UnreadOf
  <2>2. stream[1].head # NoHead
    BY <1>1, <1>2, <2>1 DEF WellFormed
  <2> QED BY <1>1, <1>2, <2>2 DEF Pieces
<1>5. Unread' = Unread
  BY <1>1, <1>2, <1>3, <1>4 DEF Unread, UnreadOf
<1>6. InFlight' = InFlight
  <2>1. InFlight' = Replies(Unread')
    BY DEF InFlight, Unread, UnreadOf
  <2> QED BY <1>5, <2>1, InFlightIsUnread
<1>7. TypeOK'
  BY <1>1, <1>2, <1>4 DEF ReaderInv, TypeOK, Pieces
<1>8. ReaderInv'
  BY <1>1, <1>5, <1>7 DEF ReaderInv
<1> QED BY <1>1, <1>6, <1>8 DEF ChannelStep

\* The end of a line: of text or the rest of a line, of the first line of
\* several, or of the line that ends the reply, which is then returned.  A last
\* line whose code is not the one waited for does not occur.
LEMMA ReadEndStep ==
    ReaderInv /\ ReadEnd => ReaderInv' /\ ChannelStep
<1> SUFFICES ASSUME ReaderInv, ReadEnd PROVE ReaderInv' /\ ChannelStep
  OBVIOUS
<1>1. /\ stream \in Seq(Pieces) /\ line \in Heads /\ WellFormed(Unread) /\ multi \in Codes \cup {None}
      /\ stream # <<>> /\ Head(stream).kind = "end" /\ reading
      /\ line' = NoHead /\ stream' = Tail(stream) /\ clock' = clock
      /\ reading /\ multi # None => Closed(Unread, 0, multi)
  BY DEF ReaderInv, TypeOK, Pieces, ReadEnd, Waiting
<1>2. /\ IF EndsReply(line)
         THEN Return(line.code, line.own) /\ UNCHANGED <<multi, start>>
         ELSE KeepWaiting
  BY DEF ReadEnd
<1>3. /\ Head(stream) = stream[1] /\ stream[1] \in Pieces /\ stream' \in Seq(Pieces)
      /\ stream = <<stream[1]>> \o stream' /\ 1 \in 1..Len(stream)
      /\ ~IsReply(stream[1]) /\ stream[1].kind = "end"
  BY <1>1 DEF IsReply
<1>4. Unread' = stream'
  BY <1>1 DEF Unread, UnreadOf
<1>5. Replies(stream) = Replies(stream')
  BY <1>3, RepliesOfCons
<1>6. InFlight' = Replies(stream')
  BY <1>1 DEF InFlight
<1>7. WellFormed(stream)
  <2>1. CASE line = NoHead
    BY <1>1, <2>1 DEF Unread, UnreadOf
  <2>2. CASE line # NoHead
    BY <1>1, <2>2, UnreadHead DEF Unread
  <2> QED BY <2>1, <2>2
<1>8. WellFormed(Unread')
  BY <1>1, <1>4, <1>7, WellFormedTail
<1>9. ASSUME NEW code, Closed(stream, 0, code) PROVE Closed(stream', 0, code)
  <2>1. \A i \in Nat : Closed(stream, i, code) => Closed(Tail(stream), IF i = 0 THEN 0 ELSE i - 1, code)
    BY <1>1, <1>3, ClosedTail
  <2>2. Closed(Tail(stream), IF 0 = 0 THEN 0 ELSE 0 - 1, code)
    BY <1>9, <2>1
  <2> QED BY <1>1, <2>2
<1>10. start' \in 0..(ClockWidth - 1) /\ clock' \in 0..(ClockWidth - 1)
  BY <1>1, <1>2 DEF ReaderInv, TypeOK, Return, KeepWaiting
<1>11. stream' \in Seq([kind: {"head", "end"}, head: Heads]) /\ line' \in Heads
  BY <1>1, <1>3 DEF Pieces, Heads
<1>12. CASE line = NoHead
  <2>1. ~EndsReply(line)
    BY <1>12 DEF EndsReply
  <2>2. UNCHANGED <<reading, reply, start>> /\ multi' = multi
    BY <1>2, <1>12, <2>1 DEF KeepWaiting
  <2>3. Unread = stream /\ InFlight = Replies(stream)
    BY <1>12 DEF Unread, UnreadOf, InFlight
  <2>4. reading' /\ multi' # None => Closed(Unread', 0, multi')
    BY <1>1, <1>4, <1>9, <2>2, <2>3
  <2>5. TypeOK'
    BY <1>10, <1>11, <2>2 DEF ReaderInv, TypeOK
  <2>6. ReaderInv'
    BY <1>1, <1>8, <2>4, <2>5 DEF ReaderInv
  <2> QED BY <1>5, <1>6, <2>2, <2>3, <2>6 DEF ChannelStep
<1>13. CASE line # NoHead /\ ~line.last
  <2>1. ~EndsReply(line)
    BY <1>13 DEF EndsReply
  <2>2. UNCHANGED <<reading, reply, start>> /\ multi' = line.code
    BY <1>2, <1>13, <2>1 DEF KeepWaiting
  <2>3. Closed(stream, 0, line.code) /\ line.code \in Codes
    BY <1>1, <1>13, UnreadHead DEF Unread
  <2>4. reading' /\ multi' # None => Closed(Unread', 0, multi')
    BY <1>4, <1>9, <2>2, <2>3
  <2>5. TypeOK'
    BY <1>10, <1>11, <2>2, <2>3 DEF ReaderInv, TypeOK
  <2>6. ReaderInv'
    BY <1>1, <1>8, <2>4, <2>5 DEF ReaderInv
  <2>7. InFlight = Replies(stream)
    BY <1>1, <1>13, UnreadReplies, InFlightIsUnread DEF Unread
  <2> QED BY <1>5, <1>6, <2>2, <2>6, <2>7 DEF ChannelStep
<1>14. CASE line # NoHead /\ line.last
  <2>1. multi \in {None, line.code}
    <3>1. SUFFICES ASSUME multi # None PROVE multi = line.code
      BY <1>1
    <3> DEFINE h == [kind |-> "head", head |-> line]
               u == Unread
    <3>2. u[1] = h /\ h.kind = "head" /\ h.head = line
      BY <1>1, <1>14, UnreadHead DEF Unread
    <3>3. Closed(u, 0, multi)
      BY <1>1, <3>1
    <3> HIDE DEF h, u
    <3>4. PICK j \in (0 + 1)..Len(u) :
            /\ IsReply(u[j]) /\ u[j].head.code = multi
            /\ \A k \in (0 + 1)..(j - 1) : u[k].kind = "end"
      BY <3>3 DEF Closed
    <3>5. j = 1
      <4>1. ASSUME j # 1 PROVE FALSE
        <5>1. 1 \in (0 + 1)..(j - 1)
          BY <4>1
        <5> QED BY <3>2, <3>4, <5>1
      <4> QED BY <4>1
    <3> QED BY <3>2, <3>4, <3>5
  <2>2. EndsReply(line)
    BY <1>14, <2>1 DEF EndsReply
  <2>3. /\ reading' = FALSE /\ reply' = [code |-> line.code, own |-> line.own]
        /\ multi' = multi
    BY <1>2, <2>2 DEF Return
  <2>4. line.code \in Codes /\ line.own \in BOOLEAN
    BY <1>1, <1>14 DEF Heads
  <2>5. TypeOK'
    <3>1. reply' \in [code: Codes \cup {Silence}, own: BOOLEAN]
      BY <2>3, <2>4
    <3> QED BY <1>1, <1>10, <1>11, <2>3, <3>1 DEF TypeOK
  <2>6. ReaderInv'
    BY <1>1, <1>8, <2>3, <2>5 DEF ReaderInv
  <2>7. /\ InFlight # <<>> /\ Tail(InFlight) = Replies(stream)
        /\ Head(InFlight).code = line.code /\ Head(InFlight).own = line.own
    BY <1>1, <1>14, UnreadReplies, InFlightIsUnread DEF Unread
  <2>8. Channel!Read
    <3> DEFINE e == [code |-> Head(InFlight).code, own |-> Head(InFlight).own,
                     rest |-> Tail(InFlight)]
    <3>1. e \in Channel!Reads(InFlight)
      BY <2>7, ChannelReadsHead
    <3>2. InFlight' = e.rest
      BY <1>5, <1>6, <2>7
    <3>3. reply' = [code |-> e.code, own |-> e.own]
      <4>1. e.code = line.code /\ e.own = line.own
        BY <2>7, Zenon
      <4> QED BY <2>3, <4>1, Zenon
    <3> QED BY <3>1, <3>2, <3>3, Zenon DEF Channel!Read
  <2> QED BY <2>6, <2>8 DEF ChannelStep, Channel!ChannelNext
<1> QED BY <1>12, <1>13, <1>14

\* A wait is given up: what has been read is forgotten.
LEMMA GiveUpStep ==
    ReaderInv /\ GiveUp => ReaderInv' /\ ChannelStep
<1> SUFFICES ASSUME ReaderInv, GiveUp PROVE ReaderInv' /\ ChannelStep
  OBVIOUS
<1> DEFINE g == AHead(Garbled.code, TRUE, FALSE)
           cut == <<g>> \o stream
<1>1. /\ stream \in Seq(Pieces) /\ line \in Heads /\ WellFormed(Unread)
      /\ line' = NoHead /\ reading' = FALSE /\ reply' = [code |-> Silence, own |-> TRUE]
      /\ UNCHANGED <<multi, start, clock>>
      /\ stream' = stream \/ (Cut /\ stream' = cut)
  BY DEF ReaderInv, TypeOK, Pieces, GiveUp, Return
<1>2. /\ g \in Pieces /\ g.kind = "head" /\ g.head # NoHead /\ g.head.last = TRUE
      /\ IsReply(g) /\ AsReply(g) = Garbled
  <2>1. Garbled.code \in Codes /\ Garbled = [own |-> FALSE, code |-> Garbled.code]
    BY DEF Garbled, Codes
  <2>2. \A a, b \in BOOLEAN :
          LET p == AHead(Garbled.code, a, b)
          IN  /\ p \in Pieces /\ p.kind = "head" /\ p.head # NoHead
              /\ AsReply(p) = [own |-> b, code |-> Garbled.code]
    BY <2>1, PieceTypes
  <2>3. /\ g \in Pieces /\ g.kind = "head" /\ g.head # NoHead /\ AsReply(g) = Garbled
    BY <2>1, <2>2, Zenon
  <2>4. g.head.last = TRUE /\ IsReply(g)
    BY DEF AHead, IsReply
  <2> HIDE DEF g
  <2> QED BY <2>3, <2>4
<1> HIDE DEF g, cut
<1>3. WellFormed(stream) /\ (line # NoHead => stream # <<>> /\ stream[1].kind = "end")
  <2>1. CASE line = NoHead
    BY <1>1, <2>1 DEF Unread, UnreadOf
  <2>2. CASE line # NoHead
    BY <1>1, <2>2, UnreadHead DEF Unread
  <2> QED BY <2>1, <2>2
<1>4. Unread' = stream' /\ InFlight' = Replies(stream')
  BY <1>1 DEF Unread, UnreadOf, InFlight
<1>5. cut \in Seq(Pieces) /\ Replies(cut) = <<Garbled>> \o Replies(stream)
  <2>1. cut \in Seq(Pieces)
    BY <1>1, <1>2 DEF cut
  <2>2. Replies(<<g>> \o stream) = <<AsReply(g)>> \o Replies(stream)
    BY <1>1, <1>2, RepliesOfCons
  <2> QED BY <1>2, <2>1, <2>2, Zenon DEF cut
<1>6. ASSUME Cut PROVE WellFormed(cut)
  <2>1. stream # <<>> /\ stream[1].kind = "end"
    <3>1. CASE line # NoHead
      BY <1>3, <3>1
    <3>2. CASE stream # <<>> /\ Head(stream) = End
      BY <3>2, PieceTypes
    <3> QED BY <1>6, <3>1, <3>2 DEF Cut
  <2>2. /\ Len(cut) = Len(stream) + 1 /\ Len(stream) \in Nat \ {0}
        /\ cut[1] = g /\ cut[2] = stream[1]
        /\ \A i \in 2..Len(cut) : cut[i] = stream[i - 1]
    BY <1>1, <1>2, <2>1 DEF cut
  <2>3. \A i \in Nat : \A code : Closed(stream, i, code) => Closed(cut, i + 1, code)
    <3>1. <<g>> \in Seq(Pieces) /\ Len(<<g>>) = 1
      BY <1>2
    <3>2. \A i \in Nat : \A code :
            Closed(stream, i, code) => Closed(<<g>> \o stream, i + Len(<<g>>), code)
      BY <1>1, <3>1, ClosedConcat
    <3> QED BY <3>1, <3>2 DEF cut
  <2>4. ASSUME NEW i \in 1..Len(cut), cut[i].kind = "head"
        PROVE  /\ cut[i].head # NoHead
               /\ i < Len(cut) /\ cut[i + 1].kind = "end"
               /\ ~cut[i].head.last => Closed(cut, i, cut[i].head.code)
    <3>1. CASE i = 1
      BY <1>2, <2>1, <2>2, <3>1
    <3>2. CASE i # 1
      <4> DEFINE n == i - 1
      <4>1. n \in 1..Len(stream) /\ cut[i] = stream[n] /\ n + 1 = i /\ n \in Nat
        BY <2>2, <3>2
      <4> HIDE DEF n
      <4>2. /\ stream[n].head # NoHead /\ n < Len(stream) /\ stream[n + 1].kind = "end"
            /\ ~stream[n].head.last => Closed(stream, n, stream[n].head.code)
        BY <1>3, <2>4, <4>1 DEF WellFormed
      <4>3. i < Len(cut) /\ cut[i + 1] = stream[n + 1]
        BY <2>2, <4>1, <4>2
      <4>4. ~stream[n].head.last => Closed(cut, i, stream[n].head.code)
        BY <2>3, <4>1, <4>2
      <4> QED BY <4>1, <4>2, <4>3, <4>4
    <3> QED BY <3>1, <3>2
  <2> QED BY <2>4 DEF WellFormed
<1>7. WellFormed(Unread') /\ stream' \in Seq(Pieces)
  BY <1>1, <1>3, <1>4, <1>5, <1>6
<1>8. TypeOK'
  <2>1. stream' \in Seq([kind: {"head", "end"}, head: Heads]) /\ line' \in Heads
    BY <1>1, <1>7 DEF Pieces, Heads
  <2>2. reply' \in [code: Codes \cup {Silence}, own: BOOLEAN]
    <3>1. \A b \in BOOLEAN : [code |-> Silence, own |-> b] \in [code: Codes \cup {Silence}, own: BOOLEAN]
      OBVIOUS
    <3> QED BY <1>1, <3>1, Zenon
  <2> QED BY <1>1, <2>1, <2>2 DEF ReaderInv, TypeOK
<1>9. ReaderInv'
  BY <1>1, <1>7, <1>8 DEF ReaderInv
<1>10. \/ InFlight' = InFlight
       \/ /\ InFlight # <<>>
          /\ InFlight' \in {Tail(InFlight), <<Garbled>> \o Tail(InFlight), <<Garbled>> \o InFlight}
  <2>1. CASE line = NoHead
    <3>1. InFlight = Replies(stream)
      BY <2>1 DEF InFlight
    <3>2. Cut => InFlight # <<>>
      BY <2>1 DEF Cut
    <3> QED BY <1>1, <1>4, <1>5, <3>1, <3>2
  <2>2. CASE line # NoHead /\ line.last
    <3>1. InFlight # <<>> /\ Tail(InFlight) = Replies(stream)
      BY <1>1, <2>2, UnreadReplies, InFlightIsUnread DEF Unread
    <3> QED BY <1>1, <1>4, <1>5, <3>1
  <2>3. CASE line # NoHead /\ ~line.last
    <3>1. InFlight = Replies(stream)
      BY <1>1, <2>3, UnreadReplies, InFlightIsUnread DEF Unread
    <3>2. Closed(stream, 0, line.code)
      BY <1>1, <2>3, UnreadHead DEF Unread
    <3>3. InFlight # <<>>
      BY <1>1, <3>1, <3>2, ClosedNotEmpty
    <3> QED BY <1>1, <1>4, <1>5, <3>1, <3>3
  <2> QED BY <2>1, <2>2, <2>3
<1>11. Channel!Read
  <2> DEFINE e == [code |-> Silence, own |-> TRUE, rest |-> InFlight']
  <2>1. e \in Channel!Reads(InFlight)
    BY <1>10, ChannelReads
  <2>2. e.code = Silence /\ e.own = TRUE /\ e.rest = InFlight'
    OBVIOUS
  <2>3. reply' = [code |-> e.code, own |-> e.own]
    BY <1>1, <2>2, Zenon
  <2> QED BY <2>1, <2>2, <2>3, Zenon DEF Channel!Read
<1> QED BY <1>9, <1>11 DEF ChannelStep, Channel!ChannelNext

-----------------------------------------------------------------------------

LEMMA ReaderSteps ==
    ReaderInv /\ [ReaderNext]_vars => ReaderInv' /\ ChannelStep
<1> SUFFICES ASSUME ReaderInv, [ReaderNext]_vars PROVE ReaderInv' /\ ChannelStep
  OBVIOUS
<1>1. CASE SendCommand
  BY <1>1, SendCommandStep
<1>2. CASE Text
  BY <1>2, TextStep
<1>3. CASE Call
  BY <1>3, CallStep
<1>4. CASE ReadHead
  BY <1>4, ReadHeadStep
<1>5. CASE ReadEnd
  BY <1>5, ReadEndStep
<1>6. CASE TimeUp \/ ConnectionFails
  BY <1>6, GiveUpStep DEF TimeUp, ConnectionFails
<1>7. CASE Tick
  BY <1>7, TickStep
<1>8. CASE UNCHANGED vars
  <2>1. UNCHANGED <<stream, reading, line, multi, reply, start, clock>>
    BY <1>8 DEF vars
  <2>2. TypeOK'
    BY <2>1 DEF ReaderInv, TypeOK
  <2>3. Unread' = Unread /\ InFlight' = InFlight
    BY <2>1 DEF Unread, UnreadOf, InFlight
  <2>4. ReaderInv'
    BY <2>1, <2>2, <2>3 DEF ReaderInv
  <2> QED BY <2>1, <2>3, <2>4 DEF ChannelStep
<1> QED BY <1>1, <1>2, <1>3, <1>4, <1>5, <1>6, <1>7, <1>8 DEF ReaderNext, Reader

\* The invariant: every line that is in flight is complete, and so is every
\* reply; the reader is at the start of a line or has read the head of one, and
\* waits for a code only if that reply's last line is what comes next.
THEOREM ReaderInvariant == ReaderSpec => []ReaderInv
<1>1. ReaderInit => ReaderInv
  BY NothingAtFirst
<1>2. ReaderInv /\ [ReaderNext]_vars => ReaderInv'
  BY ReaderSteps
<1> QED BY <1>1, <1>2, PTL DEF ReaderSpec

\* Type correctness.
THEOREM ReaderTypeCorrect == ReaderSpec => []TypeOK
<1>1. ReaderInv => TypeOK
  BY DEF ReaderInv
<1> QED BY <1>1, ReaderInvariant, PTL

\* Reading lines piece by piece implements reading whole replies: whatever the
\* layout of the replies, wherever waits are given up, and however many pieces
\* are in flight.
THEOREM ReaderImplementsChannel == ReaderSpec => ImplementsChannel
<1>1. ReaderInit => Channel!ChannelInit
  BY NothingAtFirst
<1>2. ReaderInv /\ [ReaderNext]_vars => [Channel!ChannelNext]_<<InFlight, reply>>
  BY ReaderSteps DEF ChannelStep
<1> QED BY <1>1, <1>2, ReaderInvariant, PTL DEF ReaderSpec, ImplementsChannel, Channel!ChannelSpec

=============================================================================

--------------------------- MODULE RequestsProofs ---------------------------
(***************************************************************************)
(* Proofs about Requests, for any clients, numbers, left-over bytes and    *)
(* capacities: the parser understands a whole request, whatever text       *)
(* follows it, and a task is always held in exactly one place.             *)
(***************************************************************************)
EXTENDS Requests, FiniteSetTheorems, SequenceTheorems, WellFoundedInduction, TLAPS

-----------------------------------------------------------------------------
(* Helpers                                                                 *)

\* A set of naturals has a least member, and Min is it.
LEMMA MinOfNaturals ==
    ASSUME NEW T \in SUBSET Nat, T # {}
    PROVE  Min(T) \in T /\ \A y \in T : Min(T) <= y
<1>1. PICK x \in T : \A y \in T : <<y, x>> \notin OpToRel(<, Nat)
  BY NatLessThanWellFounded, WFMin
<1>2. ASSUME NEW y \in T, y < x
      PROVE  <<y, x>> \in OpToRel(<, Nat)
  BY <1>2 DEF OpToRel
<1>3. \A y \in T : ~(y < x)
  BY <1>1, <1>2
<1>4. \A y \in T : x <= y
  BY <1>3
<1> QED BY <1>4 DEF Min

\* The characters that are digits.
LEMMA Digits == DOMAIN Digit = {"1", "2"} /\ \A d \in DOMAIN Digit : Digit[d] \in Nat
BY DEF Digit

\* One step of the number a text of digits is read as, which the recursive
\* function in Number repeats.
Reads(f, digits, n) ==
    f = [i \in 0 .. n |-> IF i = 0 THEN 0 ELSE f[i-1] * 10 + Digit[digits[i]]]

\* The recursive function in Number exists, and its values are naturals.
LEMMA NumberExists ==
    ASSUME NEW digits \in Seq(DOMAIN Digit)
    PROVE  \E f \in [0 .. Len(digits) -> Nat] : Reads(f, digits, Len(digits))
<1> DEFINE Bad == {n \in 0 .. Len(digits) : ~\E f \in [0 .. n -> Nat] : Reads(f, digits, n)}
<1>1. Len(digits) \in Nat /\ \A i \in 1 .. Len(digits) : Digit[digits[i]] \in Nat
  BY LenProperties, ElementOfSeq, Digits
<1>2. 0 \notin Bad
  <2> DEFINE f == [i \in 0 .. 0 |-> 0]
  <2>1. f \in [0 .. 0 -> Nat] /\ Reads(f, digits, 0)
    BY DEF Reads
  <2> QED BY <2>1
<1>3. ASSUME NEW n \in 1 .. Len(digits), n - 1 \notin Bad
      PROVE  n \notin Bad
  <2>1. PICK f \in [0 .. n - 1 -> Nat] : Reads(f, digits, n - 1)
    BY <1>1, <1>3
  <2>2. \A i \in 0 .. n - 1 : f[i] = IF i = 0 THEN 0 ELSE f[i-1] * 10 + Digit[digits[i]]
    BY <2>1 DEF Reads
  <2> DEFINE g == [i \in 0 .. n |-> IF i = n THEN f[n-1] * 10 + Digit[digits[n]] ELSE f[i]]
  <2>3. /\ Digit[digits[n]] \in Nat /\ f[n-1] \in Nat /\ n - 1 \in 0 .. n - 1
        /\ \A i \in 0 .. n : i # n => i \in 0 .. n - 1
    BY <1>1
  <2>4. g \in [0 .. n -> Nat]
    BY <2>3
  <2>5. \A i \in 0 .. n : g[i] = IF i = 0 THEN 0 ELSE g[i-1] * 10 + Digit[digits[i]]
    <3> TAKE i \in 0 .. n
    <3>1. CASE i = 0
      BY <3>1, <2>2, <1>1
    <3>2. CASE i # 0 /\ i # n
      <4>1. g[i] = f[i] /\ g[i-1] = f[i-1]
        BY <3>2
      <4> QED BY <4>1, <3>2, <2>2, <2>3
    <3>3. CASE i = n
      <4>1. g[n-1] = f[n-1] /\ n # 0
        BY <1>1
      <4> QED BY <4>1, <3>3
    <3> QED BY <3>1, <3>2, <3>3
  <2>6. Reads(g, digits, n)
    <3> HIDE DEF g
    <3> QED BY <2>4, <2>5 DEF Reads
  <2> QED BY <2>4, <2>6
<1>4. Bad = {}
  <2> SUFFICES ASSUME Bad # {} PROVE FALSE
    OBVIOUS
  <2>1. Bad \in SUBSET Nat
    BY <1>1
  <2>2. Min(Bad) \in Bad /\ \A n \in Bad : Min(Bad) <= n
    <3> HIDE DEF Bad
    <3> QED BY <2>1, MinOfNaturals
  <2> DEFINE m == Min(Bad)
  <2>3. m \in 0 .. Len(digits) /\ m # 0
    BY <2>2, <1>2
  <2>4. m - 1 \in Nat /\ ~(m <= m - 1) /\ m \in 1 .. Len(digits)
    <3> HIDE DEF m
    <3> QED BY <2>3, <1>1
  <2>5. m - 1 \notin Bad
    <3> HIDE DEF Bad
    <3> QED BY <2>2, <2>4
  <2> QED
    <3> HIDE DEF Bad
    <3> QED BY <2>2, <2>4, <2>5, <1>3
<1> QED BY <1>1, <1>4

\* The number a sequence of digits stands for is a natural.
LEMMA NumberIsNatural ==
    ASSUME NEW digits \in Seq(DOMAIN Digit)
    PROVE  Number(digits) \in Nat
<1> DEFINE f == CHOOSE g : Reads(g, digits, Len(digits))
           Bad == {i \in 0 .. Len(digits) : f[i] \notin Nat}
<1>1. Len(digits) \in Nat /\ \A i \in 1 .. Len(digits) : Digit[digits[i]] \in Nat
  BY LenProperties, ElementOfSeq, Digits
<1>2. Reads(f, digits, Len(digits))
  BY NumberExists
<1>3. Number(digits) = f[Len(digits)]
  BY DEF Number, Reads
<1> HIDE DEF f
<1>4. \A i \in 0 .. Len(digits) : f[i] = IF i = 0 THEN 0 ELSE f[i-1] * 10 + Digit[digits[i]]
  BY <1>2 DEF Reads
<1>5. Bad = {}
  <2> SUFFICES ASSUME Bad # {} PROVE FALSE
    OBVIOUS
  <2>1. Bad \in SUBSET Nat
    BY <1>1
  <2> DEFINE m == Min(Bad)
  <2>2. m \in Bad /\ \A n \in Bad : m <= n
    <3> HIDE DEF Bad
    <3> QED BY <2>1, MinOfNaturals
  <2> HIDE DEF m
  <2>3. m \in 0 .. Len(digits) /\ f[m] \notin Nat /\ m # 0
    BY <2>2, <1>4
  <2>4. m - 1 \in 0 .. Len(digits) /\ ~(m <= m - 1) /\ m \in 1 .. Len(digits)
    BY <2>3, <1>1
  <2>5. f[m-1] \in Nat
    BY <2>2, <2>4
  <2>6. f[m] = f[m-1] * 10 + Digit[digits[m]]
    BY <1>4, <2>3
  <2> QED BY <2>3, <2>4, <2>5, <2>6, <1>1
<1> QED BY <1>1, <1>3, <1>5

-----------------------------------------------------------------------------
(* The parser                                                              *)

\* What a value read wraps round to is an integer, and is the number itself up
\* to INT_MAX.
LEMMA ValueProperties ==
    ASSUME NEW digits \in Seq(DOMAIN Digit)
    PROVE  /\ Value(digits) \in Int
           /\ Number(digits) <= IntMax => Value(digits) = Number(digits)
<1> DEFINE n == Number(digits)
           m == 2 * IntMax + 2
<1>1. n \in Nat /\ IntMax \in Nat /\ IntMax > 0
  BY NumberIsNatural, RequestsAssumption
<1>2. Value(digits) = ((n + IntMax + 1) % m) - (IntMax + 1)
  BY DEF Value
<1> HIDE DEF n
<1>3. m \in Nat /\ m > 0 /\ n + IntMax + 1 \in Nat
  BY <1>1
<1>4. n <= IntMax => n + IntMax + 1 < m
  BY <1>1
<1>5. ASSUME NEW a \in Nat, NEW b \in Nat, b > 0
      PROVE  a % b \in 0 .. b - 1 /\ (a < b => a % b = a)
  BY <1>5
<1> HIDE DEF m
<1>6. /\ (n + IntMax + 1) % m \in Int
      /\ n <= IntMax => (n + IntMax + 1) % m = n + IntMax + 1
  BY <1>3, <1>4, <1>5
<1>7. Value(digits) \in Int
  BY <1>1, <1>2, <1>6
<1>8. n <= IntMax => Value(digits) = n
  BY <1>1, <1>2, <1>6
<1> QED BY <1>7, <1>8 DEF n

\* A text is any sequence of pieces.
Text == Seq(Piece)

\* A text that begins with another one has its pieces.
LEMMA PrefixElements ==
    ASSUME NEW S, NEW s \in Seq(S), NEW t \in Seq(S)
    PROVE  /\ IsPrefix(s, t) => Len(s) <= Len(t) /\ \A i \in 1 .. Len(s) : t[i] = s[i]
           /\ (Len(s) <= Len(t) /\ \A i \in 1 .. Len(s) : t[i] = s[i]) => IsPrefix(s, t)
<1>1. Len(s) \in Nat /\ Len(t) \in Nat
  BY LenProperties
<1>2. SUFFICES ASSUME Len(s) <= Len(t)
               PROVE  SubSeq(s, 1, Len(s)) = SubSeq(t, 1, Len(s))
                          <=> \A i \in 1 .. Len(s) : t[i] = s[i]
  BY DEF IsPrefix
<1>3. SubSeq(s, 1, Len(s)) = s
  BY SubSeqFull
<1>4. \A i \in 1 .. Len(s) : t[i] \in S
  BY <1>1, <1>2, ElementOfSeq
<1>5. /\ SubSeq(t, 1, Len(s)) \in Seq(S)
      /\ Len(SubSeq(t, 1, Len(s))) = Len(s)
      /\ \A i \in 1 .. Len(s) : SubSeq(t, 1, Len(s))[i] = t[i]
  <2>1. /\ SubSeq(t, 1, Len(s)) \in Seq(S)
        /\ Len(SubSeq(t, 1, Len(s))) = IF 1 <= Len(s) THEN Len(s) - 1 + 1 ELSE 0
        /\ \A i \in 1 .. Len(s) - 1 + 1 : SubSeq(t, 1, Len(s))[i] = t[1 + i - 1]
    BY <1>1, <1>4, SubSeqProperties
  <2>2. Len(s) - 1 + 1 = Len(s) /\ \A i \in 1 .. Len(s) : 1 + i - 1 = i
    BY <1>1
  <2> QED BY <2>1, <2>2, <1>1
<1>6. SubSeq(t, 1, Len(s)) = s <=> \A i \in 1 .. Len(s) : t[i] = s[i]
  BY <1>5, SeqEqual
<1> QED BY <1>3, <1>6

\* A text begins with two pieces if they are its first two.
LEMMA BeginsWithTwo ==
    ASSUME NEW text \in Text, NEW a \in Piece, NEW b \in Piece
    PROVE  IsPrefix(<<a, b>>, text) <=> Len(text) >= 2 /\ text[1] = a /\ text[2] = b
<1>1. text \in Seq(Piece)
  BY DEF Text
<1>2. Len(text) \in Nat
  BY <1>1, LenProperties
<1>3. <<a, b>> \in Seq(Piece) /\ Len(<<a, b>>) = 2
  OBVIOUS
<1>4. \A i \in 1 .. 2 : i = 1 \/ i = 2
  OBVIOUS
<1>5. <<a, b>>[1] = a /\ <<a, b>>[2] = b
  OBVIOUS
<1>6. (\A i \in 1 .. 2 : text[i] = <<a, b>>[i]) <=> text[1] = a /\ text[2] = b
  BY <1>4, <1>5
<1> DEFINE h == <<a, b>>
<1>7. h \in Seq(Piece) /\ Len(h) = 2
  BY <1>3
<1>8. (\A i \in 1 .. 2 : text[i] = h[i]) <=> text[1] = a /\ text[2] = b
  BY <1>6
<1> HIDE DEF h
<1>9. IsPrefix(h, text) <=> Len(h) <= Len(text) /\ \A i \in 1 .. Len(h) : text[i] = h[i]
  BY <1>1, <1>7, PrefixElements
<1>10. IsPrefix(h, text) <=> Len(text) >= 2 /\ text[1] = a /\ text[2] = b
  BY <1>2, <1>7, <1>8, <1>9
<1> QED BY <1>10 DEF h

\* A request is a query, a clear, or an acknowledgement with its digits.
LEMMA RequestCases ==
    ASSUME NEW r \in Request
    PROVE  \/ r.kind = "MSG_BIN_QUERY" /\ r.digits = <<>>
           \/ r.kind = "MSG_CLR_QUERY" /\ r.digits = <<>>
           \/ r.kind = "MSG_BIN_ACK" /\ r.digits \in Acks
BY DEF Request, Kinds

\* The pieces of an acknowledgement: its head, its digits and its end.
LEMMA AckPieces ==
    ASSUME NEW d \in Acks
    PROVE  LET p == <<"{BIN", "=">> \o d \o <<";}">> IN
           /\ d \in Seq(DOMAIN Digit) /\ Len(d) \in Nat /\ Len(d) > 0
           /\ p \in Seq(Piece) /\ Len(p) = Len(d) + 3
           /\ p[1] = "{BIN" /\ p[2] = "=" /\ p[Len(d) + 3] = ";}"
           /\ \A i \in 1 .. Len(d) : p[i + 2] = d[i]
<1> DEFINE h == <<"{BIN", "=">>
           e == <<";}">>
<1>1. d \in Seq(DOMAIN Digit) /\ d # <<>>
  BY RequestsAssumption
<1>2. d \in Seq(Piece)
  <2>1. DOMAIN Digit \subseteq Piece
    BY DEF Piece
  <2> QED BY <1>1, <2>1, SeqMonotonic
<1>3. Len(d) \in Nat /\ Len(d) > 0
  BY <1>1, EmptySeq
<1>4. /\ h \in Seq(Piece) /\ Len(h) = 2 /\ h[1] = "{BIN" /\ h[2] = "="
      /\ e \in Seq(Piece) /\ Len(e) = 1 /\ e[1] = ";}"
  BY DEF Piece
<1> HIDE DEF h, e
<1>5. /\ h \o d \in Seq(Piece) /\ Len(h \o d) = 2 + Len(d)
      /\ \A i \in 1 .. 2 + Len(d) : (h \o d)[i] = IF i <= 2 THEN h[i] ELSE d[i - 2]
  <2>1. /\ h \o d \in Seq(Piece) /\ Len(h \o d) = Len(h) + Len(d)
        /\ \A i \in 1 .. Len(h) + Len(d) :
              (h \o d)[i] = IF i <= Len(h) THEN h[i] ELSE d[i - Len(h)]
    BY <1>2, <1>4, ConcatProperties
  <2> QED BY <1>4, <2>1
<1>6. /\ (h \o d) \o e \in Seq(Piece) /\ Len((h \o d) \o e) = 3 + Len(d)
      /\ \A i \in 1 .. 3 + Len(d) :
            ((h \o d) \o e)[i] = IF i <= 2 + Len(d) THEN (h \o d)[i] ELSE e[i - (2 + Len(d))]
  <2>1. 2 + Len(d) + 1 = 3 + Len(d)
    BY <1>3
  <2> DEFINE g == h \o d
  <2>2. g \in Seq(Piece) /\ Len(g) = 2 + Len(d)
    BY <1>5
  <2> HIDE DEF g
  <2>3. /\ g \o e \in Seq(Piece) /\ Len(g \o e) = Len(g) + Len(e)
        /\ \A i \in 1 .. Len(g) + Len(e) :
              (g \o e)[i] = IF i <= Len(g) THEN g[i] ELSE e[i - Len(g)]
    BY <1>4, <2>2, ConcatProperties
  <2>4. /\ g \o e \in Seq(Piece) /\ Len(g \o e) = 3 + Len(d)
        /\ \A i \in 1 .. 3 + Len(d) :
              (g \o e)[i] = IF i <= 2 + Len(d) THEN g[i] ELSE e[i - (2 + Len(d))]
    BY <1>4, <2>1, <2>2, <2>3
  <2> QED BY <2>4 DEF g
<1>7. \A i \in 1 .. Len(d) : ((h \o d) \o e)[i + 2] = d[i]
  <2> TAKE i \in 1 .. Len(d)
  <2>1. i + 2 \in 1 .. 3 + Len(d) /\ i + 2 \in 1 .. 2 + Len(d)
        /\ ~(i + 2 <= 2) /\ i + 2 <= 2 + Len(d) /\ i + 2 - 2 = i
    BY <1>3
  <2> QED BY <1>5, <1>6, <2>1
<1>8. /\ 1 \in 1 .. 2 + Len(d) /\ 2 \in 1 .. 2 + Len(d) /\ Len(d) + 3 \in 1 .. 3 + Len(d)
      /\ 1 \in 1 .. 3 + Len(d) /\ 2 \in 1 .. 3 + Len(d)
      /\ 1 <= 2 + Len(d) /\ 2 <= 2 + Len(d)
      /\ ~(Len(d) + 3 <= 2 + Len(d)) /\ Len(d) + 3 - (2 + Len(d)) = 1
  BY <1>3
<1>9. ((h \o d) \o e)[1] = "{BIN" /\ ((h \o d) \o e)[2] = "="
      /\ ((h \o d) \o e)[Len(d) + 3] = ";}"
  <2>1. (h \o d)[1] = h[1] /\ (h \o d)[2] = h[2]
    BY <1>5, <1>8
  <2>2. ((h \o d) \o e)[1] = (h \o d)[1] /\ ((h \o d) \o e)[2] = (h \o d)[2]
    BY <1>6, <1>8
  <2>3. ((h \o d) \o e)[Len(d) + 3] = e[1]
    BY <1>6, <1>8
  <2> QED BY <1>4, <2>1, <2>2, <2>3
<1>10. Len((h \o d) \o e) = Len(d) + 3
  BY <1>3, <1>6
<1> QED BY <1>1, <1>3, <1>6, <1>7, <1>9, <1>10 DEF h, e

\* No digits stand for no number.
LEMMA NumberOfNone == Number(<<>>) = 0
<1> DEFINE f == CHOOSE g : Reads(g, <<>>, Len(<<>>))
<1>1. <<>> \in Seq(DOMAIN Digit) /\ Len(<<>>) = 0
  BY EmptySeq
<1>2. Reads(f, <<>>, Len(<<>>))
  BY <1>1, NumberExists
<1>3. Number(<<>>) = f[Len(<<>>)]
  BY DEF Number, Reads
<1> HIDE DEF f
<1>4. f[0] = 0
  BY <1>1, <1>2 DEF Reads
<1> QED BY <1>1, <1>3, <1>4

\* What a request is written as is a text.
LEMMA PiecesType ==
    ASSUME NEW r \in Request
    PROVE  Pieces(r) \in Seq(Piece)
<1>1. CASE r.kind = "MSG_BIN_QUERY"
  BY <1>1 DEF Pieces, Piece
<1>2. CASE r.kind = "MSG_CLR_QUERY"
  BY <1>2 DEF Pieces, Piece
<1>3. CASE r.kind = "MSG_BIN_ACK" /\ r.digits \in Acks
  BY <1>3, AckPieces DEF Pieces
<1> QED BY <1>1, <1>2, <1>3, RequestCases

\* The end of the digits from the third piece on: the first piece that is none.
LEMMA EndOfDigits ==
    ASSUME NEW text \in Seq(Piece)
    PROVE  LET n == SelectInSubSeq(text, 3, Len(text), LAMBDA p : p \notin DOMAIN Digit)
           IN  /\ n \in Nat
               /\ n > 3 => SubSeq(text, 3, n - 1) \in Seq(DOMAIN Digit)
               /\ \A m \in 3 .. Len(text) :
                     /\ text[m] \notin DOMAIN Digit
                     /\ \A i \in 3 .. m - 1 : text[i] \in DOMAIN Digit
                     => n = m
<1> DEFINE I == {i \in 3 .. Len(text) : text[i] \notin DOMAIN Digit}
           n == SelectInSubSeq(text, 3, Len(text), LAMBDA p : p \notin DOMAIN Digit)
<1>1. n = IF I # {} THEN Min(I) ELSE 0
  BY DEF SelectInSubSeq
<1>2. Len(text) \in Nat /\ I \in SUBSET Nat
  BY LenProperties
<1>3. I # {} => Min(I) \in I /\ \A i \in I : Min(I) <= i
  <2> HIDE DEF I
  <2> QED BY <1>2, MinOfNaturals
<1> HIDE DEF n
<1>4. n \in Nat
  <2> HIDE DEF I
  <2> QED BY <1>1, <1>2, <1>3
<1>5. ASSUME n > 3
      PROVE  SubSeq(text, 3, n - 1) \in Seq(DOMAIN Digit)
  <2>1. I # {} /\ n \in 3 .. Len(text) /\ \A i \in I : n <= i
    BY <1>1, <1>3, <1>5
  <2>2. \A i \in 3 .. n - 1 : i \in 3 .. Len(text) /\ ~(n <= i)
    BY <2>1, <1>2
  <2>3. \A i \in 3 .. n - 1 : text[i] \in DOMAIN Digit
    BY <2>1, <2>2
  <2>4. n - 1 \in Int
    BY <1>4
  <2> QED BY <2>3, <2>4, SubSeqProperties
<1>6. ASSUME NEW m \in 3 .. Len(text), text[m] \notin DOMAIN Digit,
             \A i \in 3 .. m - 1 : text[i] \in DOMAIN Digit
      PROVE  n = m
  <2>1. m \in I
    BY <1>6
  <2>2. n \in I /\ n <= m
    BY <2>1, <1>1, <1>3
  <2>3. n \in 3 .. Len(text) /\ text[n] \notin DOMAIN Digit
    BY <2>2
  <2>4. n \notin 3 .. m - 1
    BY <1>6, <2>3
  <2> QED BY <2>2, <2>3, <2>4, <1>2
<1> QED BY <1>4, <1>5, <1>6 DEF n

\* What the parser makes of any text: one of the three kinds of task or none of
\* them, and an integer.
LEMMA ParsedType ==
    ASSUME NEW text \in Seq(Piece)
    PROVE  parse_client_request(text) \in
               [type : Kinds \cup {"MSG_UNKNOWN"}, bincount : Int]
<1> DEFINE n == SelectInSubSeq(text, 3, Len(text), LAMBDA p : p \notin DOMAIN Digit)
           digits == SubSeq(text, 3, n - 1)
           Query == IsPrefix(<<"{BIN", "?;}">>, text)
           Clear == IsPrefix(<<"{CLR", "?;}">>, text)
           Ack == IsPrefix(<<"{BIN", "=">>, text) /\ n > 3 /\ text[n] = ";}"
           Result == CASE Query -> [type |-> "MSG_BIN_QUERY", bincount |-> 0]
                       [] Clear -> [type |-> "MSG_CLR_QUERY", bincount |-> 0]
                       [] Ack   -> [type |-> "MSG_BIN_ACK", bincount |-> Value(digits)]
                       [] OTHER -> Unknown
<1>1. parse_client_request(text) = Result
  BY DEF parse_client_request
<1>2. Ack => Value(digits) \in Int
  <2>1. n > 3 => digits \in Seq(DOMAIN Digit)
    BY EndOfDigits
  <2> HIDE DEF digits
  <2> QED BY <2>1, ValueProperties
<1> HIDE DEF Query, Clear, Ack, digits, n
<1>3. Result \in [type : Kinds \cup {"MSG_UNKNOWN"}, bincount : Int]
  BY <1>2 DEF Unknown, Kinds
<1> QED BY <1>1, <1>3

\* In a text that begins with an acknowledgement the digits end where its end
\* is, so they are the acknowledgement's.
LEMMA AckFound ==
    ASSUME NEW text \in Text, NEW d \in Acks
    PROVE  LET n == SelectInSubSeq(text, 3, Len(text), LAMBDA p : p \notin DOMAIN Digit)
           IN  IsPrefix(<<"{BIN", "=">> \o d \o <<";}">>, text) =>
               /\ Len(text) \in Nat /\ Len(text) > 2
               /\ text[1] = "{BIN" /\ text[2] = "="
               /\ n \in Nat /\ n > 3 /\ text[n] = ";}"
               /\ SubSeq(text, 3, n - 1) = d
<1> DEFINE n == SelectInSubSeq(text, 3, Len(text), LAMBDA p : p \notin DOMAIN Digit)
           digits == SubSeq(text, 3, n - 1)
           p == <<"{BIN", "=">> \o d \o <<";}">>
<1>1. text \in Seq(Piece)
  BY DEF Text
<1>2. Len(d) \in Nat /\ Len(d) > 0
  BY AckPieces
<1>3. d \in Seq(DOMAIN Digit)
  BY AckPieces
<1>4. /\ Len(p) = Len(d) + 3
      /\ p[1] = "{BIN" /\ p[2] = "=" /\ p[Len(d) + 3] = ";}"
      /\ \A i \in 1 .. Len(d) : p[i + 2] = d[i]
  BY AckPieces
<1>5. p \in Seq(Piece)
  BY AckPieces
<1> HIDE DEF p, n, digits
<1>6. SUFFICES ASSUME IsPrefix(p, text)
               PROVE  /\ Len(text) \in Nat /\ Len(text) > 2
                      /\ text[1] = "{BIN" /\ text[2] = "="
                      /\ n \in Nat /\ n > 3 /\ text[n] = ";}"
                      /\ digits = d
  BY DEF p, n, digits
<1>7. Len(p) <= Len(text) /\ \A i \in 1 .. Len(p) : text[i] = p[i]
  BY <1>1, <1>6, <1>5, PrefixElements
<1>8. Len(text) \in Nat
  BY <1>1, LenProperties
<1>9. /\ text[1] = "{BIN" /\ text[2] = "=" /\ text[Len(d) + 3] = ";}"
      /\ \A i \in 1 .. Len(d) : text[i + 2] = d[i]
  <2>1. /\ 1 \in 1 .. Len(p) /\ 2 \in 1 .. Len(p) /\ Len(d) + 3 \in 1 .. Len(p)
        /\ \A i \in 1 .. Len(d) : i + 2 \in 1 .. Len(p)
    <3>1. Len(p) = Len(d) + 3
      BY <1>4
    <3> QED BY <1>2, <3>1
  <2> QED BY <2>1, <1>4, <1>7
<1>10. Len(d) + 3 <= Len(text)
  BY <1>4, <1>7
<1>11. n \in Nat /\ (n > 3 => digits \in Seq(DOMAIN Digit))
  BY <1>1, EndOfDigits DEF n, digits
<1>12. n = Len(d) + 3
  <2>1. ";}" \notin DOMAIN Digit
    BY Digits
  <2>2. Len(d) + 3 \in 3 .. Len(text)
    BY <1>2, <1>8, <1>10
  <2>3. ASSUME NEW i \in 3 .. Len(d) + 3 - 1
        PROVE  text[i] \in DOMAIN Digit
    <3>1. i - 2 \in 1 .. Len(d) /\ i - 2 + 2 = i
      BY <1>2
    <3>2. d[i - 2] \in DOMAIN Digit
      BY <3>1, <1>3, ElementOfSeq
    <3> QED BY <3>1, <3>2, <1>9
  <2>4. \A m \in 3 .. Len(text) :
            /\ text[m] \notin DOMAIN Digit
            /\ \A i \in 3 .. m - 1 : text[i] \in DOMAIN Digit
            => n = m
    BY <1>1, EndOfDigits DEF n
  <2>5. text[Len(d) + 3] \notin DOMAIN Digit
    BY <1>9, <2>1
  <2> QED BY <2>2, <2>3, <2>4, <2>5
<1>13. /\ n - 1 = Len(d) + 2 /\ n - 1 \in Int /\ n > 3
       /\ n - 1 - 3 + 1 = Len(d) /\ 3 <= n - 1 /\ n - 1 <= Len(text)
       /\ \A i \in 1 .. Len(d) : 3 + i - 1 = i + 2
  BY <1>2, <1>8, <1>10, <1>12
<1>14. digits = d
  <2>1. digits \in Seq(DOMAIN Digit)
    BY <1>11, <1>13
  <2>2. \A i \in 3 .. n - 1 : text[i] \in Piece
    <3>1. \A i \in 3 .. n - 1 : i \in 1 .. Len(text)
      BY <1>8, <1>13
    <3> QED BY <3>1, <1>1, ElementOfSeq
  <2>3. /\ Len(digits) = IF 3 <= n - 1 THEN n - 1 - 3 + 1 ELSE 0
        /\ \A i \in 1 .. n - 1 - 3 + 1 : digits[i] = text[3 + i - 1]
    BY <1>13, <2>2, SubSeqProperties DEF digits
  <2>4. Len(digits) = Len(d) /\ \A i \in 1 .. Len(d) : digits[i] = d[i]
    BY <2>3, <1>13, <1>9
  <2> QED BY <2>1, <2>4, <1>3, SeqEqual
<1>15. text[n] = ";}"
  BY <1>9, <1>12
<1>16. Len(text) > 2
  BY <1>2, <1>8, <1>10
<1> QED BY <1>8, <1>9, <1>11, <1>13, <1>14, <1>15, <1>16

\* A text that begins with a whole request is understood for what it is, its
\* number right up to INT_MAX, whatever follows: more requests, part of one, or
\* what malloc left in the buffer.
LEMMA WholeRequestParsed ==
    ASSUME NEW text \in Text, NEW r \in Request, IsPrefix(Pieces(r), text)
    PROVE  LET t == parse_client_request(text) IN
           /\ t.type = r.kind
           /\ Number(r.digits) <= IntMax => t.bincount = Number(r.digits)
<1> DEFINE n == SelectInSubSeq(text, 3, Len(text), LAMBDA p : p \notin DOMAIN Digit)
           digits == SubSeq(text, 3, n - 1)
           Query == IsPrefix(<<"{BIN", "?;}">>, text)
           Clear == IsPrefix(<<"{CLR", "?;}">>, text)
           Ack == IsPrefix(<<"{BIN", "=">>, text) /\ n > 3 /\ text[n] = ";}"
           Result == CASE Query -> [type |-> "MSG_BIN_QUERY", bincount |-> 0]
                       [] Clear -> [type |-> "MSG_CLR_QUERY", bincount |-> 0]
                       [] Ack   -> [type |-> "MSG_BIN_ACK", bincount |-> Value(digits)]
                       [] OTHER -> Unknown
<1>1. parse_client_request(text) = Result
  BY DEF parse_client_request
<1>2. /\ Query => text[1] = "{BIN" /\ text[2] = "?;}"
      /\ Clear => text[1] = "{CLR" /\ text[2] = "?;}"
      /\ IsPrefix(<<"{BIN", "=">>, text)
             <=> Len(text) >= 2 /\ text[1] = "{BIN" /\ text[2] = "="
  <2>1. /\ "{BIN" \in Piece /\ "{CLR" \in Piece
        /\ "?;}" \in Piece /\ "=" \in Piece
    BY DEF Piece
  <2> QED BY <2>1, BeginsWithTwo
<1>3. Ack => text[1] = "{BIN" /\ text[2] = "="
  BY <1>2
<1>4. Number(<<>>) = 0
  BY NumberOfNone
<1>5. CASE r.kind = "MSG_BIN_QUERY"
  <2>1. Query /\ r.digits = <<>>
    BY <1>5, RequestCases DEF Pieces
  <2>2. ~Clear /\ ~Ack
    BY <2>1, <1>2, <1>3
  <2> HIDE DEF Query, Clear, Ack
  <2>3. Result = [type |-> "MSG_BIN_QUERY", bincount |-> 0]
    BY <2>1, <2>2
  <2> QED BY <1>1, <1>4, <1>5, <2>1, <2>3
<1>6. CASE r.kind = "MSG_CLR_QUERY"
  <2>1. Clear /\ r.digits = <<>>
    BY <1>6, RequestCases DEF Pieces
  <2>2. ~Query /\ ~Ack
    BY <2>1, <1>2, <1>3
  <2> HIDE DEF Query, Clear, Ack
  <2>3. Result = [type |-> "MSG_CLR_QUERY", bincount |-> 0]
    BY <2>1, <2>2
  <2> QED BY <1>1, <1>4, <1>6, <2>1, <2>3
<1>7. CASE r.kind = "MSG_BIN_ACK" /\ r.digits \in Acks
  <2> DEFINE d == r.digits
  <2>1. /\ Len(text) \in Nat /\ Len(text) > 2
        /\ text[1] = "{BIN" /\ text[2] = "="
        /\ n \in Nat /\ n > 3 /\ text[n] = ";}" /\ digits = d
    BY <1>7, AckFound DEF Pieces
  <2>2. d \in Seq(DOMAIN Digit)
    BY <1>7, AckPieces
  <2> HIDE DEF n, digits
  <2>3. IsPrefix(<<"{BIN", "=">>, text)
    <3>1. Len(text) \in Nat /\ Len(text) > 2
      BY <2>1
    <3>2. Len(text) >= 2
      BY <3>1
    <3> QED BY <3>2, <2>1, <1>2
  <2>4. Ack
    BY <2>1, <2>3
  <2>5. ~Query /\ ~Clear
    BY <1>2, <2>1
  <2> HIDE DEF Query, Clear, Ack, d
  <2>6. Result = [type |-> "MSG_BIN_ACK", bincount |-> Value(digits)]
    BY <2>4, <2>5
  <2>7. Number(d) <= IntMax => Value(digits) = Number(d)
    BY <2>1, <2>2, ValueProperties
  <2> QED BY <1>1, <1>7, <2>6, <2>7 DEF d
<1> QED BY <1>5, <1>6, <1>7, RequestCases

-----------------------------------------------------------------------------
(* What is read                                                            *)

\* Two texts after one another are a text, and one that begins with what the
\* first begins with.
LEMMA JoinTwo ==
    ASSUME NEW t \in Text, NEW u \in Text
    PROVE  /\ t \o u \in Text
           /\ \A s \in Seq(Piece) : IsPrefix(s, t) => IsPrefix(s, t \o u)
<1>1. t \in Seq(Piece) /\ u \in Seq(Piece)
  BY DEF Text
<1>2. /\ t \o u \in Seq(Piece) /\ Len(t \o u) = Len(t) + Len(u)
      /\ \A i \in 1 .. Len(t) + Len(u) :
            (t \o u)[i] = IF i <= Len(t) THEN t[i] ELSE u[i - Len(t)]
  BY <1>1, ConcatProperties
<1>3. Len(t) \in Nat /\ Len(u) \in Nat
  BY <1>1, LenProperties
<1>4. ASSUME NEW s \in Seq(Piece), IsPrefix(s, t)
      PROVE  IsPrefix(s, t \o u)
  <2>1. Len(s) <= Len(t) /\ \A i \in 1 .. Len(s) : t[i] = s[i]
    BY <1>1, <1>4, PrefixElements
  <2>2. Len(s) \in Nat
    BY LenProperties
  <2>3. Len(s) <= Len(t \o u) /\ \A i \in 1 .. Len(s) : i \in 1 .. Len(t) + Len(u) /\ i <= Len(t)
    BY <1>2, <1>3, <2>1, <2>2
  <2>4. \A i \in 1 .. Len(s) : (t \o u)[i] = s[i]
    BY <1>2, <2>1, <2>3
  <2> QED BY <1>2, <2>3, <2>4, PrefixElements
<1> QED BY <1>2, <1>4 DEF Text

\* What the recursive function in FlattenSeq repeats: one text after another.
Joins(f, seqs, n) ==
    f = [i \in 1 .. n |-> IF i = 1 THEN seqs[i] ELSE f[i-1] \o seqs[i]]

\* The recursive function in FlattenSeq exists.
LEMMA JoinExists ==
    ASSUME NEW seqs \in Seq(Text)
    PROVE  \E f : Joins(f, seqs, Len(seqs))
<1> DEFINE Bad == {n \in 0 .. Len(seqs) : ~\E f : Joins(f, seqs, n)}
<1>1. Len(seqs) \in Nat
  BY LenProperties
<1>2. 0 \notin Bad
  <2> DEFINE f == [i \in 1 .. 0 |-> seqs[1]]
  <2>1. Joins(f, seqs, 0)
    <3>1. 1 .. 0 = {}
      OBVIOUS
    <3> QED BY <3>1 DEF Joins
  <2> QED BY <2>1
<1>3. ASSUME NEW n \in 1 .. Len(seqs), n - 1 \notin Bad
      PROVE  n \notin Bad
  <2>1. PICK f : Joins(f, seqs, n - 1)
    BY <1>1, <1>3
  <2>2. \A i \in 1 .. n - 1 : f[i] = IF i = 1 THEN seqs[i] ELSE f[i-1] \o seqs[i]
    BY <2>1 DEF Joins
  <2> DEFINE g == [i \in 1 .. n |-> IF i = n /\ n # 1 THEN f[n-1] \o seqs[n]
                                    ELSE IF i = n THEN seqs[n] ELSE f[i]]
  <2>3. n \in Nat /\ n > 0 /\ \A i \in 1 .. n : i # n => i \in 1 .. n - 1
    BY <1>1
  <2>4. \A i \in 1 .. n : g[i] = IF i = 1 THEN seqs[i] ELSE g[i-1] \o seqs[i]
    <3> TAKE i \in 1 .. n
    <3>1. CASE i = n /\ n = 1
      BY <3>1
    <3>2. CASE i = n /\ n # 1
      <4>1. n - 1 \in 1 .. n /\ n - 1 # n
        BY <2>3, <3>2
      <4>2. g[n-1] = f[n-1]
        BY <4>1
      <4> QED BY <4>2, <3>2
    <3>3. CASE i # n /\ i = 1
      BY <3>3, <2>2, <2>3
    <3>4. CASE i # n /\ i # 1
      <4>1. i - 1 \in 1 .. n /\ i - 1 # n /\ i \in 1 .. n - 1
        BY <2>3, <3>4
      <4>2. g[i-1] = f[i-1] /\ g[i] = f[i]
        BY <4>1, <3>4
      <4>3. f[i] = f[i-1] \o seqs[i]
        BY <4>1, <2>2, <3>4
      <4> QED BY <4>2, <4>3, <3>4
    <3> QED BY <3>1, <3>2, <3>3, <3>4
  <2>5. g = [i \in 1 .. n |-> g[i]]
    OBVIOUS
  <2>6. Joins(g, seqs, n)
    <3> HIDE DEF g
    <3> QED BY <2>4, <2>5 DEF Joins
  <2> QED BY <2>6
<1>4. Bad = {}
  <2> SUFFICES ASSUME Bad # {} PROVE FALSE
    OBVIOUS
  <2>1. Bad \in SUBSET Nat
    BY <1>1
  <2> DEFINE m == Min(Bad)
  <2>2. m \in Bad /\ \A n \in Bad : m <= n
    <3> HIDE DEF Bad
    <3> QED BY <2>1, MinOfNaturals
  <2> HIDE DEF m
  <2>3. m \in 0 .. Len(seqs) /\ m # 0
    BY <2>2, <1>2
  <2>4. m - 1 \in Nat /\ ~(m <= m - 1) /\ m \in 1 .. Len(seqs)
    BY <2>3, <1>1
  <2>5. m - 1 \notin Bad
    <3> HIDE DEF Bad
    <3> QED BY <2>2, <2>4
  <2> QED
    <3> HIDE DEF Bad
    <3> QED BY <2>2, <2>4, <2>5, <1>3
<1> QED BY <1>1, <1>4

\* The requests read one after another are a text.
LEMMA FlattenType ==
    ASSUME NEW seqs \in Seq(Text)
    PROVE  FlattenSeq(seqs) \in Text
<1> DEFINE f == CHOOSE g : Joins(g, seqs, Len(seqs))
           Bad == {i \in 1 .. Len(seqs) : f[i] \notin Text}
<1>1. Len(seqs) \in Nat
  BY LenProperties
<1>2. \A i \in 1 .. Len(seqs) : seqs[i] \in Text
  BY ElementOfSeq
<1>3. Joins(f, seqs, Len(seqs))
  BY JoinExists
<1>4. FlattenSeq(seqs) = IF Len(seqs) = 0 THEN seqs ELSE f[Len(seqs)]
  BY DEF FlattenSeq, Joins
<1> HIDE DEF f
<1>5. \A i \in 1 .. Len(seqs) : f[i] = IF i = 1 THEN seqs[i] ELSE f[i-1] \o seqs[i]
  BY <1>3 DEF Joins
<1>6. Bad = {}
  <2> SUFFICES ASSUME Bad # {} PROVE FALSE
    OBVIOUS
  <2>1. Bad \in SUBSET Nat
    BY <1>1
  <2> DEFINE m == Min(Bad)
  <2>2. m \in Bad /\ \A n \in Bad : m <= n
    <3> HIDE DEF Bad
    <3> QED BY <2>1, MinOfNaturals
  <2> HIDE DEF m
  <2>3. m \in 1 .. Len(seqs) /\ f[m] \notin Text /\ m # 1
    BY <2>2, <1>2, <1>5
  <2>4. m - 1 \in 1 .. Len(seqs) /\ ~(m <= m - 1)
    BY <2>3, <1>1
  <2>5. f[m-1] \in Text
    BY <2>2, <2>4
  <2>6. f[m] = f[m-1] \o seqs[m]
    BY <1>5, <2>3
  <2> QED BY <2>3, <2>5, <2>6, <1>2, JoinTwo
<1>7. CASE Len(seqs) = 0
  <2>1. seqs = <<>>
    BY <1>7, EmptySeq
  <2>2. <<>> \in Text
    BY EmptySeq DEF Text
  <2> QED BY <1>4, <1>7, <2>1, <2>2
<1>8. CASE Len(seqs) # 0
  <2>1. Len(seqs) \in 1 .. Len(seqs)
    BY <1>1, <1>8
  <2> QED BY <1>4, <1>6, <1>8, <2>1
<1> QED BY <1>7, <1>8

-----------------------------------------------------------------------------
(* What the steps keep: types, and messages that begin as they should      *)

Fds == Clients \cup {NoMsg.fd}
Firsts == Request \cup {NoRequest}
Message == [fd : Clients, text : Text, first : Firsts]
Task == [id : Ids \cup {0}, fd : Fds, type : Kinds \cup {"MSG_UNKNOWN"}, bincount : Int]

\* The states of worker_loop.
WorkerStates == [at : {"pop", "push", "log"}, waits : BOOLEAN,
                 msg : [fd : Fds, first : Firsts], task : Task]
WorkerType == worker \in WorkerStates
TypeInv ==
    /\ stream \in [Clients -> Seq(Text)]
    /\ recv_q \in Seq(Message)
    /\ WorkerType
    /\ tasks \in [Kinds -> Seq(Task)]
    /\ handler \in [Kinds -> SUBSET Task]
    /\ live \in SUBSET Ids

\* A message marked with the request it begins with does begin with it.
Begins(msg) == msg.first # NoRequest => IsPrefix(Pieces(msg.first), msg.text)
MessagesBegin == \A i \in 1 .. Len(recv_q) : Begins(recv_q[i])

\* The request a text is marked with is one, and begins the text.
LEMMA FirstBegins ==
    ASSUME NEW text
    PROVE  /\ First(text) \in Firsts
           /\ First(text) # NoRequest =>
                  First(text) \in Request /\ IsPrefix(Pieces(First(text)), text)
<1>1. CASE \E r \in Request : IsPrefix(Pieces(r), text)
  <2>1. First(text) = CHOOSE r \in Request : IsPrefix(Pieces(r), text)
    BY <1>1 DEF First
  <2>2. First(text) \in Request /\ IsPrefix(Pieces(First(text)), text)
    BY <1>1, <2>1
  <2> QED BY <2>2 DEF Firsts
<1>2. CASE ~\E r \in Request : IsPrefix(Pieces(r), text)
  BY <1>2 DEF First, Firsts
<1> QED BY <1>1, <1>2

\* What is sent is a text.
LEMMA PiecesAreText == ASSUME NEW r \in Request PROVE Pieces(r) \in Text
BY PiecesType DEF Text

\* Pieces cut out of a text are a text.
LEMMA CutType ==
    ASSUME NEW t \in Text, NEW a \in Int, NEW b \in Int, a >= 1, b <= Len(t)
    PROVE  SubSeq(t, a, b) \in Text
<1>1. t \in Seq(Piece) /\ Len(t) \in Nat
  BY LenProperties DEF Text
<1>2. \A i \in a .. b : i \in 1 .. Len(t)
  <2>1. Len(t) \in Nat
    BY <1>1
  <2> QED BY <2>1
<1>3. \A i \in a .. b : t[i] \in Piece
  BY <1>1, <1>2, ElementOfSeq
<1>4. SubSeq(t, a, b) \in Seq(Piece)
  BY <1>3, SubSeqProperties
<1> QED BY <1>4 DEF Text

\* Texts cut out of a stream are a stream.
LEMMA CutStreamType ==
    ASSUME NEW s \in Seq(Text), NEW a \in Int, NEW b \in Int, a >= 1, b <= Len(s)
    PROVE  SubSeq(s, a, b) \in Seq(Text)
<1>1. Len(s) \in Nat
  BY LenProperties
<1>2. \A i \in a .. b : i \in 1 .. Len(s)
  BY <1>1
<1>3. \A i \in a .. b : s[i] \in Text
  BY <1>2, ElementOfSeq
<1> QED BY <1>3, SubSeqProperties

\* A read takes texts from the stream and leaves texts in it; the message is
\* marked with the request it begins with.
LEMMA ReadKeeps ==
    ASSUME TypeInv, MessagesBegin,
           NEW c \in Clients, NEW stale \in Stale, NEW n \in 0 .. Len(stream[c]),
           NEW cut \in 0 .. (IF n = Len(stream[c]) THEN 0 ELSE Len(stream[c][n+1]) - 1),
           Read(c, n, cut, stale)
    PROVE  /\ stream' \in [Clients -> Seq(Text)]
           /\ recv_q' \in Seq(Message)
           /\ MessagesBegin'
<1> DEFINE s == stream[c]
           whole == FlattenSeq(SubSeq(s, 1, n))
           part == IF cut = 0 THEN <<>> ELSE SubSeq(s[n+1], 1, cut)
           rest == IF cut = 0 THEN SubSeq(s, n + 1, Len(s))
                   ELSE <<SubSeq(s[n+1], cut + 1, Len(s[n+1]))>> \o SubSeq(s, n + 2, Len(s))
           msg == [fd |-> c, text |-> whole \o part \o stale, first |-> First(whole)]
<1>1. /\ cut > 0 => n < Len(s) /\ cut < Len(s[n+1])
      /\ stream' = [stream EXCEPT ![c] = rest]
      /\ recv_q' = Append(recv_q, msg)
  BY DEF Read
<1>2. s \in Seq(Text) /\ Len(s) \in Nat
  BY LenProperties DEF TypeInv
<1>3. n \in Nat /\ n <= Len(s) /\ cut \in Int /\ cut >= 0
  <2>1. Len(s) \in Nat
    BY <1>2
  <2>2. n \in Nat /\ n <= Len(s)
    BY <2>1
  <2>3. cut \in Int /\ cut >= 0
    OBVIOUS
  <2> QED BY <2>2, <2>3
<1>4. cut > 0 => s[n+1] \in Text /\ Len(s[n+1]) \in Nat
  <2>1. Len(s) \in Nat
    BY <1>2
  <2>2. cut > 0 => n + 1 \in 1 .. Len(s)
    BY <1>1, <1>3, <2>1
  <2>3. cut > 0 => s[n+1] \in Text
    BY <1>2, <2>2, ElementOfSeq
  <2>4. \A t \in Text : Len(t) \in Nat
    BY LenProperties DEF Text
  <2> QED BY <2>3, <2>4
<1>5. stale \in Text /\ <<>> \in Text
  BY RequestsAssumption, EmptySeq DEF Text
<1> HIDE DEF s
<1>6. SubSeq(s, 1, n) \in Seq(Text)
  BY <1>2, <1>3, CutStreamType
<1>7. whole \in Text
  BY <1>6, FlattenType
<1>8. part \in Text
  <2>1. CASE cut = 0
    BY <2>1, <1>5
  <2>2. CASE cut # 0
    <3>1. cut > 0 /\ cut <= Len(s[n+1])
      BY <2>2, <1>1, <1>3, <1>4
    <3>2. SubSeq(s[n+1], 1, cut) \in Text
      BY <3>1, <1>3, <1>4, CutType
    <3> QED BY <2>2, <3>2
  <2> QED BY <2>1, <2>2
<1>9. rest \in Seq(Text)
  <2>1. CASE cut = 0
    <3>1. n + 1 \in Int /\ n + 1 >= 1 /\ Len(s) <= Len(s)
      BY <1>2, <1>3
    <3>2. SubSeq(s, n + 1, Len(s)) \in Seq(Text)
      BY <3>1, <1>2, CutStreamType
    <3> QED BY <2>1, <3>2
  <2>2. CASE cut # 0
    <3>1. cut > 0
      BY <2>2, <1>3
    <3>2. cut + 1 \in Int /\ cut + 1 >= 1 /\ Len(s[n+1]) <= Len(s[n+1])
      BY <3>1, <1>3, <1>4
    <3>3. SubSeq(s[n+1], cut + 1, Len(s[n+1])) \in Text
      BY <3>1, <3>2, <1>4, CutType
    <3>4. n + 2 \in Int /\ n + 2 >= 1 /\ Len(s) <= Len(s)
      BY <1>2, <1>3
    <3>5. SubSeq(s, n + 2, Len(s)) \in Seq(Text)
      BY <3>4, <1>2, CutStreamType
    <3>6. ASSUME NEW t \in Text, NEW u \in Seq(Text)
          PROVE  <<t>> \o u \in Seq(Text)
      <4>1. <<t>> \in Seq(Text)
        OBVIOUS
      <4> QED BY <4>1, ConcatProperties
    <3> QED BY <2>2, <3>3, <3>5, <3>6
  <2> QED BY <2>1, <2>2
<1>10. (whole \o part) \o stale \in Text
  BY <1>5, <1>7, <1>8, JoinTwo
<1>11. msg \in Message /\ Begins(msg)
  <2>1. First(whole) # NoRequest =>
            First(whole) \in Request /\ IsPrefix(Pieces(First(whole)), whole)
    BY FirstBegins
  <2>2. First(whole) \in Firsts
    BY FirstBegins
  <2> HIDE DEF whole, part
  <2>3. First(whole) # NoRequest => IsPrefix(Pieces(First(whole)), (whole \o part) \o stale)
    <3>1. First(whole) \in Request => Pieces(First(whole)) \in Seq(Piece)
      BY PiecesType
    <3>2. whole \o part \in Text
      BY <1>7, <1>8, JoinTwo
    <3> QED BY <2>1, <3>1, <3>2, <1>5, <1>7, <1>8, JoinTwo
  <2> QED BY <2>2, <2>3, <1>10 DEF Message, Begins
<1> HIDE DEF msg, rest
<1>12. stream' \in [Clients -> Seq(Text)]
  BY <1>1, <1>9 DEF TypeInv
<1>13. recv_q \in Seq(Message)
  BY DEF TypeInv
<1>14. recv_q' \in Seq(Message)
  BY <1>1, <1>11, <1>13, AppendProperties
<1>15. MessagesBegin'
  <2>1. /\ Len(recv_q') = Len(recv_q) + 1 /\ recv_q'[Len(recv_q) + 1] = msg
        /\ \A i \in 1 .. Len(recv_q) : recv_q'[i] = recv_q[i]
    BY <1>1, <1>11, <1>13, AppendProperties
  <2>2. Len(recv_q) \in Nat
    BY <1>13, LenProperties
  <2>3. \A i \in 1 .. Len(recv_q) + 1 : i \in 1 .. Len(recv_q) \/ i = Len(recv_q) + 1
    BY <2>2
  <2>4. \A i \in 1 .. Len(recv_q) + 1 : Begins(recv_q'[i])
    BY <2>1, <2>3, <1>11 DEF MessagesBegin
  <2> QED BY <2>1, <2>4 DEF MessagesBegin
<1> QED BY <1>12, <1>14, <1>15

\* The worker's next message becomes a task with a number nobody holds; the
\* task is what the message's first request asks for.
LEMMA PopKeeps ==
    ASSUME TypeInv, MessagesBegin, Ids \ live # {}, WorkerPop
    PROVE  /\ WorkerType' /\ WholeRequestUnderstood'
           /\ recv_q' \in Seq(Message) /\ MessagesBegin'
           /\ worker'.at = "push" /\ worker'.task.id \in Ids \ live
           /\ live' = live \cup {worker'.task.id}
<1> DEFINE msg == Head(recv_q)
           parsed == parse_client_request(msg.text)
           id == Min(Ids \ live)
           task == [id |-> id, fd |-> msg.fd,
                    type |-> parsed.type, bincount |-> parsed.bincount]
<1>1. recv_q \in Seq(Message) /\ recv_q # <<>>
  BY DEF TypeInv, WorkerPop
<1>2. /\ msg \in Message /\ Tail(recv_q) \in Seq(Message)
      /\ Len(Tail(recv_q)) = Len(recv_q) - 1
      /\ \A i \in 1 .. Len(Tail(recv_q)) : Tail(recv_q)[i] = recv_q[i+1]
  BY <1>1, HeadTailProperties
<1>3. Len(recv_q) \in Nat /\ Len(recv_q) > 0
  BY <1>1, EmptySeq
<1>4. msg = recv_q[1]
  BY <1>1
<1>5. Begins(msg)
  <2>1. 1 \in 1 .. Len(recv_q)
    BY <1>3
  <2> QED BY <2>1, <1>4 DEF MessagesBegin
<1>6. recv_q' = Tail(recv_q)
  BY DEF WorkerPop
<1>7. MessagesBegin'
  <2>1. \A i \in 1 .. Len(Tail(recv_q)) : i + 1 \in 1 .. Len(recv_q)
    BY <1>2, <1>3
  <2>2. \A i \in 1 .. Len(Tail(recv_q)) : Begins(Tail(recv_q)[i])
    BY <1>2, <2>1 DEF MessagesBegin
  <2> QED BY <1>6, <2>2 DEF MessagesBegin
<1>8. id \in Ids \ live
  <2> DEFINE Free == Ids \ live
  <2>1. Free \in SUBSET Nat /\ Free # {}
    BY RequestsAssumption DEF Ids
  <2> HIDE DEF Free
  <2>2. Min(Free) \in Free
    BY <2>1, MinOfNaturals
  <2> QED BY <2>2 DEF Free
<1>9. /\ worker' = [at |-> "push", waits |-> FALSE,
                    msg |-> [fd |-> msg.fd, first |-> msg.first], task |-> task]
      /\ live' = live \cup {task.id}
  BY DEF WorkerPop
<1> HIDE DEF msg, id
<1>10. msg.fd \in Clients /\ msg.text \in Text /\ msg.first \in Firsts
  BY <1>2 DEF Message
<1>11. parsed \in [type : Kinds \cup {"MSG_UNKNOWN"}, bincount : Int]
  BY <1>10, ParsedType DEF Text
<1>12. msg.first # NoRequest =>
           /\ msg.first \in Request
           /\ parsed.type = msg.first.kind
           /\ Number(msg.first.digits) <= IntMax => parsed.bincount = Number(msg.first.digits)
  <2>1. msg.first # NoRequest => msg.first \in Request /\ IsPrefix(Pieces(msg.first), msg.text)
    BY <1>5, <1>10 DEF Begins, Firsts
  <2> QED BY <2>1, <1>10, WholeRequestParsed
<1> HIDE DEF parsed
<1>13. task \in Task
  BY <1>8, <1>10, <1>11 DEF Task, Fds
<1>14. WorkerType'
  <2> HIDE DEF task
  <2>1. worker' \in WorkerStates
    BY <1>9, <1>10, <1>13 DEF WorkerStates, Fds
  <2> QED BY <2>1 DEF WorkerType, WorkerStates, Fds, Firsts, Task, Request, Ids, NoMsg
<1>15. WholeRequestUnderstood'
  <2>1. /\ worker'.msg.first = msg.first /\ worker'.msg.fd = msg.fd
        /\ worker'.task = task
    BY <1>9
  <2>2. task.fd = msg.fd /\ task.type = parsed.type /\ task.bincount = parsed.bincount
    OBVIOUS
  <2> HIDE DEF task
  <2> QED BY <2>1, <2>2, <1>12 DEF WholeRequestUnderstood
<1>16. worker'.at = "push" /\ worker'.task.id = id /\ task.id = id
  BY <1>9
<1> QED BY <1>2, <1>6, <1>7, <1>8, <1>9, <1>14, <1>15, <1>16

-----------------------------------------------------------------------------
(* Who holds a task                                                        *)

\* The numbers of the tasks in a queue, and whether each is in it once.
IdsIn(q) == {q[i].id : i \in 1 .. Len(q)}
Once(q) == \A i, j \in 1 .. Len(q) : q[i].id = q[j].id => i = j

Queued(k)  == IdsIn(tasks[k])
Handled(k) == {t.id : t \in handler[k]}
Pushing    == IF worker.at = "push" THEN {worker.task.id} ELSE {}
Busy       == UNION {handler[k] : k \in Kinds}

\* The worker, a queue and a handler never hold the same task, nor do two
\* queues or two handlers.
Apart ==
    /\ \A k \in Kinds : Pushing \cap Queued(k) = {} /\ Pushing \cap Handled(k) = {}
    /\ \A k, l \in Kinds : Queued(k) \cap Handled(l) = {}
    /\ \A k, l \in Kinds : k # l => /\ Queued(k) \cap Queued(l) = {}
                                    /\ Handled(k) \cap Handled(l) = {}

\* What is allocated is what one of them holds.
Owned == live = Pushing \cup UNION {Queued(k) \cup Handled(k) : k \in Kinds}

QueuesHold == \A k \in Kinds : Once(tasks[k]) /\ Len(tasks[k]) <= TaskCap
HandlersHold == \A k \in Kinds : handler[k] = {} \/ \E t \in handler[k] : handler[k] = {t}
Counted == /\ IsFiniteSet(live) /\ IsFiniteSet(Busy)
           /\ Cardinality(live) = Places

OwnerInv == Apart /\ Owned /\ QueuesHold /\ HandlersHold /\ Counted

\* The inductive invariant.
RequestsInv == TypeInv /\ MessagesBegin /\ WholeRequestUnderstood /\ OwnerInv

\* A task appended to a queue that does not hold it is in it once.
LEMMA IdsOfAppend ==
    ASSUME NEW q \in Seq(Task), NEW t \in Task
    PROVE  /\ Append(q, t) \in Seq(Task) /\ Len(Append(q, t)) = Len(q) + 1
           /\ IdsIn(Append(q, t)) = IdsIn(q) \cup {t.id}
           /\ Once(q) /\ t.id \notin IdsIn(q) => Once(Append(q, t))
<1> DEFINE a == Append(q, t)
<1>1. /\ a \in Seq(Task) /\ Len(a) = Len(q) + 1
      /\ \A i \in 1 .. Len(q) : a[i] = q[i]
      /\ a[Len(q) + 1] = t
  BY AppendProperties
<1>2. Len(q) \in Nat
  BY LenProperties
<1> HIDE DEF a
<1>3. /\ \A i \in 1 .. Len(q) + 1 : i \in 1 .. Len(q) \/ i = Len(q) + 1
      /\ \A i \in 1 .. Len(q) : i \in 1 .. Len(q) + 1
      /\ Len(q) + 1 \in 1 .. Len(q) + 1
  BY <1>2
<1>4. IdsIn(a) = IdsIn(q) \cup {t.id}
  <2>1. ASSUME NEW i \in 1 .. Len(q) + 1
        PROVE  a[i].id \in IdsIn(q) \cup {t.id}
    BY <1>1, <1>3 DEF IdsIn
  <2>2. \A i \in 1 .. Len(q) : q[i].id \in IdsIn(a)
    BY <1>1, <1>3 DEF IdsIn
  <2>3. t.id \in IdsIn(a)
    BY <1>1, <1>3 DEF IdsIn
  <2>4. IdsIn(a) \subseteq IdsIn(q) \cup {t.id}
    BY <2>1, <1>1 DEF IdsIn
  <2>5. IdsIn(q) \subseteq IdsIn(a)
    BY <2>2 DEF IdsIn
  <2> QED BY <2>3, <2>4, <2>5
<1>5. ASSUME Once(q), t.id \notin IdsIn(q)
      PROVE  Once(a)
  <2>1. \A i \in 1 .. Len(q) : q[i].id # t.id
    BY <1>5 DEF IdsIn
  <2>2. ASSUME NEW i \in 1 .. Len(q) + 1, NEW j \in 1 .. Len(q) + 1, a[i].id = a[j].id
        PROVE  i = j
    BY <2>1, <2>2, <1>1, <1>3, <1>5 DEF Once
  <2> QED BY <2>2, <1>1 DEF Once
<1> QED BY <1>1, <1>4, <1>5 DEF a

\* What is left of a queue is what it held but its head.
LEMMA IdsOfTail ==
    ASSUME NEW q \in Seq(Task), q # <<>>, Once(q)
    PROVE  /\ Head(q) \in Task /\ Tail(q) \in Seq(Task) /\ Len(Tail(q)) = Len(q) - 1
           /\ Head(q).id \in IdsIn(q)
           /\ IdsIn(Tail(q)) = IdsIn(q) \ {Head(q).id}
           /\ Once(Tail(q))
<1> DEFINE r == Tail(q)
<1>1. /\ Head(q) \in Task /\ r \in Seq(Task) /\ Len(r) = Len(q) - 1
      /\ \A i \in 1 .. Len(r) : r[i] = q[i+1]
  BY HeadTailProperties
<1>2. Len(q) \in Nat /\ Len(q) > 0
  BY EmptySeq
<1>3. Head(q) = q[1]
  OBVIOUS
<1> HIDE DEF r
<1>4. /\ 1 \in 1 .. Len(q)
      /\ \A i \in 1 .. Len(r) : i + 1 \in 1 .. Len(q) /\ i + 1 # 1
      /\ \A i \in 1 .. Len(q) : i # 1 => i - 1 \in 1 .. Len(r) /\ i - 1 + 1 = i
      /\ \A i, j \in 1 .. Len(r) : i + 1 = j + 1 => i = j
  BY <1>1, <1>2
<1>5. q[1].id \in IdsIn(q)
  BY <1>4 DEF IdsIn
<1>6. \A i \in 1 .. Len(r) : r[i].id \in IdsIn(q) /\ r[i].id # q[1].id
  BY <1>1, <1>4 DEF IdsIn, Once
<1>7. \A i \in 1 .. Len(q) : i # 1 => q[i].id \in IdsIn(r)
  <2> TAKE i \in 1 .. Len(q)
  <2>1. i # 1 => r[i-1] = q[i] /\ i - 1 \in 1 .. Len(r)
    BY <1>1, <1>4
  <2> QED BY <2>1 DEF IdsIn
<1>8. IdsIn(r) = IdsIn(q) \ {q[1].id}
  <2>1. IdsIn(r) \subseteq IdsIn(q) \ {q[1].id}
    BY <1>6 DEF IdsIn
  <2>2. ASSUME NEW x \in IdsIn(q), x # q[1].id
        PROVE  x \in IdsIn(r)
    <3>1. PICK i \in 1 .. Len(q) : x = q[i].id
      BY DEF IdsIn
    <3> QED BY <3>1, <2>2, <1>7
  <2> QED BY <2>1, <2>2
<1>9. Once(r)
  <2>1. ASSUME NEW i \in 1 .. Len(r), NEW j \in 1 .. Len(r), r[i].id = r[j].id
        PROVE  i = j
    <3>1. i + 1 = j + 1
      BY <2>1, <1>1, <1>4 DEF Once
    <3> QED BY <3>1, <1>4
  <2> QED BY <2>1 DEF Once
<1> QED BY <1>1, <1>3, <1>5, <1>8, <1>9 DEF r

\* A handler adds at most one task to those being handled.
LEMMA AtMostOneMore ==
    ASSUME NEW S, NEW T, IsFiniteSet(S), T = {} \/ \E t \in T : T = {t}
    PROVE  /\ IsFiniteSet(S \cup T)
           /\ Cardinality(S) \in Nat /\ Cardinality(S \cup T) \in Nat
           /\ Cardinality(S \cup T) <= Cardinality(S) + 1
<1>1. Cardinality(S) \in Nat
  BY FS_CardinalityType
<1>2. CASE T = {}
  <2>1. S \cup T = S
    BY <1>2
  <2>2. Cardinality(S) <= Cardinality(S) + 1
    BY <1>1
  <2> QED BY <1>1, <2>1, <2>2, Zenon
<1>3. CASE \E t \in T : T = {t}
  <2>1. PICK t \in T : T = {t}
    BY <1>3
  <2>2. /\ IsFiniteSet(S \cup {t})
        /\ Cardinality(S \cup {t}) = IF t \in S THEN Cardinality(S) ELSE Cardinality(S) + 1
    BY FS_AddElement
  <2>3. /\ Cardinality(S \cup {t}) \in Nat
        /\ Cardinality(S \cup {t}) <= Cardinality(S) + 1
    BY <2>2, <1>1
  <2> QED BY <2>1, <2>2, <2>3, <1>1
<1> QED BY <1>2, <1>3

\* A number is always free when the worker allocates: each queue and each handler
\* holds no more tasks than it can.
LEMMA NumberIsFree ==
    ASSUME TypeInv, OwnerInv, worker.at = "pop"
    PROVE  Ids \ live # {}
<1> DEFINE q == handler["MSG_BIN_QUERY"]
           c == handler["MSG_CLR_QUERY"]
           a == handler["MSG_BIN_ACK"]
           n1 == Len(tasks["MSG_BIN_QUERY"])
           n2 == Len(tasks["MSG_CLR_QUERY"])
           n3 == Len(tasks["MSG_BIN_ACK"])
<1>1. Kinds = {"MSG_BIN_QUERY", "MSG_CLR_QUERY", "MSG_BIN_ACK"}
  BY DEF Kinds
<1>2. Busy = (({} \cup q) \cup c) \cup a
  BY <1>1 DEF Busy
<1>3. /\ q = {} \/ \E t \in q : q = {t}
      /\ c = {} \/ \E t \in c : c = {t}
      /\ a = {} \/ \E t \in a : a = {t}
  BY <1>1 DEF OwnerInv, HandlersHold
<1>4. Cardinality(Busy) \in Nat /\ Cardinality(Busy) <= 3
  <2> HIDE DEF q, c, a
  <2>1. IsFiniteSet({}) /\ Cardinality({}) = 0
    BY FS_EmptySet
  <2> DEFINE S1 == {} \cup q
  <2>2. /\ IsFiniteSet(S1) /\ Cardinality(S1) \in Nat
        /\ Cardinality(S1) <= 0 + 1
    BY <1>3, <2>1, AtMostOneMore
  <2> HIDE DEF S1
  <2> DEFINE S2 == S1 \cup c
  <2>3. /\ IsFiniteSet(S2) /\ Cardinality(S2) \in Nat
        /\ Cardinality(S2) <= Cardinality(S1) + 1
    BY <1>3, <2>2, AtMostOneMore
  <2> HIDE DEF S2
  <2> DEFINE S3 == S2 \cup a
  <2>4. /\ Cardinality(S3) \in Nat /\ Cardinality(S3) <= Cardinality(S2) + 1
    BY <1>3, <2>3, AtMostOneMore
  <2> HIDE DEF S3
  <2>5. Cardinality(S3) <= 3
    BY <2>2, <2>3, <2>4
  <2> QED BY <1>2, <2>4, <2>5 DEF S1, S2, S3
<1>5. /\ n1 \in Nat /\ n1 <= TaskCap
      /\ n2 \in Nat /\ n2 <= TaskCap
      /\ n3 \in Nat /\ n3 <= TaskCap
  <2>1. \A k \in Kinds : Len(tasks[k]) \in Nat
    BY LenProperties DEF TypeInv
  <2>2. \A k \in Kinds : Len(tasks[k]) <= TaskCap
    BY DEF OwnerInv, QueuesHold
  <2> QED BY <1>1, <2>1, <2>2
<1>6. Cardinality(live) = n1 + n2 + n3 + Cardinality(Busy)
  <2>1. Cardinality(live) = 0 + n1 + n2 + n3 + Cardinality(Busy)
    BY DEF OwnerInv, Counted, Places, Busy
  <2> HIDE DEF n1, n2, n3
  <2> QED BY <2>1, <1>4, <1>5
<1>7. TaskCap \in Nat
  BY RequestsAssumption
<1> HIDE DEF n1, n2, n3
<1>8. Cardinality(live) <= 3 * TaskCap + 3
  BY <1>4, <1>5, <1>6, <1>7
<1>9. IsFiniteSet(Ids) /\ Cardinality(Ids) = 3 * TaskCap + 4
  <2> DEFINE b == 3 * (TaskCap + 1) + 1
  <2>1. b \in Int /\ b = 3 * TaskCap + 4 /\ ~(1 > b) /\ b - 1 + 1 = b
    BY <1>7
  <2> HIDE DEF b
  <2>2. IsFiniteSet(1 .. b) /\ Cardinality(1 .. b) = b
    BY <2>1, FS_Interval
  <2> QED BY <2>1, <2>2 DEF Ids, b
<1>10. Ids \ live = {} => live = Ids
  BY DEF TypeInv
<1>11. Cardinality(Ids) > 3 * TaskCap + 3
  BY <1>7, <1>9
<1>12. live # Ids
  <2> SUFFICES ASSUME live = Ids PROVE FALSE
    OBVIOUS
  <2>1. Cardinality(Ids) <= 3 * TaskCap + 3
    BY <1>8
  <2> QED BY <2>1, <1>7, <1>9
<1> QED BY <1>10, <1>12

\* The lengths that Places adds are naturals.
LEMMA PlacesAreNatural ==
    ASSUME TypeInv, OwnerInv
    PROVE  /\ \A k \in Kinds : Len(tasks[k]) \in Nat
           /\ Cardinality(Busy) \in Nat
<1>1. \A k \in Kinds : Len(tasks[k]) \in Nat
  BY LenProperties DEF TypeInv
<1>2. Cardinality(Busy) \in Nat
  BY FS_CardinalityType DEF OwnerInv, Counted
<1> QED BY <1>1, <1>2

\* What the worker allocates nobody else holds.
LEMMA PopOwns ==
    ASSUME TypeInv, OwnerInv, WorkerPop,
           worker'.at = "push", worker'.task.id \in Ids \ live,
           live' = live \cup {worker'.task.id}
    PROVE  OwnerInv' /\ live' \in SUBSET Ids
<1> DEFINE id == worker'.task.id
<1>1. /\ worker.at = "pop" /\ tasks' = tasks /\ handler' = handler
      /\ Pushing = {} /\ Pushing' = {id}
  BY DEF WorkerPop, Pushing
<1>2. /\ \A k \in Kinds : Queued(k)' = Queued(k)
      /\ \A k \in Kinds : Handled(k)' = Handled(k)
      /\ Busy' = Busy
  BY <1>1 DEF Queued, Handled, Busy
<1>3. id \notin live /\ live' = live \cup {id} /\ live' \in SUBSET Ids
  BY DEF TypeInv
<1> HIDE DEF id
<1>4. \A k \in Kinds : id \notin Queued(k) /\ id \notin Handled(k)
  BY <1>3 DEF OwnerInv, Owned
<1>5. Apart'
  BY <1>1, <1>2, <1>4 DEF OwnerInv, Apart
<1>6. Owned'
  BY <1>1, <1>2, <1>3 DEF OwnerInv, Owned
<1>7. QueuesHold' /\ HandlersHold'
  BY <1>1 DEF OwnerInv, QueuesHold, HandlersHold
<1>8. Counted'
  <2>1. IsFiniteSet(live) /\ IsFiniteSet(Busy)
    BY DEF OwnerInv, Counted
  <2>2. IsFiniteSet(live') /\ Cardinality(live') = Cardinality(live) + 1
    <3>1. /\ IsFiniteSet(live \cup {id})
          /\ Cardinality(live \cup {id}) = IF id \in live THEN Cardinality(live)
                                           ELSE Cardinality(live) + 1
      BY <2>1, FS_AddElement
    <3> QED BY <1>3, <3>1
  <2>3. Places' = Places + 1
    <3>1. (\A k \in Kinds : Len(tasks[k]) \in Nat) /\ Cardinality(Busy) \in Nat
      BY PlacesAreNatural
    <3> DEFINE n1 == Len(tasks["MSG_BIN_QUERY"])
               n2 == Len(tasks["MSG_CLR_QUERY"])
               n3 == Len(tasks["MSG_BIN_ACK"])
               b == Cardinality(Busy)
    <3>2. n1 \in Nat /\ n2 \in Nat /\ n3 \in Nat /\ b \in Nat
      BY <3>1 DEF Kinds
    <3>3. Places = 0 + n1 + n2 + n3 + b /\ Places' = 1 + n1 + n2 + n3 + b
      BY <1>1 DEF Places, Busy
    <3> HIDE DEF n1, n2, n3, b
    <3> QED BY <3>2, <3>3
  <2>4. Cardinality(live') = Places'
    BY <2>2, <2>3 DEF OwnerInv, Counted
  <2> QED BY <2>1, <2>2, <2>4, <1>2 DEF Counted
<1> QED BY <1>3, <1>5, <1>6, <1>7, <1>8 DEF OwnerInv

\* A push hands the worker's task to the queue of its kind.
LEMMA PushOwns ==
    ASSUME TypeInv, OwnerInv, WorkerPush
    PROVE  OwnerInv' /\ tasks' \in [Kinds -> Seq(Task)]
<1>1. PICK k \in Kinds : k = worker.task.type
  BY DEF WorkerPush
<1>2. PICK id : id = worker.task.id
  OBVIOUS
<1>3. /\ worker.at = "push" /\ Len(tasks[k]) < TaskCap
      /\ tasks' = [tasks EXCEPT ![k] = Append(tasks[k], worker.task)]
      /\ worker'.at = "log" /\ handler' = handler /\ live' = live
  BY <1>1 DEF WorkerPush, TypeInv, WorkerType
<1>4. worker.task \in Task /\ tasks[k] \in Seq(Task)
  BY <1>1 DEF TypeInv, WorkerType, WorkerStates
<1>5. Pushing = {id} /\ Pushing' = {}
  BY <1>2, <1>3 DEF Pushing
<1>6. id \notin Queued(k) /\ Once(tasks[k])
  BY <1>1, <1>5 DEF OwnerInv, Apart, QueuesHold
<1>7. tasks'[k] = Append(tasks[k], worker.task) /\ \A l \in Kinds : l # k => tasks'[l] = tasks[l]
  BY <1>1, <1>3 DEF TypeInv
<1>8. /\ tasks'[k] \in Seq(Task) /\ Len(tasks'[k]) = Len(tasks[k]) + 1
      /\ IdsIn(tasks'[k]) = IdsIn(tasks[k]) \cup {id} /\ Once(tasks'[k])
  BY <1>2, <1>4, <1>6, <1>7, IdsOfAppend DEF Queued
<1>9. tasks' \in [Kinds -> Seq(Task)]
  <2>1. Append(tasks[k], worker.task) \in Seq(Task)
    BY <1>7, <1>8
  <2> QED BY <2>1, <1>3 DEF TypeInv
<1>10. /\ Queued(k)' = Queued(k) \cup {id}
       /\ \A l \in Kinds : l # k => Queued(l)' = Queued(l)
       /\ \A l \in Kinds : Handled(l)' = Handled(l)
       /\ Busy' = Busy
  BY <1>3, <1>7, <1>8 DEF Queued, Handled, Busy
<1>11. Apart'
  BY <1>5, <1>10 DEF OwnerInv, Apart
<1>12. Owned'
  BY <1>1, <1>3, <1>5, <1>10 DEF OwnerInv, Owned
<1>13. QueuesHold' /\ HandlersHold'
  <2>1. Len(tasks'[k]) <= TaskCap
    <3>1. Len(tasks[k]) \in Nat /\ TaskCap \in Nat
      BY <1>1, PlacesAreNatural, RequestsAssumption
    <3>2. Len(tasks[k]) + 1 <= TaskCap
      BY <1>3, <3>1
    <3> QED BY <1>8, <3>2
  <2> QED BY <2>1, <1>3, <1>7, <1>8 DEF OwnerInv, QueuesHold, HandlersHold
<1>14. Places' = Places
  <2> DEFINE n1 == Len(tasks["MSG_BIN_QUERY"])
             n2 == Len(tasks["MSG_CLR_QUERY"])
             n3 == Len(tasks["MSG_BIN_ACK"])
             m1 == Len(tasks'["MSG_BIN_QUERY"])
             m2 == Len(tasks'["MSG_CLR_QUERY"])
             m3 == Len(tasks'["MSG_BIN_ACK"])
             b == Cardinality(Busy)
  <2>1. n1 \in Nat /\ n2 \in Nat /\ n3 \in Nat /\ b \in Nat
    BY PlacesAreNatural DEF Kinds
  <2>2. Places = 1 + n1 + n2 + n3 + b /\ Places' = 0 + m1 + m2 + m3 + b
    BY <1>3, <1>10 DEF Places, Busy
  <2>3. \/ m1 = n1 + 1 /\ m2 = n2 /\ m3 = n3
        \/ m1 = n1 /\ m2 = n2 + 1 /\ m3 = n3
        \/ m1 = n1 /\ m2 = n2 /\ m3 = n3 + 1
    BY <1>1, <1>7, <1>8 DEF Kinds
  <2> HIDE DEF n1, n2, n3, m1, m2, m3, b
  <2> QED BY <2>1, <2>2, <2>3
<1>15. Counted'
  BY <1>3, <1>10, <1>14 DEF OwnerInv, Counted
<1> QED BY <1>9, <1>11, <1>12, <1>13, <1>15 DEF OwnerInv

\* A task that is not pushed is freed by the worker, and nobody else held it.
LEMMA DropOwns ==
    ASSUME TypeInv, OwnerInv, WorkerDrop
    PROVE  OwnerInv' /\ live' \in SUBSET Ids
<1>1. PICK id : id = worker.task.id
  OBVIOUS
<1>2. /\ worker.at = "push" /\ worker'.at = "pop" /\ live' = live \ {id}
      /\ tasks' = tasks /\ handler' = handler
  BY <1>1 DEF WorkerDrop, Idle
<1>3. Pushing = {id} /\ Pushing' = {}
  BY <1>1, <1>2 DEF Pushing
<1>4. /\ \A k \in Kinds : Queued(k)' = Queued(k)
      /\ \A k \in Kinds : Handled(k)' = Handled(k)
      /\ Busy' = Busy
  BY <1>2 DEF Queued, Handled, Busy
<1>5. id \in live
  BY <1>3 DEF OwnerInv, Owned
<1>6. \A k \in Kinds : id \notin Queued(k) /\ id \notin Handled(k)
  BY <1>3 DEF OwnerInv, Apart
<1>7. Apart'
  BY <1>3, <1>4 DEF OwnerInv, Apart
<1>8. Owned'
  BY <1>2, <1>3, <1>4, <1>6 DEF OwnerInv, Owned
<1>9. QueuesHold' /\ HandlersHold'
  BY <1>2 DEF OwnerInv, QueuesHold, HandlersHold
<1>10. Counted'
  <2>1. IsFiniteSet(live) /\ IsFiniteSet(Busy) /\ Cardinality(live) = Places
    BY DEF OwnerInv, Counted
  <2>2. IsFiniteSet(live') /\ Cardinality(live') = Cardinality(live) - 1
    <3>1. /\ IsFiniteSet(live \ {id})
          /\ Cardinality(live \ {id}) = IF id \in live THEN Cardinality(live) - 1
                                        ELSE Cardinality(live)
      BY <2>1, FS_RemoveElement
    <3> QED BY <1>2, <1>5, <3>1
  <2>3. Places' = Places - 1
    <3> DEFINE n1 == Len(tasks["MSG_BIN_QUERY"])
               n2 == Len(tasks["MSG_CLR_QUERY"])
               n3 == Len(tasks["MSG_BIN_ACK"])
               b == Cardinality(Busy)
    <3>1. n1 \in Nat /\ n2 \in Nat /\ n3 \in Nat /\ b \in Nat
      BY PlacesAreNatural DEF Kinds
    <3>2. Places = 1 + n1 + n2 + n3 + b /\ Places' = 0 + n1 + n2 + n3 + b
      BY <1>2 DEF Places, Busy
    <3> HIDE DEF n1, n2, n3, b
    <3> QED BY <3>1, <3>2
  <2>4. Cardinality(live') = Places'
    BY <2>1, <2>2, <2>3
  <2> QED BY <2>1, <2>2, <2>4, <1>4 DEF Counted
<1>11. live' \in SUBSET Ids
  BY <1>2 DEF TypeInv
<1> QED BY <1>7, <1>8, <1>9, <1>10, <1>11 DEF OwnerInv

\* A handler takes the head of its queue, which then is in the queue no more.
LEMMA HandlerPopOwns ==
    ASSUME TypeInv, OwnerInv, NEW k \in Kinds, HandlerPop(k)
    PROVE  /\ OwnerInv' /\ tasks' \in [Kinds -> Seq(Task)]
           /\ handler' \in [Kinds -> SUBSET Task]
<1>1. /\ handler[k] = {} /\ tasks[k] # <<>>
      /\ handler' = [handler EXCEPT ![k] = {Head(tasks[k])}]
      /\ tasks' = [tasks EXCEPT ![k] = Tail(tasks[k])]
      /\ worker' = worker /\ live' = live
  BY DEF HandlerPop, TypeInv
<1>2. PICK t : t = Head(tasks[k])
  OBVIOUS
<1>3. /\ tasks'[k] = Tail(tasks[k]) /\ handler'[k] = {t}
      /\ \A l \in Kinds : l # k => tasks'[l] = tasks[l] /\ handler'[l] = handler[l]
  BY <1>1, <1>2 DEF TypeInv
<1>4. tasks[k] \in Seq(Task) /\ Once(tasks[k])
  BY DEF TypeInv, OwnerInv, QueuesHold
<1>5. /\ t \in Task /\ tasks'[k] \in Seq(Task) /\ Len(tasks'[k]) = Len(tasks[k]) - 1
      /\ t.id \in IdsIn(tasks[k]) /\ IdsIn(tasks'[k]) = IdsIn(tasks[k]) \ {t.id}
      /\ Once(tasks'[k])
  BY <1>1, <1>2, <1>3, <1>4, IdsOfTail
<1>6. tasks' \in [Kinds -> Seq(Task)] /\ handler' \in [Kinds -> SUBSET Task]
  <2>1. Tail(tasks[k]) \in Seq(Task) /\ {Head(tasks[k])} \in SUBSET Task
    BY <1>2, <1>3, <1>5
  <2> QED BY <2>1, <1>1 DEF TypeInv
<1>7. /\ Queued(k)' = Queued(k) \ {t.id} /\ t.id \in Queued(k)
      /\ Handled(k)' = {t.id} /\ Handled(k) = {}
      /\ \A l \in Kinds : l # k => Queued(l)' = Queued(l) /\ Handled(l)' = Handled(l)
      /\ Pushing' = Pushing
  BY <1>1, <1>3, <1>5 DEF Queued, Handled, Pushing
<1>8. Apart'
  BY <1>7 DEF OwnerInv, Apart
<1>9. Owned'
  <2>1. Queued(k)' \cup Handled(k)' = Queued(k) \cup Handled(k)
    BY <1>7
  <2>2. \A l \in Kinds : Queued(l)' \cup Handled(l)' = Queued(l) \cup Handled(l)
    BY <1>7, <2>1
  <2>3. UNION {Queued(l)' \cup Handled(l)' : l \in Kinds}
            = UNION {Queued(l) \cup Handled(l) : l \in Kinds}
    BY <2>2
  <2> QED BY <2>3, <1>1, <1>7 DEF OwnerInv, Owned
<1>10. QueuesHold'
  <2>1. Len(tasks[k]) \in Nat /\ TaskCap \in Nat /\ Len(tasks[k]) <= TaskCap
    BY PlacesAreNatural, RequestsAssumption DEF OwnerInv, QueuesHold
  <2>2. Len(tasks[k]) - 1 <= TaskCap
    BY <2>1
  <2> QED BY <2>2, <1>3, <1>5 DEF OwnerInv, QueuesHold
<1>11. HandlersHold'
  BY <1>3 DEF OwnerInv, HandlersHold
<1>12. IsFiniteSet(Busy') /\ Cardinality(Busy') = Cardinality(Busy) + 1
  <2>1. Busy' = Busy \cup {t}
    BY <1>1, <1>3 DEF Busy
  <2>2. t \notin Busy
    <3> SUFFICES ASSUME NEW l \in Kinds, t \in handler[l] PROVE FALSE
      BY DEF Busy
    <3>1. t.id \in Handled(l)
      BY DEF Handled
    <3> QED BY <3>1, <1>7 DEF OwnerInv, Apart
  <2>3. IsFiniteSet(Busy)
    BY DEF OwnerInv, Counted
  <2>4. /\ IsFiniteSet(Busy \cup {t})
        /\ Cardinality(Busy \cup {t}) = IF t \in Busy THEN Cardinality(Busy)
                                        ELSE Cardinality(Busy) + 1
    BY <2>3, FS_AddElement
  <2> QED BY <2>1, <2>2, <2>4
<1>13. Places' = Places
  <2> DEFINE n1 == Len(tasks["MSG_BIN_QUERY"])
             n2 == Len(tasks["MSG_CLR_QUERY"])
             n3 == Len(tasks["MSG_BIN_ACK"])
             m1 == Len(tasks'["MSG_BIN_QUERY"])
             m2 == Len(tasks'["MSG_CLR_QUERY"])
             m3 == Len(tasks'["MSG_BIN_ACK"])
             b == Cardinality(Busy)
             p == IF worker.at = "push" THEN 1 ELSE 0
  <2>1. n1 \in Nat /\ n2 \in Nat /\ n3 \in Nat /\ b \in Nat /\ p \in Nat
    BY PlacesAreNatural DEF Kinds
  <2>2. Places = p + n1 + n2 + n3 + b /\ Places' = p + m1 + m2 + m3 + Cardinality(Busy')
    BY <1>1 DEF Places, Busy
  <2>3. \/ m1 = n1 - 1 /\ m2 = n2 /\ m3 = n3
        \/ m1 = n1 /\ m2 = n2 - 1 /\ m3 = n3
        \/ m1 = n1 /\ m2 = n2 /\ m3 = n3 - 1
    BY <1>3, <1>5 DEF Kinds
  <2>4. Cardinality(Busy') = b + 1
    BY <1>12
  <2> HIDE DEF n1, n2, n3, m1, m2, m3, b, p
  <2> QED BY <2>1, <2>2, <2>3, <2>4
<1>14. Counted'
  BY <1>1, <1>12, <1>13 DEF OwnerInv, Counted
<1> QED BY <1>6, <1>8, <1>9, <1>10, <1>11, <1>14 DEF OwnerInv

\* A handler frees the task it holds, and nobody else held it.
LEMMA HandlerFreeOwns ==
    ASSUME TypeInv, OwnerInv, NEW k \in Kinds, HandlerFree(k)
    PROVE  /\ OwnerInv' /\ live' \in SUBSET Ids
           /\ handler' \in [Kinds -> SUBSET Task]
<1>1. /\ handler[k] # {} /\ live' = live \ Handled(k)
      /\ handler' = [handler EXCEPT ![k] = {}]
      /\ tasks' = tasks /\ worker' = worker
  BY DEF HandlerFree, Handled
<1>2. PICK t \in handler[k] : handler[k] = {t}
  BY <1>1 DEF OwnerInv, HandlersHold
<1>3. handler'[k] = {} /\ \A l \in Kinds : l # k => handler'[l] = handler[l]
  BY <1>1 DEF TypeInv
<1>4. handler' \in [Kinds -> SUBSET Task]
  BY <1>1 DEF TypeInv
<1>5. /\ Handled(k) = {t.id} /\ Handled(k)' = {}
      /\ \A l \in Kinds : l # k => Handled(l)' = Handled(l)
      /\ \A l \in Kinds : Queued(l)' = Queued(l)
      /\ Pushing' = Pushing
  BY <1>1, <1>2, <1>3 DEF Queued, Handled, Pushing
<1>6. live' = live \ {t.id} /\ t.id \in live
  BY <1>1, <1>5 DEF OwnerInv, Owned
<1>7. /\ t.id \notin Pushing /\ \A l \in Kinds : t.id \notin Queued(l)
      /\ \A l \in Kinds : l # k => t.id \notin Handled(l)
  BY <1>5 DEF OwnerInv, Apart
<1>8. Apart'
  BY <1>5 DEF OwnerInv, Apart
<1>9. Owned'
  <2>1. ASSUME NEW x
        PROVE  x \in live <=> x \in Pushing \/ \E l \in Kinds : x \in Queued(l) \/ x \in Handled(l)
    BY DEF OwnerInv, Owned
  <2>2. ASSUME NEW x
        PROVE  x \in live' <=>
                   x \in Pushing' \/ \E l \in Kinds : x \in Queued(l)' \/ x \in Handled(l)'
    <3>1. CASE x = t.id
      BY <3>1, <1>5, <1>6, <1>7
    <3>2. CASE x # t.id
      <4>1. /\ x \in live' <=> x \in live
            /\ x \in Pushing' <=> x \in Pushing
            /\ \A l \in Kinds : x \in Queued(l)' <=> x \in Queued(l)
            /\ \A l \in Kinds : x \in Handled(l)' <=> x \in Handled(l)
        BY <3>2, <1>5, <1>6
      <4> QED BY <4>1, <2>1
    <3> QED BY <3>1, <3>2
  <2> QED BY <2>2 DEF Owned
<1>10. QueuesHold' /\ HandlersHold'
  BY <1>1, <1>3 DEF OwnerInv, QueuesHold, HandlersHold
<1>11. IsFiniteSet(Busy') /\ Cardinality(Busy') = Cardinality(Busy) - 1
  <2>1. \A l \in Kinds : l # k => t \notin handler[l]
    BY <1>7 DEF Handled
  <2>2. Busy' = Busy \ {t} /\ t \in Busy
    BY <2>1, <1>2, <1>3 DEF Busy
  <2>3. IsFiniteSet(Busy)
    BY DEF OwnerInv, Counted
  <2>4. /\ IsFiniteSet(Busy \ {t})
        /\ Cardinality(Busy \ {t}) = IF t \in Busy THEN Cardinality(Busy) - 1
                                     ELSE Cardinality(Busy)
    BY <2>3, FS_RemoveElement
  <2> QED BY <2>2, <2>4
<1>12. Counted'
  <2>1. IsFiniteSet(live) /\ Cardinality(live) = Places
    BY DEF OwnerInv, Counted
  <2>2. IsFiniteSet(live') /\ Cardinality(live') = Cardinality(live) - 1
    <3>1. /\ IsFiniteSet(live \ {t.id})
          /\ Cardinality(live \ {t.id}) = IF t.id \in live THEN Cardinality(live) - 1
                                          ELSE Cardinality(live)
      BY <2>1, FS_RemoveElement
    <3> QED BY <1>6, <3>1
  <2>3. Places' = Places - 1
    <3> DEFINE n1 == Len(tasks["MSG_BIN_QUERY"])
               n2 == Len(tasks["MSG_CLR_QUERY"])
               n3 == Len(tasks["MSG_BIN_ACK"])
               p == IF worker.at = "push" THEN 1 ELSE 0
               b == Cardinality(Busy)
    <3>1. n1 \in Nat /\ n2 \in Nat /\ n3 \in Nat /\ b \in Nat /\ p \in Nat
      BY PlacesAreNatural DEF Kinds
    <3>2. Places = p + n1 + n2 + n3 + b /\ Places' = p + n1 + n2 + n3 + Cardinality(Busy')
      BY <1>1 DEF Places, Busy
    <3>3. Cardinality(Busy') = b - 1
      BY <1>11
    <3> HIDE DEF n1, n2, n3, p, b
    <3> QED BY <3>1, <3>2, <3>3
  <2>4. Cardinality(live') = Places'
    BY <2>1, <2>2, <2>3
  <2> QED BY <2>2, <2>4, <1>11 DEF Counted
<1>13. live' \in SUBSET Ids
  BY <1>6 DEF TypeInv
<1> QED BY <1>4, <1>8, <1>9, <1>10, <1>12, <1>13 DEF OwnerInv

\* Who holds what does not change when neither the queues, the handlers, what is
\* allocated nor what the worker has yet to push does.
LEMMA OwnersUnchanged ==
    ASSUME OwnerInv, UNCHANGED <<tasks, handler, live>>, Pushing' = Pushing,
           worker'.at = "push" <=> worker.at = "push"
    PROVE  OwnerInv'
<1>1. /\ \A k \in Kinds : Queued(k)' = Queued(k)
      /\ \A k \in Kinds : Handled(k)' = Handled(k)
      /\ Busy' = Busy
  BY DEF Queued, Handled, Busy
<1>2. Places' = Places
  BY DEF Places
<1>3. Apart' /\ Owned'
  BY <1>1 DEF OwnerInv, Apart, Owned
<1>4. QueuesHold' /\ HandlersHold'
  BY DEF OwnerInv, QueuesHold, HandlersHold
<1>5. Counted'
  BY <1>1, <1>2 DEF OwnerInv, Counted
<1> QED BY <1>3, <1>4, <1>5 DEF OwnerInv

-----------------------------------------------------------------------------
(* The invariant                                                           *)

\* In the beginning nothing is sent, queued or allocated.
LEMMA RequestsInvInit == Init => RequestsInv
<1> SUFFICES ASSUME Init PROVE RequestsInv
  OBVIOUS
<1>1. NoMsg \in [fd : Fds, first : Firsts] /\ NoTask \in Task
  BY DEF NoMsg, NoTask, Fds, Firsts, Task, Kinds
<1>2. /\ stream = [c \in Clients |-> <<>>] /\ recv_q = <<>> /\ worker.at = "pop"
      /\ worker = [at |-> "pop", waits |-> FALSE, msg |-> NoMsg, task |-> NoTask]
      /\ tasks = [k \in Kinds |-> <<>>] /\ handler = [k \in Kinds |-> {}] /\ live = {}
  BY DEF Init, Idle
<1>3. /\ <<>> \in Seq(Text) /\ <<>> \in Seq(Message) /\ <<>> \in Seq(Task)
      /\ Len(<<>>) = 0
  BY EmptySeq
<1>4. TypeInv
  BY <1>1, <1>2, <1>3 DEF TypeInv, WorkerType, WorkerStates
<1>5. 1 .. 0 = {}
  OBVIOUS
<1>6. MessagesBegin
  BY <1>2, <1>3, <1>5 DEF MessagesBegin
<1>7. WholeRequestUnderstood
  BY <1>2 DEF WholeRequestUnderstood
<1>8. /\ Pushing = {} /\ Busy = {}
      /\ \A k \in Kinds : Queued(k) = {} /\ Handled(k) = {}
  BY <1>2, <1>3, <1>5 DEF Pushing, Busy, Queued, Handled, IdsIn
<1>9. Apart /\ Owned
  BY <1>2, <1>8 DEF Apart, Owned
<1>10. QueuesHold /\ HandlersHold
  <2>1. 0 <= TaskCap
    BY RequestsAssumption
  <2> QED BY <2>1, <1>2, <1>3, <1>5 DEF QueuesHold, HandlersHold, Once
<1>11. Counted
  <2>1. IsFiniteSet({}) /\ Cardinality({}) = 0
    BY FS_EmptySet
  <2>2. Places = 0 + 0 + 0 + 0 + 0
    <3>1. \A k \in Kinds : Len(tasks[k]) = 0
      BY <1>2, <1>3
    <3>2. /\ Len(tasks["MSG_BIN_QUERY"]) = 0 /\ Len(tasks["MSG_CLR_QUERY"]) = 0
          /\ Len(tasks["MSG_BIN_ACK"]) = 0
      BY <3>1 DEF Kinds
    <3>3. Cardinality(UNION {handler[k] : k \in Kinds}) = 0
      BY <1>8, <2>1 DEF Busy
    <3> QED BY <3>2, <3>3, <1>2 DEF Places
  <2> QED BY <2>1, <2>2, <1>2, <1>8 DEF Counted
<1> QED BY <1>4, <1>6, <1>7, <1>9, <1>10, <1>11 DEF RequestsInv, OwnerInv

\* Every step keeps the invariant: only a read touches the messages' beginnings,
\* only the worker's pop its understanding, and five actions move a task.
LEMMA RequestsInvStep == RequestsInv /\ [Next]_vars => RequestsInv'
<1> SUFFICES ASSUME RequestsInv, [Next]_vars PROVE RequestsInv'
  OBVIOUS
<1>1. TypeInv /\ MessagesBegin /\ WholeRequestUnderstood /\ OwnerInv
  BY DEF RequestsInv
<1>2. NoMsg \in [fd : Fds, first : Firsts] /\ NoTask \in Task
  BY DEF NoMsg, NoTask, Fds, Firsts, Task, Kinds
<1>3. Idle \in WorkerStates
      /\ Idle.at = "pop"
  BY <1>2 DEF Idle, WorkerStates
<1>4. ASSUME NEW c \in Clients, NEW r \in Request, ClientSends(c, r)
      PROVE  RequestsInv'
  <2>1. stream' = [stream EXCEPT ![c] = Append(stream[c], Pieces(r))]
        /\ UNCHANGED <<recv_q, worker, tasks, handler, live>>
    BY <1>4 DEF ClientSends
  <2>2. Append(stream[c], Pieces(r)) \in Seq(Text)
    BY <1>1, PiecesAreText, AppendProperties DEF TypeInv
  <2>3. TypeInv'
    BY <1>1, <2>1, <2>2 DEF TypeInv, WorkerType
  <2>4. OwnerInv'
    BY <1>1, <2>1, OwnersUnchanged DEF Pushing
  <2> QED BY <1>1, <2>1, <2>3, <2>4 DEF RequestsInv, MessagesBegin, WholeRequestUnderstood
<1>5. ASSUME NEW c \in Clients, NEW stale \in Stale, NEW n \in 0 .. Len(stream[c]),
             NEW cut \in 0 .. (IF n = Len(stream[c]) THEN 0 ELSE Len(stream[c][n+1]) - 1),
             Read(c, n, cut, stale)
      PROVE  RequestsInv'
  <2>1. UNCHANGED <<sends, worker, tasks, handler, live>>
    BY <1>5 DEF Read
  <2>2. stream' \in [Clients -> Seq(Text)] /\ recv_q' \in Seq(Message) /\ MessagesBegin'
    BY <1>1, <1>5, ReadKeeps
  <2>3. TypeInv'
    BY <1>1, <2>1, <2>2 DEF TypeInv, WorkerType
  <2>4. OwnerInv'
    BY <1>1, <2>1, OwnersUnchanged DEF Pushing
  <2> QED BY <1>1, <2>1, <2>2, <2>3, <2>4 DEF RequestsInv, WholeRequestUnderstood
<1>6. CASE WorkerPop
  <2>1. worker.at = "pop" /\ UNCHANGED <<stream, tasks, handler>>
    BY <1>6 DEF WorkerPop
  <2>2. Ids \ live # {}
    BY <1>1, <2>1, NumberIsFree
  <2>3. /\ WorkerType' /\ WholeRequestUnderstood'
        /\ recv_q' \in Seq(Message) /\ MessagesBegin'
        /\ worker'.at = "push" /\ worker'.task.id \in Ids \ live
        /\ live' = live \cup {worker'.task.id}
    BY <1>1, <1>6, <2>2, PopKeeps
  <2>4. OwnerInv' /\ live' \in SUBSET Ids
    BY <1>1, <1>6, <2>3, PopOwns
  <2>5. TypeInv'
    BY <1>1, <2>1, <2>3, <2>4 DEF TypeInv
  <2> QED BY <2>3, <2>4, <2>5 DEF RequestsInv
<1>7. CASE WorkerPush
  <2>1. /\ worker' = [worker EXCEPT !.at = "log", !.msg = NoMsg]
        /\ UNCHANGED <<stream, recv_q, handler, live>>
    BY <1>7 DEF WorkerPush
  <2>2. OwnerInv' /\ tasks' \in [Kinds -> Seq(Task)]
    BY <1>1, <1>7, PushOwns
  <2>3. worker' \in WorkerStates
        /\ worker'.at = "log"
    BY <1>1, <1>2, <2>1 DEF TypeInv, WorkerType, WorkerStates
  <2>4. TypeInv'
    BY <1>1, <2>1, <2>2, <2>3 DEF TypeInv, WorkerType
  <2>5. MessagesBegin' /\ WholeRequestUnderstood'
    BY <1>1, <2>1, <2>3 DEF MessagesBegin, WholeRequestUnderstood
  <2> QED BY <2>2, <2>4, <2>5 DEF RequestsInv
<1>13. CASE WorkerWaits
  <2>1. /\ worker' = [worker EXCEPT !.waits = TRUE]
        /\ UNCHANGED <<stream, recv_q, tasks, handler, live>>
    BY <1>13 DEF WorkerWaits
  <2>2. /\ worker' \in WorkerStates
        /\ worker'.at = worker.at /\ worker'.msg = worker.msg /\ worker'.task = worker.task
    BY <1>1, <2>1 DEF TypeInv, WorkerType, WorkerStates
  <2>3. TypeInv'
    BY <1>1, <2>1, <2>2 DEF TypeInv, WorkerType
  <2>4. OwnerInv'
    BY <1>1, <2>1, <2>2, OwnersUnchanged DEF Pushing
  <2>5. MessagesBegin' /\ WholeRequestUnderstood'
    BY <1>1, <2>1, <2>2 DEF MessagesBegin, WholeRequestUnderstood
  <2> QED BY <2>3, <2>4, <2>5 DEF RequestsInv
<1>8. CASE WorkerDrop
  <2>1. worker' = Idle /\ UNCHANGED <<stream, recv_q, tasks, handler>>
    BY <1>8 DEF WorkerDrop
  <2>2. OwnerInv' /\ live' \in SUBSET Ids
    BY <1>1, <1>8, DropOwns
  <2>3. TypeInv'
    BY <1>1, <1>3, <2>1, <2>2 DEF TypeInv, WorkerType
  <2>4. MessagesBegin' /\ WholeRequestUnderstood'
    BY <1>1, <1>3, <2>1 DEF MessagesBegin, WholeRequestUnderstood
  <2> QED BY <2>2, <2>3, <2>4 DEF RequestsInv
<1>9. CASE WorkerLog
  <2>1. worker.at = "log" /\ worker' = Idle /\ UNCHANGED <<stream, recv_q, tasks, handler, live>>
    BY <1>9 DEF WorkerLog
  <2>2. OwnerInv'
    BY <1>1, <1>3, <2>1, OwnersUnchanged DEF Pushing
  <2>3. TypeInv'
    BY <1>1, <1>3, <2>1 DEF TypeInv, WorkerType
  <2>4. MessagesBegin' /\ WholeRequestUnderstood'
    BY <1>1, <1>3, <2>1 DEF MessagesBegin, WholeRequestUnderstood
  <2> QED BY <2>2, <2>3, <2>4 DEF RequestsInv
<1>10. ASSUME NEW k \in Kinds, HandlerPop(k)
       PROVE  RequestsInv'
  <2>1. UNCHANGED <<stream, recv_q, worker, live>>
    BY <1>10 DEF HandlerPop
  <2>2. OwnerInv' /\ tasks' \in [Kinds -> Seq(Task)] /\ handler' \in [Kinds -> SUBSET Task]
    BY <1>1, <1>10, HandlerPopOwns
  <2>3. TypeInv'
    BY <1>1, <2>1, <2>2 DEF TypeInv, WorkerType
  <2> QED BY <1>1, <2>1, <2>2, <2>3 DEF RequestsInv, MessagesBegin, WholeRequestUnderstood
<1>11. ASSUME NEW k \in Kinds, HandlerFree(k)
       PROVE  RequestsInv'
  <2>1. UNCHANGED <<stream, recv_q, worker, tasks>>
    BY <1>11 DEF HandlerFree
  <2>2. OwnerInv' /\ live' \in SUBSET Ids /\ handler' \in [Kinds -> SUBSET Task]
    BY <1>1, <1>11, HandlerFreeOwns
  <2>3. TypeInv'
    BY <1>1, <2>1, <2>2 DEF TypeInv, WorkerType
  <2> QED BY <1>1, <2>1, <2>2, <2>3 DEF RequestsInv, MessagesBegin, WholeRequestUnderstood
<1>12. CASE UNCHANGED vars
  <2>1. UNCHANGED <<stream, recv_q, worker, tasks, handler, live>>
    BY <1>12 DEF vars
  <2>2. TypeInv'
    BY <1>1, <2>1 DEF TypeInv, WorkerType
  <2>3. OwnerInv'
    BY <1>1, <2>1, OwnersUnchanged DEF Pushing
  <2> QED BY <1>1, <2>1, <2>2, <2>3 DEF RequestsInv, MessagesBegin, WholeRequestUnderstood
<1> QED BY <1>4, <1>5, <1>6, <1>7, <1>8, <1>9, <1>10, <1>11, <1>12, <1>13
  DEF Next, Worker

\* The invariant holds in every state of every behaviour, fair or not.
THEOREM RequestsInvariant == Spec => []RequestsInv
<1>1. RequestsInv /\ [Next]_vars => RequestsInv'
  BY RequestsInvStep
<1> QED BY RequestsInvInit, <1>1, PTL DEF Spec

\* A request read from its first byte to its last is understood for what it is,
\* whatever is read after it or was left in the buffer, which on_message parses
\* as a string though nothing terminates it (sg-tcp.c:93).
THEOREM RequestsAreUnderstood == Spec => []WholeRequestUnderstood
<1>1. RequestsInv => WholeRequestUnderstood
  BY DEF RequestsInv
<1> QED BY <1>1, RequestsInvariant, PTL

\* No task is lost, freed twice or held by two threads, though a task is freed by
\* on_message when its push times out and by its handler otherwise
\* (sg-comm.c:20), for any capacities of the queues.
THEOREM TasksAreOwnedOnce == Spec => []TasksHaveOneOwner
<1>1. ASSUME RequestsInv PROVE TasksHaveOneOwner
  <2>1. TypeInv /\ OwnerInv
    BY <1>1 DEF RequestsInv
  <2>2. \A k \in Kinds : DOMAIN tasks[k] = 1 .. Len(tasks[k])
    BY <2>1, LenProperties DEF TypeInv
  <2>3. Held = live
    <3>1. ASSUME NEW x
          PROVE  x \in Held <=> x \in Pushing \/ \E k \in Kinds : x \in Queued(k) \/ x \in Handled(k)
      <4>1. x \in Pushing <=> worker.at = "push" /\ x = worker.task.id
        BY DEF Pushing
      <4>2. ASSUME NEW k \in Kinds
            PROVE  x \in Queued(k) <=> \E t \in ToSet(tasks[k]) : x = t.id
        BY <2>2 DEF Queued, IdsIn, ToSet
      <4>3. ASSUME NEW k \in Kinds
            PROVE  x \in Handled(k) <=> \E t \in handler[k] : x = t.id
        BY DEF Handled
      <4>4. x \in Held <=> \/ worker.at = "push" /\ x = worker.task.id
                           \/ \E k \in Kinds : \E t \in ToSet(tasks[k]) \cup handler[k] : x = t.id
        BY DEF Held
      <4> QED BY <4>1, <4>2, <4>3, <4>4
    <3>2. ASSUME NEW x
          PROVE  x \in live <=> x \in Pushing \/ \E k \in Kinds : x \in Queued(k) \/ x \in Handled(k)
      BY <2>1 DEF OwnerInv, Owned
    <3> QED BY <3>1, <3>2
  <2>4. Cardinality(live) = Places
    BY <2>1 DEF OwnerInv, Counted
  <2> QED BY <2>3, <2>4 DEF TasksHaveOneOwner
<1>2. RequestsInv => TasksHaveOneOwner
  BY <1>1
<1> QED BY <1>2, RequestsInvariant, PTL

=============================================================================

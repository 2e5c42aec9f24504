----------------------------- MODULE NfLexerProofs -----------------------------
(***************************************************************************)
(* Proofs about NfLexer: its type invariant, that a text gives the tokens  *)
(* it is made of, and that the input buffer implements NfStream.           *)
(*                                                                         *)
(* The invariant says where in the text the lexer is, and what next_token  *)
(* knows of the token that began at the place p: which characters it read  *)
(* since then, and that number or buff is what they amount to.  A token is *)
(* returned when that is what TokenAt finds at p.                          *)
(*                                                                         *)
(* ValuesFrom and TokensFrom are recursive functions.  That there are such *)
(* functions is proved from a least, or a greatest, place up to which      *)
(* there is none; from then on only their equations are used.              *)
(***************************************************************************)
EXTENDS NfLexer, SequenceTheorems, WellFoundedInduction, TLAPS
-----------------------------------------------------------------------------
(* Numbers and sequences. *)

Less == {ss \in Nat \X Nat : ss[1] < ss[2]}

(* A set of natural numbers has a least element. *)
LEMMA Least ==
  ASSUME NEW S, S \subseteq Nat, S # {}
  PROVE  \E n \in S : \A m \in S : n <= m
  <1>1. IsWellFoundedOn(Less, Nat)
    BY NatLessThanWellFounded DEF OpToRel, Less
  <1>2. PICK n \in S : \A m \in S : ~(<<m, n>> \in Less)
    BY <1>1, WFMin
  <1>3. ASSUME NEW m \in S
        PROVE  n <= m
    <2>1. ~(<<m, n>> \in Less)
      BY <1>2
    <2>2. m \in Nat /\ n \in Nat
      OBVIOUS
    <2>3. ~(m < n)
      BY <2>1, <2>2 DEF Less
    <2> QED BY <2>2, <2>3
  <1> QED BY <1>3

(* And one that has an upper bound a greatest. *)
LEMMA Greatest ==
  ASSUME NEW S, NEW b \in Nat, S \subseteq 0..b, S # {}
  PROVE  \E n \in S : \A m \in S : m <= n
  <1> DEFINE R == {b - n : n \in S}
  <1>1. R \subseteq Nat /\ R # {}
    <2>1. \A n \in S : b - n \in Nat
      OBVIOUS
    <2>2. PICK n : n \in S
      OBVIOUS
    <2>3. b - n \in R
      BY <2>2
    <2> QED BY <2>1, <2>3
  <1>2. PICK r \in R : \A q \in R : r <= q
    <2> HIDE DEF R
    <2> QED BY <1>1, Least
  <1>3. PICK n \in S : r = b - n
    OBVIOUS
  <1>4. ASSUME NEW m \in S
        PROVE  m <= n
    <2>1. b - m \in R
      OBVIOUS
    <2>2. b - n <= b - m
      BY <1>2, <1>3, <2>1
    <2> QED BY <2>2
  <1> QED BY <1>4

-----------------------------------------------------------------------------
(* Characters. *)

(* The value of a digit. *)
LEMMA DigitValue ==
  ASSUME NEW c \in Digits
  PROVE  Digit[c] \in 0..9
  <1>1. DOMAIN Numerals = 1..10
    BY DEF Numerals
  <1>2. \E k \in DOMAIN Numerals : Numerals[k] = c
    BY DEF Digits, Digit, ToSet
  <1>3. (CHOOSE k \in DOMAIN Numerals : Numerals[k] = c) \in DOMAIN Numerals
    BY <1>2
  <1> DEFINE k == CHOOSE k \in DOMAIN Numerals : Numerals[k] = c
  <1>4. Digit[c] = k - 1
    BY DEF Digits, Digit
  <1> HIDE DEF k
  <1>5. k \in 1..10
    BY <1>1, <1>3 DEF k
  <1> QED BY <1>4, <1>5

(* What a digit is. *)
LEMMA DigitsAre == Digits = {"0", "1", "2", "3", "4", "5", "6", "7", "8", "9"}
  <1>1. Digits = {Numerals[k] : k \in 1..10}
    BY DEF Digits, Digit, ToSet, Numerals
  <1>2. \A k \in 1..10 : k = 1 \/ k = 2 \/ k = 3 \/ k = 4 \/ k = 5
                         \/ k = 6 \/ k = 7 \/ k = 8 \/ k = 9 \/ k = 10
    OBVIOUS
  <1>3. Digits \subseteq {"0", "1", "2", "3", "4", "5", "6", "7", "8", "9"}
    BY <1>1, <1>2 DEF Numerals
  <1>4. {"0", "1", "2", "3", "4", "5", "6", "7", "8", "9"} \subseteq Digits
    <2>1. /\ Numerals[1] = "0" /\ Numerals[2] = "1" /\ Numerals[3] = "2" /\ Numerals[4] = "3"
          /\ Numerals[5] = "4" /\ Numerals[6] = "5" /\ Numerals[7] = "6" /\ Numerals[8] = "7"
          /\ Numerals[9] = "8" /\ Numerals[10] = "9"
      BY DEF Numerals
    <2>2. \A k \in 1..10 : Numerals[k] \in Digits
      BY <1>1
    <2> QED BY <2>1, <2>2
  <1> QED BY <1>3, <1>4

(* The kinds of characters a token begins with have none in common.        *)
LEMMA KindsApart ==
  /\ \A c \in Singles : c # "=" /\ c \notin Digits /\ c \notin Quotes /\ c \notin NameStart
  /\ \A c \in Spaces : /\ c \notin Singles /\ c # "=" /\ c \notin Digits /\ c \notin Quotes
                       /\ c \notin NameStart
  /\ \A c \in Digits : c # "=" /\ c # "." /\ c # EOF /\ c \notin Quotes /\ c \notin NameStart
  /\ \A c \in Quotes : c # "=" /\ c # EOF /\ c \notin NameStart
  /\ "=" \notin NameStart /\ EOF \notin NameStart /\ EOF \notin NameChars
  /\ "." \notin Digits /\ EOF # "=" /\ EOF # "." /\ EOF \notin Singles /\ EOF \notin Spaces
  /\ "=" \notin Digits /\ "=" \notin Singles /\ "=" \notin Quotes /\ "=" \notin Spaces
  <1> USE LexerAssumption, DigitsAre DEF NameStart, NameChars, EOF
  <1>1. \A c \in Singles : c # "=" /\ c \notin Digits /\ c \notin Quotes
    BY DEF Singles, Quotes
  <1>2. \A c \in Singles \cup Spaces \cup Digits \cup Quotes \cup {"=", EOF} : c \notin Letters
    OBVIOUS
  <1>3. \A c \in Singles \cup Spaces \cup Digits \cup Quotes \cup {"=", EOF} : c # "_"
    BY DEF Singles, Spaces, Quotes
  <1>4. \A c \in Spaces : c \notin Singles /\ c # "=" /\ c \notin Digits /\ c \notin Quotes
    BY DEF Singles, Spaces, Quotes
  <1>5. \A c \in Digits : c # "=" /\ c # "." /\ c # EOF /\ c \notin Quotes
    BY DEF Quotes
  <1>6. \A c \in Quotes : c # "=" /\ c # EOF
    BY DEF Quotes
  <1>7. EOF # "=" /\ EOF # "." /\ EOF \notin Singles /\ EOF \notin Spaces /\ EOF \notin Digits /\ "." \notin Digits
    BY DEF Singles, Spaces
  <1>8. "=" \notin Digits /\ "=" \notin Singles /\ "=" \notin Quotes /\ "=" \notin Spaces
    BY DEF Singles, Spaces, Quotes
  <1> HIDE LexerAssumption, DigitsAre
  <1> HIDE DEF EOF
  <1> QED BY <1>1, <1>2, <1>3, <1>4, <1>5, <1>6, <1>7, <1>8

-----------------------------------------------------------------------------
(* Runs of characters. *)

(* AfterRun is where the run ends. *)
LEMMA AfterRunEnds ==
  ASSUME NEW C, NEW s \in Seq(C), NEW p \in 1..(Len(s) + 1), NEW chars
  PROVE  /\ AfterRun(s, p, chars) \in p..(Len(s) + 1)
         /\ \A j \in p..(AfterRun(s, p, chars) - 1) : s[j] \in chars
         /\ AfterRun(s, p, chars) <= Len(s) => s[AfterRun(s, p, chars)] \notin chars
  <1> DEFINE Ends(q) == /\ \A j \in p..(q - 1) : s[j] \in chars
                        /\ q <= Len(s) => s[q] \notin chars
             S == {q \in p..(Len(s) + 1) : q <= Len(s) => s[q] \notin chars}
  <1>1. Len(s) \in Nat
    OBVIOUS
  <1>2. S \subseteq Nat /\ Len(s) + 1 \in S
    BY <1>1
  <1>3. PICK n \in S : \A m \in S : n <= m
    <2> HIDE DEF S
    <2> QED BY <1>2, Least
  <1>4. n \in p..(Len(s) + 1) /\ n \in Nat /\ (n <= Len(s) => s[n] \notin chars)
    BY <1>1
  <1>5. ASSUME NEW j \in p..(n - 1)
        PROVE  s[j] \in chars
    <2>1. j \in p..(Len(s) + 1) /\ j <= Len(s) /\ ~(n <= j)
      BY <1>1, <1>4
    <2> QED BY <1>3, <2>1
  <1>6. \E q \in p..(Len(s) + 1) : Ends(q)
    BY <1>4, <1>5
  <1>7. /\ (CHOOSE q \in p..(Len(s) + 1) : Ends(q)) \in p..(Len(s) + 1)
        /\ Ends(CHOOSE q \in p..(Len(s) + 1) : Ends(q))
    <2> HIDE DEF Ends
    <2> QED BY <1>6
  <1>8. AfterRun(s, p, chars) = CHOOSE q \in p..(Len(s) + 1) : Ends(q)
    BY DEF AfterRun
  <1> QED BY <1>7, <1>8

(* There is one such place. *)
LEMMA AfterRunIs ==
  ASSUME NEW C, NEW s \in Seq(C), NEW p \in 1..(Len(s) + 1), NEW chars,
         NEW q \in p..(Len(s) + 1), \A j \in p..(q - 1) : s[j] \in chars,
         q <= Len(s) => s[q] \notin chars
  PROVE  AfterRun(s, p, chars) = q
  <1>1. PICK r : r = AfterRun(s, p, chars)
    OBVIOUS
  <1>2. /\ r \in p..(Len(s) + 1) /\ \A j \in p..(r - 1) : s[j] \in chars
        /\ r <= Len(s) => s[r] \notin chars
    BY <1>1, AfterRunEnds
  <1>3. Len(s) \in Nat
    OBVIOUS
  <1>4. ~(r < q)
    <2>1. SUFFICES ASSUME r < q PROVE FALSE
      OBVIOUS
    <2>2. r \in p..(q - 1) /\ r <= Len(s)
      BY <1>2, <1>3, <2>1
    <2> QED BY <1>2, <2>2
  <1>5. ~(q < r)
    <2>1. SUFFICES ASSUME q < r PROVE FALSE
      OBVIOUS
    <2>2. q \in p..(r - 1) /\ q <= Len(s)
      BY <1>2, <1>3, <2>1
    <2> QED BY <1>2, <2>2
  <1> QED BY <1>1, <1>2, <1>3, <1>4, <1>5

-----------------------------------------------------------------------------
(* The value of digits. *)

(* The equation of ValuesFrom has a solution.                              *)
LEMMA ValuesExist ==
  ASSUME NEW d, NEW p \in Nat, NEW n \in Nat, p <= n
  PROVE  \E f : /\ f = [q \in p..n |-> f[q]]
                /\ \A q \in p..n : f[q] = IF q = p THEN 0 ELSE f[q - 1] * 10 + d[q - 1]
  <1> DEFINE Solves(f, m) ==
               /\ f = [q \in p..m |-> f[q]]
               /\ \A q \in p..m : f[q] = IF q = p THEN 0 ELSE f[q - 1] * 10 + d[q - 1]
             Bad == {m \in p..n : ~ \E f : Solves(f, m)}
  <1>1. SUFFICES ASSUME Bad # {} PROVE FALSE
    <2>1. n \in p..n
      OBVIOUS
    <2>2. \E f : Solves(f, n)
      BY <1>1, <2>1
    <2> QED BY <2>2
  <1>2. Bad \subseteq Nat
    OBVIOUS
  <1>3. PICK m \in Bad : \A k \in Bad : m <= k
    <2> HIDE DEF Bad
    <2> QED BY <1>1, <1>2, Least
  <1>4. m \in p..n /\ ~ \E f : Solves(f, m)
    OBVIOUS
  <1>5. m # p
    <2>1. SUFFICES ASSUME m = p PROVE FALSE
      OBVIOUS
    <2>2. PICK g : g = [q \in p..p |-> 0]
      OBVIOUS
    <2>3. \A q \in p..p : q = p
      OBVIOUS
    <2>4. Solves(g, p)
      BY <2>2, <2>3
    <2> QED BY <1>4, <2>1, <2>4
  <1>6. PICK k \in Nat : k = m - 1 /\ k + 1 = m /\ k \in p..n /\ ~(m <= k)
    BY <1>4, <1>5
  <1>7. k \notin Bad
    BY <1>3, <1>6
  <1>8. PICK f : Solves(f, k)
    BY <1>6, <1>7
  <1>9. PICK g : g = [q \in p..m |-> IF q = m THEN f[k] * 10 + d[k] ELSE f[q]]
    OBVIOUS
  <1>10. \A q \in p..m : q - 1 \in Int /\ (q # m => q \in p..k) /\ (q # p => q - 1 \in p..k /\ q - 1 # m)
    BY <1>4, <1>6
  <1>11. \A q \in p..k : q \in p..m /\ q # m
    BY <1>4, <1>6
  <1>12. ASSUME NEW q \in p..m
         PROVE  g[q] = IF q = p THEN 0 ELSE g[q - 1] * 10 + d[q - 1]
    <2>1. q # p => g[q - 1] = f[q - 1]
      BY <1>9, <1>10, <1>11
    <2>2. CASE q = m
      BY <1>5, <1>6, <1>9, <2>1, <2>2
    <2>3. CASE q # m
      <3>1. f[q] = IF q = p THEN 0 ELSE f[q - 1] * 10 + d[q - 1]
        BY <1>8, <1>10, <2>3
      <3> QED BY <1>9, <2>1, <2>3, <3>1
    <2> QED BY <2>2, <2>3
  <1>13. g = [q \in p..m |-> g[q]]
    BY <1>9
  <1>14. Solves(g, m)
    BY <1>12, <1>13
  <1> QED BY <1>4, <1>14

(* So ValuesFrom solves it: the value of a run of digits is that of the    *)
(* run without its last digit times ten, and this digit.                   *)
LEMMA ValueOfDigits ==
  ASSUME NEW C, NEW s \in Seq(C), NEW p \in 1..(Len(s) + 1)
  PROVE  /\ ValuesFrom(s, p)[p] = 0
         /\ \A q \in p..Len(s) :
              ValuesFrom(s, p)[q + 1] = ValuesFrom(s, p)[q] * 10 + Digit[s[q]]
  <1> DEFINE d == [q \in p..Len(s) |-> Digit[s[q]]]
             Solves(f) == f = [q \in p..(Len(s) + 1) |->
                                 IF q = p THEN 0 ELSE f[q - 1] * 10 + Digit[s[q - 1]]]
  <1>1. Len(s) \in Nat /\ p \in Nat /\ p <= Len(s) + 1 /\ Len(s) + 1 \in Nat
    OBVIOUS
  <1>2. PICK f : /\ f = [q \in p..(Len(s) + 1) |-> f[q]]
                 /\ \A q \in p..(Len(s) + 1) :
                      f[q] = IF q = p THEN 0 ELSE f[q - 1] * 10 + d[q - 1]
    <2>1. PICK n \in Nat : n = Len(s) + 1 /\ p <= n
      BY <1>1
    <2>2. \E f : /\ f = [q \in p..n |-> f[q]]
                 /\ \A q \in p..n : f[q] = IF q = p THEN 0 ELSE f[q - 1] * 10 + d[q - 1]
      <3> HIDE DEF d
      <3> QED BY <1>1, <2>1, ValuesExist
    <2> QED BY <2>1, <2>2
  <1>3. \A q \in p..(Len(s) + 1) : q # p => q - 1 \in p..Len(s)
    BY <1>1
  <1>4. Solves(f)
    <2>1. \A q \in p..(Len(s) + 1) :
            f[q] = IF q = p THEN 0 ELSE f[q - 1] * 10 + Digit[s[q - 1]]
      BY <1>2, <1>3
    <2> QED BY <1>2, <2>1
  <1>5. ValuesFrom(s, p) = CHOOSE g : Solves(g)
    BY DEF ValuesFrom
  <1>6. PICK v : v = ValuesFrom(s, p) /\ Solves(v)
    BY <1>4, <1>5
  <1>7. v[p] = 0
    <2>1. p \in p..(Len(s) + 1)
      BY <1>1
    <2> QED BY <1>6, <2>1
  <1>8. ASSUME NEW q \in p..Len(s)
        PROVE  v[q + 1] = v[q] * 10 + Digit[s[q]]
    <2>1. PICK r \in p..(Len(s) + 1) : r = q + 1 /\ r # p /\ r - 1 = q
      BY <1>1
    <2>2. v[r] = IF r = p THEN 0 ELSE v[r - 1] * 10 + Digit[s[r - 1]]
      BY <1>6
    <2> QED BY <2>1, <2>2
  <1> QED BY <1>6, <1>7, <1>8

(* The value of a run of digits is a number.                               *)
LEMMA ValueIsInt ==
  ASSUME NEW C, NEW s \in Seq(C), NEW p \in 1..(Len(s) + 1), NEW n \in p..(Len(s) + 1),
         \A j \in p..(n - 1) : s[j] \in Digits
  PROVE  ValuesFrom(s, p)[n] \in Nat
  <1> DEFINE v == ValuesFrom(s, p)
             Bad == {q \in p..n : v[q] \notin Nat}
  <1>1. v[p] = 0 /\ \A q \in p..Len(s) : v[q + 1] = v[q] * 10 + Digit[s[q]]
    BY ValueOfDigits
  <1> HIDE DEF v
  <1>2. SUFFICES ASSUME Bad # {} PROVE FALSE
    <2>1. n \in p..n
      OBVIOUS
    <2> QED BY <1>2, <2>1 DEF v
  <1>3. Bad \subseteq Nat /\ Len(s) \in Nat
    OBVIOUS
  <1>4. PICK m \in Bad : \A k \in Bad : m <= k
    <2> HIDE DEF Bad
    <2> QED BY <1>2, <1>3, Least
  <1>5. m # p /\ m \in p..n /\ v[m] \notin Nat
    BY <1>1
  <1>6. PICK k \in p..n : k + 1 = m /\ k \in p..Len(s) /\ k \in p..(n - 1) /\ ~(m <= k)
    <2>1. m - 1 \in p..n /\ m - 1 + 1 = m /\ m - 1 \in p..Len(s) /\ m - 1 \in p..(n - 1) /\ ~(m <= m - 1)
      BY <1>3, <1>5
    <2> QED BY <2>1
  <1>7. v[k] \in Nat
    BY <1>4, <1>6
  <1>8. Digit[s[k]] \in 0..9
    BY <1>6, DigitValue
  <1>9. v[m] = v[k] * 10 + Digit[s[k]]
    BY <1>1, <1>6
  <1>10. PICK a \in Nat, b \in Nat : a = v[k] /\ b = Digit[s[k]]
    BY <1>7, <1>8
  <1>11. v[m] = a * 10 + b
    BY <1>9, <1>10
  <1>12. a * 10 + b \in Nat
    OBVIOUS
  <1> QED BY <1>5, <1>11, <1>12

-----------------------------------------------------------------------------
(* What TokenAt finds. *)

(* A token of one character. *)
LEMMA SingleIs ==
  ASSUME NEW s, NEW p, s[p] \in Singles
  PROVE  TokenAt(s, p) = Found(Plain(s[p]), p + 1)
  BY KindsApart DEF TokenAt

(* One = or two. *)
LEMMA EqIs ==
  ASSUME NEW s, NEW p, s[p] = "="
  PROVE  TokenAt(s, p) = IF p < Len(s) /\ s[p + 1] = "=" THEN Found(Plain("=="), p + 2)
                                                         ELSE Found(Plain("="), p + 1)
  BY KindsApart DEF TokenAt

(* What begins with a digit is a number, *)
LEMMA NumberAtDigit ==
  ASSUME NEW s, NEW p, s[p] \in Digits
  PROVE  TokenAt(s, p) = NumberAt(s, p)
  BY KindsApart DEF TokenAt

(* with a quote a string, *)
LEMMA StringAtQuote ==
  ASSUME NEW s, NEW p, s[p] \in Quotes
  PROVE  TokenAt(s, p) = StringAt(s, p)
  BY KindsApart DEF TokenAt

(* with a letter a name, *)
LEMMA NameAtStart ==
  ASSUME NEW s, NEW p, s[p] \in NameStart
  PROVE  TokenAt(s, p) = NameAt(s, p)
  BY KindsApart DEF TokenAt

(* and with anything else no token. *)
LEMMA NothingIs ==
  ASSUME NEW s, NEW p, s[p] \notin {"="} \cup Singles \cup Digits \cup Quotes \cup NameStart
  PROVE  TokenAt(s, p) = Found(Plain("PARSE"), 0)
  BY DEF TokenAt

(* A number without a point. *)
LEMMA IntegerIs ==
  ASSUME NEW C, NEW s \in Seq(C), NEW p \in 1..Len(s), NEW q \in (p + 1)..(Len(s) + 1),
         \A j \in p..(q - 1) : s[j] \in Digits, q <= Len(s) => s[q] \notin Digits \cup {"."}
  PROVE  TokenAt(s, p) = Found(IntToken(Wrap(ValuesFrom(s, p)[q])), q)
  <1>1. p \in p..(q - 1) /\ p \in 1..(Len(s) + 1) /\ q \in p..(Len(s) + 1)
    OBVIOUS
  <1>2. TokenAt(s, p) = NumberAt(s, p)
    BY <1>1, NumberAtDigit
  <1>3. AfterRun(s, p, Digits) = q
    BY <1>1, AfterRunIs
  <1>4. ~(q <= Len(s) /\ s[q] = ".")
    OBVIOUS
  <1> QED BY <1>2, <1>3, <1>4 DEF NumberAt

(* A number with a point. *)
LEMMA NumberIs ==
  ASSUME NEW C, NEW s \in Seq(C), NEW p \in 1..Len(s), NEW q \in (p + 1)..Len(s),
         NEW r \in (q + 1)..(Len(s) + 1),
         \A j \in p..(q - 1) : s[j] \in Digits, s[q] = ".",
         \A j \in (q + 1)..(r - 1) : s[j] \in Digits, r <= Len(s) => s[r] \notin Digits
  PROVE  TokenAt(s, p) =
           Found(NumToken([whole |-> Wrap(ValuesFrom(s, p)[q]),
                           digits |-> [j \in 1..(r - q - 1) |-> Digit[s[q + j]]]]), r)
  <1>1. /\ p \in p..(q - 1) /\ p \in 1..(Len(s) + 1) /\ q \in p..(Len(s) + 1) /\ q <= Len(s)
        /\ q + 1 \in 1..(Len(s) + 1)
    OBVIOUS
  <1>2. TokenAt(s, p) = NumberAt(s, p)
    BY <1>1, NumberAtDigit
  <1>3. s[q] \notin Digits
    BY KindsApart
  <1>4. AfterRun(s, p, Digits) = q
    BY <1>1, <1>3, AfterRunIs
  <1>5. AfterRun(s, q + 1, Digits) = r
    BY <1>1, AfterRunIs
  <1> QED BY <1>1, <1>2, <1>4, <1>5 DEF NumberAt

(* A string, which ends at the first quote like the one it begins with.    *)
LEMMA StringIs ==
  ASSUME NEW C, NEW s \in Seq(C), NEW p \in 1..Len(s), NEW q \in (p + 1)..Len(s),
         s[p] \in Quotes, s[q] = s[p], \A j \in (p + 1)..(q - 1) : s[j] # s[p]
  PROVE  TokenAt(s, p) = Found(StrToken(Piece(s, p + 1, q)), q + 1)
  <1> DEFINE closing == {r \in (p + 1)..Len(s) : s[r] = s[p]}
             close == CHOOSE c \in closing : \A r \in closing : c <= r
  <1>1. q \in closing
    OBVIOUS
  <1>2. \A r \in closing : q <= r
    <2>1. SUFFICES ASSUME NEW r \in closing, r < q PROVE FALSE
      OBVIOUS
    <2>2. r \in (p + 1)..(q - 1) /\ s[r] = s[p]
      BY <2>1
    <2> QED BY <2>2
  <1>3. close \in closing /\ \A r \in closing : close <= r
    <2> HIDE DEF closing
    <2> QED BY <1>1, <1>2
  <1>4. close = q
    <2>1. PICK c : c = close
      OBVIOUS
    <2>2. c \in closing /\ c <= q /\ q <= c
      <3> HIDE DEF close, closing
      <3> QED BY <1>1, <1>2, <1>3, <2>1
    <2>3. c \in Int /\ q \in Int
      BY <2>2
    <2> HIDE DEF close, closing
    <2> QED BY <2>1, <2>2, <2>3
  <1>5. TokenAt(s, p) = StringAt(s, p)
    BY StringAtQuote
  <1>6. StringAt(s, p) = Found(StrToken(Piece(s, p + 1, close)), close + 1)
    BY <1>1 DEF StringAt
  <1> QED BY <1>4, <1>5, <1>6

(* Or does not end. *)
LEMMA NoStringIs ==
  ASSUME NEW s, NEW p, s[p] \in Quotes, \A j \in (p + 1)..Len(s) : s[j] # s[p]
  PROVE  TokenAt(s, p) = Found(Plain("OUT_OF_MEMORY"), 0)
  <1>1. {r \in (p + 1)..Len(s) : s[r] = s[p]} = {}
    OBVIOUS
  <1> QED BY <1>1, StringAtQuote DEF StringAt

(* A name, or the keyword. *)
LEMMA NameIs ==
  ASSUME NEW C, NEW s \in Seq(C), NEW p \in 1..Len(s), NEW q \in (p + 1)..(Len(s) + 1),
         s[p] \in NameStart, \A j \in p..(q - 1) : s[j] \in NameChars,
         q <= Len(s) => s[q] \notin NameChars
  PROVE  TokenAt(s, p) = Found(NameToken(Piece(s, p, q)), q)
  <1>1. p \in 1..(Len(s) + 1) /\ q \in p..(Len(s) + 1)
    OBVIOUS
  <1>2. AfterRun(s, p, NameChars) = q
    BY <1>1, AfterRunIs
  <1>3. TokenAt(s, p) = NameAt(s, p)
    BY NameAtStart
  <1> QED BY <1>2, <1>3 DEF NameAt, NameToken

(* A token ends behind its first character.                                *)
LEMMA NextIsLater ==
  ASSUME NEW C, NEW s \in Seq(C), NEW p \in 1..Len(s), TokenAt(s, p).next # 0
  PROVE  TokenAt(s, p).next \in (p + 1)..(Len(s) + 1)
  <1>0. Len(s) \in Nat /\ p \in 1..(Len(s) + 1) /\ p \in Nat /\ p <= Len(s)
    OBVIOUS
  <1>1. CASE s[p] \in Singles
    <2>1. TokenAt(s, p).next = p + 1
      BY <1>1, SingleIs DEF Found
    <2> QED BY <1>0, <2>1
  <1>2. CASE s[p] = "="
    <2>1. TokenAt(s, p).next = p + 1 \/ (p < Len(s) /\ TokenAt(s, p).next = p + 2)
      BY <1>2, EqIs DEF Found
    <2> QED BY <1>0, <2>1
  <1>3. CASE s[p] \in Digits
    <2>1. PICK q : q = AfterRun(s, p, Digits)
      OBVIOUS
    <2>2. q \in p..(Len(s) + 1) /\ (q <= Len(s) => s[q] \notin Digits)
      BY <1>0, <2>1, AfterRunEnds
    <2>3. q # p
      BY <1>0, <1>3, <2>2
    <2>4. q \in (p + 1)..(Len(s) + 1)
      BY <1>0, <2>2, <2>3
    <2>5. PICK r : r = AfterRun(s, q + 1, Digits)
      OBVIOUS
    <2>6. q <= Len(s) => r \in (q + 1)..(Len(s) + 1)
      <3>1. ASSUME q <= Len(s) PROVE q + 1 \in 1..(Len(s) + 1)
        BY <1>0, <2>4, <3>1
      <3> QED BY <2>5, <3>1, AfterRunEnds
    <2>7. NumberAt(s, p).next = q \/ (q <= Len(s) /\ NumberAt(s, p).next = r)
      BY <2>1, <2>5 DEF NumberAt, Found
    <2>8. q <= Len(s) => r \in (p + 1)..(Len(s) + 1)
      BY <1>0, <2>4, <2>6
    <2> QED BY <1>3, <2>4, <2>7, <2>8, NumberAtDigit
  <1>4. CASE s[p] \in Quotes
    <2> DEFINE closing == {r \in (p + 1)..Len(s) : s[r] = s[p]}
               close == CHOOSE c \in closing : \A r \in closing : c <= r
    <2>1. StringAt(s, p) = IF closing = {} THEN Found(Plain("OUT_OF_MEMORY"), 0)
                           ELSE Found(StrToken(Piece(s, p + 1, close)), close + 1)
      BY DEF StringAt
    <2>2. closing # {} => close \in closing
      <3>1. SUFFICES ASSUME closing # {} PROVE close \in closing
        OBVIOUS
      <3>2. closing \subseteq Nat
        BY <1>0
      <3>3. \E c \in closing : \A r \in closing : c <= r
        <4> HIDE DEF closing
        <4> QED BY <3>1, <3>2, Least
      <3> HIDE DEF closing
      <3> QED BY <3>3
    <2>3. TokenAt(s, p) = StringAt(s, p)
      BY <1>4, StringAtQuote
    <2>4. closing # {} /\ TokenAt(s, p).next = close + 1
      <3> HIDE DEF close, closing
      <3> QED BY <2>1, <2>3 DEF Found
    <2>5. close \in (p + 1)..Len(s)
      BY <2>2, <2>4
    <2> HIDE DEF close
    <2> QED BY <1>0, <2>4, <2>5
  <1>5. CASE s[p] \in NameStart
    <2>1. PICK q : q = AfterRun(s, p, NameChars)
      OBVIOUS
    <2>2. q \in p..(Len(s) + 1) /\ (q <= Len(s) => s[q] \notin NameChars)
      BY <1>0, <2>1, AfterRunEnds
    <2>3. q # p
      BY <1>0, <1>5, <2>2 DEF NameChars
    <2>4. TokenAt(s, p).next = q
      BY <1>5, <2>1, NameAtStart DEF NameAt, Found
    <2> QED BY <1>0, <2>2, <2>3, <2>4
  <1>6. CASE s[p] \notin {"="} \cup Singles \cup Digits \cup Quotes \cup NameStart
    BY <1>6, NothingIs DEF Found
  <1> QED BY <1>1, <1>2, <1>3, <1>4, <1>5, <1>6

-----------------------------------------------------------------------------
(* The tokens from each place on. *)

FromPlace(s, f, p) ==
  IF p = Len(s) + 1 THEN <<Plain("eof")>>
  ELSE IF s[p] \in Spaces THEN f[p + 1]
  ELSE IF TokenAt(s, p).next = 0 THEN <<TokenAt(s, p).token>>
  ELSE <<TokenAt(s, p).token>> \o f[TokenAt(s, p).next]

(* It is the tokens behind the place that FromPlace asks for.              *)
LEMMA FromPlaceLooksAhead ==
  ASSUME NEW C, NEW s \in Seq(C), NEW p \in 1..(Len(s) + 1), NEW f, NEW g,
         \A q \in (p + 1)..(Len(s) + 1) : f[q] = g[q]
  PROVE  FromPlace(s, f, p) = FromPlace(s, g, p)
  <1>1. CASE p = Len(s) + 1
    BY <1>1 DEF FromPlace
  <1>2. CASE p # Len(s) + 1
    <2>1. p \in 1..Len(s) /\ p + 1 \in (p + 1)..(Len(s) + 1)
      BY <1>2
    <2>2. f[p + 1] = g[p + 1]
      BY <2>1
    <2>3. TokenAt(s, p).next # 0 => f[TokenAt(s, p).next] = g[TokenAt(s, p).next]
      BY <2>1, NextIsLater
    <2> QED BY <2>2, <2>3 DEF FromPlace
  <1> QED BY <1>1, <1>2

(* The equation of TokensFrom has a solution.                              *)
LEMMA TokensExist ==
  ASSUME NEW C, NEW s \in Seq(C)
  PROVE  \E f : /\ f = [p \in 1..(Len(s) + 1) |-> f[p]]
                /\ \A p \in 1..(Len(s) + 1) : f[p] = FromPlace(s, f, p)
  <1>1. PICK n \in Nat : n = Len(s) + 1 /\ n >= 1
    OBVIOUS
  <1> DEFINE Solves(f, k) == f = [p \in k..n |-> f[p]] /\ \A p \in k..n : f[p] = FromPlace(s, f, p)
             Bad == {k \in 1..n : ~ \E f : Solves(f, k)}
  <1>2. SUFFICES ASSUME Bad # {} PROVE FALSE
    <2>1. 1 \in 1..n
      BY <1>1
    <2>2. \E f : Solves(f, 1)
      BY <1>2, <2>1
    <2> QED BY <1>1, <2>2
  <1>3. PICK m \in Bad : \A k \in Bad : k <= m
    <2>1. Bad \subseteq 0..n
      OBVIOUS
    <2> HIDE DEF Bad
    <2> QED BY <1>2, <2>1, Greatest
  <1>4. m \in 1..n /\ ~ \E f : Solves(f, m)
    OBVIOUS
  <1>5. m # n
    <2>1. SUFFICES ASSUME m = n PROVE FALSE
      OBVIOUS
    <2>2. PICK g : g = [p \in n..n |-> <<Plain("eof")>>]
      OBVIOUS
    <2>3. \A p \in n..n : p = n
      OBVIOUS
    <2>4. FromPlace(s, g, n) = <<Plain("eof")>>
      BY <1>1 DEF FromPlace
    <2>5. Solves(g, n)
      BY <2>2, <2>3, <2>4
    <2> QED BY <1>4, <2>1, <2>5
  <1>6. PICK k \in Nat : k = m + 1 /\ k \in 1..n /\ ~(k <= m)
    BY <1>4, <1>5
  <1>7. PICK f : Solves(f, k)
    BY <1>3, <1>6
  <1>8. PICK g : g = [p \in m..n |-> IF p = m THEN FromPlace(s, f, m) ELSE f[p]]
    OBVIOUS
  <1>9. \A p \in k..n : p \in m..n /\ p # m /\ g[p] = f[p]
    BY <1>4, <1>6, <1>8
  <1>10. ASSUME NEW p \in m..n
         PROVE  g[p] = FromPlace(s, g, p)
    <2>1. p \in 1..(Len(s) + 1)
      BY <1>1, <1>4
    <2>2. \A q \in (p + 1)..(Len(s) + 1) : q \in k..n
      BY <1>1, <1>4, <1>6
    <2>3. FromPlace(s, f, p) = FromPlace(s, g, p)
      BY <1>9, <2>1, <2>2, FromPlaceLooksAhead
    <2>4. CASE p = m
      BY <1>8, <2>3, <2>4
    <2>5. CASE p # m
      <3>1. p \in k..n
        BY <1>4, <1>6, <2>5
      <3> QED BY <1>7, <1>9, <2>3, <3>1
    <2> QED BY <2>4, <2>5
  <1>11. g = [p \in m..n |-> g[p]]
    BY <1>8
  <1>12. Solves(g, m)
    BY <1>10, <1>11
  <1> QED BY <1>4, <1>12

(* So TokensFrom solves it.                                                *)
LEMMA TokensEquation ==
  ASSUME NEW C, NEW s \in Seq(C)
  PROVE  \A p \in 1..(Len(s) + 1) : TokensFrom(s)[p] = FromPlace(s, TokensFrom(s), p)
  <1> DEFINE Solves(f) ==
        f = [p \in 1..(Len(s) + 1) |->
               IF p = Len(s) + 1 THEN <<Plain("eof")>>
               ELSE IF s[p] \in Spaces THEN f[p + 1]
               ELSE IF TokenAt(s, p).next = 0 THEN <<TokenAt(s, p).token>>
               ELSE <<TokenAt(s, p).token>> \o f[TokenAt(s, p).next]]
  <1>1. PICK f : /\ f = [p \in 1..(Len(s) + 1) |-> f[p]]
                 /\ \A p \in 1..(Len(s) + 1) : f[p] = FromPlace(s, f, p)
    BY TokensExist
  <1>2. Solves(f)
    BY <1>1 DEF FromPlace
  <1>3. TokensFrom(s) = CHOOSE g : Solves(g)
    BY DEF TokensFrom
  <1>4. PICK t : t = TokensFrom(s) /\ Solves(t)
    BY <1>2, <1>3
  <1>5. \A p \in 1..(Len(s) + 1) : t[p] = FromPlace(s, t, p)
    BY <1>4 DEF FromPlace
  <1> QED BY <1>4, <1>5

(* The tokens a text has at its places, and what says how it ends.         *)
TokensIn(s) == {TokenAt(s, p).token : p \in 1..Len(s)} \cup {Plain("eof")}

(* They are tokens of the text, or the end. *)
LEMMA TokensType ==
  ASSUME NEW C, NEW s \in Seq(C)
  PROVE  \A p \in 1..(Len(s) + 1) : TokensFrom(s)[p] \in Seq(TokensIn(s))
  <1>1. PICK T : T = TokensFrom(s) /\ \A p \in 1..(Len(s) + 1) : T[p] = FromPlace(s, T, p)
    BY TokensEquation
  <1> DEFINE Bad == {p \in 1..(Len(s) + 1) : T[p] \notin Seq(TokensIn(s))}
  <1>2. SUFFICES ASSUME Bad # {} PROVE FALSE
    BY <1>1
  <1>3. PICK n \in Nat : n = Len(s) + 1
    OBVIOUS
  <1>4. PICK p \in Bad : \A q \in Bad : q <= p
    <2>1. Bad \subseteq 0..n
      BY <1>3
    <2> HIDE DEF Bad
    <2> QED BY <1>2, <2>1, Greatest
  <1>5. p \in 1..n /\ T[p] = FromPlace(s, T, p) /\ T[p] \notin Seq(TokensIn(s))
    BY <1>1, <1>3
  <1>6. \A q \in (p + 1)..n : T[q] \in Seq(TokensIn(s))
    <2>1. ASSUME NEW q \in (p + 1)..n
          PROVE  T[q] \in Seq(TokensIn(s))
      <3>1. q \in 1..n /\ ~(q <= p)
        BY <1>5
      <3> QED BY <1>3, <1>4, <3>1
    <2> QED BY <2>1
  <1>7. <<Plain("eof")>> \in Seq(TokensIn(s))
    <2>1. Plain("eof") \in TokensIn(s)
      BY DEF TokensIn
    <2> QED BY <2>1
  <1>8. CASE p = n
    BY <1>3, <1>5, <1>7, <1>8 DEF FromPlace
  <1>9. CASE p # n
    <2>1. p \in 1..Len(s) /\ p + 1 \in (p + 1)..n
      BY <1>3, <1>5, <1>9
    <2>2. PICK a \in TokensIn(s) : a = TokenAt(s, p).token
      BY <2>1 DEF TokensIn
    <2>3. <<a>> \in Seq(TokensIn(s))
      OBVIOUS
    <2>4. ASSUME TokenAt(s, p).next # 0
          PROVE  <<a>> \o T[TokenAt(s, p).next] \in Seq(TokensIn(s))
      <3>1. PICK t \in Seq(TokensIn(s)) : t = T[TokenAt(s, p).next]
        BY <1>3, <1>6, <2>1, <2>4, NextIsLater
      <3>2. <<a>> \o t \in Seq(TokensIn(s))
        BY <2>3, ConcatProperties
      <3> QED BY <3>1, <3>2
    <2>5. T[p + 1] \in Seq(TokensIn(s))
      BY <1>6, <2>1
    <2> QED BY <1>3, <1>5, <1>9, <2>2, <2>3, <2>4, <2>5 DEF FromPlace
  <1> QED BY <1>8, <1>9

-----------------------------------------------------------------------------
(* The width of an Integer. *)

(* There are Integers enough for a digit. *)
LEMMA Width == IntMax \in Nat /\ IntMax >= 9
  BY LexerAssumption

(* What a remainder is. *)
LEMMA Remainder ==
  ASSUME NEW a \in Int, NEW m \in Nat \ {0}
  PROVE  \E d \in Int, q \in 0..(m - 1) : q = a % m /\ a = m * d + q
  <1>1. a % m \in 0..(m - 1)
    OBVIOUS
  <1>2. a \div m \in Int
    OBVIOUS
  <1>3. a = m * (a \div m) + (a % m)
    OBVIOUS
  <1> QED BY <1>1, <1>2, <1>3

(* Where a remainder is unique. *)
LEMMA RemainderIs ==
  ASSUME NEW a \in Int, NEW m \in Nat \ {0}, NEW k \in Int, NEW r \in 0..(m - 1), a = k * m + r
  PROVE  a % m = r
  <1>1. PICK d \in Int, q \in 0..(m - 1) : q = a % m /\ a = m * d + q
    BY Remainder
  <1>2. PICK e \in Int : e = k - d
    BY <1>1
  <1>3. m * e = q - r
    <2>1. PICK mk \in Int, md \in Int : mk = k * m /\ md = m * d
      OBVIOUS
    <2>2. m * e = mk - md
      BY <1>2, <2>1
    <2>3. mk + r = md + q
      BY <1>1, <2>1
    <2>4. r \in Int /\ q \in Int
      OBVIOUS
    <2>5. mk - md = q - r
      BY <2>3, <2>4
    <2> QED BY <2>2, <2>5
  <1>4. q - r < m /\ q - r > -m
    BY <1>1
  <1>5. ~(e >= 1)
    <2>1. SUFFICES ASSUME e >= 1 PROVE FALSE
      OBVIOUS
    <2>2. m * e >= m
      BY <2>1
    <2> QED BY <1>3, <1>4, <2>2
  <1>6. ~(e <= -1)
    <2>1. SUFFICES ASSUME e <= -1 PROVE FALSE
      OBVIOUS
    <2>2. m * e <= -m
      BY <2>1
    <2> QED BY <1>3, <1>4, <2>2
  <1>7. e = 0
    BY <1>5, <1>6
  <1> QED BY <1>1, <1>3, <1>7

(* Wrap gives an Integer, which differs by a multiple of 2 * (IntMax + 1). *)
LEMMA WrapIs ==
  ASSUME NEW x \in Int
  PROVE  /\ Wrap(x) \in (-IntMax - 1)..IntMax
         /\ \E k \in Int : x = k * (2 * (IntMax + 1)) + Wrap(x)
  <1>1. PICK m \in Nat \ {0} : m = 2 * (IntMax + 1)
    BY Width
  <1>2. PICK a \in Int : a = x + IntMax + 1
    BY Width
  <1>3. PICK d \in Int, q \in 0..(m - 1) : q = a % m /\ a = m * d + q
    BY Remainder
  <1>4. Wrap(x) = q - IntMax - 1
    BY <1>1, <1>2, <1>3 DEF Wrap
  <1>5. q - IntMax - 1 \in (-IntMax - 1)..IntMax
    BY <1>1, <1>3, Width
  <1>6. m * d = d * m
    OBVIOUS
  <1>7. x = d * m + (q - IntMax - 1)
    BY <1>2, <1>3, <1>6, Width
  <1> QED BY <1>1, <1>4, <1>5, <1>7

(* That is the only one that does.                                         *)
LEMMA WrapUnique ==
  ASSUME NEW x \in Int, NEW k \in Int, NEW r \in (-IntMax - 1)..IntMax,
         x = k * (2 * (IntMax + 1)) + r
  PROVE  Wrap(x) = r
  <1>1. PICK m \in Nat \ {0} : m = 2 * (IntMax + 1)
    BY Width
  <1>2. PICK q \in 0..(m - 1) : q = r + IntMax + 1
    BY <1>1, Width
  <1>3. PICK a \in Int : a = x + IntMax + 1
    BY Width
  <1>4. PICK b \in Int : b = k * m /\ x = b + r
    BY <1>1
  <1>5. a = k * m + q
    BY <1>2, <1>3, <1>4, Width
  <1>6. a % m = q
    BY <1>5, RemainderIs
  <1> QED BY <1>1, <1>2, <1>3, <1>6, Width DEF Wrap

(* To wrap after each digit is to wrap once.                               *)
LEMMA WrapDigit ==
  ASSUME NEW x \in Int, NEW c \in Digits
  PROVE  WithDigit(Wrap(x), c) = Wrap(x * 10 + Digit[c])
  <1>1. PICK m \in Nat \ {0} : m = 2 * (IntMax + 1)
    BY Width
  <1>2. PICK d \in Int : d = Digit[c]
    BY DigitValue
  <1>3. PICK w \in Int, k \in Int : w = Wrap(x) /\ x = k * m + w
    <2>1. Wrap(x) \in Int
      BY WrapIs, Width
    <2> QED BY <1>1, <2>1, WrapIs
  <1>4. PICK y \in Int, j \in Int, r \in (-IntMax - 1)..IntMax :
          y = w * 10 + d /\ r = Wrap(y) /\ y = j * m + r
    <2>1. PICK y \in Int : y = w * 10 + d
      OBVIOUS
    <2> QED BY <1>1, <2>1, WrapIs
  <1>5. PICK u \in Int : u = x * 10 + d
    OBVIOUS
  <1>6. PICK i \in Int : i = 10 * k + j
    OBVIOUS
  <1>7. u = i * m + r
    <2>1. PICK km \in Int, jm \in Int : km = k * m /\ jm = j * m
      OBVIOUS
    <2>2. i * m = 10 * km + jm
      BY <1>6, <2>1
    <2>3. u = 10 * km + jm + r
      <3>1. r \in Int
        BY Width
      <3>2. x = km + w /\ y = jm + r
        BY <1>3, <1>4, <2>1
      <3> QED BY <1>4, <1>5, <3>1, <3>2
    <2> QED BY <2>2, <2>3
  <1>8. Wrap(u) = r
    BY <1>1, <1>7, WrapUnique
  <1>9. WithDigit(w, c) = Wrap(y)
    BY <1>2, <1>4 DEF WithDigit, Wrap
  <1> QED BY <1>2, <1>3, <1>4, <1>5, <1>8, <1>9

(* The first digit fits. *)
LEMMA WrapFirst ==
  ASSUME NEW c \in Digits
  PROVE  Wrap(0 * 10 + Digit[c]) = Digit[c] /\ Digit[c] \in (-IntMax - 1)..IntMax
  <1>1. PICK d \in 0..9 : d = Digit[c]
    BY DigitValue
  <1>2. d \in (-IntMax - 1)..IntMax /\ d = 0 * (2 * (IntMax + 1)) + d /\ d = 0 * 10 + d
    BY Width
  <1> QED BY <1>1, <1>2, WrapUnique

-----------------------------------------------------------------------------
(* The input buffer. *)

(* A ZIO over the bytes B. *)
Zios(B) == [src : Seq(B), limit : Nat \ {0}, eof : BOOLEAN, unread : Seq(B)]

(* What is still to be read; behind feof there is nothing.                 *)
RestOf(w) == w.unread \o w.src
ZioOK(w, B) == w \in Zios(B) /\ (w.eof => w.src = <<>>)

(* The first n elements of a sequence and the others. *)
LEMMA Parts ==
  ASSUME NEW S, NEW s \in Seq(S), NEW n \in 0..Len(s)
  PROVE  /\ SubSeq(s, 1, n) \in Seq(S) /\ Len(SubSeq(s, 1, n)) = n
         /\ \A i \in 1..n : SubSeq(s, 1, n)[i] = s[i]
         /\ SubSeq(s, n + 1, Len(s)) \in Seq(S) /\ Len(SubSeq(s, n + 1, Len(s))) = Len(s) - n
         /\ \A i \in 1..(Len(s) - n) : SubSeq(s, n + 1, Len(s))[i] = s[n + i]
  <1>1. Len(s) \in Nat /\ n \in Nat /\ n <= Len(s)
    OBVIOUS
  <1>2. \A i \in 1..n : s[i] \in S
    OBVIOUS
  <1>3. /\ SubSeq(s, 1, n) \in Seq(S)
        /\ Len(SubSeq(s, 1, n)) = IF 1 <= n THEN n - 1 + 1 ELSE 0
        /\ \A i \in 1..(n - 1 + 1) : SubSeq(s, 1, n)[i] = s[1 + i - 1]
    BY <1>2, SubSeqProperties
  <1>4. /\ n + 1 \in Int /\ Len(s) \in Int
        /\ \A i \in (n + 1)..Len(s) : s[i] \in S
    BY <1>1
  <1>5. /\ SubSeq(s, n + 1, Len(s)) \in Seq(S)
        /\ Len(SubSeq(s, n + 1, Len(s))) = IF n + 1 <= Len(s) THEN Len(s) - (n + 1) + 1 ELSE 0
        /\ \A i \in 1..(Len(s) - (n + 1) + 1) : SubSeq(s, n + 1, Len(s))[i] = s[n + 1 + i - 1]
    BY <1>4, SubSeqProperties
  <1> QED BY <1>1, <1>3, <1>5

(* Two parts put together. *)
LEMMA Joined ==
  ASSUME NEW S, NEW s \in Seq(S), NEW t \in Seq(S)
  PROVE  /\ s \o t \in Seq(S) /\ Len(s \o t) = Len(s) + Len(t)
         /\ \A i \in 1..Len(s) : (s \o t)[i] = s[i]
         /\ \A i \in 1..Len(t) : (s \o t)[Len(s) + i] = t[i]
  <1>1. /\ s \o t \in Seq(S) /\ Len(s \o t) = Len(s) + Len(t)
        /\ \A i \in 1..(Len(s) + Len(t)) :
             (s \o t)[i] = IF i <= Len(s) THEN s[i] ELSE t[i - Len(s)]
    BY ConcatProperties
  <1>2. Len(s) \in Nat /\ Len(t) \in Nat
    OBVIOUS
  <1>3. \A i \in 1..Len(s) : i \in 1..(Len(s) + Len(t)) /\ i <= Len(s)
    BY <1>2
  <1>4. \A i \in 1..Len(t) : /\ Len(s) + i \in 1..(Len(s) + Len(t)) /\ ~(Len(s) + i <= Len(s))
                            /\ Len(s) + i - Len(s) = i
    BY <1>2
  <1> QED BY <1>1, <1>3, <1>4

(* The two parts of a sequence put together. *)
LEMMA PartsJoined ==
  ASSUME NEW S, NEW s \in Seq(S), NEW n \in 0..Len(s)
  PROVE  SubSeq(s, 1, n) \o SubSeq(s, n + 1, Len(s)) = s
  <1>1. PICK u \in Seq(S), v \in Seq(S) :
          /\ u = SubSeq(s, 1, n) /\ Len(u) = n /\ \A i \in 1..n : u[i] = s[i]
          /\ v = SubSeq(s, n + 1, Len(s)) /\ Len(v) = Len(s) - n
          /\ \A i \in 1..(Len(s) - n) : v[i] = s[n + i]
    <2>1. /\ SubSeq(s, 1, n) \in Seq(S) /\ Len(SubSeq(s, 1, n)) = n
          /\ \A i \in 1..n : SubSeq(s, 1, n)[i] = s[i]
          /\ SubSeq(s, n + 1, Len(s)) \in Seq(S) /\ Len(SubSeq(s, n + 1, Len(s))) = Len(s) - n
          /\ \A i \in 1..(Len(s) - n) : SubSeq(s, n + 1, Len(s))[i] = s[n + i]
      BY Parts
    <2> QED BY <2>1
  <1>2. PICK r \in Seq(S) : /\ r = u \o v /\ Len(r) = Len(u) + Len(v)
                            /\ \A i \in 1..Len(u) : r[i] = u[i]
                            /\ \A i \in 1..Len(v) : r[Len(u) + i] = v[i]
    <2>1. /\ u \o v \in Seq(S) /\ Len(u \o v) = Len(u) + Len(v)
          /\ \A i \in 1..Len(u) : (u \o v)[i] = u[i]
          /\ \A i \in 1..Len(v) : (u \o v)[Len(u) + i] = v[i]
      BY Joined
    <2> QED BY <2>1
  <1>3. Len(r) = Len(s) /\ n \in Nat /\ Len(s) \in Nat
    <2>1. Len(u) = n /\ Len(v) = Len(s) - n /\ Len(r) = Len(u) + Len(v)
      BY <1>1, <1>2
    <2>2. n \in Nat /\ Len(s) \in Nat
      OBVIOUS
    <2> QED BY <2>1, <2>2
  <1>4. \A i \in 1..Len(s) : r[i] = s[i]
    <2>1. SUFFICES ASSUME NEW i \in 1..Len(s) PROVE r[i] = s[i]
      OBVIOUS
    <2>2. CASE i <= n
      <3>1. i \in 1..n
        BY <2>2
      <3> QED BY <1>1, <1>2, <3>1
    <2>3. CASE i > n
      <3>1. PICK j \in 1..(Len(s) - n) : n + j = i
        <4>1. i - n \in 1..(Len(s) - n) /\ n + (i - n) = i
          BY <1>3, <2>3
        <4> QED BY <4>1
      <3> QED BY <1>1, <1>2, <3>1
    <2> QED BY <1>3, <2>2, <2>3
  <1>5. r = s
    BY <1>3, <1>4, SeqEqual
  <1> QED BY <1>1, <1>2, <1>5

(* Pieces of a sequence, which grow at their end. *)
LEMMA PieceIs ==
  ASSUME NEW S, NEW s \in Seq(S), NEW p \in 1..(Len(s) + 1), NEW q \in p..(Len(s) + 1)
  PROVE  /\ Piece(s, p, q) \in Seq(S) /\ Len(Piece(s, p, q)) = q - p
         /\ \A i \in 1..(q - p) : Piece(s, p, q)[i] = s[p + i - 1]
  <1>1. Len(s) \in Nat /\ p \in Int /\ q - 1 \in Int
    OBVIOUS
  <1>2. \A i \in p..(q - 1) : s[i] \in S
    <2>1. \A i \in p..(q - 1) : i \in 1..Len(s)
      BY <1>1
    <2> QED BY <2>1
  <1>3. /\ SubSeq(s, p, q - 1) \in Seq(S)
        /\ Len(SubSeq(s, p, q - 1)) = IF p <= q - 1 THEN q - 1 - p + 1 ELSE 0
        /\ \A i \in 1..(q - 1 - p + 1) : SubSeq(s, p, q - 1)[i] = s[p + i - 1]
    BY <1>1, <1>2, SubSeqProperties
  <1>4. q - 1 - p + 1 = q - p /\ (~(p <= q - 1) => q - p = 0)
    BY <1>1
  <1> QED BY <1>3, <1>4 DEF Piece

(* A piece with the next element is the longer piece. *)
LEMMA PieceGrows ==
  ASSUME NEW S, NEW s \in Seq(S), NEW p \in 1..(Len(s) + 1), NEW q \in p..Len(s)
  PROVE  Append(Piece(s, p, q), s[q]) = Piece(s, p, q + 1)
  <1>1. /\ Len(s) \in Nat /\ p \in Nat /\ q \in Nat /\ q \in p..(Len(s) + 1)
        /\ q + 1 \in p..(Len(s) + 1) /\ s[q] \in S
    OBVIOUS
  <1>2. /\ Piece(s, p, q) \in Seq(S) /\ Len(Piece(s, p, q)) = q - p
        /\ \A i \in 1..(q - p) : Piece(s, p, q)[i] = s[p + i - 1]
    BY <1>1, PieceIs
  <1>3. PICK t \in Seq(S) : /\ t = Piece(s, p, q) /\ Len(t) = q - p
                            /\ \A i \in 1..(q - p) : t[i] = s[p + i - 1]
    BY <1>2
  <1>4. PICK m \in Nat : m = q + 1 /\ m \in p..(Len(s) + 1)
    BY <1>1
  <1>5. /\ Piece(s, p, m) \in Seq(S) /\ Len(Piece(s, p, m)) = m - p
        /\ \A i \in 1..(m - p) : Piece(s, p, m)[i] = s[p + i - 1]
    BY <1>4, PieceIs
  <1>6. PICK u \in Seq(S) : /\ u = Piece(s, p, m) /\ Len(u) = m - p
                            /\ \A i \in 1..(m - p) : u[i] = s[p + i - 1]
    BY <1>5
  <1>7. PICK v \in Seq(S) : /\ v = Append(t, s[q]) /\ Len(v) = Len(t) + 1
                            /\ v[Len(t) + 1] = s[q] /\ \A i \in 1..Len(t) : v[i] = t[i]
    <2>1. /\ Append(t, s[q]) \in Seq(S) /\ Len(Append(t, s[q])) = Len(t) + 1
          /\ Append(t, s[q])[Len(t) + 1] = s[q]
          /\ \A i \in 1..Len(t) : Append(t, s[q])[i] = t[i]
      BY <1>1
    <2> QED BY <2>1
  <1>8. Len(u) = Len(v)
    BY <1>1, <1>3, <1>4, <1>6, <1>7
  <1>9. \A i \in 1..Len(v) : v[i] = u[i]
    <2>1. SUFFICES ASSUME NEW i \in 1..(m - p) PROVE v[i] = u[i]
      BY <1>6, <1>8
    <2>2. i = q - p + 1 \/ i \in 1..(q - p)
      BY <1>1, <1>4
    <2>3. p + (q - p + 1) - 1 = q
      BY <1>1
    <2> QED BY <1>3, <1>6, <1>7, <2>1, <2>2, <2>3
  <1> QED BY <1>3, <1>4, <1>6, <1>7, <1>8, <1>9, SeqEqual

(* The empty piece, and that of one element. *)
LEMMA PieceStarts ==
  ASSUME NEW S, NEW s \in Seq(S), NEW p \in 1..(Len(s) + 1)
  PROVE  Piece(s, p, p) = <<>> /\ (p <= Len(s) => Piece(s, p, p + 1) = <<s[p]>>)
  <1>1. p \in p..(Len(s) + 1) /\ p - p = 0
    OBVIOUS
  <1>2. Piece(s, p, p) \in Seq(S) /\ Len(Piece(s, p, p)) = 0
    BY <1>1, PieceIs
  <1>3. Piece(s, p, p) = <<>>
    BY <1>2
  <1>4. p <= Len(s) => Append(Piece(s, p, p), s[p]) = Piece(s, p, p + 1)
    <2>1. p <= Len(s) => p \in p..Len(s)
      OBVIOUS
    <2> QED BY <2>1, PieceGrows
  <1>5. \A x : Append(<<>>, x) = <<x>>
    OBVIOUS
  <1> QED BY <1>3, <1>4, <1>5

(* All but the first. *)
LEMMA Others ==
  ASSUME NEW S, NEW s \in Seq(S), s # <<>>
  PROVE  /\ SubSeq(s, 2, Len(s)) \in Seq(S) /\ Len(SubSeq(s, 2, Len(s))) = Len(s) - 1
         /\ \A i \in 1..(Len(s) - 1) : SubSeq(s, 2, Len(s))[i] = s[i + 1]
         /\ s[1] \in S /\ Head(s) = s[1]
  <1>1. 1 \in 0..Len(s) /\ 1 + 1 = 2 /\ \A i \in 1..(Len(s) - 1) : 1 + i = i + 1
    OBVIOUS
  <1>2. /\ SubSeq(s, 1 + 1, Len(s)) \in Seq(S) /\ Len(SubSeq(s, 1 + 1, Len(s))) = Len(s) - 1
        /\ \A i \in 1..(Len(s) - 1) : SubSeq(s, 1 + 1, Len(s))[i] = s[1 + i]
    BY <1>1, Parts
  <1>3. s[1] \in S /\ Head(s) = s[1]
    OBVIOUS
  <1> QED BY <1>1, <1>2, <1>3

(* All but the first of two parts. *)
LEMMA OthersJoined ==
  ASSUME NEW S, NEW s \in Seq(S), NEW t \in Seq(S), s # <<>>
  PROVE  /\ s \o t # <<>> /\ (s \o t)[1] = s[1]
         /\ Len(SubSeq(s, 2, Len(s)) \o t) = Len(s \o t) - 1
         /\ \A i \in 1..(Len(s \o t) - 1) :
              (SubSeq(s, 2, Len(s)) \o t)[i] = (s \o t)[i + 1]
  <1>1. PICK u \in Seq(S) : /\ u = SubSeq(s, 2, Len(s)) /\ Len(u) = Len(s) - 1
                            /\ \A i \in 1..(Len(s) - 1) : u[i] = s[i + 1]
    <2>1. /\ SubSeq(s, 2, Len(s)) \in Seq(S) /\ Len(SubSeq(s, 2, Len(s))) = Len(s) - 1
          /\ \A i \in 1..(Len(s) - 1) : SubSeq(s, 2, Len(s))[i] = s[i + 1]
      BY Others
    <2> QED BY <2>1
  <1>2. PICK x \in Seq(S) : /\ x = s \o t /\ Len(x) = Len(s) + Len(t)
                            /\ \A i \in 1..Len(s) : x[i] = s[i]
                            /\ \A i \in 1..Len(t) : x[Len(s) + i] = t[i]
    <2>1. /\ s \o t \in Seq(S) /\ Len(s \o t) = Len(s) + Len(t)
          /\ \A i \in 1..Len(s) : (s \o t)[i] = s[i]
          /\ \A i \in 1..Len(t) : (s \o t)[Len(s) + i] = t[i]
      BY Joined
    <2> QED BY <2>1
  <1>3. PICK y \in Seq(S) : /\ y = u \o t /\ Len(y) = Len(u) + Len(t)
                            /\ \A i \in 1..Len(u) : y[i] = u[i]
                            /\ \A i \in 1..Len(t) : y[Len(u) + i] = t[i]
    <2>1. /\ u \o t \in Seq(S) /\ Len(u \o t) = Len(u) + Len(t)
          /\ \A i \in 1..Len(u) : (u \o t)[i] = u[i]
          /\ \A i \in 1..Len(t) : (u \o t)[Len(u) + i] = t[i]
      BY Joined
    <2> QED BY <2>1
  <1>4. Len(s) \in Nat /\ Len(s) >= 1 /\ Len(t) \in Nat
    OBVIOUS
  <1>5. Len(x) \in Nat /\ Len(x) >= 1 /\ Len(y) = Len(x) - 1 /\ 1 \in 1..Len(s)
    BY <1>1, <1>2, <1>3, <1>4
  <1>6. x # <<>> /\ x[1] = s[1]
    BY <1>2, <1>5
  <1>7. \A i \in 1..(Len(x) - 1) : y[i] = x[i + 1]
    <2>1. SUFFICES ASSUME NEW i \in 1..(Len(x) - 1) PROVE y[i] = x[i + 1]
      OBVIOUS
    <2>2. CASE i <= Len(u)
      <3>1. i \in 1..Len(u) /\ i \in 1..(Len(s) - 1) /\ i + 1 \in 1..Len(s)
        BY <1>1, <1>4, <2>2
      <3> QED BY <1>1, <1>2, <1>3, <3>1
    <2>3. CASE i > Len(u)
      <3>1. PICK j \in 1..Len(t) : i = Len(u) + j /\ i + 1 = Len(s) + j
        <4>0. Len(u) = Len(s) - 1 /\ Len(x) = Len(s) + Len(t)
          BY <1>1, <1>2
        <4>1. PICK a \in Nat, b \in Nat, l \in Nat, k \in Nat :
                a = Len(u) /\ b = Len(t) /\ l = Len(x) /\ k = Len(s)
          OBVIOUS
        <4>2. i \in 1..(l - 1) /\ i > a
          BY <2>3, <4>1
        <4>3. i - a \in 1..b /\ i = a + (i - a) /\ i + 1 = k + (i - a)
          BY <4>0, <4>1, <4>2
        <4> QED BY <4>1, <4>3
      <3> QED BY <1>2, <1>3, <3>1
    <2> QED BY <1>1, <1>4, <2>2, <2>3
  <1> QED BY <1>1, <1>2, <1>3, <1>5, <1>6, <1>7

(* ZIO_next takes one byte of a text without the byte that is EOF.         *)
LEMMA TakenIs ==
  ASSUME NEW B, EOF \notin B, NEW w, ZioOK(w, B)
  PROVE  /\ ZioOK(Taken(w), B)
         /\ RestOf(w) = <<>> => PeekChr(w) = EOF /\ RestOf(Taken(w)) = <<>>
         /\ RestOf(w) # <<>> => /\ PeekChr(w) = RestOf(w)[1]
                                /\ Len(RestOf(Taken(w))) = Len(RestOf(w)) - 1
                                /\ \A i \in 1..(Len(RestOf(w)) - 1) :
                                     RestOf(Taken(w))[i] = RestOf(w)[i + 1]
  <1>0. PICK src \in Seq(B), unread \in Seq(B), limit \in Nat \ {0}, eof \in BOOLEAN :
          /\ w = [src |-> src, limit |-> limit, eof |-> eof, unread |-> unread]
          /\ eof => src = <<>>
    BY DEF ZioOK, Zios
  <1>1. w.src = src /\ w.unread = unread /\ w.limit = limit /\ w.eof = eof
    BY <1>0
  <1>2. CASE unread # <<>>
    <2>1. PICK u \in Seq(B) : u = SubSeq(unread, 2, Len(unread))
      BY <1>2, Others
    <2>2. PeekChr(w) = unread[1] /\ unread[1] # EOF
      BY <1>1, <1>2, Others DEF PeekChr
    <2>3. Taken(w) = [src |-> src, limit |-> limit, eof |-> eof, unread |-> u]
      BY <1>0, <1>1, <1>2, <2>1, <2>2 DEF Taken, Peeked
    <2>4. RestOf(w) = unread \o src /\ RestOf(Taken(w)) = u \o src
      BY <1>1, <2>3 DEF RestOf
    <2>5. ZioOK(Taken(w), B)
      BY <1>0, <2>3 DEF ZioOK, Zios
    <2>6. /\ unread \o src # <<>> /\ (unread \o src)[1] = unread[1]
          /\ Len(u \o src) = Len(unread \o src) - 1
          /\ \A i \in 1..(Len(unread \o src) - 1) : (u \o src)[i] = (unread \o src)[i + 1]
      BY <1>2, <2>1, OthersJoined
    <2> QED BY <2>2, <2>4, <2>5, <2>6
  <1>3. CASE unread = <<>>
    <2>1. PICK n \in 0..Len(src) : /\ n = ChunkSize(w) /\ n <= limit
                                   /\ n < limit => n = Len(src)
                                   /\ n = 0 => src = <<>>
      <3>1. CASE eof
        <4>1. ChunkSize(w) = 0 /\ Len(src) = 0 /\ 0 \in 0..Len(src)
          BY <1>0, <1>1, <3>1 DEF ChunkSize
        <4> QED BY <1>0, <3>1, <4>1
      <3>2. CASE ~eof
        <4>1. Len(src) = 0 => src = <<>>
          OBVIOUS
        <4> QED BY <1>1, <3>2, <4>1 DEF ChunkSize
      <3> QED BY <3>1, <3>2
    <2>2. /\ SubSeq(src, 1, n) \in Seq(B) /\ SubSeq(src, n + 1, Len(src)) \in Seq(B)
          /\ Len(SubSeq(src, 1, n)) = n /\ Len(SubSeq(src, n + 1, Len(src))) = Len(src) - n
          /\ SubSeq(src, 1, n) \o SubSeq(src, n + 1, Len(src)) = src
      <3>1. SubSeq(src, 1, n) \o SubSeq(src, n + 1, Len(src)) = src
        BY PartsJoined
      <3>2. /\ SubSeq(src, 1, n) \in Seq(B) /\ Len(SubSeq(src, 1, n)) = n
            /\ \A i \in 1..n : SubSeq(src, 1, n)[i] = src[i]
            /\ SubSeq(src, n + 1, Len(src)) \in Seq(B)
            /\ Len(SubSeq(src, n + 1, Len(src))) = Len(src) - n
        BY Parts
      <3> QED BY <3>1, <3>2
    <2>3. PICK u \in Seq(B), v \in Seq(B) :
            /\ u = SubSeq(src, 1, n) /\ v = SubSeq(src, n + 1, Len(src))
            /\ Len(u) = n /\ Len(v) = Len(src) - n /\ u \o v = src
      BY <2>2
    <2>4. PICK there : there = [src |-> v, limit |-> limit, eof |-> n < limit, unread |-> u]
      OBVIOUS
    <2>5. Filled(w) = there
      <3>1. Filled(w) = [w EXCEPT !.src = v, !.unread = u, !.eof = n < limit]
        BY <1>1, <2>1, <2>3 DEF Filled
      <3> QED BY <1>0, <2>4, <3>1
    <2>6. there.unread = u /\ there.src = v
      BY <2>4
    <2>7. (n < limit) \in BOOLEAN /\ ((n < limit) => v = <<>>)
      <3>1. n < limit => Len(v) = 0
        BY <2>1, <2>3
      <3> QED BY <3>1
    <2>8. RestOf(w) = src
      BY <1>1, <1>3 DEF RestOf
    <2>9. CASE n = 0
      <3>1. u = <<>> /\ v = <<>> /\ src = <<>>
        BY <2>1, <2>3, <2>9
      <3>2. PeekChr(w) = EOF /\ Taken(w) = there
        BY <1>1, <1>3, <2>5, <2>6, <3>1 DEF PeekChr, Taken, Peeked
      <3>3. RestOf(there) = <<>>
        BY <2>6, <3>1 DEF RestOf
      <3>4. ZioOK(there, B)
        <4>1. there \in Zios(B)
          BY <2>4, <2>7 DEF Zios
        <4>2. there.src = <<>>
          BY <2>6, <3>1
        <4> QED BY <4>1, <4>2 DEF ZioOK
      <3> QED BY <2>8, <3>1, <3>2, <3>3, <3>4
    <2>10. CASE n # 0
      <3>1. u # <<>>
        BY <2>3, <2>10
      <3>2. Head(u) = u[1] /\ Head(u) # EOF
        BY <3>1, Others
      <3>3. PeekChr(w) = u[1] /\ PeekChr(w) # EOF /\ Peeked(w) = there
        BY <1>1, <1>3, <2>5, <2>6, <3>1, <3>2 DEF PeekChr, Peeked
      <3>4. PICK x \in Seq(B) : x = SubSeq(u, 2, Len(u))
        BY <3>1, Others
      <3>5. Taken(w) = [src |-> v, limit |-> limit, eof |-> n < limit, unread |-> x]
        <4>1. Taken(w) = [there EXCEPT !.unread = SubSeq(@, 2, Len(@))]
          BY <3>3 DEF Taken
        <4> QED BY <2>4, <2>6, <3>4, <4>1
      <3>6. ZioOK(Taken(w), B)
        <4>1. Taken(w) \in Zios(B)
          BY <2>7, <3>5 DEF Zios
        <4>2. Taken(w).eof = (n < limit) /\ Taken(w).src = v
          BY <3>5
        <4> QED BY <2>7, <4>1, <4>2 DEF ZioOK
      <3>7. RestOf(Taken(w)) = x \o v
        <4>1. Taken(w).unread = x /\ Taken(w).src = v
          BY <3>5
        <4> QED BY <4>1 DEF RestOf
      <3>8. /\ u \o v # <<>> /\ (u \o v)[1] = u[1]
            /\ Len(x \o v) = Len(u \o v) - 1
            /\ \A i \in 1..(Len(u \o v) - 1) : (x \o v)[i] = (u \o v)[i + 1]
        <4>1. u \o v # <<>> /\ (u \o v)[1] = u[1]
          BY <3>1, OthersJoined
        <4>2. Len(SubSeq(u, 2, Len(u)) \o v) = Len(u \o v) - 1
          BY <3>1, OthersJoined
        <4>3. \A i \in 1..(Len(u \o v) - 1) : (SubSeq(u, 2, Len(u)) \o v)[i] = (u \o v)[i + 1]
          BY <3>1, OthersJoined
        <4> QED BY <3>4, <4>1, <4>2, <4>3
      <3> QED BY <2>3, <2>8, <3>3, <3>6, <3>7, <3>8
    <2> QED BY <2>9, <2>10
  <1> QED BY <1>2, <1>3

-----------------------------------------------------------------------------
(* The inductive invariant. *)

(* No text has the byte that is EOF: next_token would end there.           *)
PlainTexts == \A s \in Texts : EOF \notin ToSet(s)

Bytes == ToSet(text)
Rest == RestOf(z)

(* How many bytes were taken; and the place of current, where the end has  *)
(* a place too, and before anything was read the place is that of the      *)
(* first byte.                                                             *)
Pos == Len(text) - Len(Rest)
Cur == IF current = EOF THEN Pos + 1 ELSE Pos

(* What was not taken is the end of the text. *)
Reading ==
  /\ text \in Texts /\ ZioOK(z, Bytes)
  /\ Len(Rest) <= Len(text) /\ \A i \in 1..Len(Rest) : Rest[i] = text[Pos + i]
  /\ current # EOF => Pos >= 1 /\ current = text[Pos]
  /\ current = EOF => Rest = <<>> \/ (at = "idle" /\ Pos = 0)

(* The tokens returned are those before p. *)
SoFar(p) == p \in 1..(Len(text) + 1) /\ TokensOf(text) = toks \o TokensFrom(text)[p]

(* What next_token knows of the token that began at p.                     *)
Run(p, q, chars) == \A j \in p..(q - 1) : text[j] \in chars
InEq(p) == p + 1 = Cur /\ text[p] = "="
InDigits(p) ==
  /\ p < Cur /\ Run(p, Cur, Digits)
  /\ number = Wrap(ValuesFrom(text, p)[Cur])

(* The digits from p on, with a point at q, up to before r. *)
PointNumber(s, p, q, r) ==
  [whole |-> Wrap(ValuesFrom(s, p)[q]), digits |-> [j \in 1..(r - q - 1) |-> Digit[s[q + j]]]]
InFrac(p, q) ==
  /\ p < q /\ q < Cur /\ Run(p, q, Digits) /\ text[q] = "." /\ Run(q + 1, Cur, Digits)
  /\ number = PointNumber(text, p, q, Cur)
InQuotes(p) ==
  /\ p < Cur /\ text[p] = at /\ \A j \in (p + 1)..(Cur - 1) : text[j] # at
  /\ current # EOF => buff = Piece(text, p + 1, Cur)
InName(p) ==
  /\ p < Cur /\ text[p] \in NameStart /\ Run(p, Cur, NameChars)
  /\ buff = Piece(text, p, Cur)

Places == 1..Len(text)
(* What next_token is doing, and what it then knows; or how it ended. *)
Doing ==
  CASE status = "lexing" ->
         /\ at \in {"idle", "start"} => SoFar(Cur)
         /\ at = "eq" => \E p \in Places : SoFar(p) /\ InEq(p)
         /\ at = "digits" => \E p \in Places : SoFar(p) /\ InDigits(p)
         /\ at = "frac" => \E p \in Places, q \in Places : SoFar(p) /\ InFrac(p, q)
         /\ at \in Quotes => \E p \in Places : SoFar(p) /\ InQuotes(p)
         /\ at = "name" => \E p \in Places : SoFar(p) /\ InName(p)
    [] status = "eof" -> toks = TokensOf(text)
    [] OTHER -> Append(toks, Plain(status)) = TokensOf(text)

(* What there is beside the text. *)
Typed ==
  /\ at \in {"idle", "start", "eq", "digits", "frac", "name"} \cup Quotes
  /\ buff \in Seq(Bytes \cup {EOF}) /\ Len(buff) <= MaxBuff
  /\ toks \in Seq(TokensIn(text))
  /\ status \in {"lexing", "eof", "PARSE", "OUT_OF_MEMORY"}
  /\ status # "lexing" => at \in {"start"} \cup Quotes

LInv == Reading /\ Typed /\ Doing

-----------------------------------------------------------------------------
(* Where the lexer is. *)

(* The place of current is one of the text, or the end. *)
LEMMA Here ==
  ASSUME PlainTexts, Reading
  PROVE  /\ text \in Seq(Bytes) /\ Len(text) \in Nat /\ Len(text) <= MaxBuff /\ EOF \notin Bytes
         /\ \A j \in Places : text[j] \in Bytes /\ text[j] # EOF
         /\ Rest \in Seq(Bytes) /\ Len(Rest) \in Nat /\ Pos \in 0..Len(text) /\ Cur \in 1..(Len(text) + 1)
         /\ current # EOF => Cur = Pos /\ Cur \in Places /\ current = text[Cur] /\ current \in Bytes
         /\ current = EOF => Cur = Pos + 1
         /\ current = EOF /\ at # "idle" => Cur = Len(text) + 1
  <1>1. text \in Seq(Bytes) /\ Len(text) <= MaxBuff /\ EOF \notin Bytes
    BY LexerAssumption DEF Reading, Bytes, PlainTexts
  <1>2. Len(text) \in Nat /\ \A j \in Places : text[j] \in Bytes /\ text[j] # EOF
    BY <1>1 DEF Places
  <1>3. Rest \in Seq(Bytes) /\ Len(Rest) \in Nat
    BY DEF Reading, ZioOK, Zios, Rest, RestOf
  <1>4. Pos \in 0..Len(text) /\ (Rest = <<>> => Pos = Len(text))
    BY <1>2, <1>3 DEF Pos, Reading
  <1>5. current # EOF => Cur = Pos /\ Cur \in Places /\ current = text[Cur]
    BY <1>2, <1>4 DEF Cur, Reading, Places
  <1>6. current = EOF => Cur = Pos + 1 /\ Cur \in 1..(Len(text) + 1)
    BY <1>2, <1>4 DEF Cur
  <1>7. current = EOF /\ at # "idle" => Cur = Len(text) + 1
    BY <1>4, <1>6 DEF Reading
  <1>8. Cur \in 1..(Len(text) + 1)
    BY <1>2, <1>5, <1>6 DEF Places
  <1> QED BY <1>1, <1>2, <1>3, <1>4, <1>5, <1>6, <1>7, <1>8

(* next_chr goes one place on. *)
LEMMA Advance ==
  ASSUME PlainTexts, Reading, NextChr, UNCHANGED text
  PROVE  /\ Reading'
         /\ Cur' = IF current = EOF THEN Cur ELSE Cur + 1
         /\ Cur' \in 1..(Len(text) + 1)
         /\ Cur' = Len(text) + 1 => current' = EOF
  <1>1. /\ text \in Seq(Bytes) /\ Len(text) \in Nat /\ EOF \notin Bytes
        /\ \A j \in Places : text[j] # EOF
        /\ Rest \in Seq(Bytes) /\ Len(Rest) \in Nat /\ Pos \in 0..Len(text)
        /\ current # EOF => Cur = Pos
        /\ current = EOF => Cur = Pos + 1
    BY Here
  <1>2. PICK w : w = Taken(z)
    OBVIOUS
  <1>3. /\ ZioOK(w, Bytes)
        /\ Rest = <<>> => PeekChr(z) = EOF /\ RestOf(w) = <<>>
        /\ Rest # <<>> => /\ PeekChr(z) = Rest[1]
                          /\ Len(RestOf(w)) = Len(Rest) - 1
                          /\ \A i \in 1..(Len(Rest) - 1) : RestOf(w)[i] = Rest[i + 1]
    <2>1. ZioOK(z, Bytes)
      BY DEF Reading
    <2> QED BY <1>1, <1>2, <2>1, TakenIs DEF Rest
  <1>4. z' = w /\ current' = PeekChr(z) /\ Rest' = RestOf(w) /\ text' = text /\ Bytes' = Bytes
    BY <1>2 DEF NextChr, Rest, Bytes
  <1>5. CASE Rest = <<>>
    <2>1. current' = EOF /\ Rest' = <<>> /\ Rest' = Rest /\ Pos' = Pos /\ Pos = Len(text)
      BY <1>1, <1>3, <1>4, <1>5 DEF Pos
    <2>2. Cur' = Pos + 1
      BY <2>1 DEF Cur
    <2>3. Reading'
      BY <1>3, <1>4, <2>1 DEF Reading
    <2>4. Cur' \in 1..(Len(text) + 1)
      BY <1>1, <2>1, <2>2
    <2> QED BY <1>1, <2>1, <2>2, <2>3, <2>4
  <1>6. CASE Rest # <<>>
    <2>1. Len(Rest) >= 1 /\ 1 \in 1..Len(Rest)
      BY <1>1, <1>6
    <2>2. current' = text[Pos + 1]
      BY <1>3, <1>4, <1>6, <2>1 DEF Reading
    <2>3. Len(Rest') = Len(Rest) - 1 /\ Pos' = Pos + 1 /\ Len(Rest) <= Len(text)
          /\ Len(Rest) + Pos = Len(text)
      <3>1. Len(Rest') = Len(Rest) - 1 /\ Pos' = Len(text) - Len(Rest')
        BY <1>3, <1>4, <1>6 DEF Pos
      <3>2. Len(Rest) <= Len(text) /\ Pos = Len(text) - Len(Rest)
        BY DEF Pos, Reading
      <3> QED BY <1>1, <3>1, <3>2
    <2>4. Pos + 1 \in Places
      BY <1>1, <2>1, <2>3 DEF Places
    <2>5. current' # EOF /\ Cur' = Pos + 1
      BY <1>1, <2>2, <2>3, <2>4 DEF Cur
    <2>6. \A i \in 1..Len(Rest') : Rest'[i] = text'[Pos' + i]
      <3>1. SUFFICES ASSUME NEW i \in 1..(Len(Rest) - 1) PROVE Rest'[i] = text[Pos + 1 + i]
        BY <1>4, <2>3
      <3>2. Rest'[i] = Rest[i + 1] /\ i + 1 \in 1..Len(Rest)
        BY <1>1, <1>3, <1>4, <1>6
      <3>3. Rest[i + 1] = text[Pos + (i + 1)] /\ Pos + (i + 1) = Pos + 1 + i
        BY <1>1, <3>2 DEF Reading
      <3> QED BY <3>2, <3>3
    <2>7. Len(Rest') <= Len(text') /\ Pos' >= 1
      BY <1>1, <1>4, <2>3
    <2>8. Reading'
      BY <1>3, <1>4, <2>2, <2>3, <2>5, <2>6, <2>7 DEF Reading
    <2>9. current = EOF => Pos = 0
      BY <1>6 DEF Reading
    <2>10. Cur' = IF current = EOF THEN Cur ELSE Cur + 1
      BY <1>1, <2>5, <2>9
    <2>11. Cur' # Len(text) + 1
      BY <1>1, <2>4, <2>5 DEF Places
    <2>12. Cur' \in 1..(Len(text) + 1)
      BY <1>1, <2>4, <2>5 DEF Places
    <2> QED BY <2>8, <2>10, <2>11, <2>12
  <1> QED BY <1>5, <1>6

(* Without it the lexer stays. *)
LEMMA Stay ==
  ASSUME PlainTexts, Reading, SameChr, UNCHANGED text, at # "idle" \/ current # EOF
  PROVE  Reading' /\ Cur' = Cur /\ current' = current
  <1>1. z' = z /\ current' = current /\ text' = text
    BY DEF SameChr
  <1>2. Rest' = Rest /\ Pos' = Pos /\ Bytes' = Bytes
    BY <1>1 DEF Rest, Pos, Bytes
  <1> QED BY <1>1, <1>2 DEF Reading, Cur

-----------------------------------------------------------------------------
(* The tokens of the text and the tokens returned. *)

(* A token that was found is the next one. *)
LEMMA Emitted ==
  ASSUME PlainTexts, Reading, Typed, NEW p \in Places, SoFar(p), text[p] \notin Spaces,
         NEW e, NEW n \in Nat \ {0}, TokenAt(text, p) = Found(e, n)
  PROVE  /\ e \in TokensIn(text) /\ n \in 1..(Len(text) + 1)
         /\ TokensOf(text) = Append(toks, e) \o TokensFrom(text)[n]
  <1>1. text \in Seq(Bytes) /\ p \in 1..Len(text) /\ Len(text) \in Nat
    BY Here DEF Places
  <1>2. TokenAt(text, p).token = e /\ TokenAt(text, p).next = n
    BY DEF Found
  <1>3. e \in TokensIn(text)
    BY <1>1, <1>2 DEF TokensIn
  <1>4. n \in 1..(Len(text) + 1)
    <2>1. n \in (p + 1)..(Len(text) + 1)
      BY <1>1, <1>2, NextIsLater
    <2> QED BY <1>1, <2>1
  <1>5. PICK t \in Seq(TokensIn(text)) : t = TokensFrom(text)[n]
    BY <1>1, <1>4, TokensType
  <1>6. TokensFrom(text)[p] = <<e>> \o t
    <2>1. TokensFrom(text)[p] = FromPlace(text, TokensFrom(text), p)
      BY <1>1, TokensEquation
    <2>2. p # Len(text) + 1
      BY <1>1
    <2> QED BY <1>2, <1>5, <2>1, <2>2 DEF FromPlace
  <1>7. PICK b \in Seq(TokensIn(text)) : b = toks
    BY DEF Typed
  <1>8. b \o (<<e>> \o t) = Append(b, e) \o t
    <2>1. <<e>> \in Seq(TokensIn(text))
      BY <1>3
    <2>2. Append(b, e) = b \o <<e>>
      BY <1>3
    <2> QED BY <2>1, <2>2, ConcatAssociative
  <1> QED BY <1>3, <1>4, <1>5, <1>6, <1>7, <1>8 DEF SoFar

(* Where there is none, the text has no more tokens. *)
LEMMA Rejected ==
  ASSUME PlainTexts, Reading, Typed, NEW p \in Places, SoFar(p), text[p] \notin Spaces,
         NEW e, TokenAt(text, p) = Found(e, 0)
  PROVE  TokensOf(text) = Append(toks, e)
  <1>1. text \in Seq(Bytes) /\ p \in 1..(Len(text) + 1) /\ p # Len(text) + 1 /\ p \in 1..Len(text)
    BY Here DEF Places
  <1>2. TokenAt(text, p).token = e /\ TokenAt(text, p).next = 0
    BY DEF Found
  <1>3. TokensFrom(text)[p] = <<e>>
    BY <1>1, <1>2, TokensEquation DEF FromPlace
  <1>4. e \in TokensIn(text)
    BY <1>1, <1>2 DEF TokensIn
  <1>5. PICK b \in Seq(TokensIn(text)) : b = toks
    BY DEF Typed
  <1>6. Append(b, e) = b \o <<e>>
    BY <1>4
  <1> QED BY <1>3, <1>5, <1>6 DEF SoFar

(* A space is no token. *)
LEMMA Spaced ==
  ASSUME PlainTexts, Reading, NEW p \in Places, SoFar(p), text[p] \in Spaces
  PROVE  SoFar(p + 1)
  <1>1. /\ text \in Seq(Bytes) /\ p \in 1..(Len(text) + 1) /\ p # Len(text) + 1
        /\ p + 1 \in 1..(Len(text) + 1)
    BY Here DEF Places
  <1>2. TokensFrom(text)[p] = TokensFrom(text)[p + 1]
    BY <1>1, TokensEquation DEF FromPlace
  <1> QED BY <1>1, <1>2 DEF SoFar

(* At the end there is only the end. *)
LEMMA AtEnd ==
  ASSUME PlainTexts, Reading, Typed, SoFar(Len(text) + 1)
  PROVE  TokensOf(text) = Append(toks, Plain("eof")) /\ Plain("eof") \in TokensIn(text)
  <1>1. text \in Seq(Bytes) /\ Len(text) + 1 \in 1..(Len(text) + 1)
    BY Here
  <1>2. TokensFrom(text)[Len(text) + 1] = <<Plain("eof")>>
    BY <1>1, TokensEquation DEF FromPlace
  <1>3. PICK e \in TokensIn(text) : e = Plain("eof")
    BY DEF TokensIn
  <1>4. PICK b \in Seq(TokensIn(text)) : b = toks
    BY DEF Typed
  <1>5. Append(b, e) = b \o <<e>>
    OBVIOUS
  <1> QED BY <1>2, <1>3, <1>4, <1>5 DEF SoFar

(* The points of next_token are not quotes. *)
LEMMA PointsApart == \A a \in {"idle", "start", "eq", "digits", "frac", "name"} : a \notin Quotes
  BY DEF Quotes

-----------------------------------------------------------------------------
(* The steps. *)

(* A token is returned when the text has it where it began.                *)
LEMMA EmitStep ==
  ASSUME PlainTexts, LInv, status = "lexing", Reading', Cur' \in 1..(Len(text) + 1),
         NEW p \in Places, SoFar(p), text[p] \notin Spaces,
         NEW e, Emit(e), TokenAt(text, p) = Found(e, Cur')
  PROVE  LInv'
  <1>1. /\ toks' = Append(toks, e) /\ at' = "idle" /\ buff' = <<>>
        /\ status' = "lexing" /\ text' = text
    BY DEF Emit
  <1>2. Cur' \in 1..(Len(text) + 1) /\ Cur' \in Nat \ {0}
    BY Here DEF LInv
  <1>3. PICK n \in Nat \ {0} : n = Cur'
    BY <1>2
  <1>4. e \in TokensIn(text) /\ TokensOf(text) = Append(toks, e) \o TokensFrom(text)[n]
    BY <1>3, Emitted DEF LInv
  <1>5. toks' \in Seq(TokensIn(text'))
    BY <1>1, <1>4 DEF LInv, Typed
  <1>6. Typed'
    <2>1. Bytes' = Bytes
      BY <1>1 DEF Bytes
    <2>2. buff' \in Seq(Bytes \cup {EOF}) /\ Len(buff') <= MaxBuff
      <3>1. MaxBuff \in Nat
        BY LexerAssumption
      <3>2. \A S : <<>> \in Seq(S) /\ Len(<<>>) = 0
        OBVIOUS
      <3> QED BY <1>1, <3>1, <3>2
    <2> QED BY <1>1, <1>5, <2>1, <2>2 DEF Typed
  <1>7. SoFar(Cur)'
    BY <1>1, <1>2, <1>3, <1>4 DEF SoFar
  <1>8. Doing'
    BY <1>1, <1>7, PointsApart DEF Doing
  <1> QED BY <1>6, <1>8 DEF LInv

(* next_token goes on with a token. *)
LEMMA GoOn ==
  ASSUME PlainTexts, LInv, status = "lexing", Reading', status' = status, UNCHANGED <<toks, text>>,
         at' \in {"start", "eq", "digits", "frac", "name"} \cup Quotes,
         buff' \in Seq(Bytes \cup {EOF}), Len(buff') <= MaxBuff,
         at' = "start" => SoFar(Cur'),
         at' = "eq" => \E p \in Places : SoFar(p) /\ InEq(p)',
         at' = "digits" => \E p \in Places : SoFar(p) /\ InDigits(p)',
         at' = "frac" => \E p \in Places, q \in Places : SoFar(p) /\ InFrac(p, q)',
         at' \in Quotes => \E p \in Places : SoFar(p) /\ InQuotes(p)',
         at' = "name" => \E p \in Places : SoFar(p) /\ InName(p)'
  PROVE  LInv'
  <1>1. Bytes' = Bytes /\ Places' = Places
    BY DEF Bytes, Places
  <1>2. Typed'
    BY <1>1 DEF LInv, Typed
  <1>3. \A p : SoFar(p) => SoFar(p)'
    BY DEF SoFar
  <1>4. Doing'
    <2>1. at' = "start" => SoFar(Cur)'
      BY DEF SoFar
    <2>2. at' # "idle"
      BY PointsApart
    <2>3. at' = "eq" => \E p \in Places' : SoFar(p)' /\ InEq(p)'
      BY <1>1, <1>3
    <2>4. at' = "digits" => \E p \in Places' : SoFar(p)' /\ InDigits(p)'
      BY <1>1, <1>3
    <2>5. at' = "frac" => \E p \in Places', q \in Places' : SoFar(p)' /\ InFrac(p, q)'
      BY <1>1, <1>3
    <2>6. at' \in Quotes => \E p \in Places' : SoFar(p)' /\ InQuotes(p)'
      BY <1>1, <1>3
    <2>7. at' = "name" => \E p \in Places' : SoFar(p)' /\ InName(p)'
      BY <1>1, <1>3
    <2> QED BY <2>1, <2>2, <2>3, <2>4, <2>5, <2>6, <2>7 DEF Doing
  <1> QED BY <1>2, <1>4 DEF LInv

(* What is known while a token is read. *)
LEMMA Now ==
  ASSUME LInv, status = "lexing"
  PROVE  /\ Reading /\ Typed
         /\ at \in {"idle", "start"} => SoFar(Cur)
         /\ at = "eq" => \E p \in Places : SoFar(p) /\ InEq(p)
         /\ at = "digits" => \E p \in Places : SoFar(p) /\ InDigits(p)
         /\ at = "frac" => \E p \in Places, q \in Places : SoFar(p) /\ InFrac(p, q)
         /\ at \in Quotes => \E p \in Places : SoFar(p) /\ InQuotes(p)
         /\ at = "name" => \E p \in Places : SoFar(p) /\ InName(p)
  BY DEF LInv, Doing

(* A step that takes a character which is not the end. *)
LEMMA Took ==
  ASSUME PlainTexts, Reading, NextChr, UNCHANGED text, current # EOF
  PROVE  /\ Reading' /\ Cur' = Cur + 1 /\ Cur' \in 1..(Len(text) + 1) /\ Cur \in Places
         /\ current = text[Cur] /\ current \in Bytes /\ text \in Seq(Bytes) /\ Len(text) \in Nat
  BY Advance, Here

(* A new token begins at the character that was not taken yet. *)
LEMMA NextTokenStep == ASSUME PlainTexts, LInv, NextToken PROVE LInv'
  <1>1. /\ status = "lexing" /\ at = "idle" /\ at' = "start" /\ UNCHANGED <<buff, toks, status, text>>
        /\ IF current = EOF THEN NextChr ELSE SameChr
    BY DEF NextToken, Goto
  <1>2. Reading /\ Typed /\ SoFar(Cur)
    BY <1>1, Now
  <1>3. Reading' /\ Cur' = Cur
    <2>1. CASE current = EOF
      BY <1>1, <1>2, <2>1, Advance
    <2>2. CASE current # EOF
      BY <1>1, <1>2, <2>2, Stay
    <2> QED BY <2>1, <2>2
  <1>4. SoFar(Cur')
    BY <1>2, <1>3
  <1>5. buff' \in Seq(Bytes \cup {EOF}) /\ Len(buff') <= MaxBuff
    BY <1>1, <1>2 DEF Typed
  <1> QED BY <1>1, <1>3, <1>4, <1>5, GoOn, PointsApart

(* At the end of the text, its tokens were returned. *)
LEMMA EndStep == ASSUME PlainTexts, LInv, End PROVE LInv'
  <1>1. /\ status = "lexing" /\ at = "start" /\ current = EOF /\ NextChr
        /\ toks' = Append(toks, Plain("eof")) /\ status' = "eof" /\ UNCHANGED <<at, buff, text>>
    BY DEF End, Is
  <1>2. Reading /\ Typed /\ SoFar(Cur)
    BY <1>1, Now
  <1>3. Cur = Len(text) + 1
    BY <1>1, <1>2, Here
  <1>4. TokensOf(text) = Append(toks, Plain("eof")) /\ Plain("eof") \in TokensIn(text)
    BY <1>2, <1>3, AtEnd
  <1>5. Reading'
    BY <1>1, <1>2, Advance
  <1>6. Bytes' = Bytes /\ toks' \in Seq(TokensIn(text))
    <2>1. toks \in Seq(TokensIn(text))
      BY <1>2 DEF Typed
    <2> QED BY <1>1, <1>4, <2>1 DEF Bytes
  <1>7. Typed'
    BY <1>1, <1>2, <1>6 DEF Typed
  <1>8. Doing'
    BY <1>1, <1>4 DEF Doing
  <1> QED BY <1>5, <1>7, <1>8 DEF LInv

(* A space is skipped. *)
LEMMA SpaceStep == ASSUME PlainTexts, LInv, Space PROVE LInv'
  <1>1. /\ status = "lexing" /\ at = "start" /\ current \in Spaces /\ NextChr
        /\ at' = "start" /\ UNCHANGED <<buff, toks, status, text>>
    BY DEF Space, Is, Goto
  <1>2. Reading /\ Typed /\ SoFar(Cur)
    BY <1>1, Now
  <1>3. current # EOF
    BY <1>1, KindsApart
  <1>4. Reading' /\ Cur' = Cur + 1 /\ Cur \in Places /\ current = text[Cur]
    BY <1>1, <1>2, <1>3, Took
  <1>5. SoFar(Cur')
    BY <1>1, <1>2, <1>4, Spaced
  <1>6. buff' \in Seq(Bytes \cup {EOF}) /\ Len(buff') <= MaxBuff
    BY <1>1, <1>2 DEF Typed
  <1> QED BY <1>1, <1>4, <1>5, <1>6, GoOn, PointsApart

(* A token of one character is returned. *)
LEMMA SingleStep == ASSUME PlainTexts, LInv, Single PROVE LInv'
  <1>1. /\ status = "lexing" /\ at = "start" /\ current \in Singles /\ NextChr
        /\ Emit(Plain(current)) /\ UNCHANGED text
    BY DEF Single, Is, Emit
  <1>2. Reading /\ Typed /\ SoFar(Cur)
    BY <1>1, Now
  <1>3. current # EOF /\ current \notin Spaces
    BY <1>1, KindsApart
  <1>4. /\ Reading' /\ Cur' = Cur + 1 /\ Cur' \in 1..(Len(text) + 1)
        /\ Cur \in Places /\ current = text[Cur]
    BY <1>1, <1>2, <1>3, Took
  <1>5. TokenAt(text, Cur) = Found(Plain(current), Cur')
    BY <1>1, <1>4, SingleIs
  <1> QED BY <1>1, <1>2, <1>3, <1>4, <1>5, EmitStep

(* A = may be the first of two. *)
LEMMA EqStep == ASSUME PlainTexts, LInv, Eq PROVE LInv'
  <1>1. /\ status = "lexing" /\ at = "start" /\ current = "=" /\ NextChr
        /\ at' = "eq" /\ UNCHANGED <<buff, toks, status, text>>
    BY DEF Eq, Is, Goto
  <1>2. Reading /\ Typed /\ SoFar(Cur)
    BY <1>1, Now
  <1>3. current # EOF
    BY <1>1, KindsApart
  <1>4. Reading' /\ Cur' = Cur + 1 /\ Cur \in Places /\ current = text[Cur]
    BY <1>1, <1>2, <1>3, Took
  <1>5. \E p \in Places : SoFar(p) /\ InEq(p)'
    <2>1. PICK p \in Places : p = Cur
      BY <1>4
    <2>2. InEq(p)'
      BY <1>1, <1>4, <2>1 DEF InEq
    <2> QED BY <1>2, <2>1, <2>2
  <1>6. buff' \in Seq(Bytes \cup {EOF}) /\ Len(buff') <= MaxBuff
    BY <1>1, <1>2 DEF Typed
  <1> QED BY <1>1, <1>2, <1>4, <1>5, <1>6, GoOn, PointsApart

(* There are two of them. *)
LEMMA EqEqStep == ASSUME PlainTexts, LInv, EqEq PROVE LInv'
  <1>1. /\ status = "lexing" /\ at = "eq" /\ current = "=" /\ NextChr
        /\ Emit(Plain("==")) /\ UNCHANGED text
    BY DEF EqEq, Is, Emit
  <1>2. Reading /\ Typed
    BY <1>1, Now
  <1>3. PICK p \in Places : SoFar(p) /\ p + 1 = Cur /\ text[p] = "="
    BY <1>1, Now DEF InEq
  <1>4. current # EOF /\ text[p] \notin Spaces
    BY <1>1, <1>3, KindsApart
  <1>5. /\ Reading' /\ Cur' = Cur + 1 /\ Cur' \in 1..(Len(text) + 1)
        /\ Cur \in Places /\ current = text[Cur] /\ Len(text) \in Nat
    BY <1>1, <1>2, <1>4, Took
  <1>6. p < Len(text) /\ text[p + 1] = "=" /\ Cur' = p + 2
    BY <1>1, <1>3, <1>5 DEF Places
  <1>7. TokenAt(text, p) = Found(Plain("=="), Cur')
    BY <1>3, <1>6, EqIs
  <1> QED BY <1>1, <1>2, <1>3, <1>4, <1>5, <1>7, EmitStep

(* A step at a character that the token does not have. *)
LEMMA Stayed ==
  ASSUME PlainTexts, Reading, SameChr, UNCHANGED text, at # "idle"
  PROVE  /\ Reading' /\ Cur' = Cur /\ Cur' \in 1..(Len(text) + 1) /\ Len(text) \in Nat
         /\ text \in Seq(Bytes)
         /\ Cur <= Len(text) => Cur \in Places /\ current = text[Cur]
  <1>1. Reading' /\ Cur' = Cur
    BY Stay
  <1>2. /\ Cur \in 1..(Len(text) + 1) /\ Len(text) \in Nat /\ text \in Seq(Bytes)
        /\ current # EOF => Cur \in Places /\ current = text[Cur]
        /\ current = EOF => Cur = Len(text) + 1
    BY Here
  <1>3. Cur <= Len(text) => current # EOF
    BY <1>2
  <1> QED BY <1>1, <1>2, <1>3

(* There is only one. *)
LEMMA EqOnlyStep == ASSUME PlainTexts, LInv, EqOnly PROVE LInv'
  <1>1. /\ status = "lexing" /\ at = "eq" /\ current # "=" /\ SameChr
        /\ Emit(Plain("=")) /\ UNCHANGED text
    BY DEF EqOnly, IsNot, Emit
  <1>2. Reading /\ Typed
    BY <1>1, Now
  <1>3. PICK p \in Places : SoFar(p) /\ p + 1 = Cur /\ text[p] = "="
    BY <1>1, Now DEF InEq
  <1>4. /\ Reading' /\ Cur' = Cur /\ Cur' \in 1..(Len(text) + 1) /\ Len(text) \in Nat
        /\ Cur <= Len(text) => current = text[Cur]
    BY <1>1, <1>2, Stayed
  <1>5. ~(p < Len(text) /\ text[p + 1] = "=")
    BY <1>1, <1>3, <1>4 DEF Places
  <1>6. TokenAt(text, p) = Found(Plain("="), Cur')
    BY <1>3, <1>4, <1>5, EqIs
  <1>7. text[p] \notin Spaces
    BY <1>3, KindsApart
  <1> QED BY <1>1, <1>2, <1>3, <1>4, <1>6, <1>7, EmitStep

(* Numbers. *)

(* A number begins with the value of its first digit. *)
LEMMA FirstDigitStep == ASSUME PlainTexts, LInv, FirstDigit PROVE LInv'
  <1>1. /\ status = "lexing" /\ at = "start" /\ current \in Digits /\ number' = Digit[current]
        /\ NextChr /\ at' = "digits" /\ UNCHANGED <<buff, toks, status, text>>
    BY DEF FirstDigit, Is, Goto
  <1>2. Reading /\ Typed /\ SoFar(Cur)
    BY <1>1, Now
  <1>3. current # EOF
    BY <1>1, KindsApart
  <1>4. /\ Reading' /\ Cur' = Cur + 1 /\ Cur \in Places /\ current = text[Cur]
        /\ text \in Seq(Bytes) /\ Len(text) \in Nat
    BY <1>1, <1>2, <1>3, Took
  <1>5. PICK p \in Places : p = Cur
    BY <1>4
  <1>6. InDigits(p)'
    <2>1. p \in 1..(Len(text) + 1) /\ p \in p..Len(text)
      BY <1>4 DEF Places
    <2>2. ValuesFrom(text, p)[p] = 0
      BY <1>4, <2>1, ValueOfDigits
    <2>3. ValuesFrom(text, p)[p + 1] = ValuesFrom(text, p)[p] * 10 + Digit[text[p]]
      BY <1>4, <2>1, ValueOfDigits
    <2>4. number' = Wrap(ValuesFrom(text, p)[p + 1])
      BY <1>1, <1>4, <1>5, <2>2, <2>3, WrapFirst
    <2>5. \A j \in p..(p + 1 - 1) : text[j] \in Digits
      <3>1. \A j \in p..(p + 1 - 1) : j = p
        BY <2>1
      <3> QED BY <1>1, <1>4, <1>5, <3>1
    <2>6. Cur' = p + 1 /\ text' = text /\ p < p + 1
      BY <1>1, <1>4, <1>5, <2>1
    <2>7. Run(p, Cur, Digits)'
      BY <1>1, <1>4, <1>5, <2>5, <2>6 DEF Run, Places
    <2> QED BY <2>4, <2>6, <2>7 DEF InDigits
  <1>7. \E q \in Places : SoFar(q) /\ InDigits(q)'
    BY <1>2, <1>5, <1>6
  <1>8. buff' \in Seq(Bytes \cup {EOF}) /\ Len(buff') <= MaxBuff
    BY <1>1, <1>2 DEF Typed
  <1> QED BY <1>1, <1>4, <1>7, <1>8, GoOn, PointsApart

(* The places of digits. *)
LEMMA DigitsHere ==
  ASSUME PlainTexts, LInv, status = "lexing", at = "digits", NEW p \in Places, InDigits(p)
  PROVE  /\ p \in 1..(Len(text) + 1) /\ Cur \in (p + 1)..(Len(text) + 1) /\ Len(text) \in Nat
         /\ text \in Seq(Bytes) /\ \A j \in p..(Cur - 1) : text[j] \in Digits
         /\ text[p] \notin Spaces /\ number = Wrap(ValuesFrom(text, p)[Cur])
         /\ ValuesFrom(text, p)[Cur] \in Nat
  <1>1. /\ text \in Seq(Bytes) /\ Len(text) \in Nat /\ Cur \in 1..(Len(text) + 1)
    BY Here, Now
  <1>2. /\ p < Cur /\ \A j \in p..(Cur - 1) : text[j] \in Digits
        /\ number = Wrap(ValuesFrom(text, p)[Cur])
    BY DEF InDigits, Run
  <1>3. /\ p \in 1..(Len(text) + 1) /\ Cur \in (p + 1)..(Len(text) + 1) /\ Cur \in p..(Len(text) + 1)
        /\ p \in p..(Cur - 1)
    BY <1>1, <1>2 DEF Places
  <1>4. text[p] \notin Spaces
    BY <1>2, <1>3, KindsApart
  <1>5. ValuesFrom(text, p)[Cur] \in Nat
    BY <1>1, <1>2, <1>3, ValueIsInt
  <1> QED BY <1>1, <1>2, <1>3, <1>4, <1>5

(* A digit more makes it ten times as large. *)
LEMMA MoreDigitsStep == ASSUME PlainTexts, LInv, MoreDigits PROVE LInv'
  <1>1. /\ status = "lexing" /\ at = "digits" /\ current \in Digits
        /\ number' = WithDigit(number, current)
        /\ NextChr /\ at' = "digits" /\ UNCHANGED <<buff, toks, status, text>>
    BY DEF MoreDigits, Is, Goto
  <1>2. Reading /\ Typed
    BY <1>1, Now
  <1>3. current # EOF
    BY <1>1, KindsApart
  <1>4. /\ Reading' /\ Cur' = Cur + 1 /\ Cur \in Places /\ current = text[Cur]
        /\ text \in Seq(Bytes) /\ Len(text) \in Nat
    BY <1>1, <1>2, <1>3, Took
  <1>5. PICK p \in Places : SoFar(p) /\ InDigits(p)
    BY <1>1, Now
  <1>6. /\ p \in 1..(Len(text) + 1) /\ Cur \in (p + 1)..(Len(text) + 1)
        /\ \A j \in p..(Cur - 1) : text[j] \in Digits
        /\ number = Wrap(ValuesFrom(text, p)[Cur])
        /\ ValuesFrom(text, p)[Cur] \in Nat
    BY <1>1, <1>5, DigitsHere
  <1>7. InDigits(p)'
    <2>1. PICK q \in p..Len(text) : q = Cur /\ p < q + 1
      BY <1>4, <1>6 DEF Places
    <2>2. ValuesFrom(text, p)[q + 1] = ValuesFrom(text, p)[q] * 10 + Digit[text[q]]
      BY <1>4, <1>6, ValueOfDigits
    <2>3. PICK x \in Int : x = ValuesFrom(text, p)[q]
      BY <1>6, <2>1
    <2>4. WithDigit(Wrap(x), current) = Wrap(x * 10 + Digit[current])
      BY <1>1, WrapDigit
    <2>5. number' = Wrap(ValuesFrom(text, p)[q + 1])
      BY <1>1, <1>4, <1>6, <2>1, <2>2, <2>3, <2>4
    <2>6. \A j \in p..(q + 1 - 1) : text[j] \in Digits
      <3>1. \A j \in p..(q + 1 - 1) : j = q \/ j \in p..(q - 1)
        BY <1>6, <2>1
      <3> QED BY <1>1, <1>4, <1>6, <2>1, <3>1
    <2>7. Run(p, Cur, Digits)'
      BY <1>1, <1>4, <2>1, <2>6 DEF Run
    <2> QED BY <1>1, <1>4, <2>1, <2>5, <2>7 DEF InDigits
  <1>8. \E q \in Places : SoFar(q) /\ InDigits(q)'
    BY <1>5, <1>7
  <1>9. buff' \in Seq(Bytes \cup {EOF}) /\ Len(buff') <= MaxBuff
    BY <1>1, <1>2 DEF Typed
  <1> QED BY <1>1, <1>4, <1>8, <1>9, GoOn, PointsApart

(* Without a point it is an Integer. *)
LEMMA IntegerEndsStep == ASSUME PlainTexts, LInv, IntegerEnds PROVE LInv'
  <1>1. /\ status = "lexing" /\ at = "digits" /\ current \notin Digits \cup {"."} /\ SameChr
        /\ Emit(IntToken(number)) /\ UNCHANGED text
    BY DEF IntegerEnds, IsNot, Emit
  <1>2. Reading /\ Typed
    BY <1>1, Now
  <1>3. PICK p \in Places : SoFar(p) /\ InDigits(p)
    BY <1>1, Now
  <1>4. /\ Reading' /\ Cur' = Cur /\ Cur' \in 1..(Len(text) + 1)
        /\ text \in Seq(Bytes)
        /\ Cur <= Len(text) => current = text[Cur]
    BY <1>1, <1>2, Stayed
  <1>5. /\ Cur \in (p + 1)..(Len(text) + 1) /\ \A j \in p..(Cur - 1) : text[j] \in Digits
        /\ text[p] \notin Spaces /\ number = Wrap(ValuesFrom(text, p)[Cur])
    BY <1>1, <1>3, DigitsHere
  <1>6. TokenAt(text, p) = Found(IntToken(number), Cur')
    <2>1. p \in 1..Len(text)
      BY DEF Places
    <2>2. Cur <= Len(text) => text[Cur] \notin Digits \cup {"."}
      BY <1>1, <1>4
    <2>3. TokenAt(text, p) = Found(IntToken(Wrap(ValuesFrom(text, p)[Cur])), Cur)
      BY <1>4, <1>5, <2>1, <2>2, IntegerIs
    <2> QED BY <1>4, <1>5, <2>3
  <1> QED BY <1>1, <1>2, <1>3, <1>4, <1>5, <1>6, EmitStep

(* With one, the digits behind it are to come. *)
LEMMA PointStep == ASSUME PlainTexts, LInv, Point PROVE LInv'
  <1>1. /\ status = "lexing" /\ at = "digits" /\ current = "."
        /\ number' = [whole |-> number, digits |-> <<>>]
        /\ NextChr /\ at' = "frac" /\ UNCHANGED <<buff, toks, status, text>>
    BY DEF Point, Is, Goto
  <1>2. Reading /\ Typed
    BY <1>1, Now
  <1>3. current # EOF
    BY <1>1 DEF EOF
  <1>4. /\ Reading' /\ Cur' = Cur + 1 /\ Cur \in Places /\ current = text[Cur]
        /\ text \in Seq(Bytes) /\ Len(text) \in Nat
    BY <1>1, <1>2, <1>3, Took
  <1>5. PICK p \in Places : SoFar(p) /\ InDigits(p)
    BY <1>1, Now
  <1>6. /\ Cur \in (p + 1)..(Len(text) + 1)
        /\ \A j \in p..(Cur - 1) : text[j] \in Digits
        /\ number = Wrap(ValuesFrom(text, p)[Cur])
    BY <1>1, <1>5, DigitsHere
  <1>7. PICK q \in Places : q = Cur
    BY <1>4
  <1>8. InFrac(p, q)'
    <2>1. p < q /\ q < q + 1 /\ q + 1 - q - 1 = 0 /\ \A j \in (q + 1)..(q + 1 - 1) : FALSE
      BY <1>6, <1>7 DEF Places
    <2>2. Cur' = q + 1 /\ text' = text /\ text[q] = "."
      BY <1>1, <1>4, <1>7
    <2>3. Run(p, q, Digits)'
      BY <1>6, <1>7, <2>2 DEF Run
    <2>4. Run(q + 1, Cur, Digits)'
      BY <2>1, <2>2 DEF Run
    <2>5. [j \in 1..0 |-> Digit[text[q + j]]] = <<>>
      OBVIOUS
    <2>6. number' = PointNumber(text, p, q, q + 1)
      BY <1>1, <1>6, <1>7, <2>1, <2>5 DEF PointNumber
    <2> QED BY <2>1, <2>2, <2>3, <2>4, <2>6 DEF InFrac
  <1>9. \E i \in Places, j \in Places : SoFar(i) /\ InFrac(i, j)'
    BY <1>5, <1>8
  <1>10. buff' \in Seq(Bytes \cup {EOF}) /\ Len(buff') <= MaxBuff
    BY <1>1, <1>2 DEF Typed
  <1> QED BY <1>1, <1>4, <1>9, <1>10, GoOn, PointsApart

(* The places of the digits behind a point. *)
LEMMA FracHere ==
  ASSUME PlainTexts, LInv, status = "lexing", at = "frac",
         NEW p \in Places, NEW q \in Places, InFrac(p, q)
  PROVE  /\ p \in 1..Len(text) /\ q \in (p + 1)..Len(text) /\ Cur \in (q + 1)..(Len(text) + 1)
         /\ \A j \in p..(q - 1) : text[j] \in Digits
         /\ text[q] = "." /\ text[p] \notin Spaces
         /\ \A j \in (q + 1)..(Cur - 1) : text[j] \in Digits
         /\ number = PointNumber(text, p, q, Cur)
  <1>1. Len(text) \in Nat /\ Cur \in 1..(Len(text) + 1)
    BY Here, Now
  <1>2. /\ p < q /\ q < Cur /\ \A j \in p..(q - 1) : text[j] \in Digits
        /\ text[q] = "." /\ \A j \in (q + 1)..(Cur - 1) : text[j] \in Digits
        /\ number = PointNumber(text, p, q, Cur)
    BY DEF InFrac, Run
  <1>3. /\ p \in 1..Len(text) /\ q \in (p + 1)..Len(text) /\ Cur \in (q + 1)..(Len(text) + 1)
        /\ p \in p..(q - 1)
    BY <1>1, <1>2 DEF Places
  <1>4. text[p] \notin Spaces
    BY <1>2, <1>3, KindsApart
  <1> QED BY <1>2, <1>3, <1>4

(* A function on 1..n is a list of n. *)
LEMMA ListIs ==
  ASSUME NEW S, NEW n \in Nat, NEW s \in [1..n -> S]
  PROVE  s \in Seq(S) /\ Len(s) = n
  <1>1. s \in Seq(S)
    BY SeqDef
  <1>2. Len(s) \in Nat /\ DOMAIN s = 1..Len(s) /\ DOMAIN s = 1..n
    BY <1>1, LenProperties
  <1> QED BY <1>1, <1>2

(* One more digit makes the list of digits one longer. *)
LEMMA DigitAppended ==
  ASSUME NEW S, NEW n \in Nat, NEW f, \A j \in 1..(n + 1) : f[j] \in S
  PROVE  Append([j \in 1..n |-> f[j]], f[n + 1]) = [j \in 1..(n + 1) |-> f[j]]
  <1>1. PICK s \in Seq(S) : s = [j \in 1..n |-> f[j]] /\ Len(s) = n
    <2>1. PICK s \in [1..n -> S] : s = [j \in 1..n |-> f[j]]
      <3>1. \A j \in 1..n : f[j] \in S
        OBVIOUS
      <3> QED BY <3>1
    <2> QED BY <2>1, ListIs
  <1>2. PICK t \in Seq(S) : t = [j \in 1..(n + 1) |-> f[j]] /\ Len(t) = n + 1
    <2>1. PICK t \in [1..(n + 1) -> S] : t = [j \in 1..(n + 1) |-> f[j]]
      OBVIOUS
    <2> QED BY <2>1, ListIs
  <1>3. f[n + 1] \in S
    OBVIOUS
  <1>4. PICK u \in Seq(S) : u = Append(s, f[n + 1])
    <2>1. PICK e \in S : e = f[n + 1]
      BY <1>3
    <2>2. Append(s, e) \in Seq(S)
      OBVIOUS
    <2> QED BY <2>1, <2>2
  <1>5. Len(u) = n + 1 /\ \A j \in 1..(n + 1) : u[j] = IF j <= n THEN s[j] ELSE f[n + 1]
    BY <1>1, <1>3, <1>4
  <1>6. \A j \in 1..(n + 1) : u[j] = t[j]
    <2>1. SUFFICES ASSUME NEW j \in 1..(n + 1) PROVE u[j] = t[j]
      OBVIOUS
    <2>2. t[j] = f[j]
      BY <1>2
    <2>3. CASE j <= n
      BY <1>1, <1>5, <2>2, <2>3
    <2>4. CASE j = n + 1
      BY <1>5, <2>2, <2>4
    <2> QED BY <2>3, <2>4
  <1>7. u = t
    BY <1>2, <1>5, <1>6, SeqEqual
  <1> QED BY <1>1, <1>2, <1>4, <1>7

(* One of them comes. *)
LEMMA FracDigitStep == ASSUME PlainTexts, LInv, FracDigit PROVE LInv'
  <1>1. /\ status = "lexing" /\ at = "frac" /\ current \in Digits
        /\ number' = [number EXCEPT !.digits = Append(@, Digit[current])]
        /\ NextChr /\ at' = "frac" /\ UNCHANGED <<buff, toks, status, text>>
    BY DEF FracDigit, Is, Goto
  <1>2. Reading /\ Typed
    BY <1>1, Now
  <1>3. current # EOF
    BY <1>1, KindsApart
  <1>4. /\ Reading' /\ Cur' = Cur + 1 /\ Cur \in Places /\ current = text[Cur]
        /\ text \in Seq(Bytes) /\ Len(text) \in Nat
    BY <1>1, <1>2, <1>3, Took
  <1>5. PICK p \in Places, q \in Places : SoFar(p) /\ InFrac(p, q)
    BY <1>1, Now
  <1>6. /\ p \in 1..Len(text) /\ q \in (p + 1)..Len(text) /\ Cur \in (q + 1)..(Len(text) + 1)
        /\ \A j \in p..(q - 1) : text[j] \in Digits /\ text[q] = "."
        /\ \A j \in (q + 1)..(Cur - 1) : text[j] \in Digits
        /\ number = PointNumber(text, p, q, Cur)
    BY <1>1, <1>5, FracHere
  <1>7. PICK c \in Places : c = Cur
    BY <1>4
  <1>8. PICK n \in Nat : n = c - q - 1
    BY <1>6, <1>7 DEF Places
  <1>9. c = q + n + 1 /\ c + 1 - q - 1 = n + 1 /\ c + 1 - 1 = c /\ q < c + 1 /\ p < q
    BY <1>6, <1>7, <1>8 DEF Places
  <1>10. \A j \in (q + 1)..c : text[j] \in Digits
    <2>1. \A j \in (q + 1)..c : j = c \/ j \in (q + 1)..(c - 1)
      BY <1>6 DEF Places
    <2> QED BY <1>1, <1>4, <1>6, <1>7, <2>1
  <1>11. Append([j \in 1..n |-> Digit[text[q + j]]], Digit[current])
           = [j \in 1..(n + 1) |-> Digit[text[q + j]]]
    <2> DEFINE f == [j \in 1..(n + 1) |-> Digit[text[q + j]]]
    <2>1. \A j \in 1..(n + 1) : q + j \in (q + 1)..c /\ f[j] \in 0..9
      <3>1. \A j \in 1..(n + 1) : q + j \in (q + 1)..c
        BY <1>6, <1>9
      <3> QED BY <1>10, <3>1, DigitValue
    <2>2. f[n + 1] = Digit[current]
      <3>1. q + (n + 1) = c /\ n + 1 \in 1..(n + 1)
        BY <1>6, <1>9
      <3> QED BY <1>4, <1>7, <3>1
    <2>3. [j \in 1..n |-> f[j]] = [j \in 1..n |-> Digit[text[q + j]]]
      <3>1. \A j \in 1..n : j \in 1..(n + 1)
        OBVIOUS
      <3> QED BY <3>1
    <2>4. [j \in 1..(n + 1) |-> f[j]] = f
      OBVIOUS
    <2>5. Append([j \in 1..n |-> f[j]], f[n + 1]) = [j \in 1..(n + 1) |-> f[j]]
      <3> HIDE DEF f
      <3> QED BY <2>1, DigitAppended
    <2> QED BY <2>2, <2>3, <2>4, <2>5
  <1>12. InFrac(p, q)'
    <2>1. Cur' = c + 1 /\ text' = text
      BY <1>1, <1>4, <1>7
    <2>2. Run(p, q, Digits)'
      BY <1>6, <2>1 DEF Run
    <2>3. Run(q + 1, Cur, Digits)'
      BY <1>9, <1>10, <2>1 DEF Run
    <2>4. number' = PointNumber(text, p, q, c + 1)
      <3>1. number = [whole |-> Wrap(ValuesFrom(text, p)[q]),
                      digits |-> [j \in 1..n |-> Digit[text[q + j]]]]
        BY <1>6, <1>7, <1>8 DEF PointNumber
      <3>2. number' = [whole |-> number.whole, digits |-> Append(number.digits, Digit[current])]
        BY <1>1, <3>1
      <3>3. PointNumber(text, p, q, c + 1)
              = [whole |-> Wrap(ValuesFrom(text, p)[q]),
                 digits |-> [j \in 1..(n + 1) |-> Digit[text[q + j]]]]
        <4>1. PICK r : r = c + 1
          OBVIOUS
        <4>2. r - q - 1 = n + 1
          BY <1>9, <4>1
        <4>3. PointNumber(text, p, q, r)
                = [whole |-> Wrap(ValuesFrom(text, p)[q]),
                   digits |-> [j \in 1..(n + 1) |-> Digit[text[q + j]]]]
          BY <4>2 DEF PointNumber
        <4> QED BY <4>1, <4>3
      <3>4. /\ number.whole = Wrap(ValuesFrom(text, p)[q])
            /\ number.digits = [j \in 1..n |-> Digit[text[q + j]]]
        BY <3>1
      <3> QED BY <1>11, <3>2, <3>3, <3>4
    <2> QED BY <1>6, <1>9, <2>1, <2>2, <2>3, <2>4 DEF InFrac
  <1>13. \E i \in Places, j \in Places : SoFar(i) /\ InFrac(i, j)'
    BY <1>5, <1>12
  <1>14. buff' \in Seq(Bytes \cup {EOF}) /\ Len(buff') <= MaxBuff
    BY <1>1, <1>2 DEF Typed
  <1> QED BY <1>1, <1>4, <1>13, <1>14, GoOn, PointsApart

(* All of them came. *)
LEMMA NumberEndsStep == ASSUME PlainTexts, LInv, NumberEnds PROVE LInv'
  <1>1. /\ status = "lexing" /\ at = "frac" /\ current \notin Digits /\ SameChr
        /\ Emit(NumToken(number)) /\ UNCHANGED text
    BY DEF NumberEnds, IsNot, Emit
  <1>2. Reading /\ Typed
    BY <1>1, Now
  <1>3. PICK p \in Places, q \in Places : SoFar(p) /\ InFrac(p, q)
    BY <1>1, Now
  <1>4. /\ Reading' /\ Cur' = Cur /\ Cur' \in 1..(Len(text) + 1)
        /\ text \in Seq(Bytes)
        /\ Cur <= Len(text) => current = text[Cur]
    BY <1>1, <1>2, Stayed
  <1>5. /\ p \in 1..Len(text) /\ q \in (p + 1)..Len(text) /\ Cur \in (q + 1)..(Len(text) + 1)
        /\ \A j \in p..(q - 1) : text[j] \in Digits /\ text[q] = "."
        /\ \A j \in (q + 1)..(Cur - 1) : text[j] \in Digits
        /\ number = PointNumber(text, p, q, Cur)
        /\ text[p] \notin Spaces
    BY <1>1, <1>3, FracHere
  <1>6. TokenAt(text, p) = Found(NumToken(number), Cur')
    <2>1. Cur <= Len(text) => text[Cur] \notin Digits
      BY <1>1, <1>4
    <2>2. \A j \in p..(q - 1) : text[j] \in Digits
      BY <1>5
    <2>3. text[q] = "."
      <3>1. p \in p..(q - 1)
        BY <1>5
      <3> QED BY <1>5, <3>1
    <2>4. TokenAt(text, p)
            = Found(NumToken(PointNumber(text, p, q, Cur)), Cur)
      BY <1>4, <1>5, <2>1, <2>2, <2>3, NumberIs DEF PointNumber
    <2> QED BY <1>4, <1>5, <2>4
  <1> QED BY <1>1, <1>2, <1>3, <1>4, <1>5, <1>6, EmitStep

(* Strings. *)

(* A string begins behind its quote. *)
LEMMA QuoteStep == ASSUME PlainTexts, LInv, Quote PROVE LInv'
  <1>1. /\ status = "lexing" /\ at = "start" /\ current \in Quotes /\ at' = current /\ NextChr
        /\ buff' = <<>> /\ UNCHANGED <<toks, status, text>>
    BY DEF Quote, Is
  <1>2. Reading /\ Typed /\ SoFar(Cur)
    BY <1>1, Now
  <1>3. current # EOF
    BY <1>1, KindsApart
  <1>4. /\ Reading' /\ Cur' = Cur + 1 /\ Cur \in Places /\ current = text[Cur]
        /\ text \in Seq(Bytes) /\ Len(text) \in Nat
    BY <1>1, <1>2, <1>3, Took
  <1>5. PICK p \in Places : p = Cur
    BY <1>4
  <1>6. InQuotes(p)'
    <2>1. Cur' = p + 1 /\ text' = text /\ at' = text[p]
      BY <1>1, <1>4, <1>5
    <2>2. p < p + 1 /\ p + 1 \in 1..(Len(text) + 1) /\ \A j \in (p + 1)..(p + 1 - 1) : FALSE
      BY <1>4 DEF Places
    <2>3. Piece(text, p + 1, p + 1) = <<>>
      BY <1>4, <2>2, PieceStarts
    <2>4. buff' = Piece(text, p + 1, p + 1)
      BY <1>1, <2>3
    <2> QED BY <2>1, <2>2, <2>4 DEF InQuotes
  <1>7. \E q \in Places : SoFar(q) /\ InQuotes(q)'
    BY <1>2, <1>5, <1>6
  <1>8. buff' \in Seq(Bytes \cup {EOF}) /\ Len(buff') <= MaxBuff
    <2>1. MaxBuff \in Nat
      BY LexerAssumption
    <2>2. \A S : <<>> \in Seq(S) /\ Len(<<>>) = 0
      OBVIOUS
    <2> QED BY <1>1, <2>1, <2>2
  <1>9. at' \in Quotes
    BY <1>1
  <1> QED BY <1>1, <1>4, <1>7, <1>8, <1>9, GoOn, PointsApart

(* The places of a string that has not ended. *)
LEMMA QuotesHere ==
  ASSUME PlainTexts, LInv, status = "lexing", at \in Quotes, NEW p \in Places, InQuotes(p)
  PROVE  /\ p \in 1..Len(text) /\ Cur \in (p + 1)..(Len(text) + 1)
         /\ text[p] = at /\ text[p] \in Quotes /\ text[p] \notin Spaces
         /\ \A j \in (p + 1)..(Cur - 1) : text[j] # at
         /\ current # EOF => buff = Piece(text, p + 1, Cur) /\ Len(buff) = Cur - p - 1
  <1>1. Len(text) \in Nat /\ Cur \in 1..(Len(text) + 1) /\ text \in Seq(Bytes)
    BY Here, Now
  <1>2. /\ p < Cur /\ text[p] = at /\ \A j \in (p + 1)..(Cur - 1) : text[j] # at
        /\ current # EOF => buff = Piece(text, p + 1, Cur)
    BY DEF InQuotes
  <1>3. /\ p \in 1..Len(text) /\ Cur \in (p + 1)..(Len(text) + 1)
        /\ p + 1 \in 1..(Len(text) + 1) /\ Cur - (p + 1) = Cur - p - 1
    BY <1>1, <1>2 DEF Places
  <1>4. text[p] \notin Spaces
    BY <1>2, KindsApart
  <1>5. Len(Piece(text, p + 1, Cur)) = Cur - p - 1
    <2>1. Len(Piece(text, p + 1, Cur)) = Cur - (p + 1)
      BY <1>1, <1>3, PieceIs
    <2> QED BY <1>3, <2>1
  <1> QED BY <1>2, <1>3, <1>4, <1>5

(* A character is put into the buffer. *)
LEMMA BuffGrows ==
  ASSUME PlainTexts, Reading, Typed, Len(buff) < MaxBuff, Appended
  PROVE  buff' \in Seq(Bytes \cup {EOF}) /\ Len(buff') <= MaxBuff
  <1>1. current \in Bytes \cup {EOF}
    BY Here
  <1>2. buff \in Seq(Bytes \cup {EOF}) /\ buff' = Append(buff, current) /\ MaxBuff \in Nat
    BY LexerAssumption DEF Typed, Appended
  <1>3. PICK S : S = Bytes \cup {EOF}
    OBVIOUS
  <1>4. PICK b \in Seq(S), c \in S : b = buff /\ c = current
    BY <1>1, <1>2, <1>3
  <1>5. Append(b, c) \in Seq(S) /\ Len(Append(b, c)) = Len(b) + 1 /\ Len(b) \in Nat
    OBVIOUS
  <1>6. Len(Append(b, c)) <= MaxBuff
    BY <1>2, <1>4, <1>5
  <1> QED BY <1>2, <1>3, <1>4, <1>5, <1>6

(* It goes on until the quote, or until memory is used up. *)
LEMMA StringCharStep == ASSUME PlainTexts, LInv, StringChar PROVE LInv'
  <1>1. status = "lexing" /\ at \in Quotes /\ current # at
    BY DEF StringChar, InString
  <1>2. Reading /\ Typed /\ at # "idle"
    BY <1>1, Now, PointsApart
  <1>3. PICK p \in Places : SoFar(p) /\ InQuotes(p)
    BY <1>1, Now
  <1>4. /\ p \in 1..Len(text) /\ Cur \in (p + 1)..(Len(text) + 1)
        /\ text[p] = at /\ text[p] \in Quotes /\ text[p] \notin Spaces
        /\ \A j \in (p + 1)..(Cur - 1) : text[j] # at
    BY <1>1, <1>3, QuotesHere
  <1>5. current # EOF => buff = Piece(text, p + 1, Cur) /\ Len(buff) = Cur - p - 1
    BY <1>1, <1>3, QuotesHere
  <1>6. /\ text \in Seq(Bytes) /\ Len(text) \in Nat /\ Len(text) <= MaxBuff
        /\ current # EOF => Cur \in Places /\ current = text[Cur]
        /\ current = EOF => Cur = Len(text) + 1
    BY <1>2, Here
  <1>7. CASE Len(buff) < MaxBuff
    <2>1. /\ Appended /\ buff' = Append(buff, current) /\ NextChr
          /\ UNCHANGED <<at, toks, status, text>>
      BY <1>7 DEF StringChar, Appended
    <2>2. buff' \in Seq(Bytes \cup {EOF}) /\ Len(buff') <= MaxBuff
      BY <1>2, <1>7, <2>1, BuffGrows
    <2>3. Reading'
      BY <1>2, <2>1, Advance
    <2>4. InQuotes(p)'
      <3>1. CASE current = EOF
        <4>1. /\ Cur' = Cur /\ Cur' = Len(text) + 1
              /\ Cur' = Len(text) + 1 => current' = EOF
          BY <1>2, <1>6, <2>1, <3>1, Advance
        <4>2. p < Cur /\ at' = at /\ text' = text
          BY <1>4, <1>6, <2>1
        <4>3. current' = EOF
          BY <4>1
        <4> QED BY <1>4, <4>1, <4>2, <4>3 DEF InQuotes
      <3>2. CASE current # EOF
        <4>1. PICK c \in Places : c = Cur /\ Cur' = c + 1 /\ current = text[c]
          BY <1>2, <1>6, <2>1, <3>2, Advance
        <4>2. p < c + 1 /\ c \in (p + 1)..Len(text) /\ p + 1 \in 1..(Len(text) + 1)
          BY <1>4, <1>6, <4>1 DEF Places
        <4>3. \A j \in (p + 1)..(c + 1 - 1) : text[j] # at
          <5>1. \A j \in (p + 1)..(c + 1 - 1) : j = c \/ j \in (p + 1)..(c - 1)
            BY <1>4, <4>2
          <5> QED BY <1>1, <1>4, <4>1, <5>1
        <4>4. Append(Piece(text, p + 1, c), text[c]) = Piece(text, p + 1, c + 1)
          BY <1>6, <4>2, PieceGrows
        <4>5. buff' = Piece(text, p + 1, c + 1)
          BY <1>5, <2>1, <3>2, <4>1, <4>4
        <4>6. at' = at /\ text' = text
          BY <2>1
        <4> QED BY <1>4, <4>1, <4>2, <4>3, <4>5, <4>6 DEF InQuotes
      <3> QED BY <3>1, <3>2
    <2>5. \E q \in Places : SoFar(q) /\ InQuotes(q)'
      BY <1>3, <2>4
    <2> QED BY <1>1, <2>1, <2>2, <2>3, <2>5, GoOn, PointsApart
  <1>8. CASE ~(Len(buff) < MaxBuff)
    <2>1. /\ status' = "OUT_OF_MEMORY"
          /\ z' = z /\ current' = current /\ at' = at /\ buff' = buff /\ toks' = toks /\ text' = text
      BY <1>8 DEF StringChar, Throw
    <2>2. current = EOF
      <3>1. SUFFICES ASSUME current # EOF PROVE FALSE
        OBVIOUS
      <3>2. MaxBuff \in Nat
        BY LexerAssumption
      <3>3. Len(buff) = Cur - p - 1 /\ Cur \in Places
        BY <1>5, <1>6, <3>1
      <3> QED BY <1>4, <1>6, <1>8, <3>2, <3>3 DEF Places
    <2>3. \A j \in (p + 1)..Len(text) : text[j] # text[p]
      <3>1. Cur - 1 = Len(text)
        BY <1>6, <2>2
      <3> QED BY <1>4, <3>1
    <2>4. TokenAt(text, p) = Found(Plain("OUT_OF_MEMORY"), 0)
      BY <1>4, <2>3, NoStringIs
    <2>5. TokensOf(text) = Append(toks, Plain("OUT_OF_MEMORY"))
      BY <1>2, <1>3, <1>4, <2>4, Rejected
    <2>6. SameChr
      BY <2>1 DEF SameChr
    <2>7. Reading'
      BY <1>2, <2>1, <2>6, Stay
    <2>8. Typed'
      BY <1>1, <1>2, <2>1 DEF Typed, Bytes
    <2>9. Doing'
      BY <2>1, <2>5 DEF Doing
    <2> QED BY <2>7, <2>8, <2>9 DEF LInv
  <1> QED BY <1>7, <1>8

(* It ends with the quote. *)
LEMMA StringEndsStep == ASSUME PlainTexts, LInv, StringEnds PROVE LInv'
  <1>1. /\ status = "lexing" /\ at \in Quotes /\ current = at /\ NextChr
        /\ Emit(StrToken(buff)) /\ UNCHANGED text
    BY DEF StringEnds, InString, Emit
  <1>2. Reading /\ Typed
    BY <1>1, Now
  <1>3. current # EOF
    BY <1>1, KindsApart
  <1>4. PICK p \in Places : SoFar(p) /\ InQuotes(p)
    BY <1>1, Now
  <1>5. /\ p \in 1..Len(text) /\ Cur \in (p + 1)..(Len(text) + 1)
        /\ text[p] = at /\ text[p] \in Quotes /\ text[p] \notin Spaces
        /\ \A j \in (p + 1)..(Cur - 1) : text[j] # at
    BY <1>1, <1>4, QuotesHere
  <1>6. buff = Piece(text, p + 1, Cur)
    BY <1>1, <1>3, <1>4, QuotesHere
  <1>7. /\ Reading' /\ Cur' = Cur + 1 /\ Cur' \in 1..(Len(text) + 1) /\ Cur \in Places
        /\ current = text[Cur] /\ text \in Seq(Bytes) /\ Len(text) \in Nat
    BY <1>1, <1>2, <1>3, Took
  <1>8. TokenAt(text, p) = Found(StrToken(buff), Cur')
    <2>1. PICK c \in Places : c = Cur
      BY <1>7
    <2>2. c \in (p + 1)..Len(text) /\ \A j \in (p + 1)..(c - 1) : text[j] # text[p]
      BY <1>5, <1>7, <2>1 DEF Places
    <2>3. text[c] = text[p]
      BY <1>1, <1>5, <1>7, <2>1
    <2>4. TokenAt(text, p) = Found(StrToken(Piece(text, p + 1, c)), c + 1)
      BY <1>5, <1>7, <2>2, <2>3, StringIs
    <2> QED BY <1>6, <1>7, <2>1, <2>4
  <1> QED BY <1>1, <1>2, <1>4, <1>5, <1>7, <1>8, EmitStep

(* Names. *)

(* A name begins with a letter. *)
LEMMA NameStep == ASSUME PlainTexts, LInv, Name PROVE LInv'
  <1>1. /\ status = "lexing" /\ at = "start" /\ current \in NameStart /\ buff' = <<current>>
        /\ NextChr /\ at' = "name" /\ UNCHANGED <<toks, status, text>>
    BY DEF Name, Is, Goto
  <1>2. Reading /\ Typed /\ SoFar(Cur)
    BY <1>1, Now
  <1>3. current # EOF
    BY <1>1, KindsApart
  <1>4. /\ Reading' /\ Cur' = Cur + 1 /\ Cur \in Places /\ current = text[Cur]
        /\ current \in Bytes /\ text \in Seq(Bytes) /\ Len(text) \in Nat /\ Len(text) <= MaxBuff
    BY <1>1, <1>2, <1>3, Took, Here
  <1>5. PICK p \in Places : p = Cur
    BY <1>4
  <1>6. InName(p)'
    <2>1. Cur' = p + 1 /\ text' = text /\ text[p] \in NameStart
      BY <1>1, <1>4, <1>5
    <2>2. p < p + 1 /\ p \in 1..(Len(text) + 1) /\ p <= Len(text) /\ \A j \in p..(p + 1 - 1) : j = p
      BY <1>4 DEF Places
    <2>3. Piece(text, p, p + 1) = <<text[p]>>
      BY <1>4, <2>2, PieceStarts
    <2>4. buff' = Piece(text, p, p + 1)
      BY <1>1, <1>4, <1>5, <2>3
    <2>5. Run(p, Cur, NameChars)'
      <3>1. \A j \in p..(p + 1 - 1) : text[j] \in NameChars
        BY <2>1, <2>2 DEF NameChars
      <3> QED BY <1>1, <1>4, <1>5, <2>1, <3>1 DEF Run, Places
    <2> QED BY <2>1, <2>2, <2>4, <2>5 DEF InName
  <1>7. \E q \in Places : SoFar(q) /\ InName(q)'
    BY <1>2, <1>5, <1>6
  <1>8. buff' \in Seq(Bytes \cup {EOF}) /\ Len(buff') <= MaxBuff
    <2>1. PICK S : S = Bytes \cup {EOF}
      OBVIOUS
    <2>2. PICK c \in S : c = current
      BY <1>4, <2>1
    <2>3. <<c>> \in Seq(S) /\ Len(<<c>>) = 1
      OBVIOUS
    <2>4. MaxBuff \in Nat
      BY LexerAssumption
    <2>5. 1 <= Len(text)
      BY <1>4 DEF Places
    <2>6. Len(buff') <= MaxBuff
      BY <1>1, <1>4, <2>2, <2>3, <2>4, <2>5
    <2> QED BY <1>1, <2>1, <2>2, <2>3, <2>6
  <1> QED BY <1>1, <1>4, <1>7, <1>8, GoOn, PointsApart

(* The places of a name. *)
LEMMA NameHere ==
  ASSUME PlainTexts, LInv, status = "lexing", at = "name", NEW p \in Places, InName(p)
  PROVE  /\ p \in 1..Len(text) /\ Cur \in (p + 1)..(Len(text) + 1)
         /\ text[p] \in NameStart /\ text[p] \notin Spaces
         /\ \A j \in p..(Cur - 1) : text[j] \in NameChars
         /\ buff = Piece(text, p, Cur) /\ Len(buff) = Cur - p
  <1>1. Len(text) \in Nat /\ Cur \in 1..(Len(text) + 1) /\ text \in Seq(Bytes)
    BY Here, Now
  <1>2. /\ p < Cur /\ text[p] \in NameStart /\ \A j \in p..(Cur - 1) : text[j] \in NameChars
        /\ buff = Piece(text, p, Cur)
    BY DEF InName, Run
  <1>3. p \in 1..Len(text) /\ Cur \in (p + 1)..(Len(text) + 1) /\ p \in 1..(Len(text) + 1)
        /\ Cur \in p..(Len(text) + 1)
    BY <1>1, <1>2 DEF Places
  <1>4. text[p] \notin Spaces
    BY <1>2, KindsApart
  <1>5. Len(Piece(text, p, Cur)) = Cur - p
    BY <1>1, <1>3, PieceIs
  <1> QED BY <1>2, <1>3, <1>4, <1>5

(* It goes on with letters and digits. *)
LEMMA NameCharStep == ASSUME PlainTexts, LInv, NameChar PROVE LInv'
  <1>1. /\ status = "lexing" /\ at = "name" /\ current \in NameChars /\ Appended
        /\ buff' = Append(buff, current) /\ NextChr /\ UNCHANGED <<at, toks, status, text>>
    BY DEF NameChar, Is, Appended
  <1>2. Reading /\ Typed
    BY <1>1, Now
  <1>3. current # EOF
    BY <1>1, KindsApart
  <1>4. /\ Reading' /\ Cur' = Cur + 1 /\ Cur \in Places /\ current = text[Cur]
        /\ text \in Seq(Bytes) /\ Len(text) \in Nat /\ Len(text) <= MaxBuff
    BY <1>1, <1>2, <1>3, Took, Here
  <1>5. PICK p \in Places : SoFar(p) /\ InName(p)
    BY <1>1, Now
  <1>6. /\ p \in 1..Len(text) /\ Cur \in (p + 1)..(Len(text) + 1)
        /\ text[p] \in NameStart
        /\ \A j \in p..(Cur - 1) : text[j] \in NameChars
        /\ buff = Piece(text, p, Cur) /\ Len(buff) = Cur - p
    BY <1>1, <1>5, NameHere
  <1>7. PICK c \in Places : c = Cur /\ c \in Nat
    BY <1>4 DEF Places
  <1>8. p < c + 1 /\ c \in p..Len(text) /\ p \in 1..(Len(text) + 1) /\ p < c
    BY <1>4, <1>6, <1>7 DEF Places
  <1>9. InName(p)'
    <2>1. Cur' = c + 1 /\ text' = text /\ text[c] \in NameChars
      BY <1>1, <1>4, <1>7
    <2>2. \A j \in p..(c + 1 - 1) : text[j] \in NameChars
      <3>1. \A j \in p..(c + 1 - 1) : j = c \/ j \in p..(c - 1)
        BY <1>6, <1>7
      <3> QED BY <1>6, <1>7, <2>1, <3>1
    <2>3. Append(Piece(text, p, c), text[c]) = Piece(text, p, c + 1)
      BY <1>4, <1>8, PieceGrows
    <2>4. buff' = Piece(text, p, c + 1)
      BY <1>1, <1>4, <1>6, <1>7, <2>3
    <2>5. Run(p, Cur, NameChars)'
      BY <1>1, <1>4, <1>6, <1>7, <2>1, <2>2 DEF Run
    <2> QED BY <1>6, <1>8, <2>1, <2>4, <2>5 DEF InName
  <1>10. \E q \in Places : SoFar(q) /\ InName(q)'
    BY <1>5, <1>9
  <1>11. Len(buff) < MaxBuff
    <2>1. MaxBuff \in Nat
      BY LexerAssumption
    <2> QED BY <1>4, <1>6, <1>7, <1>8, <2>1
  <1>12. buff' \in Seq(Bytes \cup {EOF}) /\ Len(buff') <= MaxBuff
    BY <1>1, <1>2, <1>11, BuffGrows
  <1> QED BY <1>1, <1>4, <1>10, <1>12, GoOn, PointsApart

(* It ends with another character. *)
LEMMA NameEndsStep == ASSUME PlainTexts, LInv, NameEnds PROVE LInv'
  <1>1. /\ status = "lexing" /\ at = "name" /\ current \notin NameChars /\ SameChr
        /\ Emit(NameToken(buff)) /\ UNCHANGED text
    BY DEF NameEnds, IsNot, Emit
  <1>2. Reading /\ Typed
    BY <1>1, Now
  <1>3. PICK p \in Places : SoFar(p) /\ InName(p)
    BY <1>1, Now
  <1>4. /\ Reading' /\ Cur' = Cur /\ Cur' \in 1..(Len(text) + 1)
        /\ text \in Seq(Bytes)
        /\ Cur <= Len(text) => current = text[Cur]
    BY <1>1, <1>2, Stayed
  <1>5. /\ p \in 1..Len(text) /\ Cur \in (p + 1)..(Len(text) + 1)
        /\ text[p] \in NameStart /\ text[p] \notin Spaces
        /\ \A j \in p..(Cur - 1) : text[j] \in NameChars
        /\ buff = Piece(text, p, Cur)
    BY <1>1, <1>3, NameHere
  <1>6. TokenAt(text, p) = Found(NameToken(buff), Cur')
    <2>1. Cur <= Len(text) => text[Cur] \notin NameChars
      BY <1>1, <1>4
    <2>2. \A j \in p..(Cur - 1) : text[j] \in NameChars
      BY <1>5
    <2>3. TokenAt(text, p) = Found(NameToken(Piece(text, p, Cur)), Cur)
      BY <1>4, <1>5, <2>1, <2>2, NameIs
    <2> QED BY <1>4, <1>5, <2>3
  <1> QED BY <1>1, <1>2, <1>3, <1>4, <1>5, <1>6, EmitStep

(* What no token begins with. *)
LEMMA UnexpectedStep == ASSUME PlainTexts, LInv, Unexpected PROVE LInv'
  <1>1. /\ status = "lexing" /\ at = "start"
        /\ current \notin {EOF, "="} \cup Singles \cup Digits \cup Spaces \cup Quotes \cup NameStart
        /\ status' = "PARSE"
        /\ z' = z /\ current' = current /\ at' = at /\ buff' = buff /\ toks' = toks /\ text' = text
    BY DEF Unexpected, IsNot, Throw
  <1>2. Reading /\ Typed /\ SoFar(Cur)
    BY <1>1, Now
  <1>3. Cur \in Places /\ current = text[Cur]
    BY <1>1, <1>2, Here
  <1>4. TokenAt(text, Cur) = Found(Plain("PARSE"), 0)
    BY <1>1, <1>3, NothingIs
  <1>5. TokensOf(text) = Append(toks, Plain("PARSE"))
    BY <1>1, <1>2, <1>3, <1>4, Rejected
  <1>6. Reading'
    <2>1. SameChr
      BY <1>1 DEF SameChr
    <2> QED BY <1>1, <1>2, <2>1, Stay, PointsApart
  <1>7. Typed'
    BY <1>1, <1>2 DEF Typed, Bytes
  <1>8. Doing'
    BY <1>1, <1>5 DEF Doing
  <1> QED BY <1>6, <1>7, <1>8 DEF LInv

(* A step that changes nothing. *)
LEMMA StutterStep == ASSUME PlainTexts, LInv, UNCHANGED lvars PROVE LInv'
  <1>1. /\ z' = z /\ current' = current /\ at' = at /\ buff' = buff /\ number' = number
        /\ toks' = toks /\ status' = status /\ text' = text
    BY DEF lvars
  <1>2. Bytes' = Bytes /\ Rest' = Rest /\ Pos' = Pos /\ Cur' = Cur /\ Places' = Places
    BY <1>1 DEF Bytes, Rest, Pos, Cur, Places
  <1>3. Reading' /\ Typed'
    BY <1>1, <1>2 DEF LInv, Reading, Typed
  <1>4. Doing'
    <2>1. /\ \A p : SoFar(p)' <=> SoFar(p)
          /\ \A p : InEq(p)' <=> InEq(p)
          /\ \A p : InDigits(p)' <=> InDigits(p)
          /\ \A p, q : InFrac(p, q)' <=> InFrac(p, q)
          /\ \A p : InQuotes(p)' <=> InQuotes(p)
          /\ \A p : InName(p)' <=> InName(p)
      BY <1>1, <1>2 DEF SoFar, InEq, InDigits, InFrac, InQuotes, InName, Run
    <2> QED BY <1>1, <1>2, <2>1 DEF LInv, Doing
  <1> QED BY <1>3, <1>4 DEF LInv

(* Nothing was read yet. *)
LEMMA InitLInv == ASSUME PlainTexts, Init PROVE LInv
  <1>1. /\ text \in Texts /\ current = EOF /\ at = "idle" /\ buff = <<>> /\ toks = <<>>
        /\ status = "lexing"
    BY DEF Init
  <1>2. PICK limit \in Limits : z = Zio(text, limit)
    BY DEF Init
  <1>3. text \in Seq(Bytes) /\ Len(text) \in Nat /\ limit \in Nat \ {0} /\ MaxBuff \in Nat
    <2>1. /\ \A s \in Texts : s \in Seq(ToSet(s))
          /\ Limits \subseteq Nat \ {0} /\ MaxBuff \in Nat
      BY LexerAssumption
    <2>2. text \in Seq(Bytes) /\ limit \in Nat \ {0}
      BY <1>1, <2>1 DEF Bytes
    <2> QED BY <2>1, <2>2
  <1>4. z = [src |-> text, limit |-> limit, eof |-> FALSE, unread |-> <<>>]
    BY <1>2 DEF Zio
  <1>5. <<>> \in Seq(Bytes) /\ <<>> \o text = text
    BY <1>3, ConcatEmptySeq
  <1>6. ZioOK(z, Bytes) /\ Rest = text
    BY <1>3, <1>4, <1>5 DEF ZioOK, Zios, Rest, RestOf
  <1>7. Pos = 0 /\ Cur = 1
    BY <1>1, <1>3, <1>6 DEF Pos, Cur
  <1>8. Reading
    <2>1. \A i \in 1..Len(text) : 0 + i = i
      BY <1>3
    <2> QED BY <1>1, <1>3, <1>6, <1>7, <2>1 DEF Reading
  <1>9. Typed
    <2>1. \A S : <<>> \in Seq(S) /\ Len(<<>>) = 0
      OBVIOUS
    <2> QED BY <1>1, <1>3, <2>1 DEF Typed
  <1>10. SoFar(1)
    <2>1. 1 \in 1..(Len(text) + 1)
      BY <1>3
    <2>2. PICK t \in Seq(TokensIn(text)) : t = TokensFrom(text)[1]
      BY <1>3, <2>1, TokensType
    <2>3. <<>> \o t = t
      BY ConcatEmptySeq
    <2> QED BY <1>1, <2>1, <2>2, <2>3 DEF SoFar, TokensOf
  <1>11. Doing
    BY <1>1, <1>7, <1>10, PointsApart DEF Doing
  <1> QED BY <1>8, <1>9, <1>11 DEF LInv

(* Each step keeps what is known. *)
LEMMA NextKeepsLInv == ASSUME PlainTexts, LInv, [Next]_lvars PROVE LInv'
  <1>1. CASE NextToken
    BY <1>1, NextTokenStep
  <1>2. CASE End
    BY <1>2, EndStep
  <1>3. CASE Space
    BY <1>3, SpaceStep
  <1>4. CASE Single
    BY <1>4, SingleStep
  <1>5. CASE Eq
    BY <1>5, EqStep
  <1>6. CASE EqEq
    BY <1>6, EqEqStep
  <1>7. CASE EqOnly
    BY <1>7, EqOnlyStep
  <1>8. CASE FirstDigit
    BY <1>8, FirstDigitStep
  <1>9. CASE MoreDigits
    BY <1>9, MoreDigitsStep
  <1>10. CASE Point
    BY <1>10, PointStep
  <1>11. CASE FracDigit
    BY <1>11, FracDigitStep
  <1>12. CASE IntegerEnds
    BY <1>12, IntegerEndsStep
  <1>13. CASE NumberEnds
    BY <1>13, NumberEndsStep
  <1>14. CASE Quote
    BY <1>14, QuoteStep
  <1>15. CASE StringChar
    BY <1>15, StringCharStep
  <1>16. CASE StringEnds
    BY <1>16, StringEndsStep
  <1>17. CASE Name
    BY <1>17, NameStep
  <1>18. CASE NameChar
    BY <1>18, NameCharStep
  <1>19. CASE NameEnds
    BY <1>19, NameEndsStep
  <1>20. CASE Unexpected
    BY <1>20, UnexpectedStep
  <1>21. CASE UNCHANGED lvars
    BY <1>21, StutterStep
  <1> QED BY <1>1, <1>2, <1>3, <1>4, <1>5, <1>6, <1>7, <1>8, <1>9, <1>10, <1>11, <1>12, <1>13,
             <1>14, <1>15, <1>16, <1>17, <1>18, <1>19, <1>20, <1>21 DEF Next

(* So it is always known. *)
LEMMA LInvAlways == ASSUME PlainTexts PROVE Spec => []LInv
  <1>1. Init => LInv
    BY InitLInv
  <1>2. LInv /\ [Next]_lvars => LInv'
    BY NextKeepsLInv
  <1> QED BY <1>1, <1>2, PTL DEF Spec

-----------------------------------------------------------------------------
(* What follows. *)

(* next_token never reads outside the text, the number of an Integer token *)
(* stays in its width however many digits there are, and the buffer of a   *)
(* token has room.                                                         *)
THEOREM TypeCorrect == ASSUME PlainTexts PROVE Spec => []TypeOK
  <1>1. LInv => TypeOK
    <2>1. SUFFICES ASSUME LInv PROVE TypeOK
      OBVIOUS
    <2>2. current \in {EOF} \cup ToSet(text)
      BY <2>1, Here DEF LInv, Bytes
    <2>3. at = "digits" => number \in (-IntMax - 1)..IntMax
      <3>1. SUFFICES ASSUME at = "digits" PROVE number \in (-IntMax - 1)..IntMax
        OBVIOUS
      <3>2. status = "lexing"
        BY <2>1, <3>1, PointsApart DEF LInv, Typed
      <3>3. PICK p \in Places : InDigits(p)
        BY <2>1, <3>1, <3>2, Now
      <3>4. /\ number = Wrap(ValuesFrom(text, p)[Cur])
            /\ ValuesFrom(text, p)[Cur] \in Nat
        BY <2>1, <3>1, <3>2, <3>3, DigitsHere
      <3> QED BY <3>4, WrapIs
    <2> QED BY <2>1, <2>2, <2>3 DEF TypeOK, LInv, Typed
  <1> QED BY <1>1, LInvAlways, PTL

(* The beginning of a sequence. *)
LEMMA Begins ==
  ASSUME NEW S, NEW s \in Seq(S), NEW t \in Seq(S)
  PROVE  IsPrefix(s, s \o t)
  <1>1. PICK u \in Seq(S) : u = s \o t /\ Len(u) = Len(s) + Len(t) /\ \A i \in 1..Len(s) : u[i] = s[i]
    <2>1. /\ s \o t \in Seq(S) /\ Len(s \o t) = Len(s) + Len(t)
          /\ \A i \in 1..Len(s) : (s \o t)[i] = s[i]
      BY Joined
    <2> QED BY <2>1
  <1>2. Len(s) \in Nat /\ Len(t) \in Nat
    OBVIOUS
  <1>3. Len(s) \in 0..Len(s) /\ Len(s) \in 0..Len(u) /\ Len(s) <= Len(u)
    BY <1>1, <1>2
  <1>4. PICK a \in Seq(S) : a = SubSeq(s, 1, Len(s)) /\ Len(a) = Len(s) /\ \A i \in 1..Len(s) : a[i] = s[i]
    BY <1>3, Parts
  <1>5. PICK b \in Seq(S) : b = SubSeq(u, 1, Len(s)) /\ Len(b) = Len(s) /\ \A i \in 1..Len(s) : b[i] = u[i]
    <2>1. /\ SubSeq(u, 1, Len(s)) \in Seq(S) /\ Len(SubSeq(u, 1, Len(s))) = Len(s)
          /\ \A i \in 1..Len(s) : SubSeq(u, 1, Len(s))[i] = u[i]
      BY <1>3, Parts
    <2> QED BY <2>1
  <1>6. a = b
    BY <1>1, <1>4, <1>5, SeqEqual
  <1> QED BY <1>1, <1>3, <1>4, <1>5, <1>6 DEF IsPrefix

(* Every text without the byte that is EOF gives the tokens it is made of, *)
(* or the error for what is no token, whatever the sizes of the chunks.    *)
THEOREM Lexes == ASSUME PlainTexts PROVE Spec => []LexesText
  <1>1. LInv => LexesText
    <2>1. SUFFICES ASSUME LInv PROVE LexesText
      OBVIOUS
    <2>2. ASSUME status = "lexing" PROVE IsPrefix(toks, TokensOf(text))
      <3>1. PICK p : SoFar(p)
        BY <2>1, <2>2, Now DEF Typed
      <3>2. /\ p \in 1..(Len(text) + 1) /\ TokensOf(text) = toks \o TokensFrom(text)[p]
            /\ toks \in Seq(TokensIn(text)) /\ text \in Seq(Bytes)
        BY <2>1, <3>1, Here DEF LInv, Typed, SoFar
      <3>3. PICK t \in Seq(TokensIn(text)) : t = TokensFrom(text)[p]
        BY <3>2, TokensType
      <3> QED BY <3>2, <3>3, Begins
    <2>3. status = "eof" => toks = TokensOf(text)
      BY <2>1 DEF LInv, Doing
    <2>4. status \notin {"lexing", "eof"} => Append(toks, Plain(status)) = TokensOf(text)
      BY <2>1 DEF LInv, Doing
    <2> QED BY <2>2, <2>3, <2>4 DEF LexesText
  <1> QED BY <1>1, LInvAlways, PTL

(* A step of next_token is a step of the stream, or none. *)
LEMMA StreamStep ==
  ASSUME PlainTexts, LInv, [Next]_lvars
  PROVE  [Stream!Take]_<<z.unread \o z.src, current>>
  <1>1. NextChr \/ (z' = z /\ current' = current)
    BY DEF Next, NextToken, End, Space, Single, Eq, EqEq, EqOnly, FirstDigit, MoreDigits, Point,
           FracDigit, IntegerEnds, NumberEnds, Quote, StringChar, StringEnds, Name, NameChar,
           NameEnds, Unexpected, Appended, Throw, SameChr, lvars
  <1>2. CASE z' = z /\ current' = current
    BY <1>2
  <1>3. CASE NextChr
    <2>1. ZioOK(z, Bytes) /\ EOF \notin Bytes
      BY Here DEF LInv, Reading
    <2>2. PICK w : w = Taken(z)
      OBVIOUS
    <2>3. z' = w /\ current' = PeekChr(z)
      BY <1>3, <2>2 DEF NextChr
    <2>4. PICK s \in Seq(Bytes), t \in Seq(Bytes) : s = RestOf(z) /\ t = RestOf(w)
      <3>1. ZioOK(w, Bytes)
        BY <2>1, <2>2, TakenIs
      <3>2. RestOf(z) \in Seq(Bytes)
        BY <2>1 DEF ZioOK, Zios, RestOf
      <3>3. RestOf(w) \in Seq(Bytes)
        BY <3>1 DEF ZioOK, Zios, RestOf
      <3> QED BY <3>2, <3>3
    <2>5. /\ s = <<>> => PeekChr(z) = EOF /\ t = <<>>
          /\ s # <<>> => /\ PeekChr(z) = s[1] /\ Len(t) = Len(s) - 1
                         /\ \A i \in 1..(Len(s) - 1) : t[i] = s[i + 1]
      BY <2>1, <2>2, <2>4, TakenIs
    <2>6. s # <<>> => Head(s) = s[1] /\ t = Tail(s)
      <3>1. SUFFICES ASSUME s # <<>> PROVE Head(s) = s[1] /\ t = Tail(s)
        OBVIOUS
      <3>2. PICK r \in Seq(Bytes) : /\ r = Tail(s) /\ Len(r) = Len(s) - 1
                                    /\ \A i \in 1..Len(r) : r[i] = s[i + 1]
        BY <3>1, HeadTailProperties
      <3>3. t = r
        BY <2>5, <3>1, <3>2, SeqEqual
      <3>4. Head(s) = s[1]
        BY <3>1, Others
      <3> QED BY <3>2, <3>3, <3>4
    <2>7. s = z.unread \o z.src /\ t = z'.unread \o z'.src
      BY <2>3, <2>4 DEF RestOf
    <2>8. IF s = <<>> THEN current' = EOF /\ t = s ELSE current' = Head(s) /\ t = Tail(s)
      BY <2>3, <2>5, <2>6
    <2> QED BY <2>7, <2>8 DEF Stream!Take
  <1> QED BY <1>1, <1>2, <1>3

(* The input buffer under next_token gives each byte of the text once and  *)
(* in order, and then EOF for ever: a stream without borders.              *)
THEOREM Refinement == ASSUME PlainTexts PROVE Spec => ImplementsStream
  <1>1. Init => Stream!Init
    <2>1. SUFFICES ASSUME Init PROVE Stream!Init
      OBVIOUS
    <2>2. text \in Texts /\ current = EOF
      BY <2>1 DEF Init
    <2>3. PICK limit \in Limits : z = Zio(text, limit)
      BY <2>1 DEF Init
    <2>4. z.unread = <<>> /\ z.src = text
      BY <2>3 DEF Zio
    <2>5. text \in Seq(ToSet(text))
      BY <2>2, LexerAssumption
    <2>6. <<>> \o text = text
      BY <2>5, ConcatEmptySeq
    <2> QED BY <2>2, <2>4, <2>6 DEF Stream!Init
  <1>2. LInv /\ [Next]_lvars => [Stream!Take]_<<z.unread \o z.src, current>>
    BY StreamStep
  <1> QED BY <1>1, <1>2, LInvAlways, PTL DEF Spec, ImplementsStream, Stream!Spec
=============================================================================

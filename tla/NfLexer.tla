-------------------------------- MODULE NfLexer --------------------------------
(***************************************************************************)
(* The lexer of nf: next_token (nf/src/parser.cpp) over the input buffer   *)
(* of NfZio.  at names the point of next_token that runs next; each step   *)
(* is what is done with one character.  The parser asks for tokens until   *)
(* it got the end of the text or an error.                                 *)
(*                                                                         *)
(* Characters are their names, and digits of a text make numbers modulo    *)
(* the width of an Integer; a double is its whole part and the digits      *)
(* behind the point.                                                       *)
(***************************************************************************)
EXTENDS NfZio, SequencesExt

CONSTANTS
  Texts,                  \* what is read: sequences of characters
  Limits,                 \* sizes of a reader's buffer
  Letters,                \* what isalpha holds of
  Local,                  \* the keyword: a sequence of letters
  IntMax,                 \* the largest Integer
  MaxBuff                 \* bound: characters memory has room for

VARIABLES
  z,       \* the ZIO, see NfZio
  current, \* LexState::current
  at,      \* the point in next_token, or "idle"
  buff,    \* what was put into LexState::buff for this token
  number,  \* i, or [whole, digits] after the point
  toks,    \* the tokens returned
  status,  \* "lexing", "eof", or the error thrown
  text     \* history: the text

lvars == <<z, current, at, buff, number, toks, status, text>>

-----------------------------------------------------------------------------
(* Characters. *)
Numerals == <<"0", "1", "2", "3", "4", "5", "6", "7", "8", "9">>
Digit == [c \in ToSet(Numerals) |-> (CHOOSE k \in DOMAIN Numerals : Numerals[k] = c) - 1]
Digits == DOMAIN Digit
Singles == {"#", ";", "[", "]", "{", "}", "(", ")", "*", "/", "-", "+"}
Spaces == {"\t", " ", "\r", "\n"}
Quotes == {"'", "\""}
NameStart == Letters \cup {"_"}
NameChars == NameStart \cup Digits

ASSUME LexerAssumption ==
  /\ Limits \subseteq Nat \ {0}
  /\ IntMax \in Nat /\ IntMax >= 9 /\ MaxBuff \in Nat
  /\ \A s \in Texts : s \in Seq(ToSet(s)) /\ Len(s) <= MaxBuff
  /\ Letters \cap ({EOF, "=", ".", "_"} \cup Singles \cup Digits \cup Spaces \cup Quotes) = {}

(* i = i * 10 + current - '0' in 64 bits; or without regard to the width.  *)
Wrap(x) == ((x + IntMax + 1) % (2 * (IntMax + 1))) - IntMax - 1
WithDigitUnbounded(i, c) == i * 10 + Digit[c]
WithDigit(i, c) == Wrap(i * 10 + Digit[c])

(* Tokens. *)
NoText == [type |-> "NIL", v |-> 0]
Plain(kind) == [kind |-> kind, text |-> NoText]
IntToken(i) == [kind |-> "int", text |-> [type |-> "Integer", v |-> i]]
NumToken(n) == [kind |-> "num", text |-> [type |-> "Number", v |-> n]]
StrToken(s) == [kind |-> "str", text |-> [type |-> "String", v |-> s]]

(* The keyword is compared with the whole name.                            *)
NameToken(s) == IF s = Local THEN Plain("local") ELSE [StrToken(s) EXCEPT !.kind = "sym"]

-----------------------------------------------------------------------------
(* next_chr. *)
NextChr == z' = Taken(z) /\ current' = PeekChr(z)
SameChr == UNCHANGED <<z, current>>

Goto(point) == at' = point /\ UNCHANGED <<toks, status, text>>
Emit(token) ==
  /\ toks' = Append(toks, token)
  /\ at' = "idle" /\ buff' = <<>> /\ number' = 0
  /\ UNCHANGED <<status, text>>
Throw(err) ==
  /\ status' = err
  /\ UNCHANGED <<z, current, at, buff, number, toks, text>>

Is(point, chars) == status = "lexing" /\ at = point /\ current \in chars
IsNot(point, chars) == status = "lexing" /\ at = point /\ current \notin chars

(* next_token begins: if the last character was the end, there may be more *)
(* by now.                                                                 *)
NextToken ==
  /\ status = "lexing" /\ at = "idle"
  /\ IF current = EOF THEN NextChr ELSE SameChr
  /\ Goto("start")
  /\ UNCHANGED <<buff, number>>

End ==
  /\ Is("start", {EOF})
  /\ NextChr
  /\ toks' = Append(toks, Plain("eof")) /\ status' = "eof"
  /\ UNCHANGED <<at, buff, number, text>>

Space ==
  /\ Is("start", Spaces)
  /\ NextChr /\ Goto("start") /\ UNCHANGED <<buff, number>>

Single ==
  /\ Is("start", Singles)
  /\ NextChr /\ Emit(Plain(current))

(* = and ==: the second character is taken only if it is a =.              *)
Eq ==
  /\ Is("start", {"="})
  /\ NextChr /\ Goto("eq") /\ UNCHANGED <<buff, number>>

EqEq == Is("eq", {"="}) /\ NextChr /\ Emit(Plain("=="))
EqOnlyTaken == IsNot("eq", {"="}) /\ NextChr /\ Emit(Plain("="))
EqOnly == IsNot("eq", {"="}) /\ SameChr /\ Emit(Plain("="))

(* Numbers. *)
FirstDigit ==
  /\ Is("start", Digits)
  /\ number' = Digit[current]
  /\ NextChr /\ Goto("digits") /\ UNCHANGED buff

MoreDigits ==
  /\ Is("digits", Digits)
  /\ number' = WithDigit(number, current)
  /\ NextChr /\ Goto("digits") /\ UNCHANGED buff

Point ==
  /\ Is("digits", {"."})
  /\ number' = [whole |-> number, digits |-> <<>>]
  /\ NextChr /\ Goto("frac") /\ UNCHANGED buff

FracDigit ==
  /\ Is("frac", Digits)
  /\ number' = [number EXCEPT !.digits = Append(@, Digit[current])]
  /\ NextChr /\ Goto("frac") /\ UNCHANGED buff

IntegerEnds == IsNot("digits", Digits \cup {"."}) /\ SameChr /\ Emit(IntToken(number))
NumberEnds == IsNot("frac", Digits) /\ SameChr /\ Emit(NumToken(number))

(* Strings: all characters up to the same quote, of which there may be     *)
(* none: then EOF is appended until memory is used up.  Or the end of the  *)
(* text ends the string as well.                                           *)
Quote ==
  /\ Is("start", Quotes)
  /\ at' = current /\ NextChr
  /\ buff' = <<>>
  /\ UNCHANGED <<number, toks, status, text>>

InString == status = "lexing" /\ at \in Quotes

Appended ==
  /\ buff' = Append(buff, current)
  /\ NextChr /\ UNCHANGED <<at, number, toks, status, text>>

StringCharStuck ==
  /\ InString /\ current # at
  /\ IF Len(buff) < MaxBuff THEN Appended ELSE UNCHANGED lvars
StringChar ==
  /\ InString /\ current # at
  /\ IF Len(buff) < MaxBuff THEN Appended ELSE Throw("OUT_OF_MEMORY")

StringEnds ==
  /\ InString /\ current = at
  /\ NextChr /\ Emit(StrToken(buff))

(* Names. *)
Name ==
  /\ Is("start", NameStart)
  /\ buff' = <<current>>
  /\ NextChr /\ Goto("name") /\ UNCHANGED number

NameChar == Is("name", NameChars) /\ Appended

NameEnds == IsNot("name", NameChars) /\ SameChr /\ Emit(NameToken(buff))

Unexpected ==
  /\ IsNot("start", {EOF, "="} \cup Singles \cup Digits \cup Spaces \cup Quotes \cup NameStart)
  /\ Throw("PARSE")

-----------------------------------------------------------------------------
(* y_parser. *)
Init ==
  /\ text \in Texts
  /\ \E limit \in Limits : z = Zio(text, limit)
  /\ current = EOF /\ at = "idle"
  /\ buff = <<>> /\ number = 0
  /\ toks = <<>> /\ status = "lexing"

Next ==
  \/ NextToken \/ End \/ Space \/ Single \/ Eq \/ EqEq \/ EqOnly
  \/ FirstDigit \/ MoreDigits \/ Point \/ FracDigit \/ IntegerEnds \/ NumberEnds
  \/ Quote \/ StringChar \/ StringEnds \/ Name \/ NameChar \/ NameEnds \/ Unexpected

Spec == Init /\ [][Next]_lvars
(* The lexer waits for nothing. *)
FairSpec == Spec /\ WF_lvars(Next)

-----------------------------------------------------------------------------
(* What the tokens of a text are, without buffer and character at a time:  *)
(* the longest piece of the text that is a token, and the next one.        *)

(* Where the longest run of chars that begins at p ends: the next place.   *)
AfterRun(s, p, chars) ==
  CHOOSE q \in p..(Len(s) + 1) :
    /\ \A j \in p..(q - 1) : s[j] \in chars
    /\ q <= Len(s) => s[q] \notin chars

Piece(s, p, q) == SubSeq(s, p, q - 1)

(* ValuesFrom(s, p)[q] is what the digits from p to before q amount to.    *)
ValuesFrom(s, p) ==
  LET value[q \in p..(Len(s) + 1)] ==
        IF q = p THEN 0 ELSE value[q - 1] * 10 + Digit[s[q - 1]]
  IN value

Found(token, next) == [token |-> token, next |-> next]

NumberAt(s, p) ==
  LET q == AfterRun(s, p, Digits)
      r == AfterRun(s, q + 1, Digits)
      whole == Wrap(ValuesFrom(s, p)[q])
  IN IF q <= Len(s) /\ s[q] = "."
       THEN Found(NumToken([whole |-> whole,
                            digits |-> [j \in 1..(r - q - 1) |-> Digit[s[q + j]]]]), r)
       ELSE Found(IntToken(whole), q)

(* A string ends at the next quote of its kind. *)
StringAt(s, p) ==
  LET closing == {q \in (p + 1)..Len(s) : s[q] = s[p]}
      close == CHOOSE q \in closing : \A r \in closing : q <= r
  IN IF closing = {} THEN Found(Plain("OUT_OF_MEMORY"), 0)
     ELSE Found(StrToken(Piece(s, p + 1, close)), close + 1)

NameAt(s, p) ==
  LET q == AfterRun(s, p, NameChars)
      name == Piece(s, p, q)
  IN Found(IF name = Local THEN Plain("local") ELSE [StrToken(name) EXCEPT !.kind = "sym"], q)

(* What there is at p: a token, or why there is none.                      *)
TokenAt(s, p) ==
  CASE s[p] \in Singles -> Found(Plain(s[p]), p + 1)
    [] s[p] = "=" -> IF p < Len(s) /\ s[p + 1] = "=" THEN Found(Plain("=="), p + 2)
                                                    ELSE Found(Plain("="), p + 1)
    [] s[p] \in Digits -> NumberAt(s, p)
    [] s[p] \in Quotes -> StringAt(s, p)
    [] s[p] \in NameStart -> NameAt(s, p)
    [] OTHER -> Found(Plain("PARSE"), 0)

(* The tokens from each place on, the last of them saying how the text     *)
(* ends.                                                                   *)
TokensFrom(s) ==
  LET from[p \in 1..(Len(s) + 1)] ==
        IF p = Len(s) + 1 THEN <<Plain("eof")>>
        ELSE IF s[p] \in Spaces THEN from[p + 1]
        ELSE IF TokenAt(s, p).next = 0 THEN <<TokenAt(s, p).token>>
        ELSE <<TokenAt(s, p).token>> \o from[TokenAt(s, p).next]
  IN from

TokensOf(s) == TokensFrom(s)[1]

-----------------------------------------------------------------------------
(* Properties. *)

(* Every text gives the tokens it is made of, wherever the borders of the  *)
(* chunks are; and an error for what is no token.                          *)
LexesText ==
  /\ status = "lexing" => IsPrefix(toks, TokensOf(text))
  /\ status = "eof" => toks = TokensOf(text)
  /\ status \notin {"lexing", "eof"} => Append(toks, Plain(status)) = TokensOf(text)

(* The buffer has no borders: whatever the sizes of the chunks, next_chr   *)
(* gives each byte once and in order, and EOF after the last.              *)
Stream == INSTANCE NfStream WITH rest <- z.unread \o z.src, got <- current
ImplementsStream == Stream!Spec

(* An Integer has its width, and the buffer of a token the room that       *)
(* memory has.                                                             *)
TypeOK ==
  /\ current \in {EOF} \cup ToSet(text)
  /\ at \in {"idle", "start", "eq", "digits", "frac", "name"} \cup Quotes
  /\ Len(buff) <= MaxBuff
  /\ at = "digits" => number \in (-IntMax - 1)..IntMax
  /\ status \in {"lexing", "eof", "PARSE", "OUT_OF_MEMORY"}

(* Every request for a token is answered, also inside a string that never  *)
(* ends.                                                                   *)
LexingEnds == (status = "lexing") ~> (status # "lexing")
=============================================================================

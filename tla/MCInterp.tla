------------------------------- MODULE MCInterp -------------------------------
(* An instance of NfInterp: statements over the locals a and b and the     *)
(* global g, that depend on each other in every way they can.              *)
EXTENDS NfInterp

MCChars == {"print", "nf", "version", "0.0.1", "a", "b", "g", "s"}
PRINT == <<"print">>
NF == <<"nf">>
VERSION == <<"version">>
V001 == <<"0.0.1">>

(* No text has a double in it. *)
MCNumbers == {0}
MCNumArith(op, x, y) == 0
MCNumNeg(x) == 0
MCNumOf(i) == 0

Names == {"print", "a", "b", "g"}
T(c) ==
  CASE c \in Names -> [kind |-> "sym", text |-> StrV(<<c>>)]
    [] c = "'s'" -> [kind |-> "str", text |-> StrV(<<"s">>)]
    [] c \in {"1", "2", "7"} ->
         [kind |-> "int", text |-> IntV(CHOOSE i \in {1, 2, 7} : ToString(i) = c)]
    [] OTHER -> [kind |-> c, text |-> Nil]

MCTokens == {T(c) : c \in Names \cup {"'s'", "1", "2", "7", "local", ";", "=", "(", ")", "[", "]",
                                      "{", "}", "+", "-", "*", "/", "#"}}
Text(s) == [i \in DOMAIN s |-> T(s[i])]

MCStatements == {Text(s) : s \in {
  <<"local", "a", ";">>,
  <<"local", "a", "=", "2", ";">>,
  <<"local", "b", "=", "{", "}", ";">>,
  <<"local", "b", "=", "print", ";">>,
  <<"a", "=", "a", "+", "1", "*", "-", "a", ";">>,
  <<"b", "[", "a", "]", "=", "7", "/", "a", "-", "1", "-", "1", ";">>,
  <<"g", "=", "b", ";">>,
  <<"g", "[", "g", "]", "=", "{", "}", ";">>,
  <<"print", "(", "b", "[", "2", "]", "*", "(", "a", "+", "7", ")", ")", ";">>,
  <<"b", "(", "a", ")", ";">>,
  <<"b", "[", "g", "[", "a", "]", "]", ";">>,
  <<"local", "b", "=", "b", ";">>,
  <<"b", "[", "2", "]", "=", "a", ";">>,
  <<"a", "[", "1", "]", "[", "1", "]", "=", "a", ";">>,
  <<"print", "(", "#", "(", "'s'", "+", "'s'", ")", "*", "2", ")", ";">>}}
=============================================================================

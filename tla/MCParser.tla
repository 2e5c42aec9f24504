------------------------------- MODULE MCParser -------------------------------
(* Instances of NfParser: small alphabets of tokens and what texts begin   *)
(* with.  String payloads are one-character sequences, named for reading.  *)
EXTENDS NfParser

T(kind) == [kind |-> kind, text |-> NoText]
S(s) == [type |-> "String", v |-> s]
I(i) == [type |-> "Integer", v |-> i]
Sym(s) == [kind |-> "sym", text |-> S(s)]
IntT(i) == [kind |-> "int", text |-> I(i)]
StrT(s) == [kind |-> "str", text |-> S(s)]
NumT(n) == [kind |-> "num", text |-> [type |-> "Number", v |-> n]]

(* Every kind of token, in texts of few tokens. *)
AllTokens == {T(k) : k \in {"local", ";", "=", "(", ")", "[", "]", "{", "}",
                            "+", "-", "*", "/", "#", "==", ","}}
               \cup {Sym("a"), Sym("b"), IntT(1), StrT("a"), NumT(1)}

EveryKind == [prelude |-> <<>>, tokens |-> AllTokens, free |-> 5]

(* Statements over two locals, one of them the last slot of the frame. *)
StmtTokens == {T(k) : k \in {";", "=", "(", ")", "[", "]", "+"}}
                \cup {Sym("a"), Sym("b"), Sym("g"), T("local"), IntT(1)}
TwoLocals == <<T("local"), Sym("a"), T(";"), T("local"), Sym("b"), T(";")>>

(* Expressions, assigned to a local. *)
ExprTokens == {T(k) : k \in {"local", "=", ";", "(", ")", "[", "]", "{", "}", "+", "-", "*", "#"}}
                \cup {Sym("a"), Sym("g"), IntT(1)}
AssignLocal == <<T("local"), Sym("a"), T("=")>>

Expressions == [prelude |-> AssignLocal, tokens |-> ExprTokens, free |-> 6]
Statements == [prelude |-> TwoLocals, tokens |-> StmtTokens, free |-> 7]

(* A scope that is full, in a text that declares another local or an old   *)
(* one.                                                                    *)
ThreeLocals == TwoLocals \o <<T("local"), Sym("g"), T(";")>>
ScopeTokens == {T("local"), T(";"), Sym("a"), Sym("x")}
FullScope == [prelude |-> ThreeLocals, tokens |-> ScopeTokens, free |-> 4]

MCTexts == {EveryKind, Expressions, Statements, FullScope}
MCTokens == AllTokens \cup ExprTokens \cup StmtTokens \cup ScopeTokens

(* A call with a first argument. *)
CallTokens == {Sym("g"), T("("), T(")"), T(","), IntT(1)}
FirstArgument == <<Sym("g"), T("("), IntT(1)>>
CallTexts == {[prelude |-> FirstArgument, tokens |-> CallTokens, free |-> 3]}
=============================================================================

--------------------------------- MODULE MCVm ---------------------------------
(* Instances of NfVm: the chunks are what the parser makes of the texts    *)
(* above them.                                                             *)
EXTENDS NfVm

MCChars == {"print", "nf", "version", "0.0.1", "host", "g", "x", "y"}
PRINT == <<"print">>
NF == <<"nf">>
VERSION == <<"version">>
V001 == <<"0.0.1">>
HOST == <<"host">>

(* Doubles: integers modulo 8 with operations that tell operands apart. *)
MCNumbers == 0..7
MCNumArith(op, x, y) ==
  CASE op = "ADD" -> (x + y) % 8
    [] op = "SUB" -> (x - y) % 8
    [] op = "MUL" -> (x * y) % 8
    [] op = "DIV" -> (x + 5 * y + 3) % 8
MCNumNeg(x) == (-x) % 8
MCNumOf(i) == i % 8

Code(ins, dep, consts, used) == [ins |-> ins, dep |-> dep, consts |-> consts, used |-> used]
S(s) == StrV(<<s>>)
G == PSEUDO_INDEX_GLOBAL

(* host("x"); print("x" + "y"); *)
HostThenPrint ==
  Code(<<InsAB("CONST", 0), InsAB("TABLE_GET", G), InsAB("CONST", 1), InsAB("PUSH", 0),
         InsAB("PUSH", 1), InsAB("CALL", 2), InsAB("POP", 2), InsAB("CONST", 2),
         InsAB("TABLE_GET", G), InsAB("CONST", 1), InsAB("CONST", 3), InsABCD("ADD", 1, 2),
         InsAB("PUSH", 0), InsAB("PUSH", 3), InsAB("CALL", 4), InsAB("POP", 4), Ins("RET_0")>>,
       <<0, 1, 1, 2, 3, 4, 2, 0, 1, 1, 2, 3, 4, 5, 6, 4, 0>>,
       <<S("host"), S("x"), S("print"), S("y")>>, 0)

(* local f = print; f(); *)
CallLastLocal ==
  Code(<<Ins("LOAD_NIL"), InsAB("CONST", 0), InsAB("TABLE_GET", G), InsAB("PUSH", 1),
         InsAB("SET", 0), InsAB("POP", 1), InsAB("CALL", 0), InsAB("POP", -1), Ins("RET_0")>>,
       <<0, 1, 2, 2, 3, 2, 1, 0, 1>>, <<S("print")>>, 1)

(* local t = {}; t[1] = t; print(t[1][1] + 1); *)
TablesAndError ==
  Code(<<Ins("LOAD_NIL"), Ins("NEW_TABLE"), InsAB("PUSH", 1), InsAB("SET", 0), InsAB("POP", 1),
         InsAB("CONST", 0), InsAB("PUSH", 1), InsAB("PUSH", 0), InsABCD("TABLE_SET", 0, 2),
         InsAB("POP", 2), InsAB("CONST", 1), InsAB("TABLE_GET", G), InsAB("CONST", 0),
         InsAB("PUSH", 2), InsAB("TABLE_GET", 0), InsAB("CONST", 0), InsAB("PUSH", 4),
         InsAB("TABLE_GET", 3), InsAB("CONST", 0), InsABCD("ADD", 5, 6), InsAB("PUSH", 1),
         InsAB("PUSH", 7), InsAB("CALL", 8), InsAB("POP", 7), Ins("RET_0")>>,
       <<0, 1, 2, 3, 2, 1, 2, 3, 4, 3, 1, 2, 2, 3, 4, 4, 5, 6, 6, 7, 8, 9, 10, 8, 1>>,
       <<IntV(1), S("print")>>, 1)

(* print(-2.0 * 3); g = host; g(); *)
GlobalFunction ==
  Code(<<InsAB("CONST", 0), InsAB("TABLE_GET", G), InsAB("CONST", 1), InsAB("NEG", 1),
         InsAB("CONST", 2), InsABCD("MUL", 2, 3), InsAB("PUSH", 0), InsAB("PUSH", 4),
         InsAB("CALL", 5), InsAB("POP", 5), InsAB("CONST", 3), InsAB("CONST", 4),
         InsAB("TABLE_GET", G), InsAB("PUSH", 1), InsABCD("TABLE_SET", G, 0), InsAB("POP", 2),
         InsAB("CONST", 3), InsAB("TABLE_GET", G), InsAB("CALL", 0), Ins("RET_0")>>,
       <<0, 1, 1, 2, 3, 4, 5, 6, 7, 5, 0, 1, 2, 2, 3, 2, 0, 1, 1, 0>>,
       <<S("print"), NumV(2), IntV(3), S("g"), S("host")>>, 0)

(* local a = 1; a = a + 2; print(a); *)
Arithmetic ==
  Code(<<Ins("LOAD_NIL"), InsAB("CONST", 0), InsAB("PUSH", 1), InsAB("SET", 0), InsAB("POP", 1),
         InsAB("CONST", 1), InsABCD("ADD", 0, 1), InsAB("PUSH", 2), InsAB("SET", 0),
         InsAB("POP", 2), InsAB("CONST", 2), InsAB("TABLE_GET", G), InsAB("PUSH", 0),
         InsAB("CALL", 1), Ins("RET_0")>>,
       <<0, 1, 2, 3, 2, 1, 2, 3, 4, 3, 1, 2, 2, 3, 1>>,
       <<IntV(1), IntV(2), S("print")>>, 1)

(* nf[1] = x[1]; *)
IndexNil ==
  Code(<<InsAB("CONST", 0), InsAB("TABLE_GET", G), InsAB("CONST", 1), InsAB("PUSH", 1),
         InsAB("CONST", 2), InsAB("TABLE_GET", G), InsAB("CONST", 1), InsAB("PUSH", 4),
         InsAB("TABLE_GET", 3), InsAB("PUSH", 5), InsABCD("TABLE_SET", 0, 2), InsAB("POP", 6),
         Ins("RET_0")>>,
       <<0, 1, 1, 2, 3, 4, 4, 5, 6, 6, 7, 6, 0>>,
       <<S("nf"), IntV(1), S("x")>>, 0)

(* host(); *)
CallHost ==
  Code(<<InsAB("CONST", 0), InsAB("TABLE_GET", G), InsAB("CALL", 0), Ins("RET_0")>>,
       <<0, 1, 1, 0>>, <<S("host")>>, 0)

(* A chunk of 33 statements local v1; ... local v33; *)
ManyLocals ==
  Code([i \in 1..34 |-> IF i = 34 THEN Ins("RET_0") ELSE Ins("LOAD_NIL")],
       [i \in 1..34 |-> i - 1], <<>>, 33)

Host1 == {HOST}
None == {}
AllMain == {HostThenPrint, CallLastLocal, TablesAndError, GlobalFunction, IndexNil}
NoReentry == {Arithmetic, CallLastLocal}
Reentry == {Arithmetic, CallLastLocal, CallHost}
MainReentry == {HostThenPrint}
Deep == {ManyLocals}
Last == {CallLastLocal}
=============================================================================

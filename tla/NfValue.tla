-------------------------------- MODULE NfValue --------------------------------
(***************************************************************************)
(* The values a stack slot holds (TValue, nf/src/object.h) and what the    *)
(* arithmetic instructions compute from them (nf/src/thread.cpp, BIN_OP,   *)
(* NEG and LEN).  A value is a record [type, v].                           *)
(*                                                                         *)
(* Integers are kept at IntMax + 1 = 2^(w-1) wide.  Doubles are abstract:  *)
(* Numbers are their payloads and NumArith, NumNeg and NumOf (conversion   *)
(* of an Integer) any operations on them.  A string is a sequence of       *)
(* Chars.  Strings are interned (str.cpp), so two strings with the same    *)
(* contents are the same object and equality of records is equality of     *)
(* the pointers the code compares.                                         *)
(***************************************************************************)
EXTENDS Integers, Sequences

CONSTANTS IntMax,            \* largest Integer; the code's is 2^63 - 1
          Chars,             \* what strings are made of
          Numbers,           \* payloads of doubles
          NumArith(_, _, _), \* double arithmetic, by opcode
          NumNeg(_),         \* double negation
          NumOf(_)           \* int64_t to double

Int64s == -(IntMax + 1)..IntMax

ASSUME IntMaxAssumption == IntMax \in Nat \ {0}

ASSUME NumbersAssumption ==
  /\ \A op \in {"ADD", "SUB", "MUL", "DIV"}, x, y \in Numbers : NumArith(op, x, y) \in Numbers
  /\ \A x \in Numbers : NumNeg(x) \in Numbers
  /\ \A i \in Int64s : NumOf(i) \in Numbers

Nil == [type |-> "NIL", v |-> 0]
IntV(i) == [type |-> "Integer", v |-> i]
NumV(n) == [type |-> "Number", v |-> n]
StrV(s) == [type |-> "String", v |-> s]
TableV(t) == [type |-> "Table", v |-> t]
FuncV(f) == [type |-> "Func", v |-> f]
PcV(p) == [type |-> "PC", v |-> p]
IndexV(i) == [type |-> "Index", v |-> i]

(* What malloc leaves in a slot nobody has written yet. *)
Uninit == [type |-> "Uninit", v |-> 0]

(* An operation that ends the program instead of giving a value. *)
Fault(why) == [type |-> "Fault", v |-> why]

(* The values that do not refer to another object than a string. *)
Plain == [type : {"NIL", "Uninit"}, v : {0}] \cup [type : {"Integer"}, v : Int64s]
           \cup [type : {"Number"}, v : Numbers] \cup [type : {"String"}, v : Seq(Chars)]

-----------------------------------------------------------------------------
(* Two's complement of the width IntMax gives, as the build computes it. *)
Wrap(x) == ((x + IntMax + 1) % (2 * (IntMax + 1))) - (IntMax + 1)

Magnitude(x) == IF x < 0 THEN -x ELSE x

(* C++ division truncates towards zero. *)
Quotient(x, y) ==
  LET q == Magnitude(x) \div Magnitude(y) IN IF (x < 0) = (y < 0) THEN q ELSE -q

(* first->i _OP_ second->i.  Division by zero and the one quotient that    *)
(* does not fit raise SIGFPE.                                              *)
IntArith(op, x, y) ==
  CASE op = "ADD" -> IntV(Wrap(x + y))
    [] op = "SUB" -> IntV(Wrap(x - y))
    [] op = "MUL" -> IntV(Wrap(x * y))
    [] op = "DIV" -> IF y = 0 \/ Quotient(x, y) > IntMax
                       THEN Fault("SIGFPE")
                       ELSE IntV(Quotient(x, y))

Numeric == {"Integer", "Number"}
AsNumber(x) == IF x.type = "Integer" THEN NumOf(x.v) ELSE x.v

(* BIN_OP: on two strings every operation is concatenation. *)
BinOp(op, first, second) ==
  CASE first.type = "Integer" /\ second.type = "Integer" ->
         IntArith(op, first.v, second.v)
    [] /\ first.type \in Numeric /\ second.type \in Numeric
       /\ "Number" \in {first.type, second.type} ->
         NumV(NumArith(op, AsNumber(first), AsNumber(second)))
    [] first.type = "String" /\ second.type = "String" ->
         StrV(first.v \o second.v)
    [] OTHER -> Fault("OP_NUM")

NegOf(x) ==
  CASE x.type = "Integer" -> IntV(Wrap(-x.v))
    [] x.type = "Number" -> NumV(NumNeg(x.v))
    [] OTHER -> Fault("OP_NUM")

LenOf(x) ==
  IF x.type = "String" THEN IntV(Wrap(Len(x.v))) ELSE Fault("OP_NUM")
=============================================================================

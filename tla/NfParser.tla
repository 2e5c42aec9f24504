------------------------------- MODULE NfParser -------------------------------
(***************************************************************************)
(* The parser of nf (nf/src/parser.cpp): a recursive descent over the      *)
(* token stream that emits bytecode as it goes and keeps, in used_slots,   *)
(* the number of stack slots the emitted code will have in use.            *)
(*                                                                         *)
(* The recursion of the C++ functions is the variable ctl: a stack of      *)
(* frames, the running function first.  A frame's label, at, names the     *)
(* point of its function that runs next; the value a function returns is   *)
(* left in val.  The source text is any sequence of tokens: each time the  *)
(* code calls peek with no token buffered, the next token is chosen.       *)
(***************************************************************************)
EXTENDS NfBytecode

CONSTANTS
  Tokens,     \* what the source text may contain: records [kind, text]
  Texts,      \* bound: texts begin with t.prelude, for a t in Texts, and go on
              \* with up to t.free of t.tokens
  MaxConstNr, \* MAX_CONST_NR
  MaxVarNr    \* MAX_VAR_NR

ASSUME ParserAssumption ==
  /\ \A t \in Texts : /\ t.prelude \in Seq(Tokens) /\ t.tokens \subseteq Tokens
                       /\ t.free \in Nat
  /\ \A t \in Tokens : t = [kind |-> t.kind, text |-> t.text]
  /\ \A t \in Tokens : t.kind \notin {"eof", "none"}
  /\ MaxConstNr \in Nat /\ MaxConstNr <= Int16Max
  /\ MaxVarNr \in Nat /\ MaxVarNr <= Int16Max

VARIABLES
  toks,   \* the tokens lexed so far
  look,   \* LexState::peek
  ctl,    \* the pending C++ calls, innermost first
  val,    \* the SingleValue returned last
  scope,  \* Scope::var_names, by slot
  proto,  \* the Proto under construction; its field dep is a history of
          \* used_slots, one entry for each instruction
  status  \* "parsing", "parsed" or the error that was thrown

pvars == <<toks, look, ctl, val, scope, proto, status>>

-----------------------------------------------------------------------------
(* Tokens.  next_token has no case for ',' (nor for any other character    *)
(* outside its switch): such a token stands for text it throws PARSE on.   *)

(* What a token that has no value carries in its place. *)
NoText == [type |-> "NIL", v |-> 0]
NoToken == [kind |-> "none", text |-> NoText]
Eof == [kind |-> "eof", text |-> NoText]

Unlexable == {","}
Literals == {"int", "num", "str"}

(* What the text may continue with: it ends when the bound is reached, and *)
(* may end before.                                                         *)
Begun(t) ==
  \A j \in DOMAIN toks :
    IF j <= Len(t.prelude) THEN toks[j] = t.prelude[j] ELSE toks[j] \in t.tokens \cup {Eof}

NextIn(t) ==
  LET n == Len(toks) + 1 IN
  CASE n <= Len(t.prelude) -> {t.prelude[n]}
    [] n > Len(t.prelude) /\ n <= Len(t.prelude) + t.free -> t.tokens \cup {Eof}
    [] OTHER -> {Eof}

NextTokens == UNION {NextIn(t) : t \in {u \in Texts : Begun(u)}}

(* The token peek(ls) yields. *)
Peeked == IF look = NoToken THEN NextTokens ELSE {look}

Saw(t) == toks' = IF look = NoToken THEN Append(toks, t) ELSE toks

(* peek without and with the next(ls) that consumes the token. *)
Look(t) == Saw(t) /\ look' = t
Take(t) == Saw(t) /\ look' = NoToken

-----------------------------------------------------------------------------
(* Values of expressions, and the code under construction.                 *)

SingleValue(type, index) == [type |-> type, index |-> index]
NoValue == SingleValue("NONE", 0)
Normal(index) == SingleValue("NORMAL", index)
TableSlot(index) == SingleValue("TABLE_SLOT", index)

MaxUsedSlot(p) == I16(p.used - 1)

EmptyProto == [ins |-> <<>>, dep |-> <<>>, consts |-> <<>>, used |-> 0]

(* emit(): append one instruction and account for the slots it takes. *)
Emit(p, ins, slots_changed) ==
  [p EXCEPT !.ins = Append(@, ins), !.dep = Append(@, p.used),
            !.used = I16(@ + slots_changed)]

(* Index of v among the constants, which are all different, or their       *)
(* number when it is not there.                                            *)
ConstIndex(p, v) ==
  IF \E i \in 1..Len(p.consts) : p.consts[i] = v
    THEN (CHOOSE i \in 1..Len(p.consts) : p.consts[i] = v) - 1
    ELSE Len(p.consts)

(* Proto_insert_const, then the CONST instruction of emit_const. *)
ConstFits(p, v) == ConstIndex(p, v) < Len(p.consts) \/ Len(p.consts) + 1 <= MaxConstNr
EmitConst(p, v) ==
  LET i == ConstIndex(p, v)
      q == [p EXCEPT !.consts = IF i = Len(@) THEN Append(@, v) ELSE @]
  IN Emit(q, InsAB("CONST", i), 1)

(* ensure_normal_value: a table slot is read, in place of its key. *)
EmitLoad(p, value) ==
  IF value.type = "TABLE_SLOT" THEN Emit(p, InsAB("TABLE_GET", value.index), 0) ELSE p
(* One slot too high: used_slots taken for the index of the top slot. *)
LoadedIndexPastTop(p, value) ==
  IF value.type = "TABLE_SLOT" THEN I16(p.used) ELSE value.index
LoadedIndex(p, value) ==
  IF value.type = "TABLE_SLOT" THEN MaxUsedSlot(p) ELSE value.index

(* func_call() after the closing parenthesis: the callee is brought to the *)
(* top (ensure_at_top) unless it is there already, the arguments follow.   *)
EnsureAtTop(p, index) ==
  IF index # MaxUsedSlot(p) THEN Emit(p, InsAB("PUSH", index), 1) ELSE p
EmitPushes(p, slots) ==
  [p EXCEPT !.ins = @ \o [i \in 1..Len(slots) |-> InsAB("PUSH", slots[i])],
            !.dep = @ \o [i \in 1..Len(slots) |-> I16(p.used + i - 1)],
            !.used = I16(@ + Len(slots))]
(* slots_changed of CALL, without the callee and with it. *)
ArgsOnly(args) == -Len(args)
ArgsAndCallee(args) == -Len(args) - 1
EmitCall(p, callee, args) ==
  LET q == EnsureAtTop(p, callee)
      slot == IF callee # MaxUsedSlot(p) THEN MaxUsedSlot(q) ELSE callee
  IN Emit(EmitPushes(q, args), InsAB("CALL", slot), ArgsAndCallee(args))

(* assignment() after its expression. *)
EmitStore(p, left, key_slot, result) ==
  LET q == Emit(p, InsAB("PUSH", result), 1) IN
  CASE left.type = "NORMAL" -> Emit(q, InsAB("SET", left.index), -1)
    [] left.type = "TABLE_SLOT" -> Emit(q, InsABCD("TABLE_SET", left.index, key_slot), -1)
    [] OTHER -> q

(* The end of stmt(): drop the temporaries.  tmp_nr is unsigned in the     *)
(* code; its low 16 bits are all that POP keeps of it.  Other forms of it  *)
(* forget the temporaries, the case where tmp_nr is -1, or take one more.  *)
KeepTemps(p, vars_nr) == p
PopSomeTemps(p, vars_nr) ==
  LET tmp_nr == p.used - vars_nr IN
  IF tmp_nr <= 0 THEN p ELSE Emit(p, InsAB("POP", tmp_nr), -tmp_nr)
PopTempsAndOne(p, vars_nr) ==
  LET tmp_nr == p.used - vars_nr + 1 IN Emit(p, InsAB("POP", tmp_nr), -tmp_nr)
PopTemps(p, vars_nr) ==
  LET tmp_nr == p.used - vars_nr IN
  IF tmp_nr = 0 THEN p ELSE Emit(p, InsAB("POP", tmp_nr), -tmp_nr)

-----------------------------------------------------------------------------
(* Control.                                                                *)

Labels == {"stmt", "semi", "local", "init", "target", "assign", "args", "arg",
           "sum", "term", "factor", "unary", "operand", "paren", "sv", "brace", "key"}

(* op: the operator read; value: a SingleValue kept across a call; n: a    *)
(* slot kept across a call.                                                *)
Frame(at, op, value, n) == [at |-> at, op |-> op, value |-> value, n |-> n]
Point(at) == Frame(at, "", NoValue, 0)

At(label) == status = "parsing" /\ ctl[1].at = label
Goto(frames) == ctl' = frames \o Tail(ctl)
Return(value) == val' = value /\ ctl' = Tail(ctl)

(* expr() begins with add_or_sub_elem(), that one with mul_or_div_elem(). *)
Expr == <<Point("factor"), Point("term"), Point("sum")>>

SameText == UNCHANGED <<toks, look>>

(* Slot of a variable (Scope_search); names are interned, so comparing the *)
(* pointers compares the names.                                            *)
Declared(name) == \E i \in 1..Len(scope) : scope[i] = name
SlotOf(name) == (CHOOSE i \in 1..Len(scope) : scope[i] = name) - 1

-----------------------------------------------------------------------------
(* Statements.                                                             *)

(* chunk() after the last statement. *)
EmitEnd(p) == Emit(p, Ins("RET_0"), 0)

(* stmt() on the end of the text. *)
StmtEof ==
  /\ At("stmt")
  /\ Eof \in Peeked /\ Look(Eof)
  /\ proto' = EmitEnd(PopTemps(proto, Len(scope)))
  /\ status' = "parsed"
  /\ UNCHANGED <<ctl, val, scope>>

StmtLocal ==
  /\ At("stmt")
  /\ \E t \in Peeked : t.kind = "local" /\ Take(t)
  /\ Goto(<<Point("local")>>)
  /\ UNCHANGED <<val, scope, proto, status>>

StmtSymbol ==
  /\ At("stmt")
  /\ \E t \in Peeked : t.kind = "sym" /\ Look(t)
  /\ Goto(<<Point("sv"), Point("target")>>)
  /\ UNCHANGED <<val, scope, proto, status>>

(* Scope_insert throws when var_names is full; or when it has overflown.   *)
ScopeOverfull == Len(scope) = MaxVarNr + 1
ScopeFull == Len(scope) = MaxVarNr

(* stmt_local(): a new variable takes the next slot, one already declared  *)
(* keeps its own.                                                          *)
NewLocal(t) ==
  /\ ~Declared(t.text)
  /\ \/ /\ ScopeFull
        /\ status' = "PARSE"
        /\ Look(t)
        /\ UNCHANGED <<ctl, scope, proto>>
     \/ /\ ~ScopeFull
        /\ scope' = Append(scope, t.text)
        /\ IF proto.used = Len(scope)
             THEN /\ proto' = Emit(proto, Ins("LOAD_NIL"), 1)
                  /\ Take(t)
                  /\ Goto(<<Frame("init", "", Normal(Len(scope)), 0)>>)
                  /\ UNCHANGED status
             ELSE /\ status' = "BUG"
                  /\ Look(t)
                  /\ UNCHANGED <<ctl, proto>>
OldLocal(t) ==
  /\ Declared(t.text)
  /\ Take(t)
  /\ Goto(<<Frame("init", "", Normal(SlotOf(t.text)), 0)>>)
  /\ UNCHANGED <<scope, proto, status>>
StmtLocalName ==
  /\ At("local")
  /\ \E t \in Peeked : t.kind = "sym" /\ (NewLocal(t) \/ OldLocal(t))
  /\ UNCHANGED val

(* assignment(): key_slot is the top slot before the expression. *)
Assignment(left) ==
  Goto(Expr \o <<Frame("assign", "", left, MaxUsedSlot(proto))>>)

MaybeInit ==
  /\ At("init")
  /\ \E t \in Peeked :
       \/ t.kind = "=" /\ Take(t) /\ Assignment(ctl[1].value)
       \/ t.kind \notin Unlexable \cup {"="} /\ Look(t) /\ Goto(<<Point("semi")>>)
  /\ UNCHANGED <<val, scope, proto, status>>

(* What follows the left hand side of a statement. *)
Target ==
  /\ At("target")
  /\ \E t \in Peeked :
       \/ t.kind = "=" /\ Take(t) /\ Assignment(val) /\ UNCHANGED proto
       \/ /\ t.kind = "(" /\ Take(t)
          /\ proto' = EmitLoad(proto, val)
          /\ Goto(<<Frame("args", "", Normal(LoadedIndex(proto, val)), 0)>>)
       \/ /\ t.kind \notin Unlexable \cup {"=", "("} /\ Look(t)
          /\ Goto(<<Point("semi")>>)
          /\ UNCHANGED proto
  /\ UNCHANGED <<val, scope, status>>

AssignEnd ==
  /\ At("assign")
  /\ proto' = EmitStore(proto, ctl[1].value, ctl[1].n, val.index)
  /\ Goto(<<Point("semi")>>)
  /\ SameText
  /\ UNCHANGED <<val, scope, status>>

(* func_call(): either ')' at once, or an argument.  The loop over ','     *)
(* cannot take a second turn, since ',' is Unlexable, and MAX_ARGS is not  *)
(* reached.                                                                *)
ArgsStart ==
  /\ At("args")
  /\ \E t \in Peeked :
       \/ /\ t.kind = ")" /\ Take(t)
          /\ proto' = EmitCall(proto, ctl[1].value.index, <<>>)
          /\ Goto(<<Point("semi")>>)
       \/ /\ t.kind \notin Unlexable \cup {")"} /\ Look(t)
          /\ Goto(Expr \o <<Frame("arg", "", ctl[1].value, 0)>>)
          /\ UNCHANGED proto
  /\ UNCHANGED <<val, scope, status>>

ArgEnd ==
  /\ At("arg")
  /\ \E t \in Peeked :
       /\ t.kind = ")" /\ Take(t)
       /\ proto' = EmitCall(proto, ctl[1].value.index, <<val.index>>)
       /\ Goto(<<Point("semi")>>)
  /\ UNCHANGED <<val, scope, status>>

StmtEnd ==
  /\ At("semi")
  /\ \E t \in Peeked : t.kind = ";" /\ Take(t)
  /\ proto' = PopTemps(proto, Len(scope))
  /\ Goto(<<Point("stmt")>>)
  /\ UNCHANGED <<val, scope, status>>

-----------------------------------------------------------------------------
(* Expressions.                                                            *)

(* The loops of expr() ("sum") and add_or_sub_elem() ("term"): a frame     *)
(* with no operator waits for the first operand, one with an operator for  *)
(* the second; each round leaves its result in the top slot.               *)
OpcodeOf == [c \in {"+", "-", "*", "/"} |->
  CASE c = "+" -> "ADD" [] c = "-" -> "SUB" [] c = "*" -> "MUL" [] c = "/" -> "DIV"]
OperatorsOf(level) == IF level = "sum" THEN {"+", "-"} ELSE {"*", "/"}
OperandOf(level) ==
  IF level = "sum" THEN <<Point("factor"), Point("term")>> ELSE <<Point("factor")>>

EmitBinary(p, frame, second) ==
  IF frame.op = "" THEN p
  ELSE Emit(p, InsABCD(OpcodeOf[frame.op], frame.value.index, second.index), 1)

BinaryLoop(level) ==
  LET p == EmitBinary(proto, ctl[1], val)
      first == IF ctl[1].op = "" THEN val ELSE Normal(MaxUsedSlot(p))
  IN
  /\ At(level)
  /\ proto' = p
  /\ \E t \in Peeked :
       \/ /\ t.kind \in OperatorsOf(level) /\ Take(t)
          /\ Goto(OperandOf(level) \o <<Frame(level, t.kind, first, 0)>>)
          /\ UNCHANGED val
       \/ /\ t.kind \notin Unlexable \cup OperatorsOf(level) /\ Look(t)
          /\ Return(first)
  /\ UNCHANGED <<scope, status>>

(* mul_or_div_elem(): an optional '#' or '-', then operand(). *)
Factor ==
  /\ At("factor")
  /\ \E t \in Peeked :
       \/ t.kind \in {"#", "-"} /\ Take(t)
          /\ Goto(<<Point("operand"), Frame("unary", t.kind, NoValue, 0)>>)
       \/ t.kind \notin Unlexable \cup {"#", "-"} /\ Look(t)
          /\ Goto(<<Point("operand"), Point("unary")>>)
  /\ UNCHANGED <<val, scope, proto, status>>

Operand ==
  /\ At("operand")
  /\ \E t \in Peeked :
       \/ t.kind = "(" /\ Take(t) /\ Goto(Expr \o <<Point("paren")>>)
       \/ t.kind \notin Unlexable \cup {"("} /\ Look(t) /\ Goto(<<Point("sv")>>)
  /\ UNCHANGED <<val, scope, proto, status>>

Paren ==
  /\ At("paren")
  /\ \E t \in Peeked : t.kind = ")" /\ Take(t)
  /\ Return(val)
  /\ UNCHANGED <<scope, proto, status>>

(* The end of operand(), ensure_normal_value, and of mul_or_div_elem(). *)
UnaryOp == [c \in {"#", "-"} |-> IF c = "#" THEN "LEN" ELSE "NEG"]
EmitUnary(p, op, index) ==
  IF op = "" THEN p ELSE Emit(p, InsAB(UnaryOp[op], index), 1)
Unary ==
  LET loaded == EmitLoad(proto, val)
      index == LoadedIndex(proto, val)
      p == EmitUnary(loaded, ctl[1].op, index)
  IN
  /\ At("unary")
  /\ proto' = p
  /\ Return(Normal(IF ctl[1].op = "" THEN index ELSE MaxUsedSlot(p)))
  /\ SameText
  /\ UNCHANGED <<scope, status>>

(* single_value() with no value yet: a variable, a global's name, a        *)
(* literal or a new table.                                                 *)
SvStart(value) == Frame("sv", "", value, 0)

ValueLocal ==
  /\ At("sv") /\ ctl[1].value.type = "NONE"
  /\ \E t \in Peeked :
       /\ t.kind = "sym" /\ Declared(t.text) /\ Take(t)
       /\ Goto(<<SvStart(Normal(SlotOf(t.text)))>>)
  /\ UNCHANGED <<val, scope, proto, status>>

IsConst(t) == t.kind \in Literals \/ (t.kind = "sym" /\ ~Declared(t.text))

ValueConst ==
  /\ At("sv") /\ ctl[1].value.type = "NONE"
  /\ \E t \in Peeked :
       /\ IsConst(t) /\ ConstFits(proto, t.text) /\ Take(t)
       /\ proto' = EmitConst(proto, t.text)
       /\ Goto(<<SvStart(IF t.kind = "sym" THEN TableSlot(PSEUDO_INDEX_GLOBAL)
                         ELSE Normal(MaxUsedSlot(EmitConst(proto, t.text))))>>)
  /\ UNCHANGED <<val, scope, status>>

TooManyConsts ==
  /\ At("sv") /\ ctl[1].value.type = "NONE"
  /\ \E t \in Peeked : IsConst(t) /\ ~ConstFits(proto, t.text) /\ Look(t)
  /\ status' = "OVER_LIMIT"
  /\ UNCHANGED <<ctl, val, scope, proto>>

ValueTable ==
  /\ At("sv") /\ ctl[1].value.type = "NONE"
  /\ \E t \in Peeked : t.kind = "{" /\ Take(t)
  /\ Goto(<<Point("brace")>>)
  /\ UNCHANGED <<val, scope, proto, status>>

TableValue ==
  LET p == Emit(proto, Ins("NEW_TABLE"), 1) IN
  /\ At("brace")
  /\ \E t \in Peeked : t.kind = "}" /\ Take(t)
  /\ proto' = p
  /\ Goto(<<SvStart(Normal(MaxUsedSlot(p)))>>)
  /\ UNCHANGED <<val, scope, status>>

(* single_value() with a value: an index, or the end.  Indexing what is    *)
(* itself a table slot reads that slot first.                              *)
Subscript ==
  /\ At("sv") /\ ctl[1].value.type # "NONE"
  /\ \E t \in Peeked :
       \/ /\ t.kind = "[" /\ Take(t)
          /\ proto' = EmitLoad(proto, ctl[1].value)
          /\ Goto(Expr \o
               <<Frame("key", "", NoValue, LoadedIndex(proto, ctl[1].value))>>)
          /\ UNCHANGED val
       \/ /\ t.kind \notin Unlexable \cup {"["} /\ Look(t)
          /\ Return(ctl[1].value)
          /\ UNCHANGED proto
  /\ UNCHANGED <<scope, status>>

KeyEnd ==
  /\ At("key")
  /\ \E t \in Peeked : t.kind = "]" /\ Take(t)
  /\ proto' = Emit(proto, InsAB("PUSH", val.index), 1)
  /\ Goto(<<SvStart(TableSlot(ctl[1].n))>>)
  /\ UNCHANGED <<val, scope, status>>

-----------------------------------------------------------------------------
(* Errors: a token the running function has no case for, or no expect()    *)
(* accepts, and text next_token does not lex.  What the function emitted   *)
(* before it threw is dropped with the Proto.                              *)
Accepted(frame) ==
  CASE frame.at = "stmt" -> {"eof", "local", "sym"}
    [] frame.at = "local" -> {"sym"}
    [] frame.at \in {"arg", "paren"} -> {")"}
    [] frame.at = "semi" -> {";"}
    [] frame.at = "brace" -> {"}"}
    [] frame.at = "key" -> {"]"}
    [] frame.at = "sv" /\ frame.value.type = "NONE" -> {"sym", "{"} \cup Literals
    [] OTHER -> {t.kind : t \in Tokens \cup {Eof}} \ Unlexable

(* An error ends the parse; or is dropped. *)
Ignore(err) == UNCHANGED status
Throw(err) == status' = err

SyntaxError ==
  /\ status = "parsing" /\ ctl[1].at \notin {"assign", "unary"}
  /\ \E t \in Peeked : t.kind \notin Accepted(ctl[1]) /\ Look(t)
  /\ Throw("PARSE")
  /\ UNCHANGED <<ctl, val, scope, proto>>

(* Memory is taken for the text of a token and for what is emitted.  The   *)
(* places that only test a buffered token need none.                       *)
Allocates == look = NoToken \/ ctl[1].at \notin {"init", "factor", "operand", "paren"}
OutOfMemory ==
  /\ status = "parsing" /\ Allocates
  /\ Throw("OUT_OF_MEMORY")
  /\ UNCHANGED <<toks, look, ctl, val, scope, proto>>

-----------------------------------------------------------------------------
Init ==
  /\ toks = <<>>
  /\ look = NoToken
  /\ ctl = <<Point("stmt")>>
  /\ val = NoValue
  /\ scope = <<>>
  /\ proto = EmptyProto
  /\ status = "parsing"

Next ==
  \/ StmtEof \/ StmtLocal \/ StmtSymbol \/ StmtLocalName \/ MaybeInit
  \/ Target \/ AssignEnd \/ ArgsStart \/ ArgEnd \/ StmtEnd
  \/ BinaryLoop("sum") \/ BinaryLoop("term") \/ Factor \/ Operand \/ Paren
  \/ Unary \/ ValueLocal \/ ValueConst \/ TooManyConsts \/ ValueTable
  \/ TableValue \/ Subscript \/ KeyEnd \/ SyntaxError \/ OutOfMemory

Spec == Init /\ [][Next]_pvars
(* The parser runs alone and never waits: whenever it can step it does. *)
FairSpec == Spec /\ WF_pvars(Next)

-----------------------------------------------------------------------------
(* Properties. *)

SingleValues == [type : {"NONE", "NORMAL", "TABLE_SLOT"}, index : Int16]
OperatorTokens == {"", "+", "-", "*", "/", "#"}
Frames == [at : Labels, op : OperatorTokens, value : SingleValues, n : Int16]
Values == {t.text : t \in Tokens}
Statuses == {"parsing", "parsed", "PARSE", "OVER_LIMIT", "BUG", "OUT_OF_MEMORY"}

(* Every variable has its type; and the names in the scope and the         *)
(* constants stay within their limits, of which the first is the size of   *)
(* the array var_names (object.h 67).                                      *)
TypeOK ==
  /\ toks \in Seq(Tokens \cup {Eof})
  /\ look \in Tokens \cup {Eof, NoToken}
  /\ ctl \in Seq(Frames) /\ Len(ctl) >= 1
  /\ val \in SingleValues
  /\ scope \in Seq(Values)
  /\ proto \in [ins : Seq(Instruction), dep : Seq(0..Int16Max), consts : Seq(Values), used : 0..Int16Max]
  /\ Len(proto.dep) = Len(proto.ins)
  /\ Len(scope) <= MaxVarNr /\ Len(proto.consts) <= MaxConstNr
  /\ status \in Statuses

(* Every instruction emitted names only slots that are live, by the        *)
(* parser's own count, when the instruction runs: a variable or a          *)
(* temporary of this statement, never a slot already popped or not yet     *)
(* pushed; and every constant index exists.                                *)
EmittedOperandsLive ==
  \A i \in 1..Len(proto.ins) :
    /\ OperandsLive(proto.ins[i], proto.dep[i])
    /\ proto.ins[i].op = "CONST" => proto.ins[i].ab \in 0..(Len(proto.consts) - 1)

(* Between two statements, and when stmt_local asserts "slot should equal  *)
(* to var_index", exactly the declared variables are on the stack:         *)
(* whatever statements came before, the temporaries they took are all      *)
(* given back.                                                             *)
StatementsBalanced ==
  (status = "parsing" /\ ctl[1].at \in {"stmt", "local"}) \/ status = "parsed" => proto.used = Len(scope)

(* The code of a chunk that parses is code the interpreter can run: among  *)
(* other things the slots_changed argument of each emit() is what the      *)
(* instruction does to the stack when it is executed.                      *)
ParsedCodeWellFormed == status = "parsed" => WellFormed(proto)

(* Parsing ends, with code or with an error, on every text that ends. *)
ParsingEnds == <>(status # "parsing")

(* What func_call's loop over ',' and MAX_ARGS say: a ',' after an argument *)
(* separates it from the next one, it is not a syntax error.               *)
InsideArgument(k) ==
  ctl[k].at = "arg" /\ \A j \in 1..(k - 1) :
    \/ ctl[j].at \in {"unary", "term", "sum"}
    \/ ctl[j].at = "sv" /\ ctl[j].value.type # "NONE"
CommaSeparatesArguments ==
  ~(status = "PARSE" /\ look.kind = "," /\ \E k \in 1..Len(ctl) : InsideArgument(k))
=============================================================================

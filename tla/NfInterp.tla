------------------------------- MODULE NfInterp -------------------------------
(***************************************************************************)
(* What the texts of nf mean.  A text is parsed and run (NfRun), and what  *)
(* it does is compared with Meaning, which evaluates the same tokens       *)
(* directly, with no slots, no stack and no bytecode.                      *)
(***************************************************************************)
EXTENDS NfRun

-----------------------------------------------------------------------------
(* What a text means.  Evaluation is a function of a state: ts, the tokens *)
(* that are left; env, the values of the variables; tabs and out, as in    *)
(* NfVm; and value, the one found last.  A Fault ends it.  A Place  *)
(* is an element of a table that was named and not yet read.               *)

Kind(s) == s.ts[1].kind
Skip(s, n) == [s EXCEPT !.ts = SubSeq(@, n + 1, Len(@))]
Yield(s, value) == [s EXCEPT !.value = value]
Faulty(s) == s.value.type = "Fault"

PlaceV(table, key) == [type |-> "Place", table |-> table, key |-> key]

(* The value at a place. *)
Read(s) ==
  IF s.value.type # "Place" THEN s
  ELSE IF Usable(s.value.table, s.value.key) THEN Yield(s, Lookup(s.tabs[s.value.table.v], s.value.key))
  ELSE Yield(s, Fault("undefined"))

(* A name, a literal or {}. *)
Primary(s) ==
  LET t == s.ts[1] IN
  CASE t.kind = "sym" /\ t.text \in DOMAIN s.env -> Yield(Skip(s, 1), s.env[t.text])
    [] t.kind = "sym" /\ t.text \notin DOMAIN s.env -> Yield(Skip(s, 1), PlaceV(TableV(1), t.text))
    [] t.kind = "{" -> [Skip(s, 2) EXCEPT !.tabs = Append(@, <<>>), !.value = TableV(Len(s.tabs) + 1)]
    [] OTHER -> Yield(Skip(s, 1), t.text)

(* s with a value computed from its own, unless that is a Fault. *)
Then(s, value) == IF Faulty(s) THEN s ELSE Yield(s, value)

Opcode == [c \in {"+", "-", "*", "/"} |->
  CASE c = "+" -> "ADD" [] c = "-" -> "SUB" [] c = "*" -> "MUL" [] c = "/" -> "DIV"]
OperatorsOf == [sums |-> {"+", "-"}, products |-> {"*", "/"}]
OperandOf == [sums |-> "product", products |-> "factor"]

(* What level of expression begins at s, "*" and "/" before "+" and "-".   *)
(* "sums" and "products" go on, left to right, after the operand in s, and *)
(* "indexed" with the indices of the value in s: the table is read before  *)
(* the key is evaluated.                                                   *)
RECURSIVE Eval(_, _)
Eval(level, s) ==
  CASE level = "sum" -> Eval("sums", Eval("product", s))
    [] level = "product" -> Eval("products", Eval("factor", s))
    [] level \in {"sums", "products"} ->
         LET second == Eval(OperandOf[level], Skip(s, 1))
             result == Then(second, BinOp(Opcode[Kind(s)], s.value, second.value))
         IN IF Faulty(s) \/ Kind(s) \notin OperatorsOf[level] THEN s ELSE Eval(level, result)
    [] level = "factor" ->
         LET x == Eval("operand", Skip(s, 1)) IN
         CASE Kind(s) = "-" -> Then(x, NegOf(x.value))
           [] Kind(s) = "#" -> Then(x, LenOf(x.value))
           [] OTHER -> Eval("operand", s)
    [] level = "operand" ->
         IF Kind(s) = "(" THEN Skip(Eval("sum", Skip(s, 1)), 1)
                          ELSE Read(Eval("indexed", Primary(s)))
    [] level = "indexed" ->
         LET table == Read(s)
             key == Eval("sum", Skip(table, 1))
             element == Then(Skip(key, 1), PlaceV(table.value, key.value))
         IN CASE Faulty(s) \/ Kind(s) # "[" -> s
              [] ~Faulty(s) /\ Kind(s) = "[" ->
                   IF Faulty(table) THEN table ELSE Eval(level, element)

Bind(env, name, value) ==
  [n \in DOMAIN env \cup {name} |-> IF n = name THEN value ELSE env[n]]

(* local name, with or without a value: nil in its own first value. *)
Local(s) ==
  LET name == s.ts[2].text
      declared == IF name \in DOMAIN s.env THEN s ELSE [s EXCEPT !.env = Bind(@, name, Nil)]
      x == Eval("sum", Skip(declared, 3))
  IN CASE s.ts[3].kind # "=" -> Skip(declared, 2)
       [] s.ts[3].kind = "=" /\ Faulty(x) -> x
       [] OTHER -> [x EXCEPT !.env = Bind(@, name, x.value)]

(* left = x: a variable of that name, or the place that left is.           *)
Assign(name, left) ==
  LET x == Eval("sum", Skip(left, 1)) IN
  CASE Faulty(x) -> x
    [] ~Faulty(x) /\ left.value.type # "Place" -> [x EXCEPT !.env = Bind(@, name, x.value)]
    [] OTHER -> IF Usable(left.value.table, left.value.key)
                  THEN [x EXCEPT !.tabs[left.value.table.v] = Stored(@, left.value.key, x.value)]
                  ELSE Yield(x, Fault("undefined"))

(* f(x): print is the only function there is. *)
Apply(f) ==
  LET x == Eval("sum", Skip(f, 1)) IN
  CASE Faulty(f) -> f
    [] ~Faulty(f) /\ Faulty(x) -> x
    [] OTHER -> IF f.value.type = "Func" THEN [Skip(x, 1) EXCEPT !.out = Append(@, x.value)]
                                     ELSE Yield(x, Fault("OVER_LIMIT"))

Statement(s) ==
  LET left == Eval("indexed", Primary(s)) IN
  CASE Kind(s) = "local" -> Local(s)
    [] Kind(s) # "local" /\ Faulty(left) -> left
    [] OTHER -> CASE Kind(left) = "=" -> Assign(s.ts[1].text, left)
                  [] Kind(left) = "(" -> Apply(Read(left))
                  [] OTHER -> left

RECURSIVE Evaluated(_)
Evaluated(s) ==
  IF Kind(s) = "eof" THEN s
  ELSE LET t == Statement(s) IN IF Faulty(t) THEN t ELSE Evaluated(Skip(Yield(t, Nil), 1))

Meaning ==
  Evaluated([ts |-> toks, env |-> <<>>, tabs |-> <<Registry, NfTable>>, out |-> <<>>, value |-> Nil])

-----------------------------------------------------------------------------
(* Properties. *)

Over == Started /\ (Depth = 0 \/ status # "running")

(* A text does what it says.  When its run is over it has printed the      *)
(* values, left the tables and met the error that evaluating its           *)
(* statements one after the other gives: no operand was taken from a slot  *)
(* that some other value had come to, however the temporaries of the       *)
(* statements and the frames of the calls followed one another.            *)
DoesWhatItSays ==
  Over => LET m == Meaning IN
    /\ out = m.out
    /\ tables = m.tabs
    /\ status = IF Faulty(m) THEN m.value.v ELSE "running"

(* When the chunk is about to return, the slots of its frame are its       *)
(* variables, each with the value that the statements gave it last: none   *)
(* was overwritten by a temporary, by a call or through another's slot.    *)
VariablesKeepValues ==
  /\ FrameHoldsVariables
  /\ status = "running" /\ Running = "NF" /\ Instr.op = "RET_0" =>
       LET m == Meaning IN \A i \in DOMAIN scope : stack[base + i - 1] = m.env[scope[i]]

(* Every text made of statements is accepted, and its run comes to an end. *)
TextsRun == <>Over
=============================================================================

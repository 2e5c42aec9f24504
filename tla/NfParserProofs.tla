----------------------------- MODULE NfParserProofs -----------------------------
(***************************************************************************)
(* The parser of nf emits, for every text, code the interpreter can run.   *)
(*                                                                         *)
(* used_slots is an int16_t that nothing bounds, so that what is said of   *)
(* the code is said as long as every count it was emitted at fits          *)
(* (NoWrap).  The inductive invariant is TextInv, the types of what is     *)
(* read; Core, that types and the order of the calls in ctl are right and  *)
(* that statements give back what they took, whatever the counts; and      *)
(* Code, that under NoWrap all code is Sound and the slots kept in val and *)
(* in the frames of ctl are live.                                          *)
(***************************************************************************)
EXTENDS NfParser, SequenceTheorems, TLAPS

Protos == [ins : Seq(Instruction), dep : Seq(Int16), consts : Seq(Values), used : Int16]
Typed(p) ==
  p \in Protos /\ Len(p.dep) = Len(p.ins) /\ Len(p.consts) <= MaxConstNr

(* No count of slots the code was emitted at left the range of int16_t.    *)
NoWrap(p) == p.used \in 0..(Int16Max - 1) /\ \A i \in 1..Len(p.dep) : p.dep[i] \in 0..(Int16Max - 1)

(* The number of slots in use after instruction i.                         *)
DepNext(p, i) == IF i = Len(p.ins) THEN p.used ELSE p.dep[i + 1]

(* What WellFormed says of an instruction, while there may be more to come.*)
SoundAt(p, i) ==
  /\ OperandsLive(p.ins[i], p.dep[i])
  /\ DepNext(p, i) = DepthAfter(p.ins[i], p.dep[i])
  /\ p.ins[i].op = "CONST" => p.ins[i].ab \in 0..(Len(p.consts) - 1)
  /\ p.ins[i].op = "POP" /\ p.ins[i].ab < 0 =>
       i > 1 /\ p.ins[i - 1].op = "CALL" /\ DepNext(p, i) <= p.dep[i - 1]

Sound(p) ==
  /\ \A i \in 1..Len(p.ins) : SoundAt(p, i)
  /\ IF Len(p.ins) = 0 THEN p.used = 0 ELSE p.dep[1] = 0

NoReturn(p) == \A i \in 1..Len(p.ins) : p.ins[i].op # "RET_0"

(* An instruction takes one slot at most: no count exceeds the number of   *)
(* instructions emitted before it.  That is so as long as they are too few *)
(* to make one wrap.                                                       *)
Short(p) == Len(p.ins) < Int16Max
Counted(p) == p.used \in 0..Len(p.ins) /\ \A i \in 1..Len(p.ins) : p.dep[i] \in 0..(i - 1)
Few(p) == Short(p) => Counted(p)

(* The code q is p and what emit() added to it, with c slots more in use.  *)
Extends(p, q, c) ==
  /\ Typed(q)
  /\ Len(p.consts) <= Len(q.consts)
  /\ NoWrap(q) => NoWrap(p) /\ q.used = p.used + c
  /\ NoWrap(q) /\ Sound(p) => Sound(q)
  /\ NoReturn(p) => NoReturn(q)
  /\ Few(p) => Few(q)

-----------------------------------------------------------------------------
(* Conversion to int16_t, and emit().                                      *)

(* Proofs use no more of the width than this.                              *)
LEMMA Int16MaxFact == Int16Max \in Nat /\ Int16Max > 10
  BY DEF Int16Max

(* The range of int16_t.                                                   *)
LEMMA Int16Int ==
  ASSUME NEW x
  PROVE  x \in Int16 <=> x \in Int /\ -(Int16Max + 1) <= x /\ x <= Int16Max
  BY Int16MaxFact DEF Int16

(* A conversion to int16_t yields one, and changes none.                   *)
LEMMA I16Type == ASSUME NEW x \in Int PROVE I16(x) \in Int16
  <1> DEFINE m == 2 * (Int16Max + 1)
  <1>1. m \in Nat \ {0} /\ x + Int16Max + 1 \in Int
    BY Int16MaxFact
  <1>2. (x + Int16Max + 1) % m \in 0..(m - 1)
    <2> HIDE DEF m
    <2> QED BY <1>1
  <1> QED BY <1>2, Int16MaxFact DEF I16, Int16

(* A number that is an int16_t already converts to itself.                 *)
LEMMA I16Same == ASSUME NEW x \in Int16 PROVE I16(x) = x
  <1> DEFINE m == 2 * (Int16Max + 1)
             y == x + Int16Max + 1
  <1>1. m \in Nat \ {0} /\ y \in 0..(m - 1) /\ y - (Int16Max + 1) = x
    BY Int16MaxFact DEF Int16
  <1>2. y % m = y
    <2> HIDE DEF m, y
    <2> QED BY <1>1
  <1> QED BY <1>1, <1>2 DEF I16

(* The fields of what emit() returns.                                      *)
LEMMA EmitFacts ==
  ASSUME NEW p, Typed(p), NEW ins \in Instruction, NEW c \in Int
  PROVE  LET q == Emit(p, ins, c) IN
         /\ Typed(q) /\ q.consts = p.consts /\ q.used = I16(p.used + c)
         /\ Len(q.ins) = Len(p.ins) + 1 /\ Len(q.dep) = Len(p.ins) + 1
         /\ \A i \in 1..Len(p.ins) : q.ins[i] = p.ins[i] /\ q.dep[i] = p.dep[i]
         /\ q.ins[Len(p.ins) + 1] = ins /\ q.dep[Len(p.ins) + 1] = p.used
  <1> DEFINE q == Emit(p, ins, c)
  <1>1. /\ p.ins \in Seq(Instruction) /\ p.dep \in Seq(Int16) /\ p.used \in Int16
        /\ p.consts \in Seq(Values) /\ Len(p.dep) = Len(p.ins) /\ Len(p.consts) <= MaxConstNr
    BY DEF Typed, Protos
  <1>2. p.used + c \in Int
    BY <1>1 DEF Int16
  <1>3. q = [ins |-> Append(p.ins, ins), dep |-> Append(p.dep, p.used),
             consts |-> p.consts, used |-> I16(p.used + c)]
    <2> DEFINE x == Append(p.ins, ins)
               y == Append(p.dep, p.used)
               z == I16(p.used + c)
               D == {"ins", "dep", "consts", "used"}
    <2>1. q = [p EXCEPT !.ins = x, !.dep = y, !.used = z]
      BY DEF Emit
    <2> HIDE DEF q, x, y, z
    <2>2. DOMAIN p = D
      BY DEF Typed, Protos
    <2>3. q = [f \in D |-> IF f = "used" THEN z ELSE IF f = "dep" THEN y
                             ELSE IF f = "ins" THEN x ELSE p[f]]
      BY <2>1, <2>2
    <2>4. q = [ins |-> x, dep |-> y, consts |-> p.consts, used |-> z]
      BY <2>3
    <2> QED BY <2>4 DEF x, y, z
  <1>4. I16(p.used + c) \in Int16
    BY <1>2, I16Type
  <1>5. /\ Append(p.ins, ins) \in Seq(Instruction) /\ Append(p.dep, p.used) \in Seq(Int16)
        /\ Len(Append(p.ins, ins)) = Len(p.ins) + 1 /\ Len(Append(p.dep, p.used)) = Len(p.ins) + 1
        /\ \A i \in 1..Len(p.ins) : Append(p.ins, ins)[i] = p.ins[i] /\ Append(p.dep, p.used)[i] = p.dep[i]
        /\ Append(p.ins, ins)[Len(p.ins) + 1] = ins /\ Append(p.dep, p.used)[Len(p.ins) + 1] = p.used
    BY <1>1
  <1>6. q \in Protos
    <2> HIDE DEF q
    <2> QED BY <1>1, <1>3, <1>4, <1>5 DEF Protos
  <1> HIDE DEF q
  <1>7. Typed(q)
    BY <1>1, <1>3, <1>5, <1>6 DEF Typed
  <1> QED BY <1>3, <1>5, <1>7 DEF q

(* One more instruction keeps what is there sound, if it is sound itself.  *)
LEMMA EmitSound ==
  ASSUME NEW p, Typed(p), NEW ins \in Instruction, NEW c \in Int,
         NoWrap(Emit(p, ins, c)), Sound(p), p.used + c \in Int16,
         OperandsLive(ins, p.used), DepthAfter(ins, p.used) = p.used + c,
         ins.op = "CONST" => ins.ab \in 0..(Len(p.consts) - 1),
         ins.op = "POP" /\ ins.ab < 0 =>
           /\ Len(p.ins) > 0 /\ p.ins[Len(p.ins)].op = "CALL"
           /\ p.used + c <= p.dep[Len(p.ins)]
  PROVE  Sound(Emit(p, ins, c))
  <1> DEFINE q == Emit(p, ins, c)
             n == Len(p.ins)
  <1>1. n \in Nat
    BY DEF Typed, Protos
  <1>2. /\ Typed(q) /\ q.consts = p.consts /\ q.used = p.used + c
        /\ Len(q.ins) = n + 1
        /\ \A i \in 1..n : q.ins[i] = p.ins[i] /\ q.dep[i] = p.dep[i]
        /\ q.ins[n + 1] = ins /\ q.dep[n + 1] = p.used
    BY EmitFacts, I16Same
  <1> HIDE DEF q, n
  <1>3. ASSUME NEW i \in 1..n PROVE SoundAt(q, i)
    <2>1. SoundAt(p, i)
      BY <1>3 DEF Sound, n
    <2>2. DepNext(q, i) = DepNext(p, i)
      BY <1>1, <1>2, <1>3 DEF DepNext, n
    <2>3. q.ins[i] = p.ins[i] /\ q.dep[i] = p.dep[i]
      BY <1>2, <1>3
    <2>4. i > 1 => q.ins[i - 1] = p.ins[i - 1] /\ q.dep[i - 1] = p.dep[i - 1]
      BY <1>1, <1>2, <1>3
    <2> QED BY <1>2, <2>1, <2>2, <2>3, <2>4 DEF SoundAt
  <1>4. SoundAt(q, n + 1)
    <2>1. DepNext(q, n + 1) = p.used + c
      BY <1>2 DEF DepNext
    <2>2. n > 0 => q.ins[n] = p.ins[n] /\ q.dep[n] = p.dep[n]
      BY <1>1, <1>2
    <2>3. (n + 1) - 1 = n /\ (n > 0 => n + 1 > 1)
      BY <1>1
    <2> QED BY <1>2, <2>1, <2>2, <2>3 DEF SoundAt, n
  <1>5. q.dep[1] = 0
    <2>1. CASE n = 0
      BY <1>2, <2>1 DEF Sound, n
    <2>2. CASE n # 0
      BY <1>1, <1>2, <2>2 DEF Sound, n
    <2> QED BY <2>1, <2>2
  <1>6. Len(q.ins) # 0 /\ 1..Len(q.ins) = (1..n) \cup {n + 1}
    BY <1>1, <1>2
  <1> QED BY <1>3, <1>4, <1>5, <1>6 DEF Sound, q

(* Counts that fit fitted before.                                          *)
LEMMA EmitNoWrap ==
  ASSUME NEW p, Typed(p), NEW ins \in Instruction, NEW c \in Int,
         NoWrap(Emit(p, ins, c))
  PROVE  NoWrap(p)
  <1> DEFINE q == Emit(p, ins, c)
             n == Len(p.ins)
  <1>1. /\ n \in Nat /\ Len(p.dep) = n
        /\ Len(q.dep) = n + 1
        /\ \A i \in 1..n : q.dep[i] = p.dep[i]
        /\ q.dep[n + 1] = p.used
    <2>1. n \in Nat /\ Len(p.dep) = n
      BY DEF Typed, Protos
    <2> QED BY <2>1, EmitFacts
  <1>0. NoWrap(q)
    OBVIOUS
  <1> HIDE DEF q
  <1>2. \A i \in 1..(n + 1) : q.dep[i] \in 0..(Int16Max - 1)
    BY <1>0, <1>1 DEF NoWrap
  <1> HIDE DEF n
  <1>3. n + 1 \in 1..(n + 1) /\ \A i \in 1..n : i \in 1..(n + 1)
    BY <1>1
  <1>4. p.used \in 0..(Int16Max - 1) /\ \A i \in 1..n : p.dep[i] \in 0..(Int16Max - 1)
    BY <1>1, <1>2, <1>3
  <1> QED BY <1>1, <1>4 DEF NoWrap

(* Counts that the number of instructions bounds did not wrap.             *)
LEMMA FewFit == ASSUME NEW p, Typed(p), Few(p), Short(p) PROVE NoWrap(p)
  <1> DEFINE n == Len(p.ins)
             m == Int16Max
  <1>1. n \in Nat /\ m \in Nat /\ n < m /\ Len(p.dep) = n
    BY Int16MaxFact DEF Typed, Protos, Short
  <1>2. p.used \in 0..n /\ \A i \in 1..n : p.dep[i] \in 0..(i - 1)
    BY DEF Few, Counted
  <1> HIDE DEF n, m
  <1>3. p.used \in 0..(m - 1) /\ \A i \in 1..n : p.dep[i] \in 0..(m - 1)
    BY <1>1, <1>2
  <1> QED BY <1>1, <1>3 DEF NoWrap, m

(* One instruction more lets the count grow by one, and leaves the others. *)
LEMMA EmitFew ==
  ASSUME NEW p, Typed(p), NEW ins \in Instruction, NEW c \in Int, Few(p),
         NoWrap(p) => p.used + c \in 0..(Len(p.ins) + 1)
  PROVE  Few(Emit(p, ins, c))
  <1> DEFINE q == Emit(p, ins, c)
             n == Len(p.ins)
             m == Int16Max
  <1>1. n \in Nat /\ m \in Nat
    BY Int16MaxFact DEF Typed, Protos
  <1>2. /\ q.used = I16(p.used + c) /\ Len(q.ins) = n + 1
        /\ \A i \in 1..n : q.dep[i] = p.dep[i]
        /\ q.dep[n + 1] = p.used
    BY EmitFacts
  <1> HIDE DEF q
  <1>3. SUFFICES ASSUME Short(q) PROVE Counted(q)
    BY DEF Few, q
  <1>4. n + 1 < m /\ Short(p)
    BY <1>1, <1>2, <1>3 DEF Short
  <1>5. p.used + c \in 0..(n + 1) /\ Counted(p)
    BY <1>4, FewFit DEF Few
  <1>6. p.used + c \in Int16
    <2> DEFINE x == p.used + c
    <2>1. x \in 0..(n + 1)
      BY <1>5
    <2> HIDE DEF n, m, x
    <2>2. x \in Int /\ -(m + 1) <= x /\ x <= m
      BY <1>1, <1>4, <2>1
    <2> QED BY <2>2, Int16Int DEF m, x
  <1>7. q.used \in 0..(n + 1)
    BY <1>2, <1>5, <1>6, I16Same
  <1>8. p.used \in 0..n /\ \A i \in 1..n : p.dep[i] \in 0..(i - 1)
    BY <1>5 DEF Counted
  <1> HIDE DEF n, m
  <1>9. ASSUME NEW i \in 1..(n + 1) PROVE q.dep[i] \in 0..(i - 1)
    <2>1. CASE i \in 1..n
      BY <1>2, <1>8, <2>1
    <2>2. CASE i = n + 1
      <3>1. (n + 1) - 1 = n
        BY <1>1
      <3> QED BY <1>2, <1>8, <2>2, <3>1
    <2> QED BY <1>1, <2>1, <2>2
  <1> QED BY <1>2, <1>7, <1>9 DEF Counted

(* An instruction whose operands are live leaves no fewer than no slot.    *)
LEMMA DepthAfterLive ==
  ASSUME NEW ins \in Instruction, NEW d \in Nat, ins.op # "POP", OperandsLive(ins, d)
  PROVE  DepthAfter(ins, d) >= 0
  <1>1. CASE ins.op = "CALL"
    <2>1. SlotsOf(ins) = {ins.ab}
      BY <1>1 DEF SlotsOf, BinaryOps
    <2>2. ins.ab \in 0..(d - 1)
      BY <1>1, <2>1 DEF OperandsLive
    <2>3. DepthAfter(ins, d) = ins.ab
      BY <1>1 DEF DepthAfter, BinaryOps
    <2> QED BY <2>2, <2>3
  <1>2. CASE ins.op \in {"SET", "TABLE_SET"}
    <2>1. d >= 1 /\ DepthAfter(ins, d) = d - 1
      BY <1>2 DEF OperandsLive, DepthAfter, BinaryOps
    <2> QED BY <2>1
  <1>3. CASE ins.op \notin {"CALL", "SET", "TABLE_SET", "POP"}
    <2>1. ins.op \in Opcodes
      BY DEF Instruction
    <2>2. DepthAfter(ins, d) = d + 1 \/ DepthAfter(ins, d) = d
      BY <1>3, <2>1 DEF DepthAfter, BinaryOps, Opcodes
    <2> QED BY <2>2
  <1> QED BY <1>1, <1>2, <1>3

(* emit() of any instruction but POP and RET_0.                            *)
LEMMA EmitExtends ==
  ASSUME NEW p, Typed(p), NEW ins \in Instruction, NEW c \in -2..1,
         ins.op \notin {"POP", "RET_0"},
         NoWrap(p) => /\ OperandsLive(ins, p.used)
                      /\ DepthAfter(ins, p.used) = p.used + c,
         ins.op = "CONST" => ins.ab \in 0..(Len(p.consts) - 1)
  PROVE  Extends(p, Emit(p, ins, c), c)
  <1> DEFINE q == Emit(p, ins, c)
             n == Len(p.ins)
  <1>0. n \in Nat /\ p.consts \in Seq(Values)
    BY DEF Typed, Protos
  <1>1. /\ Typed(q) /\ q.consts = p.consts /\ q.used = I16(p.used + c)
        /\ Len(q.ins) = n + 1
        /\ \A i \in 1..n : q.ins[i] = p.ins[i]
        /\ q.ins[n + 1] = ins
    BY EmitFacts
  <1>2. ASSUME NoWrap(q) PROVE NoWrap(p) /\ p.used + c \in Int16 /\ q.used = p.used + c
    <2>1. NoWrap(p)
      BY <1>2, EmitNoWrap
    <2>2. p.used + c \in Int16
      BY <2>1, Int16MaxFact DEF NoWrap, Int16
    <2> QED BY <1>1, <2>1, <2>2, I16Same
  <1>3. ASSUME NoWrap(q), Sound(p) PROVE Sound(q)
    BY <1>2, <1>3, EmitSound
  <1> HIDE DEF q, n
  <1>4. ASSUME NoReturn(p) PROVE NoReturn(q)
    <2>1. 1..Len(q.ins) = (1..n) \cup {n + 1}
      BY <1>0, <1>1
    <2> QED BY <1>1, <1>4, <2>1 DEF NoReturn, n
  <1>5. Len(p.consts) <= Len(q.consts)
    BY <1>0, <1>1
  <1>6. ASSUME Few(p) PROVE Few(q)
    <2>1. ASSUME NoWrap(p), Short(p) PROVE p.used + c \in 0..(n + 1)
      <3>1. p.used \in 0..n
        BY <1>6, <2>1 DEF Few, Counted, n
      <3>2. p.used + c >= 0
        <4>1. p.used \in Nat
          BY <1>0, <3>1
        <4> QED BY <2>1, <4>1, DepthAfterLive
      <3> QED BY <1>0, <3>1, <3>2
    <2>2. ~Short(p) => ~Short(q)
      BY <1>0, <1>1, Int16MaxFact DEF Short, n
    <2>3. ASSUME Short(p) PROVE Few(q)
      BY <1>6, <2>1, <2>3, EmitFew DEF q, n
    <2> QED BY <2>2, <2>3 DEF Few
  <1> QED BY <1>1, <1>2, <1>3, <1>4, <1>5, <1>6 DEF Extends, q

(* Emitting twice.                                                         *)
LEMMA ExtendsTwice ==
  ASSUME NEW p, NEW q, NEW r, NEW c \in Int, NEW d \in Int, Typed(p),
         Extends(p, q, c), Extends(q, r, d)
  PROVE  Extends(p, r, c + d)
  <1>1. p.used \in Int /\ Len(p.consts) \in Nat /\ Len(q.consts) \in Nat /\ Len(r.consts) \in Nat
    BY DEF Extends, Typed, Protos, Int16
  <1> QED BY <1>1 DEF Extends

(* Code nothing was added to.                                              *)
LEMMA ExtendsNone == ASSUME NEW p, Typed(p) PROVE Extends(p, p, 0)
  <1>1. p.used \in Int /\ Len(p.consts) \in Nat
    BY DEF Typed, Protos, Int16
  <1> QED BY <1>1 DEF Extends

-----------------------------------------------------------------------------
(* The pending calls: which function a function can have been called by.   *)

StmtLabels == {"stmt", "semi", "local", "init", "target", "assign", "args", "arg"}

Below(at) ==
  CASE at \in {"sv", "brace", "key"} -> {"unary", "target"}
    [] at \in {"operand", "paren"} -> {"unary"}
    [] at \in {"factor", "unary"} -> {"term"}
    [] at = "term" -> {"sum"}
    [] at = "sum" -> {"paren", "key", "assign", "arg"}
    [] OTHER -> {}

TypedFrames ==
  {f \in Frames : /\ f.at \in {"sum", "term"} => f.op \in {""} \cup DOMAIN OpcodeOf
                  /\ f.at = "unary" => f.op \in {""} \cup DOMAIN UnaryOp}

(* Frames in an order the calls allow, and all of those of a statement.    *)
Piece(f) ==
  /\ f \in Seq(TypedFrames) /\ Len(f) >= 1
  /\ \A k \in 1..(Len(f) - 1) : f[k + 1].at \in Below(f[k].at)
Shape(c) == Piece(c) /\ c[Len(c)].at \in StmtLabels

Members(c) == {c[k] : k \in 1..Len(c)}

(* Frames whose last one is g may take the place of frame x.               *)
Replaces(g, x) ==
  \/ g.at \in StmtLabels /\ x.at \in StmtLabels
  \/ g.at \notin StmtLabels /\ x.at \notin StmtLabels /\ Below(x.at) \subseteq Below(g.at)

(* Below never names a function of its own statement level.                *)
LEMMA BelowFacts ==
  /\ \A at \in StmtLabels : Below(at) = {}
  /\ \A at \in Labels : Below(at) \subseteq Labels \ {"stmt", "local", "semi"}
  BY DEF Below, StmtLabels, Labels

(* Where StatementsBalanced and SemiOK apply is in a statement.            *)
LEMMA StmtLabelsFact == {"stmt", "semi", "local"} \subseteq StmtLabels
  BY DEF StmtLabels

(* The running function of a statement has nothing below it.               *)
LEMMA StmtAlone ==
  ASSUME NEW c, Shape(c), c[1].at \in StmtLabels PROVE Len(c) = 1
  <1> DEFINE n == Len(c)
  <1>1. n \in Nat /\ n >= 1 /\ \A k \in 1..(n - 1) : c[k + 1].at \in Below(c[k].at)
    BY DEF Shape, Piece
  <1>2. Below(c[1].at) = {}
    BY BelowFacts
  <1> HIDE DEF n
  <1>3. n = 1
    <2>1. n # 1 => 1 \in 1..(n - 1)
      BY <1>1
    <2> QED BY <1>1, <1>2, <2>1
  <1> QED BY <1>3 DEF n

(* An expression's has.                                                    *)
LEMMA ExprBelow ==
  ASSUME NEW c, Shape(c), c[1].at \notin StmtLabels
  PROVE  /\ Len(c) > 1 /\ c[2].at \in Below(c[1].at)
         /\ Shape(Tail(c)) /\ Tail(c)[1] = c[2]
  <1>1. /\ c \in Seq(TypedFrames) /\ Len(c) \in Nat /\ Len(c) >= 1 /\ c[Len(c)].at \in StmtLabels
        /\ \A k \in 1..(Len(c) - 1) : c[k + 1].at \in Below(c[k].at)
    BY DEF Shape, Piece
  <1>2. Len(c) > 1
    BY <1>1
  <1>3. c[2].at \in Below(c[1].at)
    <2>1. 1 \in 1..(Len(c) - 1) /\ 1 + 1 = 2
      BY <1>1, <1>2
    <2> QED BY <1>1, <2>1
  <1> DEFINE d == Tail(c)
  <1>4. /\ d \in Seq(TypedFrames) /\ Len(d) = Len(c) - 1
        /\ \A k \in 1..Len(d) : d[k] = c[k + 1]
    BY <1>1, <1>2
  <1> HIDE DEF d
  <1>5. \A k \in 1..(Len(d) - 1) : d[k + 1].at \in Below(d[k].at)
    <2> TAKE k \in 1..(Len(d) - 1)
    <2>1. k + 1 \in 1..(Len(c) - 1) /\ k \in 1..Len(d) /\ k + 1 \in 1..Len(d)
      BY <1>1, <1>2, <1>4
    <2>2. d[k] = c[k + 1] /\ d[k + 1] = c[k + 1 + 1]
      BY <1>4, <2>1
    <2> QED BY <1>1, <2>1, <2>2
  <1>6. d[Len(d)] = c[Len(c)] /\ d[1] = c[2] /\ Len(d) >= 1
    BY <1>1, <1>2, <1>4
  <1>7. Shape(d)
    BY <1>1, <1>4, <1>5, <1>6 DEF Shape, Piece
  <1> QED BY <1>2, <1>3, <1>6, <1>7 DEF d

(* What Goto makes of the pending calls.                                   *)
LEMMA Splice ==
  ASSUME NEW f, NEW c, Piece(f), Shape(c), Replaces(f[Len(f)], c[1])
  PROVE  /\ Shape(f \o Tail(c))
         /\ (f \o Tail(c))[1] = f[1]
         /\ Members(f \o Tail(c)) \subseteq Members(f) \cup Members(c)
  <1> DEFINE d == f \o Tail(c)
  <1>1. /\ c \in Seq(TypedFrames) /\ Len(c) \in Nat /\ Len(c) >= 1 /\ c[Len(c)].at \in StmtLabels
        /\ \A k \in 1..(Len(c) - 1) : c[k + 1].at \in Below(c[k].at)
    BY DEF Shape, Piece
  <1>2. /\ f \in Seq(TypedFrames) /\ Len(f) \in Nat /\ Len(f) >= 1
        /\ \A k \in 1..(Len(f) - 1) : f[k + 1].at \in Below(f[k].at)
    BY DEF Piece
  <1>3. /\ d \in Seq(TypedFrames) /\ Len(d) = Len(f) + Len(c) - 1
        /\ \A k \in 1..Len(f) : d[k] = f[k]
        /\ \A k \in (Len(f) + 1)..Len(d) : d[k] = c[k - Len(f) + 1]
    <2> DEFINE e == Tail(c)
    <2>1. e \in Seq(TypedFrames) /\ Len(e) = Len(c) - 1 /\ \A k \in 1..Len(e) : e[k] = c[k + 1]
      BY <1>1
    <2> HIDE DEF e
    <2>2. f \o e \in Seq(TypedFrames) /\ Len(f \o e) = Len(f) + Len(e)
      BY <1>2, <2>1, ConcatProperties
    <2>3. \A k \in 1..(Len(f) + Len(e)) :
             (f \o e)[k] = IF k <= Len(f) THEN f[k] ELSE e[k - Len(f)]
      BY <1>2, <2>1, ConcatProperties
    <2>4. \A k \in 1..Len(f) : (f \o e)[k] = f[k]
      BY <1>2, <2>1, <2>3
    <2>5. ASSUME NEW k \in (Len(f) + 1)..(Len(f) + Len(e)) PROVE (f \o e)[k] = c[k - Len(f) + 1]
      <3>1. k \in 1..(Len(f) + Len(e)) /\ ~(k <= Len(f)) /\ k - Len(f) \in 1..Len(e)
        BY <1>2, <2>1
      <3>2. (f \o e)[k] = e[k - Len(f)]
        BY <2>3, <3>1
      <3> QED BY <2>1, <3>1, <3>2
    <2>6. Len(f) + Len(e) = Len(f) + Len(c) - 1
      BY <1>1, <1>2, <2>1
    <2> QED BY <2>2, <2>4, <2>5, <2>6 DEF d, e
  <1> HIDE DEF d
  <1>4. \A k \in 1..Len(d) :
               \/ \E j \in 1..Len(f) : d[k] = f[j]
               \/ \E j \in 1..Len(c) : d[k] = c[j]
    <2> TAKE k \in 1..Len(d)
    <2>1. CASE k <= Len(f)
      BY <1>2, <1>3, <2>1
    <2>2. CASE k > Len(f)
      <3>1. k \in (Len(f) + 1)..Len(d) /\ k - Len(f) + 1 \in 1..Len(c)
        BY <1>1, <1>2, <1>3, <2>2
      <3> QED BY <1>3, <3>1
    <2> QED BY <1>2, <2>1, <2>2
  <1>7. Members(d) \subseteq Members(f) \cup Members(c)
    BY <1>4 DEF Members
  <1>5. d[1] = f[1] /\ Len(d) >= 1
    BY <1>1, <1>2, <1>3
  <1>6. Shape(d)
    <2>0. Len(c) = 1 \/ Len(c) > 1
      <3> DEFINE n == Len(c)
      <3>1. n \in Nat /\ n >= 1
        BY <1>1
      <3> HIDE DEF n
      <3>2. n = 1 \/ n > 1
        BY <3>1
      <3> QED BY <3>2 DEF n
    <2>1. CASE Len(c) = 1
      <3>1. Len(d) = Len(f)
        BY <1>2, <1>3, <2>1
      <3>2. \A k \in 1..(Len(d) - 1) : d[k + 1] = f[k + 1] /\ d[k] = f[k]
        BY <1>2, <1>3, <3>1
      <3>3. d[Len(d)] = f[Len(f)]
        BY <1>2, <1>3, <3>1
      <3>4. f[Len(f)].at \in StmtLabels
        BY <1>1, <2>1 DEF Replaces
      <3> QED BY <1>2, <1>3, <1>5, <3>1, <3>2, <3>3, <3>4 DEF Shape, Piece
    <2>2. CASE Len(c) > 1
      <3>1. c[1].at \notin StmtLabels
        BY <1>1, <2>2, StmtAlone
      <3>2. Below(c[1].at) \subseteq Below(f[Len(f)].at)
        BY <3>1 DEF Replaces
      <3>3. c[2].at \in Below(c[1].at)
        BY <3>1, ExprBelow
      <3>4. ASSUME NEW k \in 1..(Len(d) - 1) PROVE d[k + 1].at \in Below(d[k].at)
        <4>1. CASE k < Len(f)
          <5>1. d[k] = f[k] /\ d[k + 1] = f[k + 1] /\ k \in 1..(Len(f) - 1)
            BY <1>2, <1>3, <4>1
          <5> QED BY <1>2, <5>1
        <4>2. CASE k = Len(f)
          <5>1. k + 1 \in (Len(f) + 1)..Len(d) /\ k + 1 - Len(f) + 1 = 2
            BY <1>1, <1>2, <1>3, <2>2, <4>2
          <5>2. d[k] = f[Len(f)] /\ d[k + 1] = c[2]
            BY <1>2, <1>3, <4>2, <5>1
          <5> QED BY <3>2, <3>3, <5>2
        <4>3. CASE k > Len(f)
          <5> DEFINE j == k - Len(f) + 1
          <5>1. /\ k \in (Len(f) + 1)..Len(d) /\ k + 1 \in (Len(f) + 1)..Len(d)
                /\ j \in 1..(Len(c) - 1) /\ k + 1 - Len(f) + 1 = j + 1
            BY <1>1, <1>2, <1>3, <2>2, <4>3
          <5>2. d[k] = c[j] /\ d[k + 1] = c[j + 1]
            BY <1>3, <5>1
          <5> HIDE DEF j
          <5> QED BY <1>1, <5>1, <5>2
        <4> QED BY <1>2, <4>1, <4>2, <4>3
      <3>5. d[Len(d)] = c[Len(c)]
        <4>1. Len(d) \in (Len(f) + 1)..Len(d) /\ Len(d) - Len(f) + 1 = Len(c)
          BY <1>1, <1>2, <1>3, <2>2
        <4> QED BY <1>3, <4>1
      <3> QED BY <1>1, <1>3, <1>5, <3>4, <3>5 DEF Shape, Piece
    <2> QED BY <2>0, <2>1, <2>2
  <1> QED BY <1>5, <1>6, <1>7 DEF d

-----------------------------------------------------------------------------
(* What is live when: the slots kept in frames and in val.                 *)

LiveValue(v, u) ==
  \/ v.type = "NONE"
  \/ v.type = "NORMAL" /\ v.index \in 0..(u - 1)
  \/ v.type = "TABLE_SLOT" /\ u >= 1 /\ (v.index = PSEUDO_INDEX_GLOBAL \/ v.index \in 0..(u - 1))

FrameLive(f, u) ==
  /\ LiveValue(f.value, u)
  /\ f.at = "key" => f.n \in 0..(u - 1)
  /\ f.at = "assign" => /\ f.value.type # "NONE"
                        /\ f.value.type = "TABLE_SLOT" => f.n \in 0..(u - 1)
  /\ f.at \in {"sum", "term"} /\ f.op # "" => f.value.type = "NORMAL"
  /\ f.at \in {"init", "args", "arg"} => f.value.type = "NORMAL"

LiveStack(c, u) == \A k \in 1..Len(c) : FrameLive(c[k], u)

(* What a function at the label at may find in val.                        *)
ValueFits(at, v, u) ==
  /\ at \in {"sum", "term", "assign", "arg", "key", "paren"} => v.type = "NORMAL" /\ LiveValue(v, u)
  /\ at \in {"unary", "target"} => v.type # "NONE" /\ LiveValue(v, u)

(* At the end of a statement, with m variables: a call of the last one may *)
(* have taken its slot with it.                                            *)
SemiOK(p, m) ==
  \/ m <= p.used
  \/ Len(p.ins) > 0 /\ p.ins[Len(p.ins)].op = "CALL" /\ m <= p.dep[Len(p.ins)]

(* The inductive invariant: of the text, of the rest, and of the code.     *)
TextInv == toks \in Seq(Tokens \cup {Eof}) /\ look \in Tokens \cup {Eof, NoToken}

Core ==
  /\ Shape(ctl)
  /\ val \in SingleValues
  /\ scope \in Seq(Values) /\ Len(scope) <= MaxVarNr
  /\ Typed(proto) /\ Few(proto)
  /\ status \in Statuses
  /\ StatementsBalanced

Code ==
  NoWrap(proto) =>
    /\ Sound(proto)
    /\ status = "parsing" =>
         /\ NoReturn(proto) /\ LiveStack(ctl, proto.used)
         /\ ValueFits(ctl[1].at, val, proto.used)
         /\ IF ctl[1].at = "semi" THEN SemiOK(proto, Len(scope)) ELSE Len(scope) <= proto.used
    /\ status = "parsed" => WellFormed(proto)

(* What is live stays live when more slots are in use.                     *)
LEMMA LiveGrows ==
  ASSUME NEW u \in Int, NEW w \in Int, u <= w
  PROVE  /\ \A v : LiveValue(v, u) => LiveValue(v, w)
         /\ \A c : LiveStack(c, u) => LiveStack(c, w)
  <1>1. \A v : LiveValue(v, u) => LiveValue(v, w)
    BY DEF LiveValue
  <1>2. ASSUME NEW f, FrameLive(f, u) PROVE FrameLive(f, w)
    <2>1. LiveValue(f.value, w)
      BY <1>1, <1>2 DEF FrameLive
    <2>2. \A i : i \in 0..(u - 1) => i \in 0..(w - 1)
      OBVIOUS
    <2> QED BY <1>2, <2>1, <2>2 DEF FrameLive
  <1> QED BY <1>1, <1>2 DEF LiveStack

(* What Goto puts in front is live if both parts are.                      *)
LEMMA SpliceLive ==
  ASSUME NEW f, NEW c, Piece(f), Shape(c), Replaces(f[Len(f)], c[1]),
         NEW u, LiveStack(f, u), LiveStack(c, u)
  PROVE  LiveStack(f \o Tail(c), u)
  <1>1. Members(f \o Tail(c)) \subseteq Members(f) \cup Members(c)
    BY Splice
  <1> QED BY <1>1 DEF LiveStack, Members

(* A frame that keeps nothing, and the same of what it finds live.         *)
LEMMA PointType ==
  ASSUME NEW at \in Labels
  PROVE  LET f == Point(at) IN
         /\ f \in TypedFrames /\ f.at = at /\ f.op = "" /\ f.value = NoValue /\ f.value.type = "NONE"
         /\ at \notin {"key", "assign", "init", "args", "arg"} => \A u : FrameLive(f, u)
  <1>1. NoValue \in SingleValues /\ NoValue.type = "NONE" /\ 0 \in Int16
    BY Int16MaxFact DEF NoValue, SingleValue, SingleValues, Int16
  <1>2. LET f == Point(at) IN f \in TypedFrames /\ f.at = at /\ f.op = "" /\ f.value = NoValue
    <2>1. "" \in OperatorTokens /\ "" \in {""} \cup DOMAIN OpcodeOf /\ "" \in {""} \cup DOMAIN UnaryOp
      BY DEF OperatorTokens
    <2>2. LET f == Frame(at, "", NoValue, 0) IN
            f \in TypedFrames /\ f.at = at /\ f.op = "" /\ f.value = NoValue
      <3> HIDE DEF NoValue
      <3> QED BY <1>1, <2>1 DEF Frame, Frames, TypedFrames
    <2> QED BY <2>2 DEF Point
  <1> QED BY <1>1, <1>2 DEF FrameLive, LiveValue

(* The two kinds of value that name a slot.                                *)
LEMMA ValueTypes ==
  ASSUME NEW i \in Int16
  PROVE  /\ Normal(i) \in SingleValues /\ Normal(i).type = "NORMAL" /\ Normal(i).index = i
         /\ TableSlot(i) \in SingleValues /\ TableSlot(i).type = "TABLE_SLOT" /\ TableSlot(i).index = i
  BY DEF Normal, TableSlot, SingleValue, SingleValues

(* The frames Goto is given.                                               *)
LEMMA PutOne ==
  ASSUME NEW x \in TypedFrames
  PROVE  LET f == <<x>> IN
         /\ Piece(f) /\ f[1] = x /\ f[Len(f)] = x
         /\ \A u : FrameLive(x, u) => LiveStack(f, u)
  BY DEF Piece, LiveStack

(* Two frames in the place of one.                                         *)
LEMMA PutTwo ==
  ASSUME NEW x \in TypedFrames, NEW y \in TypedFrames, y.at \in Below(x.at)
  PROVE  LET f == <<x, y>> IN
         /\ Piece(f) /\ f[1] = x /\ f[Len(f)] = y
         /\ \A u : FrameLive(x, u) /\ FrameLive(y, u) => LiveStack(f, u)
  BY DEF Piece, LiveStack

(* Frames for an expression.                                               *)
LEMMA PutExpr ==
  ASSUME NEW y \in TypedFrames, y.at \in Below("sum")
  PROVE  LET f == Expr \o <<y>> IN
         /\ Piece(f) /\ f[1].at = "factor" /\ f[Len(f)] = y
         /\ \A u : FrameLive(y, u) => LiveStack(f, u)
  <1> DEFINE a == Point("factor")
             b == Point("term")
             c == Point("sum")
             f == <<a, b, c>> \o <<y>>
  <1>1. /\ a \in TypedFrames /\ a.at = "factor" /\ b \in TypedFrames /\ b.at = "term"
        /\ c \in TypedFrames /\ c.at = "sum"
        /\ \A u : FrameLive(a, u) /\ FrameLive(b, u) /\ FrameLive(c, u)
    BY PointType DEF Labels
  <1>2. "term" \in Below("factor") /\ "sum" \in Below("term")
    BY DEF Below
  <1>3. Expr \o <<y>> = f
    BY DEF Expr
  <1> HIDE DEF a, b, c
  <1>4. f \in Seq(TypedFrames) /\ Len(f) = 4 /\ f[1] = a /\ f[2] = b /\ f[3] = c /\ f[4] = y
    BY <1>1
  <1>5. 1..4 = {1, 2, 3, 4} /\ 1..(4 - 1) = {1, 2, 3} /\ 1 + 1 = 2 /\ 2 + 1 = 3 /\ 3 + 1 = 4
    OBVIOUS
  <1> HIDE DEF f
  <1>6. Piece(f)
    BY <1>1, <1>2, <1>4, <1>5 DEF Piece
  <1>7. \A u : FrameLive(y, u) => LiveStack(f, u)
    BY <1>1, <1>4, <1>5 DEF LiveStack
  <1> QED BY <1>1, <1>3, <1>4, <1>6, <1>7

(* Frames for the next operand of a binary operator.                       *)
LEMMA PutOperand ==
  ASSUME NEW level \in {"sum", "term"}, NEW y \in TypedFrames, y.at = level
  PROVE  LET f == OperandOf(level) \o <<y>> IN
         /\ Piece(f) /\ f[1].at = "factor" /\ f[Len(f)] = y
         /\ \A u : FrameLive(y, u) => LiveStack(f, u)
  <1> DEFINE a == Point("factor")
             b == Point("term")
             f == <<a, b>> \o <<y>>
             g == <<a>> \o <<y>>
  <1>1. /\ a \in TypedFrames /\ a.at = "factor" /\ b \in TypedFrames /\ b.at = "term"
        /\ \A u : FrameLive(a, u) /\ FrameLive(b, u)
    BY PointType DEF Labels
  <1>2. "term" \in Below("factor") /\ "sum" \in Below("term")
    BY DEF Below
  <1>3. OperandOf(level) \o <<y>> = IF level = "sum" THEN f ELSE g
    BY DEF OperandOf
  <1> HIDE DEF a, b
  <1>4. f \in Seq(TypedFrames) /\ Len(f) = 3 /\ f[1] = a /\ f[2] = b /\ f[3] = y
    BY <1>1
  <1>5. g \in Seq(TypedFrames) /\ Len(g) = 2 /\ g[1] = a /\ g[2] = y
    BY <1>1
  <1>6. /\ 1..3 = {1, 2, 3} /\ 1..(3 - 1) = {1, 2} /\ 1..2 = {1, 2} /\ 1..(2 - 1) = {1}
        /\ 1 + 1 = 2 /\ 2 + 1 = 3
    OBVIOUS
  <1> HIDE DEF f, g
  <1>7. CASE level = "sum"
    <2>1. Piece(f)
      BY <1>1, <1>2, <1>4, <1>6, <1>7 DEF Piece
    <2>2. \A u : FrameLive(y, u) => LiveStack(f, u)
      BY <1>1, <1>4, <1>6 DEF LiveStack
    <2> QED BY <1>1, <1>3, <1>4, <1>7, <2>1, <2>2
  <1>8. CASE level = "term"
    <2>1. Piece(g)
      BY <1>1, <1>2, <1>5, <1>6, <1>8 DEF Piece
    <2>2. \A u : FrameLive(y, u) => LiveStack(g, u)
      BY <1>1, <1>5, <1>6 DEF LiveStack
    <2> QED BY <1>1, <1>3, <1>5, <1>8, <2>1, <2>2
  <1> QED BY <1>7, <1>8

-----------------------------------------------------------------------------
(* Kinds of steps.                                                         *)

(* A step to another point of the same statement.                          *)
LEMMA Goes ==
  ASSUME Core, Code, status = "parsing", status' = status, scope' = scope, val' \in SingleValues,
         NEW f, Piece(f), Replaces(f[Len(f)], ctl[1]), ctl' = f \o Tail(ctl),
         f[1].at \notin {"stmt", "local", "semi"}, ctl[1].at # "semi",
         NEW c \in Nat, Extends(proto, proto', c),
         NoWrap(proto) /\ NoWrap(proto') =>
           LiveStack(f, proto'.used) /\ ValueFits(f[1].at, val', proto'.used)
  PROVE  Core' /\ Code'
  <1>1. Shape(ctl) /\ Typed(proto) /\ Typed(proto') /\ Few(proto')
    BY DEF Core, Extends
  <1>2. /\ Shape(ctl') /\ ctl'[1] = f[1]
        /\ \A u : LiveStack(f, u) /\ LiveStack(ctl, u) => LiveStack(ctl', u)
    <2> DEFINE d == f \o Tail(ctl)
    <2>1. /\ Shape(d) /\ d[1] = f[1]
          /\ \A u : LiveStack(f, u) /\ LiveStack(ctl, u) => LiveStack(d, u)
      BY <1>1, Splice, SpliceLive
    <2>2. ctl' = d
      OBVIOUS
    <2> HIDE DEF d
    <2> QED BY <2>1, <2>2
  <1>3. Core'
    BY <1>1, <1>2 DEF Core, StatementsBalanced
  <1>4. ASSUME NoWrap(proto') PROVE Code'
    <2>1. /\ NoWrap(proto) /\ proto'.used = proto.used + c
          /\ Sound(proto) => Sound(proto')
          /\ NoReturn(proto) => NoReturn(proto')
      BY <1>4 DEF Extends
    <2>2. /\ Sound(proto) /\ NoReturn(proto) /\ LiveStack(ctl, proto.used)
          /\ Len(scope) <= proto.used
      BY <2>1 DEF Code
    <2>3. proto.used \in Int /\ proto'.used \in Int /\ proto.used <= proto'.used /\ Len(scope) \in Int
      BY <1>1, <2>1 DEF Typed, Protos, Int16, Core
    <2>4. LiveStack(ctl, proto'.used)
      BY <2>2, <2>3, LiveGrows
    <2>5. LiveStack(ctl', proto'.used)
      BY <1>2, <1>4, <2>1, <2>4
    <2>6. Len(scope') <= proto'.used
      BY <2>2, <2>3
    <2> QED BY <1>2, <1>4, <2>1, <2>2, <2>5, <2>6 DEF Code
  <1>5. ~NoWrap(proto') => Code'
    BY DEF Code
  <1> QED BY <1>3, <1>4, <1>5

(* A step that returns from a function of an expression.                   *)
LEMMA Returns ==
  ASSUME Core, Code, status = "parsing", status' = status, scope' = scope, val' \in SingleValues,
         ctl[1].at \in Labels \ StmtLabels, ctl' = Tail(ctl),
         NEW c \in Nat, Extends(proto, proto', c),
         NoWrap(proto) /\ NoWrap(proto') =>
           \A at \in Below(ctl[1].at) : ValueFits(at, val', proto'.used)
  PROVE  Core' /\ Code'
  <1>1. Shape(ctl) /\ Typed(proto) /\ Typed(proto') /\ Few(proto')
    BY DEF Core, Extends
  <1>2. /\ Len(ctl) > 1 /\ ctl[2].at \in Below(ctl[1].at)
        /\ Shape(ctl') /\ ctl'[1] = ctl[2]
    BY <1>1, ExprBelow
  <1>3. ctl'[1].at \in Below(ctl[1].at) /\ ctl'[1].at \notin {"stmt", "local", "semi"}
    BY <1>2, BelowFacts
  <1>4. Core'
    BY <1>1, <1>2, <1>3 DEF Core, StatementsBalanced
  <1>5. ASSUME NoWrap(proto') PROVE Code'
    <2>1. /\ NoWrap(proto) /\ proto'.used = proto.used + c
          /\ Sound(proto) => Sound(proto')
          /\ NoReturn(proto) => NoReturn(proto')
      BY <1>5 DEF Extends
    <2>2. /\ Sound(proto) /\ NoReturn(proto) /\ LiveStack(ctl, proto.used)
          /\ Len(scope) <= proto.used
      BY <2>1, StmtLabelsFact DEF Code
    <2>3. proto.used \in Int /\ proto'.used \in Int /\ proto.used <= proto'.used /\ Len(scope) \in Int
      BY <1>1, <2>1 DEF Typed, Protos, Int16, Core
    <2>4. LiveStack(ctl, proto'.used)
      BY <2>2, <2>3, LiveGrows
    <2>5. LiveStack(ctl', proto'.used)
      <3>1. ctl \in Seq(TypedFrames)
        BY <1>1 DEF Shape, Piece
      <3>2. ctl # <<>>
        BY <1>2, <3>1
      <3>3. \A k \in 1..Len(ctl') : k + 1 \in 1..Len(ctl) /\ ctl'[k] = ctl[k + 1]
        BY <1>2, <3>1, <3>2, HeadTailProperties
      <3> QED BY <2>4, <3>3 DEF LiveStack
    <2>6. Len(scope') <= proto'.used
      BY <2>2, <2>3
    <2>7. ValueFits(ctl'[1].at, val', proto'.used)
      BY <1>3, <1>5, <2>1
    <2> QED BY <1>3, <1>5, <2>1, <2>2, <2>5, <2>6, <2>7 DEF Code
  <1>6. ~NoWrap(proto') => Code'
    BY DEF Code
  <1> QED BY <1>4, <1>5, <1>6

(* A step to the end of a statement.                                       *)
LEMMA Ends ==
  ASSUME Core, Code, status = "parsing", status' = status, scope' = scope, val' \in SingleValues,
         ctl[1].at \in StmtLabels, ctl' = <<Point("semi")>> \o Tail(ctl), Typed(proto'),
         Few(proto) => Few(proto'), NoWrap(proto') => NoWrap(proto),
         NoWrap(proto) /\ NoWrap(proto') =>
           Sound(proto') /\ NoReturn(proto') /\ SemiOK(proto', Len(scope))
  PROVE  Core' /\ Code'
  <1> DEFINE x == Point("semi")
  <1>1. x \in TypedFrames /\ x.at = "semi" /\ x.at \in StmtLabels /\ \A u : FrameLive(x, u)
    BY PointType DEF Labels, StmtLabels
  <1>2. Shape(ctl) /\ Typed(proto) /\ Few(proto')
    BY DEF Core
  <1> HIDE DEF x
  <1> DEFINE f == <<x>>
  <1>3. /\ Piece(f) /\ f[1] = x /\ f[Len(f)] = x
        /\ \A u : LiveStack(f, u)
    BY <1>1, PutOne
  <1>4. ctl' = f \o Tail(ctl)
    BY DEF x
  <1> HIDE DEF f
  <1>5. Replaces(f[Len(f)], ctl[1])
    BY <1>1, <1>3 DEF Replaces
  <1>6. Shape(ctl') /\ ctl'[1] = x
    <2> DEFINE d == f \o Tail(ctl)
    <2>1. Shape(d) /\ d[1] = f[1]
      BY <1>2, <1>3, <1>5, Splice
    <2>2. ctl' = d
      BY <1>4
    <2> HIDE DEF d
    <2> QED BY <1>3, <2>1, <2>2
  <1>7. Core'
    BY <1>1, <1>2, <1>6 DEF Core, StatementsBalanced
  <1>8. LiveStack(ctl', proto'.used)
    <2>1. Len(ctl') = 1
      BY <1>1, <1>6, StmtAlone
    <2>2. \A k \in 1..Len(ctl') : ctl'[k] = x
      BY <1>6, <2>1
    <2> QED BY <1>1, <2>2 DEF LiveStack
  <1>9. ValueFits(ctl'[1].at, val', proto'.used)
    BY <1>1, <1>6 DEF ValueFits
  <1>10. Code'
    BY <1>1, <1>6, <1>8, <1>9 DEF Code
  <1> QED BY <1>7, <1>10

-----------------------------------------------------------------------------
(* What each part of the code does to the code emitted so far.             *)

(* The instructions the parser emits are instructions.                     *)
LEMMA InsTypes ==
  /\ \A op \in Opcodes : Ins(op) \in Instruction /\ Ins(op).op = op
  /\ \A op \in Opcodes : \A i \in Int :
       InsAB(op, i) \in Instruction /\ InsAB(op, i).op = op /\ (i \in Int16 => InsAB(op, i).ab = i)
  <1>1. 0 \in Int16
    BY Int16MaxFact DEF Int16
  <1>2. ASSUME NEW op \in Opcodes PROVE Ins(op) \in Instruction /\ Ins(op).op = op
    BY <1>1 DEF Ins, Instruction
  <1>3. ASSUME NEW op \in Opcodes, NEW i \in Int
        PROVE  InsAB(op, i) \in Instruction /\ InsAB(op, i).op = op /\ (i \in Int16 => InsAB(op, i).ab = i)
    BY <1>1, I16Type, I16Same DEF InsAB, Instruction
  <1> QED BY <1>2, <1>3

(* An instruction with two operands keeps both, if cd is no sign           *)
(* extension.                                                              *)
LEMMA InsABCDType ==
  ASSUME NEW op \in Opcodes, NEW i \in Int16, NEW j \in Int16
  PROVE  LET ins == InsABCD(op, i, j) IN
         ins \in Instruction /\ ins.op = op /\ ins.cd = j /\ (j >= 0 => ins.ab = i)
  <1>1. I16(i) = i /\ I16(j) = j
    BY I16Same
  <1>2. i \in Int /\ j \in Int /\ -1 \in Int16
    BY Int16MaxFact DEF Int16
  <1>3. ~(j < 0) => InsABCD(op, i, j) = [op |-> op, ab |-> i, cd |-> j]
    BY <1>1 DEF InsABCD
  <1>4. j < 0 => InsABCD(op, i, j) = [op |-> op, ab |-> -1, cd |-> j]
    BY <1>1 DEF InsABCD
  <1> HIDE DEF InsABCD
  <1> QED BY <1>2, <1>3, <1>4 DEF Instruction

(* The top slot.                                                           *)
LEMMA TopSlot ==
  ASSUME NEW p, Typed(p)
  PROVE  /\ MaxUsedSlot(p) \in Int16 /\ p.used \in Int
         /\ NoWrap(p) => MaxUsedSlot(p) = p.used - 1
  <1>1. p.used \in Int16
    BY DEF Typed, Protos
  <1>2. p.used - 1 \in Int /\ p.used \in Int
    BY <1>1 DEF Int16
  <1>3. NoWrap(p) => p.used - 1 \in Int16
    BY Int16MaxFact DEF NoWrap, Int16
  <1> QED BY <1>2, <1>3, I16Type, I16Same DEF MaxUsedSlot

(* Instructions that read one slot and push.                               *)
LEMMA PushExtends ==
  ASSUME NEW p, Typed(p), NEW op \in {"PUSH", "NEG", "LEN"}, NEW i \in Int16,
         NoWrap(p) => i \in 0..(p.used - 1)
  PROVE  Extends(p, Emit(p, InsAB(op, i), 1), 1)
  <1> DEFINE ins == InsAB(op, i)
  <1>1. op \in Opcodes /\ i \in Int
    BY DEF Opcodes, Int16
  <1>2. ins \in Instruction /\ ins.op = op /\ ins.ab = i
    BY <1>1, InsTypes
  <1> HIDE DEF ins
  <1>3. NoWrap(p) => OperandsLive(ins, p.used)
    BY <1>2 DEF OperandsLive, SlotsOf, BinaryOps
  <1>4. DepthAfter(ins, p.used) = p.used + 1
    BY <1>2 DEF DepthAfter, BinaryOps
  <1>5. ins.op \notin {"POP", "RET_0", "CONST"} /\ 1 \in -2..1
    BY <1>2
  <1>6. Extends(p, Emit(p, ins, 1), 1)
    BY <1>2, <1>3, <1>4, <1>5, EmitExtends
  <1> QED BY <1>6 DEF ins

(* Instructions that push and read nothing.                                *)
LEMMA FreshExtends ==
  ASSUME NEW p, Typed(p), NEW op \in {"LOAD_NIL", "NEW_TABLE"}
  PROVE  Extends(p, Emit(p, Ins(op), 1), 1)
  <1> DEFINE ins == Ins(op)
  <1>1. op \in Opcodes
    BY DEF Opcodes
  <1>2. ins \in Instruction /\ ins.op = op
    BY <1>1, InsTypes
  <1> HIDE DEF ins
  <1>3. OperandsLive(ins, p.used)
    BY <1>2 DEF OperandsLive, SlotsOf, BinaryOps
  <1>4. DepthAfter(ins, p.used) = p.used + 1
    BY <1>2 DEF DepthAfter, BinaryOps
  <1>5. ins.op \notin {"POP", "RET_0", "CONST"} /\ 1 \in -2..1
    BY <1>2
  <1>6. Extends(p, Emit(p, ins, 1), 1)
    BY <1>2, <1>3, <1>4, <1>5, EmitExtends
  <1> QED BY <1>6 DEF ins

(* ensure_normal_value: a value in a slot, and the slot it is in.          *)
LEMMA LoadExtends ==
  ASSUME NEW p, Typed(p), NEW v \in SingleValues, NoWrap(p) => LiveValue(v, p.used)
  PROVE  /\ Extends(p, EmitLoad(p, v), 0) /\ LoadedIndex(p, v) \in Int16
         /\ NoWrap(p) /\ v.type # "NONE" => LoadedIndex(p, v) \in 0..(p.used - 1)
  <1>1. v.index \in Int16 /\ v.index \in Int
    BY DEF SingleValues, Int16
  <1>2. CASE v.type = "TABLE_SLOT"
    <2> DEFINE ins == InsAB("TABLE_GET", v.index)
    <2>1. ins \in Instruction /\ ins.op = "TABLE_GET" /\ ins.ab = v.index
      BY <1>1, InsTypes DEF Opcodes
    <2> HIDE DEF ins
    <2>2. NoWrap(p) => p.used >= 1 /\ OperandsLive(ins, p.used)
      BY <1>2, <2>1 DEF OperandsLive, SlotsOf, BinaryOps, LiveValue
    <2>3. DepthAfter(ins, p.used) = p.used + 0
      BY <2>1, TopSlot DEF DepthAfter, BinaryOps
    <2>4. ins.op \notin {"POP", "RET_0", "CONST"} /\ 0 \in -2..1
      BY <2>1
    <2>5. Extends(p, Emit(p, ins, 0), 0)
      BY <2>1, <2>2, <2>3, <2>4, EmitExtends
    <2>6. NoWrap(p) => MaxUsedSlot(p) \in 0..(p.used - 1)
      BY <2>2, TopSlot
    <2> QED BY <1>2, <2>5, <2>6, TopSlot DEF EmitLoad, LoadedIndex, ins
  <1>3. CASE v.type # "TABLE_SLOT"
    <2>1. NoWrap(p) /\ v.type # "NONE" => v.index \in 0..(p.used - 1)
      BY <1>3 DEF LiveValue
    <2> QED BY <1>1, <1>3, <2>1, ExtendsNone DEF EmitLoad, LoadedIndex
  <1> QED BY <1>2, <1>3

(* The end of add_or_sub_elem() and expr().                                *)
LEMMA BinaryExtends ==
  ASSUME NEW p, Typed(p), NEW f \in TypedFrames, f.at \in {"sum", "term"}, NEW v \in SingleValues,
         NoWrap(p) => /\ FrameLive(f, p.used)
                      /\ v.index \in 0..(p.used - 1)
  PROVE  LET q == EmitBinary(p, f, v) IN
         /\ f.op = "" => q = p
         /\ f.op # "" => Extends(p, q, 1)
  <1>1. CASE f.op = ""
    BY <1>1 DEF EmitBinary
  <1>2. CASE f.op # ""
    <2> DEFINE op == OpcodeOf[f.op]
               ins == InsABCD(op, f.value.index, v.index)
    <2>1. op \in BinaryOps /\ op \in Opcodes
      <3>1. f.op \in {"+", "-", "*", "/"}
        BY <1>2 DEF TypedFrames, OpcodeOf
      <3> QED BY <3>1 DEF OpcodeOf, BinaryOps, Opcodes
    <2>2. f.value.index \in Int16 /\ v.index \in Int16
      BY DEF TypedFrames, Frames, SingleValues
    <2> HIDE DEF op
    <2>3. ins \in Instruction /\ ins.op = op /\ ins.cd = v.index /\ (v.index >= 0 => ins.ab = f.value.index)
      BY <2>1, <2>2, InsABCDType
    <2> HIDE DEF ins
    <2>4. NoWrap(p) => f.value.index \in 0..(p.used - 1)
      BY <1>2 DEF FrameLive, LiveValue
    <2>5. NoWrap(p) => OperandsLive(ins, p.used)
      <3> SUFFICES ASSUME NoWrap(p) PROVE OperandsLive(ins, p.used)
        OBVIOUS
      <3>1. v.index \in 0..(p.used - 1) /\ v.index >= 0 /\ ins.ab = f.value.index
        BY <2>3, TopSlot
      <3>2. SlotsOf(ins) = {f.value.index, v.index}
        BY <2>1, <2>3, <3>1 DEF SlotsOf, BinaryOps
      <3> QED BY <2>1, <2>3, <2>4, <3>1, <3>2 DEF OperandsLive, BinaryOps
    <2>6. DepthAfter(ins, p.used) = p.used + 1
      BY <2>1, <2>3 DEF DepthAfter, BinaryOps
    <2>7. ins.op \notin {"POP", "RET_0", "CONST"} /\ 1 \in -2..1
      BY <2>1, <2>3 DEF BinaryOps
    <2>8. Extends(p, Emit(p, ins, 1), 1)
      BY <2>3, <2>5, <2>6, <2>7, EmitExtends
    <2> QED BY <1>2, <2>8 DEF EmitBinary, ins, op
  <1> QED BY <1>1, <1>2

(* emit_const().                                                           *)
LEMMA ConstExtends ==
  ASSUME NEW p, Typed(p), NEW v \in Values, ConstFits(p, v)
  PROVE  Extends(p, EmitConst(p, v), 1)
  <1> DEFINE i == ConstIndex(p, v)
             n == Len(p.consts)
             cs == IF i = n THEN Append(p.consts, v) ELSE p.consts
             q == [p EXCEPT !.consts = cs]
             ins == InsAB("CONST", i)
  <1>1. /\ p.ins \in Seq(Instruction) /\ p.dep \in Seq(Int16) /\ p.used \in Int16
        /\ p.consts \in Seq(Values) /\ Len(p.dep) = Len(p.ins) /\ n <= MaxConstNr
        /\ n \in Nat /\ MaxConstNr \in Nat /\ MaxConstNr <= Int16Max
    BY ParserAssumption DEF Typed, Protos
  <1>2. i \in 0..n /\ (i < n \/ n + 1 <= MaxConstNr)
    <2>1. CASE \E k \in 1..n : p.consts[k] = v
      <3>1. (CHOOSE k \in 1..n : p.consts[k] = v) \in 1..n
        BY <2>1
      <3>2. i = (CHOOSE k \in 1..n : p.consts[k] = v) - 1
        BY <2>1 DEF ConstIndex
      <3> QED BY <1>1, <3>1, <3>2
    <2>2. CASE ~\E k \in 1..n : p.consts[k] = v
      <3>1. i = n
        BY <2>2 DEF ConstIndex
      <3> QED BY <1>1, <3>1 DEF ConstFits
    <2> QED BY <2>1, <2>2
  <1> HIDE DEF i
  <1>3. /\ cs \in Seq(Values) /\ i \in 0..(Len(cs) - 1) /\ n <= Len(cs) /\ Len(cs) <= MaxConstNr
    BY <1>1, <1>2
  <1> HIDE DEF cs
  <1>4. q = [ins |-> p.ins, dep |-> p.dep, consts |-> cs, used |-> p.used]
    <2>1. DOMAIN p = {"ins", "dep", "consts", "used"}
      BY DEF Typed, Protos
    <2>2. q = [f \in {"ins", "dep", "consts", "used"} |-> IF f = "consts" THEN cs ELSE p[f]]
      BY <2>1
    <2> QED BY <2>2
  <1> HIDE DEF q
  <1>5. Typed(q) /\ q.ins = p.ins /\ q.dep = p.dep /\ q.used = p.used /\ q.consts = cs
    BY <1>1, <1>3, <1>4 DEF Typed, Protos
  <1>6. /\ NoWrap(q) <=> NoWrap(p)
        /\ Sound(p) => Sound(q)
        /\ NoReturn(p) => NoReturn(q)
    <2>1. NoWrap(q) <=> NoWrap(p)
      BY <1>5 DEF NoWrap
    <2>2. NoReturn(p) => NoReturn(q)
      BY <1>5 DEF NoReturn
    <2>3. ASSUME Sound(p), NEW k \in 1..Len(q.ins) PROVE SoundAt(q, k)
      <3>1. SoundAt(p, k)
        BY <1>5, <2>3 DEF Sound
      <3>2. DepNext(q, k) = DepNext(p, k)
        BY <1>5 DEF DepNext
      <3>3. \A j : j \in 0..(n - 1) => j \in 0..(Len(cs) - 1)
        BY <1>1, <1>3
      <3> HIDE DEF n
      <3> QED BY <1>5, <3>1, <3>2, <3>3 DEF SoundAt, n
    <2> QED BY <1>5, <2>1, <2>2, <2>3 DEF Sound
  <1>7. i \in Int16 /\ i \in Int
    <2> HIDE DEF n
    <2> QED BY <1>1, <1>2, Int16MaxFact DEF Int16
  <1>8. ins \in Instruction /\ ins.op = "CONST" /\ ins.ab = i
    BY <1>7, InsTypes DEF Opcodes
  <1> HIDE DEF ins
  <1>9. OperandsLive(ins, q.used)
    BY <1>8 DEF OperandsLive, SlotsOf, BinaryOps
  <1>10. DepthAfter(ins, q.used) = q.used + 1
    BY <1>8 DEF DepthAfter, BinaryOps
  <1>11. ins.op \notin {"POP", "RET_0"} /\ 1 \in -2..1
    BY <1>8
  <1>12. Extends(q, Emit(q, ins, 1), 1)
    BY <1>3, <1>5, <1>8, <1>9, <1>10, <1>11, EmitExtends
  <1>13. EmitConst(p, v) = Emit(q, ins, 1)
    BY DEF EmitConst, q, ins, i, cs, n
  <1>14. Extends(p, Emit(q, ins, 1), 1)
    <2>1. Len(Emit(q, ins, 1).consts) \in Nat
      BY <1>12 DEF Extends, Typed, Protos
    <2>2. Few(p) => Few(q)
      BY <1>5 DEF Few, Short, Counted
    <2> QED BY <1>1, <1>3, <1>5, <1>6, <1>12, <2>1, <2>2 DEF Extends
  <1> QED BY <1>13, <1>14

(* The end of assignment().                                                *)
LEMMA StoreExtends ==
  ASSUME NEW p, Typed(p), NEW left \in SingleValues, NEW key \in Int16, NEW i \in Int16,
         NoWrap(p) => /\ LiveValue(left, p.used) /\ left.type # "NONE"
                      /\ left.type = "TABLE_SLOT" => key \in 0..(p.used - 1)
                      /\ i \in 0..(p.used - 1)
  PROVE  \E c \in {0, 1} : Extends(p, EmitStore(p, left, key, i), c)
  <1> DEFINE q == Emit(p, InsAB("PUSH", i), 1)
             s == EmitStore(p, left, key, i)
  <1>1. Extends(p, q, 1) /\ Typed(q)
    BY PushExtends DEF Extends
  <1>2. p.used \in Int /\ q.used \in Int /\ left.index \in Int16 /\ left.index \in Int
    BY <1>1, TopSlot DEF SingleValues, Int16
  <1>3. NoWrap(q) => NoWrap(p) /\ q.used = p.used + 1
    BY <1>1 DEF Extends
  <1> HIDE DEF q
  <1>4. CASE left.type = "NORMAL"
    <2> DEFINE ins == InsAB("SET", left.index)
    <2>1. ins \in Instruction /\ ins.op = "SET" /\ ins.ab = left.index
      BY <1>2, InsTypes DEF Opcodes
    <2> HIDE DEF ins
    <2>2. NoWrap(q) => q.used >= 1 /\ left.index \in 0..(q.used - 1)
      BY <1>2, <1>3, <1>4 DEF LiveValue
    <2>3. NoWrap(q) => OperandsLive(ins, q.used)
      BY <2>1, <2>2 DEF OperandsLive, SlotsOf, BinaryOps
    <2>4. DepthAfter(ins, q.used) = q.used + (-1)
      BY <1>2, <2>1 DEF DepthAfter, BinaryOps
    <2>5. ins.op \notin {"POP", "RET_0", "CONST"} /\ -1 \in -2..1
      BY <2>1
    <2>6. Extends(q, Emit(q, ins, -1), -1)
      BY <1>1, <2>1, <2>3, <2>4, <2>5, EmitExtends
    <2>7. Extends(p, Emit(q, ins, -1), 1 + (-1))
      BY <1>1, <2>6, ExtendsTwice
    <2>8. s = Emit(q, ins, -1)
      BY <1>4 DEF EmitStore, q, ins
    <2> QED BY <2>7, <2>8
  <1>5. CASE left.type = "TABLE_SLOT"
    <2> DEFINE ins == InsABCD("TABLE_SET", left.index, key)
    <2>1. /\ ins \in Instruction /\ ins.op = "TABLE_SET" /\ ins.cd = key
          /\ key >= 0 => ins.ab = left.index
      BY <1>2, InsABCDType DEF Opcodes
    <2> HIDE DEF ins
    <2>2. NoWrap(q) => OperandsLive(ins, q.used)
      <3> SUFFICES ASSUME NoWrap(q) PROVE OperandsLive(ins, q.used)
        OBVIOUS
      <3>1. /\ q.used >= 1 /\ key \in 0..(q.used - 1) /\ key >= 0
            /\ left.index = PSEUDO_INDEX_GLOBAL \/ left.index \in 0..(q.used - 1)
        BY <1>2, <1>3, <1>5 DEF LiveValue
      <3>2. ins.ab = left.index /\ SlotsOf(ins) = {left.index, key}
        BY <2>1, <3>1 DEF SlotsOf, BinaryOps
      <3> QED BY <2>1, <3>1, <3>2 DEF OperandsLive
    <2>4. DepthAfter(ins, q.used) = q.used + (-1)
      BY <1>2, <2>1 DEF DepthAfter, BinaryOps
    <2>5. ins.op \notin {"POP", "RET_0", "CONST"} /\ -1 \in -2..1
      BY <2>1
    <2>6. Extends(q, Emit(q, ins, -1), -1)
      BY <1>1, <2>1, <2>2, <2>4, <2>5, EmitExtends
    <2>7. Extends(p, Emit(q, ins, -1), 1 + (-1))
      BY <1>1, <2>6, ExtendsTwice
    <2>8. s = Emit(q, ins, -1)
      BY <1>5 DEF EmitStore, q, ins
    <2> QED BY <2>7, <2>8
  <1>6. CASE left.type \notin {"NORMAL", "TABLE_SLOT"}
    <2>1. s = q
      BY <1>6 DEF EmitStore, q
    <2> QED BY <1>1, <2>1
  <1> QED BY <1>4, <1>5, <1>6

(* Concatenation with one more is Append.                                  *)
LEMMA ConcatOne ==
  ASSUME NEW S, NEW s \in Seq(S), NEW y \in S
  PROVE  s \o <<y>> = Append(s, y)
  OBVIOUS

(* EmitPushes for no argument, and for one.                                *)
LEMMA PushNone ==
  ASSUME NEW p, Typed(p) PROVE EmitPushes(p, <<>>) = p
  <1> DEFINE a == [j \in 1..Len(<<>>) |-> InsAB("PUSH", <<>>[j])]
             b == [j \in 1..Len(<<>>) |-> I16(p.used + j - 1)]
             x == p.ins \o a
             y == p.dep \o b
             z == I16(p.used + Len(<<>>))
             D == {"ins", "dep", "consts", "used"}
  <1>1. a = <<>> /\ b = <<>>
    OBVIOUS
  <1>2. /\ p.ins \in Seq(Instruction) /\ p.dep \in Seq(Int16) /\ p.used \in Int16 /\ p.used \in Int
        /\ DOMAIN p = D /\ p = [ins |-> p.ins, dep |-> p.dep, consts |-> p.consts, used |-> p.used]
    BY DEF Typed, Protos, Int16
  <1>3. EmitPushes(p, <<>>) = [p EXCEPT !.ins = x, !.dep = y, !.used = z]
    BY DEF EmitPushes
  <1>4. x = p.ins /\ y = p.dep
    <2> HIDE DEF a, b
    <2> QED BY <1>1, <1>2, ConcatEmptySeq
  <1>5. z = p.used
    BY <1>2, I16Same
  <1> HIDE DEF x, y, z
  <1>6. [p EXCEPT !.ins = x, !.dep = y, !.used = z]
          = [f \in D |-> IF f = "used" THEN z ELSE IF f = "dep" THEN y
                           ELSE IF f = "ins" THEN x ELSE p[f]]
    BY <1>2
  <1>7. p = [f \in D |-> IF f = "used" THEN p.used ELSE IF f = "dep" THEN p.dep
                           ELSE IF f = "ins" THEN p.ins ELSE p[f]]
    BY <1>2
  <1> QED BY <1>3, <1>4, <1>5, <1>6, <1>7

(* The push of one argument is an emit().                                  *)
LEMMA PushOne ==
  ASSUME NEW p, Typed(p), NEW i \in Int16
  PROVE  EmitPushes(p, <<i>>) = Emit(p, InsAB("PUSH", i), 1)
  <1> DEFINE ins == InsAB("PUSH", i)
             a == [j \in 1..Len(<<i>>) |-> InsAB("PUSH", <<i>>[j])]
             b == [j \in 1..Len(<<i>>) |-> I16(p.used + j - 1)]
             x == p.ins \o a
             y == p.dep \o b
             z == I16(p.used + Len(<<i>>))
             D == {"ins", "dep", "consts", "used"}
  <1>2. /\ p.ins \in Seq(Instruction) /\ p.dep \in Seq(Int16) /\ p.used \in Int16 /\ p.used \in Int
        /\ DOMAIN p = D
    BY DEF Typed, Protos, Int16
  <1>1. a = <<ins>> /\ b = <<p.used>>
    <2>1. Len(<<i>>) = 1 /\ 1..1 = {1} /\ <<i>>[1] = i
      OBVIOUS
    <2>2. p.used + 1 - 1 = p.used /\ I16(p.used) = p.used
      BY <1>2, I16Same
    <2>3. a = [j \in {1} |-> ins]
      BY <2>1
    <2>4. b = [j \in {1} |-> p.used]
      BY <2>1, <2>2
    <2>5. \A e : [j \in {1} |-> e] = <<e>>
      BY <2>1
    <2> QED BY <2>3, <2>4, <2>5
  <1>3. EmitPushes(p, <<i>>) = [p EXCEPT !.ins = x, !.dep = y, !.used = z]
    BY DEF EmitPushes
  <1>4. x = Append(p.ins, ins) /\ y = Append(p.dep, p.used)
    <2>1. ins \in Instruction
      BY InsTypes, Int16Int DEF Opcodes
    <2> HIDE DEF a, b, ins
    <2> QED BY <1>1, <1>2, <2>1, ConcatOne
  <1>5. z = I16(p.used + 1)
    OBVIOUS
  <1>6. Emit(p, ins, 1) = [p EXCEPT !.ins = x, !.dep = y, !.used = z]
    <2> HIDE DEF x, y, z, ins
    <2> QED BY <1>4, <1>5 DEF Emit
  <1> QED BY <1>3, <1>6

(* func_call() after the closing parenthesis, with one argument or none.   *)
LEMMA CallFacts ==
  ASSUME NEW p, Typed(p), NEW callee \in Int16, NEW i \in Int16, NEW args \in {<<>>, <<i>>},
         NoWrap(p) => callee \in 0..(p.used - 1) /\ i \in 0..(p.used - 1)
  PROVE  LET s == EmitCall(p, callee, args) IN
         /\ Typed(s)
         /\ NoWrap(s) => NoWrap(p)
         /\ NoWrap(s) /\ Sound(p) => Sound(s)
         /\ NoReturn(p) => NoReturn(s)
         /\ NoWrap(s) => \A m \in Int : m <= p.used => SemiOK(s, m)
         /\ Few(p) => Few(s)
  <1> DEFINE q == EnsureAtTop(p, callee)
             slot == IF callee # MaxUsedSlot(p) THEN MaxUsedSlot(q) ELSE callee
             r == EmitPushes(q, args)
             n == Len(args)
             ins == InsAB("CALL", slot)
             s == Emit(r, ins, -n - 1)
  <1>1. /\ p.used \in Int /\ MaxUsedSlot(p) \in Int16
        /\ NoWrap(p) => MaxUsedSlot(p) = p.used - 1
    BY TopSlot
  <1>2. \E c \in {0, 1} : Extends(p, q, c)
    <2>1. CASE callee # MaxUsedSlot(p)
      BY <2>1, PushExtends DEF EnsureAtTop
    <2>2. CASE callee = MaxUsedSlot(p)
      BY <2>2, ExtendsNone DEF EnsureAtTop
    <2> QED BY <2>1, <2>2
  <1>3. Typed(q) /\ (NoWrap(q) => NoWrap(p) /\ p.used <= q.used)
    BY <1>1, <1>2 DEF Extends
  <1>4. /\ q.used \in Int /\ MaxUsedSlot(q) \in Int16
        /\ NoWrap(q) => MaxUsedSlot(q) = q.used - 1
    BY <1>3, TopSlot
  <1>5. slot \in Int16 /\ (NoWrap(q) => slot = q.used - 1 /\ slot >= 0)
    <2>1. CASE callee # MaxUsedSlot(p)
      BY <1>1, <1>3, <1>4, <2>1
    <2>2. CASE callee = MaxUsedSlot(p)
      BY <1>1, <1>3, <1>4, <2>2 DEF EnsureAtTop
    <2> QED BY <2>1, <2>2
  <1>6. n \in {0, 1} /\ Extends(q, r, n)
    <2> HIDE DEF q
    <2>2. CASE args = <<>>
      <3>1. r = q
        BY <1>3, <2>2, PushNone
      <3> QED BY <1>3, <2>2, <3>1, ExtendsNone
    <2>3. CASE args = <<i>>
      <3>1. r = Emit(q, InsAB("PUSH", i), 1)
        BY <1>3, <2>3, PushOne
      <3>2. NoWrap(q) => i \in 0..(q.used - 1)
        BY <1>1, <1>3, <1>4
      <3> QED BY <1>3, <2>3, <3>1, <3>2, PushExtends
    <2> QED BY <2>2, <2>3
  <1>7. /\ Typed(r) /\ r.used \in Int
        /\ NoWrap(r) => NoWrap(q) /\ r.used = q.used + n
    BY <1>6, TopSlot DEF Extends
  <1>8. ins \in Instruction /\ ins.op = "CALL" /\ ins.ab = slot
    <2>1. slot \in Int
      BY <1>5 DEF Int16
    <2> HIDE DEF slot
    <2> QED BY <1>5, <2>1, InsTypes DEF Opcodes
  <1> HIDE DEF q, slot, r, n, ins
  <1>9. NoWrap(r) => OperandsLive(ins, r.used) /\ DepthAfter(ins, r.used) = r.used + (-n - 1)
    <2> SUFFICES ASSUME NoWrap(r) PROVE OperandsLive(ins, r.used) /\ DepthAfter(ins, r.used) = r.used + (-n - 1)
      OBVIOUS
    <2>1. slot \in 0..(r.used - 1) /\ slot = r.used + (-n - 1)
      BY <1>4, <1>5, <1>6, <1>7
    <2>2. SlotsOf(ins) = {slot}
      BY <1>8 DEF SlotsOf, BinaryOps
    <2>3. OperandsLive(ins, r.used)
      BY <1>8, <2>1, <2>2 DEF OperandsLive
    <2>4. DepthAfter(ins, r.used) = slot
      BY <1>8 DEF DepthAfter, BinaryOps
    <2> QED BY <2>1, <2>3, <2>4
  <1>10. -n - 1 \in -2..1 /\ ins.op \notin {"POP", "RET_0", "CONST"}
    BY <1>6, <1>8
  <1>11. Extends(r, s, -n - 1)
    BY <1>7, <1>8, <1>9, <1>10, EmitExtends
  <1>12. /\ s.ins[Len(r.ins) + 1] = ins /\ s.dep[Len(r.ins) + 1] = r.used
         /\ Len(s.ins) = Len(r.ins) + 1 /\ Len(r.ins) \in Nat
    <2>1. Len(r.ins) \in Nat /\ -n - 1 \in Int
      BY <1>6, <1>7 DEF Typed, Protos
    <2> QED BY <1>7, <1>8, <2>1, EmitFacts
  <1> HIDE DEF s
  <1>13. NoWrap(s) => NoWrap(p) /\ p.used <= r.used
    BY <1>1, <1>3, <1>4, <1>6, <1>7, <1>11 DEF Extends
  <1>14. NoWrap(s) => \A m \in Int : m <= p.used => SemiOK(s, m)
    <2> SUFFICES ASSUME NoWrap(s), NEW m \in Int, m <= p.used PROVE SemiOK(s, m)
      OBVIOUS
    <2>1. m <= r.used
      BY <1>1, <1>7, <1>13
    <2>2. Len(s.ins) > 0 /\ s.ins[Len(s.ins)].op = "CALL" /\ s.dep[Len(s.ins)] = r.used
      BY <1>8, <1>12
    <2> QED BY <2>1, <2>2 DEF SemiOK
  <1>15. /\ NoWrap(s) /\ Sound(p) => Sound(s)
         /\ NoReturn(p) => NoReturn(s)
         /\ Typed(s)
         /\ Few(p) => Few(s)
    BY <1>2, <1>6, <1>7, <1>11 DEF Extends
  <1>16. EmitCall(p, callee, args) = s
    BY DEF EmitCall, ArgsAndCallee, q, slot, r, n, ins, s
  <1> QED BY <1>13, <1>14, <1>15, <1>16

(* The end of stmt(), with m variables.                                    *)
LEMMA PopFacts ==
  ASSUME NEW p, Typed(p), NEW m \in 0..MaxVarNr
  PROVE  LET q == PopTemps(p, m) IN
         /\ Typed(q) /\ q.used = m
         /\ NoWrap(q) => NoWrap(p)
         /\ NoWrap(q) /\ Sound(p) /\ SemiOK(p, m) => Sound(q)
         /\ NoReturn(p) => NoReturn(q)
         /\ Few(p) /\ (NoWrap(p) => SemiOK(p, m)) => Few(q)
  <1> DEFINE t == p.used - m
             ins == InsAB("POP", t)
             q == Emit(p, ins, -t)
             n == Len(p.ins)
  <1>1. p.used \in Int /\ m \in Nat /\ m \in Int16 /\ t \in Int /\ n \in Nat
    <2>1. p.used \in Int
      BY TopSlot
    <2>2. m \in Nat /\ m \in Int16
      BY ParserAssumption, Int16MaxFact DEF Int16
    <2> QED BY <2>1, <2>2 DEF Typed, Protos
  <1>2. CASE t = 0
    <2>1. PopTemps(p, m) = p
      BY <1>2 DEF PopTemps
    <2>2. p.used = m
      BY <1>1, <1>2
    <2> QED BY <2>1, <2>2
  <1>3. CASE t # 0
    <2>1. PopTemps(p, m) = q
      BY <1>3 DEF PopTemps
    <2>2. ins \in Instruction /\ ins.op = "POP" /\ (t \in Int16 => ins.ab = t)
      <3> HIDE DEF t
      <3> QED BY <1>1, InsTypes DEF Opcodes
    <2>3. -t \in Int /\ p.used + -t = m
      BY <1>1
    <2> HIDE DEF ins, t, n
    <2>4. /\ Typed(q) /\ q.used = m
          /\ Len(q.ins) = n + 1
          /\ \A i \in 1..n : q.ins[i] = p.ins[i]
          /\ q.ins[n + 1] = ins
      BY <1>1, <2>2, <2>3, EmitFacts, I16Same DEF n
    <2>5. NoWrap(q) => NoWrap(p)
      BY <2>2, <2>3, EmitNoWrap
    <2>6. ASSUME NoWrap(q), Sound(p), SemiOK(p, m) PROVE Sound(q)
      <3>1. NoWrap(p) /\ p.used \in 0..(Int16Max - 1)
        BY <2>5, <2>6 DEF NoWrap
      <3>2. t \in Int16 /\ ins.ab = t
        BY <1>1, <2>2, <2>3, <3>1, Int16MaxFact DEF Int16
      <3>3. OperandsLive(ins, p.used)
        BY <2>2 DEF OperandsLive, SlotsOf, BinaryOps
      <3>4. DepthAfter(ins, p.used) = p.used + -t
        BY <1>1, <2>2, <3>2 DEF DepthAfter, BinaryOps
      <3>5. ASSUME ins.ab < 0
            PROVE  n > 0 /\ p.ins[n].op = "CALL" /\ p.used + -t <= p.dep[n]
        <4>1. ~(m <= p.used)
          BY <1>1, <2>3, <3>2, <3>5
        <4> QED BY <2>3, <2>6, <4>1 DEF SemiOK, n
      <3> QED BY <1>1, <2>2, <2>3, <2>6, <3>3, <3>4, <3>5, EmitSound DEF n
    <2>7. ASSUME NoReturn(p) PROVE NoReturn(q)
      <3>1. 1..Len(q.ins) = (1..n) \cup {n + 1}
        BY <1>1, <2>4
      <3> HIDE DEF q
      <3> QED BY <2>2, <2>4, <2>7, <3>1 DEF NoReturn, n
    <2>8. ASSUME Few(p), NoWrap(p) => SemiOK(p, m) PROVE Few(q)
      <3>1. ASSUME Short(p), NoWrap(p) PROVE m \in 0..(n + 1)
        <4>1. Counted(p) /\ SemiOK(p, m)
          BY <2>8, <3>1 DEF Few
        <4>2. m <= n
          <5>1. p.used \in 0..n /\ \A i \in 1..n : p.dep[i] \in 0..(i - 1)
            BY <4>1 DEF Counted, n
          <5>2. m <= p.used \/ (n > 0 /\ m <= p.dep[n])
            BY <4>1 DEF SemiOK, n
          <5>3. n > 0 => p.dep[n] \in 0..(n - 1)
            BY <1>1, <5>1 DEF n
          <5> QED BY <1>1, <5>1, <5>2, <5>3 DEF n
        <4> QED BY <1>1, <4>2 DEF n
      <3>2. ~Short(p) => ~Short(q)
        BY <1>1, <2>4, Int16MaxFact DEF Short, n
      <3>3. ASSUME Short(p) PROVE Few(q)
        BY <2>2, <2>3, <2>8, <3>1, <3>3, EmitFew DEF n
      <3> QED BY <3>2, <3>3 DEF Few
    <2> HIDE DEF q
    <2> QED BY <2>1, <2>4, <2>5, <2>6, <2>7, <2>8
  <1> QED BY <1>2, <1>3

(* The end of chunk().                                                     *)
LEMMA EndFacts ==
  ASSUME NEW p, Typed(p)
  PROVE  LET q == EmitEnd(p) IN
         /\ Typed(q) /\ q.used = p.used
         /\ NoWrap(q) => NoWrap(p)
         /\ NoWrap(q) /\ Sound(p) => Sound(q)
         /\ NoWrap(q) /\ Sound(p) /\ NoReturn(p) => WellFormed(q)
         /\ Few(p) => Few(q)
  <1> DEFINE ins == Ins("RET_0")
             q == Emit(p, ins, 0)
             n == Len(p.ins)
  <1>1. ins \in Instruction /\ ins.op = "RET_0"
    BY InsTypes DEF Opcodes
  <1>2. /\ p.used \in Int /\ p.used \in Int16 /\ p.used + 0 = p.used /\ n \in Nat
        /\ Len(p.dep) = n
    BY TopSlot DEF Typed, Protos
  <1> HIDE DEF ins
  <1>3. /\ Typed(q) /\ q.used = p.used
        /\ Len(q.ins) = n + 1 /\ Len(q.dep) = n + 1
        /\ \A i \in 1..n : q.ins[i] = p.ins[i]
        /\ q.ins[n + 1] = ins
    BY <1>1, <1>2, EmitFacts, I16Same
  <1>4. NoWrap(q) => NoWrap(p)
    BY <1>1, EmitNoWrap
  <1>5. ASSUME NoWrap(q), Sound(p) PROVE Sound(q)
    <2>1. OperandsLive(ins, p.used)
      BY <1>1 DEF OperandsLive, SlotsOf, BinaryOps
    <2>2. DepthAfter(ins, p.used) = p.used + 0
      BY <1>1, <1>2 DEF DepthAfter, BinaryOps
    <2>3. p.used + 0 \in Int16
      BY <1>2
    <2> HIDE DEF q
    <2>4. ins.op \notin {"CONST", "POP"} /\ 0 \in Int
      BY <1>1
    <2> QED BY <1>1, <1>5, <2>1, <2>2, <2>3, <2>4, EmitSound DEF q
  <1>8. ASSUME Few(p) PROVE Few(q)
    <2>1. ASSUME Short(p) PROVE Few(q)
      <3>1. p.used + 0 \in 0..(n + 1)
        <4>1. p.used \in 0..n
          BY <1>8, <2>1 DEF Few, Counted
        <4> QED BY <1>2, <4>1
      <3> QED BY <1>1, <1>8, <3>1, EmitFew
    <2>2. ~Short(p) => ~Short(q)
      BY <1>2, <1>3, Int16MaxFact DEF Short
    <2> QED BY <2>1, <2>2 DEF Few
  <1> HIDE DEF q, n
  <1>6. ASSUME NoWrap(q), Sound(p), NoReturn(p) PROVE WellFormed(q)
    <2>1. Sound(q)
      BY <1>5, <1>6
    <2>2. Len(q.ins) > 0 /\ Len(q.dep) = Len(q.ins) /\ q.dep[1] = 0
      BY <1>2, <1>3, <2>1 DEF Sound
    <2>3. ASSUME NEW i \in 1..Len(q.ins)
          PROVE  /\ q.dep[i] \in Nat
                 /\ OperandsLive(q.ins[i], q.dep[i])
                 /\ q.ins[i].op = "RET_0" <=> i = Len(q.ins)
                 /\ i < Len(q.ins) => q.dep[i + 1] = DepthAfter(q.ins[i], q.dep[i])
                 /\ q.ins[i].op = "CONST" => q.ins[i].ab \in 0..(Len(q.consts) - 1)
                 /\ q.ins[i].op = "POP" /\ q.ins[i].ab < 0 =>
                      i > 1 /\ q.ins[i - 1].op = "CALL" /\ q.dep[i + 1] <= q.dep[i - 1]
      <3>1. SoundAt(q, i)
        BY <2>1 DEF Sound
      <3>2. q.dep[i] \in Nat
        BY <1>6, <2>2, Int16MaxFact DEF NoWrap
      <3>3. q.ins[i].op = "RET_0" <=> i = Len(q.ins)
        <4>1. CASE i \in 1..n
          BY <1>2, <1>3, <1>6, <4>1 DEF NoReturn, n
        <4>2. CASE i = n + 1
          BY <1>1, <1>3, <4>2
        <4> QED BY <1>2, <1>3, <4>1, <4>2
      <3>4. i # Len(q.ins) => DepNext(q, i) = q.dep[i + 1]
        BY DEF DepNext
      <3>5. i < Len(q.ins) => i # Len(q.ins)
        BY <1>2, <1>3
      <3>6. q.ins[i].op = "POP" => i # Len(q.ins)
        BY <3>3
      <3> QED BY <3>1, <3>2, <3>3, <3>4, <3>5, <3>6 DEF SoundAt
    <2> QED BY <2>2, <2>3 DEF WellFormed
  <1>7. EmitEnd(p) = q
    BY DEF EmitEnd, q, ins
  <1> QED BY <1>3, <1>4, <1>5, <1>6, <1>7, <1>8

-----------------------------------------------------------------------------
(* The text: what peek yields is a token.                                  *)

(* What peek yields is a token or the end of the text.                     *)
LEMMA PeekedType == ASSUME TextInv PROVE Peeked \subseteq Tokens \cup {Eof}
  <1>1. CASE look = NoToken
    <2> SUFFICES ASSUME NEW x \in Peeked PROVE x \in Tokens \cup {Eof}
      OBVIOUS
    <2>1. PICK t \in Texts : x \in NextIn(t)
      BY <1>1 DEF Peeked, NextTokens
    <2> DEFINE n == Len(toks) + 1
    <2>2. n \in Nat \ {0}
      BY DEF TextInv
    <2>3. t.prelude \in Seq(Tokens) /\ t.tokens \subseteq Tokens
      BY ParserAssumption
    <2> HIDE DEF n
    <2>4. CASE n <= Len(t.prelude)
      <3>1. NextIn(t) = {t.prelude[n]}
        BY <2>4 DEF NextIn, n
      <3>2. t.prelude[n] \in Tokens
        BY <2>2, <2>3, <2>4
      <3> QED BY <2>1, <3>1, <3>2
    <2>5. CASE ~(n <= Len(t.prelude))
      <3>1. NextIn(t) \subseteq t.tokens \cup {Eof}
        BY <2>5 DEF NextIn, n
      <3> QED BY <2>1, <2>3, <3>1
    <2> QED BY <2>4, <2>5
  <1>2. CASE look # NoToken
    BY <1>2 DEF Peeked, TextInv
  <1> QED BY <1>1, <1>2

(* A look at the next token, or its consumption, keeps the text well       *)
(* typed.                                                                  *)
LEMMA TextStep ==
  ASSUME TextInv, NEW t \in Peeked, Look(t) \/ Take(t) PROVE TextInv'
  <1>1. t \in Tokens \cup {Eof}
    BY PeekedType
  <1>2. toks' \in Seq(Tokens \cup {Eof})
    BY <1>1 DEF TextInv, Look, Take, Saw
  <1> QED BY <1>1, <1>2 DEF TextInv, Look, Take

(* A token with a text that is a value, when it is not the end.            *)
LEMMA TokenText ==
  ASSUME TextInv, NEW t \in Peeked, t.kind # "eof" PROVE t \in Tokens /\ t.text \in Values
  <1>1. t \in Tokens
    BY PeekedType DEF Eof
  <1> QED BY <1>1 DEF Values

-----------------------------------------------------------------------------
(* The fields of what the running function works with.                     *)

(* What the invariant says of the running function and of what it finds.   *)
LEMMA TopFrame ==
  ASSUME Core
  PROVE  /\ ctl[1] \in TypedFrames /\ ctl[1] \in Frames
         /\ ctl[1].at \in Labels
         /\ ctl[1].value \in SingleValues /\ ctl[1].value.index \in Int16 /\ ctl[1].n \in Int16
         /\ val \in SingleValues /\ val.index \in Int16
         /\ Typed(proto) /\ Len(scope) \in 0..MaxVarNr /\ Len(scope) \in 0..Int16Max
         /\ Len(scope) # MaxVarNr => Len(scope) + 1 <= MaxVarNr
  <1>1. ctl \in Seq(TypedFrames) /\ Len(ctl) >= 1
    BY DEF Core, Shape, Piece
  <1>2. ctl[1] \in TypedFrames
    BY <1>1
  <1>3. /\ Len(scope) \in 0..MaxVarNr /\ Len(scope) \in 0..Int16Max
        /\ Len(scope) # MaxVarNr => Len(scope) + 1 <= MaxVarNr
    <2> DEFINE n == Len(scope)
    <2>1. n \in Nat /\ n <= MaxVarNr
      BY DEF Core
    <2> HIDE DEF n
    <2>2. n \in 0..MaxVarNr /\ n \in 0..Int16Max /\ (n # MaxVarNr => n + 1 <= MaxVarNr)
      BY <2>1, Int16MaxFact, ParserAssumption
    <2> QED BY <2>2 DEF n
  <1> QED BY <1>2, <1>3 DEF Core, TypedFrames, Frames, SingleValues

(* The same of the slots it uses, as long as no count wrapped.             *)
LEMMA TopLive ==
  ASSUME Core, Code, status = "parsing", NoWrap(proto)
  PROVE  /\ FrameLive(ctl[1], proto.used) /\ LiveValue(ctl[1].value, proto.used)
         /\ ValueFits(ctl[1].at, val, proto.used)
         /\ Sound(proto) /\ NoReturn(proto)
         /\ ctl[1].at = "semi" => SemiOK(proto, Len(scope))
         /\ ctl[1].at # "semi" => Len(scope) <= proto.used
  <1>1. 1 \in 1..Len(ctl)
    BY DEF Core, Shape, Piece
  <1> QED BY <1>1 DEF Code, LiveStack, FrameLive

(* A step that begins a statement, or its declaration.                     *)
LEMMA Begins ==
  ASSUME Core, Code, status = "parsing", status' = status, scope' = scope, val' \in SingleValues,
         ctl[1].at \in StmtLabels, NEW at \in {"stmt", "local"},
         ctl' = <<Point(at)>> \o Tail(ctl), Typed(proto'), proto'.used = Len(scope),
         Few(proto) => Few(proto'), NoWrap(proto') => NoWrap(proto),
         NoWrap(proto) /\ NoWrap(proto') => Sound(proto') /\ NoReturn(proto')
  PROVE  Core' /\ Code'
  <1> DEFINE x == Point(at)
  <1>1. x \in TypedFrames /\ x.at = at /\ x.at \in StmtLabels /\ \A u : FrameLive(x, u)
    <2>1. /\ at \in Labels /\ at \in StmtLabels
          /\ at \notin {"key", "assign", "init", "args", "arg"}
      BY DEF Labels, StmtLabels
    <2> QED BY <2>1, PointType
  <1>2. Shape(ctl) /\ Typed(proto) /\ Few(proto')
    BY DEF Core
  <1> HIDE DEF x
  <1> DEFINE f == <<x>>
  <1>3. /\ Piece(f) /\ f[1] = x /\ f[Len(f)] = x
    BY <1>1, PutOne
  <1>4. ctl' = f \o Tail(ctl)
    BY DEF x
  <1> HIDE DEF f
  <1>5. Replaces(f[Len(f)], ctl[1])
    BY <1>1, <1>3 DEF Replaces
  <1>6. Shape(ctl') /\ ctl'[1] = x
    <2> DEFINE d == f \o Tail(ctl)
    <2>1. Shape(d) /\ d[1] = f[1]
      BY <1>2, <1>3, <1>5, Splice
    <2>2. ctl' = d
      BY <1>4
    <2> HIDE DEF d
    <2> QED BY <1>3, <2>1, <2>2
  <1>7. Core'
    BY <1>1, <1>2, <1>6 DEF Core, StatementsBalanced
  <1>8. LiveStack(ctl', proto'.used)
    <2>1. Len(ctl') = 1
      BY <1>1, <1>6, StmtAlone
    <2>2. \A k \in 1..Len(ctl') : ctl'[k] = x
      BY <1>6, <2>1
    <2> QED BY <1>1, <2>2 DEF LiveStack
  <1>9. ValueFits(ctl'[1].at, val', proto'.used)
    BY <1>1, <1>6 DEF ValueFits
  <1>10. Len(scope') <= proto'.used
    BY TopFrame
  <1>11. Code'
    BY <1>1, <1>6, <1>8, <1>9, <1>10 DEF Code
  <1> QED BY <1>7, <1>11

(* A step that throws.                                                     *)
LEMMA Fails ==
  ASSUME Core, Code, status = "parsing", status' \in Statuses \ {"parsing", "parsed"},
         UNCHANGED <<ctl, val, scope, proto>>
  PROVE  Core' /\ Code'
  BY DEF Core, Code, StatementsBalanced

(* A step of the same frame, one frame or several, that emits nothing.     *)
LEMMA GoesOne ==
  ASSUME Core, Code, status = "parsing", UNCHANGED <<val, scope, status>>,
         NEW x \in TypedFrames, Replaces(x, ctl[1]), ctl' = <<x>> \o Tail(ctl),
         x.at \notin {"stmt", "local", "semi"}, ctl[1].at # "semi",
         NEW c \in Nat, Extends(proto, proto', c),
         NoWrap(proto) /\ NoWrap(proto') =>
           FrameLive(x, proto'.used) /\ ValueFits(x.at, val, proto'.used)
  PROVE  Core' /\ Code'
  <1> DEFINE f == <<x>>
  <1>1. /\ Piece(f) /\ f[1] = x /\ f[Len(f)] = x
        /\ \A u : FrameLive(x, u) => LiveStack(f, u)
    BY PutOne
  <1>2. ctl' = f \o Tail(ctl)
    OBVIOUS
  <1> HIDE DEF f
  <1>3. val' \in SingleValues /\ val' = val
    BY DEF Core
  <1> QED BY <1>1, <1>2, <1>3, Goes

-----------------------------------------------------------------------------
(* The steps of a statement.                                               *)

IndInv == TextInv /\ Core /\ Code

(* chunk() at the end of the text: PopTemps has nothing to drop, by        *)
(* StatementsBalanced.                                                     *)
LEMMA StmtEofStep == ASSUME IndInv, StmtEof PROVE IndInv'
  <1>1. TextInv /\ Core /\ Code /\ status = "parsing" /\ ctl[1].at = "stmt"
    BY DEF IndInv, StmtEof, At
  <1>2. Typed(proto) /\ proto.used = Len(scope) /\ Len(scope) \in Int
    BY <1>1, TopFrame DEF Core, StatementsBalanced
  <1>3. proto' = EmitEnd(proto)
    BY <1>2 DEF StmtEof, PopTemps
  <1>4. TextInv'
    BY <1>1, TextStep DEF StmtEof
  <1>5. /\ Typed(proto') /\ proto'.used = proto.used
        /\ NoWrap(proto') => NoWrap(proto)
        /\ NoWrap(proto') /\ Sound(proto) => Sound(proto')
        /\ NoWrap(proto') /\ Sound(proto) /\ NoReturn(proto) => WellFormed(proto')
        /\ Few(proto) => Few(proto')
    BY <1>2, <1>3, EndFacts
  <1>6. status' = "parsed" /\ UNCHANGED <<ctl, val, scope>>
    BY DEF StmtEof
  <1>7. Core'
    BY <1>1, <1>2, <1>5, <1>6 DEF Core, StatementsBalanced, Statuses
  <1>8. Code'
    BY <1>1, <1>5, <1>6, TopLive DEF Code
  <1> QED BY <1>4, <1>7, <1>8 DEF IndInv

(* stmt() calls stmt_local().                                              *)
LEMMA StmtLocalStep == ASSUME IndInv, StmtLocal PROVE IndInv'
  <1>1. TextInv /\ Core /\ Code /\ status = "parsing" /\ ctl[1].at = "stmt" /\ ctl[1].at \in StmtLabels
    BY StmtLabelsFact DEF IndInv, StmtLocal, At
  <1>2. proto.used = Len(scope) /\ Typed(proto) /\ val \in SingleValues
    BY <1>1 DEF Core, StatementsBalanced
  <1>3. /\ ctl' = <<Point("local")>> \o Tail(ctl)
        /\ UNCHANGED <<val, scope, proto, status>>
    BY DEF StmtLocal, Goto
  <1>4. TextInv'
    BY <1>1, TextStep DEF StmtLocal
  <1>5. NoWrap(proto) => Sound(proto) /\ NoReturn(proto)
    BY <1>1, TopLive
  <1>6. Core' /\ Code'
    BY <1>1, <1>2, <1>3, <1>5, Begins
  <1> QED BY <1>4, <1>6 DEF IndInv

(* stmt() calls single_value() for what starts the statement.              *)
LEMMA StmtSymbolStep == ASSUME IndInv, StmtSymbol PROVE IndInv'
  <1> DEFINE f == <<Point("sv"), Point("target")>>
  <1>1. TextInv /\ Core /\ Code /\ status = "parsing" /\ ctl[1].at = "stmt" /\ ctl[1].at \in StmtLabels
    BY StmtLabelsFact DEF IndInv, StmtSymbol, At
  <1>2. Typed(proto) /\ val \in SingleValues
    BY <1>1 DEF Core
  <1>3. ctl' = f \o Tail(ctl) /\ UNCHANGED <<val, scope, proto, status>>
    BY DEF StmtSymbol, Goto
  <1>4. TextInv'
    BY <1>1, TextStep DEF StmtSymbol
  <1>5. /\ Point("sv") \in TypedFrames /\ Point("sv").at = "sv"
        /\ Point("target") \in TypedFrames /\ Point("target").at = "target"
        /\ \A u : FrameLive(Point("sv"), u) /\ FrameLive(Point("target"), u)
    BY PointType DEF Labels
  <1>6. "target" \in Below("sv") /\ "target" \in StmtLabels
    BY DEF Below, StmtLabels
  <1>7. /\ Piece(f) /\ f[1].at = "sv" /\ Replaces(f[Len(f)], ctl[1])
        /\ \A u : LiveStack(f, u)
    BY <1>1, <1>5, <1>6, PutTwo DEF Replaces
  <1>8. \A v, u : ValueFits("sv", v, u)
    BY DEF ValueFits
  <1> HIDE DEF f
  <1>9. Core' /\ Code'
    BY <1>1, <1>2, <1>3, <1>7, <1>8, ExtendsNone, Goes
  <1> QED BY <1>4, <1>9 DEF IndInv

(* stmt_local(): the slot of the declared variable is live.                *)
LEMMA StmtLocalNameStep == ASSUME IndInv, StmtLocalName PROVE IndInv'
  <1>1. TextInv /\ Core /\ Code /\ status = "parsing" /\ ctl[1].at = "local" /\ ctl[1].at \in StmtLabels
    BY StmtLabelsFact DEF IndInv, StmtLocalName, At
  <1>2. /\ proto.used = Len(scope) /\ Typed(proto) /\ val \in SingleValues
        /\ scope \in Seq(Values) /\ Len(scope) \in 0..Int16Max /\ Len(scope) \in Nat
        /\ Len(scope) # MaxVarNr => Len(scope) + 1 <= MaxVarNr
    BY <1>1, TopFrame DEF Core, StatementsBalanced
  <1>3. PICK t \in Peeked : t.kind = "sym" /\ (NewLocal(t) \/ OldLocal(t))
    BY DEF StmtLocalName
  <1>4. TextInv'
    BY <1>1, <1>3, TextStep DEF NewLocal, OldLocal
  <1>5. t.text \in Values
    BY <1>1, <1>3, TokenText
  <1>6. val' = val
    BY DEF StmtLocalName
  <1>7. ASSUME NEW i \in 0..Int16Max
        PROVE  LET x == Frame("init", "", Normal(i), 0) IN
               /\ x \in TypedFrames /\ x.at = "init" /\ x.at \in StmtLabels
               /\ \A u \in Int : i < u => FrameLive(x, u)
    <2>1. i \in Int16 /\ 0 \in Int16 /\ i >= 0
      BY Int16MaxFact DEF Int16
    <2>2. Normal(i) \in SingleValues /\ Normal(i).type = "NORMAL" /\ Normal(i).index = i
      BY <2>1, ValueTypes
    <2> DEFINE x == Frame("init", "", Normal(i), 0)
    <2>3. /\ "init" \in Labels /\ "init" \notin {"sum", "term", "unary"} /\ "" \in OperatorTokens
          /\ "init" \in StmtLabels
      BY DEF Labels, OperatorTokens, StmtLabels
    <2>4. x \in TypedFrames /\ x.at = "init" /\ x.value = Normal(i)
      BY <2>1, <2>2, <2>3 DEF Frame, Frames, TypedFrames
    <2> HIDE DEF x
    <2>5. ASSUME NEW u \in Int, i < u PROVE FrameLive(x, u)
      BY <2>1, <2>2, <2>4, <2>5 DEF FrameLive, LiveValue
    <2> QED BY <2>3, <2>4, <2>5 DEF x
  <1>8. \A v, u : ValueFits("init", v, u)
    BY DEF ValueFits
  <1>9. CASE OldLocal(t)
    <2> DEFINE i == SlotOf(t.text)
               x == Frame("init", "", Normal(i), 0)
    <2>1. i \in 0..(Len(scope) - 1)
      <3>1. (CHOOSE k \in 1..Len(scope) : scope[k] = t.text) \in 1..Len(scope)
        BY <1>9 DEF OldLocal, Declared
      <3> QED BY <1>2, <3>1 DEF SlotOf
    <2>2. ctl' = <<x>> \o Tail(ctl) /\ UNCHANGED <<scope, proto, status>>
      BY <1>9 DEF OldLocal, Goto
    <2>6. i \in 0..Int16Max
      <3> DEFINE n == Len(scope)
      <3>1. n \in 0..Int16Max /\ i \in 0..(n - 1)
        BY <1>2, <2>1
      <3> HIDE DEF i, n
      <3> QED BY <3>1, Int16MaxFact
    <2> HIDE DEF i
    <2>3. /\ x \in TypedFrames /\ x.at = "init" /\ x.at \in StmtLabels
          /\ \A u \in Int : i < u => FrameLive(x, u)
      BY <1>7, <2>6
    <2> HIDE DEF x
    <2>4. FrameLive(x, proto.used)
      BY <1>2, <2>1, <2>3
    <2>5. Replaces(x, ctl[1])
      BY <1>1, <2>3 DEF Replaces
    <2>7. Core' /\ Code'
      BY <1>1, <1>2, <1>6, <1>8, <2>2, <2>3, <2>4, <2>5, ExtendsNone, GoesOne
    <2> QED BY <1>4, <2>7 DEF IndInv
  <1>10. CASE NewLocal(t) /\ Len(scope) = MaxVarNr
    <2>1. status' = "PARSE" /\ UNCHANGED <<ctl, scope, proto>>
      BY <1>10 DEF NewLocal, ScopeFull
    <2>2. Core' /\ Code'
      BY <1>1, <1>6, <2>1, Fails DEF Statuses
    <2> QED BY <1>4, <2>2 DEF IndInv
  <1>11. CASE NewLocal(t) /\ Len(scope) # MaxVarNr
    <2> DEFINE i == Len(scope)
               x == Frame("init", "", Normal(i), 0)
               f == <<x>>
    <2>1. /\ scope' = Append(scope, t.text) /\ proto' = Emit(proto, Ins("LOAD_NIL"), 1)
          /\ ctl' = f \o Tail(ctl) /\ status' = status
      BY <1>2, <1>11 DEF NewLocal, ScopeFull, Goto
    <2>2. scope' \in Seq(Values) /\ Len(scope') = i + 1 /\ Len(scope') <= MaxVarNr
      <3>1. scope' \in Seq(Values) /\ Len(scope') = Len(scope) + 1
        <4>1. scope' = Append(scope, t.text) /\ scope \in Seq(Values)
          BY <1>2, <2>1
        <4> QED BY <1>5, <4>1, AppendProperties
      <3>2. Len(scope) + 1 <= MaxVarNr
        BY <1>2, <1>11
      <3> QED BY <3>1, <3>2
    <2>3. i \in 0..Int16Max
      BY <1>2
    <2> HIDE DEF i
    <2>4. /\ x \in TypedFrames /\ x.at = "init" /\ x.at \in StmtLabels
          /\ \A u \in Int : i < u => FrameLive(x, u)
      BY <1>7, <2>3
    <2> HIDE DEF x
    <2>5. /\ Piece(f) /\ f[1] = x /\ f[Len(f)] = x
          /\ \A u : FrameLive(x, u) => LiveStack(f, u)
      BY <2>4, PutOne
    <2> HIDE DEF f
    <2>6. Extends(proto, proto', 1)
      BY <1>2, <2>1, FreshExtends
    <2>7. Shape(ctl') /\ ctl'[1] = x /\ Len(ctl') = 1
      <3> DEFINE d == f \o Tail(ctl)
      <3>1. Shape(ctl) /\ Replaces(f[Len(f)], ctl[1])
        BY <1>1, <2>4, <2>5 DEF Core, Replaces
      <3>2. Shape(d) /\ d[1] = f[1]
        BY <2>5, <3>1, Splice
      <3>3. ctl' = d
        BY <2>1
      <3> HIDE DEF d
      <3> QED BY <2>4, <2>5, <3>2, <3>3, StmtAlone
    <2>8. Core'
      BY <1>1, <1>2, <1>6, <2>1, <2>2, <2>4, <2>6, <2>7 DEF Core, StatementsBalanced, Extends
    <2>9. ASSUME NoWrap(proto') PROVE Code'
      <3>1. NoWrap(proto) /\ proto'.used = i + 1 /\ proto'.used \in Int
        BY <1>2, <2>3, <2>6, <2>9 DEF Extends, i
      <3>2. Sound(proto') /\ NoReturn(proto')
        BY <1>1, <2>6, <2>9, <3>1, TopLive DEF Extends
      <3>3. LiveStack(ctl', proto'.used)
        <4>1. FrameLive(x, proto'.used)
          BY <2>3, <2>4, <3>1
        <4>2. \A k \in 1..Len(ctl') : ctl'[k] = x
          BY <2>7
        <4> QED BY <4>1, <4>2 DEF LiveStack
      <3>4. Len(scope') <= proto'.used
        BY <2>2, <2>3, <3>1
      <3> QED BY <1>1, <1>8, <2>1, <2>4, <2>7, <3>2, <3>3, <3>4 DEF Code
    <2>10. ~NoWrap(proto') => Code'
      BY DEF Code
    <2> QED BY <1>4, <2>8, <2>9, <2>10 DEF IndInv
  <1> QED BY <1>3, <1>9, <1>10, <1>11

(* A frame that keeps a value and a slot, and no operator.                 *)
LEMMA KeepType ==
  ASSUME NEW at \in Labels, NEW v \in SingleValues, NEW n \in Int16
  PROVE  Frame(at, "", v, n) \in TypedFrames
  <1>1. "" \in OperatorTokens
    BY DEF OperatorTokens
  <1> QED BY <1>1 DEF Frame, Frames, TypedFrames

(* A step to an expression, after which frame y goes on.                   *)
LEMMA GoesExpr ==
  ASSUME Core, Code, status = "parsing", UNCHANGED <<val, scope, status>>,
         NEW y \in TypedFrames, y.at \in Below("sum"), Replaces(y, ctl[1]),
         ctl' = (Expr \o <<y>>) \o Tail(ctl), ctl[1].at # "semi",
         NEW c \in Nat, Extends(proto, proto', c),
         NoWrap(proto) /\ NoWrap(proto') => FrameLive(y, proto'.used)
  PROVE  Core' /\ Code'
  <1> DEFINE f == Expr \o <<y>>
  <1>1. /\ Piece(f) /\ f[1].at = "factor" /\ f[Len(f)] = y
        /\ \A u : FrameLive(y, u) => LiveStack(f, u)
    BY PutExpr
  <1>2. ctl' = f \o Tail(ctl)
    OBVIOUS
  <1> HIDE DEF f
  <1>3. val' \in SingleValues /\ val' = val
    BY DEF Core
  <1>4. \A v, u : ValueFits("factor", v, u)
    BY DEF ValueFits
  <1>5. NoWrap(proto) /\ NoWrap(proto') =>
          LiveStack(f, proto'.used) /\ ValueFits(f[1].at, val', proto'.used)
    BY <1>1, <1>4
  <1>6. Replaces(f[Len(f)], ctl[1]) /\ f[1].at \notin {"stmt", "local", "semi"}
    BY <1>1
  <1> QED BY <1>1, <1>2, <1>3, <1>5, <1>6, Goes

(* assignment() of the value left.                                         *)
LEMMA AssignmentStep ==
  ASSUME Core, Code, status = "parsing", UNCHANGED <<val, scope, proto, status>>,
         ctl[1].at \in StmtLabels, ctl[1].at # "semi",
         NEW left \in SingleValues, Assignment(left),
         NoWrap(proto) => LiveValue(left, proto.used) /\ left.type # "NONE"
  PROVE  Core' /\ Code'
  <1> DEFINE y == Frame("assign", "", left, MaxUsedSlot(proto))
  <1>1. Typed(proto) /\ MaxUsedSlot(proto) \in Int16 /\ proto.used \in Int
        /\ (NoWrap(proto) => MaxUsedSlot(proto) = proto.used - 1)
    BY TopFrame, TopSlot
  <1>2. /\ y \in TypedFrames /\ y.at = "assign" /\ y.op = "" /\ y.value = left
        /\ y.n = MaxUsedSlot(proto)
    <2>1. "assign" \in Labels
      BY DEF Labels
    <2>2. y \in TypedFrames
      BY <1>1, <2>1, KeepType
    <2> QED BY <2>2 DEF Frame
  <1>3. ctl' = (Expr \o <<y>>) \o Tail(ctl)
    BY DEF Assignment, Goto
  <1> HIDE DEF y
  <1>4. y.at \in Below("sum") /\ y.at \in StmtLabels
    BY <1>2 DEF Below, StmtLabels
  <1>5. NoWrap(proto) => FrameLive(y, proto.used)
    <2> SUFFICES ASSUME NoWrap(proto) PROVE FrameLive(y, proto.used)
      OBVIOUS
    <2>1. left.type = "TABLE_SLOT" => proto.used >= 1
      BY DEF LiveValue
    <2>2. left.type = "TABLE_SLOT" => y.n \in 0..(proto.used - 1)
      <3>1. y.n = proto.used - 1 /\ proto.used \in Int
        BY <1>1, <1>2
      <3> QED BY <2>1, <3>1
    <2> QED BY <1>2, <2>2 DEF FrameLive
  <1>6. Replaces(y, ctl[1])
    BY <1>4 DEF Replaces
  <1> QED BY <1>1, <1>2, <1>3, <1>4, <1>5, <1>6, ExtendsNone, GoesExpr

(* A step to the end of a statement that emits nothing.                    *)
LEMMA EndsPlain ==
  ASSUME Core, Code, status = "parsing", UNCHANGED <<val, scope, proto, status>>,
         ctl[1].at \in StmtLabels, ctl[1].at # "semi", ctl' = <<Point("semi")>> \o Tail(ctl)
  PROVE  Core' /\ Code'
  <1>1. Typed(proto') /\ val' \in SingleValues /\ (Few(proto) => Few(proto'))
    BY TopFrame
  <1>2. NoWrap(proto) => Sound(proto) /\ NoReturn(proto) /\ SemiOK(proto, Len(scope))
    BY TopLive DEF SemiOK
  <1> QED BY <1>1, <1>2, Ends

(* stmt_local() after the name: assignment() or the end of the statement.  *)
LEMMA MaybeInitStep == ASSUME IndInv, MaybeInit PROVE IndInv'
  <1>1. /\ TextInv /\ Core /\ Code /\ status = "parsing" /\ ctl[1].at = "init"
        /\ ctl[1].at \in StmtLabels /\ ctl[1].at # "semi"
    BY DEF IndInv, MaybeInit, At, StmtLabels
  <1>2. UNCHANGED <<val, scope, proto, status>>
    BY DEF MaybeInit
  <1>3. PICK t \in Peeked :
          \/ Take(t) /\ Assignment(ctl[1].value)
          \/ Look(t) /\ Goto(<<Point("semi")>>)
    BY DEF MaybeInit
  <1>4. TextInv'
    BY <1>1, <1>3, TextStep
  <1>5. /\ ctl[1].value \in SingleValues
        /\ NoWrap(proto) => LiveValue(ctl[1].value, proto.used) /\ ctl[1].value.type # "NONE"
    BY <1>1, TopFrame, TopLive DEF FrameLive
  <1>6. CASE Assignment(ctl[1].value)
    <2>1. Core' /\ Code'
      BY <1>1, <1>2, <1>5, <1>6, AssignmentStep
    <2> QED BY <1>4, <2>1 DEF IndInv
  <1>7. CASE Goto(<<Point("semi")>>)
    <2>1. ctl' = <<Point("semi")>> \o Tail(ctl)
      BY <1>7 DEF Goto
    <2>2. Core' /\ Code'
      BY <1>1, <1>2, <2>1, EndsPlain
    <2> QED BY <1>4, <2>2 DEF IndInv
  <1> QED BY <1>3, <1>6, <1>7

(* The target of a statement: assigned to, called or left alone.           *)
LEMMA TargetStep == ASSUME IndInv, Target PROVE IndInv'
  <1>1. /\ TextInv /\ Core /\ Code /\ status = "parsing" /\ ctl[1].at = "target"
        /\ ctl[1].at \in StmtLabels /\ ctl[1].at # "semi"
    BY DEF IndInv, Target, At, StmtLabels
  <1>2. UNCHANGED <<val, scope, status>>
    BY DEF Target
  <1> DEFINE y == Frame("args", "", Normal(LoadedIndex(proto, val)), 0)
  <1>3. PICK t \in Peeked :
          \/ Take(t) /\ Assignment(val) /\ UNCHANGED proto
          \/ Take(t) /\ proto' = EmitLoad(proto, val) /\ Goto(<<y>>)
          \/ Look(t) /\ Goto(<<Point("semi")>>) /\ UNCHANGED proto
    BY DEF Target
  <1>4. TextInv'
    BY <1>1, <1>3, TextStep
  <1>5. /\ val \in SingleValues /\ Typed(proto) /\ 0 \in Int16
        /\ NoWrap(proto) => LiveValue(val, proto.used) /\ val.type # "NONE"
    BY <1>1, TopFrame, TopLive, Int16MaxFact DEF ValueFits, Int16
  <1>6. CASE Assignment(val) /\ UNCHANGED proto
    <2>1. Core' /\ Code'
      BY <1>1, <1>2, <1>5, <1>6, AssignmentStep
    <2> QED BY <1>4, <2>1 DEF IndInv
  <1>7. CASE proto' = EmitLoad(proto, val) /\ Goto(<<y>>)
    <2>1. /\ Extends(proto, proto', 0) /\ LoadedIndex(proto, val) \in Int16
          /\ NoWrap(proto) => LoadedIndex(proto, val) \in 0..(proto.used - 1)
      BY <1>5, <1>7, LoadExtends
    <2>2. /\ Normal(LoadedIndex(proto, val)) \in SingleValues
          /\ Normal(LoadedIndex(proto, val)).type = "NORMAL"
          /\ Normal(LoadedIndex(proto, val)).index = LoadedIndex(proto, val)
      BY <2>1, ValueTypes
    <2>3. y \in TypedFrames /\ y.at = "args" /\ y.op = "" /\ y.value = Normal(LoadedIndex(proto, val))
      <3>1. "args" \in Labels
        BY DEF Labels
      <3>2. y \in TypedFrames
        BY <1>5, <2>2, <3>1, KeepType
      <3> QED BY <3>2 DEF Frame
    <2>4. ctl' = <<y>> \o Tail(ctl)
      BY <1>7 DEF Goto
    <2> HIDE DEF y
    <2>5. NoWrap(proto) /\ NoWrap(proto') => FrameLive(y, proto'.used)
      <3> SUFFICES ASSUME NoWrap(proto), NoWrap(proto') PROVE FrameLive(y, proto'.used)
        OBVIOUS
      <3>1. proto'.used = proto.used
        BY <1>5, <2>1, TopSlot DEF Extends
      <3> QED BY <2>1, <2>2, <2>3, <3>1 DEF FrameLive, LiveValue
    <2>6. Replaces(y, ctl[1])
      BY <1>1, <2>3 DEF Replaces, StmtLabels
    <2>7. \A v, u : ValueFits("args", v, u)
      BY DEF ValueFits
    <2>8. Core' /\ Code'
      BY <1>1, <1>2, <2>1, <2>3, <2>4, <2>5, <2>6, <2>7, GoesOne
    <2> QED BY <1>4, <2>8 DEF IndInv
  <1>8. CASE Goto(<<Point("semi")>>) /\ UNCHANGED proto
    <2>1. ctl' = <<Point("semi")>> \o Tail(ctl)
      BY <1>8 DEF Goto
    <2>2. Core' /\ Code'
      BY <1>1, <1>2, <1>8, <2>1, EndsPlain
    <2> QED BY <1>4, <2>2 DEF IndInv
  <1> QED BY <1>3, <1>6, <1>7, <1>8

(* assignment() stores the value of its expression.                        *)
LEMMA AssignEndStep == ASSUME IndInv, AssignEnd PROVE IndInv'
  <1>1. /\ TextInv /\ Core /\ Code /\ status = "parsing" /\ ctl[1].at = "assign"
        /\ ctl[1].at \in StmtLabels /\ ctl[1].at # "semi"
    BY DEF IndInv, AssignEnd, At, StmtLabels
  <1>2. /\ UNCHANGED <<val, scope, status>>
        /\ ctl' = <<Point("semi")>> \o Tail(ctl)
        /\ proto' = EmitStore(proto, ctl[1].value, ctl[1].n, val.index)
    BY DEF AssignEnd, Goto
  <1>3. TextInv'
    BY <1>1 DEF AssignEnd, SameText, TextInv
  <1>4. /\ ctl[1].value \in SingleValues /\ ctl[1].n \in Int16
        /\ val \in SingleValues /\ val.index \in Int16 /\ Typed(proto) /\ Len(scope) \in Int
    BY <1>1, TopFrame
  <1>5. ASSUME NoWrap(proto)
        PROVE  /\ LiveValue(ctl[1].value, proto.used) /\ ctl[1].value.type # "NONE"
               /\ ctl[1].value.type = "TABLE_SLOT" => ctl[1].n \in 0..(proto.used - 1)
               /\ val.index \in 0..(proto.used - 1)
               /\ Sound(proto) /\ NoReturn(proto) /\ Len(scope) <= proto.used
    BY <1>1, <1>5, TopLive DEF FrameLive, ValueFits, LiveValue
  <1>6. PICK c \in {0, 1} : Extends(proto, proto', c)
    BY <1>2, <1>4, <1>5, StoreExtends
  <1>7. NoWrap(proto') => NoWrap(proto) /\ proto.used <= proto'.used
    BY <1>4, <1>6, TopSlot DEF Extends
  <1>8. NoWrap(proto) /\ NoWrap(proto') => Sound(proto') /\ NoReturn(proto') /\ SemiOK(proto', Len(scope))
    <2> SUFFICES ASSUME NoWrap(proto), NoWrap(proto')
                 PROVE  Sound(proto') /\ NoReturn(proto') /\ SemiOK(proto', Len(scope))
      OBVIOUS
    <2>1. Typed(proto') /\ proto'.used \in Int /\ proto.used \in Int
      BY <1>4, <1>6, TopSlot DEF Extends
    <2>2. Len(scope) <= proto'.used
      BY <1>4, <1>5, <1>7, <2>1
    <2> QED BY <1>5, <1>6, <2>2 DEF Extends, SemiOK
  <1>9. Typed(proto') /\ val' \in SingleValues /\ (Few(proto) => Few(proto'))
    BY <1>2, <1>4, <1>6 DEF Extends
  <1>10. Core' /\ Code'
    BY <1>1, <1>2, <1>7, <1>8, <1>9, Ends
  <1> QED BY <1>3, <1>10 DEF IndInv

(* The end of func_call().                                                 *)
LEMMA CallStep ==
  ASSUME Core, Code, status = "parsing", UNCHANGED <<val, scope, status>>,
         ctl[1].at \in {"args", "arg"}, ctl' = <<Point("semi")>> \o Tail(ctl),
         NEW i \in Int16, NEW args \in {<<>>, <<i>>},
         NoWrap(proto) => i \in 0..(proto.used - 1),
         proto' = EmitCall(proto, ctl[1].value.index, args)
  PROVE  Core' /\ Code'
  <1>1. ctl[1].at \in StmtLabels /\ ctl[1].at # "semi"
    BY DEF StmtLabels
  <1>2. /\ Typed(proto) /\ ctl[1].value.index \in Int16 /\ val' \in SingleValues
        /\ Len(scope) \in Int
    BY TopFrame
  <1>3. NoWrap(proto) => /\ ctl[1].value.index \in 0..(proto.used - 1)
                         /\ Sound(proto) /\ NoReturn(proto) /\ Len(scope) <= proto.used
    BY <1>1, TopLive DEF FrameLive, LiveValue
  <1>4. /\ Typed(proto')
        /\ NoWrap(proto') => NoWrap(proto)
        /\ NoWrap(proto') /\ Sound(proto) => Sound(proto')
        /\ NoReturn(proto) => NoReturn(proto')
        /\ NoWrap(proto') => \A m \in Int : m <= proto.used => SemiOK(proto', m)
        /\ Few(proto) => Few(proto')
    BY <1>2, <1>3, CallFacts
  <1> QED BY <1>1, <1>2, <1>3, <1>4, Ends

(* func_call() with no argument, or before its first.                      *)
LEMMA ArgsStartStep == ASSUME IndInv, ArgsStart PROVE IndInv'
  <1> DEFINE y == Frame("arg", "", ctl[1].value, 0)
  <1>1. /\ TextInv /\ Core /\ Code /\ status = "parsing" /\ ctl[1].at = "args"
        /\ ctl[1].at \in StmtLabels /\ ctl[1].at # "semi" /\ ctl[1].at \in {"args", "arg"}
    BY DEF IndInv, ArgsStart, At, StmtLabels
  <1>2. UNCHANGED <<val, scope, status>>
    BY DEF ArgsStart
  <1>3. PICK t \in Peeked :
          \/ /\ Take(t) /\ proto' = EmitCall(proto, ctl[1].value.index, <<>>)
             /\ Goto(<<Point("semi")>>)
          \/ Look(t) /\ Goto(Expr \o <<y>>) /\ UNCHANGED proto
    BY DEF ArgsStart
  <1>4. TextInv'
    BY <1>1, <1>3, TextStep
  <1>5. /\ Typed(proto) /\ 0 \in Int16 /\ ctl[1].value \in SingleValues
        /\ ctl[1].value.index \in Int16
        /\ NoWrap(proto) => /\ LiveValue(ctl[1].value, proto.used)
                            /\ ctl[1].value.type = "NORMAL"
                            /\ ctl[1].value.index \in 0..(proto.used - 1)
    BY <1>1, TopFrame, TopLive, Int16MaxFact DEF FrameLive, LiveValue, Int16
  <1>6. CASE proto' = EmitCall(proto, ctl[1].value.index, <<>>) /\ Goto(<<Point("semi")>>)
    <2>1. ctl' = <<Point("semi")>> \o Tail(ctl)
      BY <1>6 DEF Goto
    <2> DEFINE args == <<>>
               i == ctl[1].value.index
    <2>2. proto' = EmitCall(proto, ctl[1].value.index, args) /\ args \in {<<>>, <<i>>}
      BY <1>6
    <2>3. i \in Int16 /\ (NoWrap(proto) => i \in 0..(proto.used - 1))
      BY <1>5
    <2> HIDE DEF args, i
    <2>4. Core' /\ Code'
      BY <1>1, <1>2, <2>1, <2>2, <2>3, CallStep
    <2> QED BY <1>4, <2>4 DEF IndInv
  <1>7. CASE Goto(Expr \o <<y>>) /\ UNCHANGED proto
    <2>1. ctl' = (Expr \o <<y>>) \o Tail(ctl)
      BY <1>7 DEF Goto
    <2>2. y \in TypedFrames /\ y.at = "arg" /\ y.op = "" /\ y.value = ctl[1].value
      <3>1. "arg" \in Labels
        BY DEF Labels
      <3>2. y \in TypedFrames
        BY <1>5, <3>1, KeepType
      <3> QED BY <3>2 DEF Frame
    <2> HIDE DEF y
    <2>3. y.at \in Below("sum") /\ Replaces(y, ctl[1])
      BY <1>1, <2>2 DEF Below, Replaces, StmtLabels
    <2>4. NoWrap(proto) => FrameLive(y, proto.used)
      BY <1>5, <2>2 DEF FrameLive
    <2>5. Core' /\ Code'
      BY <1>1, <1>2, <1>5, <1>7, <2>1, <2>2, <2>3, <2>4, ExtendsNone, GoesExpr
    <2> QED BY <1>4, <2>5 DEF IndInv
  <1> QED BY <1>3, <1>6, <1>7

(* func_call() with an argument.                                           *)
LEMMA ArgEndStep == ASSUME IndInv, ArgEnd PROVE IndInv'
  <1>1. /\ TextInv /\ Core /\ Code /\ status = "parsing" /\ ctl[1].at = "arg"
        /\ ctl[1].at \in {"args", "arg"}
    BY DEF IndInv, ArgEnd, At
  <1>2. UNCHANGED <<val, scope, status>>
    BY DEF ArgEnd
  <1> DEFINE i == val.index
             args == <<i>>
  <1>3. PICK t \in Peeked :
          /\ Take(t) /\ proto' = EmitCall(proto, ctl[1].value.index, args)
          /\ Goto(<<Point("semi")>>)
    BY DEF ArgEnd
  <1>4. TextInv'
    BY <1>1, <1>3, TextStep
  <1>5. ctl' = <<Point("semi")>> \o Tail(ctl)
    BY <1>3 DEF Goto
  <1>6. i \in Int16 /\ (NoWrap(proto) => i \in 0..(proto.used - 1)) /\ args \in {<<>>, <<i>>}
    BY <1>1, TopFrame, TopLive DEF ValueFits, LiveValue
  <1> HIDE DEF i, args
  <1>7. Core' /\ Code'
    BY <1>1, <1>2, <1>3, <1>5, <1>6, CallStep DEF args
  <1> QED BY <1>4, <1>7 DEF IndInv

(* The end of stmt() gives back the temporaries, or takes back what a call *)
(* took.                                                                   *)
LEMMA StmtEndStep == ASSUME IndInv, StmtEnd PROVE IndInv'
  <1>1. /\ TextInv /\ Core /\ Code /\ status = "parsing" /\ ctl[1].at = "semi"
        /\ ctl[1].at \in StmtLabels
    BY DEF IndInv, StmtEnd, At, StmtLabels
  <1>2. /\ UNCHANGED <<val, scope, status>> /\ proto' = PopTemps(proto, Len(scope))
        /\ ctl' = <<Point("stmt")>> \o Tail(ctl)
    BY DEF StmtEnd, Goto
  <1>3. TextInv'
    BY <1>1, TextStep DEF StmtEnd
  <1>4. Typed(proto) /\ Len(scope) \in 0..MaxVarNr /\ val' \in SingleValues
    BY <1>1, <1>2, TopFrame
  <1>5. NoWrap(proto) => Sound(proto) /\ NoReturn(proto) /\ SemiOK(proto, Len(scope))
    BY <1>1, TopLive
  <1>6. /\ Typed(proto') /\ proto'.used = Len(scope)
        /\ NoWrap(proto') => NoWrap(proto)
        /\ NoWrap(proto') /\ Sound(proto) /\ SemiOK(proto, Len(scope)) => Sound(proto')
        /\ NoReturn(proto) => NoReturn(proto')
        /\ Few(proto) /\ (NoWrap(proto) => SemiOK(proto, Len(scope))) => Few(proto')
    BY <1>2, <1>4, PopFacts
  <1>7. Core' /\ Code'
    BY <1>1, <1>2, <1>4, <1>5, <1>6, Begins
  <1> QED BY <1>3, <1>7 DEF IndInv

-----------------------------------------------------------------------------
(* The steps of an expression.                                             *)

(* A live slot may be left in val for any caller.                          *)
LEMMA NormalFits ==
  ASSUME NEW v, NEW u, v.type = "NORMAL", v.index \in 0..(u - 1)
  PROVE  LiveValue(v, u) /\ \A at : ValueFits(at, v, u)
  BY DEF LiveValue, ValueFits

(* A value in the top slot.                                                *)
LEMMA NormalTop ==
  ASSUME NEW p, Typed(p)
  PROVE  LET v == Normal(MaxUsedSlot(p)) IN
         /\ v \in SingleValues /\ v.type = "NORMAL"
         /\ NoWrap(p) /\ p.used >= 1 => v.index \in 0..(p.used - 1)
  <1> DEFINE i == MaxUsedSlot(p)
  <1>1. i \in Int16 /\ p.used \in Int /\ (NoWrap(p) => i = p.used - 1)
    BY TopSlot
  <1>2. NoWrap(p) /\ p.used >= 1 => i \in 0..(p.used - 1)
    <2> HIDE DEF i
    <2> QED BY <1>1
  <1>3. Normal(i) \in SingleValues /\ Normal(i).type = "NORMAL" /\ Normal(i).index = i
    BY <1>1, ValueTypes
  <1> QED BY <1>2, <1>3

(* The loops of expr() and add_or_sub_elem().                              *)
LEMMA BinaryLoopStep == ASSUME IndInv, NEW level \in {"sum", "term"}, BinaryLoop(level) PROVE IndInv'
  <1> DEFINE p == EmitBinary(proto, ctl[1], val)
             first == IF ctl[1].op = "" THEN val ELSE Normal(MaxUsedSlot(p))
             c == IF ctl[1].op = "" THEN 0 ELSE 1
  <1>1. /\ TextInv /\ Core /\ Code /\ status = "parsing" /\ ctl[1].at = level
        /\ ctl[1].at \in {"sum", "term"} /\ ctl[1].at \in Labels \ StmtLabels /\ ctl[1].at # "semi"
    BY DEF IndInv, BinaryLoop, At, Labels, StmtLabels
  <1>2. /\ ctl[1] \in TypedFrames /\ val \in SingleValues /\ Typed(proto) /\ 0 \in Int16
        /\ NoWrap(proto) => /\ FrameLive(ctl[1], proto.used)
                            /\ val.type = "NORMAL" /\ val.index \in 0..(proto.used - 1)
    BY <1>1, TopFrame, TopLive, Int16MaxFact DEF ValueFits, LiveValue, Int16
  <1>3. proto' = p /\ UNCHANGED <<scope, status>>
    BY DEF BinaryLoop
  <1>4. PICK t \in Peeked :
          \/ /\ t.kind \in OperatorsOf(level) /\ Take(t)
             /\ Goto(OperandOf(level) \o <<Frame(level, t.kind, first, 0)>>) /\ UNCHANGED val
          \/ Look(t) /\ Return(first)
    BY DEF BinaryLoop
  <1>5. TextInv'
    BY <1>1, <1>4, TextStep
  <1>6. /\ ctl[1].op = "" => p = proto
        /\ ctl[1].op # "" => Extends(proto, p, 1)
    BY <1>1, <1>2, BinaryExtends
  <1> HIDE DEF p
  <1>7. Extends(proto, p, c) /\ c \in Nat /\ Typed(p)
    <2>1. Extends(proto, p, c)
      BY <1>2, <1>6, ExtendsNone
    <2> QED BY <2>1 DEF Extends
  <1>8. /\ first \in SingleValues
        /\ NoWrap(proto) /\ NoWrap(p) => first.type = "NORMAL" /\ first.index \in 0..(p.used - 1)
    <2>1. CASE ctl[1].op = ""
      BY <1>2, <1>6, <2>1
    <2>2. CASE ctl[1].op # ""
      <3>1. proto.used \in Int /\ p.used \in Int
        BY <1>2, <1>7, TopSlot
      <3>2. NoWrap(proto) /\ NoWrap(p) => p.used >= 1
        <4> SUFFICES ASSUME NoWrap(proto), NoWrap(p) PROVE p.used >= 1
          OBVIOUS
        <4>1. val.index \in 0..(proto.used - 1)
          BY <1>2
        <4>2. p.used = proto.used + 1
          BY <1>6, <2>2 DEF Extends
        <4> QED BY <3>1, <4>1, <4>2
      <3> QED BY <1>7, <2>2, <3>2, NormalTop
    <2> QED BY <2>1, <2>2
  <1>9. NoWrap(proto) /\ NoWrap(p) => LiveValue(first, p.used) /\ \A at : ValueFits(at, first, p.used)
    BY <1>8, NormalFits
  <1> HIDE DEF first, c
  <1>10. ASSUME t.kind \in OperatorsOf(level),
                Goto(OperandOf(level) \o <<Frame(level, t.kind, first, 0)>>), UNCHANGED val
         PROVE  Core' /\ Code'
    <2> DEFINE y == Frame(level, t.kind, first, 0)
               f == OperandOf(level) \o <<y>>
    <2>1. /\ t.kind \in OperatorTokens /\ t.kind \in {"+", "-", "*", "/"}
          /\ t.kind \in {""} \cup DOMAIN OpcodeOf
      BY <1>10 DEF OperatorsOf, OperatorTokens, OpcodeOf
    <2>2. y \in TypedFrames
      <3>1. level \in Labels /\ level # "unary"
        BY DEF Labels
      <3> QED BY <1>2, <1>8, <2>1, <3>1 DEF Frame, Frames, TypedFrames
    <2>3. y.at = level /\ y.value = first
      BY DEF Frame
    <2>4. ctl' = f \o Tail(ctl)
      BY <1>10 DEF Goto
    <2> HIDE DEF y
    <2>5. /\ Piece(f) /\ f[1].at = "factor" /\ f[Len(f)] = y
          /\ \A u : FrameLive(y, u) => LiveStack(f, u)
      BY <2>2, <2>3, PutOperand
    <2> HIDE DEF f
    <2>6. y.at \notin {"key", "assign"}
      BY <2>3
    <2>7. NoWrap(proto) /\ NoWrap(p) => FrameLive(y, p.used)
      BY <1>8, <1>9, <2>3, <2>6 DEF FrameLive
    <2>8. Replaces(f[Len(f)], ctl[1])
      BY <1>1, <2>3, <2>5 DEF Replaces
    <2>9. \A v, u : ValueFits("factor", v, u)
      BY DEF ValueFits
    <2>10. NoWrap(proto) /\ NoWrap(proto') =>
             LiveStack(f, proto'.used) /\ ValueFits(f[1].at, val', proto'.used)
      BY <1>3, <2>5, <2>7, <2>9
    <2>11. val' \in SingleValues /\ f[1].at \notin {"stmt", "local", "semi"}
      BY <1>2, <1>10, <2>5
    <2> QED BY <1>1, <1>3, <1>7, <2>4, <2>5, <2>8, <2>10, <2>11, Goes
  <1>11. ASSUME Return(first) PROVE Core' /\ Code'
    <2>1. val' = first /\ ctl' = Tail(ctl)
      BY <1>11 DEF Return
    <2>2. NoWrap(proto) /\ NoWrap(proto') =>
            \A at \in Below(ctl[1].at) : ValueFits(at, val', proto'.used)
      BY <1>3, <1>9, <2>1
    <2> QED BY <1>1, <1>3, <1>7, <1>8, <2>1, <2>2, Returns
  <1> QED BY <1>4, <1>5, <1>10, <1>11 DEF IndInv

(* A step to a point of an operand, with what to do after it.              *)
LEMMA GoesTwo ==
  ASSUME Core, Code, status = "parsing", UNCHANGED <<val, scope, proto, status>>,
         NEW x \in TypedFrames, NEW y \in TypedFrames, y.at \in Below(x.at), Replaces(y, ctl[1]),
         ctl' = <<x, y>> \o Tail(ctl), ctl[1].at # "semi",
         x.at \notin {"stmt", "local", "semi"}, \A v, u : ValueFits(x.at, v, u),
         \A u : FrameLive(x, u) /\ FrameLive(y, u)
  PROVE  Core' /\ Code'
  <1> DEFINE f == <<x, y>>
  <1>1. Piece(f) /\ f[1] = x /\ f[Len(f)] = y /\ \A u : LiveStack(f, u)
    BY PutTwo
  <1>2. ctl' = f \o Tail(ctl)
    OBVIOUS
  <1> HIDE DEF f
  <1>3. val' \in SingleValues /\ Typed(proto)
    BY DEF Core
  <1> QED BY <1>1, <1>2, <1>3, ExtendsNone, Goes

(* mul_or_div_elem() calls operand().                                      *)
LEMMA FactorStep == ASSUME IndInv, Factor PROVE IndInv'
  <1> DEFINE x == Point("operand")
  <1>1. /\ TextInv /\ Core /\ Code /\ status = "parsing" /\ ctl[1].at = "factor"
        /\ ctl[1].at \notin StmtLabels /\ ctl[1].at # "semi"
    BY DEF IndInv, Factor, At, StmtLabels
  <1>2. UNCHANGED <<val, scope, proto, status>>
    BY DEF Factor
  <1>3. PICK t \in Peeked :
          \/ t.kind \in {"#", "-"} /\ Take(t) /\ Goto(<<x, Frame("unary", t.kind, NoValue, 0)>>)
          \/ Look(t) /\ Goto(<<x, Point("unary")>>)
    BY DEF Factor
  <1>4. TextInv'
    BY <1>1, <1>3, TextStep
  <1>5. /\ x \in TypedFrames /\ x.at = "operand" /\ \A u : FrameLive(x, u)
        /\ Point("unary") \in TypedFrames /\ Point("unary").at = "unary"
        /\ \A u : FrameLive(Point("unary"), u)
        /\ NoValue = Point("unary").value /\ NoValue.type = "NONE"
    BY PointType DEF Labels
  <1>6. \E y \in TypedFrames : /\ y.at = "unary" /\ ctl' = <<x, y>> \o Tail(ctl)
                               /\ \A u : FrameLive(y, u)
    <2>1. CASE Goto(<<x, Point("unary")>>)
      BY <1>5, <2>1 DEF Goto
    <2>2. CASE t.kind \in {"#", "-"} /\ Goto(<<x, Frame("unary", t.kind, NoValue, 0)>>)
      <3> DEFINE y == Frame("unary", t.kind, NoValue, 0)
      <3>1. ctl' = <<x, y>> \o Tail(ctl)
        BY <2>2 DEF Goto
      <3>2. NoValue \in SingleValues /\ 0 \in Int16
        BY Int16MaxFact DEF NoValue, SingleValue, SingleValues, Int16
      <3>3. t.kind \in OperatorTokens /\ t.kind \in {""} \cup DOMAIN UnaryOp /\ "unary" \in Labels
        BY <2>2 DEF OperatorTokens, UnaryOp, Labels
      <3>4. y \in TypedFrames
        BY <3>2, <3>3 DEF Frame, Frames, TypedFrames
      <3>5. y.at = "unary" /\ y.value = NoValue
        BY DEF Frame
      <3> HIDE DEF y
      <3>6. \A u : FrameLive(y, u)
        BY <1>5, <3>5 DEF FrameLive, LiveValue
      <3> QED BY <3>1, <3>4, <3>5, <3>6
    <2> QED BY <1>3, <2>1, <2>2
  <1>7. PICK y \in TypedFrames : /\ y.at = "unary" /\ ctl' = <<x, y>> \o Tail(ctl)
                                 /\ \A u : FrameLive(y, u)
    BY <1>6
  <1> HIDE DEF x
  <1>8. y.at \in Below(x.at) /\ Replaces(y, ctl[1])
    BY <1>1, <1>5, <1>7 DEF Below, Replaces, StmtLabels
  <1>9. \A v, u : ValueFits(x.at, v, u)
    BY <1>5 DEF ValueFits
  <1>10. Core' /\ Code'
    BY <1>1, <1>2, <1>5, <1>7, <1>8, <1>9, GoesTwo
  <1> QED BY <1>4, <1>10 DEF IndInv

(* operand() calls expr() or single_value().                               *)
LEMMA OperandStep == ASSUME IndInv, Operand PROVE IndInv'
  <1>1. /\ TextInv /\ Core /\ Code /\ status = "parsing" /\ ctl[1].at = "operand"
        /\ ctl[1].at \notin StmtLabels /\ ctl[1].at # "semi"
    BY DEF IndInv, Operand, At, StmtLabels
  <1>2. UNCHANGED <<val, scope, proto, status>>
    BY DEF Operand
  <1>3. PICK t \in Peeked : \/ Take(t) /\ Goto(Expr \o <<Point("paren")>>)
                            \/ Look(t) /\ Goto(<<Point("sv")>>)
    BY DEF Operand
  <1>4. TextInv'
    BY <1>1, <1>3, TextStep
  <1>5. Typed(proto) /\ Extends(proto, proto', 0) /\ 0 \in Nat
    BY <1>1, <1>2, TopFrame, ExtendsNone
  <1>6. ASSUME Goto(Expr \o <<Point("paren")>>) PROVE Core' /\ Code'
    <2> DEFINE y == Point("paren")
    <2>1. y \in TypedFrames /\ y.at = "paren" /\ \A u : FrameLive(y, u)
      BY PointType DEF Labels
    <2>2. ctl' = (Expr \o <<y>>) \o Tail(ctl)
      BY <1>6 DEF Goto
    <2> HIDE DEF y
    <2>3. y.at \in Below("sum") /\ Replaces(y, ctl[1])
      BY <1>1, <2>1 DEF Below, Replaces, StmtLabels
    <2> QED BY <1>1, <1>2, <1>5, <2>1, <2>2, <2>3, GoesExpr
  <1>7. ASSUME Goto(<<Point("sv")>>) PROVE Core' /\ Code'
    <2> DEFINE x == Point("sv")
    <2>1. x \in TypedFrames /\ x.at = "sv" /\ \A u : FrameLive(x, u)
      BY PointType DEF Labels
    <2>2. ctl' = <<x>> \o Tail(ctl)
      BY <1>7 DEF Goto
    <2> HIDE DEF x
    <2>3. Replaces(x, ctl[1])
      BY <1>1, <2>1 DEF Below, Replaces, StmtLabels
    <2>4. \A v, u : ValueFits(x.at, v, u)
      BY <2>1 DEF ValueFits
    <2> QED BY <1>1, <1>2, <1>5, <2>1, <2>2, <2>3, <2>4, GoesOne
  <1> QED BY <1>3, <1>4, <1>6, <1>7 DEF IndInv

(* operand() after its expression.                                         *)
LEMMA ParenStep == ASSUME IndInv, Paren PROVE IndInv'
  <1>1. /\ TextInv /\ Core /\ Code /\ status = "parsing" /\ ctl[1].at = "paren"
        /\ ctl[1].at \in Labels \ StmtLabels
    BY DEF IndInv, Paren, At, Labels, StmtLabels
  <1>2. UNCHANGED <<scope, proto, status>> /\ val' = val /\ ctl' = Tail(ctl)
    BY DEF Paren, Return
  <1>3. TextInv'
    BY <1>1, TextStep DEF Paren
  <1>4. Typed(proto) /\ val' \in SingleValues /\ Extends(proto, proto', 0) /\ 0 \in Nat
    BY <1>1, <1>2, TopFrame, ExtendsNone
  <1>5. NoWrap(proto) => \A at : ValueFits(at, val, proto.used)
    <2> SUFFICES ASSUME NoWrap(proto) PROVE \A at : ValueFits(at, val, proto.used)
      OBVIOUS
    <2>1. val.type = "NORMAL" /\ val.index \in 0..(proto.used - 1)
      BY <1>1, TopLive DEF ValueFits, LiveValue
    <2> QED BY <2>1, NormalFits
  <1>6. Core' /\ Code'
    BY <1>1, <1>2, <1>4, <1>5, Returns
  <1> QED BY <1>3, <1>6 DEF IndInv

(* The value of operand() is loaded, and the operator before it applied.   *)
LEMMA UnaryStep == ASSUME IndInv, Unary PROVE IndInv'
  <1> DEFINE q == EmitLoad(proto, val)
             i == LoadedIndex(proto, val)
             p == EmitUnary(q, ctl[1].op, i)
             j == IF ctl[1].op = "" THEN i ELSE MaxUsedSlot(p)
             c == IF ctl[1].op = "" THEN 0 ELSE 1
  <1>1. /\ TextInv /\ Core /\ Code /\ status = "parsing" /\ ctl[1].at = "unary"
        /\ ctl[1].at \in Labels \ StmtLabels
    BY DEF IndInv, Unary, At, Labels, StmtLabels
  <1>2. proto' = p /\ val' = Normal(j) /\ ctl' = Tail(ctl) /\ UNCHANGED <<scope, status>>
    BY DEF Unary, Return
  <1>3. TextInv'
    BY <1>1 DEF Unary, SameText, TextInv
  <1>4. /\ val \in SingleValues /\ Typed(proto) /\ ctl[1] \in TypedFrames /\ proto.used \in Int
        /\ NoWrap(proto) => LiveValue(val, proto.used) /\ val.type # "NONE"
    BY <1>1, TopFrame, TopLive, TopSlot DEF ValueFits
  <1>5. /\ Extends(proto, q, 0) /\ i \in Int16
        /\ NoWrap(proto) => i \in 0..(proto.used - 1)
    BY <1>4, LoadExtends
  <1>6. Typed(q) /\ q.used \in Int /\ (NoWrap(q) => NoWrap(proto) /\ q.used = proto.used)
    BY <1>4, <1>5, TopSlot DEF Extends
  <1>7. NoWrap(q) => i \in 0..(q.used - 1)
    BY <1>5, <1>6
  <1> HIDE DEF q, i
  <1>8. /\ Extends(q, p, c) /\ c \in {0, 1} /\ j \in Int16
        /\ NoWrap(p) => j \in 0..(p.used - 1)
    <2>1. CASE ctl[1].op = ""
      <3>1. p = q /\ c = 0 /\ j = i
        BY <2>1 DEF EmitUnary
      <3> QED BY <1>5, <1>6, <1>7, <3>1, ExtendsNone
    <2>2. CASE ctl[1].op # ""
      <3> DEFINE op == UnaryOp[ctl[1].op]
      <3>1. op \in {"PUSH", "NEG", "LEN"}
        <4>1. ctl[1].op \in {"#", "-"}
          BY <1>1, <1>4, <2>2 DEF TypedFrames, UnaryOp
        <4> QED BY <4>1 DEF UnaryOp
      <3>2. p = Emit(q, InsAB(op, i), 1) /\ c = 1 /\ j = MaxUsedSlot(p)
        BY <2>2 DEF EmitUnary
      <3> HIDE DEF op, p, c, j
      <3>3. Extends(q, p, 1)
        BY <1>5, <1>6, <1>7, <3>1, <3>2, PushExtends
      <3>4. Typed(p) /\ (NoWrap(p) => NoWrap(q) /\ p.used = q.used + 1)
        BY <3>3 DEF Extends
      <3>5. j \in Int16 /\ p.used \in Int /\ (NoWrap(p) => j = p.used - 1)
        BY <3>2, <3>4, TopSlot
      <3>6. NoWrap(p) => j \in 0..(p.used - 1)
        <4> SUFFICES ASSUME NoWrap(p) PROVE j \in 0..(p.used - 1)
          OBVIOUS
        <4>1. j = p.used - 1 /\ p.used = q.used + 1 /\ i \in 0..(q.used - 1)
          BY <1>7, <3>4, <3>5
        <4> QED BY <1>6, <3>5, <4>1
      <3> QED BY <3>2, <3>3, <3>5, <3>6
    <2> QED BY <2>1, <2>2
  <1> HIDE DEF p, j, c
  <1>9. Extends(proto, p, c) /\ c \in Nat
    <2>1. 0 + c = c /\ c \in Int /\ 0 \in Int /\ c \in Nat
      BY <1>8
    <2> QED BY <1>4, <1>5, <1>8, <2>1, ExtendsTwice
  <1>10. /\ Normal(j) \in SingleValues
         /\ NoWrap(p) => \A at : ValueFits(at, Normal(j), p.used)
    BY <1>8, ValueTypes, NormalFits
  <1>11. Core' /\ Code'
    BY <1>1, <1>2, <1>9, <1>10, Returns
  <1> QED BY <1>3, <1>11 DEF IndInv

(* single_value() goes on with the value v.                                *)
LEMMA ValueGoesOn ==
  ASSUME Core, Code, status = "parsing", UNCHANGED <<val, scope, status>>,
         ctl[1].at \in {"sv", "brace", "key"},
         NEW v \in SingleValues, ctl' = <<SvStart(v)>> \o Tail(ctl),
         NEW c \in Nat, Extends(proto, proto', c),
         NoWrap(proto) /\ NoWrap(proto') => LiveValue(v, proto'.used)
  PROVE  Core' /\ Code'
  <1> DEFINE x == SvStart(v)
  <1>1. x \in TypedFrames /\ x.at = "sv" /\ x.value = v
    <2>1. "sv" \in Labels /\ 0 \in Int16
      BY Int16MaxFact DEF Labels, Int16
    <2> QED BY <2>1, KeepType DEF SvStart, Frame
  <1>2. ctl' = <<x>> \o Tail(ctl)
    OBVIOUS
  <1> HIDE DEF x
  <1>3. Replaces(x, ctl[1]) /\ ctl[1].at # "semi"
    BY <1>1 DEF Below, Replaces, StmtLabels
  <1>4. \A u : LiveValue(v, u) => FrameLive(x, u)
    BY <1>1 DEF FrameLive
  <1>5. \A w, u : ValueFits(x.at, w, u)
    BY <1>1 DEF ValueFits
  <1>6. x.at \notin {"stmt", "local", "semi"}
    BY <1>1
  <1> QED BY <1>1, <1>2, <1>3, <1>4, <1>5, <1>6, GoesOne

(* The slot of a declared variable.                                        *)
LEMMA SlotFact ==
  ASSUME Core, NEW name, Declared(name)
  PROVE  SlotOf(name) \in 0..(Len(scope) - 1) /\ SlotOf(name) \in Int16
  <1> DEFINE k == CHOOSE i \in 1..Len(scope) : scope[i] = name
  <1>1. k \in 1..Len(scope) /\ SlotOf(name) = k - 1
    BY DEF Declared, SlotOf
  <1> HIDE DEF k
  <1>2. Len(scope) \in 0..Int16Max
    BY TopFrame
  <1> QED BY <1>1, <1>2, Int16MaxFact DEF Int16

(* single_value() of a variable.                                           *)
LEMMA ValueLocalStep == ASSUME IndInv, ValueLocal PROVE IndInv'
  <1>1. TextInv /\ Core /\ Code /\ status = "parsing" /\ ctl[1].at = "sv"
    BY DEF IndInv, ValueLocal, At
  <1>2. UNCHANGED <<val, scope, proto, status>>
    BY DEF ValueLocal
  <1>3. PICK t \in Peeked : /\ Declared(t.text) /\ Take(t)
                            /\ Goto(<<SvStart(Normal(SlotOf(t.text)))>>)
    BY DEF ValueLocal
  <1> DEFINE s == SlotOf(t.text)
  <1>4. TextInv'
    BY <1>1, <1>3, TextStep
  <1>5. s \in 0..(Len(scope) - 1) /\ s \in Int16
    BY <1>1, <1>3, SlotFact
  <1>6. ctl' = <<SvStart(Normal(s))>> \o Tail(ctl)
    BY <1>3 DEF Goto
  <1> HIDE DEF s
  <1>7. Typed(proto) /\ proto.used \in Int /\ Len(scope) \in 0..MaxVarNr
    BY <1>1, TopFrame, TopSlot
  <1>8. Extends(proto, proto', 0) /\ 0 \in Nat
    BY <1>2, <1>7, ExtendsNone
  <1>9. /\ Normal(s) \in SingleValues
        /\ NoWrap(proto) => LiveValue(Normal(s), proto.used)
    <2>1. NoWrap(proto) => Len(scope) <= proto.used
      BY <1>1, TopLive
    <2>2. NoWrap(proto) => s \in 0..(proto.used - 1)
      BY <1>5, <1>7, <2>1
    <2> QED BY <1>5, <2>2, ValueTypes, NormalFits
  <1>10. Core' /\ Code'
    BY <1>1, <1>2, <1>6, <1>8, <1>9, ValueGoesOn
  <1> QED BY <1>4, <1>10 DEF IndInv

(* single_value() of a literal, or of the name of a global.                *)
LEMMA ValueConstStep == ASSUME IndInv, ValueConst PROVE IndInv'
  <1>1. TextInv /\ Core /\ Code /\ status = "parsing" /\ ctl[1].at = "sv"
    BY DEF IndInv, ValueConst, At
  <1>2. UNCHANGED <<val, scope, status>>
    BY DEF ValueConst
  <1>3. PICK t \in Peeked :
          /\ IsConst(t) /\ ConstFits(proto, t.text) /\ Take(t)
          /\ proto' = EmitConst(proto, t.text)
          /\ Goto(<<SvStart(IF t.kind = "sym" THEN TableSlot(PSEUDO_INDEX_GLOBAL)
                            ELSE Normal(MaxUsedSlot(EmitConst(proto, t.text))))>>)
    BY DEF ValueConst
  <1> DEFINE v == IF t.kind = "sym" THEN TableSlot(PSEUDO_INDEX_GLOBAL)
                  ELSE Normal(MaxUsedSlot(proto'))
  <1>4. TextInv'
    BY <1>1, <1>3, TextStep
  <1>5. t.text \in Values
    BY <1>1, <1>3, TokenText DEF IsConst, Literals
  <1>6. Typed(proto) /\ proto.used \in Int
    BY <1>1, TopFrame, TopSlot
  <1>7. Extends(proto, proto', 1) /\ 1 \in Nat
    BY <1>3, <1>5, <1>6, ConstExtends
  <1>8. Typed(proto') /\ (NoWrap(proto') => NoWrap(proto) /\ proto'.used = proto.used + 1)
    BY <1>7 DEF Extends
  <1>9. proto'.used \in Int /\ (NoWrap(proto') => proto'.used >= 1)
    <2>1. proto'.used \in Int
      BY <1>8, TopSlot
    <2>2. NoWrap(proto') => proto.used >= 0 /\ proto'.used = proto.used + 1
      BY <1>6, <1>8 DEF NoWrap
    <2> QED BY <1>6, <2>1, <2>2
  <1>10. /\ v \in SingleValues
         /\ NoWrap(proto') => LiveValue(v, proto'.used)
    <2>1. CASE t.kind = "sym"
      <3>1. PSEUDO_INDEX_GLOBAL \in Int16
        BY DEF Int16, Int16Max, PSEUDO_INDEX_GLOBAL
      <3> QED BY <1>9, <2>1, <3>1, ValueTypes DEF LiveValue
    <2>2. CASE t.kind # "sym"
      BY <1>8, <1>9, <2>2, NormalTop, NormalFits
    <2> QED BY <2>1, <2>2
  <1>11. ctl' = <<SvStart(v)>> \o Tail(ctl)
    BY <1>3 DEF Goto
  <1> HIDE DEF v
  <1>12. Core' /\ Code'
    BY <1>1, <1>2, <1>7, <1>10, <1>11, ValueGoesOn
  <1> QED BY <1>4, <1>12 DEF IndInv

(* single_value() of a new table.                                          *)
LEMMA TableValueStep == ASSUME IndInv, TableValue PROVE IndInv'
  <1>1. TextInv /\ Core /\ Code /\ status = "parsing" /\ ctl[1].at = "brace"
    BY DEF IndInv, TableValue, At
  <1> DEFINE p == Emit(proto, Ins("NEW_TABLE"), 1)
             v == Normal(MaxUsedSlot(p))
  <1>2. /\ UNCHANGED <<val, scope, status>> /\ proto' = p
        /\ ctl' = <<SvStart(v)>> \o Tail(ctl)
    BY DEF TableValue, Goto
  <1>3. TextInv'
    BY <1>1, TextStep DEF TableValue
  <1>4. Typed(proto) /\ proto.used \in Int
    BY <1>1, TopFrame, TopSlot
  <1>5. Extends(proto, p, 1) /\ 1 \in Nat
    BY <1>4, FreshExtends
  <1> HIDE DEF p
  <1>6. Typed(p) /\ (NoWrap(p) => NoWrap(proto) /\ p.used = proto.used + 1)
    BY <1>5 DEF Extends
  <1>7. NoWrap(p) => p.used >= 1
    <2>1. NoWrap(p) => proto.used >= 0 /\ p.used = proto.used + 1
      BY <1>4, <1>6 DEF NoWrap
    <2> QED BY <1>4, <2>1
  <1>8. v \in SingleValues /\ (NoWrap(p) => LiveValue(v, p.used))
    BY <1>6, <1>7, NormalTop, NormalFits
  <1> HIDE DEF v
  <1>9. Core' /\ Code'
    BY <1>1, <1>2, <1>5, <1>8, ValueGoesOn
  <1> QED BY <1>3, <1>9 DEF IndInv

(* single_value() after the key of an index.                               *)
LEMMA KeyEndStep == ASSUME IndInv, KeyEnd PROVE IndInv'
  <1>1. TextInv /\ Core /\ Code /\ status = "parsing" /\ ctl[1].at = "key"
    BY DEF IndInv, KeyEnd, At
  <1> DEFINE p == Emit(proto, InsAB("PUSH", val.index), 1)
             v == TableSlot(ctl[1].n)
  <1>2. /\ UNCHANGED <<val, scope, status>> /\ proto' = p
        /\ ctl' = <<SvStart(v)>> \o Tail(ctl)
    BY DEF KeyEnd, Goto
  <1>3. TextInv'
    BY <1>1, TextStep DEF KeyEnd
  <1>4. Typed(proto) /\ proto.used \in Int /\ val.index \in Int16 /\ ctl[1].n \in Int16
    BY <1>1, TopFrame, TopSlot
  <1>5. NoWrap(proto) => val.index \in 0..(proto.used - 1) /\ ctl[1].n \in 0..(proto.used - 1)
    BY <1>1, TopLive DEF ValueFits, LiveValue, FrameLive
  <1>6. Extends(proto, p, 1) /\ 1 \in Nat
    BY <1>4, <1>5, PushExtends
  <1> HIDE DEF p
  <1>7. NoWrap(p) => NoWrap(proto) /\ p.used = proto.used + 1
    BY <1>6 DEF Extends
  <1>8. v \in SingleValues /\ v.type = "TABLE_SLOT" /\ v.index = ctl[1].n
    BY <1>4, ValueTypes
  <1> HIDE DEF v
  <1>9. NoWrap(p) => LiveValue(v, p.used)
    <2>1. NoWrap(p) => ctl[1].n \in 0..(p.used - 1) /\ p.used >= 1
      BY <1>4, <1>5, <1>7
    <2> QED BY <1>8, <2>1 DEF LiveValue
  <1>10. Core' /\ Code'
    BY <1>1, <1>2, <1>6, <1>8, <1>9, ValueGoesOn
  <1> QED BY <1>3, <1>10 DEF IndInv

(* single_value() expects the brace that closes a table.                   *)
LEMMA ValueTableStep == ASSUME IndInv, ValueTable PROVE IndInv'
  <1>1. /\ TextInv /\ Core /\ Code /\ status = "parsing" /\ ctl[1].at = "sv"
        /\ ctl[1].at # "semi"
    BY DEF IndInv, ValueTable, At
  <1> DEFINE x == Point("brace")
  <1>2. UNCHANGED <<val, scope, proto, status>> /\ ctl' = <<x>> \o Tail(ctl)
    BY DEF ValueTable, Goto
  <1>3. TextInv'
    BY <1>1, TextStep DEF ValueTable
  <1>4. x \in TypedFrames /\ x.at = "brace" /\ \A u : FrameLive(x, u)
    BY PointType DEF Labels
  <1> HIDE DEF x
  <1>5. Replaces(x, ctl[1])
    BY <1>1, <1>4 DEF Below, Replaces, StmtLabels
  <1>6. \A v, u : ValueFits(x.at, v, u)
    BY <1>4 DEF ValueFits
  <1>7. Typed(proto) /\ Extends(proto, proto', 0) /\ 0 \in Nat
    BY <1>1, <1>2, TopFrame, ExtendsNone
  <1>8. Core' /\ Code'
    BY <1>1, <1>2, <1>4, <1>5, <1>6, <1>7, GoesOne
  <1> QED BY <1>3, <1>8 DEF IndInv

(* single_value() with a value: an index, or its end.                      *)
LEMMA SubscriptStep == ASSUME IndInv, Subscript PROVE IndInv'
  <1> DEFINE v == ctl[1].value
             i == LoadedIndex(proto, v)
             y == Frame("key", "", NoValue, i)
  <1>1. /\ TextInv /\ Core /\ Code /\ status = "parsing" /\ ctl[1].at = "sv"
        /\ ctl[1].at \in Labels \ StmtLabels /\ ctl[1].at # "semi" /\ v.type # "NONE"
    BY DEF IndInv, Subscript, At, Labels, StmtLabels
  <1>2. UNCHANGED <<scope, status>>
    BY DEF Subscript
  <1>3. PICK t \in Peeked :
          \/ /\ Take(t) /\ proto' = EmitLoad(proto, v) /\ Goto(Expr \o <<y>>) /\ UNCHANGED val
          \/ Look(t) /\ Return(v) /\ UNCHANGED proto
    BY DEF Subscript
  <1>4. TextInv'
    BY <1>1, <1>3, TextStep
  <1>5. /\ v \in SingleValues /\ Typed(proto) /\ proto.used \in Int
        /\ NoWrap(proto) => LiveValue(v, proto.used)
    BY <1>1, TopFrame, TopLive, TopSlot
  <1> HIDE DEF v
  <1>6. ASSUME proto' = EmitLoad(proto, v), Goto(Expr \o <<y>>), UNCHANGED val
        PROVE  Core' /\ Code'
    <2>1. /\ Extends(proto, proto', 0) /\ i \in Int16 /\ 0 \in Nat
          /\ NoWrap(proto) => i \in 0..(proto.used - 1)
      BY <1>1, <1>5, <1>6, LoadExtends
    <2>2. ctl' = (Expr \o <<y>>) \o Tail(ctl)
      BY <1>6 DEF Goto
    <2> HIDE DEF i
    <2>3. y \in TypedFrames /\ y.at = "key" /\ y.value = NoValue /\ y.n = i
      <3>1. "key" \in Labels
        BY DEF Labels
      <3>2. NoValue \in SingleValues
        BY Int16MaxFact DEF NoValue, SingleValue, SingleValues, Int16
      <3> QED BY <2>1, <3>1, <3>2, KeepType DEF Frame
    <2> HIDE DEF y
    <2>4. y.at \in Below("sum") /\ Replaces(y, ctl[1])
      BY <1>1, <2>3 DEF Below, Replaces, StmtLabels
    <2>5. ASSUME NoWrap(proto), NoWrap(proto') PROVE FrameLive(y, proto'.used)
      <3>1. proto'.used = proto.used
        BY <1>5, <2>1, <2>5 DEF Extends
      <3>2. LiveValue(y.value, proto'.used)
        BY <2>3 DEF LiveValue, NoValue, SingleValue
      <3> QED BY <2>1, <2>3, <2>5, <3>1, <3>2 DEF FrameLive
    <2> QED BY <1>1, <1>2, <1>6, <2>1, <2>2, <2>3, <2>4, <2>5, GoesExpr
  <1>7. ASSUME Return(v), UNCHANGED proto PROVE Core' /\ Code'
    <2>1. val' = v /\ ctl' = Tail(ctl)
      BY <1>7 DEF Return
    <2>2. Extends(proto, proto', 0) /\ 0 \in Nat
      BY <1>5, <1>7, ExtendsNone
    <2>3. NoWrap(proto) => \A at \in Below(ctl[1].at) : ValueFits(at, v, proto.used)
      BY <1>1, <1>5 DEF Below, ValueFits
    <2> QED BY <1>1, <1>2, <1>5, <1>7, <2>1, <2>2, <2>3, Returns
  <1> QED BY <1>3, <1>4, <1>6, <1>7 DEF IndInv

(* The steps that throw.                                                   *)
LEMMA ThrowSteps ==
  ASSUME IndInv, TooManyConsts \/ SyntaxError \/ OutOfMemory PROVE IndInv'
  <1>1. TextInv /\ Core /\ Code /\ status = "parsing" /\ UNCHANGED <<ctl, val, scope, proto>>
    BY DEF IndInv, TooManyConsts, SyntaxError, OutOfMemory, At
  <1>2. status' \in Statuses \ {"parsing", "parsed"}
    BY DEF TooManyConsts, SyntaxError, OutOfMemory, Throw, Statuses
  <1>3. TextInv'
    <2>1. CASE TooManyConsts \/ SyntaxError
      BY <1>1, <2>1, TextStep DEF TooManyConsts, SyntaxError
    <2>2. CASE OutOfMemory
      BY <1>1, <2>2 DEF OutOfMemory, TextInv
    <2> QED BY <2>1, <2>2
  <1>4. Core' /\ Code'
    BY <1>1, <1>2, Fails
  <1> QED BY <1>3, <1>4 DEF IndInv

(* The parser starts with nothing emitted and a statement to parse.       *)
LEMMA InitInv == ASSUME Init PROVE IndInv
  <1> DEFINE x == Point("stmt")
             f == <<x>>
  <1>1. /\ toks = <<>> /\ look = NoToken /\ ctl = f /\ val = NoValue /\ scope = <<>>
        /\ proto = EmptyProto /\ status = "parsing"
    BY DEF Init
  <1>2. TextInv
    BY <1>1 DEF TextInv
  <1>3. x \in TypedFrames /\ x.at = "stmt" /\ \A u : FrameLive(x, u)
    BY PointType DEF Labels
  <1> HIDE DEF x
  <1>4. Piece(f) /\ f[1] = x /\ f[Len(f)] = x /\ \A u : LiveStack(f, u)
    BY <1>3, PutOne
  <1> HIDE DEF f
  <1>5. /\ proto.ins = <<>> /\ proto.dep = <<>> /\ proto.consts = <<>> /\ proto.used = 0
        /\ 0 \in Int16
    BY <1>1, Int16MaxFact DEF EmptyProto, Int16
  <1>6. Typed(proto)
    <2>1. MaxConstNr \in Nat /\ Len(<<>>) = 0
      BY ParserAssumption
    <2>2. proto \in Protos
      BY <1>1, <1>5 DEF Protos, EmptyProto
    <2> QED BY <1>5, <2>1, <2>2 DEF Typed
  <1>7. Sound(proto) /\ NoReturn(proto) /\ Few(proto)
    BY <1>5 DEF Sound, NoReturn, Few, Counted
  <1>8. val \in SingleValues
    BY <1>1, <1>5 DEF NoValue, SingleValue, SingleValues
  <1>9. Len(scope) = 0 /\ scope \in Seq(Values) /\ 0 <= MaxVarNr
    BY <1>1, ParserAssumption
  <1>10. Shape(ctl) /\ ctl[1].at = "stmt"
    BY <1>1, <1>3, <1>4 DEF Shape, StmtLabels
  <1>11. Core
    BY <1>1, <1>5, <1>6, <1>7, <1>8, <1>9, <1>10 DEF Core, Statuses, StatementsBalanced
  <1>12. ValueFits("stmt", val, proto.used)
    BY DEF ValueFits
  <1>13. Code
    BY <1>1, <1>4, <1>5, <1>7, <1>9, <1>10, <1>12 DEF Code
  <1> QED BY <1>2, <1>11, <1>13 DEF IndInv

(* A step that changes nothing.                                            *)
LEMMA StutterInv == ASSUME IndInv, UNCHANGED pvars PROVE IndInv'
  BY DEF IndInv, TextInv, Core, Code, StatementsBalanced, pvars

-----------------------------------------------------------------------------
(* The theorems.                                                           *)

(* The invariant holds of every parse, of every text.                      *)
LEMMA ParserInv == Spec => []IndInv
  <1>1. Init => IndInv
    BY InitInv
  <1>2. IndInv /\ [Next]_pvars => IndInv'
    <2> SUFFICES ASSUME IndInv, [Next]_pvars PROVE IndInv'
      OBVIOUS
    <2>1. CASE \/ StmtEof \/ StmtLocal \/ StmtSymbol \/ StmtLocalName \/ MaybeInit
               \/ Target \/ AssignEnd \/ ArgsStart \/ ArgEnd \/ StmtEnd
      BY <2>1, StmtEofStep, StmtLocalStep, StmtSymbolStep, StmtLocalNameStep, MaybeInitStep,
         TargetStep, AssignEndStep, ArgsStartStep, ArgEndStep, StmtEndStep
    <2>2. CASE \/ BinaryLoop("sum") \/ BinaryLoop("term") \/ Factor \/ Operand \/ Paren \/ Unary
      BY <2>2, BinaryLoopStep, FactorStep, OperandStep, ParenStep, UnaryStep
    <2>3. CASE \/ ValueLocal \/ ValueConst \/ ValueTable \/ TableValue \/ Subscript \/ KeyEnd
      BY <2>3, ValueLocalStep, ValueConstStep, ValueTableStep, TableValueStep, SubscriptStep,
         KeyEndStep
    <2>4. CASE TooManyConsts \/ SyntaxError \/ OutOfMemory
      BY <2>4, ThrowSteps
    <2>5. CASE UNCHANGED pvars
      BY <2>5, StutterInv
    <2> QED BY <2>1, <2>2, <2>3, <2>4, <2>5 DEF Next
  <1> QED BY <1>1, <1>2, PTL DEF Spec

(* Whatever the text, the statements before it take and give back the same *)
(* number of slots: chunk() and stmt_local() find used_slots equal to the  *)
(* number of variables, the more so where stmt_local() asserts it.         *)
THEOREM BalancedAlways == Spec => []StatementsBalanced
  <1>1. IndInv => StatementsBalanced
    BY DEF IndInv, Core
  <1> QED BY <1>1, ParserInv, PTL

(* Every variable of the parser keeps its type, in particular the kinds of *)
(* value and of pending call the code tells apart, and the scope and the   *)
(* constants stay within their limits, as long as no count of slots left   *)
(* the range of its int16_t.                                               *)
THEOREM TypeAlways == Spec => [](NoWrap(proto) => TypeOK)
  <1>1. ASSUME IndInv, NoWrap(proto) PROVE TypeOK
    <2>1. /\ toks \in Seq(Tokens \cup {Eof}) /\ look \in Tokens \cup {Eof, NoToken}
          /\ val \in SingleValues /\ scope \in Seq(Values) /\ status \in Statuses
      BY <1>1 DEF IndInv, TextInv, Core
    <2>2. ctl \in Seq(Frames) /\ Len(ctl) >= 1
      <3>1. ctl \in Seq(TypedFrames) /\ Len(ctl) >= 1
        BY <1>1 DEF IndInv, Core, Shape, Piece
      <3>2. TypedFrames \subseteq Frames
        BY DEF TypedFrames
      <3> QED BY <3>1, <3>2
    <2>3. proto \in Protos /\ Len(proto.dep) = Len(proto.ins)
      BY <1>1 DEF IndInv, Core, Typed
    <2>4. proto.dep \in Seq(0..Int16Max) /\ proto.used \in 0..Int16Max
      <3>1. proto.dep \in Seq(Int16)
        BY <2>3 DEF Protos
      <3>2. \A i \in 1..Len(proto.dep) : proto.dep[i] \in 0..Int16Max
        BY <1>1, Int16MaxFact DEF NoWrap
      <3>3. proto.used \in 0..Int16Max
        BY <1>1, Int16MaxFact DEF NoWrap
      <3>4. Len(proto.dep) \in Nat /\ proto.dep = [i \in 1..Len(proto.dep) |-> proto.dep[i]]
        BY <3>1
      <3> DEFINE d == proto.dep
                 n == Len(d)
      <3>5. n \in Nat /\ d = [i \in 1..n |-> d[i]] /\ \A i \in 1..n : d[i] \in 0..Int16Max
        BY <3>2, <3>4
      <3> HIDE DEF d, n
      <3>6. d \in [1..n -> 0..Int16Max]
        BY <3>5
      <3>7. d \in Seq(0..Int16Max)
        BY <3>5, <3>6
      <3> QED BY <3>3, <3>7 DEF d
    <2>5. proto \in [ins : Seq(Instruction), dep : Seq(0..Int16Max), consts : Seq(Values),
                     used : 0..Int16Max]
      <3> QED BY <2>3, <2>4 DEF Protos
    <2>6. Len(scope) <= MaxVarNr /\ Len(proto.consts) <= MaxConstNr
      BY <1>1 DEF IndInv, Core, Typed
    <2> QED BY <2>1, <2>2, <2>3, <2>5, <2>6 DEF TypeOK
  <1> QED BY <1>1, ParserInv, PTL

(* As long as no count of slots left the range of its int16_t, each        *)
(* instruction that emit() has appended names slots that are in use where  *)
(* it runs.                                                                *)
THEOREM OperandsLiveAlways == Spec => [](NoWrap(proto) => EmittedOperandsLive)
  <1>1. IndInv => (NoWrap(proto) => EmittedOperandsLive)
    BY DEF IndInv, Code, Sound, SoundAt, EmittedOperandsLive
  <1> QED BY <1>1, ParserInv, PTL

(* And the Proto a parse returns is one the interpreter can run.           *)
THEOREM WellFormedAlways == Spec => [](NoWrap(proto) => ParsedCodeWellFormed)
  <1>1. IndInv => (NoWrap(proto) => ParsedCodeWellFormed)
    BY DEF IndInv, Code, ParsedCodeWellFormed
  <1> QED BY <1>1, ParserInv, PTL

(* A chunk of fewer than 32767 instructions wraps no count: whatever is    *)
(* said of code whose counts fit is true of it.  An instruction takes at   *)
(* most one slot, and the end of a statement takes back no more than was   *)
(* taken before.                                                           *)
THEOREM ShortFits == Spec => [](Short(proto) => NoWrap(proto))
  <1>1. IndInv => (Short(proto) => NoWrap(proto))
    BY FewFit DEF IndInv, Core
  <1> QED BY <1>1, ParserInv, PTL

=============================================================================

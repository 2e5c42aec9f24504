------------------------------ MODULE NfVmProofs ------------------------------
(***************************************************************************)
(* The invariants of NfVm hold for every size of the stack, every set of   *)
(* chunks the parser makes and every number of functions and tables.       *)
(*                                                                         *)
(* The inductive invariant is Inv: the invariants the runs check need each *)
(* other, and FuncNotNull follows from ChainLongEnough.  One lemma for     *)
(* each action shows that it keeps Inv; FrameStep, EnterStep and           *)
(* ReturnStep do the work for all steps inside a frame, into a new one and *)
(* out of one.                                                             *)
(***************************************************************************)
EXTENDS NfVm, TLAPS

(* The reallocated stack has more room than nf::open needs.                *)
LEMMA CapacityNat == Capacity \in Nat /\ Capacity >= 4
  BY VmAssumption DEF Capacity

(* What two's complement makes of an integer is an Integer.                *)
LEMMA WrapType == ASSUME NEW x \in Int PROVE Wrap(x) \in Int64s
  <1> DEFINE m == 2 * (IntMax + 1)
  <1>1. m \in Nat \ {0} /\ IntMax \in Nat
    BY IntMaxAssumption
  <1>2. (x + IntMax + 1) % m \in 0..(m - 1)
    <2> HIDE DEF m
    <2> QED BY <1>1
  <1> QED BY <1>1, <1>2 DEF Wrap, Int64s

(* A quotient that is not too large is an Integer: BIN_OP's / faults on    *)
(* all others.                                                             *)
LEMMA QuotientType ==
  ASSUME NEW x \in Int64s, NEW y \in Int64s, y # 0, Quotient(x, y) <= IntMax
  PROVE  Quotient(x, y) \in Int64s
  <1> DEFINE a == Magnitude(x)
             b == Magnitude(y)
  <1>1. a \in 0..(IntMax + 1) /\ b \in 1..(IntMax + 1) /\ IntMax \in Nat
    BY IntMaxAssumption DEF Magnitude, Int64s
  <1>2. a \div b \in 0..a
    <2> HIDE DEF a, b
    <2>1. a \in Nat /\ b \in Nat \ {0}
      BY <1>1
    <2> QED BY <2>1, SMTT(30)
  <1> QED BY <1>1, <1>2 DEF Quotient, Int64s

-----------------------------------------------------------------------------
(* Sequences. *)

(* A function on 1..n is a sequence of n elements.                         *)
LEMMA FunctionIsSeq ==
  ASSUME NEW n \in Nat, NEW S, NEW f \in [1..n -> S]
  PROVE  f \in Seq(S) /\ Len(f) = n
  <1>1. f \in Seq(S)
    OBVIOUS
  <1> QED BY <1>1

(* A sequence is a function on 1..Len.                                     *)
LEMMA SeqIsFunction ==
  ASSUME NEW S, NEW f \in Seq(S)
  PROVE  Len(f) \in Nat /\ f \in [1..Len(f) -> S]
  OBVIOUS

(* What Append returns, element by element.                                *)
LEMMA AppendFacts ==
  ASSUME NEW S, NEW f \in Seq(S), NEW e \in S
  PROVE  /\ Append(f, e) \in Seq(S) /\ Len(Append(f, e)) = Len(f) + 1
         /\ \A i \in 1..Len(f) : Append(f, e)[i] = f[i]
         /\ Append(f, e)[Len(f) + 1] = e
  OBVIOUS

-----------------------------------------------------------------------------
(* Values. *)

PlainFault(why) == why \in {"OP_NUM", "SIGFPE"}

(* The tag of a stack slot (TValue::type) tells what its payload is, and   *)
(* no slot holds a fault.                                                  *)
LEMMA PayloadTypes ==
  ASSUME NEW n \in Nat, NEW m \in Nat, NEW x \in SlotValuesOf(n, m)
  PROVE  /\ x.type = "Integer" => x.v \in Int64s
         /\ x.type = "Number" => x.v \in Numbers
         /\ x.type = "String" => x.v \in Seq(Chars)
         /\ x.type = "Table" => x.v \in 1..m
         /\ x.type = "Func" => x.v \in 1..n
         /\ x.type = "PC" => x.v \in Pcs(n)
         /\ x.type = "Index" => x.v \in 0..Capacity
         /\ x.type # "Fault"
  BY DEF SlotValuesOf, Plain

(* Arithmetic on two Integers gives an Integer, or raises SIGFPE.          *)
LEMMA IntArithType ==
  ASSUME NEW op \in BinaryOps, NEW x \in Int64s, NEW y \in Int64s
  PROVE  LET r == IntArith(op, x, y) IN
         r \in Plain \/ (r.type = "Fault" /\ PlainFault(r.v))
  <1>1. x \in Int /\ y \in Int /\ x + y \in Int /\ x - y \in Int /\ x * y \in Int
    BY IntMaxAssumption DEF Int64s
  <1>2. Wrap(x + y) \in Int64s /\ Wrap(x - y) \in Int64s /\ Wrap(x * y) \in Int64s
    BY <1>1, WrapType
  <1>3. y # 0 /\ ~(Quotient(x, y) > IntMax) => Quotient(x, y) \in Int64s
    <2> SUFFICES ASSUME y # 0, ~(Quotient(x, y) > IntMax) PROVE Quotient(x, y) \in Int64s
      OBVIOUS
    <2>1. Quotient(x, y) \in Int
      BY <1>1 DEF Quotient, Magnitude
    <2>2. Quotient(x, y) <= IntMax
      BY <2>1, IntMaxAssumption
    <2> QED BY <2>2, QuotientType
  <1>4. \A i \in Int64s : IntV(i) \in Plain
    BY DEF IntV, Plain
  <1> QED BY <1>2, <1>3, <1>4 DEF IntArith, BinaryOps, Fault, PlainFault

(* BIN_OP gives a value that refers to no object but a string, or ends the *)
(* program with OP_NUM or SIGFPE.                                          *)
LEMMA BinOpType ==
  ASSUME NEW n \in Nat, NEW m \in Nat, NEW op \in BinaryOps,
         NEW x \in SlotValuesOf(n, m), NEW y \in SlotValuesOf(n, m)
  PROVE  LET r == BinOp(op, x, y) IN
         r \in Plain \/ (r.type = "Fault" /\ PlainFault(r.v))
  <1>1. CASE x.type = "Integer" /\ y.type = "Integer"
    BY <1>1, PayloadTypes, IntArithType DEF BinOp
  <1>2. CASE /\ x.type \in Numeric /\ y.type \in Numeric
             /\ "Number" \in {x.type, y.type}
    <2>1. AsNumber(x) \in Numbers /\ AsNumber(y) \in Numbers
      BY <1>2, PayloadTypes, NumbersAssumption DEF AsNumber, Numeric
    <2>2. NumArith(op, AsNumber(x), AsNumber(y)) \in Numbers
      BY <2>1, NumbersAssumption DEF BinaryOps
    <2> QED BY <1>2, <2>2 DEF BinOp, NumV, Plain, Numeric
  <1>3. CASE x.type = "String" /\ y.type = "String"
    <2>1. x.v \o y.v \in Seq(Chars)
      BY <1>3, PayloadTypes
    <2> QED BY <1>3, <2>1 DEF BinOp, StrV, Plain, Numeric
  <1>4. CASE /\ ~(x.type = "Integer" /\ y.type = "Integer")
             /\ ~(x.type \in Numeric /\ y.type \in Numeric /\ "Number" \in {x.type, y.type})
             /\ ~(x.type = "String" /\ y.type = "String")
    BY <1>4 DEF BinOp, Fault, PlainFault
  <1> QED BY <1>1, <1>2, <1>3, <1>4

(* NEG and LEN give a value that refers to no object but a string, or end  *)
(* the program.                                                            *)
LEMMA UnaryType ==
  ASSUME NEW n \in Nat, NEW m \in Nat, NEW x \in SlotValuesOf(n, m),
         NEW r \in {NegOf(x), LenOf(x)}
  PROVE  r \in Plain \/ (r.type = "Fault" /\ PlainFault(r.v))
  <1>1. NegOf(x) \in Plain \/ NegOf(x) = Fault("OP_NUM")
    <2>1. CASE x.type = "Integer"
      <3>1. -x.v \in Int
        BY <2>1, PayloadTypes, IntMaxAssumption DEF Int64s
      <3> QED BY <2>1, <3>1, WrapType DEF NegOf, IntV, Plain
    <2>2. CASE x.type = "Number"
      BY <2>2, PayloadTypes, NumbersAssumption DEF NegOf, NumV, Plain
    <2>3. CASE x.type \notin {"Integer", "Number"}
      BY <2>3 DEF NegOf
    <2> QED BY <2>1, <2>2, <2>3
  <1>2. LenOf(x) \in Plain \/ LenOf(x) = Fault("OP_NUM")
    <2>1. CASE x.type = "String"
      <3>1. Len(x.v) \in Int
        BY <2>1, PayloadTypes
      <3> QED BY <2>1, <3>1, WrapType DEF LenOf, IntV, Plain
    <2>2. CASE x.type # "String"
      BY <2>2 DEF LenOf
    <2> QED BY <2>1, <2>2
  <1> QED BY <1>1, <1>2 DEF Fault, PlainFault

-----------------------------------------------------------------------------
(* The inductive invariant.                                                *)

(* From the current function at least Depth links prev can be followed     *)
(* before the null function: r gives each function a number of links that  *)
(* it is sure to have.                                                     *)
Linked(r) ==
  /\ r[0] = 0 /\ r[func] >= Depth
  /\ \A f \in 1..Len(funcs) : r[f] <= r[funcs[f].prev] + 1
ChainLongEnough == \E r \in [0..Len(funcs) -> Nat] : Linked(r)

Inv ==
  /\ TypeOK
  /\ SavedFramesIntact
  /\ DepthAgrees
  /\ CallersResume
  /\ ChunksUnreachable
  /\ ChainLongEnough

TablesOK ==
  /\ Len(tables) \in Nat /\ tables = [t \in 1..Len(tables) |-> tables[t]]
  /\ \A t \in 1..Len(tables) : \A k \in DOMAIN tables[t] :
       tables[t][k] \in SlotValues /\ ~IsChunk(tables[t][k])

(* No function that exists changes its code. *)
FuncsKept ==
  /\ Len(funcs) \in Nat /\ Len(funcs)' \in Nat /\ Len(funcs)' >= Len(funcs)
  /\ \A f \in 1..Len(funcs) : /\ funcs'[f].kind = funcs[f].kind
                              /\ funcs'[f].proto = funcs[f].proto

(* Creating objects invalidates no reference: values, pcs, activations and *)
(* functions stay well typed.                                              *)
LEMMA Monotone ==
  ASSUME NEW n1 \in Nat, NEW n2 \in Nat, NEW m1 \in Nat, NEW m2 \in Nat, n1 <= n2, m1 <= m2
  PROVE  /\ SlotValuesOf(n1, m1) \subseteq SlotValuesOf(n2, m2)
         /\ Pcs(n1) \subseteq Pcs(n2)
         /\ CallsOf(n1) \subseteq CallsOf(n2)
         /\ FuncsOf(n1) \subseteq FuncsOf(n2)
  <1>1. Pcs(n1) \subseteq Pcs(n2)
    BY DEF Pcs
  <1>2. SlotValuesOf(n1, m1) \subseteq SlotValuesOf(n2, m2)
    BY <1>1 DEF SlotValuesOf
  <1>3. CallsOf(n1) \subseteq CallsOf(n2)
    BY <1>1 DEF CallsOf
  <1>4. FuncsOf(n1) \subseteq FuncsOf(n2)
    BY DEF FuncsOf
  <1> QED BY <1>1, <1>2, <1>3, <1>4

(* Creating a Func (Func_new) leaves the others as they are.               *)
LEMMA AppendKeepsFuncs ==
  ASSUME TypeOK, NEW g \in FuncsOf(Len(funcs)), g.kind = "NF" <=> g.proto # NoProto,
         funcs' = Append(funcs, g)
  PROVE  /\ FuncsKept /\ Len(funcs)' = Len(funcs) + 1
         /\ funcs' \in Seq(FuncsOf(Len(funcs)'))
         /\ \A f \in 1..Len(funcs)' : funcs'[f].kind = "NF" <=> funcs'[f].proto # NoProto
         /\ \A f \in 1..Len(funcs) : funcs'[f] = funcs[f]
         /\ funcs'[Len(funcs) + 1] = g
  <1>1. funcs \in Seq(FuncsOf(Len(funcs))) /\ Len(funcs) \in Nat
    BY DEF TypeOK
  <1>2. /\ Len(funcs)' = Len(funcs) + 1
        /\ \A f \in 1..Len(funcs) : funcs'[f] = funcs[f]
        /\ funcs'[Len(funcs) + 1] = g
    BY <1>1
  <1>3. FuncsOf(Len(funcs)) \subseteq FuncsOf(Len(funcs) + 1)
    BY <1>1, Monotone
  <1>4. funcs' \in Seq(FuncsOf(Len(funcs)'))
    BY <1>1, <1>2, <1>3
  <1> QED BY <1>1, <1>2, <1>4 DEF FuncsKept, TypeOK

-----------------------------------------------------------------------------
(* What the invariant says of a step.                                      *)

(* The type invariant in the form the proofs use: lengths are numbers,     *)
(* sequences are functions.                                                *)
LEMMA Basics ==
  ASSUME TypeOK
  PROVE  /\ Len(funcs) \in Nat /\ Len(tables) \in Nat /\ Len(tables) >= 1 /\ Depth \in Nat
         /\ funcs \in [1..Len(funcs) -> FuncsOf(Len(funcs))]
         /\ calls \in [1..Depth -> CallsOf(Len(funcs))]
         /\ Capacity \in Nat
  BY CapacityNat DEF TypeOK, Depth

(* An error ends the program and changes nothing else.                     *)
LEMMA FailStep ==
  ASSUME Inv, NEW why \in Statuses, Fails(why)
  PROVE  Inv'
  <1> USE DEF Fails
  <1>1. TypeOK'
    BY DEF Inv, TypeOK, SlotValues
  <1>2. SavedFramesIntact'
    BY DEF Inv, SavedFramesIntact, FrameBase, Depth
  <1>3. DepthAgrees'
    BY DEF Inv, DepthAgrees, Running, InCodeOf, DepOf, Current, Depth
  <1>4. CallersResume'
    BY DEF Inv, CallersResume, CallerKind, InCodeOf, LastOp, DepOf, Before, Depth
  <1>5. ChunksUnreachable'
    BY DEF Inv, ChunksUnreachable, LiveTop, AfterCall, IsChunk, Running, LastOp, DepOf, Before,
           Current, Depth
  <1>6. ChainLongEnough'
    BY DEF Inv, ChainLongEnough, Linked, Depth
  <1> QED BY <1>1, <1>2, <1>3, <1>4, <1>5, <1>6 DEF Inv

(* What WellFormed says of one instruction of a proto.                     *)
LEMMA WellFormedAt ==
  ASSUME NEW p \in Protos, WellFormed(p), NEW i \in 1..Len(p.ins)
  PROVE  /\ p.dep[i] \in Nat /\ OperandsLive(p.ins[i], p.dep[i])
         /\ p.ins[i].op = "RET_0" <=> i = Len(p.ins)
         /\ i < Len(p.ins) => p.dep[i + 1] = DepthAfter(p.ins[i], p.dep[i])
         /\ p.ins[i].op = "CONST" => p.ins[i].ab \in 0..(Len(p.consts) - 1)
         /\ p.ins[i].op = "POP" /\ p.ins[i].ab < 0 =>
              i > 1 /\ p.ins[i - 1].op = "CALL" /\ p.dep[i + 1] <= p.dep[i - 1]
         /\ p.dep[1] = 0 /\ Len(p.ins) \in Nat /\ Len(p.ins) > 0
         /\ p.ins[i] \in Instruction
  BY DEF WellFormed, Protos

(* The instruction at pc is one of a well-formed proto, and its operands   *)
(* are slots of the frame.                                                 *)
LEMMA Fetch ==
  ASSUME Inv, Running = "NF"
  PROVE  LET p == funcs[pc.f].proto IN
         /\ Depth > 0 /\ pc.f \in 1..Len(funcs) /\ pc.f = Current.fn
         /\ p \in Chunks /\ p \in Protos /\ WellFormed(p)
         /\ pc.i \in 1..Len(p.ins) /\ Instr = p.ins[pc.i] /\ Instr \in Instruction
         /\ top - base = p.dep[pc.i] /\ OperandsLive(Instr, top - base)
         /\ Instr.op # "RET_0" =>
              /\ pc.i + 1 \in 1..Len(p.ins)
              /\ p.dep[pc.i + 1] = DepthAfter(Instr, top - base)
              /\ p.dep[pc.i + 1] \in Nat
  <1> DEFINE p == funcs[pc.f].proto
  <1>1. Depth > 0
    BY Basics DEF Inv, Running, Depth
  <1>2. Current \in CallsOf(Len(funcs)) /\ funcs[Current.fn].kind = "NF"
    BY <1>1, Basics DEF Inv, Current, Running
  <1>3. InCodeOf(Current.fn, pc) /\ top - base = DepOf(pc)
    BY DEF Inv, DepthAgrees
  <1>4. pc.f = Current.fn /\ pc.f \in 1..Len(funcs) /\ funcs[pc.f].kind = "NF"
    BY <1>2, <1>3 DEF InCodeOf, CallsOf
  <1>5. p \in Chunks
    BY <1>4, Basics DEF Inv, TypeOK, FuncsOf
  <1>6. p \in Protos /\ WellFormed(p)
    BY <1>5, VmAssumption
  <1>7. pc.i \in 1..Len(p.ins) /\ top - base = p.dep[pc.i]
    BY <1>3, <1>4 DEF InCodeOf, DepOf
  <1>8. Instr = p.ins[pc.i] /\ Instr \in Instruction /\ Len(p.ins) \in Nat
    BY <1>6, <1>7 DEF Instr, Protos
  <1>9. /\ OperandsLive(Instr, top - base)
        /\ Instr.op # "RET_0" => pc.i < Len(p.ins)
        /\ pc.i < Len(p.ins) => p.dep[pc.i + 1] = DepthAfter(Instr, top - base)
    <2> HIDE DEF p
    <2>1. /\ OperandsLive(p.ins[pc.i], p.dep[pc.i])
          /\ p.ins[pc.i].op = "RET_0" <=> pc.i = Len(p.ins)
          /\ pc.i < Len(p.ins) => p.dep[pc.i + 1] = DepthAfter(p.ins[pc.i], p.dep[pc.i])
      BY <1>6, <1>7, WellFormedAt
    <2> QED BY <2>1, <1>7, <1>8
  <1>10. Instr.op # "RET_0" => pc.i + 1 \in 1..Len(p.ins)
    BY <1>7, <1>8, <1>9
  <1>11. Instr.op # "RET_0" => p.dep[pc.i + 1] \in Nat
    <2> HIDE DEF p
    <2> QED BY <1>6, <1>10, WellFormedAt
  <1> QED BY <1>1, <1>4, <1>5, <1>6, <1>7, <1>8, <1>9, <1>10, <1>11

(* What is known of an activation. *)
LEMMA CallFacts ==
  ASSUME TypeOK, SavedFramesIntact, NEW k \in 1..Depth
  PROVE  /\ calls[k] \in CallsOf(Len(funcs))
         /\ calls[k].slot \in Int /\ calls[k].fn \in 1..Len(funcs)
         /\ calls[k].top \in Nat /\ calls[k].base \in Nat
         /\ calls[k].pc \in Pcs(Len(funcs)) /\ calls[k].func \in 0..Len(funcs)
         /\ base \in Nat /\ base <= Capacity /\ calls[k].top + 3 <= base
  <1>1. calls[k] \in CallsOf(Len(funcs))
    BY Basics
  <1>2. /\ calls[k].slot \in Int /\ calls[k].fn \in 1..Len(funcs)
        /\ calls[k].top \in Nat /\ calls[k].base \in Nat
        /\ calls[k].pc \in Pcs(Len(funcs)) /\ calls[k].func \in 0..Len(funcs)
    <2>1. /\ calls[k].slot \in Int16 /\ calls[k].fn \in 1..Len(funcs)
          /\ calls[k].top \in 0..Capacity /\ calls[k].base \in 0..Capacity
          /\ calls[k].pc \in Pcs(Len(funcs)) /\ calls[k].func \in 0..Len(funcs)
      BY <1>1 DEF CallsOf
    <2>2. calls[k].slot \in Int
      <3>1. \A i \in Int16 : i \in Int
        BY DEF Int16
      <3> QED BY <2>1, <3>1
    <2>3. calls[k].top \in Nat /\ calls[k].base \in Nat
      BY <2>1, CapacityNat
    <2> QED BY <2>1, <2>2, <2>3
  <1>3. base \in Nat /\ base <= Capacity
    BY CapacityNat DEF TypeOK
  <1>4. calls[k].top + 3 <= base
    BY DEF SavedFramesIntact
  <1> QED BY <1>1, <1>2, <1>3, <1>4

(* The slots in use are at least those of the frames below. *)
LEMMA LiveTopFacts ==
  ASSUME Inv
  PROVE  /\ top \in Nat /\ base \in Nat /\ base <= top /\ top <= Capacity
         /\ LiveTop \in Nat /\ top <= LiveTop /\ LiveTop <= Capacity
  <1>1. top \in Nat /\ base \in Nat /\ base <= top /\ top <= Capacity
    BY CapacityNat DEF Inv, TypeOK, SavedFramesIntact
  <1>2. LiveTop \in Nat /\ top <= LiveTop
    <2>1. CASE AfterCall
      <3> DEFINE p == funcs[pc.f].proto
                 j == pc.i - 1
      <3>1. p \in Protos /\ WellFormed(p) /\ pc.i \in 1..Len(p.ins) /\ pc.i > 1
        BY <2>1, Fetch DEF AfterCall
      <3>2. j \in 1..Len(p.ins)
        <4> HIDE DEF p
        <4> QED BY <3>1
      <3>3. pc \in Pcs(Len(funcs))
        BY DEF Inv, TypeOK
      <3>4. DepOf(Before(pc)) = p.dep[j] /\ LastOp(pc) = p.ins[j].op
        BY <3>3 DEF DepOf, Before, Pcs, LastOp
      <3>5. /\ p.dep[j] \in Nat /\ p.ins[j].op = "CALL" /\ OperandsLive(p.ins[j], p.dep[j])
            /\ p.dep[j + 1] = DepthAfter(p.ins[j], p.dep[j])
            /\ p.ins[j].ab \in Int16
        <4>1. p.ins[j].op = "CALL"
          BY <2>1, <3>4 DEF AfterCall
        <4>2. p.ins[j] \in Instruction /\ Len(p.ins) \in Nat
          <5> HIDE DEF p, j
          <5> QED BY <3>1, <3>2, WellFormedAt
        <4>3. j < Len(p.ins) /\ j + 1 = pc.i
          <5> HIDE DEF p
          <5> QED BY <4>2, <3>1, <3>3 DEF Pcs
        <4> HIDE DEF p, j
        <4> QED BY <3>1, <3>2, <4>1, <4>2, <4>3, WellFormedAt DEF Instruction
      <3>6. p.dep[j + 1] = p.ins[j].ab /\ p.ins[j].ab \in 0..(p.dep[j] - 1)
        <4> HIDE DEF p, j
        <4>1. p.dep[j + 1] = p.ins[j].ab
          BY <3>5 DEF DepthAfter, BinaryOps
        <4>2. p.ins[j].ab \in SlotsOf(p.ins[j])
          BY <3>5 DEF SlotsOf
        <4> QED BY <3>5, <4>1, <4>2 DEF OperandsLive
      <3>7. top - base = p.dep[j + 1]
        <4>1. top - base = p.dep[pc.i] /\ pc.i \in Int
          BY <2>1, <3>3, Fetch DEF AfterCall, Pcs
        <4>2. j + 1 = pc.i
          BY <4>1
        <4> QED BY <4>1, <4>2
      <3>8. LiveTop = base + p.dep[j]
        BY <2>1, <3>4 DEF LiveTop
      <3> HIDE DEF p, j
      <3> QED BY <3>5, <3>6, <3>7, <3>8, <1>1
    <2>2. CASE ~AfterCall
      BY <2>2, <1>1 DEF LiveTop
    <2> QED BY <2>1, <2>2
  <1>3. LiveTop <= Capacity
    BY DEF Inv, ChunksUnreachable
  <1> QED BY <1>1, <1>2, <1>3

-----------------------------------------------------------------------------
(* Steps inside a frame: activations, base and the current function stay,  *)
(* only slots from base on are written, and nothing written is a chunk.    *)

FrameStays ==
  /\ UNCHANGED <<base, func, calls>>
  /\ top' \in base..Capacity
  /\ DOMAIN stack' = 0..Capacity /\ stack' = [s \in DOMAIN stack' |-> stack'[s]]
  /\ \A s \in 0..Capacity : stack'[s] \in SlotValues'
  /\ \A s \in 0..(base - 1) : stack'[s] = stack[s]
  /\ \A s \in base..(top' - 1) : ~IsChunk(stack[s])'

OthersTyped ==
  /\ pc' \in Pcs(Len(funcs)) /\ out' \in Seq(SlotValues) /\ status' \in Statuses
  /\ Len(tables) <= Len(tables)'
  /\ TablesOK'

FuncsGrow == funcs' = funcs \/ funcs' = Append(funcs, CFunc("host"))

(* When the host creates a C function, or no function is created, the      *)
(* functions that were there keep their code and prev.                     *)
LEMMA GrowKeepsFuncs ==
  ASSUME TypeOK, FuncsGrow
  PROVE  /\ FuncsKept
         /\ funcs' \in Seq(FuncsOf(Len(funcs)'))
         /\ \A f \in 1..Len(funcs)' : funcs'[f].kind = "NF" <=> funcs'[f].proto # NoProto
         /\ \A f \in 1..Len(funcs) : funcs'[f] = funcs[f]
         /\ \A f \in 1..Len(funcs)' : f \notin 1..Len(funcs) => funcs'[f].prev = 0
  <1>1. CASE funcs' = funcs
    BY <1>1, Basics DEF TypeOK, FuncsKept
  <1>2. CASE funcs' = Append(funcs, CFunc("host"))
    <2>1. CFunc("host") \in FuncsOf(Len(funcs)) /\ CFunc("host").prev = 0
          /\ CFunc("host").kind # "NF" /\ CFunc("host").proto = NoProto
      BY Basics DEF CFunc, FuncsOf
    <2> QED BY <1>2, <2>1, AppendKeepsFuncs, Basics
  <1> QED BY <1>1, <1>2 DEF FuncsGrow

(* A step inside a frame keeps the invariant if it leaves the depth the    *)
(* parser counted, and no CALL behind it.                                  *)
LEMMA FrameStep ==
  ASSUME Inv, FrameStays, OthersTyped, FuncsGrow, DepthAgrees', ~AfterCall'
  PROVE  Inv'
  <1>1. TypeOK /\ FuncsKept /\ Len(funcs) \in Nat /\ Len(funcs)' \in Nat
        /\ Len(tables) \in Nat /\ Len(tables)' \in Nat /\ Len(funcs) <= Len(funcs)'
    BY Basics, GrowKeepsFuncs DEF Inv, FuncsKept, OthersTyped, TablesOK
  <1>2. /\ SlotValues \subseteq SlotValues'
        /\ Pcs(Len(funcs)) \subseteq Pcs(Len(funcs)')
        /\ CallsOf(Len(funcs)) \subseteq CallsOf(Len(funcs)')
    BY <1>1, Monotone DEF SlotValues, OthersTyped
  <1>3. TypeOK'
    <2>1. stack' \in [0..Capacity -> SlotValues']
      BY DEF FrameStays
    <2>2. top' \in 0..Capacity /\ base' \in 0..Capacity
      BY <1>1, CapacityNat DEF FrameStays, TypeOK
    <2>3. pc' \in Pcs(Len(funcs)') /\ func' \in 0..Len(funcs)'
      BY <1>1, <1>2 DEF OthersTyped, FrameStays, TypeOK
    <2>4. calls' \in Seq(CallsOf(Len(funcs)'))
      BY <1>1, <1>2 DEF FrameStays, TypeOK
    <2>5. out' \in Seq(SlotValues')
      BY <1>2 DEF OthersTyped
    <2>6. status' \in Statuses
      BY DEF OthersTyped
    <2>7. /\ funcs' \in Seq(FuncsOf(Len(funcs)'))
          /\ \A f \in 1..Len(funcs)' : funcs'[f].kind = "NF" <=> funcs'[f].proto # NoProto
      BY <1>1, GrowKeepsFuncs
    <2>8. Len(tables)' \in Nat \ {0}
      <3>1. Len(tables)' \in Nat /\ Len(tables) >= 1 /\ Len(tables) <= Len(tables)'
        BY <1>1, Basics DEF OthersTyped, TablesOK
      <3> QED BY <3>1, <1>1
    <2> QED BY <2>1, <2>2, <2>3, <2>4, <2>5, <2>6, <2>7, <2>8 DEF TypeOK, OthersTyped, TablesOK
  <1>4. SavedFramesIntact'
    <2>1. Depth' = Depth /\ base' = base /\ calls' = calls /\ base' <= top'
      BY DEF Depth, FrameStays
    <2>2. ASSUME NEW k \in 1..Depth
          PROVE  /\ stack'[calls[k].top] = PcV(calls[k].pc)
                 /\ stack'[calls[k].top + 1] = IndexV(calls[k].base)
                 /\ stack'[calls[k].top + 2] = IndexV(calls[k].top + 2)
      <3>1. calls[k].top \in Nat /\ base \in Nat /\ calls[k].top + 3 <= base
        BY CallFacts DEF Inv
      <3>2. /\ stack'[calls[k].top] = stack[calls[k].top]
            /\ stack'[calls[k].top + 1] = stack[calls[k].top + 1]
            /\ stack'[calls[k].top + 2] = stack[calls[k].top + 2]
        BY <3>1 DEF FrameStays
      <3> QED BY <3>2 DEF Inv, SavedFramesIntact
    <2> QED BY <2>1, <2>2 DEF Inv, SavedFramesIntact, FrameBase
  <1>5. CallersResume'
    <2>1. Depth' = Depth /\ calls' = calls /\ Depth \in Nat
      BY <1>1, Basics DEF Depth, FrameStays
    <2>2. \A k \in 1..Depth : k > 1 => calls[k - 1].fn \in 1..Len(funcs)
      <3> TAKE k \in 1..Depth
      <3> HAVE k > 1
      <3>1. k - 1 \in 1..Depth
        BY <2>1
      <3> QED BY <3>1, CallFacts DEF Inv
    <2>3. \A f \in 1..Len(funcs) : funcs'[f].kind = funcs[f].kind /\ funcs'[f].proto = funcs[f].proto
      BY <1>1 DEF FuncsKept
    <2>4. \A k \in 1..Depth : CallerKind(k)' = CallerKind(k)
      BY <2>1, <2>2, <2>3 DEF CallerKind
    <2> SUFFICES ASSUME NEW k \in 1..Depth
                 PROVE  IF CallerKind(k) = "NF"
                   THEN /\ InCodeOf(calls[k - 1].fn, calls[k].pc)'
                        /\ calls[k].pc.i > 1 /\ LastOp(calls[k].pc)' = "CALL"
                        /\ calls[k].slot = DepOf(calls[k].pc)'
                        /\ calls[k].top - calls[k].base = DepOf(Before(calls[k].pc))'
                   ELSE calls[k].slot = -1 /\ calls[k].base < calls[k].top
      BY <2>1, <2>4 DEF CallersResume
    <2>5. CASE CallerKind(k) # "NF"
      BY <2>5 DEF Inv, CallersResume
    <2>6. CASE CallerKind(k) = "NF"
      <3>1. k > 1
        BY <2>6 DEF CallerKind
      <3>2. /\ InCodeOf(calls[k - 1].fn, calls[k].pc)
            /\ calls[k].pc.i > 1 /\ LastOp(calls[k].pc) = "CALL"
            /\ calls[k].slot = DepOf(calls[k].pc)
            /\ calls[k].top - calls[k].base = DepOf(Before(calls[k].pc))
        BY <2>6 DEF Inv, CallersResume
      <3>3. calls[k].pc.f \in 1..Len(funcs) /\ calls[k].pc.f = calls[k - 1].fn
        BY <3>1, <3>2, <2>2 DEF InCodeOf
      <3>4. funcs'[calls[k].pc.f].proto = funcs[calls[k].pc.f].proto
        BY <3>3, <2>3
      <3>5. Before(calls[k].pc).f = calls[k].pc.f
        <4>1. calls[k].pc \in Pcs(Len(funcs))
          BY CallFacts DEF Inv
        <4> QED BY <4>1 DEF Before, Pcs
      <3>6. /\ LastOp(calls[k].pc)' = LastOp(calls[k].pc)
            /\ DepOf(calls[k].pc)' = DepOf(calls[k].pc)
            /\ DepOf(Before(calls[k].pc))' = DepOf(Before(calls[k].pc))
        BY <2>1, <3>4, <3>5 DEF LastOp, DepOf, Before
      <3>7. InCodeOf(calls[k - 1].fn, calls[k].pc)'
        BY <3>2, <3>3, <3>4, <2>1 DEF InCodeOf
      <3> QED BY <2>6, <3>2, <3>6, <3>7
    <2> QED BY <2>5, <2>6
  <1>6. ChunksUnreachable'
    <2>1. LiveTop' = top' /\ top' <= Capacity /\ Depth' = Depth /\ calls' = calls
      BY CapacityNat, LiveTopFacts DEF LiveTop, FrameStays, Depth
    <2>2. PICK t \in Nat : t = top'
      BY CapacityNat, LiveTopFacts DEF FrameStays
    <2>3. ASSUME NEW s \in 0..(t - 1), IsChunk(stack[s])'
          PROVE  \E k \in 1..Depth : calls[k].slot = -1 /\ s = calls[k].top - 1
      <3>1. base \in Nat /\ base <= Capacity
        BY CapacityNat, LiveTopFacts DEF FrameStays
      <3>2. s \in 0..(base - 1) /\ s \in 0..Capacity
        <4>1. ~(s \in base..(t - 1))
          BY <2>2, <2>3 DEF FrameStays
        <4> QED BY <4>1, <3>1, CapacityNat
      <3>3. stack'[s] = stack[s]
        BY <3>2 DEF FrameStays
      <3>4. s \in 0..(LiveTop - 1)
        BY <3>2, LiveTopFacts
      <3>5. stack[s] \in SlotValues
        BY <3>2, <1>1 DEF TypeOK
      <3>6. IsChunk(stack[s])
        <4>1. stack[s].type = "Func" /\ funcs'[stack[s].v].kind = "NF"
          BY <2>3, <3>3 DEF IsChunk
        <4>2. stack[s].v \in 1..Len(funcs)
          BY <4>1, <3>5, <1>1, PayloadTypes DEF SlotValues
        <4> QED BY <4>1, <4>2, <1>1 DEF IsChunk, FuncsKept
      <3> QED BY <3>4, <3>6 DEF Inv, ChunksUnreachable
    <2>4. \A n \in 1..Len(tables)' : \A key \in DOMAIN tables'[n] : ~IsChunk(tables[n][key])'
      BY DEF OthersTyped, TablesOK
    <2> QED BY <2>1, <2>2, <2>3, <2>4 DEF ChunksUnreachable
  <1>7. ChainLongEnough'
    <2>1. PICK r \in [0..Len(funcs) -> Nat] : Linked(r)
      BY DEF Inv, ChainLongEnough
    <2>2. PICK q \in [0..Len(funcs)' -> Nat] :
            \A f \in 0..Len(funcs)' : q[f] = IF f \in 0..Len(funcs) THEN r[f] ELSE 0
      <3> DEFINE q == [f \in 0..Len(funcs)' |-> IF f \in 0..Len(funcs) THEN r[f] ELSE 0]
      <3>1. q \in [0..Len(funcs)' -> Nat]
        OBVIOUS
      <3> QED BY <3>1
    <2>3. func' = func /\ Depth' = Depth /\ func \in 0..Len(funcs)
      BY <1>1 DEF FrameStays, Depth, TypeOK
    <2>4. q[0] = 0 /\ q[func'] >= Depth'
      BY <2>1, <2>2, <2>3, <1>1 DEF Linked
    <2>5. ASSUME NEW f \in 1..Len(funcs)' PROVE q[f] <= q[funcs'[f].prev] + 1
      <3>1. CASE f \in 1..Len(funcs)
        <4>1. funcs'[f].prev = funcs[f].prev /\ funcs[f].prev \in 0..Len(funcs)
          BY <3>1, <1>1, GrowKeepsFuncs, Basics DEF FuncsOf
        <4> QED BY <3>1, <4>1, <2>1, <2>2, <1>1 DEF Linked
      <3>2. CASE f \notin 1..Len(funcs)
        <4>1. q[f] = 0 /\ funcs'[f].prev = 0
          BY <3>2, <2>2, <1>1, GrowKeepsFuncs
        <4>2. q[0] \in Nat
          BY <2>2, <1>1
        <4> QED BY <4>1, <4>2
      <3> QED BY <3>1, <3>2
    <2>6. Linked(q)'
      BY <2>4, <2>5 DEF Linked
    <2> QED BY <2>2, <2>6 DEF ChainLongEnough
  <1> QED BY <1>3, <1>4, <1>5, <1>6, <1>7 DEF Inv

(* There is no chunk in the frame. *)
LEMMA NoChunks ==
  ASSUME Inv, NEW s \in 0..Capacity, base <= s, s < LiveTop
  PROVE  ~IsChunk(stack[s])
  <1>1. SUFFICES ASSUME IsChunk(stack[s]) PROVE FALSE
    OBVIOUS
  <1>2. s \in 0..(LiveTop - 1)
    BY LiveTopFacts, CapacityNat
  <1>3. PICK k \in 1..Depth : s = calls[k].top - 1
    BY <1>1, <1>2 DEF Inv, ChunksUnreachable
  <1>4. calls[k].top \in Nat /\ base \in Nat /\ calls[k].top + 3 <= base
    BY CallFacts DEF Inv
  <1> QED BY <1>3, <1>4, CapacityNat

(* Top moves among the live slots. *)
LEMMA MoveTop ==
  ASSUME Inv, NEW t \in Nat, base <= t, t <= LiveTop, top' = t,
         UNCHANGED <<stack, base, func, funcs, calls>>, Len(tables)' \in Nat, Len(tables) <= Len(tables)'
  PROVE  FrameStays
  <1>1. t \in base..Capacity /\ base \in Nat
    BY LiveTopFacts, CapacityNat
  <1>2. stack' = stack /\ stack \in [0..Capacity -> SlotValues]
    BY DEF Inv, TypeOK
  <1>3. SlotValues \subseteq SlotValues'
    BY Basics, Monotone DEF Inv, SlotValues
  <1>4. ASSUME NEW s \in base..(t - 1) PROVE ~IsChunk(stack[s])'
    <2>1. s \in 0..Capacity /\ base <= s /\ s < LiveTop
      BY LiveTopFacts, CapacityNat, <1>1
    <2>2. ~IsChunk(stack[s])
      BY <2>1, NoChunks
    <2> QED BY <2>2, <1>2 DEF IsChunk
  <1> QED BY <1>1, <1>2, <1>3, <1>4 DEF FrameStays

(* One slot of the frame is written. *)
LEMMA WriteOne ==
  ASSUME Inv, FuncsGrow, NEW x \in 0..Capacity, base <= x, NEW value \in SlotValues', ~IsChunk(value)',
         stack' = [stack EXCEPT ![x] = value],
         NEW t \in Nat, base <= t, t <= Capacity, t <= LiveTop \/ (t = x + 1 /\ x <= LiveTop),
         top' = t, UNCHANGED <<base, func, calls>>,
         Len(tables)' \in Nat, Len(tables) <= Len(tables)'
  PROVE  FrameStays
  <1>1. t \in base..Capacity /\ base \in Nat
    BY LiveTopFacts, CapacityNat
  <1>2. stack \in [0..Capacity -> SlotValues]
    BY DEF Inv, TypeOK
  <1>3. FuncsKept
    BY GrowKeepsFuncs DEF Inv
  <1>4. SlotValues \subseteq SlotValues'
    BY <1>3, Basics, Monotone DEF Inv, SlotValues, FuncsKept
  <1>5. \A s \in 0..Capacity : stack'[s] = IF s = x THEN value ELSE stack[s]
    BY <1>2
  <1>6. \A s \in 0..(base - 1) : stack'[s] = stack[s]
    BY <1>1, <1>5, CapacityNat, LiveTopFacts
  <1>7. ASSUME NEW s \in base..(t - 1) PROVE ~IsChunk(stack[s])'
    <2>1. s \in 0..Capacity
      BY CapacityNat, <1>1
    <2>2. CASE s = x
      BY <1>5, <2>1, <2>2 DEF IsChunk
    <2>3. CASE s # x
      <3>1. base <= s /\ s < LiveTop
        BY <2>3, LiveTopFacts, CapacityNat, <1>1
      <3>2. ~IsChunk(stack[s])
        BY <2>1, <3>1, NoChunks
      <3>3. stack'[s] = stack[s] /\ stack[s] \in SlotValues
        BY <1>2, <1>5, <2>1, <2>3
      <3>4. stack[s].type = "Func" => stack[s].v \in 1..Len(funcs)
        BY <3>3, Basics, PayloadTypes DEF SlotValues, Inv
      <3> QED BY <3>2, <3>3, <3>4, <1>3 DEF IsChunk, FuncsKept
    <2> QED BY <2>2, <2>3
  <1>8. \A s \in 0..Capacity : stack'[s] \in SlotValues'
    BY <1>2, <1>4, <1>5
  <1>9. DOMAIN stack' = 0..Capacity /\ stack' = [s \in DOMAIN stack' |-> stack'[s]]
    BY <1>2
  <1> QED BY <1>1, <1>6, <1>7, <1>8, <1>9 DEF FrameStays

-----------------------------------------------------------------------------
(* The instructions that stay in their frame. *)

(* Such an instruction leads to the next one, with the depth it has.       *)
LEMMA InstrStep ==
  ASSUME Inv, status = "running", Running = "NF", Instr.op \notin {"RET_0", "CALL"}, pc' = NextPc,
         UNCHANGED <<funcs, out, status>>, FrameStays,
         top' = base + DepthAfter(Instr, top - base),
         Len(tables) <= Len(tables)', TablesOK'
  PROVE  Inv'
  <1> DEFINE p == funcs[pc.f].proto
  <1>1. /\ Depth > 0 /\ pc.f \in 1..Len(funcs) /\ pc.f = Current.fn
        /\ pc.i \in 1..Len(p.ins) /\ Instr = p.ins[pc.i] /\ p \in Protos
        /\ pc.i + 1 \in 1..Len(p.ins)
        /\ p.dep[pc.i + 1] = DepthAfter(Instr, top - base) /\ p.dep[pc.i + 1] \in Nat
    BY Fetch
  <1>2. pc \in Pcs(Len(funcs)) /\ base \in Nat
    BY LiveTopFacts DEF Inv, TypeOK
  <1>3. pc' = [f |-> pc.f, i |-> pc.i + 1] /\ pc'.f = pc.f /\ pc'.i = pc.i + 1
    BY <1>2 DEF NextPc, Pcs
  <1>4. pc' \in Pcs(Len(funcs))
    BY <1>2, <1>3 DEF Pcs
  <1>5. base' = base /\ calls' = calls /\ Depth' = Depth /\ Current' = Current /\ funcs' = funcs
    BY DEF FrameStays, Depth, Current
  <1>6. DepthAgrees'
    <2>1. InCodeOf(Current.fn, pc)'
      BY <1>1, <1>3, <1>5 DEF InCodeOf
    <2>2. DepOf(pc)' = p.dep[pc.i + 1]
      BY <1>3, <1>5 DEF DepOf
    <2>3. (top - base)' = p.dep[pc.i + 1]
      <3> HIDE DEF p
      <3>1. PICK d \in Nat : d = p.dep[pc.i + 1]
        BY <1>1
      <3>2. top' = base + d
        BY <1>1, <3>1
      <3> QED BY <3>1, <3>2, <1>2, <1>5
    <2> QED BY <2>1, <2>2, <2>3 DEF DepthAgrees
  <1>7. ~AfterCall'
    <2>1. pc'.i - 1 = pc.i
      BY <1>2, <1>3 DEF Pcs
    <2>2. LastOp(pc)' = Instr.op
      BY <1>1, <1>3, <1>5, <2>1 DEF LastOp
    <2> QED BY <2>2 DEF AfterCall
  <1>8. OthersTyped
    <2>1. out \in Seq(SlotValues) /\ status \in Statuses /\ Len(tables) \in Nat
      BY DEF Inv, TypeOK
    <2>2. Len(funcs) \in Nat /\ Len(tables)' \in Nat
      BY Basics DEF Inv, TablesOK
    <2>3. SlotValues \subseteq SlotValues'
      BY <1>5, <2>1, <2>2, Monotone DEF SlotValues
    <2>4. out' \in Seq(SlotValues')
      BY <2>1, <2>3
    <2> QED BY <2>1, <2>4, <1>4, <1>5 DEF OthersTyped
  <1> QED BY <1>6, <1>7, <1>8, FrameStep DEF FuncsGrow

(* Without a new object or a store the tables stay as they must be.        *)
LEMMA SameTables ==
  ASSUME Inv, UNCHANGED <<funcs, tables>>
  PROVE  TablesOK' /\ Len(tables) <= Len(tables)' /\ Len(tables)' \in Nat
  <1>1. TablesOK
    BY DEF Inv, TypeOK, ChunksUnreachable, TablesOK
  <1>2. TablesOK'
    BY <1>1 DEF TablesOK, SlotValues, IsChunk
  <1> QED BY <1>2, Basics DEF Inv

(* A value that refers to no object but a string can be put in any slot,   *)
(* and is no chunk.                                                        *)
LEMMA PlainIsValue ==
  ASSUME NEW value \in Plain
  PROVE  value \in SlotValues' /\ ~IsChunk(value)'
  BY DEF Plain, SlotValues, SlotValuesOf, IsChunk

(* A push by an instruction. *)
LEMMA PushedOne ==
  ASSUME Inv, NEW value, HasRoom(1)
  PROVE  Pushed(<<value>>) = [stack EXCEPT ![top] = value] /\ top \in 0..Capacity /\ top + 1 <= Capacity
  <1>1. stack \in [0..Capacity -> SlotValues] /\ top \in Nat /\ top + 1 <= Capacity
    BY LiveTopFacts DEF Inv, TypeOK, HasRoom
  <1>2. \A s \in 0..Capacity : s - top + 1 \in 1..1 <=> s = top
    BY <1>1, CapacityNat
  <1>3. Len(<<value>>) = 1 /\ <<value>>[1] = value
    OBVIOUS
  <1>4. DOMAIN stack = 0..Capacity
    BY <1>1
  <1> DEFINE P == Pushed(<<value>>)
             Q == [stack EXCEPT ![top] = value]
  <1>5. P = [s \in 0..Capacity |-> IF s = top THEN value ELSE stack[s]]
    <2>1. \A s \in 0..Capacity : s = top => s - top + 1 = 1
      BY <1>1
    <2> QED BY <1>2, <1>3, <1>4, <2>1 DEF Pushed
  <1>6. Q = [s \in 0..Capacity |-> IF s = top THEN value ELSE stack[s]]
    BY <1>4
  <1> QED BY <1>1, <1>5, <1>6, CapacityNat

(* An instruction that pushes one value that is no chunk keeps the         *)
(* invariant.                                                              *)
LEMMA PushResultStep ==
  ASSUME Inv, status = "running", Running = "NF", Instr.op \notin {"RET_0", "CALL"},
         DepthAfter(Instr, top - base) = top - base + 1,
         NEW value \in SlotValues', ~IsChunk(value)', PushResult(value),
         Len(tables) <= Len(tables)', TablesOK'
  PROVE  Inv'
  <1>1. /\ stack' = [stack EXCEPT ![top] = value] /\ top' = top + 1
        /\ top \in 0..Capacity /\ top + 1 <= Capacity
    BY PushedOne DEF PushResult, Push
  <1>2. Len(tables)' \in Nat
    BY DEF TablesOK
  <1>3. FuncsGrow /\ UNCHANGED <<base, func, calls>>
    BY DEF PushResult, FuncsGrow
  <1>4. FrameStays
    <2> DEFINE t == top + 1
    <2>1. t \in Nat /\ base <= t /\ t <= Capacity /\ t = top + 1 /\ top <= LiveTop /\ base <= top
      BY <1>1, LiveTopFacts
    <2>2. top' = t
      BY <1>1
    <2> HIDE DEF t
    <2> QED BY <1>1, <1>2, <1>3, <2>1, <2>2, WriteOne
  <1>5. top' = base + DepthAfter(Instr, top - base)
    <2>1. base + (top - base + 1) = top + 1
      BY LiveTopFacts
    <2> QED BY <1>1, <2>1
  <1> QED BY <1>4, <1>5, InstrStep DEF PushResult

(* Slots of the frame hold values that are no chunks. *)
LEMMA FrameSlot ==
  ASSUME Inv, NEW i \in 0..(top - base - 1)
  PROVE  stack[base + i] \in SlotValues /\ ~IsChunk(stack[base + i])
         /\ base + i \in 0..Capacity /\ base + i < top /\ Slot(i) = base + i
  <1>1. base + i \in 0..Capacity /\ base <= base + i /\ base + i < LiveTop /\ base + i < top
    BY LiveTopFacts, CapacityNat
  <1>2. stack \in [0..Capacity -> SlotValues]
    BY DEF Inv, TypeOK
  <1>3. Slot(i) = base + i
    BY LiveTopFacts DEF Slot
  <1> QED BY <1>1, <1>2, <1>3, NoChunks

(* A table or value an operand names. *)
LEMMA OperandValue ==
  ASSUME Inv, NEW i, i = PSEUDO_INDEX_GLOBAL \/ i \in 0..(top - base - 1)
  PROVE  ValueAt(i) \in SlotValues /\ ~IsChunk(ValueAt(i))
  <1>1. CASE i = PSEUDO_INDEX_GLOBAL
    BY <1>1, Basics DEF ValueAt, TableV, SlotValues, SlotValuesOf, IsChunk, Inv
  <1>2. CASE i # PSEUDO_INDEX_GLOBAL
    BY <1>2, FrameSlot DEF ValueAt
  <1> QED BY <1>1, <1>2

(* The pseudo index of the registry is never an index of the frame.        *)
LEMMA NotGlobal == \A i \in Nat : i # PSEUDO_INDEX_GLOBAL
  BY DEF PSEUDO_INDEX_GLOBAL

(* CONST keeps the invariant, even if it reads the constants of another    *)
(* chunk.                                                                  *)
LEMMA ConstStep == ASSUME Inv, Const PROVE Inv'
  <1>1. Running = "NF" /\ Instr.op = "CONST" /\ status = "running"
    BY DEF Const, At
  <1>2. CASE ~ConstOk /\ Fails("undefined")
    BY <1>2, FailStep DEF Statuses
  <1>3. CASE ConstOk /\ PushResult(funcs[func].proto.consts[Instr.ab + 1]) /\ UNCHANGED tables
    <2> DEFINE p == funcs[func].proto
    <2>1. func \in 1..Len(funcs) /\ funcs[func].kind = "NF"
      BY <1>3, Basics DEF ConstOk, Inv, TypeOK
    <2>2. p \in Chunks
      BY <2>1, Basics DEF Inv, TypeOK, FuncsOf
    <2>3. p.consts \in Seq(Plain)
      BY <2>2, VmAssumption DEF Protos
    <2>4. Instr.ab \in 0..(Len(p.consts) - 1)
      BY <1>3 DEF ConstOk
    <2> HIDE DEF p
    <2>5. p.consts[Instr.ab + 1] \in Plain
      <3>1. Instr.ab + 1 \in 1..Len(p.consts)
        BY <2>3, <2>4
      <3> QED BY <2>3, <3>1
    <2>6. PICK value \in Plain : value = p.consts[Instr.ab + 1]
      BY <2>5
    <2>7. PushResult(value) /\ UNCHANGED <<funcs, tables>>
      BY <1>3, <2>6 DEF p, PushResult, Push, Pushed
    <2>8. DepthAfter(Instr, top - base) = top - base + 1
      BY <1>1 DEF DepthAfter, BinaryOps
    <2> QED BY <1>1, <2>7, <2>8, PlainIsValue, SameTables, PushResultStep
  <1> QED BY <1>2, <1>3 DEF Const

(* LOAD_NIL keeps the invariant.                                           *)
LEMMA LoadNilStep == ASSUME Inv, LoadNil PROVE Inv'
  <1>1. Running = "NF" /\ Instr.op = "LOAD_NIL" /\ status = "running"
    BY DEF LoadNil, At
  <1>2. Nil \in Plain
    BY DEF Nil, Plain
  <1>3. DepthAfter(Instr, top - base) = top - base + 1
    BY <1>1 DEF DepthAfter, BinaryOps
  <1>4. PICK value \in Plain : value = Nil
    BY <1>2
  <1>5. PushResult(value) /\ UNCHANGED <<funcs, tables>>
    BY <1>4 DEF LoadNil, PushResult, Push, Pushed
  <1> QED BY <1>1, <1>3, <1>5, PlainIsValue, SameTables, PushResultStep

(* PUSH keeps the invariant.                                               *)
LEMMA PushSlotStep == ASSUME Inv, PushSlot PROVE Inv'
  <1>1. Running = "NF" /\ Instr.op = "PUSH" /\ status = "running"
    BY DEF PushSlot, At
  <1>2. Instr.ab \in 0..(top - base - 1)
    BY <1>1, Fetch DEF OperandsLive, SlotsOf
  <1>3. ValueAt(Instr.ab) = stack[base + Instr.ab]
    <2>1. Instr.ab # PSEUDO_INDEX_GLOBAL
      BY <1>2, NotGlobal
    <2> QED BY <1>2, <2>1, FrameSlot DEF ValueAt
  <1>4. PICK value : value = ValueAt(Instr.ab)
    OBVIOUS
  <1>5. value \in SlotValues /\ ~IsChunk(value)
    BY <1>2, <1>3, <1>4, FrameSlot
  <1>6. PushResult(value) /\ UNCHANGED <<funcs, tables>>
    BY <1>4 DEF PushSlot, PushResult, Push, Pushed
  <1>7. value \in SlotValues' /\ ~IsChunk(value)'
    BY <1>5, <1>6 DEF SlotValues, IsChunk
  <1>8. DepthAfter(Instr, top - base) = top - base + 1
    BY <1>1 DEF DepthAfter, BinaryOps
  <1> QED BY <1>1, <1>6, <1>7, <1>8, SameTables, PushResultStep

(* Arithmetic instructions keep the invariant, faults included.            *)
LEMMA ComputeStep == ASSUME Inv, Compute PROVE Inv'
  <1>1. /\ Running = "NF" /\ status = "running" 
        /\ Instr.op \in BinaryOps \cup {"NEG", "LEN"}
    BY DEF Compute, At
  <1>2. Computed \in Plain \/ (Computed.type = "Fault" /\ PlainFault(Computed.v))
    <2>1. Len(funcs) \in Nat /\ Len(tables) \in Nat
      BY Basics DEF Inv
    <2>2. OperandsLive(Instr, top - base)
      BY <1>1, Fetch
    <2>3. CASE Instr.op \in BinaryOps
      <3>1. Instr.ab \in 0..(top - base - 1) /\ Instr.cd \in 0..(top - base - 1)
        BY <2>2, <2>3 DEF OperandsLive, SlotsOf, BinaryOps
      <3>2. ValueAt(Instr.ab) = stack[base + Instr.ab] /\ ValueAt(Instr.cd) = stack[base + Instr.cd]
        BY <3>1, NotGlobal, FrameSlot DEF ValueAt
      <3>3. ValueAt(Instr.ab) \in SlotValues /\ ValueAt(Instr.cd) \in SlotValues
        BY <3>1, <3>2, FrameSlot
      <3>4. Computed = BinOp(Instr.op, ValueAt(Instr.ab), ValueAt(Instr.cd))
        BY <2>3 DEF Computed, BinaryOps
      <3> QED BY <2>1, <2>3, <3>3, <3>4, BinOpType DEF SlotValues
    <2>4. CASE Instr.op \in {"NEG", "LEN"}
      <3>1. Instr.ab \in 0..(top - base - 1)
        BY <2>2, <2>4 DEF OperandsLive, SlotsOf
      <3>2. stack[base + Instr.ab] \in SlotValues
        BY <3>1, FrameSlot
      <3>3. Computed \in {NegOf(stack[base + Instr.ab]), LenOf(stack[base + Instr.ab])}
        BY <2>4 DEF Computed, BinaryOps
      <3> QED BY <2>1, <3>2, <3>3, UnaryType DEF SlotValues
    <2> QED BY <1>1, <2>3, <2>4
  <1>3. CASE Computed.type # "Fault" /\ PushResult(Computed) /\ UNCHANGED tables
    <2>1. PICK value \in Plain : value = Computed
      BY <1>2, <1>3
    <2>2. PushResult(value) /\ UNCHANGED <<funcs, tables>>
      BY <1>3, <2>1 DEF PushResult, Push, Pushed
    <2>3. DepthAfter(Instr, top - base) = top - base + 1 /\ Instr.op \notin {"RET_0", "CALL"}
      BY <1>1 DEF DepthAfter, BinaryOps
    <2> QED BY <1>1, <2>2, <2>3, PlainIsValue, SameTables, PushResultStep
  <1>4. CASE Computed.type = "Fault" /\ Fails(Computed.v)
    <2>1. Computed \notin Plain
      BY <1>4 DEF Plain
    <2>2. PICK why \in Statuses : why = Computed.v
      BY <1>2, <2>1 DEF PlainFault, Statuses
    <2>3. Fails(why)
      BY <1>4, <2>2 DEF Fails
    <2> QED BY <2>3, FailStep
  <1> QED BY <1>3, <1>4 DEF Compute

(* Tables after a store, and after a new table. *)
LEMMA StoreKeepsTables ==
  ASSUME Inv, NEW t \in 1..Len(tables), NEW key, NEW value \in SlotValues, ~IsChunk(value),
         tables' = [tables EXCEPT ![t] = Stored(@, key, value)], UNCHANGED funcs
  PROVE  TablesOK' /\ Len(tables)' = Len(tables)
  <1>1. TablesOK
    BY DEF Inv, TypeOK, ChunksUnreachable, TablesOK
  <1>2. DOMAIN tables = 1..Len(tables) /\ Len(tables) \in Nat
    BY <1>1 DEF TablesOK
  <1>3. Len(tables)' = Len(tables) /\ tables' = [i \in 1..Len(tables)' |-> tables'[i]]
    <2>1. tables' = [i \in 1..Len(tables) |-> tables'[i]]
      BY <1>2
    <2> DEFINE S == {tables'[i] : i \in 1..Len(tables)}
    <2>2. tables' \in [1..Len(tables) -> S]
      BY <2>1
    <2>3. Len(tables)' = Len(tables)
      <3> HIDE DEF S
      <3> QED BY <1>2, <2>2, FunctionIsSeq
    <2> QED BY <2>1, <2>3
  <1>4. SlotValues' = SlotValues /\ \A x : IsChunk(x)' <=> IsChunk(x)
    BY <1>3 DEF SlotValues, IsChunk
  <1>5. ASSUME NEW i \in 1..Len(tables), NEW k \in DOMAIN tables'[i]
        PROVE  tables'[i][k] \in SlotValues /\ ~IsChunk(tables'[i][k])
    <2>1. CASE i = t
      <3>1. tables'[i] = Stored(tables[t], key, value)
        BY <1>2, <2>1
      <3> QED BY <1>1, <3>1 DEF TablesOK, Stored
    <2>2. CASE i # t
      <3>1. tables'[i] = tables[i]
        BY <1>2, <2>2
      <3> QED BY <1>1, <3>1 DEF TablesOK
    <2> QED BY <2>1, <2>2
  <1>6. ASSUME NEW i \in 1..Len(tables)', NEW k \in DOMAIN tables'[i]
        PROVE  tables'[i][k] \in SlotValues' /\ ~IsChunk(tables[i][k])'
    <2>1. tables'[i][k] \in SlotValues /\ ~IsChunk(tables'[i][k])
      BY <1>3, <1>5
    <2> QED BY <2>1, <1>4 DEF IsChunk
  <1> QED BY <1>2, <1>3, <1>6 DEF TablesOK

(* A new table is empty, the others stay as they are.                      *)
LEMMA NewTableKeepsTables ==
  ASSUME Inv, tables' = Append(tables, <<>>), UNCHANGED funcs
  PROVE  TablesOK' /\ Len(tables)' = Len(tables) + 1
  <1>1. TablesOK /\ Len(tables) \in Nat /\ Len(funcs) \in Nat
    BY Basics DEF Inv, TypeOK, ChunksUnreachable, TablesOK
  <1> DEFINE S == {tables[t] : t \in 1..Len(tables)} \cup {<<>>}
  <1>2. tables \in Seq(S)
    <2>1. tables = [t \in 1..Len(tables) |-> tables[t]]
      BY <1>1 DEF TablesOK
    <2>2. tables \in [1..Len(tables) -> S]
      BY <2>1
    <2> HIDE DEF S
    <2> QED BY <1>1, <2>2, FunctionIsSeq
  <1>3. /\ Len(tables)' = Len(tables) + 1 /\ tables' = [t \in 1..Len(tables)' |-> tables'[t]]
        /\ \A t \in 1..Len(tables) : tables'[t] = tables[t]
        /\ tables'[Len(tables) + 1] = <<>>
    <2>1. <<>> \in S
      OBVIOUS
    <2> HIDE DEF S
    <2>2. PICK f \in Seq(S) : f = tables'
      BY <1>2, <2>1, AppendFacts
    <2>3. f = [t \in 1..Len(f) |-> f[t]]
      BY SeqIsFunction
    <2> QED BY <1>2, <2>1, <2>2, <2>3, AppendFacts
  <1>4. SlotValues \subseteq SlotValues'
    <2>1. Len(tables) <= Len(tables) + 1 /\ Len(tables) + 1 \in Nat /\ Len(funcs) <= Len(funcs)
      BY <1>1
    <2>2. SlotValuesOf(Len(funcs), Len(tables)) \subseteq SlotValuesOf(Len(funcs), Len(tables) + 1)
      BY <1>1, <2>1, Monotone
    <2> QED BY <1>3, <2>2 DEF SlotValues
  <1>5. ASSUME NEW t \in 1..Len(tables)', NEW k \in DOMAIN tables'[t]
        PROVE  tables'[t][k] \in SlotValues' /\ ~IsChunk(tables[t][k])'
    <2>1. t \in 1..Len(tables)
      <3>1. t # Len(tables) + 1
        BY <1>3, <1>5
      <3> QED BY <1>2, <1>3, <3>1
    <2>2. tables'[t] = tables[t]
      BY <1>3, <2>1
    <2>3. tables[t][k] \in SlotValues /\ ~IsChunk(tables[t][k])
      BY <1>1, <2>1, <2>2 DEF TablesOK
    <2> QED BY <1>4, <2>2, <2>3 DEF IsChunk
  <1> QED BY <1>2, <1>3, <1>5 DEF TablesOK

(* NEW_TABLE keeps the invariant.                                          *)
LEMMA NewTableStep == ASSUME Inv, NewTable PROVE Inv'
  <1>1. Running = "NF" /\ Instr.op = "NEW_TABLE" /\ status = "running"
    BY DEF NewTable, At
  <1>2. UNCHANGED funcs /\ TablesOK' /\ Len(tables)' = Len(tables) + 1 /\ Len(tables) \in Nat
    BY NewTableKeepsTables, Basics DEF NewTable, PushResult, Inv
  <1>3. PICK n \in Nat : n = Len(tables) + 1
    BY <1>2
  <1>4. PICK value : value = TableV(n)
    OBVIOUS
  <1>5. value \in SlotValues' /\ ~IsChunk(value)'
    <2>1. n \in 1..Len(tables)'
      BY <1>2, <1>3
    <2> QED BY <1>4, <2>1 DEF TableV, SlotValues, SlotValuesOf, IsChunk
  <1>6. PushResult(value)
    BY <1>3, <1>4 DEF NewTable, PushResult, Push, Pushed
  <1>7. DepthAfter(Instr, top - base) = top - base + 1
    BY <1>1 DEF DepthAfter, BinaryOps
  <1>8. Len(tables) <= Len(tables)'
    BY <1>2
  <1> QED BY <1>1, <1>2, <1>5, <1>6, <1>7, <1>8, PushResultStep

(* An instruction that takes the value on top of the frame away. *)
LEMMA TopValue ==
  ASSUME Inv, Running = "NF", Instr.op \in {"SET", "TABLE_SET", "TABLE_GET"}
  PROVE  /\ stack[top - 1] \in SlotValues /\ ~IsChunk(stack[top - 1])
         /\ top - 1 \in 0..Capacity /\ base <= top - 1 /\ top - 1 < top
         /\ top - 1 \in Nat /\ top - 1 <= LiveTop
  <1>1. top - base >= 1
    BY Fetch DEF OperandsLive
  <1>2. /\ top - 1 \in 0..Capacity /\ base <= top - 1 /\ top - 1 < LiveTop
        /\ top - 1 < top /\ top - 1 \in Nat /\ top - 1 <= LiveTop
    BY <1>1, LiveTopFacts, CapacityNat
  <1> QED BY <1>2, NoChunks DEF Inv, TypeOK

(* SET keeps the invariant.                                                *)
LEMMA SetSlotStep == ASSUME Inv, SetSlot PROVE Inv'
  <1>1. Running = "NF" /\ Instr.op = "SET" /\ status = "running"
    BY DEF SetSlot, At
  <1>2. Instr.ab \in 0..(top - base - 1)
    <2>1. Instr.ab \in SlotsOf(Instr)
      BY <1>1 DEF SlotsOf
    <2> QED BY <1>1, <2>1, Fetch DEF OperandsLive
  <1>3. PICK x \in 0..Capacity : x = SetTarget /\ base <= x
    BY <1>2, FrameSlot, LiveTopFacts DEF SetTarget
  <1>4. PICK value : value = stack[top - 1]
    OBVIOUS
  <1>5. UNCHANGED <<funcs, tables, base, func, calls, out, status>> /\ pc' = NextPc
    BY DEF SetSlot
  <1>6. value \in SlotValues' /\ ~IsChunk(value)'
    BY <1>1, <1>4, <1>5, TopValue DEF SlotValues, IsChunk
  <1>7. PICK t \in Nat : t = top - 1 /\ base <= t /\ t <= Capacity /\ t <= LiveTop
    BY <1>1, TopValue, CapacityNat
  <1>8. stack' = [stack EXCEPT ![x] = value] /\ top' = t
    BY <1>3, <1>4, <1>7 DEF SetSlot
  <1>9. TablesOK' /\ Len(tables) <= Len(tables)' /\ Len(tables)' \in Nat
    BY <1>5, SameTables
  <1>10. FrameStays
    BY <1>3, <1>5, <1>6, <1>7, <1>8, <1>9, WriteOne DEF FuncsGrow
  <1>11. top' = base + DepthAfter(Instr, top - base)
    <2>1. DepthAfter(Instr, top - base) = top - base - 1
      BY <1>1 DEF DepthAfter, BinaryOps
    <2> QED BY <1>7, <1>8, <2>1, LiveTopFacts
  <1> QED BY <1>1, <1>5, <1>9, <1>10, <1>11, InstrStep

(* TABLE_SET keeps the invariant.                                          *)
LEMMA TableSetStep == ASSUME Inv, TableSet PROVE Inv'
  <1> DEFINE table == ValueAt(Instr.ab)
             key == ValueAt(Instr.cd)
  <1>1. Running = "NF" /\ Instr.op = "TABLE_SET" /\ status = "running"
    BY DEF TableSet, At
  <1>2. CASE ~Usable(table, key) /\ Fails("undefined")
    BY <1>2, FailStep DEF Statuses
  <1>3. CASE /\ Usable(table, key)
             /\ tables' = [tables EXCEPT ![table.v] = Stored(@, key, stack[top - 1])]
             /\ top' = top - 1
             /\ pc' = NextPc
             /\ UNCHANGED <<stack, base, func, funcs, calls, out, status>>
    <2>1. Instr.ab = PSEUDO_INDEX_GLOBAL \/ Instr.ab \in 0..(top - base - 1)
      <3>1. Instr.ab \in SlotsOf(Instr)
        BY <1>1 DEF SlotsOf, BinaryOps
      <3> QED BY <1>1, <3>1, Fetch DEF OperandsLive
    <2>2. table \in SlotValues
      BY <2>1, OperandValue
    <2>3. table.v \in 1..Len(tables)
      BY <1>3, <2>2, Basics, PayloadTypes DEF Usable, SlotValues, Inv
    <2>4. PICK value \in SlotValues : value = stack[top - 1] /\ ~IsChunk(value)
      BY <1>1, TopValue
    <2>5. PICK n \in 1..Len(tables) : n = table.v
      BY <2>3
    <2>6. TablesOK' /\ Len(tables)' = Len(tables)
      <3>1. PICK k : k = key
        OBVIOUS
      <3> HIDE DEF key, table
      <3>2. tables' = [tables EXCEPT ![n] = Stored(@, k, value)] /\ UNCHANGED funcs
        BY <1>3, <2>4, <2>5, <3>1
      <3> QED BY <2>4, <3>2, StoreKeepsTables
    <2>7. PICK t \in Nat : t = top - 1 /\ base <= t /\ t <= LiveTop
      BY <1>1, TopValue
    <2>8. Len(tables)' \in Nat /\ Len(tables) <= Len(tables)'
      BY <2>6, Basics DEF Inv
    <2>9. FrameStays
      BY <1>3, <2>7, <2>8, MoveTop
    <2>10. top' = base + DepthAfter(Instr, top - base)
      <3>1. DepthAfter(Instr, top - base) = top - base - 1
        BY <1>1 DEF DepthAfter, BinaryOps
      <3> QED BY <1>3, <3>1, LiveTopFacts
    <2> QED BY <1>1, <1>3, <2>6, <2>8, <2>9, <2>10, InstrStep
  <1> QED BY <1>2, <1>3 DEF TableSet

(* TABLE_GET keeps the invariant.                                          *)
LEMMA TableGetStep == ASSUME Inv, TableGet PROVE Inv'
  <1> DEFINE table == ValueAt(Instr.ab)
             key == stack[top - 1]
  <1>1. Running = "NF" /\ Instr.op = "TABLE_GET" /\ status = "running"
    BY DEF TableGet, At
  <1>2. CASE ~Usable(table, key) /\ Fails("undefined")
    BY <1>2, FailStep DEF Statuses
  <1>3. CASE /\ Usable(table, key)
             /\ stack' = [stack EXCEPT ![top - 1] = Lookup(tables[table.v], key)]
             /\ pc' = NextPc
             /\ UNCHANGED <<top, base, func, funcs, tables, calls, out, status>>
    <2>1. Instr.ab = PSEUDO_INDEX_GLOBAL \/ Instr.ab \in 0..(top - base - 1)
      <3>1. Instr.ab \in SlotsOf(Instr)
        BY <1>1 DEF SlotsOf
      <3> QED BY <1>1, <3>1, Fetch DEF OperandsLive
    <2>2. table \in SlotValues
      BY <2>1, OperandValue
    <2>3. table.v \in 1..Len(tables)
      BY <1>3, <2>2, Basics, PayloadTypes DEF Usable, SlotValues, Inv
    <2>4. PICK value : value = Lookup(tables[table.v], key)
      OBVIOUS
    <2>5. value \in SlotValues /\ ~IsChunk(value)
      <3>1. CASE key \in DOMAIN tables[table.v]
        BY <2>3, <2>4, <3>1 DEF Lookup, Inv, TypeOK, ChunksUnreachable
      <3>2. CASE key \notin DOMAIN tables[table.v]
        BY <2>4, <3>2 DEF Lookup, Nil, SlotValues, SlotValuesOf, Plain, IsChunk
      <3> QED BY <3>1, <3>2
    <2>6. value \in SlotValues' /\ ~IsChunk(value)'
      BY <1>3, <2>5 DEF SlotValues, IsChunk
    <2>7. PICK x \in 0..Capacity : x = top - 1 /\ base <= x
      BY <1>1, TopValue
    <2>8. PICK t \in Nat : t = top /\ base <= t /\ t <= Capacity /\ t <= LiveTop
      BY LiveTopFacts
    <2>9. stack' = [stack EXCEPT ![x] = value] /\ top' = t
      BY <1>3, <2>4, <2>7, <2>8
    <2>10. TablesOK' /\ Len(tables) <= Len(tables)' /\ Len(tables)' \in Nat
      BY <1>3, SameTables
    <2>11. FrameStays
      BY <1>3, <2>6, <2>7, <2>8, <2>9, <2>10, WriteOne DEF FuncsGrow
    <2>12. top' = base + DepthAfter(Instr, top - base)
      <3>1. DepthAfter(Instr, top - base) = top - base
        BY <1>1 DEF DepthAfter, BinaryOps
      <3> QED BY <1>3, <3>1, LiveTopFacts
    <2> QED BY <1>1, <1>3, <2>10, <2>11, <2>12, InstrStep
  <1> QED BY <1>2, <1>3 DEF TableGet

(* A negative POP may bring slots back, but only live ones.                *)
LEMMA PopStep == ASSUME Inv, Pop PROVE Inv'
  <1> DEFINE p == funcs[pc.f].proto
             j == pc.i - 1
  <1>1. Running = "NF" /\ Instr.op = "POP" /\ status = "running"
    BY DEF Pop, At
  <1>2. /\ p \in Protos /\ WellFormed(p) /\ pc.i \in 1..Len(p.ins) /\ Instr = p.ins[pc.i]
        /\ p.dep[pc.i + 1] = DepthAfter(Instr, top - base) /\ p.dep[pc.i + 1] \in Nat
        /\ Instr \in Instruction
    BY <1>1, Fetch
  <1>3. DepthAfter(Instr, top - base) = top - base - Instr.ab
    BY <1>1 DEF DepthAfter, BinaryOps
  <1>4. Instr.ab \in Int
    <2>1. \A i \in Int16 : i \in Int
      BY DEF Int16
    <2> QED BY <1>2, <2>1 DEF Instruction
  <1>5. PICK d \in Nat : d = top - base - Instr.ab
    BY <1>2, <1>3
  <1>6. base + d <= LiveTop
    <2>1. CASE Instr.ab >= 0
      BY <1>4, <1>5, <2>1, LiveTopFacts
    <2>2. CASE Instr.ab < 0
      <3>1. pc.i > 1 /\ p.ins[j].op = "CALL" /\ p.dep[pc.i + 1] <= p.dep[j]
        <4> HIDE DEF p
        <4> QED BY <1>1, <1>2, <2>2, WellFormedAt
      <3>2. pc \in Pcs(Len(funcs))
        BY DEF Inv, TypeOK
      <3>3. DepOf(Before(pc)) = p.dep[j] /\ LastOp(pc) = p.ins[j].op
        BY <3>2 DEF DepOf, Before, Pcs, LastOp
      <3>4. AfterCall
        BY <1>1, <3>1, <3>3 DEF AfterCall
      <3>5. LiveTop = base + p.dep[j]
        BY <3>3, <3>4 DEF LiveTop
      <3>6. p.dep[j] \in Nat
        <4>1. j \in 1..Len(p.ins)
          <5> HIDE DEF p
          <5>1. Len(p.ins) \in Nat
            BY <1>2, WellFormedAt
          <5> QED BY <1>2, <3>1, <5>1
        <4> HIDE DEF p, j
        <4> QED BY <1>2, <4>1, WellFormedAt
      <3>7. d <= p.dep[j]
        BY <1>2, <1>3, <1>5, <3>1
      <3> HIDE DEF p, j
      <3> QED BY <3>5, <3>6, <3>7, LiveTopFacts
    <2> QED BY <1>4, <2>1, <2>2
  <1>7. PICK t \in Nat : t = base + d /\ base <= t /\ t <= LiveTop
    BY <1>6, LiveTopFacts
  <1>8. top' = t /\ UNCHANGED <<stack, base, func, funcs, tables, calls, out, status>> /\ pc' = NextPc
    <2>1. top - Instr.ab = t
      BY <1>4, <1>5, <1>7, LiveTopFacts
    <2> QED BY <2>1 DEF Pop
  <1>9. TablesOK' /\ Len(tables) <= Len(tables)' /\ Len(tables)' \in Nat
    BY <1>8, SameTables
  <1>10. FrameStays
    BY <1>7, <1>8, <1>9, MoveTop
  <1>11. top' = base + DepthAfter(Instr, top - base)
    BY <1>3, <1>5, <1>7, <1>8
  <1>12. Instr.op \notin {"RET_0", "CALL"}
    BY <1>1
  <1> QED BY <1>1, <1>8, <1>9, <1>10, <1>11, <1>12, InstrStep

-----------------------------------------------------------------------------
(* The host, in its frame. *)

(* A call of the API by the host that stays in the host's frame keeps the  *)
(* invariant.                                                              *)
LEMMA HostStep ==
  ASSUME Inv, HostTurn, FrameStays, FuncsGrow, UNCHANGED <<pc, out, status>>,
         Len(tables) <= Len(tables)', TablesOK'
  PROVE  Inv'
  <1>1. calls' = calls /\ Depth' = Depth /\ Current' = Current
    BY DEF FrameStays, Depth, Current
  <1>2. Running' = "host"
    <2>1. CASE Depth = 0
      BY <1>1, <2>1 DEF Running
    <2>2. CASE Depth # 0
      <3>1. Depth \in 1..Depth
        BY <2>2, Basics DEF Inv
      <3>2. Current.fn \in 1..Len(funcs)
        BY <3>1, CallFacts DEF Current, Inv
      <3>3. funcs'[Current.fn].kind = funcs[Current.fn].kind
        BY <3>2, GrowKeepsFuncs DEF FuncsKept, Inv
      <3> QED BY <1>1, <2>2, <3>3 DEF Running, HostTurn
    <2> QED BY <2>1, <2>2
  <1>3. DepthAgrees' /\ ~AfterCall'
    BY <1>2 DEF DepthAgrees, AfterCall
  <1>4. OthersTyped
    <2>1. out \in Seq(SlotValues) /\ status \in Statuses /\ pc \in Pcs(Len(funcs))
      BY DEF Inv, TypeOK
    <2>2. Len(tables) \in Nat /\ Len(funcs) \in Nat
      BY Basics DEF Inv
    <2>3. Len(tables)' \in Nat /\ Len(funcs)' \in Nat /\ Len(funcs) <= Len(funcs)'
      BY GrowKeepsFuncs DEF TablesOK, FuncsKept, Inv
    <2>4. SlotValues \subseteq SlotValues'
      BY <2>2, <2>3, Monotone DEF SlotValues
    <2>5. out' \in Seq(SlotValues')
      BY <2>1, <2>4
    <2> QED BY <2>1, <2>5 DEF OthersTyped
  <1> QED BY <1>3, <1>4, FrameStep

(* A push by the host. *)
LEMMA HostPushStep ==
  ASSUME Inv, HostTurn, FuncsGrow, NEW value \in SlotValues', ~IsChunk(value)', Push(value),
         UNCHANGED <<base, pc, func, calls, out, status>>,
         Len(tables) <= Len(tables)', TablesOK'
  PROVE  Inv'
  <1>1. /\ stack' = [stack EXCEPT ![top] = value] /\ top' = top + 1
        /\ top \in 0..Capacity /\ top + 1 <= Capacity
    BY PushedOne DEF Push
  <1>2. PICK t \in Nat : t = top + 1 /\ base <= t /\ base <= top /\ top <= LiveTop
    BY <1>1, LiveTopFacts
  <1>3. Len(tables)' \in Nat
    BY DEF TablesOK
  <1>4. FrameStays
    BY <1>1, <1>2, <1>3, WriteOne
  <1> QED BY <1>4, HostStep

(* new_str keeps the invariant.                                            *)
LEMMA HostPushStrStep == ASSUME Inv, HostPushStr PROVE Inv'
  <1>1. PICK s \in HostNames : Push(StrV(s))
    BY DEF HostPushStr
  <1>2. StrV(s) \in Plain
    BY VmAssumption DEF StrV, Plain
  <1>3. PICK value \in Plain : value = StrV(s)
    BY <1>2
  <1>4. Push(value)
    BY <1>1, <1>3
  <1>5. HostTurn /\ UNCHANGED <<base, pc, func, funcs, tables, calls, out, status>>
    BY DEF HostPushStr, HostMayPush
  <1> QED BY <1>4, <1>5, PlainIsValue, SameTables, HostPushStep DEF FuncsGrow

(* new_table keeps the invariant.                                          *)
LEMMA HostPushTableStep == ASSUME Inv, HostPushTable PROVE Inv'
  <1>1. HostTurn /\ UNCHANGED <<base, pc, func, funcs, calls, out, status>>
    BY DEF HostPushTable, HostMayPush
  <1>2. TablesOK' /\ Len(tables)' = Len(tables) + 1 /\ Len(tables) \in Nat
    BY <1>1, NewTableKeepsTables, Basics DEF HostPushTable, Inv
  <1>3. PICK n \in Nat : n = Len(tables) + 1
    BY <1>2
  <1>4. PICK value : value = TableV(n)
    OBVIOUS
  <1>5. value \in SlotValues' /\ ~IsChunk(value)'
    <2>1. n \in 1..Len(tables)'
      BY <1>2, <1>3
    <2> QED BY <1>4, <2>1 DEF TableV, SlotValues, SlotValuesOf, IsChunk
  <1>6. Push(value)
    BY <1>3, <1>4 DEF HostPushTable
  <1>7. Len(tables) <= Len(tables)'
    BY <1>2
  <1> QED BY <1>1, <1>2, <1>5, <1>6, <1>7, HostPushStep DEF FuncsGrow

(* push_func creates a C function, which no slot or table takes for a      *)
(* chunk.                                                                  *)
LEMMA HostFuncAdded ==
  ASSUME Inv, funcs' = Append(funcs, CFunc("host")), UNCHANGED tables
  PROVE  /\ FuncsGrow /\ Len(funcs)' = Len(funcs) + 1 /\ funcs'[Len(funcs) + 1].kind = "host"
         /\ TablesOK' /\ Len(tables) <= Len(tables)'
  <1>1. CFunc("host") \in FuncsOf(Len(funcs)) /\ CFunc("host").kind # "NF"
        /\ CFunc("host").proto = NoProto /\ CFunc("host").kind = "host"
    BY Basics DEF CFunc, FuncsOf, Inv
  <1>2. /\ FuncsKept /\ Len(funcs)' = Len(funcs) + 1
        /\ \A f \in 1..Len(funcs) : funcs'[f] = funcs[f]
        /\ funcs'[Len(funcs) + 1] = CFunc("host")
    BY <1>1, AppendKeepsFuncs DEF Inv
  <1>3. TablesOK /\ Len(tables) \in Nat /\ Len(funcs) \in Nat
    BY Basics DEF Inv, TypeOK, ChunksUnreachable, TablesOK
  <1>4. SlotValues \subseteq SlotValues'
    BY <1>2, <1>3, Monotone DEF SlotValues, FuncsKept
  <1>5. ASSUME NEW t \in 1..Len(tables), NEW k \in DOMAIN tables[t]
        PROVE  tables[t][k] \in SlotValues' /\ ~IsChunk(tables[t][k])'
    <2>1. tables[t][k] \in SlotValues /\ ~IsChunk(tables[t][k])
      BY <1>3 DEF TablesOK
    <2>2. tables[t][k].type = "Func" => tables[t][k].v \in 1..Len(funcs)
      BY <2>1, <1>3, PayloadTypes DEF SlotValues
    <2> QED BY <1>2, <1>4, <2>1, <2>2 DEF IsChunk, FuncsKept
  <1>6. TablesOK' /\ Len(tables) <= Len(tables)'
    BY <1>3, <1>5 DEF TablesOK
  <1> QED BY <1>1, <1>2, <1>6 DEF FuncsGrow

(* push_func keeps the invariant.                                          *)
LEMMA HostPushFuncStep == ASSUME Inv, HostPushFunc PROVE Inv'
  <1>1. /\ HostTurn /\ UNCHANGED <<base, pc, func, tables, calls, out, status>>
        /\ funcs' = Append(funcs, CFunc("host"))
    BY DEF HostPushFunc, HostMayPush
  <1>2. /\ FuncsGrow /\ Len(funcs)' = Len(funcs) + 1 /\ funcs'[Len(funcs) + 1].kind = "host"
        /\ TablesOK' /\ Len(tables) <= Len(tables)'
    BY <1>1, HostFuncAdded
  <1>3. PICK n \in Nat : n = Len(funcs) + 1
    BY Basics DEF Inv
  <1>4. PICK value : value = FuncV(n)
    OBVIOUS
  <1>5. value \in SlotValues' /\ ~IsChunk(value)'
    <2>1. n \in 1..Len(funcs)'
      BY <1>2, <1>3
    <2> QED BY <1>2, <1>3, <1>4, <2>1 DEF FuncV, SlotValues, SlotValuesOf, IsChunk
  <1>6. Push(value)
    BY <1>3, <1>4 DEF HostPushFunc
  <1> QED BY <1>1, <1>2, <1>5, <1>6, HostPushStep

(* set_table keeps the invariant.                                          *)
LEMMA HostSetTableStep ==
  ASSUME Inv, NEW table_slot \in Int, NEW key_slot \in Int, HostSetTable(table_slot, key_slot)
  PROVE  Inv'
  <1> DEFINE table == ValueAt(table_slot)
             key == ValueAt(key_slot)
  <1>1. /\ HostTurn /\ HostFrame >= 2 /\ table.type = "Table"
        /\ tables' = [tables EXCEPT ![table.v] = Stored(@, key, stack[top - 1])]
        /\ top' = top - 1
        /\ UNCHANGED <<stack, base, pc, func, funcs, calls, out, status>>
        /\ table_slot = PSEUDO_INDEX_GLOBAL \/ -table_slot \in 2..HostFrame
    BY DEF HostSetTable
  <1>2. /\ top - 1 \in 0..Capacity /\ base <= top - 1 /\ top - 1 < LiveTop
        /\ top - 1 \in Nat /\ top - 1 <= LiveTop
    BY <1>1, LiveTopFacts, CapacityNat DEF HostFrame
  <1>3. PICK value \in SlotValues : value = stack[top - 1] /\ ~IsChunk(value)
    BY <1>2, NoChunks DEF Inv, TypeOK
  <1>4. table \in SlotValues
    <2>1. CASE table_slot = PSEUDO_INDEX_GLOBAL
      BY <2>1, OperandValue
    <2>2. CASE table_slot # PSEUDO_INDEX_GLOBAL
      <3>1. -table_slot \in 2..HostFrame
        BY <1>1, <2>2
      <3>2. Slot(table_slot) = top + table_slot /\ top + table_slot \in 0..Capacity
        BY <3>1, LiveTopFacts, CapacityNat DEF Slot, HostFrame
      <3>3. table = stack[top + table_slot]
        BY <2>2, <3>2 DEF ValueAt
      <3> QED BY <3>2, <3>3 DEF Inv, TypeOK
    <2> QED BY <2>1, <2>2
  <1>5. PICK n \in 1..Len(tables) : n = table.v
    BY <1>1, <1>4, Basics, PayloadTypes DEF SlotValues, Inv
  <1>6. TablesOK' /\ Len(tables)' = Len(tables)
    <2>1. PICK k : k = key
      OBVIOUS
    <2> HIDE DEF key, table
    <2>2. tables' = [tables EXCEPT ![n] = Stored(@, k, value)] /\ UNCHANGED funcs
      BY <1>1, <1>3, <1>5, <2>1
    <2> QED BY <1>3, <2>2, StoreKeepsTables
  <1>7. PICK t \in Nat : t = top - 1 /\ base <= t /\ t <= LiveTop
    BY <1>2
  <1>8. Len(tables)' \in Nat /\ Len(tables) <= Len(tables)'
    BY <1>6, Basics DEF Inv
  <1>9. FrameStays
    BY <1>1, <1>7, <1>8, MoveTop
  <1> QED BY <1>1, <1>6, <1>8, <1>9, HostStep DEF FuncsGrow

(* Taking slots off the host's own frame keeps the invariant.              *)
LEMMA HostMovesTop ==
  ASSUME Inv, HostTurn, NEW t \in Nat, base <= t, t <= top, top' = t,
         UNCHANGED <<stack, base, pc, func, funcs, tables, calls, out, status>>
  PROVE  Inv'
  <1>1. t <= LiveTop
    BY LiveTopFacts
  <1>2. TablesOK' /\ Len(tables) <= Len(tables)' /\ Len(tables)' \in Nat
    BY SameTables
  <1>3. FrameStays
    BY <1>1, <1>2, MoveTop
  <1> QED BY <1>2, <1>3, HostStep DEF FuncsGrow

(* pop keeps the invariant.                                                *)
LEMMA HostPopStep == ASSUME Inv, NEW n \in Nat, HostPop(n) PROVE Inv'
  <1>1. PICK t \in Nat : t = top - n /\ base <= t /\ t <= top
    BY LiveTopFacts DEF HostPop, HostFrame
  <1> QED BY <1>1, HostMovesTop DEF HostPop

(* set_top keeps the invariant, whether it shrinks the frame or throws.    *)
LEMMA HostSetTopStep == ASSUME Inv, NEW n \in Nat, HostSetTop(n) PROVE Inv'
  <1>1. CASE n > HostFrame /\ Fails("OVER_LIMIT")
    BY <1>1, FailStep DEF Statuses
  <1>2. CASE /\ n <= HostFrame
             /\ top' = base + n
             /\ UNCHANGED <<stack, base, pc, func, funcs, tables, calls, out, status>>
    <2>1. PICK t \in Nat : t = base + n /\ base <= t /\ t <= top
      BY <1>2, LiveTopFacts DEF HostFrame
    <2> QED BY <1>2, <2>1, HostMovesTop DEF HostSetTop
  <1> QED BY <1>1, <1>2 DEF HostSetTop

-----------------------------------------------------------------------------
(* Calls. *)

(* What CallersResume says of one activation c, called from function fn. *)
ResumeOK(kind, fn, c) ==
  IF kind = "NF"
    THEN /\ InCodeOf(fn, c.pc) /\ c.pc.i > 1 /\ LastOp(c.pc) = "CALL"
         /\ c.slot = DepOf(c.pc) /\ c.top - c.base = DepOf(Before(c.pc))
    ELSE c.slot = -1 /\ c.base < c.top

(* Where an activation goes on does not change when functions are created  *)
(* or linked by prev.                                                      *)
LEMMA ResumeKept ==
  ASSUME FuncsKept, NEW kind, NEW fn, kind = "NF" => fn \in 1..Len(funcs),
         NEW c, c.pc \in Pcs(Len(funcs)), ResumeOK(kind, fn, c)
  PROVE  ResumeOK(kind, fn, c)'
  <1>1. CASE kind # "NF"
    BY <1>1 DEF ResumeOK
  <1>2. CASE kind = "NF"
    <2>1. c.pc \in Pcs(Len(funcs)) /\ c.pc.f = fn /\ fn \in 1..Len(funcs)
      BY <1>2 DEF ResumeOK, InCodeOf
    <2>2. Before(c.pc).f = fn
      BY <2>1 DEF Before, Pcs
    <2>3. funcs'[fn].proto = funcs[fn].proto
      BY <2>1 DEF FuncsKept
    <2>4. /\ LastOp(c.pc)' = LastOp(c.pc) /\ DepOf(c.pc)' = DepOf(c.pc)
          /\ DepOf(Before(c.pc))' = DepOf(Before(c.pc))
          /\ InCodeOf(fn, c.pc)' <=> InCodeOf(fn, c.pc)
      BY <2>1, <2>2, <2>3 DEF LastOp, DepOf, Before, InCodeOf
    <2> QED BY <1>2, <2>4 DEF ResumeOK
  <1> QED BY <1>1, <1>2

(* A new activation c of function f, with its frame from c.top + 3 to t.   *)
EntersWith(c, f, t) ==
  /\ calls' = Append(calls, c) /\ c.fn = f /\ c.base = base /\ c.func = func
  /\ base' = c.top + 3 /\ top' = t /\ func' = f
  /\ base <= c.top /\ c.top + 3 <= t /\ t <= Capacity
  /\ FuncsKept /\ f \in 1..Len(funcs)' /\ funcs'[f].prev = func
  /\ \A g \in 1..Len(funcs)' : g # f => g \in 1..Len(funcs) /\ funcs'[g].prev = funcs[g].prev
  /\ UNCHANGED <<tables, out, status>>

(* What becomes of the stack. *)
SavesRegisters(c, t) ==
  /\ stack' \in [0..Capacity -> SlotValues']
  /\ \A s \in 0..(base - 1) : stack'[s] = stack[s]
  /\ stack'[c.top] = PcV(c.pc) /\ stack'[c.top + 1] = IndexV(c.base)
  /\ stack'[c.top + 2] = IndexV(c.top + 2)
  /\ \A s \in base..(t - 1) : IsChunk(stack[s])' => c.slot = -1 /\ s = c.top - 1

(* Tables hold no chunk still when a function is created and no table      *)
(* changes.                                                                *)
LEMMA TablesKept ==
  ASSUME Inv, FuncsKept, UNCHANGED tables
  PROVE  TablesOK'
  <1>1. TablesOK /\ Len(tables) \in Nat /\ Len(funcs) \in Nat
    BY Basics DEF Inv, TypeOK, ChunksUnreachable, TablesOK
  <1>2. SlotValues \subseteq SlotValues'
    BY <1>1, Monotone DEF SlotValues, FuncsKept
  <1>3. ASSUME NEW t \in 1..Len(tables), NEW k \in DOMAIN tables[t]
        PROVE  tables[t][k] \in SlotValues' /\ ~IsChunk(tables[t][k])'
    <2>1. tables[t][k] \in SlotValues /\ ~IsChunk(tables[t][k])
      BY <1>1 DEF TablesOK
    <2>2. tables[t][k].type = "Func" => tables[t][k].v \in 1..Len(funcs)
      BY <1>1, <2>1, PayloadTypes DEF SlotValues
    <2> QED BY <1>2, <2>1, <2>2 DEF IsChunk, FuncsKept
  <1> QED BY <1>1, <1>3 DEF TablesOK

(* Thread_call keeps the invariant: it leaves below the new frame what it  *)
(* found, and puts the caller's registers right under it.                  *)
LEMMA EnterStep ==
  ASSUME Inv, NEW c \in CallsOf(Len(funcs)'), NEW f \in Nat, NEW t \in Nat,
         EntersWith(c, f, t), SavesRegisters(c, t), pc' \in Pcs(Len(funcs)'),
         funcs' \in Seq(FuncsOf(Len(funcs)')),
         \A g \in 1..Len(funcs)' : funcs'[g].kind = "NF" <=> funcs'[g].proto # NoProto,
         NEW kind, kind = Running, NEW fn, Depth > 0 => fn = Current.fn,
         c.pc \in Pcs(Len(funcs)), ResumeOK(kind, fn, c),
         DepthAgrees', ~AfterCall'
  PROVE  Inv'
  <1>1. /\ Len(funcs) \in Nat /\ Len(funcs)' \in Nat /\ Len(funcs) <= Len(funcs)'
        /\ Len(tables) \in Nat /\ Len(tables)' = Len(tables) /\ FuncsKept /\ Depth \in Nat /\ TypeOK
    BY Basics DEF Inv, EntersWith, FuncsKept
  <1>2. /\ SlotValues \subseteq SlotValues'
        /\ CallsOf(Len(funcs)) \subseteq CallsOf(Len(funcs)')
    BY <1>1, Monotone DEF SlotValues
  <1>n. PICK n \in Nat : n = Depth + 1 /\ n > 0 /\ n - 1 = Depth
    BY <1>1
  <1>3. /\ calls' \in Seq(CallsOf(Len(funcs)')) /\ Depth' = n
        /\ \A k \in 1..Depth : calls'[k] = calls[k]
        /\ calls'[n] = c
    <2>1. calls \in Seq(CallsOf(Len(funcs)'))
      BY <1>1, <1>2 DEF TypeOK
    <2> QED BY <2>1, <1>n, AppendFacts DEF EntersWith, Depth
  <1>4. /\ top \in Nat /\ base \in Nat /\ base <= top /\ c.top \in Nat /\ c.top + 3 \in Nat
        /\ base <= c.top /\ c.top + 3 <= t /\ t <= Capacity
    <2>1. c.top \in Nat
      BY CapacityNat DEF CallsOf
    <2> QED BY <2>1, LiveTopFacts DEF EntersWith
  <1>5. TypeOK'
    <2>1. top' \in 0..Capacity /\ base' \in 0..Capacity /\ func' \in 0..Len(funcs)'
      BY <1>1, <1>4, CapacityNat DEF EntersWith
    <2>2. out' \in Seq(SlotValues')
      BY <1>1, <1>2 DEF TypeOK, EntersWith
    <2>3. TablesOK'
      BY <1>1, TablesKept DEF EntersWith
    <2>4. Len(tables)' \in Nat \ {0}
      BY <1>1, Basics
    <2>5. status' \in Statuses
      BY <1>1 DEF TypeOK, EntersWith
    <2> QED BY <1>3, <2>1, <2>2, <2>3, <2>4, <2>5 DEF TypeOK, TablesOK, SavesRegisters
  <1>6. SavedFramesIntact'
    <2>1. base' <= top' /\ base' = c.top + 3 /\ top' = t
      BY <1>4 DEF EntersWith
    <2>2. ASSUME NEW k \in 1..Depth
          PROVE  /\ stack'[calls'[k].top] = PcV(calls'[k].pc)
                 /\ stack'[calls'[k].top + 1] = IndexV(calls'[k].base)
                 /\ stack'[calls'[k].top + 2] = IndexV(calls'[k].top + 2)
                 /\ calls'[k].base <= calls'[k].top
                 /\ FrameBase(k)' = calls'[k].top + 3
                 /\ calls'[k].top + 3 <= base'
                 /\ \A j \in 1..(k - 1) : calls'[j].top + 3 <= calls'[k].base
      <3>1. calls[k].top \in Nat /\ calls[k].top + 3 <= base
        BY <1>1, CallFacts DEF Inv
      <3>2. /\ stack'[calls[k].top] = stack[calls[k].top]
            /\ stack'[calls[k].top + 1] = stack[calls[k].top + 1]
            /\ stack'[calls[k].top + 2] = stack[calls[k].top + 2]
        <4>1. PICK x \in Nat : x = calls[k].top /\ x + 3 <= base
          BY <3>1
        <4>2. x \in 0..(base - 1) /\ x + 1 \in 0..(base - 1) /\ x + 2 \in 0..(base - 1)
          <5>1. base \in Nat
            BY <1>4
          <5>2. x + 3 <= base
            BY <4>1
          <5> QED BY <5>1, <5>2
        <4> QED BY <4>1, <4>2 DEF SavesRegisters
      <3>3. FrameBase(k)' = FrameBase(k)
        <4>1. CASE k = Depth
          <5>1. FrameBase(k) = base
            BY <4>1 DEF FrameBase
          <5>2. k # n /\ k + 1 = n
            BY <1>1, <1>n, <4>1
          <5>3. FrameBase(k)' = calls'[n].base
            BY <1>3, <5>2 DEF FrameBase
          <5> QED BY <1>3, <5>1, <5>3 DEF EntersWith
        <4>2. CASE k # Depth
          <5>1. k + 1 \in 1..Depth /\ k # n
            BY <1>1, <1>n, <4>2
          <5> QED BY <1>3, <4>2, <5>1 DEF FrameBase
        <4> QED BY <4>1, <4>2
      <3>4. \A j \in 1..(k - 1) : calls'[j] = calls[j]
        BY <1>1, <1>3
      <3>5. calls[k].top + 3 <= base'
        <4>1. PICK x \in Nat : x = calls[k].top
          BY <3>1
        <4>2. x + 3 <= c.top + 3
          BY <1>4, <3>1, <4>1
        <4> QED BY <2>1, <4>1, <4>2
      <3> QED BY <1>3, <3>2, <3>3, <3>4, <3>5 DEF Inv, SavedFramesIntact
    <2>3. /\ stack'[c.top] = PcV(c.pc)
          /\ stack'[c.top + 1] = IndexV(c.base)
          /\ stack'[c.top + 2] = IndexV(c.top + 2)
          /\ c.base <= c.top
          /\ FrameBase(n)' = c.top + 3
          /\ c.top + 3 <= base'
          /\ \A j \in 1..Depth : calls'[j].top + 3 <= c.base
      <3>1. FrameBase(n)' = base'
        BY <1>3 DEF FrameBase
      <3>2. \A j \in 1..Depth : calls[j].top + 3 <= base
        BY <1>1, CallFacts DEF Inv
      <3>3. base' = c.top + 3 /\ c.base = base /\ base <= c.top /\ c.top + 3 <= base'
        BY <1>4 DEF EntersWith
      <3> QED BY <1>3, <3>1, <3>2, <3>3 DEF SavesRegisters
    <2>4. ASSUME NEW k \in 1..n
          PROVE  /\ stack'[calls'[k].top] = PcV(calls'[k].pc)
                 /\ stack'[calls'[k].top + 1] = IndexV(calls'[k].base)
                 /\ stack'[calls'[k].top + 2] = IndexV(calls'[k].top + 2)
                 /\ calls'[k].base <= calls'[k].top
                 /\ FrameBase(k)' = calls'[k].top + 3
                 /\ calls'[k].top + 3 <= base'
                 /\ \A j \in 1..(k - 1) : calls'[j].top + 3 <= calls'[k].base
      <3>1. CASE k = n
        BY <1>n, <1>3, <2>3, <3>1
      <3>2. CASE k # n
        <4>1. k \in 1..Depth
          BY <1>n, <1>1, <3>2
        <4> QED BY <2>2, <4>1
      <3> QED BY <3>1, <3>2
    <2> QED BY <1>3, <2>1, <2>4 DEF SavedFramesIntact
  <1>7. CallersResume'
    <2>1. ASSUME NEW k \in 1..Depth
          PROVE  ResumeOK(CallerKind(k), calls[k - 1].fn, calls[k])'
      <3>1. PICK d : d = calls[k]
        OBVIOUS
      <3>2. PICK kd : kd = CallerKind(k)
        OBVIOUS
      <3>3. PICK g : g = calls[k - 1].fn
        OBVIOUS
      <3>4. d.pc \in Pcs(Len(funcs)) /\ (k > 1 => g \in 1..Len(funcs) /\ k - 1 \in 1..Depth)
        <4>1. k > 1 => k - 1 \in 1..Depth
          BY <1>1
        <4> QED BY <1>1, <3>1, <3>3, <4>1, CallFacts DEF Inv
      <3>5. ResumeOK(kd, g, d)
        BY <3>1, <3>2, <3>3 DEF Inv, CallersResume, ResumeOK
      <3>6. kd = "NF" => g \in 1..Len(funcs)
        BY <3>2, <3>4 DEF CallerKind
      <3>7. ResumeOK(kd, g, d)'
        BY <1>1, <3>4, <3>5, <3>6, ResumeKept
      <3>8. CallerKind(k)' = kd
        <4>1. CASE k = 1
          BY <3>2, <4>1 DEF CallerKind
        <4>2. CASE k # 1
          <5>1. k > 1
            BY <4>2
          <5>2. calls'[k - 1] = calls[k - 1]
            BY <1>3, <3>4, <5>1
          <5>3. funcs'[g].kind = funcs[g].kind
            BY <1>1, <3>4, <5>1 DEF FuncsKept
          <5> QED BY <3>2, <3>3, <4>2, <5>2, <5>3 DEF CallerKind
        <4> QED BY <4>1, <4>2
      <3>9. calls'[k] = d
        BY <1>3, <3>1
      <3>10. kd = "NF" => calls'[k - 1].fn = g
        <4>1. kd = "NF" => k > 1
          BY <3>2 DEF CallerKind
        <4> QED BY <1>3, <3>3, <3>4, <4>1
      <3> QED BY <3>7, <3>8, <3>9, <3>10 DEF ResumeOK
    <2>2. ResumeOK(kind, fn, c)'
      <3>1. kind = "NF" => Depth > 0
        BY <1>1 DEF Running
      <3>2. Depth > 0 => Current.fn \in 1..Len(funcs)
        BY <1>1, CallFacts DEF Current, Inv
      <3> QED BY <1>1, <3>1, <3>2, ResumeKept
    <2>3. CallerKind(n)' = kind
      <3>1. CASE Depth = 0
        BY <3>1, <1>n DEF CallerKind, Running
      <3>2. CASE Depth # 0
        <4>1. Depth \in 1..Depth /\ n # 1 /\ Depth > 0
          BY <1>1, <1>n, <3>2
        <4>2. calls'[Depth] = calls[Depth] /\ calls[Depth].fn \in 1..Len(funcs)
          BY <1>1, <1>3, <4>1, CallFacts DEF Inv
        <4>3. kind = funcs[calls[Depth].fn].kind
          BY <3>2 DEF Running, Current
        <4>4. CallerKind(n)' = funcs'[calls'[Depth].fn].kind
          BY <1>n, <4>1 DEF CallerKind
        <4> QED BY <1>1, <4>2, <4>3, <4>4 DEF FuncsKept
      <3> QED BY <3>1, <3>2
    <2>4. kind = "NF" => calls'[Depth].fn = fn
      <3>1. kind = "NF" => Depth > 0
        BY <1>1 DEF Running
      <3>2. Depth > 0 => Depth \in 1..Depth
        BY <1>1
      <3> QED BY <1>3, <3>1, <3>2 DEF Current
    <2>5. ASSUME NEW k \in 1..n
          PROVE  ResumeOK(CallerKind(k), calls[k - 1].fn, calls[k])'
      <3>1. CASE k \in 1..Depth
        BY <2>1, <3>1
      <3>2. CASE k = n
        <4>1. k - 1 = Depth
          BY <1>n, <3>2
        <4>2. calls'[k] = c /\ CallerKind(k)' = kind
          BY <1>3, <2>3, <3>2
        <4> QED BY <2>2, <2>4, <4>1, <4>2 DEF ResumeOK
      <3> QED BY <1>1, <1>n, <3>1, <3>2
    <2> QED BY <1>3, <2>5 DEF CallersResume, ResumeOK
  <1>8. ChunksUnreachable'
    <2>1. LiveTop' = top' /\ top' = t
      BY DEF LiveTop, EntersWith
    <2>2. ASSUME NEW s \in 0..(t - 1), IsChunk(stack[s])'
          PROVE  \E k \in 1..n : calls'[k].slot = -1 /\ s = calls'[k].top - 1
      <3>1. CASE s \in base..(t - 1)
        <4>1. c.slot = -1 /\ s = c.top - 1
          BY <2>2, <3>1 DEF SavesRegisters
        <4>2. n \in 1..n
          BY <1>n
        <4> QED BY <1>3, <4>1, <4>2
      <3>2. CASE s \notin base..(t - 1)
        <4>1. s \in 0..(base - 1) /\ s \in 0..Capacity
          BY <1>4, <3>2, CapacityNat
        <4>2. stack'[s] = stack[s] /\ stack[s] \in SlotValues
          BY <1>1, <4>1 DEF SavesRegisters, TypeOK
        <4>3. stack[s].type = "Func" /\ funcs'[stack[s].v].kind = "NF"
          BY <2>2, <4>2 DEF IsChunk
        <4>4. stack[s].v \in 1..Len(funcs)
          BY <1>1, <4>2, <4>3, PayloadTypes DEF SlotValues
        <4>5. IsChunk(stack[s])
          BY <1>1, <4>3, <4>4 DEF IsChunk, FuncsKept
        <4>6. s \in 0..(LiveTop - 1)
          BY <4>1, LiveTopFacts
        <4>7. PICK k \in 1..Depth : calls[k].slot = -1 /\ s = calls[k].top - 1
          BY <4>5, <4>6 DEF Inv, ChunksUnreachable
        <4>8. k \in 1..n
          BY <1>1, <1>n
        <4> QED BY <1>3, <4>7, <4>8
      <3> QED BY <3>1, <3>2
    <2>3. TablesOK'
      BY <1>1, TablesKept DEF EntersWith
    <2>4. t <= Capacity
      BY <1>4
    <2> QED BY <1>3, <2>1, <2>2, <2>3, <2>4 DEF ChunksUnreachable, TablesOK
  <1>9. ChainLongEnough'
    <2>1. PICK r \in [0..Len(funcs) -> Nat] : Linked(r)
      BY DEF Inv, ChainLongEnough
    <2>2. n = Depth + 1
      BY <1>n
    <2> DEFINE Rank(g) == IF g = f THEN n ELSE IF r[g] > n THEN n ELSE r[g]
    <2>3. /\ func \in 0..Len(funcs) /\ f \in 1..Len(funcs)' /\ funcs'[f].prev = func
          /\ func' = f /\ f # 0
      BY <1>1 DEF TypeOK, EntersWith
    <2>4. \A g \in 0..Len(funcs)' : g # f => g \in 0..Len(funcs)
      BY <1>1, <2>3 DEF EntersWith
    <2>5. \A g \in 0..Len(funcs)' : Rank(g) \in Nat /\ Rank(g) <= n
      BY <2>4
    <2>6. PICK q \in [0..Len(funcs)' -> Nat] : \A g \in 0..Len(funcs)' : q[g] = Rank(g)
      <3> DEFINE q == [g \in 0..Len(funcs)' |-> Rank(g)]
      <3>1. q \in [0..Len(funcs)' -> Nat]
        BY <2>5
      <3> QED BY <3>1
    <2>7. 0 \in 0..Len(funcs)' /\ r[0] = 0 /\ r[func] >= Depth /\ r[func] \in Nat
      BY <1>1, <2>1, <2>3 DEF Linked
    <2>8. q[0] = 0 /\ q[f] = n
      BY <1>1, <2>3, <2>6, <2>7
    <2>9. ASSUME NEW g \in 1..Len(funcs)' PROVE q[g] <= q[funcs'[g].prev] + 1
      <3>1. CASE g = f
        <4>1. func \in 0..Len(funcs)' /\ q[func] = Rank(func)
          BY <1>1, <2>3, <2>6
        <4>2. Rank(func) >= Depth
          BY <1>1, <2>2, <2>7
        <4>3. Rank(func) \in Nat
          BY <2>5, <4>1
        <4> HIDE DEF Rank
        <4> QED BY <1>1, <2>2, <2>3, <2>8, <3>1, <4>1, <4>2, <4>3
      <3>2. CASE g # f
        <4>1. g \in 1..Len(funcs) /\ funcs'[g].prev = funcs[g].prev
          BY <3>2 DEF EntersWith
        <4>2. PICK h \in 0..Len(funcs) : h = funcs[g].prev
          BY <1>1, <4>1, Basics DEF FuncsOf
        <4>3. r[g] <= r[h] + 1
          BY <2>1, <4>1, <4>2 DEF Linked
        <4>4. r[g] \in Nat /\ r[h] \in Nat
          BY <1>1, <4>1
        <4>5. q[g] = Rank(g) /\ q[h] = Rank(h)
          BY <1>1, <2>6, <4>1
        <4>6. Rank(g) <= Rank(h) + 1
          BY <3>2, <4>3, <4>4
        <4> QED BY <4>1, <4>2, <4>5, <4>6
      <3> QED BY <3>1, <3>2
    <2>10. q[f] >= Depth'
      BY <1>3, <2>2, <2>8
    <2>11. Linked(q)'
      BY <2>3, <2>8, <2>9, <2>10 DEF Linked
    <2> QED BY <2>11 DEF ChainLongEnough
  <1> QED BY <1>5, <1>6, <1>7, <1>8, <1>9 DEF Inv

(* Thread_call's func->prev = self->func changes the prev of one function  *)
(* and nothing else.                                                       *)
LEMMA NotedFacts ==
  ASSUME NEW n \in Nat, NEW fs \in Seq(FuncsOf(n)), Len(fs) = n, NEW f \in 1..n, func \in 0..n
  PROVE  LET gs == NotedPrev(fs, f) IN
         /\ gs \in Seq(FuncsOf(n)) /\ Len(gs) = n /\ gs[f].prev = func
         /\ \A g \in 1..n : /\ gs[g].kind = fs[g].kind /\ gs[g].proto = fs[g].proto
                            /\ g # f => gs[g] = fs[g]
  <1> DEFINE gs == NotedPrev(fs, f)
  <1>1. fs \in [1..n -> FuncsOf(n)]
    BY SeqIsFunction
  <1>2. gs = [fs EXCEPT ![f] = [fs[f] EXCEPT !.prev = func]]
    BY DEF NotedPrev
  <1>3. fs[f] \in FuncsOf(n)
    BY <1>1
  <1>4. PICK h : h = [fs[f] EXCEPT !.prev = func]
    OBVIOUS
  <1>5. h \in FuncsOf(n) /\ h.prev = func /\ h.kind = fs[f].kind /\ h.proto = fs[f].proto
    BY <1>3, <1>4 DEF FuncsOf
  <1>6. gs = [fs EXCEPT ![f] = h]
    BY <1>2, <1>4
  <1> HIDE DEF gs
  <1>7. gs \in [1..n -> FuncsOf(n)] /\ gs[f] = h /\ \A g \in 1..n : g # f => gs[g] = fs[g]
    BY <1>1, <1>5, <1>6
  <1>8. gs \in Seq(FuncsOf(n)) /\ Len(gs) = n
    BY <1>7, FunctionIsSeq
  <1> QED BY <1>5, <1>7, <1>8 DEF gs

(* What a row of pushes leaves in each slot.                               *)
LEMMA PushedFacts ==
  ASSUME Inv, NEW m \in Nat, NEW vals, Len(vals) = m, top + m <= Capacity
  PROVE  /\ DOMAIN Pushed(vals) = 0..Capacity /\ Pushed(vals) = [s \in 0..Capacity |-> Pushed(vals)[s]]
         /\ \A s \in 0..Capacity : ~(top <= s /\ s < top + m) => Pushed(vals)[s] = stack[s]
         /\ \A j \in 1..m : Pushed(vals)[top + j - 1] = vals[j] /\ top + j - 1 \in 0..Capacity
         /\ \A s \in 0..Capacity : top <= s /\ s < top + m => s - top + 1 \in 1..m /\ Pushed(vals)[s] = vals[s - top + 1]
  <1>1. DOMAIN stack = 0..Capacity
    BY DEF Inv, TypeOK
  <1>2. top \in Nat /\ Capacity \in Nat
    BY LiveTopFacts, CapacityNat
  <1> DEFINE P == Pushed(vals)
  <1>3. P = [s \in 0..Capacity |-> IF s - top + 1 \in 1..m THEN vals[s - top + 1] ELSE stack[s]]
    BY <1>1 DEF Pushed
  <1>4. \A s \in 0..Capacity : s - top + 1 \in 1..m <=> (top <= s /\ s < top + m)
    BY <1>2
  <1>5. \A j \in 1..m : top + j - 1 \in 0..Capacity /\ (top + j - 1) - top + 1 = j
    BY <1>2
  <1> HIDE DEF P
  <1>6. /\ DOMAIN P = 0..Capacity /\ P = [s \in 0..Capacity |-> P[s]]
        /\ \A s \in 0..Capacity : P[s] = IF s - top + 1 \in 1..m THEN vals[s - top + 1] ELSE stack[s]
    BY <1>3
  <1>7. \A j \in 1..m : P[top + j - 1] = vals[j] /\ top + j - 1 \in 0..Capacity
    BY <1>5, <1>6
  <1> QED BY <1>4, <1>6, <1>7 DEF P

(* A saved pc or index can be put in a slot, and is no chunk.              *)
LEMMA RegisterValues ==
  ASSUME NEW n \in Nat, NEW m \in Nat, NEW p \in Pcs(n), NEW i \in 0..Capacity
  PROVE  /\ PcV(p) \in SlotValuesOf(n, m) /\ IndexV(i) \in SlotValuesOf(n, m)
         /\ PcV(p).type # "Func" /\ IndexV(i).type # "Func"
  BY DEF PcV, IndexV, SlotValuesOf

(* CALL keeps the invariant, whether the callee is a function or not.      *)
LEMMA CallStep == ASSUME Inv, Call PROVE Inv'
  <1> DEFINE callee == ValueAt(Instr.ab)
             p == funcs[pc.f].proto
  <1>1. Running = "NF" /\ Instr.op = "CALL" /\ status = "running"
    BY DEF Call, At
  <1>2. CASE callee.type # "Func" /\ HasRoom(3) /\ Fails("OVER_LIMIT")
    BY <1>2, FailStep DEF Statuses
  <1>3. CASE /\ callee.type = "Func" /\ HasRoom(3 + ArgsNr)
             /\ stack' = Pushed(Saved(NextPc, top) \o Arguments(Slot(Instr.ab) + 1, ArgsNr))
             /\ Enter(callee.v, Instr.ab, top, ArgsNr, NextPc, funcs)
    <2>1. /\ Depth > 0 /\ pc.f \in 1..Len(funcs) /\ pc.f = Current.fn
          /\ pc.i \in 1..Len(p.ins) /\ Instr = p.ins[pc.i] /\ p \in Protos
          /\ top - base = p.dep[pc.i]
          /\ pc.i + 1 \in 1..Len(p.ins)
          /\ p.dep[pc.i + 1] = DepthAfter(Instr, top - base) /\ p.dep[pc.i + 1] \in Nat
          /\ Instr \in Instruction
      BY <1>1, Fetch
    <2>2. PICK ab \in Nat : ab = Instr.ab /\ ab \in 0..(top - base - 1) /\ ab \in Int16
      <3>1. Instr.ab \in SlotsOf(Instr)
        BY <1>1 DEF SlotsOf, BinaryOps
      <3>2. Instr.ab \in 0..(top - base - 1)
        BY <1>1, <3>1, Fetch DEF OperandsLive
      <3>3. Instr.ab \in Int16
        BY <2>1 DEF Instruction
      <3> QED BY <3>2, <3>3
    <2>3. /\ callee = stack[base + ab] /\ Slot(Instr.ab) = base + ab
          /\ callee \in SlotValues /\ ~IsChunk(callee)
      <3>1. Instr.ab # PSEUDO_INDEX_GLOBAL
        BY <2>2, NotGlobal
      <3>2. stack[base + ab] \in SlotValues /\ ~IsChunk(stack[base + ab]) /\ Slot(ab) = base + ab
        BY <2>2, FrameSlot
      <3> QED BY <2>2, <3>1, <3>2 DEF ValueAt
    <2>4. PICK f \in 1..Len(funcs) : f = callee.v /\ funcs[f].kind # "NF"
      <3>1. callee.v \in 1..Len(funcs)
        BY <1>3, <2>3, Basics, PayloadTypes DEF SlotValues, Inv
      <3>2. funcs[callee.v].kind # "NF"
        BY <1>3, <2>3 DEF IsChunk
      <3> QED BY <3>1, <3>2
    <2>5. PICK n \in Nat : n = ArgsNr /\ n = top - (base + ab) - 1
      <3>1. ArgsNr = top - (base + ab) - 1
        BY <2>3 DEF ArgsNr
      <3>2. top - (base + ab) - 1 \in Nat
        BY <2>2, LiveTopFacts
      <3> QED BY <3>1, <3>2
    <2>6. PICK next \in Pcs(Len(funcs)) : next = NextPc /\ next.f = pc.f /\ next.i = pc.i + 1
                                          /\ Before(next) = pc
      <3>1. pc \in Pcs(Len(funcs))
        BY DEF Inv, TypeOK
      <3>2. NextPc = [f |-> pc.f, i |-> pc.i + 1]
        BY <3>1 DEF NextPc, Pcs
      <3>3. pc.f \in 0..Len(funcs) /\ pc.i \in Nat /\ pc = [f |-> pc.f, i |-> pc.i]
        BY <3>1 DEF Pcs
      <3>4. NextPc \in Pcs(Len(funcs)) /\ NextPc.f = pc.f /\ NextPc.i = pc.i + 1
        BY <3>2, <3>3 DEF Pcs
      <3>5. Before(NextPc) = [f |-> pc.f, i |-> pc.i]
        <4>1. (pc.i + 1) - 1 = pc.i
          BY <3>3
        <4> QED BY <3>2, <4>1 DEF Before
      <3> QED BY <3>3, <3>4, <3>5
    <2>7. PICK c \in CallsOf(Len(funcs)) :
             c = [slot |-> ab, fn |-> f, top |-> top, base |-> base, pc |-> next, func |-> func]
      <3>1. top \in 0..Capacity /\ base \in 0..Capacity /\ func \in 0..Len(funcs)
        BY DEF Inv, TypeOK
      <3> QED BY <2>2, <2>6, <3>1 DEF CallsOf
    <2>8. /\ c.slot = ab /\ c.fn = f /\ c.top = top /\ c.base = base /\ c.pc = next /\ c.func = func
      BY <2>7
    <2>9. /\ calls' = Append(calls, c) /\ base' = top + 3 /\ top' = top + 3 + n /\ func' = f
          /\ funcs' = NotedPrev(funcs, f) /\ pc' = next /\ UNCHANGED <<tables, out, status>>
      BY <1>3, <2>2, <2>4, <2>5, <2>6, <2>7 DEF Enter
    <2>10. /\ Len(funcs)' = Len(funcs) /\ funcs' \in Seq(FuncsOf(Len(funcs))) /\ funcs'[f].prev = func
           /\ \A g \in 1..Len(funcs) : /\ funcs'[g].kind = funcs[g].kind /\ funcs'[g].proto = funcs[g].proto
                                       /\ g # f => funcs'[g] = funcs[g]
      <3>1. funcs \in Seq(FuncsOf(Len(funcs))) /\ Len(funcs) \in Nat /\ func \in 0..Len(funcs)
        BY Basics DEF Inv, TypeOK
      <3> QED BY <2>9, <3>1, NotedFacts
    <2>11. FuncsKept /\ Len(funcs) \in Nat
      BY <2>10, Basics DEF FuncsKept, Inv
    <2>12. PICK t \in Nat : t = top + 3 + n /\ t <= Capacity /\ c.top + 3 <= t
      <3>1. top + 3 + n <= Capacity
        BY <1>3, <2>5, LiveTopFacts, CapacityNat DEF HasRoom
      <3> QED BY <2>8, <3>1, LiveTopFacts
    <2>13. EntersWith(c, f, t)
      <3>1. base <= c.top /\ base' = c.top + 3 /\ top' = t
        BY <2>8, <2>9, <2>12, LiveTopFacts
      <3> QED BY <2>8, <2>9, <2>10, <2>11, <2>12, <3>1 DEF EntersWith
    <2>14. SavesRegisters(c, t)
      <3> DEFINE args == Arguments(Slot(Instr.ab) + 1, ArgsNr)
                 vals == Saved(NextPc, top) \o args
      <3>1. /\ args = [i \in 1..n |-> stack[base + ab + i]] /\ DOMAIN args = 1..n
        <4>1. \A i \in 1..n : (base + ab) + 1 + i - 1 = base + ab + i
          BY <2>2, LiveTopFacts
        <4> QED BY <2>3, <2>5, <4>1 DEF Arguments
      <3>2. \A i \in 1..n : base + ab + i \in 0..Capacity /\ base <= base + ab + i /\ base + ab + i < LiveTop
        <4>1. n = top - (base + ab) - 1
          BY <2>5
        <4> TAKE i \in 1..n
        <4>2. base + ab + i <= top - 1 /\ base <= base + ab + i /\ base + ab + i \in Nat
          BY <4>1, LiveTopFacts
        <4>3. top <= LiveTop /\ LiveTop <= Capacity /\ top \in Nat /\ LiveTop \in Nat /\ Capacity \in Nat
          BY LiveTopFacts, CapacityNat
        <4> QED BY <4>2, <4>3
      <3>3. \A i \in 1..n : stack[base + ab + i] \in SlotValues /\ ~IsChunk(stack[base + ab + i])
        BY <3>2, NoChunks DEF Inv, TypeOK
      <3>4. top + 2 \in 0..Capacity /\ base \in 0..Capacity /\ top \in Nat
        BY <2>12, LiveTopFacts, CapacityNat
      <3>5. PICK sv : sv = Saved(NextPc, top)
        OBVIOUS
      <3>6. /\ sv = <<PcV(next), IndexV(base), IndexV(top + 2)>> /\ sv \in Seq(SlotValues) /\ Len(sv) = 3
        <4>1. sv = <<PcV(next), IndexV(base), IndexV(top + 2)>>
          BY <2>6, <3>5 DEF Saved
        <4>2. PcV(next) \in SlotValues /\ IndexV(base) \in SlotValues /\ IndexV(top + 2) \in SlotValues
          BY <2>11, <3>4, RegisterValues, Basics DEF SlotValues, Inv
        <4> QED BY <4>1, <4>2
      <3>7. args \in Seq(SlotValues) /\ Len(args) = n
        <4>1. args \in [1..n -> SlotValues]
          BY <3>1, <3>3
        <4> HIDE DEF args
        <4> QED BY <4>1, FunctionIsSeq
      <3>8. /\ vals \in Seq(SlotValues) /\ Len(vals) = 3 + n
            /\ vals[1] = PcV(next) /\ vals[2] = IndexV(base) /\ vals[3] = IndexV(top + 2)
            /\ \A i \in 1..n : vals[3 + i] = stack[base + ab + i]
        <4>1. vals = sv \o args
          BY <3>5
        <4> HIDE DEF args, vals
        <4>2. vals \in Seq(SlotValues) /\ Len(vals) = 3 + n
          BY <3>6, <3>7, <4>1
        <4>3. \A i \in 1..3 : vals[i] = sv[i]
          BY <3>6, <3>7, <4>1
        <4>4. \A i \in 1..n : vals[3 + i] = args[i]
          BY <3>6, <3>7, <4>1
        <4> QED BY <3>1, <3>6, <4>2, <4>3, <4>4
      <3>9. PICK w \in Seq(SlotValues) : w = vals
        BY <3>8
      <3>10. stack' = Pushed(w)
        BY <1>3, <3>9
      <3> HIDE DEF args, vals
      <3>11. PICK m \in Nat : m = 3 + n /\ Len(w) = m /\ top + m <= Capacity
        BY <2>12, <3>8, <3>9, LiveTopFacts
      <3>12. /\ DOMAIN stack' = 0..Capacity /\ stack' = [s \in 0..Capacity |-> stack'[s]]
             /\ \A s \in 0..Capacity : ~(top <= s /\ s < top + m) => stack'[s] = stack[s]
             /\ \A j \in 1..m : stack'[top + j - 1] = w[j] /\ top + j - 1 \in 0..Capacity
             /\ \A s \in 0..Capacity : top <= s /\ s < top + m =>
                  s - top + 1 \in 1..m /\ stack'[s] = w[s - top + 1]
        BY <3>10, <3>11, PushedFacts
      <3>13. \A j \in 1..m : w[j] \in SlotValues
        BY <3>11
      <3>14. stack' \in [0..Capacity -> SlotValues']
        <4>1. SlotValues' = SlotValues
          BY <2>9, <2>10 DEF SlotValues
        <4>2. \A s \in 0..Capacity : stack[s] \in SlotValues
          BY DEF Inv, TypeOK
        <4>3. \A s \in 0..Capacity : stack'[s] \in SlotValues
          BY <3>12, <3>13, <4>2
        <4> QED BY <3>12, <4>1, <4>3
      <3>15. \A s \in 0..(base - 1) : stack'[s] = stack[s]
        <4>1. \A s \in 0..(base - 1) : s \in 0..Capacity /\ ~(top <= s)
          BY LiveTopFacts, CapacityNat
        <4> QED BY <3>12, <4>1
      <3>16. /\ stack'[c.top] = PcV(c.pc) /\ stack'[c.top + 1] = IndexV(c.base)
             /\ stack'[c.top + 2] = IndexV(c.top + 2)
        <4>1. 1 \in 1..m /\ 2 \in 1..m /\ 3 \in 1..m
          BY <3>11
        <4>2. top + 1 - 1 = top /\ top + 2 - 1 = top + 1 /\ top + 3 - 1 = top + 2
          BY <3>4
        <4>3. stack'[top] = w[1] /\ stack'[top + 1] = w[2] /\ stack'[top + 2] = w[3]
          BY <3>12, <4>1, <4>2
        <4> QED BY <2>8, <3>8, <3>9, <4>3
      <3>17. ASSUME NEW s \in base..(t - 1) PROVE ~IsChunk(stack[s])'
        <4>1. s \in 0..Capacity /\ s < top + m /\ base <= s
          BY <2>12, <3>11, LiveTopFacts, CapacityNat
        <4>2. \A x \in SlotValues : ~IsChunk(x) => ~IsChunk(x)'
          <5> TAKE x \in SlotValues
          <5>1. x.type = "Func" => x.v \in 1..Len(funcs)
            BY <2>11, Basics, PayloadTypes DEF SlotValues, Inv
          <5> QED BY <2>10, <5>1 DEF IsChunk
        <4>3. CASE s < top
          <5>1. stack'[s] = stack[s] /\ stack[s] \in SlotValues
            BY <3>4, <3>12, <4>1, <4>3 DEF Inv, TypeOK
          <5>2. ~IsChunk(stack[s])
            BY <4>1, <4>3, LiveTopFacts, NoChunks
          <5> QED BY <4>2, <5>1, <5>2 DEF IsChunk
        <4>4. CASE top <= s
          <5>1. PICK j \in 1..m : j = s - top + 1 /\ stack'[s] = w[j]
            BY <3>12, <4>1, <4>4
          <5>2. CASE j \in 1..3
            <6>1. w[j].type # "Func"
              BY <2>11, <3>4, <3>8, <3>9, <5>2, RegisterValues, Basics DEF Inv
            <6> QED BY <5>1, <6>1 DEF IsChunk
          <5>3. CASE j \notin 1..3
            <6>1. PICK i \in 1..n : j = 3 + i
              <7>1. j - 3 \in 1..n /\ j = 3 + (j - 3)
                BY <3>11, <5>3
              <7> QED BY <7>1
            <6>2. w[j] = stack[base + ab + i]
              BY <3>8, <3>9, <6>1
            <6>3. w[j] \in SlotValues /\ ~IsChunk(w[j])
              BY <3>3, <6>2
            <6>4. ~IsChunk(w[j])'
              BY <4>2, <6>3
            <6> QED BY <5>1, <6>4 DEF IsChunk
          <5> QED BY <5>2, <5>3
        <4> QED BY <3>4, <4>1, <4>3, <4>4
      <3> QED BY <3>14, <3>15, <3>16, <3>17 DEF SavesRegisters
    <2>15. Running' # "NF"
      <3>1. PICK k \in Nat : k = Depth + 1
        BY Basics DEF Inv
      <3>2. calls \in Seq(CallsOf(Len(funcs)))
        BY DEF Inv, TypeOK
      <3>3. Depth' = k /\ calls'[k] = c
        BY <2>9, <3>1, <3>2, AppendFacts DEF Depth
      <3>4. Current' = c /\ Depth' # 0
        BY <3>1, <3>3, Basics DEF Current, Inv
      <3>5. funcs'[c.fn].kind # "NF"
        BY <2>4, <2>8, <2>10
      <3> QED BY <3>4, <3>5 DEF Running
    <2>16. DepthAgrees' /\ ~AfterCall'
      BY <2>15 DEF DepthAgrees, AfterCall
    <2>17. PICK fn : fn = Current.fn
      OBVIOUS
    <2>18. ResumeOK("NF", fn, c)
      <3>1. InCodeOf(fn, next)
        BY <2>1, <2>6, <2>17 DEF InCodeOf
      <3>2. next.i > 1 /\ next.i - 1 = pc.i
        BY <2>1, <2>6
      <3>3. LastOp(next) = "CALL"
        BY <1>1, <2>1, <2>6, <3>2 DEF LastOp
      <3>4. DepOf(next) = ab
        <4>1. DepthAfter(Instr, top - base) = Instr.ab
          BY <1>1 DEF DepthAfter, BinaryOps
        <4> QED BY <2>1, <2>2, <2>6, <4>1 DEF DepOf
      <3>5. top - base = DepOf(Before(next))
        BY <2>1, <2>6 DEF DepOf
      <3> QED BY <2>8, <3>1, <3>2, <3>3, <3>4, <3>5 DEF ResumeOK
    <2>19. \A g \in 1..Len(funcs)' : funcs'[g].kind = "NF" <=> funcs'[g].proto # NoProto
      BY <2>10 DEF Inv, TypeOK
    <2>20. f \in Nat /\ c.pc \in Pcs(Len(funcs)) /\ c \in CallsOf(Len(funcs)')
           /\ funcs' \in Seq(FuncsOf(Len(funcs)')) /\ pc' \in Pcs(Len(funcs)')
      BY <2>6, <2>7, <2>8, <2>9, <2>10, <2>11
    <2> QED BY <1>1, <2>13, <2>14, <2>16, <2>17, <2>18, <2>19, <2>20, EnterStep
  <1> QED BY <1>2, <1>3 DEF Call

(* The four values nf::run and Thread_call push, one by one.               *)
LEMMA FourValues ==
  ASSUME NEW a, NEW b, NEW c, NEW d
  PROVE  LET w == <<a>> \o <<b, c, d>> IN
         Len(w) = 4 /\ w[1] = a /\ w[2] = b /\ w[3] = c /\ w[4] = d
  OBVIOUS

(* nf::run keeps the invariant.                                            *)
LEMMA RunStep == ASSUME Inv, NEW p \in Chunks, Run(p) PROVE Inv'
  <1>1. PICK f \in Nat : f = Len(funcs) + 1 /\ f > 0
    BY Basics DEF Inv
  <1>2. /\ HostTurn /\ HasRoom(4)
        /\ stack' = Pushed(<<FuncV(f)>> \o Saved(pc, top + 1))
        /\ Enter(f, -1, top + 1, 0, pc, Append(funcs, NfFunc(p)))
    BY <1>1 DEF Run, RunChunk
  <1>3. p \in Protos /\ WellFormed(p) /\ 1 \in 1..Len(p.ins) /\ p.dep[1] = 0 /\ p # NoProto
    <2>1. p \in Protos /\ WellFormed(p)
      BY VmAssumption
    <2>2. Len(p.ins) > 0 /\ p.dep[1] = 0 /\ Len(p.ins) \in Nat
      BY <2>1 DEF WellFormed, Protos
    <2>3. Len(NoProto.ins) = 0
      BY DEF NoProto
    <2> QED BY <2>1, <2>2, <2>3
  <1>4. PICK fs : fs = Append(funcs, NfFunc(p))
    OBVIOUS
  <1>5. /\ fs \in Seq(FuncsOf(f)) /\ Len(fs) = f /\ fs[f].kind = "NF" /\ fs[f].proto = p
        /\ \A g \in 1..Len(funcs) : fs[g] = funcs[g]
    <2>1. NfFunc(p) \in FuncsOf(f) /\ NfFunc(p).kind = "NF" /\ NfFunc(p).proto = p
      BY <1>1 DEF NfFunc, FuncsOf
    <2>2. funcs \in Seq(FuncsOf(f))
      <3>1. funcs \in Seq(FuncsOf(Len(funcs))) /\ Len(funcs) \in Nat /\ Len(funcs) <= f
        BY <1>1, Basics DEF Inv, TypeOK
      <3>2. FuncsOf(Len(funcs)) \subseteq FuncsOf(f)
        BY <3>1, Monotone
      <3> QED BY <3>1, <3>2
    <2>3. PICK h \in FuncsOf(f) : h = NfFunc(p)
      BY <2>1
    <2>4. fs = Append(funcs, h)
      BY <1>4, <2>3
    <2> QED BY <1>1, <2>1, <2>2, <2>3, <2>4, AppendFacts
  <1>6. PICK c : c = [slot |-> -1, fn |-> f, top |-> top + 1, base |-> base, pc |-> pc, func |-> func]
    OBVIOUS
  <1>7. /\ c.slot = -1 /\ c.fn = f /\ c.top = top + 1 /\ c.base = base /\ c.pc = pc /\ c.func = func
    BY <1>6
  <1>8. /\ calls' = Append(calls, c) /\ base' = top + 1 + 3 /\ top' = top + 1 + 3 + 0 /\ func' = f
        /\ funcs' = NotedPrev(fs, f) /\ pc' = [f |-> f, i |-> 1] /\ UNCHANGED <<tables, out, status>>
    BY <1>2, <1>4, <1>5, <1>6 DEF Enter
  <1>9. /\ Len(funcs)' = f /\ funcs' \in Seq(FuncsOf(f)) /\ funcs'[f].prev = func
        /\ funcs'[f].kind = "NF" /\ funcs'[f].proto = p
        /\ \A g \in 1..Len(funcs) : /\ funcs'[g].kind = funcs[g].kind /\ funcs'[g].proto = funcs[g].proto
                                    /\ funcs'[g].prev = funcs[g].prev
    <2>1. func \in 0..f /\ f \in 1..f
      BY <1>1, Basics DEF Inv, TypeOK
    <2>2. /\ funcs' \in Seq(FuncsOf(f)) /\ Len(funcs)' = f /\ funcs'[f].prev = func
          /\ \A g \in 1..f : /\ funcs'[g].kind = fs[g].kind /\ funcs'[g].proto = fs[g].proto
                             /\ g # f => funcs'[g] = fs[g]
      BY <1>1, <1>5, <1>8, <2>1, NotedFacts
    <2>3. \A g \in 1..Len(funcs) : g \in 1..f /\ g # f
      BY <1>1, Basics DEF Inv
    <2> QED BY <1>5, <2>1, <2>2, <2>3
  <1>10. /\ FuncsKept /\ Len(funcs) \in Nat
         /\ \A g \in 1..Len(funcs)' : g # f => g \in 1..Len(funcs)
    <2>1. Len(funcs) \in Nat
      BY Basics DEF Inv
    <2> QED BY <1>1, <1>9, <2>1 DEF FuncsKept
  <1>11. PICK t \in Nat : t = top + 4 /\ t <= Capacity
    BY <1>2, LiveTopFacts, CapacityNat DEF HasRoom
  <1>12. c \in CallsOf(Len(funcs)') /\ c.pc \in Pcs(Len(funcs))
    <2>1. top + 1 \in 0..Capacity /\ base \in 0..Capacity
      BY <1>11, LiveTopFacts, CapacityNat
    <2>2. pc \in Pcs(Len(funcs)) /\ func \in 0..Len(funcs)
      BY DEF Inv, TypeOK
    <2>3. pc \in Pcs(f) /\ func \in 0..f /\ f \in 1..f
      <3>1. Len(funcs) <= f
        BY <1>1, <1>10
      <3> QED BY <1>1, <1>10, <2>2, <3>1, Monotone
    <2>4. -1 \in Int16
      BY DEF Int16, Int16Max
    <2> QED BY <1>6, <1>7, <1>9, <2>1, <2>2, <2>3, <2>4 DEF CallsOf
  <1>13. EntersWith(c, f, t)
    <2>1. base <= c.top /\ c.top + 3 = t /\ base' = c.top + 3 /\ top' = t
      BY <1>7, <1>8, <1>11, LiveTopFacts
    <2>2. f \in 1..Len(funcs)' /\ \A g \in 1..Len(funcs)' : g # f => funcs'[g].prev = funcs[g].prev
      BY <1>1, <1>9, <1>10
    <2>3. c.top + 3 <= t
      BY <1>7, <1>11, LiveTopFacts
    <2> QED BY <1>7, <1>8, <1>9, <1>10, <1>11, <2>1, <2>2, <2>3 DEF EntersWith
  <1>14. SavesRegisters(c, t)
    <2>1. /\ top + 1 + 2 \in 0..Capacity /\ base \in 0..Capacity /\ top \in Nat /\ pc \in Pcs(Len(funcs))
      BY <1>11, LiveTopFacts, CapacityNat DEF Inv, TypeOK
    <2>2. PICK w : w = <<FuncV(f)>> \o Saved(pc, top + 1)
      OBVIOUS
    <2>3. /\ Len(w) = 4 /\ w[1] = FuncV(f) /\ w[2] = PcV(pc) /\ w[3] = IndexV(base)
          /\ w[4] = IndexV(top + 1 + 2)
      <3>1. Saved(pc, top + 1) = <<PcV(pc), IndexV(base), IndexV(top + 1 + 2)>>
        BY DEF Saved
      <3> QED BY <2>2, <3>1, FourValues
    <2>4. /\ FuncV(f) \in SlotValues' /\ PcV(pc) \in SlotValues' /\ IndexV(base) \in SlotValues'
          /\ IndexV(top + 1 + 2) \in SlotValues'
          /\ PcV(pc).type # "Func" /\ IndexV(base).type # "Func" /\ IndexV(top + 1 + 2).type # "Func"
      <3>1. PICK m \in Nat : m = Len(tables) /\ Len(tables)' = m
        BY <1>8, Basics DEF Inv
      <3>2. pc \in Pcs(f)
        <4>1. Len(funcs) <= f
          BY <1>1, <1>10
        <4> QED BY <1>10, <2>1, <4>1, Monotone
      <3>3. FuncV(f) \in SlotValuesOf(f, m)
        BY <1>1 DEF FuncV, SlotValuesOf
      <3> QED BY <1>9, <2>1, <3>1, <3>2, <3>3, RegisterValues DEF SlotValues
    <2>5. \A j \in 1..4 : w[j] \in SlotValues' /\ (j # 1 => w[j].type # "Func")
      BY <2>3, <2>4
    <2>6. stack' = Pushed(w) /\ top + 4 <= Capacity
      BY <1>2, <1>11, <2>2
    <2>7. /\ DOMAIN stack' = 0..Capacity /\ stack' = [s \in 0..Capacity |-> stack'[s]]
          /\ \A s \in 0..Capacity : ~(top <= s /\ s < top + 4) => stack'[s] = stack[s]
          /\ \A j \in 1..4 : stack'[top + j - 1] = w[j] /\ top + j - 1 \in 0..Capacity
          /\ \A s \in 0..Capacity : top <= s /\ s < top + 4 =>
               s - top + 1 \in 1..4 /\ stack'[s] = w[s - top + 1]
      <3>1. PICK m \in Nat : m = 4
        OBVIOUS
      <3>2. Len(w) = m /\ top + m <= Capacity
        BY <2>3, <2>6, <3>1
      <3>3. PICK P : P = Pushed(w)
        OBVIOUS
      <3>4. /\ DOMAIN P = 0..Capacity /\ P = [s \in 0..Capacity |-> P[s]]
            /\ \A s \in 0..Capacity : ~(top <= s /\ s < top + m) => P[s] = stack[s]
            /\ \A j \in 1..m : P[top + j - 1] = w[j] /\ top + j - 1 \in 0..Capacity
            /\ \A s \in 0..Capacity : top <= s /\ s < top + m =>
                 s - top + 1 \in 1..m /\ P[s] = w[s - top + 1]
        BY <3>2, <3>3, PushedFacts
      <3>5. stack' = P
        BY <2>6, <3>3
      <3> QED BY <3>1, <3>4, <3>5
    <2>8. stack' \in [0..Capacity -> SlotValues']
      <3>1. SlotValues \subseteq SlotValues'
        <4>1. Len(tables)' = Len(tables) /\ Len(tables) \in Nat /\ Len(funcs) <= f
          BY <1>1, <1>8, <1>10, Basics DEF Inv
        <4> QED BY <1>9, <1>10, <4>1, Monotone DEF SlotValues
      <3>2. \A s \in 0..Capacity : stack[s] \in SlotValues'
        BY <3>1 DEF Inv, TypeOK
      <3>3. \A s \in 0..Capacity : stack'[s] \in SlotValues'
        BY <2>5, <2>7, <3>2
      <3> QED BY <2>7, <3>3
    <2>9. \A s \in 0..(base - 1) : stack'[s] = stack[s]
      <3>1. \A s \in 0..(base - 1) : s \in 0..Capacity /\ ~(top <= s)
        BY LiveTopFacts, CapacityNat
      <3> QED BY <2>7, <3>1
    <2>10. /\ stack'[c.top] = PcV(c.pc) /\ stack'[c.top + 1] = IndexV(c.base)
           /\ stack'[c.top + 2] = IndexV(c.top + 2)
      <3>1. 2 \in 1..4 /\ 3 \in 1..4 /\ 4 \in 1..4
        OBVIOUS
      <3>2. top + 2 - 1 = top + 1 /\ top + 3 - 1 = top + 1 + 1 /\ top + 4 - 1 = top + 1 + 2
        BY <2>1
      <3>3. stack'[top + 1] = w[2] /\ stack'[top + 1 + 1] = w[3] /\ stack'[top + 1 + 2] = w[4]
        BY <2>7, <3>1, <3>2
      <3> QED BY <1>7, <2>3, <3>3
    <2>11. ASSUME NEW s \in base..(t - 1), IsChunk(stack[s])' PROVE s = c.top - 1
      <3>1. s \in 0..Capacity /\ s < top + 4 /\ base <= s
        BY <1>11, LiveTopFacts, CapacityNat
      <3>2. CASE s < top
        <4>1. stack'[s] = stack[s] /\ stack[s] \in SlotValues
          <5>1. stack[s] \in SlotValues
            BY <3>1 DEF Inv, TypeOK
          <5>2. s \in 0..Capacity /\ ~(top <= s /\ s < top + 4)
            BY <2>1, <3>1, <3>2, CapacityNat
          <5> QED BY <2>7, <5>1, <5>2
        <4>2. ~IsChunk(stack[s])
          BY <3>1, <3>2, LiveTopFacts, NoChunks
        <4>3. stack[s].type = "Func" => stack[s].v \in 1..Len(funcs)
          BY <1>10, <4>1, Basics, PayloadTypes DEF SlotValues, Inv
        <4> QED BY <1>9, <2>11, <4>1, <4>2, <4>3 DEF IsChunk
      <3>3. CASE top <= s
        <4>1. PICK j \in 1..4 : j = s - top + 1 /\ stack'[s] = w[j]
          BY <2>7, <3>1, <3>3
        <4>2. j = 1
          BY <2>5, <2>11, <4>1 DEF IsChunk
        <4>3. s = top
          BY <2>1, <3>1, <4>1, <4>2
        <4>4. c.top - 1 = top
          BY <1>7, <2>1
        <4> QED BY <4>3, <4>4
      <3> QED BY <2>1, <3>1, <3>2, <3>3
    <2> QED BY <1>7, <2>8, <2>9, <2>10, <2>11 DEF SavesRegisters
  <1>15. /\ Current' = c /\ Depth' # 0
    <2>1. PICK k \in Nat : k = Depth + 1
      BY Basics DEF Inv
    <2>2. calls \in Seq(CallsOf(Len(funcs)'))
      <3>1. calls \in Seq(CallsOf(Len(funcs)))
        BY DEF Inv, TypeOK
      <3>2. Len(funcs) <= Len(funcs)'
        BY <1>1, <1>9, <1>10
      <3>3. CallsOf(Len(funcs)) \subseteq CallsOf(Len(funcs)')
        BY <1>9, <1>10, <3>2, Monotone
      <3> QED BY <3>1, <3>3
    <2>3. Depth' = k /\ calls'[k] = c
      BY <1>8, <1>12, <2>1, <2>2, AppendFacts DEF Depth
    <2> QED BY <2>1, <2>3, Basics DEF Current, Inv
  <1>16. DepthAgrees' /\ ~AfterCall'
    <2>1. pc'.f = f /\ pc'.i = 1
      BY <1>8
    <2>2. InCodeOf(Current.fn, pc)'
      BY <1>3, <1>7, <1>9, <1>15, <2>1 DEF InCodeOf
    <2>3. DepOf(pc)' = 0
      BY <1>3, <1>9, <2>1 DEF DepOf
    <2>4. (top - base)' = 0
      <3>1. PICK x \in Nat : x = top + 4 /\ x = top + 1 + 3 /\ x = top + 1 + 3 + 0
        BY LiveTopFacts
      <3> QED BY <1>8, <3>1
    <2> QED BY <2>1, <2>2, <2>3, <2>4 DEF DepthAgrees, AfterCall
  <1>17. PICK fn : fn = Current.fn
    OBVIOUS
  <1>18. PICK kind : kind = Running /\ kind = "host"
    BY <1>2 DEF HostTurn
  <1>19. ResumeOK(kind, fn, c)
    <2>1. c.base < c.top
      BY <1>7, LiveTopFacts
    <2> QED BY <1>7, <1>18, <2>1 DEF ResumeOK
  <1>20. \A g \in 1..Len(funcs)' : funcs'[g].kind = "NF" <=> funcs'[g].proto # NoProto
    <2>1. \A g \in 1..Len(funcs) : funcs[g].kind = "NF" <=> funcs[g].proto # NoProto
      BY DEF Inv, TypeOK
    <2> QED BY <1>3, <1>9, <1>10, <2>1
  <1>21. funcs' \in Seq(FuncsOf(Len(funcs)')) /\ pc' \in Pcs(Len(funcs)')
    BY <1>1, <1>8, <1>9 DEF Pcs
  <1> QED BY <1>12, <1>13, <1>14, <1>16, <1>17, <1>18, <1>19, <1>20, <1>21, EnterStep

-----------------------------------------------------------------------------
(* Returns. *)

(* A function that waits for a call has the slots it takes off.            *)
LEMMA CallerCode ==
  ASSUME Inv, NEW c \in CallsOf(Len(funcs)), NEW fn \in 1..Len(funcs), funcs[fn].kind = "NF",
         ResumeOK("NF", fn, c)
  PROVE  c.slot \in Nat /\ c.slot < c.top - c.base
  <1> DEFINE p == funcs[fn].proto
  <1>1. p \in Protos /\ WellFormed(p)
    <2>1. p \in Chunks
      BY Basics DEF Inv, TypeOK, FuncsOf
    <2> QED BY <2>1, VmAssumption
  <1>2. /\ c.pc \in Pcs(Len(funcs)) /\ InCodeOf(fn, c.pc) /\ c.pc.i > 1 /\ LastOp(c.pc) = "CALL"
        /\ c.slot = DepOf(c.pc) /\ c.top - c.base = DepOf(Before(c.pc))
    BY DEF ResumeOK, CallsOf
  <1>3. c.pc.f = fn /\ c.pc.i \in Nat /\ c.pc.i \in 1..Len(p.ins) /\ Len(p.ins) \in Nat
    BY <1>1, <1>2 DEF InCodeOf, Pcs, Protos
  <1>4. PICK j \in Nat : j = c.pc.i - 1 /\ j + 1 = c.pc.i /\ j \in 1..Len(p.ins) /\ j < Len(p.ins)
    <2> HIDE DEF p
    <2>1. PICK i \in Nat : i = c.pc.i /\ i > 1 /\ i \in 1..Len(p.ins)
      BY <1>2, <1>3
    <2>2. i - 1 \in Nat /\ (i - 1) + 1 = i /\ i - 1 \in 1..Len(p.ins) /\ i - 1 < Len(p.ins)
      BY <1>3, <2>1
    <2> QED BY <2>1, <2>2
  <1>5. p.ins[j].op = "CALL" /\ c.slot = p.dep[j + 1] /\ c.top - c.base = p.dep[j]
    <2>1. LastOp(c.pc) = p.ins[j].op
      BY <1>3, <1>4 DEF LastOp
    <2>2. DepOf(c.pc) = p.dep[j + 1]
      BY <1>3, <1>4 DEF DepOf
    <2>3. DepOf(Before(c.pc)) = p.dep[j]
      BY <1>2, <1>3, <1>4 DEF DepOf, Before, Pcs
    <2> QED BY <1>2, <2>1, <2>2, <2>3
  <1>6. /\ p.dep[j] \in Nat /\ OperandsLive(p.ins[j], p.dep[j])
        /\ p.dep[j + 1] = DepthAfter(p.ins[j], p.dep[j])
    <2> HIDE DEF p
    <2> QED BY <1>1, <1>4, WellFormedAt
  <1> HIDE DEF p
  <1>7. p.dep[j + 1] = p.ins[j].ab
    BY <1>5, <1>6 DEF DepthAfter, BinaryOps
  <1>8. p.ins[j].ab \in 0..(p.dep[j] - 1)
    <2>1. p.ins[j].ab \in SlotsOf(p.ins[j])
      BY <1>5 DEF SlotsOf, BinaryOps
    <2> QED BY <1>5, <1>6, <2>1 DEF OperandsLive
  <1>9. PICK d \in Nat : d = p.dep[j]
    BY <1>6
  <1>10. c.slot \in 0..(d - 1) /\ c.top - c.base = d
    BY <1>5, <1>7, <1>8, <1>9
  <1>11. c.slot \in Nat /\ c.slot < d
    BY <1>10
  <1> QED BY <1>10, <1>11

(* The registers a return pops are the caller's.                           *)
LEMMA ReturnRegisters ==
  ASSUME Inv, Depth > 0, Return
  PROVE  /\ base' = Current.base /\ pc' = Current.pc
         /\ top' = IF Current.slot >= 0 THEN Current.base + Current.slot
                                        ELSE Current.top + Current.slot
  <1>1. Depth \in 1..Depth
    BY Basics DEF Inv
  <1>2. PICK c : c = calls[Depth] /\ c = Current
    BY DEF Current
  <1>3. c.top \in Nat /\ c.base \in Nat /\ c.slot \in Int
    BY <1>1, <1>2, CallFacts DEF Inv
  <1>4. /\ stack[c.top] = PcV(c.pc) /\ stack[c.top + 1] = IndexV(c.base)
        /\ stack[c.top + 2] = IndexV(c.top + 2) /\ base = c.top + 3
    BY <1>1, <1>2 DEF Inv, SavedFramesIntact, FrameBase
  <1>5. SavedTopSlot = c.top + 2
    <2>1. base - 1 = c.top + 2
      BY <1>3, <1>4
    <2> QED BY <1>4, <2>1 DEF SavedTopSlot, IndexV
  <1>6. PoppedBase = c.base /\ PoppedPc = c.pc
    <2>1. (c.top + 2) - 1 = c.top + 1 /\ (c.top + 2) - 2 = c.top
      BY <1>3
    <2> QED BY <1>4, <1>5, <2>1 DEF PoppedBase, PoppedPc, IndexV, PcV
  <1>7. LeftTop(c.slot) = IF c.slot >= 0 THEN c.base + c.slot ELSE c.top + c.slot
    <2>1. (c.top + 2) - 2 + c.slot = c.top + c.slot
      BY <1>3
    <2> QED BY <1>5, <1>6, <2>1 DEF LeftTop
  <1> QED BY <1>2, <1>6, <1>7 DEF Return

(* __Thread_return keeps the invariant.                                    *)
LEMMA ReturnStep ==
  ASSUME Inv, Depth > 0, Return, out' \in Seq(SlotValues)
  PROVE  Inv'
  <1>1. /\ Depth \in 1..Depth /\ Depth \in Nat /\ TypeOK
        /\ Len(funcs) \in Nat /\ Len(tables) \in Nat
        /\ UNCHANGED <<stack, funcs, tables, status>>
    BY Basics DEF Inv, Return
  <1>2. PICK c \in CallsOf(Len(funcs)) : c = calls[Depth] /\ c = Current
    BY <1>1, CallFacts DEF Current, Inv
  <1>3. /\ c.top \in Nat /\ c.base \in Nat /\ c.slot \in Int /\ c.pc \in Pcs(Len(funcs))
        /\ base = c.top + 3 /\ c.base <= c.top /\ base \in Nat /\ base <= Capacity
    <2>1. c.top \in Nat /\ c.base \in Nat /\ c.slot \in Int /\ c.pc \in Pcs(Len(funcs))
          /\ base \in Nat /\ base <= Capacity
      BY <1>1, <1>2, CallFacts DEF Inv
    <2>2. base = c.top + 3 /\ c.base <= c.top
      BY <1>1, <1>2 DEF Inv, SavedFramesIntact, FrameBase
    <2> QED BY <2>1, <2>2
  <1>4. PICK m \in Nat : m = Depth - 1 /\ m + 1 = Depth /\ m < Depth
    BY <1>1
  <1>5. /\ calls' \in Seq(CallsOf(Len(funcs))) /\ Depth' = m
        /\ \A k \in 1..m : calls'[k] = calls[k] /\ k \in 1..Depth
    <2>1. calls \in Seq(CallsOf(Len(funcs))) /\ Len(calls) = Depth
      BY <1>1 DEF TypeOK, Depth
    <2>2. calls' = SubSeq(calls, 1, m)
      BY <1>4 DEF Return
    <2>3. \A k \in 1..m : k \in 1..Depth
      BY <1>4
    <2> QED BY <1>1, <1>4, <2>1, <2>2, <2>3 DEF Depth
  <1>6. PICK x : top' = x /\ x = IF c.slot >= 0 THEN c.base + c.slot ELSE c.top + c.slot
    BY <1>2, ReturnRegisters
  <1>7. base' = c.base /\ pc' = c.pc
    BY <1>2, ReturnRegisters
  <1>8. PICK kind : kind = CallerKind(Depth)
    OBVIOUS
  <1>9. PICK fn : fn = calls[Depth - 1].fn
    OBVIOUS
  <1>10. ResumeOK(kind, fn, c)
    BY <1>1, <1>2, <1>8, <1>9 DEF Inv, CallersResume, ResumeOK
  <1>11. Running' = kind
    <2>1. CASE m = 0
      BY <1>4, <1>5, <1>8, <2>1 DEF Running, CallerKind
    <2>2. CASE m # 0
      <3>1. m \in 1..m /\ Depth # 1 /\ Depth - 1 = m
        BY <1>4, <2>2
      <3>2. kind = funcs[calls[m].fn].kind
        BY <1>8, <3>1 DEF CallerKind
      <3>3. Current' = calls[m]
        BY <1>5, <3>1 DEF Current
      <3> QED BY <1>1, <1>5, <2>2, <3>2, <3>3 DEF Running
    <2> QED BY <2>1, <2>2
  <1>12. kind = "NF" => /\ m > 0 /\ fn \in 1..Len(funcs) /\ Current'.fn = fn /\ funcs[fn].kind = "NF"
    <2> HAVE kind = "NF"
    <2>1. Depth # 1 /\ m # 0
      BY <1>4, <1>8 DEF CallerKind
    <2>2. m \in 1..m /\ m \in 1..Depth /\ Depth - 1 = m /\ m > 0
      BY <1>4, <2>1
    <2>3. fn \in 1..Len(funcs)
      BY <1>9, <2>2, <1>1, CallFacts DEF Inv
    <2>4. Current'.fn = fn
      BY <1>5, <1>9, <2>2 DEF Current
    <2>5. funcs[fn].kind = "NF"
      BY <1>8, <1>9, <2>1 DEF CallerKind
    <2> QED BY <2>2, <2>3, <2>4, <2>5
  (* Where the caller's frame ends now, and what it may bring back.        *)
  <1>13. /\ x \in Nat /\ c.base <= x /\ x < c.top
         /\ kind = "NF" => c.slot \in Nat /\ x = c.base + c.slot
         /\ kind # "NF" => c.slot = -1 /\ x = c.top - 1
    <2>1. CASE kind = "NF"
      <3>1. c.slot \in Nat /\ c.slot < c.top - c.base
        BY <1>10, <1>12, <2>1, CallerCode
      <3>2. x = c.base + c.slot
        BY <1>6, <3>1
      <3> QED BY <1>3, <2>1, <3>1, <3>2
    <2>2. CASE kind # "NF"
      <3>1. c.slot = -1 /\ c.base < c.top
        BY <1>10, <2>2 DEF ResumeOK
      <3>2. x = c.top - 1
        BY <1>3, <1>6, <3>1
      <3> QED BY <1>3, <2>2, <3>1, <3>2
    <2> QED BY <2>1, <2>2
  <1>14. /\ SlotValues' = SlotValues /\ Len(funcs)' = Len(funcs)
         /\ \A y : IsChunk(y)' <=> IsChunk(y)
         /\ \A g \in 1..Len(funcs) : \A q : InCodeOf(g, q)' <=> InCodeOf(g, q)
         /\ \A q : DepOf(q)' = DepOf(q) /\ LastOp(q)' = LastOp(q)
    BY <1>1 DEF SlotValues, IsChunk, InCodeOf, DepOf, LastOp
  <1>15. TypeOK'
    <2>1. top' \in 0..Capacity /\ base' \in 0..Capacity
      BY <1>3, <1>6, <1>7, <1>13, CapacityNat
    <2>2. pc' \in Pcs(Len(funcs)')
      BY <1>3, <1>7, <1>14
    <2>3. func' \in 0..Len(funcs)'
      <3>1. PICK r \in [0..Len(funcs) -> Nat] : Linked(r)
        BY DEF Inv, ChainLongEnough
      <3>2. func \in 1..Len(funcs)
        BY <1>1, <3>1 DEF Linked, TypeOK
      <3> QED BY <1>1, <1>14, <3>2, Basics DEF Return, CallerFunc, FuncsOf
    <2> QED BY <1>1, <1>5, <1>14, <2>1, <2>2, <2>3 DEF TypeOK
  <1>16. SavedFramesIntact'
    <2>1. base' <= top'
      BY <1>6, <1>7, <1>13
    <2>2. ASSUME NEW k \in 1..m
          PROVE  /\ stack'[calls'[k].top] = PcV(calls'[k].pc)
                 /\ stack'[calls'[k].top + 1] = IndexV(calls'[k].base)
                 /\ stack'[calls'[k].top + 2] = IndexV(calls'[k].top + 2)
                 /\ calls'[k].base <= calls'[k].top
                 /\ FrameBase(k)' = calls'[k].top + 3
                 /\ calls'[k].top + 3 <= base'
                 /\ \A j \in 1..(k - 1) : calls'[j].top + 3 <= calls'[k].base
      <3>1. k \in 1..Depth /\ k # Depth /\ calls'[k] = calls[k]
        BY <1>4, <1>5
      <3>2. FrameBase(k)' = FrameBase(k)
        <4>1. FrameBase(k) = calls[k + 1].base
          BY <3>1 DEF FrameBase
        <4>2. CASE k = m
          BY <1>2, <1>4, <1>5, <1>7, <4>1, <4>2 DEF FrameBase
        <4>3. CASE k # m
          <5>1. k + 1 \in 1..m
            BY <4>3
          <5> QED BY <1>5, <4>1, <4>3, <5>1 DEF FrameBase
        <4> QED BY <4>2, <4>3
      <3>3. \A j \in 1..(k - 1) : calls'[j] = calls[j]
        BY <1>5
      <3>4. calls[k].top + 3 <= calls[Depth].base
        <4>1. k \in 1..(Depth - 1)
          BY <1>4
        <4> QED BY <1>1, <4>1 DEF Inv, SavedFramesIntact
      <3> QED BY <1>1, <1>2, <1>7, <3>1, <3>2, <3>3, <3>4 DEF Inv, SavedFramesIntact
    <2> QED BY <1>5, <2>1, <2>2 DEF SavedFramesIntact
  <1>17. DepthAgrees'
    <2>1. CASE kind # "NF"
      BY <1>11, <2>1 DEF DepthAgrees
    <2>2. CASE kind = "NF"
      <3>1. InCodeOf(fn, c.pc) /\ c.slot = DepOf(c.pc)
        BY <1>10, <2>2 DEF ResumeOK
      <3>2. InCodeOf(Current.fn, pc)'
        BY <1>1, <1>7, <1>12, <2>2, <3>1 DEF InCodeOf
      <3>3. DepOf(pc)' = c.slot
        BY <1>1, <1>7, <3>1 DEF DepOf
      <3>4. (top - base)' = c.slot
        <4>1. x - c.base = c.slot
          BY <1>3, <1>13, <2>2
        <4> QED BY <1>6, <1>7, <4>1
      <3> QED BY <3>2, <3>3, <3>4 DEF DepthAgrees
    <2> QED BY <2>1, <2>2
  <1>18. CallersResume'
    <2>1. ASSUME NEW k \in 1..m
          PROVE  ResumeOK(CallerKind(k), calls[k - 1].fn, calls[k])'
      <3>1. k \in 1..Depth /\ calls'[k] = calls[k]
        BY <1>5
      <3>2. k # 1 => calls'[k - 1] = calls[k - 1]
        <4> HAVE k # 1
        <4>1. k - 1 \in 1..m
          OBVIOUS
        <4> QED BY <1>5, <4>1
      <3>3. CallerKind(k)' = CallerKind(k)
        BY <1>1, <3>2 DEF CallerKind
      <3>4. ResumeOK(CallerKind(k), calls[k - 1].fn, calls[k])
        BY <3>1 DEF Inv, CallersResume, ResumeOK
      <3>5. CallerKind(k) = "NF" => k # 1
        BY DEF CallerKind
      <3> QED BY <1>1, <3>1, <3>2, <3>3, <3>4, <3>5 DEF ResumeOK, InCodeOf, LastOp, DepOf, Before
    <2> QED BY <1>5, <2>1 DEF CallersResume, ResumeOK
  <1>19. ChunksUnreachable'
    <2>1. PICK y \in Nat : LiveTop' = y /\ y <= c.top /\ (kind # "NF" => y = c.top - 1)
      <3>1. CASE kind # "NF"
        <4>1. LiveTop' = x
          BY <1>6, <1>11, <3>1 DEF LiveTop, AfterCall
        <4> QED BY <1>3, <1>13, <3>1, <4>1
      <3>2. CASE kind = "NF"
        <4>1. c.pc.i > 1 /\ LastOp(c.pc) = "CALL" /\ c.top - c.base = DepOf(Before(c.pc))
          BY <1>10, <3>2 DEF ResumeOK
        <4>2. AfterCall'
          BY <1>1, <1>7, <1>11, <3>2, <4>1 DEF AfterCall, LastOp
        <4>3. DepOf(Before(pc))' = DepOf(Before(c.pc))
          BY <1>1, <1>7 DEF DepOf, Before
        <4>4. LiveTop' = c.base + (c.top - c.base)
          BY <1>7, <4>1, <4>2, <4>3 DEF LiveTop
        <4>5. c.base + (c.top - c.base) = c.top
          BY <1>3
        <4> QED BY <1>3, <3>2, <4>4, <4>5
      <3> QED BY <3>1, <3>2
    <2>2. ASSUME NEW s \in 0..(y - 1), IsChunk(stack[s])'
          PROVE  \E k \in 1..m : calls'[k].slot = -1 /\ s = calls'[k].top - 1
      <3>1. IsChunk(stack[s])
        BY <1>1, <2>2 DEF IsChunk
      <3>2. s \in 0..(LiveTop - 1)
        BY <1>3, <2>1, LiveTopFacts
      <3>3. PICK k \in 1..Depth : calls[k].slot = -1 /\ s = calls[k].top - 1
        BY <3>1, <3>2 DEF Inv, ChunksUnreachable
      <3>4. k # Depth
        <4>1. SUFFICES ASSUME k = Depth PROVE FALSE
          OBVIOUS
        <4>2. c.slot = -1 /\ s = c.top - 1
          BY <1>2, <3>3, <4>1
        <4>3. kind # "NF"
          BY <1>13, <4>2
        <4> QED BY <1>3, <2>1, <4>2, <4>3
      <3>5. k \in 1..m
        BY <1>4, <3>4
      <3> QED BY <1>5, <3>3, <3>5
    <2>3. y <= Capacity
      BY <1>3, <2>1, CapacityNat
    <2>4. \A t \in 1..Len(tables)' : \A key \in DOMAIN tables'[t] : ~IsChunk(tables[t][key])'
      BY <1>1 DEF Inv, ChunksUnreachable, IsChunk
    <2> QED BY <1>5, <2>1, <2>2, <2>3, <2>4 DEF ChunksUnreachable
  <1>20. ChainLongEnough'
    <2>1. PICK r \in [0..Len(funcs) -> Nat] : Linked(r)
      BY DEF Inv, ChainLongEnough
    <2>2. func \in 1..Len(funcs)
      BY <1>1, <2>1 DEF Linked, TypeOK
    <2>3. PICK h \in 0..Len(funcs) : h = funcs[func].prev /\ func' = h
      BY <2>2, Basics DEF Inv, FuncsOf, Return, CallerFunc
    <2>4. r[func] <= r[h] + 1 /\ r[func] >= Depth
      BY <2>1, <2>2, <2>3 DEF Linked
    <2>5. r[h] \in Nat /\ r[func] \in Nat
      BY <1>1, <2>2
    <2>6. r[h] >= m
      BY <1>4, <2>4, <2>5
    <2>7. Linked(r)'
      BY <1>1, <1>5, <1>14, <2>1, <2>3, <2>6 DEF Linked
    <2> QED BY <1>14, <2>7 DEF ChainLongEnough
  <1> QED BY <1>15, <1>16, <1>17, <1>18, <1>19, <1>20 DEF Inv

-----------------------------------------------------------------------------
(* The invariant holds at first, and every step keeps it. *)

(* nf::open leaves the invariant true.                                     *)
LEMMA InitInv == Init => Inv
  <1> SUFFICES ASSUME Init PROVE Inv
    OBVIOUS
  <1>1. /\ Len(funcs) = 1 /\ funcs[1] = CFunc("print") /\ Len(tables) = 2 /\ Len(calls) = 0
        /\ tables[1] = Registry /\ tables[2] = NfTable
    BY DEF Init
  <1>2. Depth = 0 /\ Running = "host" /\ top = 0 /\ base = 0
    BY <1>1 DEF Depth, Running, Init
  <1>3. StrV(PrintName) \in Plain /\ StrV(NfName) \in Plain /\ StrV(VersionName) \in Plain
        /\ StrV(Version) \in Plain /\ Uninit \in Plain
    BY OpenAssumption DEF StrV, Plain, Uninit
  <1>4. Plain \subseteq SlotValues /\ FuncV(1) \in SlotValues /\ TableV(2) \in SlotValues
        /\ \A x \in Plain \cup {FuncV(1), TableV(2)} : ~IsChunk(x)
    <2>1. Plain \subseteq SlotValues /\ FuncV(1) \in SlotValues /\ TableV(2) \in SlotValues
      BY <1>1 DEF SlotValues, SlotValuesOf, FuncV, TableV
    <2>2. ~IsChunk(FuncV(1)) /\ ~IsChunk(TableV(2))
      BY <1>1 DEF IsChunk, FuncV, TableV, CFunc
    <2>3. \A x \in Plain : ~IsChunk(x)
      BY DEF IsChunk, Plain
    <2> QED BY <2>1, <2>2, <2>3
  <1>5. \A t \in 1..Len(tables) : \A k \in DOMAIN tables[t] :
          tables[t][k] \in SlotValues /\ ~IsChunk(tables[t][k])
    <2>1. \A k \in DOMAIN Registry : Registry[k] \in {FuncV(1), TableV(2)}
      BY DEF Registry
    <2>2. \A k \in DOMAIN NfTable : NfTable[k] = StrV(Version)
      BY DEF NfTable
    <2>3. \A t \in 1..Len(tables) : t = 1 \/ t = 2
      BY <1>1
    <2> QED BY <1>1, <1>3, <1>4, <2>1, <2>2, <2>3
  <1>6. TypeOK
    <2>1. stack \in [0..Capacity -> SlotValues]
      <3>1. OpenedStack \in Seq(SlotValues) /\ Len(OpenedStack) = 4
        BY <1>3, <1>4 DEF OpenedStack
      <3>2. \A s \in 0..Capacity : s < 4 => OpenedStack[s + 1] \in SlotValues
        <4> TAKE s \in 0..Capacity
        <4> HAVE s < 4
        <4>1. s + 1 \in 1..4
          BY CapacityNat
        <4> QED BY <3>1, <4>1, SeqIsFunction
      <3> QED BY <1>3, <1>4, <3>2 DEF Init
    <2>2. pc \in Pcs(Len(funcs)) /\ func \in 0..Len(funcs)
      BY <1>1 DEF Init, NoPc, Pcs
    <2>3. funcs \in Seq(FuncsOf(Len(funcs)))
      <3>1. CFunc("print") \in FuncsOf(1)
        BY DEF CFunc, FuncsOf
      <3> QED BY <1>1, <3>1 DEF Init
    <2>4. \A f \in 1..Len(funcs) : funcs[f].kind = "NF" <=> funcs[f].proto # NoProto
      <3>1. \A f \in 1..Len(funcs) : f = 1
        BY <1>1
      <3> QED BY <1>1, <3>1 DEF CFunc
    <2>5. Len(tables) \in Nat \ {0} /\ tables = [t \in 1..Len(tables) |-> tables[t]]
      BY <1>1 DEF Init
    <2>6. calls \in Seq(CallsOf(Len(funcs))) /\ out \in Seq(SlotValues) /\ status \in Statuses
      BY DEF Init, Statuses
    <2>7. top \in 0..Capacity /\ base \in 0..Capacity
      BY <1>2, CapacityNat
    <2> QED BY <1>5, <2>1, <2>2, <2>3, <2>4, <2>5, <2>6, <2>7 DEF TypeOK
  <1>7. SavedFramesIntact
    BY <1>2 DEF SavedFramesIntact
  <1>8. DepthAgrees
    BY <1>2 DEF DepthAgrees
  <1>9. CallersResume
    BY <1>2 DEF CallersResume
  <1>10. ChunksUnreachable
    <2>1. LiveTop = 0
      BY <1>2 DEF LiveTop, AfterCall
    <2> QED BY <1>5, <2>1, CapacityNat DEF ChunksUnreachable
  <1>11. ChainLongEnough
    <2>1. PICK r \in [0..1 -> Nat] : \A f \in 0..1 : r[f] = 0
      <3>1. [f \in 0..1 |-> 0] \in [0..1 -> Nat] /\ \A f \in 0..1 : [g \in 0..1 |-> 0][f] = 0
        OBVIOUS
      <3> QED BY <3>1
    <2>2. func = 0 /\ funcs[1].prev = 0
      BY <1>1 DEF Init, CFunc
    <2>3. Linked(r)
      BY <1>1, <1>2, <2>1, <2>2 DEF Linked
    <2> QED BY <1>1, <2>3 DEF ChainLongEnough
  <1> QED BY <1>6, <1>7, <1>8, <1>9, <1>10, <1>11 DEF Inv

(* Code other than the main program runs in an activation.                 *)
LEMMA DepthPositive == ASSUME Inv, Running # "host" PROVE Depth > 0
  BY Basics DEF Running, Inv

(* RET_0 keeps the invariant.                                              *)
LEMMA Ret0Step == ASSUME Inv, Ret0 PROVE Inv'
  <1>1. Depth > 0
    BY DepthPositive DEF Ret0, At
  <1>2. out' \in Seq(SlotValues)
    BY DEF Inv, TypeOK, Ret0
  <1> QED BY <1>1, <1>2, ReturnStep DEF Ret0

(* print keeps the invariant.                                              *)
LEMMA CPrintStep == ASSUME Inv, CPrint PROVE Inv'
  <1>1. Depth > 0
    BY DepthPositive DEF CPrint
  <1>2. stack[base] \in SlotValues /\ out \in Seq(SlotValues)
    BY DEF Inv, TypeOK
  <1>3. out' \in Seq(SlotValues)
    BY <1>2, AppendFacts DEF CPrint
  <1> QED BY <1>1, <1>3, ReturnStep DEF CPrint

(* The return of a C function keeps the invariant.                         *)
LEMMA HostReturnsStep == ASSUME Inv, HostReturns PROVE Inv'
  <1>1. out' \in Seq(SlotValues)
    BY DEF Inv, TypeOK, HostReturns
  <1> QED BY <1>1, ReturnStep DEF HostReturns

(* Every step of the interpreter keeps the invariant.                      *)
LEMMA InterpreterInv == ASSUME Inv, Interpreter PROVE Inv'
  BY ConstStep, LoadNilStep, PushSlotStep, NewTableStep, ComputeStep, SetSlotStep, TableSetStep,
     TableGetStep, PopStep, CallStep, Ret0Step, CPrintStep DEF Interpreter

(* Every call of the API keeps the invariant.                              *)
LEMMA HostInv == ASSUME Inv, Host PROVE Inv'
  <1>1. CASE \E p \in Chunks : Run(p)
    BY <1>1, RunStep
  <1>2. CASE RunRejected
    BY <1>2, FailStep DEF RunRejected, Statuses
  <1>3. CASE HostPushStr \/ HostPushTable \/ HostPushFunc
    BY <1>3, HostPushStrStep, HostPushTableStep, HostPushFuncStep
  <1>4. CASE \E k \in (-HostSlots)..(-2) : \E t \in {PSEUDO_INDEX_GLOBAL} \cup (-HostSlots)..(-2) :
               HostSetTable(t, k)
    <2>1. PICK k \in (-HostSlots)..(-2), t \in {PSEUDO_INDEX_GLOBAL} \cup (-HostSlots)..(-2) :
            HostSetTable(t, k)
      BY <1>4
    <2>2. k \in Int /\ t \in Int
      BY VmAssumption DEF PSEUDO_INDEX_GLOBAL
    <2> QED BY <2>1, <2>2, HostSetTableStep
  <1>5. CASE \E n \in 1..HostSlots : HostPop(n)
    <2>1. PICK n \in 1..HostSlots : HostPop(n)
      BY <1>5
    <2>2. n \in Nat
      BY VmAssumption
    <2> QED BY <2>1, <2>2, HostPopStep
  <1>6. CASE \E n \in 0..HostSlots : HostSetTop(n)
    <2>1. PICK n \in 0..HostSlots : HostSetTop(n)
      BY <1>6
    <2>2. n \in Nat
      BY VmAssumption
    <2> QED BY <2>1, <2>2, HostSetTopStep
  <1>7. CASE HostReturns
    BY <1>7, HostReturnsStep
  <1> QED BY <1>1, <1>2, <1>3, <1>4, <1>5, <1>6, <1>7 DEF Host

(* Every step keeps the invariant.                                         *)
LEMMA NextInv == Inv /\ [Next]_vars => Inv'
  <1> SUFFICES ASSUME Inv, [Next]_vars PROVE Inv'
    OBVIOUS
  <1>1. CASE Interpreter
    BY <1>1, InterpreterInv
  <1>2. CASE Host
    BY <1>2, HostInv
  <1>3. CASE StackFails
    BY <1>3, FailStep DEF StackFails, Statuses
  <1>4. CASE OutOfMemory
    BY <1>4, FailStep DEF OutOfMemory, Statuses
  <1>5. CASE UNCHANGED vars
    <2>1. status \in Statuses
      BY DEF Inv, TypeOK
    <2>2. PICK why \in Statuses : why = status
      BY <2>1
    <2>3. Fails(why)
      BY <1>5, <2>2 DEF Fails, vars
    <2> QED BY <2>3, FailStep
  <1> QED BY <1>1, <1>2, <1>3, <1>4, <1>5 DEF Next

-----------------------------------------------------------------------------
(* Theorems: what the runs check, for every value of the constants. *)

(* The invariant holds in every state of the interpreter.                  *)
THEOREM Invariance == Spec => []Inv
  BY InitInv, NextInv, PTL DEF Spec

(* Every variable keeps its type: no reference is to an object that does   *)
(* not exist, and top stays inside the stack.                              *)
THEOREM TypeCorrect == Spec => []TypeOK
  <1>1. Inv => TypeOK
    BY DEF Inv
  <1> QED BY <1>1, Invariance, PTL

(* The registers Thread_call saved for a caller stay where they are until  *)
(* __Thread_return pops them.                                              *)
THEOREM FramesIntact == Spec => []SavedFramesIntact
  <1>1. Inv => SavedFramesIntact
    BY DEF Inv
  <1> QED BY <1>1, Invariance, PTL

(* At every instruction the frame has the slots the parser counted.        *)
THEOREM DepthsAgree == Spec => []DepthAgrees
  <1>1. Inv => DepthAgrees
    BY DEF Inv
  <1> QED BY <1>1, Invariance, PTL

(* A function that waits for a call goes on after that CALL.               *)
THEOREM CallersGoOn == Spec => []CallersResume
  <1>1. Inv => CallersResume
    BY DEF Inv
  <1> QED BY <1>1, Invariance, PTL

(* No script gets hold of the function of a chunk.                         *)
THEOREM ChunksHidden == Spec => []ChunksUnreachable
  <1>1. Inv => ChunksUnreachable
    BY DEF Inv
  <1> QED BY <1>1, Invariance, PTL

(* The chain of prev never ends too early, re-entered functions or not.    *)
THEOREM FuncSet == Spec => []FuncNotNull
  <1>1. Inv => FuncNotNull
    <2> SUFFICES ASSUME Inv, Depth > 0, func = 0 PROVE FALSE
      BY DEF FuncNotNull
    <2>1. PICK r \in [0..Len(funcs) -> Nat] : Linked(r)
      BY DEF Inv, ChainLongEnough
    <2>2. r[0] = 0 /\ r[0] >= Depth
      BY <2>1 DEF Linked
    <2> QED BY <2>2, Basics DEF Inv
  <1> QED BY <1>1, Invariance, PTL

(* A push writes no slot below base.                                       *)
LEMMA PushKeepsCallers ==
  ASSUME Inv, NEW vals, NEW s \in 0..(base - 1)
  PROVE  Pushed(vals)[s] = stack[s]
  <1>1. s \in 0..Capacity /\ s < top /\ top \in Nat /\ DOMAIN stack = 0..Capacity
    BY LiveTopFacts, CapacityNat DEF Inv, TypeOK
  <1>2. ~(s - top + 1 \in 1..Len(vals))
    <2>1. s - top + 1 <= 0
      BY <1>1
    <2> QED BY <2>1
  <1> QED BY <1>1, <1>2 DEF Pushed

(* No step of a callee changes a slot of its callers.                      *)
THEOREM CallersUntouched == Spec => CallerSlotsUntouched
  <1>1. ASSUME Inv, [Next]_vars, NEW s \in 0..(base - 1) PROVE stack'[s] = stack[s]
    <2> s \in Int /\ s < base /\ base \in Nat /\ top \in Nat
      BY LiveTopFacts, <1>1
    <2>1. CASE stack' = stack
      BY <2>1
    <2>2. CASE \E vals : stack' = Pushed(vals)
      <3>1. PICK vals : stack' = Pushed(vals)
        BY <2>2
      <3>2. Pushed(vals)[s] = stack[s]
        BY <1>1, PushKeepsCallers
      <3> QED BY <3>1, <3>2
    <2>3. CASE SetSlot
      <3>1. Running = "NF" /\ Instr.op = "SET"
        BY <2>3 DEF SetSlot, At
      <3>2. Instr.ab \in SlotsOf(Instr)
        BY <3>1 DEF SlotsOf
      <3>3. Instr.ab \in 0..(top - base - 1)
        BY <1>1, <3>1, <3>2, Fetch DEF OperandsLive
      <3>4. PICK i \in Nat : i = Instr.ab
        BY <3>3
      <3>5. SetTarget = base + i
        BY <1>1, <3>3, <3>4, FrameSlot DEF SetTarget
      <3>6. s # base + i
        OBVIOUS
      <3> QED BY <2>3, <3>5, <3>6 DEF SetSlot
    <2>4. CASE TableGet
      <3>1. Running = "NF" /\ Instr.op = "TABLE_GET"
        BY <2>4 DEF TableGet, At
      <3>2. base <= top - 1
        BY <1>1, <3>1, TopValue
      <3>3. PICK t \in Int : t = top - 1
        OBVIOUS
      <3>4. s # t
        BY <3>2, <3>3
      <3>5. stack' = stack \/ \E val : stack' = [stack EXCEPT ![t] = val]
        BY <2>4, <3>3 DEF TableGet, Fails
      <3>6. s \in DOMAIN stack
        BY <1>1, LiveTopFacts, CapacityNat DEF Inv, TypeOK
      <3>7. CASE \E val : stack' = [stack EXCEPT ![t] = val]
        <4>1. PICK val : stack' = [stack EXCEPT ![t] = val]
          BY <3>7
        <4> QED BY <3>4, <3>6, <4>1
      <3> QED BY <3>5, <3>7
    <2>5. [Next]_vars => stack' = stack \/ (\E vals : stack' = Pushed(vals)) \/ SetSlot \/ TableGet
      BY DEF Next, Interpreter, Host, Const, LoadNil, PushSlot, NewTable, Compute, TableSet, Pop,
             Call, Ret0, CPrint, Return, PushResult, Push, Run, RunChunk, RunRejected,
             HostPushStr, HostPushTable, HostPushFunc, HostSetTable, HostPop, HostSetTop, HostReturns,
             StackFails, OutOfMemory, Fails, vars
    <2> QED BY <1>1, <2>1, <2>2, <2>3, <2>4, <2>5
  <1>2. Inv /\ [Next]_vars => [\A s \in 0..(base - 1) : stack'[s] = stack[s]]_vars
    BY <1>1
  <1> QED BY <1>2, Invariance, PTL DEF Spec, CallerSlotsUntouched

(* A return gives the caller its base and pc back, and its top without the *)
(* function and the arguments.                                             *)
THEOREM ReturnsRestore == Spec => ReturnRestoresFrame
  <1>1. ASSUME Inv, [Next]_vars, Len(calls') < Depth
        PROVE  /\ base' = Current.base /\ pc' = Current.pc
               /\ top' = IF Current.slot >= 0 THEN Current.base + Current.slot
                                              ELSE Current.top + Current.slot
    <2>1. calls' # calls /\ ~\E c : calls' = Append(calls, c)
      <3>1. \A c : Len(Append(calls, c)) = Depth + 1
        BY Basics DEF Inv, Depth, TypeOK
      <3> QED BY <1>1, <3>1, Basics DEF Depth, Inv
    <2>2. Return
      BY <1>1, <2>1
      DEF Next, Interpreter, Host, Const, LoadNil, PushSlot, NewTable, Compute, SetSlot, TableSet,
          TableGet, Pop, Call, Ret0, CPrint, Enter, PushResult, Push, Run, RunChunk, RunRejected,
          HostPushStr, HostPushTable, HostPushFunc, HostSetTable, HostPop, HostSetTop,
          HostReturns, StackFails, OutOfMemory, Fails, vars
    <2>3. Depth > 0
      <3>1. calls \in Seq(CallsOf(Len(funcs))) /\ Depth \in Nat
        BY <1>1, Basics DEF Inv, TypeOK
      <3>2. PICK m \in Int : m = Depth - 1
        BY <3>1
      <3>3. calls' = SubSeq(calls, 1, m)
        BY <2>2, <3>2 DEF Return
      <3>4. Len(calls') \in Nat
        <4>1. m <= Len(calls)
          BY <3>1, <3>2 DEF Depth
        <4> QED BY <3>1, <3>3, <4>1
      <3>5. PICK n \in Nat : n = Len(calls')
        BY <3>4
      <3> QED BY <1>1, <3>1, <3>5
    <2> QED BY <1>1, <2>2, <2>3, ReturnRegisters
  <1>2. Inv /\ [Next]_vars =>
          [Len(calls') < Depth =>
             /\ base' = Current.base /\ pc' = Current.pc
             /\ top' = IF Current.slot >= 0 THEN Current.base + Current.slot
                                            ELSE Current.top + Current.slot]_vars
    BY <1>1
  <1> QED BY <1>2, Invariance, PTL DEF Spec, ReturnRestoresFrame

-----------------------------------------------------------------------------
(* func and pc.  Thread_call notes the caller's function in the callee,    *)
(* where a second activation of the callee overwrites it; as long as there *)
(* is none, the links prev are the activations.                            *)

NoneReentered == \A j, k \in 1..Depth : calls[j].fn = calls[k].fn => j = k

FnOf(k) == IF k = 0 THEN 0 ELSE calls[k].fn
ChainTrue ==
  /\ func = FnOf(Depth)
  /\ \A k \in 1..Depth : funcs[calls[k].fn].prev = FnOf(k - 1)

(* What a step does to the activations: nothing, with functions added at   *)
(* most; it enters a function; or it returns from the last.                *)
KeepsCalls ==
  /\ UNCHANGED <<calls, func>>
  /\ FuncsKept /\ \A g \in 1..Len(funcs) : funcs'[g].prev = funcs[g].prev

Enters(f, c) ==
  /\ calls' = Append(calls, c) /\ c.fn = f /\ func' = f
  /\ FuncsKept /\ funcs'[f].prev = func
  /\ \A g \in 1..Len(funcs) : g # f => funcs'[g].prev = funcs[g].prev
  /\ \/ /\ Running = "NF" /\ Instr.op = "CALL"
        /\ f \in 1..Len(funcs) /\ funcs'[f].kind # "NF"
     \/ /\ Running = "host" /\ f = Len(funcs) + 1 /\ funcs'[f].kind = "NF"
        /\ Depth > 0 => funcs'[f].proto \in HostChunks

(* Thread_call by an instruction enters a C function. *)
LEMMA CallEnters ==
  ASSUME Inv, Call
  PROVE  KeepsCalls \/ \E f, c : Enters(f, c)
  <1> DEFINE callee == ValueAt(Instr.ab)
  <1>1. Running = "NF" /\ Instr.op = "CALL"
    BY DEF Call, At
  <1>2. CASE callee.type # "Func"
    BY <1>2, Basics DEF Call, Fails, KeepsCalls, FuncsKept, Inv
  <1>3. CASE callee.type = "Func"
    <2>1. Enter(callee.v, Instr.ab, top, ArgsNr, NextPc, funcs)
      BY <1>3 DEF Call
    <2>2. /\ top - base = funcs[pc.f].proto.dep[pc.i]
          /\ OperandsLive(Instr, top - base)
      BY <1>1, Fetch
    <2>3. PICK ab \in Nat : ab = Instr.ab /\ ab \in 0..(top - base - 1)
      <3>1. Instr.ab \in SlotsOf(Instr)
        BY <1>1 DEF SlotsOf, BinaryOps
      <3>2. Instr.ab \in 0..(top - base - 1)
        BY <1>1, <2>2, <3>1 DEF OperandsLive
      <3> QED BY <3>2
    <2>4. callee \in SlotValues /\ ~IsChunk(callee)
      <3>1. Instr.ab # PSEUDO_INDEX_GLOBAL
        BY <2>3, NotGlobal
      <3>2. stack[base + ab] \in SlotValues /\ ~IsChunk(stack[base + ab]) /\ Slot(ab) = base + ab
        BY <2>3, FrameSlot
      <3> QED BY <2>3, <3>1, <3>2 DEF ValueAt
    <2> HIDE DEF callee
    <2>5. PICK f \in 1..Len(funcs) : f = callee.v /\ funcs[f].kind # "NF"
      <3>1. callee.v \in 1..Len(funcs)
        BY <1>3, <2>4, Basics, PayloadTypes DEF SlotValues, Inv
      <3> QED BY <1>3, <2>4, <3>1 DEF IsChunk
    <2>6. PICK c : /\ calls' = Append(calls, c)
                   /\ c = [slot |-> Instr.ab, fn |-> f, top |-> top, base |-> base,
                           pc |-> NextPc, func |-> func]
      BY <2>1, <2>5 DEF Enter
    <2>7. c.fn = f /\ func' = f /\ funcs' = NotedPrev(funcs, f)
      BY <2>1, <2>5, <2>6 DEF Enter
    <2>8. /\ Len(funcs') = Len(funcs) /\ funcs'[f].prev = func
          /\ \A g \in 1..Len(funcs) : /\ funcs'[g].kind = funcs[g].kind
                                      /\ funcs'[g].proto = funcs[g].proto
                                      /\ g # f => funcs'[g] = funcs[g]
      <3>1. funcs \in Seq(FuncsOf(Len(funcs))) /\ Len(funcs) \in Nat /\ func \in 0..Len(funcs)
        BY Basics DEF Inv, TypeOK
      <3>2. funcs' = NotedPrev(funcs, f)
        BY <2>7
      <3> QED BY <2>5, <3>1, <3>2, NotedFacts
    <2>9. FuncsKept
      BY <2>8, Basics DEF Inv, FuncsKept
    <2>10. Enters(f, c)
      BY <1>1, <2>5, <2>6, <2>7, <2>8, <2>9 DEF Enters
    <2> QED BY <2>10
  <1> QED BY <1>2, <1>3

(* nf::run enters the function it has just made. *)
LEMMA RunEnters ==
  ASSUME Inv, NEW p \in Chunks, Run(p)
  PROVE  \E f, c : Enters(f, c)
  <1>1. PICK f \in Nat : f = Len(funcs) + 1 /\ f > 0
    BY Basics DEF Inv
  <1>2. PICK fs : fs = Append(funcs, NfFunc(p))
    OBVIOUS
  <1>3. /\ Running = "host"
        /\ Depth > 0 => p \in HostChunks
        /\ Enter(f, -1, top + 1, 0, pc, fs)
    BY <1>1, <1>2, Basics DEF Run, RunChunk, HostTurn, Inv
  <1>4. NfFunc(p) \in FuncsOf(f) /\ NfFunc(p).kind = "NF" /\ NfFunc(p).proto = p
    BY <1>1 DEF NfFunc, FuncsOf
  <1>5. /\ fs \in Seq(FuncsOf(f)) /\ Len(fs) = f /\ fs[f].kind = "NF" /\ fs[f].proto = p
        /\ \A g \in 1..Len(funcs) : fs[g] = funcs[g]
    <2>1. funcs \in Seq(FuncsOf(f))
      <3>1. funcs \in Seq(FuncsOf(Len(funcs))) /\ Len(funcs) \in Nat /\ Len(funcs) <= f
        BY <1>1, Basics DEF Inv, TypeOK
      <3>2. FuncsOf(Len(funcs)) \subseteq FuncsOf(f)
        BY <1>1, <3>1, Monotone
      <3> QED BY <3>1, <3>2
    <2>2. PICK h \in FuncsOf(f) : h = NfFunc(p)
      BY <1>4
    <2>3. fs = Append(funcs, h)
      BY <1>2, <2>2
    <2> QED BY <1>1, <1>4, <2>1, <2>2, <2>3, AppendFacts
  <1>6. PICK c : /\ calls' = Append(calls, c)
                 /\ c = [slot |-> -1, fn |-> f, top |-> top + 1, base |-> base,
                         pc |-> pc, func |-> func]
    BY <1>3 DEF Enter
  <1>7. c.fn = f /\ func' = f /\ funcs' = NotedPrev(fs, f)
    BY <1>3, <1>6 DEF Enter
  <1>8. /\ Len(funcs') = f /\ funcs'[f].prev = func
        /\ \A g \in 1..f : /\ funcs'[g].kind = fs[g].kind /\ funcs'[g].proto = fs[g].proto
                           /\ g # f => funcs'[g] = fs[g]
    <2>1. func \in 0..f /\ f \in 1..f
      BY <1>1, Basics DEF Inv, TypeOK
    <2> QED BY <1>1, <1>5, <1>7, <2>1, NotedFacts
  <1>9. /\ Len(funcs) \in Nat /\ f \in 1..f /\ \A g \in 1..Len(funcs) : g \in 1..f /\ g # f
    BY <1>1, Basics DEF Inv
  <1>10. FuncsKept
    BY <1>1, <1>5, <1>8, <1>9 DEF FuncsKept
  <1>11. funcs'[f].kind = "NF" /\ funcs'[f].proto = p
    BY <1>5, <1>8, <1>9
  <1>12. \A g \in 1..Len(funcs) : g # f => funcs'[g].prev = funcs[g].prev
    BY <1>5, <1>8, <1>9
  <1>13. Enters(f, c)
    BY <1>1, <1>3, <1>6, <1>7, <1>8, <1>10, <1>11, <1>12 DEF Enters
  <1> QED BY <1>13

(* All other steps. *)
LEMMA StepCalls ==
  ASSUME Inv, [Next]_vars
  PROVE  KeepsCalls \/ (\E f, c : Enters(f, c)) \/ (Depth > 0 /\ Return)
  <1>1. CASE Call
    BY <1>1, CallEnters
  <1>2. CASE \E p \in Chunks : Run(p)
    BY <1>2, RunEnters
  <1>3. CASE Ret0 \/ CPrint \/ HostReturns
    BY <1>3, DepthPositive DEF Ret0, CPrint, HostReturns, At
  <1>4. CASE HostPushFunc
    <2>1. CFunc("host") \in FuncsOf(Len(funcs)) /\ ~(CFunc("host").kind = "NF")
          /\ CFunc("host").proto = NoProto
      BY Basics DEF CFunc, FuncsOf, Inv
    <2>2. PICK g \in FuncsOf(Len(funcs)) : g = CFunc("host")
      BY <2>1
    <2>3. funcs' = Append(funcs, g) /\ UNCHANGED <<calls, func>>
      BY <1>4, <2>2 DEF HostPushFunc
    <2>4. FuncsKept /\ \A h \in 1..Len(funcs) : funcs'[h] = funcs[h]
      BY <2>1, <2>2, <2>3, AppendKeepsFuncs DEF Inv
    <2> QED BY <2>3, <2>4 DEF KeepsCalls
  <1>5. CASE UNCHANGED <<funcs, calls, func>>
    BY <1>5, Basics DEF KeepsCalls, FuncsKept, Inv
  <1> QED BY <1>1, <1>2, <1>3, <1>4, <1>5
        DEF Next, Interpreter, Host, Const, LoadNil, PushSlot, NewTable, Compute, SetSlot, TableSet,
            TableGet, Pop, PushResult, Push, RunRejected, HostPushStr, HostPushTable, HostSetTable,
            HostPop, HostSetTop, StackFails, OutOfMemory, Fails, vars

(* The activations after a step that enters a function. *)
LEMMA EnteredCalls ==
  ASSUME Inv, NEW f, NEW c, Enters(f, c)
  PROVE  /\ Depth \in Nat /\ Depth' = Depth + 1 /\ calls'[Depth + 1] = c
         /\ \A k \in 1..Depth : calls'[k] = calls[k] /\ calls[k].fn \in 1..Len(funcs)
  <1> DEFINE S == CallsOf(Len(funcs)) \cup {c}
  <1>1. Depth \in Nat /\ calls \in Seq(CallsOf(Len(funcs)))
    BY Basics DEF Inv, TypeOK
  <1>2. calls \in Seq(S) /\ c \in S
    BY <1>1
  <1> HIDE DEF S
  <1>3. /\ Len(calls') = Len(calls) + 1 /\ calls'[Len(calls) + 1] = c
        /\ \A k \in 1..Len(calls) : calls'[k] = calls[k]
    BY <1>2, AppendFacts DEF Enters
  <1>4. \A k \in 1..Depth : calls[k].fn \in 1..Len(funcs)
    BY CallFacts DEF Inv
  <1> QED BY <1>1, <1>3, <1>4 DEF Depth

(* The activations after a return. *)
LEMMA ReturnedCalls ==
  ASSUME Inv, Depth > 0, Return
  PROVE  /\ Depth \in Nat /\ Depth' = Depth - 1 /\ Depth' \in Nat /\ funcs' = funcs
         /\ \A k \in 1..Depth' : k \in 1..Depth /\ calls'[k] = calls[k]
  <1>1. Depth \in Nat /\ calls \in Seq(CallsOf(Len(funcs))) /\ Len(calls) = Depth
    BY Basics DEF Inv, TypeOK, Depth
  <1>2. PICK m \in Nat : m = Depth - 1 /\ m <= Depth
    BY <1>1
  <1>3. calls' = SubSeq(calls, 1, m) /\ funcs' = funcs
    BY <1>2 DEF Return
  <1>4. Len(calls') = m /\ \A k \in 1..m : k \in 1..Depth /\ calls'[k] = calls[k]
    BY <1>1, <1>2, <1>3
  <1> QED BY <1>1, <1>2, <1>3, <1>4 DEF Depth

(* While no function is entered again its link stays what it was set to.   *)
LEMMA ChainStep ==
  ASSUME Inv, [Next]_vars, NoneReentered, NoneReentered', ChainTrue
  PROVE  ChainTrue'
  <1>0. Depth \in Nat /\ Len(funcs) \in Nat /\ \A k \in 1..Depth : calls[k].fn \in 1..Len(funcs)
    BY Basics, CallFacts DEF Inv
  <1>1. CASE KeepsCalls
    <2>1. calls' = calls /\ func' = func /\ Depth' = Depth
      BY <1>1 DEF KeepsCalls, Depth
    <2>2. \A k \in 1..Depth : funcs'[calls[k].fn].prev = funcs[calls[k].fn].prev
      BY <1>0, <1>1 DEF KeepsCalls
    <2> QED BY <2>1, <2>2 DEF ChainTrue, FnOf
  <1>2. CASE \E f, c : Enters(f, c)
    <2>1. PICK f, c : Enters(f, c)
      BY <1>2
    <2>2. /\ Depth' = Depth + 1 /\ calls'[Depth + 1] = c /\ c.fn = f
          /\ \A k \in 1..Depth : calls'[k] = calls[k]
      BY <2>1, EnteredCalls DEF Enters
    <2>3. PICK n \in Nat : n = Depth + 1 /\ n # 0 /\ n - 1 = Depth /\ n \in 1..n
                         /\ \A k \in 1..n : k = n \/ k \in 1..Depth
      BY <1>0
    <2>4. func' = FnOf(n)'
      BY <2>1, <2>2, <2>3 DEF Enters, FnOf
    <2>5. \A k \in 0..Depth : FnOf(k)' = FnOf(k)
      <3>1. \A k \in 0..Depth : k # 0 => k \in 1..Depth
        BY <1>0
      <3> QED BY <2>2, <3>1 DEF FnOf
    <2>6. ASSUME NEW k \in 1..Depth
          PROVE  funcs'[calls'[k].fn].prev = FnOf(k - 1)'
      <3>1. k - 1 \in 0..Depth /\ k \in 1..n /\ k # n
        BY <1>0, <2>3
      <3>2. calls'[k].fn # f
        BY <2>2, <2>3, <3>1 DEF NoneReentered
      <3>3. funcs'[calls[k].fn].prev = funcs[calls[k].fn].prev
        BY <1>0, <2>1, <2>2, <3>2 DEF Enters
      <3> QED BY <2>2, <2>5, <3>1, <3>3 DEF ChainTrue
    <2>7. funcs'[calls'[n].fn].prev = FnOf(n - 1)'
      <3>1. Depth \in 0..Depth
        BY <1>0
      <3>2. funcs'[f].prev = func
        BY <2>1 DEF Enters
      <3> QED BY <2>2, <2>3, <2>5, <3>1, <3>2 DEF ChainTrue
    <2> QED BY <2>2, <2>3, <2>4, <2>6, <2>7 DEF ChainTrue
  <1>3. CASE Depth > 0 /\ Return
    <2>1. /\ Depth' = Depth - 1 /\ Depth' \in Nat /\ funcs' = funcs
          /\ \A k \in 1..Depth' : k \in 1..Depth /\ calls'[k] = calls[k]
      BY <1>3, ReturnedCalls
    <2>2. PICK m \in Nat : m = Depth - 1 /\ m + 1 = Depth /\ Depth \in 1..Depth /\ Depth' = m
      BY <1>0, <1>3, <2>1
    <2>3. \A k \in 0..m : FnOf(k)' = FnOf(k)
      <3>1. \A k \in 0..m : k # 0 => k \in 1..m
        BY <2>2
      <3> QED BY <2>1, <2>2, <3>1 DEF FnOf
    <2>4. func' = FnOf(m)
      <3>1. func = calls[Depth].fn
        BY <1>3 DEF ChainTrue, FnOf
      <3>2. funcs[calls[Depth].fn].prev = FnOf(Depth - 1)
        BY <2>2 DEF ChainTrue
      <3> QED BY <1>3, <2>2, <3>1, <3>2 DEF Return, CallerFunc
    <2>5. m \in 0..m /\ \A k \in 1..m : k - 1 \in 0..m
      BY <2>2
    <2>6. \A k \in 1..m : funcs'[calls'[k].fn].prev = FnOf(k - 1)'
      BY <2>1, <2>2, <2>3, <2>5 DEF ChainTrue
    <2> QED BY <2>2, <2>3, <2>4, <2>5, <2>6 DEF ChainTrue
  <1> QED BY <1>1, <1>2, <1>3, StepCalls

(* As long as no function is entered again before it has returned, the     *)
(* code that runs is that of the current function, so that CONST reads the *)
(* constants it was compiled with (thread.cpp 289, 443-444, 486).          *)
THEOREM PcOfCurrent == Spec /\ []NoneReentered => []PcOfCurrentFunction
  <1>1. Init => ChainTrue
    <2>1. ASSUME Init PROVE Depth = 0
      BY <2>1 DEF Init, Depth
    <2> QED BY <2>1 DEF Init, ChainTrue, FnOf
  <1>2. Inv /\ NoneReentered /\ NoneReentered' /\ ChainTrue /\ [Next]_vars => ChainTrue'
    BY ChainStep
  <1>3. Inv /\ ChainTrue => PcOfCurrentFunction
    <2> SUFFICES ASSUME Inv, ChainTrue, Running = "NF" PROVE func = pc.f
      BY DEF PcOfCurrentFunction
    <2>1. Depth > 0 /\ pc.f = Current.fn
      BY Fetch
    <2> QED BY <2>1 DEF ChainTrue, FnOf, Current
  <1> QED BY <1>1, <1>2, <1>3, Invariance, PTL DEF Spec

(* Where the chunks that C functions run call nothing, there are at most   *)
(* three activations: of a chunk, of the C function it calls, and of the   *)
(* chunk that this one runs.                                               *)
LeafChunks == \A p \in HostChunks : \A i \in 1..Len(p.ins) : p.ins[i].op # "CALL"

IsNf(k) == funcs[calls[k].fn].kind = "NF"

Levels ==
  /\ Depth <= 3
  /\ \A k \in 1..Depth : IsNf(k) <=> k # 2
  /\ Depth = 3 => /\ funcs[calls[3].fn].proto \in HostChunks
                  /\ calls[3].fn # calls[1].fn

(* A step keeps the activations within these levels.                       *)
LEMMA LevelsStep ==
  ASSUME LeafChunks, Inv, [Next]_vars, Levels
  PROVE  Levels'
  <1>0. Depth \in Nat /\ Len(funcs) \in Nat /\ \A k \in 1..Depth : calls[k].fn \in 1..Len(funcs)
    BY Basics, CallFacts DEF Inv
  <1>1. CASE KeepsCalls
    <2>1. calls' = calls /\ Depth' = Depth
      BY <1>1 DEF KeepsCalls, Depth
    <2>2. \A k \in 1..Depth : /\ funcs'[calls[k].fn].kind = funcs[calls[k].fn].kind
                              /\ funcs'[calls[k].fn].proto = funcs[calls[k].fn].proto
      BY <1>0, <1>1 DEF KeepsCalls, FuncsKept
    <2>3. Depth = 3 => 3 \in 1..Depth
      OBVIOUS
    <2> QED BY <2>1, <2>2, <2>3 DEF Levels, IsNf
  <1>2. CASE \E f, c : Enters(f, c)
    <2>1. PICK f, c : Enters(f, c)
      BY <1>2
    <2>2. /\ Depth' = Depth + 1 /\ calls'[Depth + 1] = c /\ c.fn = f
          /\ \A k \in 1..Depth : calls'[k] = calls[k]
      BY <2>1, EnteredCalls DEF Enters
    <2>3. PICK n \in Nat : n = Depth + 1 /\ \A k \in 1..n : k = n \/ k \in 1..Depth
      BY <1>0
    <2>4. \A k \in 1..Depth : IsNf(k)' <=> IsNf(k)
      BY <1>0, <2>1, <2>2 DEF Enters, FuncsKept, IsNf
    <2>5. IsNf(n)' <=> funcs'[f].kind = "NF"
      BY <2>2, <2>3 DEF IsNf
    <2>6. CASE Running = "NF" /\ Instr.op = "CALL" /\ funcs'[f].kind # "NF"
      <3>1. Depth \in 1..3 /\ IsNf(Depth)
        BY <1>0, <2>6 DEF Levels, Running, Current, IsNf
      <3>2. Depth # 3
        <4>1. SUFFICES ASSUME Depth = 3 PROVE FALSE
          OBVIOUS
        <4>2. PICK p : p = funcs[pc.f].proto /\ p \in HostChunks
          BY <2>6, <4>1, Fetch DEF Levels, Current
        <4>3. pc.i \in 1..Len(p.ins) /\ Instr = p.ins[pc.i]
          BY <2>6, <4>2, Fetch
        <4> QED BY <2>6, <4>2, <4>3 DEF LeafChunks
      <3>3. Depth # 2
        BY <1>0, <3>1 DEF Levels
      <3>4. Depth = 1 /\ n = 2
        BY <2>3, <3>1, <3>2, <3>3
      <3>5. Depth' = 2 /\ 1 \in 1..Depth
        BY <2>2, <3>4
      <3>6. IsNf(1)' /\ ~IsNf(2)'
        BY <2>4, <2>5, <2>6, <3>1, <3>4, <3>5
      <3> QED BY <3>5, <3>6 DEF Levels
    <2>7. CASE /\ Running = "host" /\ f = Len(funcs) + 1 /\ funcs'[f].kind = "NF"
               /\ (Depth > 0 => funcs'[f].proto \in HostChunks)
      <3>1. Depth = 0 \/ (Depth \in 1..3 /\ ~IsNf(Depth))
        BY <1>0, <2>7 DEF Levels, Running, Current, IsNf
      <3>2. Depth = 0 \/ Depth = 2
        BY <1>0, <3>1 DEF Levels
      <3>3. CASE Depth = 0
        <4>1. Depth' = 1 /\ IsNf(1)'
          BY <2>2, <2>3, <2>5, <2>7, <3>3
        <4> QED BY <4>1 DEF Levels
      <3>4. CASE Depth = 2
        <4>1. n = 3 /\ Depth' = 3 /\ 1 \in 1..Depth /\ 2 \in 1..Depth
          BY <2>2, <2>3, <3>4
        <4>2. IsNf(1)' /\ ~IsNf(2)' /\ IsNf(3)'
          BY <2>4, <2>5, <2>7, <4>1 DEF Levels
        <4>3. calls'[3].fn = f /\ calls'[1].fn = calls[1].fn
          BY <2>2, <3>4, <4>1
        <4>4. calls[1].fn # f
          BY <1>0, <2>7, <4>1
        <4> QED BY <2>7, <3>4, <4>1, <4>2, <4>3, <4>4 DEF Levels
      <3> QED BY <3>2, <3>3, <3>4
    <2> QED BY <2>1, <2>6, <2>7 DEF Enters
  <1>3. CASE Depth > 0 /\ Return
    <2>1. /\ Depth' = Depth - 1 /\ Depth' \in Nat /\ funcs' = funcs
          /\ \A k \in 1..Depth' : k \in 1..Depth /\ calls'[k] = calls[k]
      BY <1>3, ReturnedCalls
    <2>2. \A k \in 1..Depth' : IsNf(k)' <=> IsNf(k)
      BY <2>1 DEF IsNf
    <2>3. Depth' <= 2
      BY <1>0, <2>1 DEF Levels
    <2> QED BY <2>1, <2>2, <2>3 DEF Levels
  <1> QED BY <1>1, <1>2, <1>3, StepCalls

(* So the host meets the condition of PcOfCurrent when the chunks its C    *)
(* functions run call nothing.                                             *)
THEOREM PcOfCurrentLeaf ==
  ASSUME LeafChunks
  PROVE  Spec => []PcOfCurrentFunction
  <1>1. Init => Levels
    <2>1. ASSUME Init PROVE Depth = 0
      BY <2>1 DEF Init, Depth
    <2> QED BY <2>1 DEF Levels
  <1>2. Inv /\ Levels /\ [Next]_vars => Levels'
    BY LevelsStep
  <1>3. ASSUME Inv, Levels PROVE NoneReentered
    <2>1. SUFFICES ASSUME NEW j \in 1..Depth, NEW k \in 1..Depth, calls[j].fn = calls[k].fn
                   PROVE  j = k
      BY DEF NoneReentered
    <2>2. IsNf(j) <=> IsNf(k)
      BY <2>1 DEF IsNf
    <2>3. j \in 1..3 /\ k \in 1..3 /\ (j = 2 <=> k = 2) /\ (Depth = 3 \/ (j # 3 /\ k # 3))
      BY <1>3, <2>2, Basics DEF Levels, Inv
    <2> QED BY <1>3, <2>1, <2>3 DEF Levels
  <1>4. Spec => []NoneReentered
    BY <1>1, <1>2, <1>3, Invariance, PTL DEF Spec
  <1> QED BY <1>4, PcOfCurrent, PTL
=============================================================================

------------------------------ MODULE NfBytecode ------------------------------
(***************************************************************************)
(* Instructions as the parser packs them and the interpreter unpacks them  *)
(* (nf/src/bytecode.h).  An instruction is a 64 bit word: the opcode in    *)
(* the low 16 bits, operand AB in the top 16 and CD in the 16 below.  A    *)
(* record [op, ab, cd] stands for a word; ab and cd are what the           *)
(* interpreter reads back through (StackIndex)INS_AB and INS_CD, so the    *)
(* operators below are the round trip: packing, then unpacking.            *)
(***************************************************************************)
EXTENDS Integers, Sequences

Opcodes == {"RET_0", "ADD", "SUB", "MUL", "DIV", "CONST", "LOAD_NIL", "PUSH",
            "SET", "NEW_TABLE", "TABLE_SET", "TABLE_GET", "POP", "LEN", "NEG",
            "CALL"}

BinaryOps == {"ADD", "SUB", "MUL", "DIV"}

(* The pseudo index of the registry (nf/include/nf/api.h). *)
PSEUDO_INDEX_GLOBAL == -30005

(* The largest int16_t, the StackIndex of the code; all of them; and the   *)
(* conversion of any integer to one.                                       *)
Int16Max == 32767
Int16 == -(Int16Max + 1)..Int16Max
I16(x) == ((x + Int16Max + 1) % (2 * (Int16Max + 1))) - (Int16Max + 1)

Instruction == [op : Opcodes, ab : Int16, cd : Int16]

(* INS_FROM_OP_NO_ARGS and INS_FROM_OP_AB. *)
Ins(op) == [op |-> op, ab |-> 0, cd |-> 0]
InsAB(op, ab) == [op |-> op, ab |-> I16(ab), cd |-> 0]

(* INS_FROM_OP_AB_CD widens CD to 64 bits before it shifts it by 32: the   *)
(* sign of a negative CD fills the AB field with ones.                     *)
InsABCD(op, ab, cd) ==
  [op |-> op, ab |-> IF cd < 0 THEN -1 ELSE I16(ab), cd |-> I16(cd)]

-----------------------------------------------------------------------------
(* What the interpreter does to the number of live slots of a frame when   *)
(* it executes i with d live slots, and the slots of the frame it reads    *)
(* (thread.cpp, __Thread_run).  CALL removes the callee at slot ab and all *)
(* above it (__Thread_return); POP may be given a negative count.          *)
DepthAfter(i, d) ==
  CASE i.op \in BinaryOps \cup {"CONST", "LOAD_NIL", "PUSH", "NEW_TABLE", "NEG", "LEN"} -> d + 1
    [] i.op \in {"SET", "TABLE_SET"} -> d - 1
    [] i.op = "POP" -> d - i.ab
    [] i.op = "CALL" -> i.ab
    [] i.op \in {"TABLE_GET", "RET_0"} -> d

(* The slots of the frame an instruction reads or writes by index. *)
SlotsOf(i) ==
  CASE i.op \in {"PUSH", "SET", "TABLE_GET", "NEG", "LEN", "CALL"} -> {i.ab}
    [] i.op \in BinaryOps \cup {"TABLE_SET"} -> {i.ab, i.cd}
    [] OTHER -> {}

(* Every slot an instruction names is live when it runs, and so is the top *)
(* slot for the instructions that work on it.                              *)
OperandsLive(i, d) ==
  /\ \A s \in SlotsOf(i) :
       \/ s \in 0..(d - 1)
       \/ s = PSEUDO_INDEX_GLOBAL /\ i.op \in {"TABLE_GET", "TABLE_SET"} /\ s = i.ab
  /\ i.op \in {"SET", "TABLE_SET", "TABLE_GET"} => d >= 1

(* Code the interpreter can run, in a proto p whose dep gives the number   *)
(* of live slots before each instruction: operands are live and constants  *)
(* exist, the counts follow from the instructions, and RET_0 ends it all.  *)
(* A negative POP comes right after the CALL that took one slot more than  *)
(* its own, and brings back no more than there was before the CALL.        *)
WellFormed(p) ==
  LET n == Len(p.ins) IN
  /\ n > 0 /\ Len(p.dep) = n /\ p.dep[1] = 0
  /\ \A i \in 1..n :
       /\ p.dep[i] \in Nat
       /\ OperandsLive(p.ins[i], p.dep[i])
       /\ p.ins[i].op = "RET_0" <=> i = n
       /\ i < n => p.dep[i + 1] = DepthAfter(p.ins[i], p.dep[i])
       /\ p.ins[i].op = "CONST" => p.ins[i].ab \in 0..(Len(p.consts) - 1)
       /\ p.ins[i].op = "POP" /\ p.ins[i].ab < 0 =>
            i > 1 /\ p.ins[i - 1].op = "CALL" /\ p.dep[i + 1] <= p.dep[i - 1]
=============================================================================

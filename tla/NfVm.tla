--------------------------------- MODULE NfVm ---------------------------------
(***************************************************************************)
(* The interpreter of nf (nf/src/thread.cpp) and the part of its public    *)
(* API that a host program drives it with (nf/src/public_api.cpp).         *)
(*                                                                         *)
(* One action is one bytecode instruction, one call or return of a         *)
(* function, or one call of the API by the host.  The host is the program  *)
(* that called nf::open, and every C function it registered: while such a  *)
(* function runs it may use the API, nf::run included, so that chunks run  *)
(* inside chunks.  nf::run is the load of a chunk the parser accepted (see *)
(* NfParser), and the call of its function.                                *)
(*                                                                         *)
(* Runtime errors find no error_jmp: they end the program, with status     *)
(* naming the error.  "undefined" stands for everything that may follow a  *)
(* write or read through a pointer that is not valid.                      *)
(***************************************************************************)
EXTENDS NfBytecode, NfValue

CONSTANTS
  StackNr,     \* basic_stack_nr, the slots of a fresh stack
  MainChunks,  \* protos the main program runs
  HostChunks,  \* protos a C function of the host runs
  HostNames,   \* strings the host pushes, and the globals it sets
  HostSlots,   \* bound: slots the host uses in a frame of its own
  MaxFuncs,    \* bound: Func objects created
  MaxTables    \* bound: Table objects created by the host

Chunks == MainChunks \cup HostChunks

(* What the parser makes of a chunk; NfParser checks that it is WellFormed. *)
Protos == [ins : Seq(Instruction), dep : Seq(Int16), consts : Seq(Plain), used : Int16]

(* The stack never leaves int16_t: it holds Capacity slots at most. *)
Capacity == (StackNr * 3) \div 2 + 16

ASSUME VmAssumption ==
  /\ StackNr \in Nat /\ StackNr >= 4 /\ Capacity <= 30000
  /\ \A p \in Chunks : p \in Protos /\ WellFormed(p)
  /\ HostNames \subseteq Seq(Chars)
  /\ HostSlots \in Nat /\ MaxFuncs \in Nat /\ MaxTables \in Nat

VARIABLES
  stack,  \* Thread::stack: every slot it may come to have, and one more
  top,    \* Thread::top, as an index
  base,   \* Thread::base, as an index
  pc,     \* Thread::pc: instruction i of the proto of function f
  func,   \* Thread::func: 0 when null
  funcs,  \* the Func objects: kind, proto and prev
  tables, \* the Table objects; the first is the registry
  calls,  \* the running activations of Thread_call, oldest first: func_i,
          \* and as a history fn, the function called, and the registers
  out,    \* what print was given
  status  \* "running", or how the program ended

registers == <<top, base, pc, func>>
vars == <<stack, top, base, pc, func, funcs, tables, calls, out, status>>

-----------------------------------------------------------------------------
NoPc == [f |-> 0, i |-> 0]
NoProto == [ins |-> <<>>, dep |-> <<>>, consts |-> <<>>, used |-> 0]

CFunc(kind) == [kind |-> kind, proto |-> NoProto, prev |-> 0]
NfFunc(proto) == [kind |-> "NF", proto |-> proto, prev |-> 0]

Depth == Len(calls)
Current == calls[Depth]

(* The code that is running: the host's main program, one of its C         *)
(* functions, print, or the interpreter's loop.                            *)
Running == IF Depth = 0 THEN "host" ELSE funcs[Current.fn].kind

(* stack_slot, the index of a slot: below top when index is negative. *)
Slot(index) == IF index >= 0 THEN base + index ELSE top + index

ValueAt(index) == IF index = PSEUDO_INDEX_GLOBAL THEN TableV(1) ELSE stack[Slot(index)]

(* The stack after vals were pushed. *)
Pushed(vals) ==
  [s \in DOMAIN stack |-> IF s - top + 1 \in 1..Len(vals) THEN vals[s - top + 1] ELSE stack[s]]

(* Thread_push: past StackNr slots every push reallocates, to Capacity     *)
(* slots, for stack_nr keeps its first value.  If the block stays where it *)
(* is the push is what it should be, as long as it is inside the block.    *)
HasRoom(n) == top + n <= Capacity

Push(value) ==
  /\ HasRoom(1)
  /\ stack' = Pushed(<<value>>)
  /\ top' = top + 1

Fails(why) ==
  /\ status' = why
  /\ UNCHANGED <<stack, top, base, pc, func, funcs, tables, calls, out>>

-----------------------------------------------------------------------------
(* Tables, as maps from keys to values.  A negative Integer is taken for   *)
(* an index of the array part, which is always empty.                      *)

KeyIsArrayIndex(key) == key.type = "Integer" /\ key.v < 0

Stored(t, key, value) ==
  [k \in DOMAIN t \cup {key} |-> IF k = key THEN value ELSE t[k]]
Lookup(t, key) == IF key \in DOMAIN t THEN t[key] ELSE Nil

Usable(table, key) == table.type = "Table" /\ ~KeyIsArrayIndex(key)

-----------------------------------------------------------------------------
(* Instructions (__Thread_run).  An Opcode the interpreter lacks does not  *)
(* occur: TEST is never emitted.                                           *)

Instr == funcs[pc.f].proto.ins[pc.i]
NextPc == [pc EXCEPT !.i = @ + 1]

At(op) == status = "running" /\ Running = "NF" /\ Instr.op = op

(* The end of an instruction that only pushes its result. *)
PushResult(value) ==
  /\ Push(value)
  /\ pc' = NextPc
  /\ UNCHANGED <<base, func, funcs, calls, out, status>>

(* CONST reads the constants of the current function. *)
ConstOk == func # 0 /\ funcs[func].kind = "NF" /\ Instr.ab \in 0..(Len(funcs[func].proto.consts) - 1)

Const ==
  /\ At("CONST")
  /\ \/ ConstOk /\ PushResult(funcs[func].proto.consts[Instr.ab + 1]) /\ UNCHANGED tables
     \/ ~ConstOk /\ Fails("undefined")

LoadNil == At("LOAD_NIL") /\ PushResult(Nil) /\ UNCHANGED tables

PushSlot == At("PUSH") /\ PushResult(ValueAt(Instr.ab)) /\ UNCHANGED tables

NewTable ==
  /\ At("NEW_TABLE")
  /\ PushResult(TableV(Len(tables) + 1))
  /\ tables' = Append(tables, <<>>)

(* The arithmetic instructions: what they compute, or how they fail. *)
Computed ==
  CASE Instr.op \in BinaryOps -> BinOp(Instr.op, ValueAt(Instr.ab), ValueAt(Instr.cd))
    [] Instr.op = "NEG" -> NegOf(stack[base + Instr.ab])
    [] Instr.op = "LEN" -> LenOf(stack[base + Instr.ab])

Compute ==
  /\ \E op \in BinaryOps \cup {"NEG", "LEN"} : At(op)
  /\ \/ Computed.type # "Fault" /\ PushResult(Computed) /\ UNCHANGED tables
     \/ Computed.type = "Fault" /\ Fails(Computed.v)

(* Where SET writes; or, without base, in the frame of whoever is first. *)
SetTargetFromStack == Instr.ab
SetTarget == Slot(Instr.ab)

SetSlot ==
  /\ At("SET")
  /\ stack' = [stack EXCEPT ![SetTarget] = stack[top - 1]]
  /\ top' = top - 1
  /\ pc' = NextPc
  /\ UNCHANGED <<base, func, funcs, tables, calls, out, status>>

TableSet ==
  LET table == ValueAt(Instr.ab)
      key == ValueAt(Instr.cd)
  IN
  /\ At("TABLE_SET")
  /\ \/ /\ Usable(table, key)
        /\ tables' = [tables EXCEPT ![table.v] = Stored(@, key, stack[top - 1])]
        /\ top' = top - 1
        /\ pc' = NextPc
        /\ UNCHANGED <<stack, base, func, funcs, calls, out, status>>
     \/ ~Usable(table, key) /\ Fails("undefined")

TableGet ==
  LET table == ValueAt(Instr.ab)
      key == stack[top - 1]
  IN
  /\ At("TABLE_GET")
  /\ \/ /\ Usable(table, key)
        /\ stack' = [stack EXCEPT ![top - 1] = Lookup(tables[table.v], key)]
        /\ pc' = NextPc
        /\ UNCHANGED <<top, base, func, funcs, tables, calls, out, status>>
     \/ ~Usable(table, key) /\ Fails("undefined")

(* POP with its operand taken for a count, so that -1 brings no slot back. *)
PopForward ==
  /\ At("POP")
  /\ top' = IF Instr.ab < 0 THEN top ELSE top - Instr.ab
  /\ pc' = NextPc
  /\ UNCHANGED <<stack, base, func, funcs, tables, calls, out, status>>
Pop ==
  /\ At("POP")
  /\ top' = top - Instr.ab
  /\ pc' = NextPc
  /\ UNCHANGED <<stack, base, func, funcs, tables, calls, out, status>>

-----------------------------------------------------------------------------
(* Thread_call of function f at func_i, with args_nr arguments from first  *)
(* on, when t slots are in use and pc_now is the pc: pc, base and top are  *)
(* pushed, then the arguments again, into the new frame.                   *)
(* SavedBelow has base and top the other way round.                        *)
SavedBelow(pc_now, t) == <<PcV(pc_now), IndexV(t + 1), IndexV(base)>>
Saved(pc_now, t) == <<PcV(pc_now), IndexV(base), IndexV(t + 2)>>
Arguments(first, args_nr) == [i \in 1..args_nr |-> stack[first + i - 1]]

(* f with the caller's function noted in it, or not.                       *)
KeptPrev(fs, f) == fs
NotedPrev(fs, f) == [fs EXCEPT ![f].prev = func]

Enter(f, func_i, t, args_nr, pc_now, funcs_now) ==
  /\ base' = t + 3
  /\ top' = t + 3 + args_nr
  /\ funcs' = NotedPrev(funcs_now, f)
  /\ func' = f
  /\ pc' = IF funcs_now[f].kind = "NF" THEN [f |-> f, i |-> 1] ELSE pc_now
  /\ calls' = Append(calls, [slot |-> func_i, fn |-> f,
                             top |-> t, base |-> base, pc |-> pc_now, func |-> func])
  /\ UNCHANGED <<tables, out, status>>

ArgsNr == top - Slot(Instr.ab) - 1

Call ==
  LET callee == ValueAt(Instr.ab) IN
  /\ At("CALL")
  /\ \/ /\ callee.type = "Func" /\ HasRoom(3 + ArgsNr)
        /\ stack' = Pushed(Saved(NextPc, top) \o Arguments(Slot(Instr.ab) + 1, ArgsNr))
        /\ Enter(callee.v, Instr.ab, top, ArgsNr, NextPc, funcs)
     \/ callee.type # "Func" /\ HasRoom(3) /\ Fails("OVER_LIMIT")

(* __Thread_return.  The frame of the callee stands on the saved top, base *)
(* and pc, popped in this order, the saved top being an index of itself.   *)
SavedTopSlot == stack[base - 1].v
PoppedBase == stack[SavedTopSlot - 1].v
PoppedPc == stack[SavedTopSlot - 2].v

(* The caller is left with what it had below the function it called; or,   *)
(* one off, with that function still on the stack, or with a slot less.    *)
LeftTopBelow(func_i) ==
  IF func_i >= 0 THEN PoppedBase + func_i - 1 ELSE SavedTopSlot - 3 + func_i
LeftTopAbove(func_i) ==
  IF func_i >= 0 THEN PoppedBase + func_i + 1 ELSE SavedTopSlot - 1 + func_i
LeftTop(func_i) ==
  IF func_i >= 0 THEN PoppedBase + func_i ELSE SavedTopSlot - 2 + func_i

(* The caller's function; or the callee, when it is not restored. *)
StaleFunc == func
CallerFunc == funcs[func].prev

Return ==
  /\ base' = PoppedBase
  /\ pc' = PoppedPc
  /\ func' = CallerFunc
  /\ top' = LeftTop(Current.slot)
  /\ calls' = SubSeq(calls, 1, Depth - 1)
  /\ UNCHANGED <<stack, funcs, tables, status>>

(* The loop does not leave on RET_0. *)
Ret0Ignored == FALSE
Ret0 == At("RET_0") /\ Return /\ UNCHANGED out

(* lib_core's print: the slot at base, even when there is no argument. *)
CPrint ==
  /\ status = "running" /\ Running = "print"
  /\ out' = Append(out, stack[base])
  /\ Return

-----------------------------------------------------------------------------
(* The host. *)

HostTurn == status = "running" /\ Running = "host"

(* nf::run: the function of the chunk is pushed, then called; or the text  *)
(* does not parse.                                                         *)
RunChunk(p) ==
  LET f == Len(funcs) + 1 IN
  /\ HostTurn
  /\ f <= MaxFuncs /\ HasRoom(4)
  /\ stack' = Pushed(<<FuncV(f)>> \o Saved(pc, top + 1))
  /\ Enter(f, -1, top + 1, 0, pc, Append(funcs, NfFunc(p)))

Run(p) == p \in (IF Depth = 0 THEN MainChunks ELSE HostChunks) /\ RunChunk(p)

RunRejected == HostTurn /\ \E err \in {"PARSE", "OVER_LIMIT"} : Fails(err)

HostFrame == top - base
HostMayPush == HostTurn /\ HostFrame < HostSlots

(* new_str, new_table and push_func. *)
HostPushStr ==
  /\ HostMayPush
  /\ \E s \in HostNames : Push(StrV(s))
  /\ UNCHANGED <<base, pc, func, funcs, tables, calls, out, status>>

HostPushTable ==
  /\ HostMayPush /\ Len(tables) < MaxTables
  /\ Push(TableV(Len(tables) + 1))
  /\ tables' = Append(tables, <<>>)
  /\ UNCHANGED <<base, pc, func, funcs, calls, out, status>>

HostPushFunc ==
  /\ HostMayPush /\ Len(funcs) < MaxFuncs
  /\ Push(FuncV(Len(funcs) + 1))
  /\ funcs' = Append(funcs, CFunc("host"))
  /\ UNCHANGED <<base, pc, func, tables, calls, out, status>>

(* set_table: the value is popped, the key is not.  The host passes a      *)
(* table and a string that are in its frame, below the value.              *)
HostSetTable(table_slot, key_slot) ==
  LET table == ValueAt(table_slot)
      key == ValueAt(key_slot)
  IN
  /\ HostTurn
  /\ HostFrame >= 2 /\ -key_slot \in 2..HostFrame
  /\ table_slot = PSEUDO_INDEX_GLOBAL \/ -table_slot \in 2..HostFrame
  /\ table.type = "Table" /\ key.type = "String"
  /\ tables' = [tables EXCEPT ![table.v] = Stored(@, key, stack[top - 1])]
  /\ top' = top - 1
  /\ UNCHANGED <<stack, base, pc, func, funcs, calls, out, status>>

HostPop(n) ==
  /\ HostTurn /\ n <= HostFrame
  /\ top' = top - n
  /\ UNCHANGED <<stack, base, pc, func, funcs, tables, calls, out, status>>

HostSetTop(n) ==
  /\ HostTurn
  /\ \/ /\ n <= HostFrame
        /\ top' = base + n
        /\ UNCHANGED <<stack, base, pc, func, funcs, tables, calls, out, status>>
     \/ n > HostFrame /\ Fails("OVER_LIMIT")

HostReturns == HostTurn /\ Depth > 0 /\ Return /\ UNCHANGED out

-----------------------------------------------------------------------------
(* The pushes a step may make: with top at n slots from StackNr or less,   *)
(* the last of them reallocates the stack.  realloc may move it, leaving   *)
(* top, base and the pointers the running code holds behind, or fail; and  *)
(* when top is past Capacity the push is outside the block.                *)
(* In the first and the last case nothing is left to rely on: the status   *)
(* is "stack lost".                                                        *)
PushesOf(n) ==
  \/ n = 1 /\ \E op \in BinaryOps \cup {"CONST", "LOAD_NIL", "PUSH", "NEW_TABLE", "NEG", "LEN"} : At(op)
  \/ n = 1 /\ HostMayPush
  \/ At("CALL") /\ n = 3 + IF ValueAt(Instr.ab).type = "Func" THEN ArgsNr ELSE 0
  \/ n = 4 /\ HostTurn /\ Len(funcs) < MaxFuncs

StackFails ==
  /\ \E n \in 1..Capacity : PushesOf(n) /\ top + n > StackNr
  /\ \E why \in {"stack lost", "OUT_OF_MEMORY"} : Fails(why)

(* Any other allocation may fail too. *)
Allocates ==
  \/ At("NEW_TABLE") \/ At("TABLE_SET") \/ HostTurn
  \/ \E op \in BinaryOps : At(op) /\ Computed.type = "String"
OutOfMemory == Allocates /\ Fails("OUT_OF_MEMORY")

-----------------------------------------------------------------------------
(* nf::open: the registry has print, and nf with its version; the slots    *)
(* that was done with keep what they held.                                 *)
CONSTANTS PrintName, NfName, VersionName, Version

ASSUME OpenAssumption == {PrintName, NfName, VersionName, Version} \subseteq Seq(Chars)

Registry == [k \in {StrV(PrintName), StrV(NfName)} |-> IF k = StrV(PrintName) THEN FuncV(1) ELSE TableV(2)]
NfTable == [k \in {StrV(VersionName)} |-> StrV(Version)]
OpenedStack == <<StrV(NfName), TableV(2), StrV(VersionName), StrV(Version)>>

Init ==
  /\ stack = [s \in 0..Capacity |-> IF s < 4 THEN OpenedStack[s + 1] ELSE Uninit]
  /\ top = 0 /\ base = 0
  /\ pc = NoPc
  /\ func = 0
  /\ funcs = <<CFunc("print")>>
  /\ tables = <<Registry, NfTable>>
  /\ calls = <<>>
  /\ out = <<>>
  /\ status = "running"

Interpreter ==
  \/ Const \/ LoadNil \/ PushSlot \/ NewTable \/ Compute \/ SetSlot
  \/ TableSet \/ TableGet \/ Pop \/ Call \/ Ret0 \/ CPrint

Host ==
  \/ \E p \in Chunks : Run(p)
  \/ RunRejected
  \/ HostPushStr \/ HostPushTable \/ HostPushFunc
  \/ \E k \in (-HostSlots)..(-2) : \E t \in {PSEUDO_INDEX_GLOBAL} \cup (-HostSlots)..(-2) :
       HostSetTable(t, k)
  \/ \E n \in 1..HostSlots : HostPop(n)
  \/ \E n \in 0..HostSlots : HostSetTop(n)
  \/ HostReturns

Next == Interpreter \/ Host \/ StackFails \/ OutOfMemory

Spec == Init /\ [][Next]_vars

(* The interpreter waits for nothing; a C function returns some day. *)
FairSpec == Spec /\ WF_vars(Interpreter) /\ WF_vars(HostReturns)

-----------------------------------------------------------------------------
(* Properties. *)

Pcs(funcs_nr) == [f : 0..funcs_nr, i : Nat]
SlotValuesOf(funcs_nr, tables_nr) ==
  Plain \cup [type : {"Table"}, v : 1..tables_nr] \cup [type : {"Func"}, v : 1..funcs_nr]
        \cup [type : {"PC"}, v : Pcs(funcs_nr)] \cup [type : {"Index"}, v : 0..Capacity]
SlotValues == SlotValuesOf(Len(funcs), Len(tables))

CallsOf(funcs_nr) ==
  [slot : Int16, fn : 1..funcs_nr, top : 0..Capacity, base : 0..Capacity,
   pc : Pcs(funcs_nr), func : 0..funcs_nr]
FuncsOf(funcs_nr) ==
  [kind : {"NF", "print", "host"}, proto : Chunks \cup {NoProto}, prev : 0..funcs_nr]
Statuses == {"running", "stack lost", "undefined", "OUT_OF_MEMORY", "OP_NUM", "OVER_LIMIT",
             "PARSE", "SIGFPE"}

(* Every variable has its type: references name objects that exist, and    *)
(* top stays inside the stack.                                             *)
TypeOK ==
  /\ stack \in [0..Capacity -> SlotValues]
  /\ top \in 0..Capacity /\ base \in 0..Capacity
  /\ pc \in Pcs(Len(funcs)) /\ func \in 0..Len(funcs)
  /\ funcs \in Seq(FuncsOf(Len(funcs)))
  /\ \A f \in 1..Len(funcs) : funcs[f].kind = "NF" <=> funcs[f].proto # NoProto
  /\ Len(tables) \in Nat \ {0} /\ tables = [t \in 1..Len(tables) |-> tables[t]]
  /\ \A t \in 1..Len(tables) :
       \A k \in DOMAIN tables[t] : tables[t][k] \in SlotValues
  /\ calls \in Seq(CallsOf(Len(funcs)))
  /\ out \in Seq(SlotValues)
  /\ status \in Statuses

(* Where the frame of the k-th activation begins and ends. *)
FrameBase(k) == IF k = Depth THEN base ELSE calls[k + 1].base
FrameTop(k) == IF k = Depth THEN top ELSE calls[k + 1].top

(* However deep calls are nested, the pc, base and top that Thread_call    *)
(* saved for each caller are still in the stack, right below the callee's  *)
(* frame, and frames lie one above the other.                              *)
SavedFramesIntact ==
  /\ base <= top
  /\ \A k \in 1..Depth :
       /\ stack[calls[k].top] = PcV(calls[k].pc)
       /\ stack[calls[k].top + 1] = IndexV(calls[k].base)
       /\ stack[calls[k].top + 2] = IndexV(calls[k].top + 2)
       /\ calls[k].base <= calls[k].top
       /\ FrameBase(k) = calls[k].top + 3
       /\ calls[k].top + 3 <= base
       /\ \A j \in 1..(k - 1) : calls[j].top + 3 <= calls[k].base

DepOf(p) == funcs[p.f].proto.dep[p.i]
LastOp(p) == funcs[p.f].proto.ins[p.i - 1].op
(* The pc p is in the code of function f. *)
InCodeOf(f, p) == p.f = f /\ p.i \in 1..Len(funcs[f].proto.ins)

(* At every instruction the frame has as many slots as the parser counted  *)
(* when it emitted it: the operands it numbered are the slots it meant.    *)
DepthAgrees ==
  Running = "NF" => InCodeOf(Current.fn, pc) /\ top - base = DepOf(pc)

(* A function that waits for a call to return will go on where the CALL    *)
(* was, with the slots the parser counts after it; nf::run was called from *)
(* C code, and takes off what it pushed.                                   *)
CallerKind(k) == IF k = 1 THEN "host" ELSE funcs[calls[k - 1].fn].kind
Before(p) == [p EXCEPT !.i = @ - 1]
CallersResume ==
  \A k \in 1..Depth :
    IF CallerKind(k) = "NF"
      THEN /\ InCodeOf(calls[k - 1].fn, calls[k].pc)
           /\ calls[k].pc.i > 1 /\ LastOp(calls[k].pc) = "CALL"
           /\ calls[k].slot = DepOf(calls[k].pc)
           /\ calls[k].top - calls[k].base = DepOf(Before(calls[k].pc))
      ELSE calls[k].slot = -1 /\ calls[k].base < calls[k].top

(* The slots in use, and the one a POP right after a CALL may bring back.  *)
AfterCall == Running = "NF" /\ pc.i > 1 /\ LastOp(pc) = "CALL"
LiveTop == IF AfterCall THEN base + DepOf(Before(pc)) ELSE top

(* The function of a chunk is nowhere but in the slot nf::run calls it     *)
(* from: no script and no C function gets hold of it, so that it is called *)
(* once and without arguments.                                             *)
IsChunk(value) == value.type = "Func" /\ funcs[value.v].kind = "NF"
ChunksUnreachable ==
  /\ LiveTop <= Capacity
  /\ \A s \in 0..(LiveTop - 1) : IsChunk(stack[s]) =>
       \E k \in 1..Depth : calls[k].slot = -1 /\ s = calls[k].top - 1
  /\ \A t \in 1..Len(tables) : \A k \in DOMAIN tables[t] : ~IsChunk(tables[t][k])

(* No step of a callee, the host's C functions included, changes a slot of *)
(* its callers, their variables among them.                                *)
CallerSlotsUntouched == [][\A s \in 0..(base - 1) : stack'[s] = stack[s]]_vars

(* A call gives the caller its registers back, and takes the function and  *)
(* the arguments, no more and no less, off its frame.                      *)
ReturnRestoresFrame ==
  [][Len(calls') < Depth =>
       /\ base' = Current.base /\ pc' = Current.pc
       /\ top' = IF Current.slot >= 0 THEN Current.base + Current.slot
                                      ELSE Current.top + Current.slot]_vars

(* While a function runs there is a current function: the chain of prev    *)
(* that returns follow does not end too early, even if a C function that   *)
(* is entered again loses the link it had.                                 *)
FuncNotNull == Depth > 0 => func # 0

(* pc and func describe the same function: the code that runs reads its    *)
(* own constants.                                                          *)
PcOfCurrentFunction == Running = "NF" => func = pc.f

(* A run ends: control comes back to the main program, or an error ends    *)
(* the program.                                                            *)
RunsEnd == (Depth > 0) ~> (Depth = 0 \/ status # "running")

(* print is given its argument: the slot it reads is in use, not one of    *)
(* the free slots from top on.                                             *)
PrintReadsUsedSlot == Running = "print" => base < top

(* The check of Thread_push reports an overflow of the stack before the    *)
(* stack is lost.                                                          *)
StackOverflowReported == status # "stack lost"
=============================================================================

----------------------------- MODULE NfRunProofs -----------------------------
(***************************************************************************)
(* What a program of nf does from the text to the end of its run, for any  *)
(* statements: a parse of the text is a behaviour of NfParser, the run of  *)
(* the chunk it returns is one of NfVm, so that each keeps its invariants, *)
(* and what NfVm assumes of chunks is what NfParser keeps.                 *)
(*                                                                         *)
(* The premise that stays is ChunkShort: used_slots is an int16_t that     *)
(* nothing bounds, and fewer instructions than that cannot wrap it.        *)
(***************************************************************************)
EXTENDS NfRun, TLAPS

(* The parser, with what is proved of it. *)
PP == INSTANCE NfParserProofs WITH
  status <- parse,
  Texts <- {[prelude |-> <<>>, tokens |-> Tokens, free |-> LongestText]}

(* The interpreter, with what is proved of it, where every chunk is one    *)
(* that can be run, and nothing but print is a C function.                 *)
GoodProtos == {p \in Protos : WellFormed(p)}
V == INSTANCE NfVmProofs WITH MainChunks <- GoodProtos, HostChunks <- {}

-----------------------------------------------------------------------------
(* The instances agree with the modules: every operator means the same in  *)
(* both, one after the other, and so does every action.                    *)

(* A step of the parser of NfRun is one of the parser proved about.        *)
LEMMA SameParser == P!Next => PP!Next
  <1>1. P!PSEUDO_INDEX_GLOBAL = PP!PSEUDO_INDEX_GLOBAL
    BY DEF P!PSEUDO_INDEX_GLOBAL, PP!PSEUDO_INDEX_GLOBAL
  <1>2. P!Int16Max = PP!Int16Max
    BY DEF P!Int16Max, PP!Int16Max
  <1>3. \A x : P!I16(x) = PP!I16(x)
    BY <1>2 DEF P!I16, PP!I16
  <1>4. \A op : P!Ins(op) = PP!Ins(op)
    BY DEF P!Ins, PP!Ins
  <1>5. \A op, ab : P!InsAB(op, ab) = PP!InsAB(op, ab)
    BY <1>3 DEF P!InsAB, PP!InsAB
  <1>6. \A op, ab, cd : P!InsABCD(op, ab, cd) = PP!InsABCD(op, ab, cd)
    BY <1>3 DEF P!InsABCD, PP!InsABCD
  <1>7. P!NoText = PP!NoText
    BY DEF P!NoText, PP!NoText
  <1>8. P!NoToken = PP!NoToken
    BY <1>7 DEF P!NoToken, PP!NoToken
  <1>9. P!Eof = PP!Eof
    BY <1>7 DEF P!Eof, PP!Eof
  <1>10. P!Unlexable = PP!Unlexable
    BY DEF P!Unlexable, PP!Unlexable
  <1>11. P!Literals = PP!Literals
    BY DEF P!Literals, PP!Literals
  <1>12. \A t : P!Begun(t) = PP!Begun(t)
    BY <1>9 DEF P!Begun, PP!Begun
  <1>13. \A t : P!NextIn(t) = PP!NextIn(t)
    BY <1>9 DEF P!NextIn, PP!NextIn
  <1>14. P!NextTokens = PP!NextTokens
    BY <1>12, <1>13 DEF P!NextTokens, PP!NextTokens
  <1>15. P!Peeked = PP!Peeked
    BY <1>14, <1>8 DEF P!Peeked, PP!Peeked
  <1>16. \A type, index : P!SingleValue(type, index) = PP!SingleValue(type, index)
    BY DEF P!SingleValue, PP!SingleValue
  <1>17. P!NoValue = PP!NoValue
    BY <1>16 DEF P!NoValue, PP!NoValue
  <1>18. \A index : P!Normal(index) = PP!Normal(index)
    BY <1>16 DEF P!Normal, PP!Normal
  <1>19. \A index : P!TableSlot(index) = PP!TableSlot(index)
    BY <1>16 DEF P!TableSlot, PP!TableSlot
  <1>20. \A p : P!MaxUsedSlot(p) = PP!MaxUsedSlot(p)
    BY <1>3 DEF P!MaxUsedSlot, PP!MaxUsedSlot
  <1>21. \A p, ins, slots_changed : P!Emit(p, ins, slots_changed) = PP!Emit(p, ins, slots_changed)
    BY <1>3 DEF P!Emit, PP!Emit
  <1>22. \A p, v : P!ConstIndex(p, v) = PP!ConstIndex(p, v)
    BY DEF P!ConstIndex, PP!ConstIndex
  <1>23. \A p, v : P!ConstFits(p, v) = PP!ConstFits(p, v)
    BY <1>22 DEF P!ConstFits, PP!ConstFits
  <1>24. \A p, v : P!EmitConst(p, v) = PP!EmitConst(p, v)
    BY <1>22, <1>21, <1>5 DEF P!EmitConst, PP!EmitConst
  <1>25. \A p, value : P!EmitLoad(p, value) = PP!EmitLoad(p, value)
    BY <1>21, <1>5 DEF P!EmitLoad, PP!EmitLoad
  <1>26. \A p, value : P!LoadedIndex(p, value) = PP!LoadedIndex(p, value)
    BY <1>20 DEF P!LoadedIndex, PP!LoadedIndex
  <1>27. \A p, index : P!EnsureAtTop(p, index) = PP!EnsureAtTop(p, index)
    BY <1>21, <1>5, <1>20 DEF P!EnsureAtTop, PP!EnsureAtTop
  <1>28. \A p, slots : P!EmitPushes(p, slots) = PP!EmitPushes(p, slots)
    BY <1>3, <1>5 DEF P!EmitPushes, PP!EmitPushes
  <1>29. \A args : P!ArgsAndCallee(args) = PP!ArgsAndCallee(args)
    BY DEF P!ArgsAndCallee, PP!ArgsAndCallee
  <1>30. \A p, callee, args : P!EmitCall(p, callee, args) = PP!EmitCall(p, callee, args)
    BY <1>29, <1>21, <1>28, <1>27, <1>5, <1>20 DEF P!EmitCall, PP!EmitCall
  <1>31. \A p, left, key_slot, result : P!EmitStore(p, left, key_slot, result)
             = PP!EmitStore(p, left, key_slot, result)
    BY <1>21, <1>5, <1>6 DEF P!EmitStore, PP!EmitStore
  <1>32. \A p, vars_nr : P!PopTemps(p, vars_nr) = PP!PopTemps(p, vars_nr)
    BY <1>21, <1>5 DEF P!PopTemps, PP!PopTemps
  <1>33. \A at, op, value, n : P!Frame(at, op, value, n) = PP!Frame(at, op, value, n)
    BY DEF P!Frame, PP!Frame
  <1>34. \A at : P!Point(at) = PP!Point(at)
    BY <1>33, <1>17 DEF P!Point, PP!Point
  <1>35. P!Expr = PP!Expr
    BY <1>34 DEF P!Expr, PP!Expr
  <1>36. \A name : P!Declared(name) = PP!Declared(name)
    BY DEF P!Declared, PP!Declared
  <1>37. \A name : P!SlotOf(name) = PP!SlotOf(name)
    BY DEF P!SlotOf, PP!SlotOf
  <1>38. \A p : P!EmitEnd(p) = PP!EmitEnd(p)
    BY <1>21, <1>4 DEF P!EmitEnd, PP!EmitEnd
  <1>39. P!OpcodeOf = PP!OpcodeOf
    BY DEF P!OpcodeOf, PP!OpcodeOf
  <1>40. \A level : P!OperatorsOf(level) = PP!OperatorsOf(level)
    BY DEF P!OperatorsOf, PP!OperatorsOf
  <1>41. \A level : P!OperandOf(level) = PP!OperandOf(level)
    BY <1>34 DEF P!OperandOf, PP!OperandOf
  <1>42. \A p, frame, second : P!EmitBinary(p, frame, second) = PP!EmitBinary(p, frame, second)
    BY <1>21, <1>6, <1>39 DEF P!EmitBinary, PP!EmitBinary
  <1>43. P!UnaryOp = PP!UnaryOp
    BY DEF P!UnaryOp, PP!UnaryOp
  <1>44. \A p, op, index : P!EmitUnary(p, op, index) = PP!EmitUnary(p, op, index)
    BY <1>21, <1>5, <1>43 DEF P!EmitUnary, PP!EmitUnary
  <1>45. \A value : P!SvStart(value) = PP!SvStart(value)
    BY <1>33 DEF P!SvStart, PP!SvStart
  <1>46. \A t : P!IsConst(t) = PP!IsConst(t)
    BY <1>36, <1>11 DEF P!IsConst, PP!IsConst
  <1>47. \A frame : P!Accepted(frame) = PP!Accepted(frame)
    BY <1>9, <1>11, <1>10 DEF P!Accepted, PP!Accepted
  <1>48. P!StmtEof => PP!StmtEof
    BY <1>38, <1>9, <1>15, <1>32, <1>8 DEF P!StmtEof, PP!StmtEof, P!At, PP!At, P!Look,
       PP!Look, P!Saw, PP!Saw
  <1>49. P!StmtLocal => PP!StmtLocal
    BY <1>15, <1>34, <1>8 DEF P!StmtLocal, PP!StmtLocal, P!At, PP!At, P!Goto, PP!Goto, P!Take,
       PP!Take, P!Saw, PP!Saw
  <1>50. P!StmtSymbol => PP!StmtSymbol
    BY <1>15, <1>34, <1>8 DEF P!StmtSymbol, PP!StmtSymbol, P!At, PP!At, P!Goto, PP!Goto,
       P!Look, PP!Look, P!Saw, PP!Saw
  <1>51. P!StmtLocalName => PP!StmtLocalName
    BY <1>15, <1>36, <1>33, <1>18, <1>37, <1>8, <1>21, <1>4 DEF P!StmtLocalName,
       PP!StmtLocalName, P!At, PP!At, P!NewLocal, PP!NewLocal, P!ScopeFull, PP!ScopeFull,
       P!OldLocal, PP!OldLocal, P!Goto, PP!Goto, P!Take, PP!Take, P!Saw, PP!Saw, P!Look, PP!Look
  <1>52. P!MaybeInit => PP!MaybeInit
    BY <1>15, <1>34, <1>10, <1>8, <1>35, <1>33, <1>20 DEF P!MaybeInit, PP!MaybeInit,
       P!Assignment, PP!Assignment, P!At, PP!At, P!Goto, PP!Goto, P!Look, PP!Look, P!Take,
       PP!Take, P!Saw, PP!Saw
  <1>53. P!Target => PP!Target
    BY <1>25, <1>33, <1>26, <1>18, <1>15, <1>34, <1>10, <1>8, <1>35, <1>20 DEF P!Target,
       PP!Target, P!Assignment, PP!Assignment, P!At, PP!At, P!Goto, PP!Goto, P!Look, PP!Look,
       P!Take, PP!Take, P!Saw, PP!Saw
  <1>54. P!AssignEnd => PP!AssignEnd
    BY <1>31, <1>34 DEF P!AssignEnd, PP!AssignEnd, P!At, PP!At, P!Goto, PP!Goto, P!SameText,
       PP!SameText
  <1>55. P!ArgsStart => PP!ArgsStart
    BY <1>30, <1>35, <1>33, <1>15, <1>34, <1>10, <1>8 DEF P!ArgsStart, PP!ArgsStart, P!At,
       PP!At, P!Goto, PP!Goto, P!Look, PP!Look, P!Take, PP!Take, P!Saw, PP!Saw
  <1>56. P!ArgEnd => PP!ArgEnd
    BY <1>30, <1>15, <1>34, <1>8 DEF P!ArgEnd, PP!ArgEnd, P!At, PP!At, P!Goto, PP!Goto,
       P!Take, PP!Take, P!Saw, PP!Saw
  <1>57. P!StmtEnd => PP!StmtEnd
    BY <1>15, <1>34, <1>32, <1>8 DEF P!StmtEnd, PP!StmtEnd, P!At, PP!At, P!Goto, PP!Goto,
       P!Take, PP!Take, P!Saw, PP!Saw
  <1>58. \A level \in {"sum", "term"} : P!BinaryLoop(level) => PP!BinaryLoop(level)
    BY <1>42, <1>33, <1>20, <1>18, <1>41, <1>40, <1>15, <1>10, <1>8 DEF P!BinaryLoop,
       PP!BinaryLoop, P!At, PP!At, P!Goto, PP!Goto, P!Look, PP!Look, P!Return, PP!Return,
       P!Take, PP!Take, P!Saw, PP!Saw
  <1>59. P!Factor => PP!Factor
    BY <1>33, <1>17, <1>15, <1>34, <1>10, <1>8 DEF P!Factor, PP!Factor, P!At, PP!At, P!Goto,
       PP!Goto, P!Look, PP!Look, P!Take, PP!Take, P!Saw, PP!Saw
  <1>60. P!Operand => PP!Operand
    BY <1>35, <1>15, <1>34, <1>10, <1>8 DEF P!Operand, PP!Operand, P!At, PP!At, P!Goto,
       PP!Goto, P!Look, PP!Look, P!Take, PP!Take, P!Saw, PP!Saw
  <1>61. P!Paren => PP!Paren
    BY <1>15, <1>8 DEF P!Paren, PP!Paren, P!At, PP!At, P!Return, PP!Return, P!Take, PP!Take,
       P!Saw, PP!Saw
  <1>62. P!Unary => PP!Unary
    BY <1>25, <1>44, <1>26, <1>20, <1>18 DEF P!Unary, PP!Unary, P!At, PP!At, P!Return,
       PP!Return, P!SameText, PP!SameText
  <1>63. P!ValueLocal => PP!ValueLocal
    BY <1>36, <1>18, <1>15, <1>37, <1>45, <1>8 DEF P!ValueLocal, PP!ValueLocal, P!At, PP!At,
       P!Goto, PP!Goto, P!Take, PP!Take, P!Saw, PP!Saw
  <1>64. P!ValueConst => PP!ValueConst
    BY <1>23, <1>24, <1>46, <1>20, <1>18, <1>1, <1>15, <1>45, <1>19, <1>8 DEF P!ValueConst,
       PP!ValueConst, P!At, PP!At, P!Goto, PP!Goto, P!Take, PP!Take, P!Saw, PP!Saw
  <1>65. P!TooManyConsts => PP!TooManyConsts
    BY <1>23, <1>46, <1>15, <1>8 DEF P!TooManyConsts, PP!TooManyConsts, P!At, PP!At, P!Look,
       PP!Look, P!Saw, PP!Saw
  <1>66. P!ValueTable => PP!ValueTable
    BY <1>15, <1>34, <1>8 DEF P!ValueTable, PP!ValueTable, P!At, PP!At, P!Goto, PP!Goto,
       P!Take, PP!Take, P!Saw, PP!Saw
  <1>67. P!TableValue => PP!TableValue
    BY <1>21, <1>4, <1>20, <1>18, <1>15, <1>45, <1>8 DEF P!TableValue, PP!TableValue, P!At,
       PP!At, P!Goto, PP!Goto, P!Take, PP!Take, P!Saw, PP!Saw
  <1>68. P!Subscript => PP!Subscript
    BY <1>25, <1>35, <1>33, <1>26, <1>17, <1>15, <1>10, <1>8 DEF P!Subscript, PP!Subscript,
       P!At, PP!At, P!Goto, PP!Goto, P!Look, PP!Look, P!Return, PP!Return, P!Take, PP!Take,
       P!Saw, PP!Saw
  <1>69. P!KeyEnd => PP!KeyEnd
    BY <1>21, <1>5, <1>15, <1>45, <1>19, <1>8 DEF P!KeyEnd, PP!KeyEnd, P!At, PP!At, P!Goto,
       PP!Goto, P!Take, PP!Take, P!Saw, PP!Saw
  <1>70. P!SyntaxError => PP!SyntaxError
    BY <1>47, <1>15, <1>8 DEF P!SyntaxError, PP!SyntaxError, P!Look, PP!Look, P!Throw,
       PP!Throw, P!Saw, PP!Saw
  <1>71. P!OutOfMemory => PP!OutOfMemory
    BY <1>8 DEF P!OutOfMemory, PP!OutOfMemory, P!Allocates, PP!Allocates, P!Throw, PP!Throw
  <1> QED BY <1>48, <1>49, <1>50, <1>51, <1>52, <1>53, <1>54, <1>55, <1>56, <1>57, <1>58, <1>59,
     <1>60, <1>61, <1>62, <1>63, <1>64, <1>65, <1>66, <1>67, <1>68, <1>69, <1>70, <1>71 DEF
     P!Next, PP!Next

(* A step of the interpreter of NfRun is one of that proved about.         *)
LEMMA SameInterpreter == Interpreter => V!Interpreter
  <1>1. BinaryOps = V!BinaryOps
    BY DEF BinaryOps, V!BinaryOps
  <1>2. PSEUDO_INDEX_GLOBAL = V!PSEUDO_INDEX_GLOBAL
    BY DEF PSEUDO_INDEX_GLOBAL, V!PSEUDO_INDEX_GLOBAL
  <1>3. Int64s = V!Int64s
    BY DEF Int64s, V!Int64s
  <1>4. Nil = V!Nil
    BY DEF Nil, V!Nil
  <1>5. \A i : IntV(i) = V!IntV(i)
    BY DEF IntV, V!IntV
  <1>6. \A n : NumV(n) = V!NumV(n)
    BY DEF NumV, V!NumV
  <1>7. \A s : StrV(s) = V!StrV(s)
    BY DEF StrV, V!StrV
  <1>8. \A t : TableV(t) = V!TableV(t)
    BY DEF TableV, V!TableV
  <1>9. \A f : FuncV(f) = V!FuncV(f)
    BY DEF FuncV, V!FuncV
  <1>10. \A p : PcV(p) = V!PcV(p)
    BY DEF PcV, V!PcV
  <1>11. \A i : IndexV(i) = V!IndexV(i)
    BY DEF IndexV, V!IndexV
  <1>12. \A why : Fault(why) = V!Fault(why)
    BY DEF Fault, V!Fault
  <1>13. \A x : Wrap(x) = V!Wrap(x)
    BY DEF Wrap, V!Wrap
  <1>14. \A x : Magnitude(x) = V!Magnitude(x)
    BY DEF Magnitude, V!Magnitude
  <1>15. \A x, y : Quotient(x, y) = V!Quotient(x, y)
    BY <1>14 DEF Quotient, V!Quotient
  <1>16. \A op, x, y : IntArith(op, x, y) = V!IntArith(op, x, y)
    BY <1>12, <1>5, <1>15, <1>13 DEF IntArith, V!IntArith
  <1>17. Numeric = V!Numeric
    BY DEF Numeric, V!Numeric
  <1>18. \A x : AsNumber(x) = V!AsNumber(x)
    BY DEF AsNumber, V!AsNumber
  <1>19. \A op, first, second : BinOp(op, first, second) = V!BinOp(op, first, second)
    BY <1>18, <1>12, <1>16, <1>6, <1>17, <1>7 DEF BinOp, V!BinOp
  <1>20. \A x : NegOf(x) = V!NegOf(x)
    BY <1>12, <1>5, <1>6, <1>13 DEF NegOf, V!NegOf
  <1>21. \A x : LenOf(x) = V!LenOf(x)
    BY <1>12, <1>5, <1>13 DEF LenOf, V!LenOf
  <1>22. Capacity = V!Capacity
    BY DEF Capacity, V!Capacity
  <1>23. NoProto = V!NoProto
    BY DEF NoProto, V!NoProto
  <1>24. \A p : NfFunc(p) = V!NfFunc(p)
    BY DEF NfFunc, V!NfFunc
  <1>25. \A index : Slot(index) = V!Slot(index)
    BY DEF Slot, V!Slot
  <1>26. \A index : ValueAt(index) = V!ValueAt(index)
    BY <1>2, <1>25, <1>8 DEF ValueAt, V!ValueAt
  <1>27. \A key : KeyIsArrayIndex(key) = V!KeyIsArrayIndex(key)
    BY DEF KeyIsArrayIndex, V!KeyIsArrayIndex
  <1>28. \A t, key, value : Stored(t, key, value) = V!Stored(t, key, value)
    BY DEF Stored, V!Stored
  <1>29. \A t, key : Lookup(t, key) = V!Lookup(t, key)
    BY <1>4 DEF Lookup, V!Lookup
  <1>30. \A table, key : Usable(table, key) = V!Usable(table, key)
    BY <1>27 DEF Usable, V!Usable
  <1>31. Computed = V!Computed
    BY <1>19, <1>1, <1>21, <1>20, <1>26, Zenon DEF Computed, V!Computed, Instr, V!Instr
  <1>32. SetTarget = V!SetTarget
    BY <1>25 DEF SetTarget, V!SetTarget, Instr, V!Instr
  <1>33. \A pc_now, t : Saved(pc_now, t) = V!Saved(pc_now, t)
    BY <1>11, <1>10 DEF Saved, V!Saved
  <1>34. \A first, args_nr : Arguments(first, args_nr) = V!Arguments(first, args_nr)
    BY DEF Arguments, V!Arguments
  <1>35. \A fs, f : NotedPrev(fs, f) = V!NotedPrev(fs, f)
    BY DEF NotedPrev, V!NotedPrev
  <1>36. ArgsNr = V!ArgsNr
    BY <1>25 DEF ArgsNr, V!ArgsNr, Instr, V!Instr
  <1>37. SavedTopSlot = V!SavedTopSlot
    BY DEF SavedTopSlot, V!SavedTopSlot
  <1>38. PoppedBase = V!PoppedBase
    BY <1>37 DEF PoppedBase, V!PoppedBase
  <1>39. PoppedPc = V!PoppedPc
    BY <1>37 DEF PoppedPc, V!PoppedPc
  <1>40. \A func_i : LeftTop(func_i) = V!LeftTop(func_i)
    BY <1>38, <1>37 DEF LeftTop, V!LeftTop
  <1>41. CallerFunc = V!CallerFunc
    BY DEF CallerFunc, V!CallerFunc
  <1>42. Const => V!Const
    BY <1>22, Zenon DEF Const, V!Const, At, V!At, ConstOk, V!ConstOk, Fails, V!Fails, Instr,
       V!Instr, PushResult, V!PushResult, NextPc, V!NextPc, Push, V!Push, HasRoom, V!HasRoom,
       Pushed, V!Pushed, Running, V!Running, Current, V!Current, Depth, V!Depth
  <1>43. LoadNil => V!LoadNil
    BY <1>4, <1>22 DEF LoadNil, V!LoadNil, At, V!At, PushResult, V!PushResult, NextPc,
       V!NextPc, Push, V!Push, HasRoom, V!HasRoom, Pushed, V!Pushed, Instr, V!Instr, Running,
       V!Running, Current, V!Current, Depth, V!Depth
  <1>44. PushSlot => V!PushSlot
    BY <1>26, <1>22 DEF PushSlot, V!PushSlot, At, V!At, Instr, V!Instr, PushResult,
       V!PushResult, NextPc, V!NextPc, Push, V!Push, HasRoom, V!HasRoom, Pushed, V!Pushed,
       Running, V!Running, Current, V!Current, Depth, V!Depth
  <1>45. NewTable => V!NewTable
    BY <1>8, <1>22 DEF NewTable, V!NewTable, At, V!At, PushResult, V!PushResult, NextPc,
       V!NextPc, Push, V!Push, HasRoom, V!HasRoom, Pushed, V!Pushed, Instr, V!Instr, Running,
       V!Running, Current, V!Current, Depth, V!Depth
  <1>46. Compute => V!Compute
    BY <1>1, <1>31, <1>22 DEF Compute, V!Compute, At, V!At, Fails, V!Fails, PushResult,
       V!PushResult, NextPc, V!NextPc, Push, V!Push, HasRoom, V!HasRoom, Pushed, V!Pushed,
       Instr, V!Instr, Running, V!Running, Current, V!Current, Depth, V!Depth
  <1>47. SetSlot => V!SetSlot
    BY <1>32 DEF SetSlot, V!SetSlot, At, V!At, NextPc, V!NextPc, Instr, V!Instr, Running,
       V!Running, Current, V!Current, Depth, V!Depth
  <1>48. TableSet => V!TableSet
    BY <1>28, <1>30, <1>26, Zenon DEF TableSet, V!TableSet, At, V!At, Fails, V!Fails, Instr,
       V!Instr, NextPc, V!NextPc, Running, V!Running, Current, V!Current, Depth, V!Depth
  <1>49. TableGet => V!TableGet
    BY <1>29, <1>30, <1>26, Zenon DEF TableGet, V!TableGet, At, V!At, Fails, V!Fails, Instr,
       V!Instr, NextPc, V!NextPc, Running, V!Running, Current, V!Current, Depth, V!Depth
  <1>50. Pop => V!Pop
    BY DEF Pop, V!Pop, At, V!At, Instr, V!Instr, NextPc, V!NextPc, Running, V!Running,
       Current, V!Current, Depth, V!Depth
  <1>51. Call => V!Call
    BY <1>36, <1>34, <1>33, <1>25, <1>26, <1>22, <1>35, Zenon DEF Call, V!Call, At, V!At,
       Enter, V!Enter, Fails, V!Fails, HasRoom, V!HasRoom, Instr, V!Instr, NextPc, V!NextPc,
       Pushed, V!Pushed, Running, V!Running, Current, V!Current, Depth, V!Depth
  <1>52. Ret0 => V!Ret0
    BY <1>41, <1>40, <1>38, <1>39 DEF Ret0, V!Ret0, At, V!At, Return, V!Return, Current,
       V!Current, Depth, V!Depth, Instr, V!Instr, Running, V!Running
  <1>53. CPrint => V!CPrint
    BY <1>41, <1>40, <1>38, <1>39 DEF CPrint, V!CPrint, Return, V!Return, Running, V!Running,
       Current, V!Current, Depth, V!Depth
  <1> QED BY <1>42, <1>43, <1>44, <1>45, <1>46, <1>47, <1>48, <1>49, <1>50, <1>51, <1>52,
             <1>53 DEF Interpreter, V!Interpreter

-----------------------------------------------------------------------------
(* What the instances assume.                                              *)

(* Texts made of statements are texts NfParser is about.                   *)
LEMMA ParserAssumed == PP!ParserAssumption
  <1>1. LongestText \in Nat
    <2>1. PICK longest \in Statements : \A s \in Statements : Len(s) <= Len(longest)
      BY InterpAssumption
    <2> DEFINE N == {Len(s) : s \in Statements}
               m == CHOOSE n \in N : \A s \in Statements : Len(s) <= n
    <2>2. \E n \in N : \A s \in Statements : Len(s) <= n
      BY <2>1
    <2>3. m \in N
      BY <2>2
    <2>4. N \subseteq Nat
      BY InterpAssumption
    <2>5. LongestText = MaxStatements * m
      BY DEF LongestText
    <2> HIDE DEF m, N
    <2>6. m \in Nat /\ MaxStatements \in Nat
      BY <2>3, <2>4, InterpAssumption
    <2> QED BY <2>5, <2>6
  <1>2. <<>> \in Seq(Tokens)
    OBVIOUS
  <1> QED BY <1>1, <1>2, InterpAssumption DEF PP!ParserAssumption, PP!Int16Max, Int16Max

(* What can be run is the same in NfVm and here.                           *)
LEMMA InterpreterAssumed ==
  V!IntMaxAssumption /\ V!NumbersAssumption /\ V!OpenAssumption /\ V!VmAssumption
  <1>1. V!IntMaxAssumption /\ V!NumbersAssumption /\ V!OpenAssumption
    BY IntMaxAssumption, NumbersAssumption, OpenAssumption DEF V!IntMaxAssumption,
       V!NumbersAssumption, V!OpenAssumption, V!Int64s, Int64s
  <1>2. Protos = V!Protos
    BY DEF Protos, V!Protos, Instruction, V!Instruction, Opcodes, V!Opcodes, Int16, V!Int16,
       Int16Max, V!Int16Max, Plain, V!Plain, Int64s, V!Int64s
  <1>3. \A i, d : DepthAfter(i, d) = V!DepthAfter(i, d)
    BY DEF DepthAfter, V!DepthAfter, BinaryOps, V!BinaryOps
  <1>4. \A i : SlotsOf(i) = V!SlotsOf(i)
    BY DEF SlotsOf, V!SlotsOf, BinaryOps, V!BinaryOps
  <1>5. \A i, d : OperandsLive(i, d) <=> V!OperandsLive(i, d)
    BY <1>4 DEF OperandsLive, V!OperandsLive, PSEUDO_INDEX_GLOBAL, V!PSEUDO_INDEX_GLOBAL
  <1>6. \A p : WellFormed(p) <=> V!WellFormed(p)
    BY <1>3, <1>5 DEF WellFormed, V!WellFormed
  <1>7. \A p \in V!Chunks : p \in V!Protos /\ V!WellFormed(p)
    BY <1>2, <1>6 DEF V!Chunks, GoodProtos
  <1> QED BY <1>1, <1>7, VmAssumption DEF V!VmAssumption, Capacity, V!Capacity

(* The call of the chunk is a call the host makes in NfVm.                 *)
LEMMA SameStart == ASSUME Start, proto \in GoodProtos, Depth = 0 PROVE V!Run(proto)
  <1>1. Depth = V!Depth /\ Running = V!Running /\ Capacity = V!Capacity
    BY DEF Depth, V!Depth, Running, V!Running, Current, V!Current, Capacity, V!Capacity
  <1>2. /\ \A f : FuncV(f) = V!FuncV(f)
        /\ \A p, t : Saved(p, t) = V!Saved(p, t)
        /\ NfFunc(proto) = V!NfFunc(proto)
        /\ \A fs, f : NotedPrev(fs, f) = V!NotedPrev(fs, f)
    BY DEF FuncV, V!FuncV, Saved, V!Saved, PcV, V!PcV, IndexV, V!IndexV, NfFunc, V!NfFunc,
       NotedPrev, V!NotedPrev
  <1>3. V!RunChunk(proto)
    BY <1>1, <1>2 DEF Start, RunChunk, V!RunChunk, HostTurn, V!HostTurn, HasRoom, V!HasRoom,
       Pushed, V!Pushed, Enter, V!Enter
  <1> QED BY <1>1, <1>3 DEF V!Run

-----------------------------------------------------------------------------
(* From the text to the run.                                               *)

(* However statements and the steps of the interpreter come between, what  *)
(* load() does to the text is what NfParser says: its proofs are about     *)
(* programs.                                                               *)
THEOREM ParserRuns == ProgramSpec => PP!Spec
  <1>1. Begin => PP!Init
    BY DEF Begin, P!Init, PP!Init, P!Point, PP!Point, P!Frame, PP!Frame, P!NoToken,
       PP!NoToken, P!NoText, PP!NoText, P!NoValue, PP!NoValue, P!SingleValue, PP!SingleValue,
       P!EmptyProto, PP!EmptyProto
  <1>2. [ProgramNext]_programVars => [PP!Next]_PP!pvars
    <2>1. Parse => PP!Next
      BY SameParser DEF Parse
    <2>2. Write \/ Start \/ Execute => UNCHANGED PP!pvars
      BY DEF Write, Start, Execute, parsing, PP!pvars
    <2>3. UNCHANGED programVars => UNCHANGED PP!pvars
      BY DEF programVars, parsing, PP!pvars
    <2> QED BY <2>1, <2>2, <2>3 DEF ProgramNext, RunText
  <1> QED BY <1>1, <1>2, PTL DEF ProgramSpec, PP!Spec

(* What load() returns can be run.                                         *)
ChunkGood == parse = "parsed" => proto \in GoodProtos

(* It can, with the types and the code that NfParserProofs finds.          *)
LEMMA ChunksGood == ProgramSpec /\ []ChunkShort => []ChunkGood
  <1>1. ASSUME PP!TypeOK, PP!ParsedCodeWellFormed PROVE ChunkGood
    <2> SUFFICES ASSUME parse = "parsed" PROVE proto \in GoodProtos
      BY DEF ChunkGood
    <2>1. /\ proto.ins \in Seq(Instruction) /\ proto.dep \in Seq(0..Int16Max)
          /\ proto.consts \in Seq(PP!Values) /\ proto.used \in 0..Int16Max
          /\ proto = [ins |-> proto.ins, dep |-> proto.dep, consts |-> proto.consts,
                      used |-> proto.used]
      <3>1. Instruction = PP!Instruction /\ Int16Max = PP!Int16Max
        BY DEF Instruction, PP!Instruction, Opcodes, PP!Opcodes, Int16, PP!Int16, Int16Max,
           PP!Int16Max
      <3> QED BY <1>1, <3>1 DEF PP!TypeOK
    <2>2. 0..Int16Max \subseteq Int16 /\ PP!Values \subseteq Plain
      <3>1. 0..Int16Max \subseteq Int16
        <4>1. Int16Max \in Nat
          BY DEF Int16Max
        <4> QED BY <4>1 DEF Int16
      <3>2. \A t \in Tokens : t.text \in Plain
        BY InterpAssumption
      <3>3. PP!Values \subseteq Plain
        BY <3>2 DEF PP!Values
      <3> QED BY <3>1, <3>3
    <2>3. proto.dep \in Seq(Int16) /\ proto.used \in Int16 /\ proto.consts \in Seq(Plain)
      <3>1. \A S, T : \A f \in Seq(S) : S \subseteq T => f \in Seq(T)
        OBVIOUS
      <3> QED BY <2>1, <2>2, <3>1
    <2>4. proto \in Protos
      BY <2>1, <2>3 DEF Protos
    <2>5. WellFormed(proto)
      <3>1. \A i, d : DepthAfter(i, d) = PP!DepthAfter(i, d)
        BY DEF DepthAfter, PP!DepthAfter, BinaryOps, PP!BinaryOps
      <3>2. \A i : SlotsOf(i) = PP!SlotsOf(i)
        BY DEF SlotsOf, PP!SlotsOf, BinaryOps, PP!BinaryOps
      <3>3. \A i, d : OperandsLive(i, d) <=> PP!OperandsLive(i, d)
        BY <3>2 DEF OperandsLive, PP!OperandsLive, PSEUDO_INDEX_GLOBAL, PP!PSEUDO_INDEX_GLOBAL
      <3>4. WellFormed(proto) <=> PP!WellFormed(proto)
        BY <3>1, <3>3 DEF WellFormed, PP!WellFormed
      <3> QED BY <1>1, <3>4 DEF PP!ParsedCodeWellFormed
    <2> QED BY <2>4, <2>5 DEF GoodProtos
  <1>2. ChunkShort <=> PP!Short(proto)
    BY DEF ChunkShort, PP!Short, Int16Max, PP!Int16Max
  <1>3. PP!Spec => [](ChunkShort => PP!TypeOK) /\ [](ChunkShort => PP!ParsedCodeWellFormed)
    BY <1>2, PP!TypeAlways, PP!WellFormedAlways, PP!ShortFits, ParserAssumed, PTL
  <1> QED BY <1>1, <1>3, ParserRuns, PTL

(* Nothing runs before the chunk is called, and with it there are two      *)
(* functions: it is called once.                                           *)
StartsOnce == Len(funcs) >= 1 /\ (Len(funcs) = 1 => Depth = 0)

(* The inductive invariant of NfVm, and that.                              *)
RunInv == V!Inv /\ StartsOnce

(* A program begins as the interpreter does.                               *)
LEMMA BeginInv == Begin => V!Init /\ RunInv
  <1>1. Init => V!Init
    BY DEF Init, V!Init, OpenedStack, V!OpenedStack, Capacity, V!Capacity, CFunc, V!CFunc,
       NoProto, V!NoProto, Registry, V!Registry, NfTable, V!NfTable, NoPc, V!NoPc, StrV,
       V!StrV, TableV, V!TableV, FuncV, V!FuncV, Uninit, V!Uninit
  <1>2. V!Init => V!Inv
    BY V!InitInv, InterpreterAssumed
  <1> QED BY <1>1, <1>2 DEF Begin, RunInv, StartsOnce, Init, Depth

(* A step of a program is a step of the interpreter, or nothing happens to *)
(* the thread, and the invariant is kept.                                  *)
LEMMA StepMaps ==
  RunInv /\ ChunkGood /\ [ProgramNext]_programVars => [V!Next]_V!vars /\ RunInv'
  <1> SUFFICES ASSUME RunInv, ChunkGood, [ProgramNext]_programVars
               PROVE  [V!Next]_V!vars /\ StartsOnce'
    <2>1. V!Inv /\ [V!Next]_V!vars => V!Inv'
      BY V!NextInv, InterpreterAssumed
    <2> QED BY <2>1 DEF RunInv
  <1>0. Len(funcs) \in Nat /\ DOMAIN funcs = 1..Len(funcs)
    BY DEF RunInv, V!Inv, V!TypeOK
  <1>1. CASE Write \/ Parse \/ UNCHANGED programVars
    BY <1>1 DEF Write, Parse, programVars, running, V!vars, StartsOnce, RunInv, Depth
  <1>2. CASE Start
    <2>1. Depth = 0
      BY <1>0, <1>2 DEF Start, Started, RunInv, StartsOnce
    <2>2. V!Run(proto) /\ proto \in V!Chunks
      BY <1>2, <2>1, SameStart DEF ChunkGood, Start, V!Chunks
    <2>3. V!Next
      BY <2>2 DEF V!Next, V!Host
    <2>4. Len(funcs') = Len(funcs) + 1
      <3> DEFINE g == Append(funcs, NfFunc(proto))
      <3>1. funcs' = NotedPrev(g, Len(funcs) + 1)
        BY <1>2 DEF Start, RunChunk, Enter
      <3>2. funcs \in Seq(V!FuncsOf(Len(funcs)))
        BY DEF RunInv, V!Inv, V!TypeOK
      <3>3. Len(g) = Len(funcs) + 1 /\ DOMAIN g = 1..Len(g)
        BY <3>2
      <3> HIDE DEF g
      <3>4. DOMAIN funcs' = 1..Len(g)
        BY <3>1, <3>3 DEF NotedPrev
      <3> QED BY <1>0, <3>3, <3>4
    <2>5. Len(funcs)' = Len(funcs) + 1 /\ Len(funcs) >= 1
      BY <2>4 DEF RunInv, StartsOnce
    <2> QED BY <2>3, <2>5, <1>0 DEF StartsOnce
  <1>3. CASE Execute
    <2>1. V!Next
      BY <1>3, SameInterpreter DEF Execute, V!Next
    <2>2. Depth # 0
      BY <1>3 DEF Execute, Interpreter, At, Running, Const, LoadNil, PushSlot, NewTable,
         Compute, SetSlot, TableSet, TableGet, Pop, Call, Ret0, CPrint
    <2>3. Len(funcs') = Len(funcs)
      <3>1. funcs' = funcs \/ \E f : funcs' = NotedPrev(funcs, f)
        BY <1>3 DEF Execute, Interpreter, Const, LoadNil, PushSlot, NewTable, Compute,
           SetSlot, TableSet, TableGet, Pop, Call, Ret0, CPrint, PushResult, Fails, Return,
           Enter
      <3>2. DOMAIN funcs' = DOMAIN funcs
        BY <3>1 DEF NotedPrev
      <3> QED BY <1>0, <3>1, <3>2 DEF NotedPrev
    <2> QED BY <2>1, <2>2, <2>3 DEF RunInv, StartsOnce
  <1> QED BY <1>1, <1>2, <1>3 DEF ProgramNext, RunText

(* The run of a chunk that the parser made of a text is what NfVm says,    *)
(* which assumes that chunks are well formed.                              *)
THEOREM InterpreterRuns == ProgramSpec /\ []ChunkShort => V!Spec
  BY BeginInv, StepMaps, ChunksGood, PTL DEF ProgramSpec, V!Spec

-----------------------------------------------------------------------------
(* What holds of programs.                                                 *)

(* In a program, what Thread_call pushed for the return is where the       *)
(* return looks for it, however the statements used the slots above.       *)
THEOREM ProgramFramesIntact == ProgramSpec /\ []ChunkShort => []SavedFramesIntact
  <1>1. V!SavedFramesIntact <=> SavedFramesIntact
    BY DEF V!SavedFramesIntact, SavedFramesIntact, V!FrameBase, FrameBase, V!Depth, Depth,
       V!PcV, PcV, V!IndexV, IndexV
  <1> QED BY <1>1, InterpreterRuns, V!FramesIntact, InterpreterAssumed, PTL

(* At each instruction of a program as many slots are in use as its parser *)
(* counted when it emitted it.                                             *)
THEOREM ProgramDepthAgrees == ProgramSpec /\ []ChunkShort => []DepthAgrees
  <1>1. V!DepthAgrees <=> DepthAgrees
    BY DEF V!DepthAgrees, DepthAgrees, V!Running, Running, V!InCodeOf, InCodeOf, V!Current,
       Current, V!Depth, Depth, V!DepOf, DepOf
  <1> QED BY <1>1, InterpreterRuns, V!DepthsAgree, InterpreterAssumed, PTL

(* A statement that waits for a call to return finds its frame as it was.  *)
THEOREM ProgramCallersResume == ProgramSpec /\ []ChunkShort => []CallersResume
  <1>1. V!CallersResume <=> CallersResume
    BY DEF V!CallersResume, CallersResume, V!CallerKind, CallerKind, V!InCodeOf, InCodeOf,
       V!LastOp, LastOp, V!Depth, Depth, V!DepOf, DepOf, V!Before, Before
  <1> QED BY <1>1, InterpreterRuns, V!CallersGoOn, InterpreterAssumed, PTL

(* In a program, the function that runs is never null: prev links reach as *)
(* far as there are calls.                                                 *)
THEOREM ProgramFuncNotNull == ProgramSpec /\ []ChunkShort => []FuncNotNull
  <1>1. V!FuncNotNull <=> FuncNotNull
    BY DEF V!FuncNotNull, FuncNotNull, V!Depth, Depth
  <1> QED BY <1>1, InterpreterRuns, V!FuncSet, InterpreterAssumed, PTL

(* No value that a program can reach is its own chunk: a text cannot call  *)
(* itself with arguments, which the code of a chunk has no place for.      *)
THEOREM ProgramChunks == ProgramSpec /\ []ChunkShort => []ChunksUnreachable
  <1>1. V!ChunksUnreachable <=> ChunksUnreachable
    BY DEF V!ChunksUnreachable, ChunksUnreachable, V!LiveTop, LiveTop, V!AfterCall, AfterCall,
       V!Running, Running, V!LastOp, LastOp, V!DepOf, DepOf, V!Before, Before, V!Current,
       Current, V!Depth, Depth, V!IsChunk, IsChunk, V!Capacity, Capacity
  <1> QED BY <1>1, InterpreterRuns, V!ChunksHidden, InterpreterAssumed, PTL

(* In a program, the function that runs is the one whose code pc is in:    *)
(* what re-entry spoils (see NfVm) takes a C function that runs a chunk    *)
(* again, and print does not.                                              *)
THEOREM ProgramPc == ProgramSpec /\ []ChunkShort => []PcOfCurrentFunction
  <1>1. V!PcOfCurrentFunction <=> PcOfCurrentFunction
    BY DEF V!PcOfCurrentFunction, PcOfCurrentFunction, V!Running, Running, V!Current, Current,
       V!Depth, Depth
  <1>2. V!LeafChunks
    BY DEF V!LeafChunks
  <1>3. V!Spec => []V!PcOfCurrentFunction
    BY <1>2, V!PcOfCurrentLeaf, InterpreterAssumed
  <1> QED BY <1>1, <1>3, InterpreterRuns, PTL

(* A return in a program sets base, pc and top to those of its caller.     *)
THEOREM ProgramReturns == ProgramSpec /\ []ChunkShort => ReturnRestoresFrame
  <1>2. [Len(calls') < V!Depth =>
       /\ base' = V!Current.base /\ pc' = V!Current.pc
       /\ top' = IF V!Current.slot >= 0 THEN V!Current.base + V!Current.slot
                                      ELSE V!Current.top + V!Current.slot]_V!vars
       => [Len(calls') < Depth =>
       /\ base' = Current.base /\ pc' = Current.pc
       /\ top' = IF Current.slot >= 0 THEN Current.base + Current.slot
                                      ELSE Current.top + Current.slot]_vars
    BY DEF V!Depth, Depth, V!Current, Current, vars, V!vars
  <1> QED BY <1>2, InterpreterRuns, V!ReturnsRestore, InterpreterAssumed, PTL DEF
             ReturnRestoresFrame, V!ReturnRestoresFrame

(* No statement of a program writes below its own frame.                   *)
THEOREM ProgramCallers == ProgramSpec /\ []ChunkShort => CallerSlotsUntouched
  <1>2. [\A s \in 0..(base - 1) : stack'[s] = stack[s]]_V!vars
       => [\A s \in 0..(base - 1) : stack'[s] = stack[s]]_vars
    BY DEF vars, V!vars
  <1> QED BY <1>2, InterpreterRuns, V!CallersUntouched, InterpreterAssumed, PTL DEF
             CallerSlotsUntouched, V!CallerSlotsUntouched

(* What runs is what was parsed. *)
ProtoRuns ==
  \A f \in 1..Len(funcs) : funcs[f].kind = "NF" => parse = "parsed" /\ funcs[f].proto = proto

(* The parser has steps only as long as it parses. *)
LEMMA ParserParsing == P!Next => parse = "parsing"
  BY Zenon DEF P!Next, P!At, P!StmtEof, P!StmtLocal, P!StmtSymbol, P!StmtLocalName,
     P!MaybeInit, P!Target, P!AssignEnd, P!ArgsStart, P!ArgEnd, P!StmtEnd, P!BinaryLoop,
     P!Factor, P!Operand, P!Paren, P!Unary, P!ValueLocal, P!ValueConst, P!TooManyConsts,
     P!ValueTable, P!TableValue, P!Subscript, P!KeyEnd, P!SyntaxError, P!OutOfMemory

(* No step of a program makes a function of other code. *)
LEMMA ProtoStep ==
  RunInv /\ ProtoRuns /\ [ProgramNext]_programVars => ProtoRuns'
  <1> SUFFICES ASSUME RunInv, ProtoRuns, [ProgramNext]_programVars PROVE ProtoRuns'
    OBVIOUS
  <1>0. Len(funcs) \in Nat /\ DOMAIN funcs = 1..Len(funcs) /\ funcs \in Seq(V!FuncsOf(Len(funcs)))
    BY DEF RunInv, V!Inv, V!TypeOK
  <1>1. CASE Write \/ UNCHANGED programVars
    BY <1>1 DEF Write, parsing, programVars, running, ProtoRuns
  <1>2. CASE Parse
    BY <1>2, ParserParsing DEF Parse, running, ProtoRuns
  <1>3. CASE Start
    <2> DEFINE g == Append(funcs, NfFunc(proto))
               n == Len(funcs) + 1
    <2>1. funcs' = NotedPrev(g, n) /\ parse' = parse /\ proto' = proto /\ parse = "parsed"
      BY <1>3 DEF Start, RunChunk, Enter, parsing
    <2>2. /\ DOMAIN g = 1..n /\ \A f \in 1..Len(funcs) : g[f] = funcs[f]
          /\ g[n] = NfFunc(proto) /\ Len(g) = n
      BY <1>0
    <2> HIDE DEF g
    <2>3. \A f \in 1..n : funcs'[f].kind = g[f].kind /\ funcs'[f].proto = g[f].proto
      BY <2>1, <2>2 DEF NotedPrev
    <2>4. DOMAIN funcs' = 1..n
      BY <2>1, <2>2 DEF NotedPrev
    <2>5. Len(funcs)' = n
      BY <1>0, <2>2, <2>1, <2>4 DEF NotedPrev
    <2>6. \A f \in 1..n : f = n \/ f \in 1..Len(funcs)
      BY <1>0
    <2> QED BY <2>1, <2>2, <2>3, <2>5, <2>6 DEF ProtoRuns, NfFunc
  <1>4. CASE Execute
    <2>1. funcs' = funcs \/ \E f : funcs' = NotedPrev(funcs, f)
      BY <1>4 DEF Execute, Interpreter, Const, LoadNil, PushSlot, NewTable, Compute, SetSlot,
         TableSet, TableGet, Pop, Call, Ret0, CPrint, PushResult, Fails, Return, Enter
    <2>2. parse' = parse /\ proto' = proto
      BY <1>4 DEF Execute, parsing
    <2>3. DOMAIN funcs' = DOMAIN funcs
      BY <2>1 DEF NotedPrev
    <2>4. Len(funcs)' = Len(funcs)
      BY <1>0, <2>1, <2>3 DEF NotedPrev
    <2>5. \A f \in 1..Len(funcs) :
            funcs'[f].kind = funcs[f].kind /\ funcs'[f].proto = funcs[f].proto
      <3>1. CASE funcs' = funcs
        BY <3>1
      <3>2. CASE \E f : funcs' = NotedPrev(funcs, f)
        <4>1. PICK f : funcs' = [funcs EXCEPT ![f].prev = func]
          BY <3>2 DEF NotedPrev
        <4>2. SUFFICES ASSUME NEW h \in 1..Len(funcs)
                       PROVE  funcs'[h].kind = funcs[h].kind /\ funcs'[h].proto = funcs[h].proto
          OBVIOUS
        <4>3. funcs'[h] = IF h = f THEN [funcs[h] EXCEPT !.prev = func] ELSE funcs[h]
          BY <1>0, <4>1
        <4> QED BY <4>3
      <3> QED BY <2>1, <3>1, <3>2
    <2> QED BY <2>2, <2>4, <2>5 DEF ProtoRuns
  <1> QED BY <1>1, <1>2, <1>3, <1>4 DEF ProgramNext, RunText

(* What runs is what was parsed, in all states of a program. *)
LEMMA ProtoAlways == ProgramSpec /\ []ChunkShort => [](RunInv /\ ProtoRuns)
  <1>1. Begin => ProtoRuns
    <2> SUFFICES ASSUME Begin PROVE ProtoRuns
      OBVIOUS
    <2>1. funcs = <<CFunc("print")>>
      BY DEF Begin, Init
    <2>2. \A f \in 1..Len(funcs) : funcs[f] = CFunc("print")
      BY <2>1
    <2> QED BY <2>2 DEF ProtoRuns, CFunc
  <1> QED BY <1>1, BeginInv, StepMaps, ProtoStep, ChunksGood, PTL DEF ProgramSpec

(* When the chunk of a program is about to return, its temporaries have    *)
(* been dropped: the frame has a slot for each variable the parser knows,  *)
(* and no other.                                                           *)
THEOREM ProgramVariables == ProgramSpec /\ []ChunkShort => []FrameHoldsVariables
  <1>1. ASSUME RunInv, ProtoRuns, PP!IndInv, PP!NoWrap(proto) PROVE FrameHoldsVariables
    <2> SUFFICES ASSUME Running = "NF", Instr.op = "RET_0" PROVE top - base = Len(scope)
      BY DEF FrameHoldsVariables
    <2> DEFINE n == Len(proto.ins)
    <2>0. V!Running = "NF" /\ V!Instr = Instr /\ V!Inv
      BY <1>1 DEF RunInv, Running, V!Running, Current, V!Current, Depth, V!Depth, Instr, V!Instr
    <2>1. /\ V!Current = Current /\ V!Depth = Depth /\ Current.fn \in 1..Len(funcs)
          /\ pc.f = Current.fn /\ pc.i \in 1..Len(funcs[pc.f].proto.ins)
          /\ Instr = funcs[pc.f].proto.ins[pc.i] /\ top - base = funcs[pc.f].proto.dep[pc.i]
          /\ funcs[pc.f].proto \in V!Protos /\ V!WellFormed(funcs[pc.f].proto)
      <3>1. V!Current = Current /\ V!Depth = Depth
        BY DEF V!Current, Current, V!Depth, Depth
      <3> QED BY <2>0, <3>1, V!Fetch, InterpreterAssumed
    <2>2. funcs[pc.f].proto = proto /\ parse = "parsed"
      BY <2>0, <2>1, <1>1 DEF ProtoRuns, Running, Depth
    <2>3. pc.i = n /\ n \in Nat /\ n > 0
      <3>1. proto.ins[pc.i].op = "RET_0" <=> pc.i = n
        <4>1. PICK p \in V!Protos : p = proto /\ V!WellFormed(p) /\ pc.i \in 1..Len(p.ins)
          BY <2>1, <2>2
        <4>2. p.ins[pc.i].op = "RET_0" <=> pc.i = Len(p.ins)
          BY <4>1, V!WellFormedAt, InterpreterAssumed
        <4> QED BY <4>1, <4>2
      <3> QED BY <2>1, <2>2, <3>1 DEF V!Protos
    <2>4. PP!Sound(proto) /\ proto.used = Len(scope)
      BY <1>1, <2>2 DEF PP!IndInv, PP!Core, PP!Code, PP!StatementsBalanced
    <2>5. PP!SoundAt(proto, n)
      BY <2>3, <2>4 DEF PP!Sound
    <2>6. /\ PP!DepNext(proto, n) = proto.used
          /\ PP!DepthAfter(proto.ins[n], proto.dep[n]) = proto.dep[n]
      BY <2>1, <2>2, <2>3 DEF PP!DepNext, PP!DepthAfter, PP!BinaryOps
    <2> QED BY <2>1, <2>2, <2>3, <2>4, <2>5, <2>6 DEF PP!SoundAt
  <1>2. PP!Spec /\ []ChunkShort => []PP!IndInv /\ []PP!NoWrap(proto)
    <2>1. ChunkShort <=> PP!Short(proto)
      BY DEF ChunkShort, PP!Short, Int16Max, PP!Int16Max
    <2> QED BY <2>1, PP!ParserInv, PP!ShortFits, ParserAssumed, PTL
  <1> QED BY <1>1, <1>2, ParserRuns, ProtoAlways, PTL

(* Each instruction that a program executes names slots that hold values   *)
(* of its own frame, or constants of its own chunk: the interpreter, which *)
(* checks neither, reads and writes nothing else.                          *)
THEOREM ProgramOperands == ProgramSpec /\ []ChunkShort => []OperandsInFrame
  <1>1. ASSUME RunInv, PcOfCurrentFunction PROVE OperandsInFrame
    <2> SUFFICES ASSUME status = "running", Running = "NF"
                 PROVE  OperandsLive(Instr, top - base) /\ (Instr.op = "CONST" => ConstOk)
      BY DEF OperandsInFrame
    <2>1. V!Running = "NF" /\ V!Instr = Instr /\ V!Inv /\ V!Current = Current
      BY <1>1 DEF RunInv, Running, V!Running, Current, V!Current, Depth, V!Depth, Instr, V!Instr
    <2>2. /\ pc.f \in 1..Len(funcs) /\ pc.f = Current.fn
          /\ funcs[pc.f].proto \in V!Protos /\ V!WellFormed(funcs[pc.f].proto)
          /\ pc.i \in 1..Len(funcs[pc.f].proto.ins)
          /\ Instr = funcs[pc.f].proto.ins[pc.i] /\ V!OperandsLive(Instr, top - base)
      BY <2>1, V!Fetch, InterpreterAssumed
    <2>3. OperandsLive(Instr, top - base)
      <3>1. \A i : SlotsOf(i) = V!SlotsOf(i)
        BY DEF SlotsOf, V!SlotsOf, BinaryOps, V!BinaryOps
      <3>2. \A i, d : OperandsLive(i, d) <=> V!OperandsLive(i, d)
        BY <3>1 DEF OperandsLive, V!OperandsLive, PSEUDO_INDEX_GLOBAL, V!PSEUDO_INDEX_GLOBAL
      <3> QED BY <2>2, <3>2
    <2>4. ASSUME Instr.op = "CONST" PROVE ConstOk
      <3>1. func = pc.f /\ func # 0 /\ funcs[func].kind = "NF"
        BY <1>1, <2>2 DEF PcOfCurrentFunction, Running
      <3>2. PICK p \in V!Protos : /\ p = funcs[pc.f].proto /\ V!WellFormed(p)
                                  /\ pc.i \in 1..Len(p.ins)
        BY <2>2
      <3>3. p.ins[pc.i].op = "CONST" => p.ins[pc.i].ab \in 0..(Len(p.consts) - 1)
        BY <3>2 DEF V!WellFormed
      <3> QED BY <2>2, <2>4, <3>1, <3>2, <3>3 DEF ConstOk
    <2> QED BY <2>3, <2>4
  <1> QED BY <1>1, ProgramPc, ProtoAlways, PTL
=============================================================================

------------------------------- MODULE NfThread -------------------------------
(***************************************************************************)
(* A thread from nf::open to nf::close, and what happens to errors on the  *)
(* way (nf/src/thread.cpp, public_api.cpp, lib_core.cpp, lib_nf.cpp, and   *)
(* protected_parser in parser.cpp).                                        *)
(*                                                                         *)
(* ctl is the stack of C++ activations, the running one last.  The LongJmp *)
(* record of Thread_run_protected is in its frame, so that a recover point *)
(* is the number of a frame.  What parser and interpreter do in between is *)
(* the subject of NfParser and NfVm: here they allocate, throw, use the    *)
(* stack and call each other.                                              *)
(***************************************************************************)
EXTENDS Integers, Sequences, SequencesExt

CONSTANTS
  Failing,   \* which allocations may fail: a subset of AllocationSites
  Messages,  \* messages of errors, NoMessage not among them
  NoMessage, \* a null pointer, and an empty error_msg
  MaxFrames  \* bound: runs do not nest deeper

AllocationSites == {"twin", "buckets", "stack", "registry", "api", "buff", "func"}

ASSUME ThreadAssumption ==
  /\ Failing \subseteq AllocationSites
  /\ NoMessage \notin Messages
  /\ MaxFrames \in Nat

VARIABLES
  ctl,       \* activations: see Frames
  mem,       \* blocks that were allocated and not freed
  stack,     \* the stack up to top
  base, pc, func,
  registry,  \* global variables, and the fields of nf
  error_jmp, \* a frame's number, Null, or Garbage
  error_msg,
  outcome,   \* "running", "exit", "no_thread" or "wild_jump"
  said,      \* what a program that exits says: [err, msg]
  thrown     \* history: the first error thrown

regs == <<stack, base, pc, func>>
tvars == <<ctl, mem, stack, base, pc, func, registry, error_jmp, error_msg, outcome, said, thrown>>

-----------------------------------------------------------------------------
Null == 0
Garbage == -1  \* what malloc found

Errors == {"OUT_OF_MEMORY", "PARSE", "OP_NUM", "OVER_LIMIT"}

Top == Len(stack)
Frame == Last(ctl)
At(label) == outcome = "running" /\ ctl # <<>> /\ Frame.at = label
Goto(label) == ctl' = [ctl EXCEPT ![Len(ctl)].at = label]
Returned == Front(ctl)

(* A recover point that has no error yet. *)
Recover == [at |-> "protected", prev |-> error_jmp, status |-> "OK", msg |-> NoMessage]
Live(jmp) == jmp \in DOMAIN ctl /\ ctl[jmp].at = "protected"

(* Thread_throw: to the recover point, or out of the program.  A jump to   *)
(* what malloc found, or to a frame that has ended, may end anywhere; it   *)
(* is none if malloc found a null pointer.                                 *)
Exit(err, msg) ==
  /\ outcome' = "exit"
  /\ said' = [err |-> err, msg |-> IF msg # NoMessage THEN msg ELSE error_msg]
  /\ UNCHANGED <<ctl, error_jmp>>

Jump(err, msg) ==
  LET to == SubSeq(ctl, 1, error_jmp) IN
  /\ ctl' = [to EXCEPT ![error_jmp] =
               [@ EXCEPT !.at = "recovered", !.status = err, !.msg = msg]]
  /\ UNCHANGED <<outcome, said, error_jmp>>

JumpAnywhere == outcome' = "wild_jump" /\ UNCHANGED <<ctl, said, error_jmp>>

Rethrow(err, msg) ==
  \/ error_jmp \in {Null, Garbage} /\ Exit(err, msg)
  \/ Live(error_jmp) /\ Jump(err, msg)
  \/ error_jmp # Null /\ ~Live(error_jmp) /\ JumpAnywhere

Throw(err, msg) ==
  /\ Rethrow(err, msg)
  /\ thrown' = [err |-> err, msg |-> msg]
  /\ UNCHANGED <<mem, regs, registry, error_msg>>

OutOfMemory(site) == site \in Failing /\ Throw("OUT_OF_MEMORY", NoMessage)

-----------------------------------------------------------------------------
(* Thread_open. *)

(* nf::open does not look at what Thread_open returns. *)
NoThread ==
  /\ outcome' = "no_thread"
  /\ UNCHANGED <<regs, registry, error_jmp, error_msg, said, thrown>>

Open ==
  /\ At("open")
  /\ \/ "twin" \in Failing /\ NoThread /\ UNCHANGED <<ctl, mem>>
     \/ /\ mem' = mem \cup {"twin"}
        /\ Goto("step_one")
        /\ UNCHANGED <<regs, registry, error_jmp, error_msg, outcome, said, thrown>>

(* Thread_init_step_one: the buckets come before error_jmp = nullptr.      *)
StepOne ==
  /\ At("step_one")
  /\ \/ OutOfMemory("buckets")
     \/ /\ mem' = mem \cup {"buckets"}
        /\ error_jmp' = Null /\ error_msg' = NoMessage
        /\ stack' = <<>> /\ base' = 0 /\ pc' = Null /\ func' = Null
        /\ Goto("run_step_two")
        /\ UNCHANGED <<registry, outcome, said, thrown>>

(* Thread_run_protected sets the recover point and calls.                  *)
RunStepTwo ==
  /\ At("run_step_two")
  /\ ctl' = <<[at |-> "opened", status |-> "OK"], Recover, [at |-> "step_two"]>>
  /\ error_jmp' = 2
  /\ UNCHANGED <<mem, regs, registry, error_msg, outcome, said, thrown>>

StepTwo ==
  /\ At("step_two")
  /\ \/ OutOfMemory("stack")
     \/ /\ "stack" \notin mem
        /\ mem' = mem \cup {"stack"}
        /\ UNCHANGED <<ctl, regs, registry, error_jmp, error_msg, outcome, said, thrown>>
     \/ "stack" \in mem /\ OutOfMemory("registry")
     \/ /\ "stack" \in mem
        /\ mem' = mem \cup {"registry"}
        /\ registry' = [at |-> "table", print |-> "nil", nf |-> "nil", version |-> "nil"]
        /\ ctl' = Returned
        /\ UNCHANGED <<regs, error_jmp, error_msg, outcome, said, thrown>>

(* The end of Thread_run_protected, after f returned or an error was       *)
(* thrown: error_msg is set, and the recover point of the caller is        *)
(* current again.  Its result is in the frame below; or still in error_jmp *)
(* as it was.                                                              *)
KeptJmp(frame) == error_jmp
PrevJmp(frame) == frame.prev

MsgLost(frame) == error_msg
MsgKept(frame) == IF frame.msg # NoMessage THEN frame.msg ELSE error_msg

EndProtected ==
  /\ At("protected") \/ At("recovered")
  /\ error_msg' = MsgKept(Frame)
  /\ error_jmp' = PrevJmp(Frame)
  /\ ctl' = [Returned EXCEPT ![Len(ctl) - 1].status = Frame.status]
  /\ UNCHANGED <<mem, regs, registry, outcome, said, thrown>>

(* What Thread_open does then.  Thread_close frees the stack and the       *)
(* thread, not the buckets.                                                *)
Opened ==
  /\ At("opened")
  /\ IF Frame.status = "OK"
       THEN /\ ctl' = [ctl EXCEPT ![Len(ctl)] = [at |-> "lib", done |-> 0]]
            /\ UNCHANGED <<mem, regs, registry, error_jmp, error_msg, outcome, said, thrown>>
       ELSE /\ mem' = mem \ {"twin", "stack"}
            /\ NoThread /\ UNCHANGED ctl

-----------------------------------------------------------------------------
(* The libraries: calls of the API, without a recover point. *)
LibCalls ==
  << <<"new_str", "print">>, <<"push_func", "func_print">>, <<"set_global", -2>>, <<"set_top", 0>>,
     <<"new_str", "nf">>, <<"new_table", "table_nf">>,
     <<"new_str", "version">>, <<"new_str", "0.0.1">>, <<"set_table", -3, -2>>, <<"pop", 1>>,
     <<"set_global", -2>>, <<"set_top", 0>> >>

(* stack_slot of a negative index. *)
Slot(index) == stack[Top + index + 1]

(* set_table: the value is what was on top, and is popped; the key stays.  *)
(* Or it is what is on top after the pop.  The field of the table nf is    *)
(* one of the variable registry as well.                                   *)
StoredAfterPop(key) == registry' = [registry EXCEPT ![key] = Last(Front(stack))]
Stored(key) == registry' = [registry EXCEPT ![key] = Last(stack)]
TopAfterPop(n) == SubSeq(stack, 1, Top - n)
TopAfterSet(t) == SubSeq(stack, 1, base + t)

ApiCall(call) ==
  CASE call[1] \in {"new_str", "push_func", "new_table"} ->
         stack' = Append(stack, call[2]) /\ UNCHANGED registry
    [] call[1] = "set_global" ->
         Stored(Slot(call[2])) /\ stack' = TopAfterPop(1)
    [] call[1] = "set_table" ->
         Slot(call[2]) = "table_nf" /\ Stored(Slot(call[3])) /\ stack' = TopAfterPop(1)
    [] call[1] = "pop" -> stack' = TopAfterPop(call[2]) /\ UNCHANGED registry
    [] call[1] = "set_top" -> stack' = TopAfterSet(call[2]) /\ UNCHANGED registry

Lib ==
  /\ At("lib") /\ Frame.done < Len(LibCalls)
  /\ \/ LibCalls[Frame.done + 1][1] \notin {"pop", "set_top"} /\ OutOfMemory("api")
     \/ /\ ApiCall(LibCalls[Frame.done + 1])
        /\ ctl' = [ctl EXCEPT ![Len(ctl)].done = @ + 1]
        /\ UNCHANGED <<mem, base, pc, func, error_jmp, error_msg, outcome, said, thrown>>

LibsDone ==
  /\ At("lib") /\ Frame.done = Len(LibCalls)
  /\ ctl' = <<[at |-> "host"]>>
  /\ UNCHANGED <<mem, regs, registry, error_jmp, error_msg, outcome, said, thrown>>

-----------------------------------------------------------------------------
(* nf::run, by the main program or by a C function: Thread_run, and        *)
(* protected_parser with Thread_pcall in one frame.  before is a history.  *)
Pcall == [at |-> "pcall", top |-> Top, base |-> base, pc |-> pc, status |-> "OK"]

Run ==
  /\ At("host") /\ "twin" \in mem
  /\ Len(ctl) + 4 <= MaxFrames
  /\ ctl' = ctl \o <<[at |-> "run", before |-> regs], Pcall, Recover, [at |-> "parser"]>>
  /\ error_jmp' = Len(ctl) + 3
  /\ UNCHANGED <<mem, regs, registry, error_msg, outcome, said, thrown>>

(* f_parser: tokens are put into the buffer; an error may be found, or a   *)
(* limit reached; the function is pushed at the end.                       *)
Parser ==
  /\ At("parser")
  /\ \/ OutOfMemory("buff")
     \/ "buff" \notin mem /\ mem' = mem \cup {"buff"}
        /\ UNCHANGED <<ctl, regs, registry, error_jmp, error_msg, outcome, said, thrown>>
     \/ \E msg \in Messages, err \in {"PARSE", "OVER_LIMIT"} : Throw(err, msg)
     \/ OutOfMemory("func")
     \/ /\ stack' = Append(stack, "chunk")
        /\ ctl' = Returned
        /\ UNCHANGED <<mem, base, pc, func, registry, error_jmp, error_msg, outcome, said, thrown>>

(* The rest of Thread_pcall, and MBuffer_free in protected_parser; or with *)
(* the registers mixed up; or the buffer freed only if all went well.      *)
RestoredSwapped(frame) ==
  /\ stack' = SubSeq(stack, 1, frame.base) /\ base' = frame.top /\ pc' = frame.pc
Restored(frame) ==
  /\ stack' = SubSeq(stack, 1, frame.top) /\ base' = frame.base /\ pc' = frame.pc

BuffFreedIfOk(status) == IF status = "OK" THEN mem \ {"buff"} ELSE mem
BuffFreed(status) == mem \ {"buff"}

EndPcall ==
  /\ At("pcall")
  /\ IF Frame.status = "OK" THEN UNCHANGED <<stack, base, pc>> ELSE Restored(Frame)
  /\ mem' = BuffFreed(Frame.status)
  /\ ctl' = [Returned EXCEPT ![Len(ctl) - 1] =
                [at |-> "loaded", status |-> Frame.status, before |-> @.before]]
  /\ UNCHANGED <<func, registry, error_jmp, error_msg, outcome, said, thrown>>

(* Thread_run goes on: the function is called, or the error thrown again,  *)
(* without a message; or always as PARSE.  before stays as a history.      *)
AsParse(status) == "PARSE"
AsItWas(status) == status

Loaded ==
  /\ At("loaded")
  /\ IF Frame.status = "OK"
       THEN /\ ctl' = [ctl EXCEPT ![Len(ctl)] =
                         [at |-> "chunk", before |-> Frame.before,
                          top |-> Top, base |-> base, pc |-> pc, func |-> func]]
            /\ stack' = stack \o <<"pc", "base", "top">> /\ base' = Top + 3
            /\ pc' = Len(ctl) /\ func' = Len(ctl)
            /\ UNCHANGED <<error_jmp, outcome, said>>
       ELSE Rethrow(AsItWas(Frame.status), NoMessage) /\ UNCHANGED regs
  /\ UNCHANGED <<mem, registry, error_msg, thrown>>

(* Code of a chunk runs, or the host calls the API: temporaries come and   *)
(* go, errors are thrown, C functions are called and return, and the chunk *)
(* ends.                                                                   *)
Work ==
  /\ At("chunk") \/ (At("host") /\ "twin" \in mem)
  /\ \/ Top = base /\ stack' = Append(stack, "value")
     \/ Top > base /\ stack' = Front(stack)
  /\ UNCHANGED <<ctl, mem, base, pc, func, registry, error_jmp, error_msg, outcome, said, thrown>>

Fault ==
  \/ At("chunk") /\ \E msg \in Messages, err \in {"OP_NUM", "OVER_LIMIT"} : Throw(err, msg)
  \/ At("chunk") /\ OutOfMemory("api")
  \/ At("host") /\ "twin" \in mem /\ OutOfMemory("api")

CallHost ==
  /\ At("chunk")
  /\ Len(ctl) < MaxFrames
  /\ ctl' = Append(ctl, [at |-> "host", top |-> Top, base |-> base, pc |-> pc, func |-> func])
  /\ stack' = stack \o <<"pc", "base", "top">> /\ base' = Top + 3
  /\ func' = Len(ctl) + 1
  /\ UNCHANGED <<mem, pc, registry, error_jmp, error_msg, outcome, said, thrown>>

(* __Thread_return: the caller's registers, and the slot of the chunk's    *)
(* function taken off; or left there.                                      *)
TopLeft(frame) == frame.top
TopRestored(frame) == IF frame.at = "chunk" THEN frame.top - 1 ELSE frame.top

Return ==
  /\ At("chunk") \/ (At("host") /\ Len(ctl) > 1)
  /\ stack' = SubSeq(stack, 1, TopRestored(Frame))
  /\ base' = Frame.base /\ pc' = Frame.pc /\ func' = Frame.func
  /\ ctl' = Returned
  /\ UNCHANGED <<mem, registry, error_jmp, error_msg, outcome, said, thrown>>

(* nf::close, by the main program. *)
Close ==
  /\ At("host") /\ Len(ctl) = 1 /\ "twin" \in mem
  /\ mem' = mem \ {"stack", "twin"}
  /\ UNCHANGED <<ctl, regs, registry, error_jmp, error_msg, outcome, said, thrown>>

-----------------------------------------------------------------------------
Init ==
  /\ ctl = <<[at |-> "open"]>>
  /\ mem = {}
  /\ stack = <<>> /\ base = 0 /\ pc = Null /\ func = Null
  /\ registry = [at |-> "nil", print |-> "nil", nf |-> "nil", version |-> "nil"]
  /\ error_jmp = Garbage /\ error_msg = NoMessage
  /\ outcome = "running"
  /\ said = [err |-> "OK", msg |-> NoMessage]
  /\ thrown = [err |-> "OK", msg |-> NoMessage]

(* What runs under a recover point, and its end. *)
UnderRecovery == StepTwo \/ Parser \/ EndProtected

Next ==
  \/ Open \/ StepOne \/ RunStepTwo \/ Opened \/ Lib \/ LibsDone
  \/ UnderRecovery
  \/ Run \/ EndPcall \/ Loaded
  \/ Work \/ Fault \/ CallHost \/ Return \/ Close

Spec == Init /\ [][Next]_tvars
(* The parser and the second step of Thread_open never wait. *)
FairSpec == Spec /\ WF_tvars(UnderRecovery)

-----------------------------------------------------------------------------
(* Properties. *)

Labels == {"open", "step_one", "run_step_two", "opened", "protected", "recovered", "step_two",
           "lib", "host", "run", "pcall", "parser", "loaded", "chunk"}
Values == {"print", "func_print", "nf", "table_nf", "version", "0.0.1", "chunk", "value",
           "pc", "base", "top"}

(* Every variable has its type, and base is not above top.                 *)
TypeOK ==
  /\ \A f \in DOMAIN ctl : ctl[f].at \in Labels
  /\ mem \subseteq AllocationSites
  /\ stack \in Seq(Values) /\ base \in 0..Top
  /\ pc \in 0..MaxFrames /\ func \in 0..MaxFrames
  /\ error_jmp \in {Garbage, Null} \cup DOMAIN ctl
  /\ error_msg \in Messages \cup {NoMessage}
  /\ outcome \in {"running", "exit", "no_thread", "wild_jump"}
  /\ {said, thrown} \subseteq [err : Errors \cup {"OK"}, msg : Messages \cup {NoMessage}]

(* From the end of Thread_init_step_one on, error_jmp is the innermost     *)
(* Thread_run_protected that has not returned, and null if there is none.  *)
Protecting == {f \in DOMAIN ctl : ctl[f].at \in {"protected", "recovered"}}
CurrentRecoverPoint ==
  outcome = "running" /\ ~At("open") /\ ~At("step_one")
    => \/ error_jmp \in Protecting /\ \A f \in Protecting : f <= error_jmp
       \/ error_jmp = Null /\ Protecting = {}

(* Whatever is thrown goes to the "current error recover point" (object.h  *)
(* 167), which is the innermost Thread_run_protected that runs; and it     *)
(* ends the program only if none runs.                                     *)
ThrowFindsRecoverPoint ==
  [][/\ outcome' # "wild_jump"
     /\ outcome' = "exit" => Protecting = {}
     /\ Last(ctl').at = "recovered" =>
          Len(ctl') \in Protecting /\ \A f \in Protecting : f <= Len(ctl')]_tvars

(* An error that was caught keeps its code and its message until it is     *)
(* thrown again, without a message: the program exits with what was thrown *)
(* first.  Neither a function nor the host goes on after an error.         *)
ErrorReported ==
  /\ outcome = "exit" => said = thrown
  /\ At("loaded") /\ Frame.status # "OK" => thrown = [err |-> Frame.status, msg |-> error_msg]
  /\ At("host") \/ At("chunk") => thrown.err = "OK"

(* When an nf::run ends, of the main program or of a C function under      *)
(* other runs, its caller has the stack, base and pc it had before the     *)
(* text was loaded, whatever was called in between.  (func is not          *)
(* compared: functions that are entered again while they run, for which it *)
(* is wrong, are the subject of NfVm.)                                     *)
RunLeavesRegisters ==
  [][At("chunk") /\ Len(ctl') < Len(ctl)
       => /\ stack' = Frame.before[1]
          /\ base' = Frame.before[2] /\ pc' = Frame.before[3]]_tvars

(* The buffer of the parser is freed before a function or the host runs    *)
(* again, whether the text was right or not.                               *)
BufferOnlyWhileParsing == "buff" \in mem => \E f \in DOMAIN ctl : ctl[f].at = "pcall"

(* When nf::open returns, print and nf are global variables, nf.version is *)
(* set, and the stack is empty.                                            *)
LibsInstalled ==
  At("lib") /\ Frame.done = Len(LibCalls) =>
    /\ registry = [at |-> "table", print |-> "func_print", nf |-> "table_nf", version |-> "0.0.1"]
    /\ stack = <<>> /\ base = 0 /\ func = Null

(* A recover point is always taken down again. *)
RecoverPointsEnd == (error_jmp > Null) ~> (error_jmp = Null)
=============================================================================

---------------------------- MODULE NfThreadProofs ----------------------------
(***************************************************************************)
(* Proofs about NfThread.                                                  *)
(*                                                                         *)
(* The properties rest on the shape of the stack of activations: which     *)
(* frame may lie on which, and what each of them saved.  Under everything  *)
(* lie the frames of functions, host and chunk in turn: the spine.  On it  *)
(* there may be one text being loaded, in one of the four states of        *)
(* Shape.  Code does not run while a text is loaded, so there is at most   *)
(* one recover point, and it lies right under what runs.                   *)
(*                                                                         *)
(* Two more invariants rest on it.  Chunks: the frame of a chunk still has *)
(* what Thread_run found, and the stack under it is as it was.  InFlight:  *)
(* an error that was thrown is in the running frame until it is reported.  *)
(***************************************************************************)
EXTENDS NfThread, SequenceTheorems, TLAPS

-----------------------------------------------------------------------------
(* Frames. *)
Indexes == 0..MaxFrames
AllMessages == Messages \cup {NoMessage}
Statuses == Errors \cup {"OK"}
RegisterValues == Seq(Values) \X Nat \X Indexes \X Indexes

HostFrames == [at : {"host"}, top : Nat, base : Nat, pc : Indexes, func : Indexes]
ChunkFrames ==
  [at : {"chunk"}, before : RegisterValues, top : Nat, base : Nat, pc : Indexes, func : Indexes]
SavedFrames == HostFrames \cup ChunkFrames
RunFrames == [at : {"run"}, before : RegisterValues]
LoadedFrames == [at : {"loaded"}, status : Statuses, before : RegisterValues]
PcallFrames == [at : {"pcall"}, top : Nat, base : Nat, pc : Indexes, status : Statuses]
GuardFrames == [at : {"protected", "recovered"}, prev : {Null}, status : Statuses, msg : AllMessages]
PlainFrames == [at : {"open", "step_one", "run_step_two", "step_two", "host", "parser"}]
OpenedFrames == [at : {"opened"}, status : Statuses]
LibFrames == [at : {"lib"}, done : 0..12]

Frames ==
  PlainFrames \cup OpenedFrames \cup LibFrames \cup SavedFrames \cup RunFrames
    \cup LoadedFrames \cup PcallFrames \cup GuardFrames

(* A frame with registers in it: what they are put back to is a state of   *)
(* the stack, and a chunk's own function is on top.                        *)
Restorable(frame) == frame.base <= TopRestored(frame)

(* The first n frames of c are those of functions, and each one's part of  *)
(* the stack ends where the next one's begins, the last one's at b.        *)
Spine(c, n, b) ==
  /\ c[1] = [at |-> "host"]
  /\ \A f \in 2..n : c[f] \in SavedFrames /\ Restorable(c[f]) /\ c[f].top <= b
  /\ \A f, g \in 2..n : f < g => c[f].top <= c[g].base

(* The n-th frame is a Thread_run that loads a text on a spine; the next   *)
(* one its Thread_pcall, with the registers there were.                    *)
Loading(n) ==
  /\ n \in Nat \ {0, 1} /\ Len(ctl) <= MaxFrames
  /\ Spine(ctl, n - 1, base)
  /\ ctl[n] \in RunFrames
  /\ ctl[n + 1] \in PcallFrames
  /\ ctl[n + 1].top = Len(ctl[n].before[1])
  /\ ctl[n + 1].base = ctl[n].before[2]
  /\ ctl[n + 1].pc = ctl[n].before[3]

(* The registers are those of before, with what was pushed.                *)
RegistersAre(before, pushed) ==
  /\ stack = before[1] \o pushed
  /\ base = before[2] /\ pc = before[3] /\ func = before[4]
  /\ before[2] <= Len(before[1])

Guarding(frame, label) == frame \in GuardFrames /\ frame.at = label
NotFailed(frame) == frame.status = "OK" /\ frame.msg = NoMessage /\ error_msg = NoMessage
Failed(frame) ==
  frame.status \in Errors /\ thrown = [err |-> frame.status, msg |-> frame.msg] /\ error_msg = NoMessage

Fresh == stack = <<>> /\ base = 0 /\ pc = Null /\ func = Null
EmptyRegistry == [at |-> "table", print |-> "nil", nf |-> "nil", version |-> "nil"]
NoBuffer == "buff" \notin mem

-----------------------------------------------------------------------------
(* The states of Thread_open. *)
Beginning(label, jmp) ==
  /\ ctl = <<[at |-> label]>>
  /\ Fresh /\ NoBuffer
  /\ error_jmp = jmp /\ error_msg = NoMessage

InStepTwo ==
  /\ Len(ctl) = 3
  /\ ctl[1] = [at |-> "opened", status |-> "OK"]
  /\ Guarding(ctl[2], "protected") /\ NotFailed(ctl[2])
  /\ ctl[3] = [at |-> "step_two"]
  /\ Fresh /\ NoBuffer /\ error_jmp = 2

StepTwoDone ==
  /\ Len(ctl) = 2
  /\ ctl[1] = [at |-> "opened", status |-> "OK"]
  /\ \/ Guarding(ctl[2], "protected") /\ NotFailed(ctl[2]) /\ registry = EmptyRegistry
     \/ Guarding(ctl[2], "recovered") /\ Failed(ctl[2])
  /\ Fresh /\ NoBuffer /\ error_jmp = 2

InOpened ==
  /\ Len(ctl) = 1
  /\ ctl[1] \in OpenedFrames
  /\ ctl[1].status = "OK" => registry = EmptyRegistry /\ error_msg = NoMessage
  /\ Fresh /\ NoBuffer /\ error_jmp = Null

(* What the first k calls of the libraries leave: global variables and the *)
(* field version, and the stack.                                           *)
Globals ==
  [at : {"table"}, print : {"nil", "func_print"}, nf : {"nil", "table_nf"}, version : {"nil", "0.0.1"}]
GlobalsAre(g, print, nf, version) ==
  g \in Globals /\ g.print = print /\ g.nf = nf /\ g.version = version
GlobalsAfter(k, g) ==
  /\ k \in {0, 1, 2} => GlobalsAre(g, "nil", "nil", "nil")
  /\ k \in {3, 4, 5, 6, 7, 8} => GlobalsAre(g, "func_print", "nil", "nil")
  /\ k \in {9, 10} => GlobalsAre(g, "func_print", "nil", "0.0.1")
  /\ k \in {11, 12} => GlobalsAre(g, "func_print", "table_nf", "0.0.1")

(* The first n texts are on the stack. *)
PrintTexts == [i \in 1..2 |-> IF i = 1 THEN "print" ELSE "func_print"]
NfTexts ==
  [i \in 1..4 |-> CASE i = 1 -> "nf" [] i = 2 -> "table_nf" [] i = 3 -> "version" [] OTHER -> "0.0.1"]
Holds(s, n, texts) == s \in Seq(Values) /\ Len(s) = n /\ \A i \in 1..n : s[i] = texts[i]

StackAfter(k, s) ==
  /\ k \in {0, 4, 12} => s = <<>>
  /\ k \in {1, 3} => Holds(s, 1, PrintTexts)
  /\ k = 2 => Holds(s, 2, PrintTexts)
  /\ k \in {5, 11} => Holds(s, 1, NfTexts)
  /\ k \in {6, 10} => Holds(s, 2, NfTexts)
  /\ k \in {7, 9} => Holds(s, 3, NfTexts)
  /\ k = 8 => Holds(s, 4, NfTexts)
AfterCalls(k) == GlobalsAfter(k, registry) /\ StackAfter(k, stack)

InLib ==
  /\ Len(ctl) = 1
  /\ ctl[1] \in LibFrames
  /\ AfterCalls(ctl[1].done)
  /\ base = 0 /\ pc = Null /\ func = Null
  /\ NoBuffer /\ error_jmp = Null /\ error_msg = NoMessage

(* The states of an open thread. *)
InCode ==
  /\ Frame.at \in {"host", "chunk"}
  /\ Len(ctl) = 1 \/ Len(ctl) <= MaxFrames
  /\ Spine(ctl, Len(ctl), base)
  /\ stack \in Seq(Values) /\ base \in 0..Len(stack) /\ pc \in Indexes /\ func \in Indexes
  /\ NoBuffer /\ error_jmp = Null /\ error_msg = NoMessage

InParser ==
  LET n == Len(ctl) - 3 IN
  /\ Loading(n)
  /\ ctl[n + 1].status = "OK"
  /\ Guarding(ctl[n + 2], "protected") /\ NotFailed(ctl[n + 2])
  /\ ctl[n + 3] = [at |-> "parser"]
  /\ RegistersAre(ctl[n].before, <<>>)
  /\ error_jmp = n + 2

ParserDone ==
  LET n == Len(ctl) - 2 IN
  /\ Loading(n)
  /\ ctl[n + 1].status = "OK"
  /\ \/ /\ Guarding(ctl[n + 2], "protected") /\ NotFailed(ctl[n + 2])
        /\ RegistersAre(ctl[n].before, <<"chunk">>)
     \/ /\ Guarding(ctl[n + 2], "recovered") /\ Failed(ctl[n + 2])
        /\ RegistersAre(ctl[n].before, <<>>)
  /\ error_jmp = n + 2

Outcome(status, before) ==
  \/ status = "OK" /\ error_msg = NoMessage /\ RegistersAre(before, <<"chunk">>)
  \/ status # "OK" /\ thrown = [err |-> status, msg |-> error_msg] /\ RegistersAre(before, <<>>)

InPcall ==
  LET n == Len(ctl) - 1 IN
  /\ Loading(n)
  /\ Outcome(ctl[n + 1].status, ctl[n].before)
  /\ error_jmp = Null

InLoaded ==
  LET n == Len(ctl) IN
  /\ n \in Nat \ {0, 1} /\ n <= MaxFrames
  /\ Spine(ctl, n - 1, base)
  /\ ctl[n] \in LoadedFrames
  /\ Outcome(ctl[n].status, ctl[n].before)
  /\ NoBuffer /\ error_jmp = Null

-----------------------------------------------------------------------------
(* The inductive invariant. *)
Shape ==
  \/ Beginning("open", Garbage) \/ Beginning("step_one", Garbage) \/ Beginning("run_step_two", Null)
  \/ InStepTwo \/ StepTwoDone \/ InOpened \/ InLib
  \/ InCode
  \/ InParser \/ ParserDone \/ InPcall \/ InLoaded

TypedRest ==
  /\ mem \subseteq AllocationSites
  /\ error_msg \in AllMessages
  /\ outcome \in {"running", "exit", "no_thread", "wild_jump"}
  /\ said \in [err : Statuses, msg : AllMessages]
  /\ thrown \in [err : Statuses, msg : AllMessages]

IInv ==
  /\ ctl \in Seq(Frames) /\ ctl # <<>>
  /\ Shape
  /\ TypedRest
  /\ outcome = "exit" => said = thrown
  /\ outcome = "wild_jump" => "buckets" \in Failing

-----------------------------------------------------------------------------
(* Sequences. *)

(* The last element taken off.                                             *)
LEMMA FrontProperties ==
  ASSUME NEW S, NEW s \in Seq(S), s # <<>>
  PROVE  /\ Front(s) \in Seq(S)
         /\ Len(Front(s)) = Len(s) - 1
         /\ Len(s) \in Nat \ {0}
         /\ \A i \in 1..(Len(s) - 1) : Front(s)[i] = s[i]
  <1> DEFINE n == Len(s)
  <1>1. n \in Nat \ {0} /\ \A i \in 1..(n - 1) : s[i] \in S
    OBVIOUS
  <1> HIDE DEF n
  <1>2. \A i \in 1..(n - 1) : s[i] \in S
    BY <1>1
  <1>3. /\ SubSeq(s, 1, n - 1) \in Seq(S)
        /\ Len(SubSeq(s, 1, n - 1)) = IF 1 <= n - 1 THEN n - 1 - 1 + 1 ELSE 0
        /\ \A i \in 1..(n - 1 - 1 + 1) : SubSeq(s, 1, n - 1)[i] = s[1 + i - 1]
    BY <1>1, <1>2, SubSeqProperties
  <1>4. Front(s) = SubSeq(s, 1, n - 1)
    BY DEF Front, n
  <1>5. n = Len(s)
    BY DEF n
  <1> QED BY <1>1, <1>3, <1>4, <1>5

(* The first n elements.                                                   *)
LEMMA PrefixProperties ==
  ASSUME NEW S, NEW s \in Seq(S), NEW n \in 0..Len(s)
  PROVE  /\ SubSeq(s, 1, n) \in Seq(S)
         /\ Len(SubSeq(s, 1, n)) = n
         /\ \A i \in 1..n : SubSeq(s, 1, n)[i] = s[i]
  <1>1. \A i \in 1..n : s[i] \in S
    OBVIOUS
  <1>2. /\ SubSeq(s, 1, n) \in Seq(S)
        /\ Len(SubSeq(s, 1, n)) = IF 1 <= n THEN n - 1 + 1 ELSE 0
        /\ \A i \in 1..(n - 1 + 1) : SubSeq(s, 1, n)[i] = s[1 + i - 1]
    BY <1>1, SubSeqProperties
  <1> QED BY <1>2

(* What was put behind s is taken off again by cutting to the length of s. *)
LEMMA CutBack ==
  ASSUME NEW S, NEW s \in Seq(S), NEW t \in Seq(S)
  PROVE  SubSeq(s \o t, 1, Len(s)) = s
  <1> DEFINE u == s \o t
             cut == SubSeq(u, 1, Len(s))
  <1>1. u \in Seq(S) /\ Len(s) \in 0..Len(u) /\ \A i \in 1..Len(s) : u[i] = s[i]
    BY ConcatProperties
  <1> HIDE DEF u
  <1>2. cut \in Seq(S) /\ Len(cut) = Len(s) /\ \A i \in 1..Len(s) : cut[i] = u[i]
    BY <1>1, PrefixProperties
  <1> HIDE DEF cut
  <1>3. cut = s
    BY <1>1, <1>2, SeqEqual
  <1> QED BY <1>3 DEF cut, u

(* Nothing put behind s is s.                                              *)
LEMMA NothingPushed ==
  ASSUME NEW S, NEW s \in Seq(S)
  PROVE  s \o <<>> = s
  BY ConcatEmptySeq

-----------------------------------------------------------------------------
(* The spine. *)

(* Frames on the spine do not change, and the stack above it does not end  *)
(* lower.                                                                  *)
LEMMA SpineKept ==
  ASSUME NEW c, NEW d, NEW n \in Nat \ {0}, NEW a \in Nat, NEW b \in Nat,
         Spine(c, n, a), a <= b, \A f \in 1..n : d[f] = c[f]
  PROVE  Spine(d, n, b)
  <1>1. d[1] = [at |-> "host"]
    BY DEF Spine
  <1>2. ASSUME NEW f \in 2..n
        PROVE  d[f] \in SavedFrames /\ Restorable(d[f]) /\ d[f].top <= b
    <2>1. d[f] = c[f]
      OBVIOUS
    <2>2. c[f] \in SavedFrames /\ Restorable(c[f]) /\ c[f].top <= a
      BY DEF Spine
    <2>3. c[f].top \in Nat
      BY <2>2 DEF SavedFrames, HostFrames, ChunkFrames
    <2> QED BY <2>1, <2>2, <2>3
  <1>3. ASSUME NEW f \in 2..n, NEW g \in 2..n, f < g
        PROVE  d[f].top <= d[g].base
    BY <1>3 DEF Spine
  <1> QED BY <1>1, <1>2, <1>3 DEF Spine

(* The topmost frame of the spine returns.                                 *)
LEMMA SpineShorter ==
  ASSUME NEW c, NEW n \in Nat \ {0, 1}, NEW a, Spine(c, n, a)
  PROVE  /\ Spine(c, n - 1, c[n].base)
         /\ c[n] \in SavedFrames /\ Restorable(c[n]) /\ c[n].top <= a
  <1>1. n \in 2..n
    OBVIOUS
  <1>2. c[n] \in SavedFrames /\ Restorable(c[n]) /\ c[n].top <= a
    BY <1>1 DEF Spine
  <1>3. ASSUME NEW f \in 2..(n - 1)
        PROVE  c[f] \in SavedFrames /\ Restorable(c[f]) /\ c[f].top <= c[n].base
    <2>1. f \in 2..n /\ f < n
      OBVIOUS
    <2> QED BY <1>1, <2>1 DEF Spine
  <1>4. \A f, g \in 2..(n - 1) : f < g => c[f].top <= c[g].base
    BY DEF Spine
  <1>5. c[1] = [at |-> "host"]
    BY DEF Spine
  <1> QED BY <1>2, <1>3, <1>4, <1>5 DEF Spine

(* A function is called: its frame saves the registers there are.          *)
LEMMA SpineLonger ==
  ASSUME NEW c, NEW n \in Nat \ {0}, NEW a \in Nat, NEW b \in Nat, Spine(c, n, a),
         c[n + 1] \in SavedFrames, Restorable(c[n + 1]), c[n + 1].base = a, c[n + 1].top <= b
  PROVE  Spine(c, n + 1, b)
  <1>1. \A f \in 2..n : c[f] \in SavedFrames /\ Restorable(c[f]) /\ c[f].top <= a
    BY DEF Spine
  <1>2. a <= c[n + 1].top /\ c[n + 1].top \in Nat
    <2>1. c[n + 1].top \in Nat /\ c[n + 1].base \in Nat
      BY DEF SavedFrames, HostFrames, ChunkFrames
    <2>2. c[n + 1].base <= c[n + 1].top
      BY <2>1 DEF Restorable, TopRestored
    <2> QED BY <2>1, <2>2
  <1>3. ASSUME NEW f \in 2..(n + 1)
        PROVE  c[f] \in SavedFrames /\ Restorable(c[f]) /\ c[f].top <= b
    <2>1. CASE f = n + 1
      BY <2>1
    <2>2. CASE f # n + 1
      <3>1. f \in 2..n
        BY <2>2
      <3>2. c[f] \in SavedFrames /\ Restorable(c[f]) /\ c[f].top <= a
        BY <1>1, <3>1
      <3>3. c[f].top \in Nat
        BY <3>2 DEF SavedFrames, HostFrames, ChunkFrames
      <3> HIDE DEF Spine
      <3> QED BY <1>2, <3>2, <3>3
    <2> QED BY <2>1, <2>2
  <1>4. ASSUME NEW f \in 2..(n + 1), NEW g \in 2..(n + 1), f < g
        PROVE  c[f].top <= c[g].base
    <2>1. f \in 2..n
      BY <1>4
    <2>2. CASE g = n + 1
      BY <1>1, <2>1, <2>2
    <2>3. CASE g # n + 1
      <3>1. g \in 2..n
        BY <2>3
      <3> QED BY <1>4, <2>1, <3>1 DEF Spine
    <2> QED BY <2>2, <2>3
  <1>5. c[1] = [at |-> "host"]
    BY DEF Spine
  <1> QED BY <1>3, <1>4, <1>5 DEF Spine

(* Frames on the spine do not change.                                      *)
LEMMA SpineSame ==
  ASSUME NEW c, NEW d, NEW n \in Nat \ {0}, NEW a,
         Spine(c, n, a), \A f \in 1..n : d[f] = c[f]
  PROVE  Spine(d, n, a)
  <1>1. d[1] = [at |-> "host"]
    BY DEF Spine
  <1>2. \A f \in 2..n : d[f] = c[f]
    OBVIOUS
  <1>3. \A f \in 2..n : d[f] \in SavedFrames /\ Restorable(d[f]) /\ d[f].top <= a
    BY <1>2 DEF Spine
  <1>4. \A f, g \in 2..n : f < g => d[f].top <= d[g].base
    BY <1>2 DEF Spine
  <1> QED BY <1>1, <1>3, <1>4 DEF Spine

-----------------------------------------------------------------------------
(* What runs tells the shape. *)

(* The numbers of the frames that Loading speaks of.                       *)
LEMMA CtlLength ==
  ASSUME IInv
  PROVE  /\ Len(ctl) \in Nat \ {0} /\ ctl[Len(ctl)] \in Frames
         /\ DOMAIN ctl = 1..Len(ctl)
  <1>1. ctl \in Seq(Frames) /\ ctl # <<>>
    BY DEF IInv
  <1>2. Len(ctl) \in Nat \ {0} /\ DOMAIN ctl = 1..Len(ctl)
    BY <1>1, EmptySeq, LenProperties
  <1>3. Len(ctl) \in 1..Len(ctl)
    BY <1>2
  <1> QED BY <1>1, <1>2, <1>3, ElementOfSeq

(* Every shape has its labels on top. *)
LEMMA LabelOfShapes ==
  ASSUME IInv
  PROVE  /\ \A label, jmp : Beginning(label, jmp) => Frame.at = label
         /\ InStepTwo => Frame.at = "step_two"
         /\ StepTwoDone => Frame.at \in {"protected", "recovered"} /\ Len(ctl) = 2
         /\ InOpened => Frame.at = "opened"
         /\ InLib => Frame.at = "lib"
         /\ InCode => Frame.at \in {"host", "chunk"}
         /\ InParser => Frame.at = "parser"
         /\ ParserDone => Frame.at \in {"protected", "recovered"} /\ Len(ctl) >= 4
         /\ InPcall => Frame.at = "pcall"
         /\ InLoaded => Frame.at = "loaded"
  <1>0. PICK n \in Nat \ {0} : n = Len(ctl)
    BY CtlLength
  <1>1. ASSUME NEW label, NEW jmp, Beginning(label, jmp)
        PROVE  Frame.at = label
    BY <1>1 DEF Beginning, Frame, Last
  <1>2. InStepTwo => Frame.at = "step_two"
    <2>1. InStepTwo => ctl[3] = [at |-> "step_two"] /\ Len(ctl) = 3
      BY DEF InStepTwo
    <2>2. [at |-> "step_two"].at = "step_two"
      OBVIOUS
    <2> QED BY <2>1, <2>2 DEF Frame, Last
  <1>3. StepTwoDone => Frame.at \in {"protected", "recovered"} /\ Len(ctl) = 2
    BY DEF StepTwoDone, Guarding, Frame, Last
  <1>4. InOpened => Frame.at = "opened"
    BY DEF InOpened, OpenedFrames, Frame, Last
  <1>5. InLib => Frame.at = "lib"
    BY DEF InLib, LibFrames, Frame, Last
  <1>6. InCode => Frame.at \in {"host", "chunk"}
    BY DEF InCode
  <1>7. InParser => Frame.at = "parser"
    <2>1. n - 3 + 3 = n
      BY <1>0
    <2> QED BY <1>0, <2>1 DEF InParser, Frame, Last
  <1>8. ParserDone => Frame.at \in {"protected", "recovered"} /\ Len(ctl) >= 4
    <2>1. n - 2 + 2 = n
      BY <1>0
    <2>2. ParserDone => n - 2 \in Nat \ {0, 1}
      BY <1>0 DEF ParserDone, Loading
    <2>3. ParserDone => n >= 4
      BY <2>2, <1>0
    <2>4. ParserDone => ctl[n].at \in {"protected", "recovered"}
      BY <1>0, <2>1 DEF ParserDone, Guarding
    <2> QED BY <1>0, <2>3, <2>4 DEF Frame, Last
  <1>9. InPcall => Frame.at = "pcall"
    <2>1. n - 1 + 1 = n
      BY <1>0
    <2>2. InPcall => ctl[n - 1 + 1] \in PcallFrames
      BY <1>0 DEF InPcall, Loading
    <2> QED BY <1>0, <2>1, <2>2 DEF PcallFrames, Frame, Last
  <1>10. InLoaded => Frame.at = "loaded"
    BY DEF InLoaded, LoadedFrames, Frame, Last
  <1> QED BY <1>1, <1>2, <1>3, <1>4, <1>5, <1>6, <1>7, <1>8, <1>9, <1>10

(* And a label its shape. *)
LEMMA ShapeOfLabel ==
  ASSUME IInv
  PROVE  /\ Frame.at = "open" => Beginning("open", Garbage)
         /\ Frame.at = "step_one" => Beginning("step_one", Garbage)
         /\ Frame.at = "run_step_two" => Beginning("run_step_two", Null)
         /\ Frame.at = "step_two" => InStepTwo
         /\ Frame.at = "opened" => InOpened
         /\ Frame.at = "lib" => InLib
         /\ Frame.at \in {"host", "chunk"} => InCode
         /\ Frame.at = "parser" => InParser
         /\ Frame.at \in {"protected", "recovered"} => StepTwoDone \/ ParserDone
         /\ Frame.at = "pcall" => InPcall
         /\ Frame.at = "loaded" => InLoaded
  <1> DEFINE label == Frame.at
  <1>1. Shape
    BY DEF IInv
  <1>2. /\ Beginning("open", Garbage) => label = "open"
        /\ Beginning("step_one", Garbage) => label = "step_one"
        /\ Beginning("run_step_two", Null) => label = "run_step_two"
        /\ InStepTwo => label = "step_two"
        /\ StepTwoDone => label \in {"protected", "recovered"}
        /\ InOpened => label = "opened"
        /\ InLib => label = "lib"
        /\ InCode => label \in {"host", "chunk"}
        /\ InParser => label = "parser"
        /\ ParserDone => label \in {"protected", "recovered"}
        /\ InPcall => label = "pcall"
        /\ InLoaded => label = "loaded"
    BY LabelOfShapes
  <1> HIDE DEF label
  <1>3. /\ label = "open" => Beginning("open", Garbage)
        /\ label = "step_one" => Beginning("step_one", Garbage)
        /\ label = "run_step_two" => Beginning("run_step_two", Null)
        /\ label = "step_two" => InStepTwo
        /\ label = "opened" => InOpened
        /\ label = "lib" => InLib
        /\ label \in {"host", "chunk"} => InCode
        /\ label = "parser" => InParser
        /\ label \in {"protected", "recovered"} => StepTwoDone \/ ParserDone
        /\ label = "pcall" => InPcall
        /\ label = "loaded" => InLoaded
    BY <1>1, <1>2 DEF Shape
  <1> QED BY <1>3 DEF label

-----------------------------------------------------------------------------
(* The steps.  Each lemma is about one action. *)

(* The running frame replaced.                                             *)
LEMMA ReplaceLast ==
  ASSUME NEW S, NEW s \in Seq(S), NEW n \in Nat \ {0}, Len(s) = n, NEW r \in S
  PROVE  /\ [s EXCEPT ![n] = r] \in Seq(S) /\ [s EXCEPT ![n] = r] # <<>>
         /\ Len([s EXCEPT ![n] = r]) = n
         /\ [s EXCEPT ![n] = r][n] = r
         /\ \A i \in 1..(n - 1) : [s EXCEPT ![n] = r][i] = s[i]
  <1> DEFINE d == [s EXCEPT ![n] = r]
  <1>1. n \in 1..Len(s)
    OBVIOUS
  <1>2. d \in Seq(S) /\ Len(d) = n /\ \A j \in 1..n : d[j] = IF j = n THEN r ELSE s[j]
    BY <1>1, ExceptSeq
  <1> HIDE DEF d
  <1>3. d # <<>>
    BY <1>2
  <1>4. ASSUME NEW i \in 1..(n - 1)
        PROVE  d[i] = s[i]
    <2>1. i \in 1..n /\ i # n
      OBVIOUS
    <2> QED BY <1>2, <2>1
  <1>5. d[n] = r
    BY <1>2
  <1>6. d \in Seq(S) /\ d # <<>> /\ Len(d) = n /\ d[n] = r /\ \A i \in 1..(n - 1) : d[i] = s[i]
    BY <1>2, <1>3, <1>4, <1>5
  <1> QED BY <1>6 DEF d

(* A sequence of one. *)
LEMMA Single ==
  ASSUME NEW S, NEW r \in S
  PROVE  <<r>> \in Seq(S) /\ <<r>> # <<>> /\ Len(<<r>>) = 1 /\ <<r>>[1] = r
  OBVIOUS

(* The only frame goes on. *)
LEMMA GotoSingle ==
  ASSUME NEW a, NEW b, ctl = <<[at |-> a]>>, Goto(b)
  PROVE  ctl' = <<[at |-> b]>>
  <1> DEFINE S == [at : {a, b}]
             r == [at |-> b]
             t == <<r>>
  <1>1. ctl \in Seq(S) /\ ctl # <<>> /\ Len(ctl) = 1 /\ r \in S /\ ctl[1] = [at |-> a]
    <2>1. [at |-> a] \in S
      OBVIOUS
    <2>2. r \in S
      OBVIOUS
    <2> HIDE DEF S, r
    <2> QED BY <2>1, <2>2, Single
  <1>2. ctl' = [ctl EXCEPT ![1] = [ctl[1] EXCEPT !.at = b]]
    BY <1>1 DEF Goto
  <1>3. [ctl[1] EXCEPT !.at = b] = r
    BY <1>1
  <1> HIDE DEF S
  <1>4. ctl' = [ctl EXCEPT ![1] = r]
    BY <1>1, <1>2, <1>3
  <1> HIDE DEF r
  <1>5. ctl' \in Seq(S) /\ Len(ctl') = 1 /\ ctl'[1] = r
    BY <1>1, <1>4, ReplaceLast
  <1>6. t \in Seq(S) /\ Len(t) = 1 /\ t[1] = r
    BY <1>1, Single
  <1> HIDE DEF t
  <1>7. ctl' = t
    BY <1>5, <1>6, SeqEqual
  <1> QED BY <1>7 DEF t, r

(* The only frame has no more than a label. *)
LEMMA SinglePlain ==
  ASSUME NEW a \in {"open", "step_one", "run_step_two"}, NEW c, c = <<[at |-> a]>>
  PROVE  c \in Seq(Frames) /\ c # <<>>
  <1>1. [at |-> a] \in PlainFrames
    BY DEF PlainFrames
  <1>2. [at |-> a] \in Frames
    BY <1>1 DEF Frames
  <1> QED BY <1>2, Single

(* Numbers that stand for no frame. *)
USE DEF Null, Garbage

(* A thread that is not there yet.                                         *)
LEMMA InitIInv == Init => IInv
  <1> SUFFICES ASSUME Init PROVE IInv
    OBVIOUS
  <1>1. ctl = <<[at |-> "open"]>> /\ ctl \in Seq(Frames) /\ ctl # <<>>
    <2>1. [at |-> "open"] \in Frames
      BY DEF Frames, PlainFrames
    <2> QED BY <2>1 DEF Init
  <1>2. Shape
    BY DEF Init, Shape, Beginning, Fresh, NoBuffer
  <1>3. TypedRest
    BY DEF Init, TypedRest, Statuses, AllMessages
  <1> QED BY <1>1, <1>2, <1>3 DEF IInv, Init

(* malloc of the thread, or none.                                          *)
LEMMA OpenKeeps == IInv /\ Open => IInv'
  <1> SUFFICES ASSUME IInv, Open PROVE IInv'
    OBVIOUS
  <1>1. outcome = "running" /\ Beginning("open", Garbage)
    BY ShapeOfLabel DEF Open, At
  <1>2. CASE NoThread /\ UNCHANGED <<ctl, mem>>
    <2>1. Beginning("open", Garbage)'
      BY <1>1, <1>2 DEF NoThread, Beginning, Fresh, NoBuffer, regs
    <2>2. TypedRest'
      BY <1>2 DEF IInv, TypedRest, NoThread
    <2> QED BY <2>1, <2>2, <1>2 DEF IInv, Shape, NoThread
  <1>3. CASE ~(NoThread /\ UNCHANGED <<ctl, mem>>)
    <2>1. /\ mem' = mem \cup {"twin"}
          /\ Goto("step_one")
          /\ UNCHANGED <<regs, registry, error_jmp, error_msg, outcome, said, thrown>>
      BY <1>3 DEF Open
    <2>2. ctl' = <<[at |-> "step_one"]>>
      <3>1. ctl = <<[at |-> "open"]>> /\ Len(ctl) = 1
        BY <1>1 DEF Beginning
      <3> QED BY <2>1, <3>1, GotoSingle
    <2>3. ctl' \in Seq(Frames) /\ ctl' # <<>>
      BY <2>2, SinglePlain
    <2>4. Beginning("step_one", Garbage)'
      BY <1>1, <2>1, <2>2 DEF Beginning, Fresh, NoBuffer, regs
    <2>5. TypedRest'
      BY <2>1 DEF IInv, TypedRest, AllocationSites
    <2> QED BY <1>1, <2>1, <2>3, <2>4, <2>5 DEF IInv, Shape
  <1> QED BY <1>2, <1>3

(* Throw keeps what is not about control. *)
LEMMA ThrowTyped ==
  ASSUME IInv, NEW err \in Errors, NEW msg \in AllMessages, outcome = "running", Throw(err, msg)
  PROVE  TypedRest'
  <1>1. /\ outcome' \in {"running", "exit", "no_thread", "wild_jump"}
        /\ said' \in [err : Statuses, msg : AllMessages]
    <2>1. CASE Exit(err, msg)
      BY <2>1 DEF Exit, IInv, TypedRest, Statuses
    <2>2. CASE Jump(err, msg)
      BY <2>2 DEF Jump, IInv, TypedRest
    <2>3. CASE JumpAnywhere
      BY <2>3 DEF JumpAnywhere, IInv, TypedRest
    <2> QED BY <2>1, <2>2, <2>3 DEF Throw, Rethrow
  <1>2. thrown' \in [err : Statuses, msg : AllMessages]
    BY DEF Throw, Statuses
  <1>3. UNCHANGED <<mem, error_msg>>
    BY DEF Throw
  <1> QED BY <1>1, <1>2, <1>3 DEF IInv, TypedRest

(* Without a recover point the program exits.                              *)
LEMMA ThrowExits ==
  ASSUME IInv, NEW err, NEW msg, error_jmp = Null, Rethrow(err, msg)
  PROVE  Exit(err, msg)
  <1>1. ~Live(error_jmp)
    BY CtlLength DEF Live
  <1> QED BY <1>1 DEF Rethrow

(* Thread_init_step_one: a failing malloc jumps anywhere, or exits.        *)
LEMMA StepOneKeeps == IInv /\ StepOne => IInv'
  <1> SUFFICES ASSUME IInv, StepOne PROVE IInv'
    OBVIOUS
  <1>1. outcome = "running" /\ Beginning("step_one", Garbage)
    BY ShapeOfLabel DEF StepOne, At
  <1>2. CASE OutOfMemory("buckets")
    <2>1. "buckets" \in Failing /\ Throw("OUT_OF_MEMORY", NoMessage)
      BY <1>2 DEF OutOfMemory
    <2>2. TypedRest'
      BY <1>1, <2>1, ThrowTyped DEF Errors, AllMessages
    <2>3. UNCHANGED <<ctl, mem, regs, error_jmp, error_msg>> /\ (outcome' = "exit" => said' = thrown')
      <3>1. Rethrow("OUT_OF_MEMORY", NoMessage) /\ UNCHANGED <<mem, regs, error_msg>>
            /\ thrown' = [err |-> "OUT_OF_MEMORY", msg |-> NoMessage]
        BY <2>1 DEF Throw
      <3>2. ~Live(error_jmp)
        <4>1. error_jmp = -1 /\ DOMAIN ctl = 1..Len(ctl)
          BY <1>1, CtlLength DEF Beginning
        <4> QED BY <4>1 DEF Live
      <3>3. Exit("OUT_OF_MEMORY", NoMessage) \/ JumpAnywhere
        BY <3>1, <3>2 DEF Rethrow
      <3>4. error_msg = NoMessage
        BY <1>1 DEF Beginning
      <3> QED BY <1>1, <3>1, <3>3, <3>4 DEF Exit, JumpAnywhere
    <2>4. Beginning("step_one", Garbage)'
      BY <1>1, <2>3 DEF Beginning, Fresh, NoBuffer, regs
    <2> QED BY <2>1, <2>2, <2>3, <2>4 DEF IInv, Shape
  <1>3. CASE ~OutOfMemory("buckets")
    <2>1. /\ mem' = mem \cup {"buckets"}
          /\ error_jmp' = Null /\ error_msg' = NoMessage
          /\ stack' = <<>> /\ base' = 0 /\ pc' = Null /\ func' = Null
          /\ Goto("run_step_two")
          /\ UNCHANGED <<registry, outcome, said, thrown>>
      BY <1>3 DEF StepOne
    <2>2. ctl' = <<[at |-> "run_step_two"]>>
      <3>1. ctl = <<[at |-> "step_one"]>> /\ Len(ctl) = 1
        BY <1>1 DEF Beginning
      <3> QED BY <2>1, <3>1, GotoSingle
    <2>3. ctl' \in Seq(Frames) /\ ctl' # <<>>
      BY <2>2, SinglePlain
    <2>4. Beginning("run_step_two", Null)'
      BY <1>1, <2>1, <2>2 DEF Beginning, Fresh, NoBuffer, regs
    <2>5. TypedRest'
      BY <2>1 DEF IInv, TypedRest, AllocationSites, AllMessages
    <2> QED BY <1>1, <2>1, <2>3, <2>4, <2>5 DEF IInv, Shape
  <1> QED BY <1>2, <1>3

(* The recover point is set for the second step.                           *)
LEMMA RunStepTwoKeeps == IInv /\ RunStepTwo => IInv'
  <1> SUFFICES ASSUME IInv, RunStepTwo PROVE IInv'
    OBVIOUS
  <1> DEFINE opened == [at |-> "opened", status |-> "OK"]
             guard == [at |-> "protected", prev |-> Null, status |-> "OK", msg |-> NoMessage]
             two == [at |-> "step_two"]
  <1>1. outcome = "running" /\ Beginning("run_step_two", Null)
    BY ShapeOfLabel DEF RunStepTwo, At
  <1>2. ctl' = <<opened, guard, two>> /\ error_jmp' = 2
    BY <1>1 DEF RunStepTwo, Recover, Beginning
  <1>3. opened \in Frames /\ guard \in GuardFrames /\ guard \in Frames /\ two \in Frames
    BY DEF Frames, PlainFrames, OpenedFrames, GuardFrames, Statuses, AllMessages
  <1>4. ctl' \in Seq(Frames) /\ ctl' # <<>>
    <2> HIDE DEF opened, guard, two
    <2> QED BY <1>2, <1>3
  <1>5. /\ Len(ctl') = 3 /\ ctl'[1] = opened /\ ctl'[2] = guard /\ ctl'[3] = two
    BY <1>2
  <1>6. InStepTwo'
    <2>1. guard.at = "protected" /\ guard.status = "OK" /\ guard.msg = NoMessage
      OBVIOUS
    <2>2. Fresh' /\ NoBuffer' /\ error_msg' = NoMessage
      BY <1>1 DEF RunStepTwo, Beginning, Fresh, NoBuffer, regs
    <2>3. Guarding(guard, "protected")
      BY <1>3, <2>1 DEF Guarding
    <2>4. NotFailed(guard)'
      BY <2>1, <2>2 DEF NotFailed
    <2>5. Guarding(ctl'[2], "protected") /\ NotFailed(ctl[2])'
      BY <1>5, <2>3, <2>4 DEF NotFailed
    <2> QED BY <1>2, <1>5, <2>2, <2>5 DEF InStepTwo, Guarding
  <1>7. TypedRest'
    BY DEF RunStepTwo, IInv, TypedRest
  <1> QED BY <1>1, <1>4, <1>6, <1>7 DEF IInv, Shape, RunStepTwo

(* A frame is taken off, and the next one replaced.                        *)
LEMMA ReplaceUnder ==
  ASSUME NEW S, NEW s \in Seq(S), NEW k \in Nat \ {0}, Len(s) = k + 1, NEW r \in S
  PROVE  /\ [Front(s) EXCEPT ![k] = r] \in Seq(S) /\ [Front(s) EXCEPT ![k] = r] # <<>>
         /\ Len([Front(s) EXCEPT ![k] = r]) = k
         /\ [Front(s) EXCEPT ![k] = r][k] = r
         /\ \A i \in 1..(k - 1) : [Front(s) EXCEPT ![k] = r][i] = s[i]
  <1> DEFINE t == Front(s)
             d == [t EXCEPT ![k] = r]
  <1>1. s # <<>>
    BY EmptySeq
  <1>2. t \in Seq(S) /\ Len(t) = k + 1 - 1 /\ \A i \in 1..(k + 1 - 1) : t[i] = s[i]
    BY <1>1, FrontProperties
  <1>3. k + 1 - 1 = k
    OBVIOUS
  <1> HIDE DEF t
  <1>4. Len(t) = k /\ \A i \in 1..k : t[i] = s[i]
    BY <1>2, <1>3
  <1>5. /\ d \in Seq(S) /\ d # <<>> /\ Len(d) = k /\ d[k] = r
        /\ \A i \in 1..(k - 1) : d[i] = t[i]
    BY <1>2, <1>4, ReplaceLast
  <1> HIDE DEF d
  <1>6. ASSUME NEW i \in 1..(k - 1)
        PROVE  d[i] = s[i]
    <2>1. i \in 1..k
      OBVIOUS
    <2> QED BY <1>4, <1>5, <2>1
  <1> QED BY <1>5, <1>6 DEF d, t

(* An error finds the recover point under what runs.                       *)
LEMMA JumpDown ==
  ASSUME IInv, NEW err \in Errors, NEW msg \in AllMessages, NEW j \in Nat \ {0},
         error_jmp = j, Len(ctl) = j + 1, Guarding(ctl[j], "protected"), Rethrow(err, msg)
  PROVE  /\ ctl' \in Seq(Frames) /\ ctl' # <<>> /\ Len(ctl') = j
         /\ \A i \in 1..(j - 1) : ctl'[i] = ctl[i]
         /\ Guarding(ctl'[j], "recovered") /\ ctl'[j].status = err /\ ctl'[j].msg = msg
         /\ UNCHANGED <<outcome, said, error_jmp>>
  <1> DEFINE f == ctl[j]
             r == [f EXCEPT !.at = "recovered", !.status = err, !.msg = msg]
  <1>1. Live(error_jmp)
    BY CtlLength DEF Live, Guarding
  <1>2. Jump(err, msg)
    BY <1>1 DEF Rethrow
  <1>3. UNCHANGED <<outcome, said, error_jmp>>
    BY <1>2 DEF Jump
  <1>4. f \in [at : {"protected", "recovered"}, prev : {Null}, status : Statuses, msg : AllMessages]
    BY DEF Guarding, GuardFrames
  <1>5. Guarding(r, "recovered") /\ r.status = err /\ r.msg = msg
    <2> HIDE DEF f
    <2>1. err \in Statuses
      BY DEF Statuses
    <2> QED BY <1>4, <2>1 DEF Guarding, GuardFrames
  <1>6. r \in Frames
    BY <1>5 DEF Guarding, Frames
  <1>7. ctl \in Seq(Frames) /\ ctl # <<>>
    BY DEF IInv
  <1>8. Front(ctl) = SubSeq(ctl, 1, j) /\ Front(ctl)[j] = f
    <2>1. j + 1 - 1 = j /\ j \in 1..j
      OBVIOUS
    <2>2. Front(ctl) = SubSeq(ctl, 1, j)
      BY <2>1 DEF Front
    <2>3. \A i \in 1..(j + 1 - 1) : Front(ctl)[i] = ctl[i]
      BY <1>7, FrontProperties
    <2> QED BY <2>1, <2>2, <2>3
  <1>9. ctl' = [Front(ctl) EXCEPT ![j] = [Front(ctl)[j] EXCEPT !.at = "recovered", !.status = err, !.msg = msg]]
    BY <1>2, <1>8 DEF Jump
  <1> HIDE DEF f
  <1>10. ctl' = [Front(ctl) EXCEPT ![j] = r]
    BY <1>8, <1>9
  <1> HIDE DEF r
  <1>11. /\ ctl' \in Seq(Frames) /\ ctl' # <<>> /\ Len(ctl') = j /\ ctl'[j] = r
         /\ \A i \in 1..(j - 1) : ctl'[i] = ctl[i]
    <2> DEFINE d == [Front(ctl) EXCEPT ![j] = r]
    <2>1. /\ d \in Seq(Frames) /\ d # <<>> /\ Len(d) = j /\ d[j] = r
          /\ \A i \in 1..(j - 1) : d[i] = ctl[i]
      BY <1>6, <1>7, ReplaceUnder
    <2>2. ctl' = d
      BY <1>10
    <2> HIDE DEF d
    <2> QED BY <2>1, <2>2
  <1> QED BY <1>3, <1>5, <1>11

(* The second step: a failing malloc finds the recover point.              *)
LEMMA StepTwoKeeps == IInv /\ StepTwo => IInv'
  <1> SUFFICES ASSUME IInv, StepTwo PROVE IInv'
    OBVIOUS
  <1>1. outcome = "running" /\ InStepTwo
    BY ShapeOfLabel DEF StepTwo, At
  <1>2. Len(ctl) = 3 /\ error_jmp = 2 /\ Guarding(ctl[2], "protected") /\ NotFailed(ctl[2])
        /\ ctl[1] = [at |-> "opened", status |-> "OK"]
        /\ Fresh /\ NoBuffer
    BY <1>1 DEF InStepTwo
  <1>3. ASSUME NEW site, OutOfMemory(site)
        PROVE  IInv'
    <2>1. Throw("OUT_OF_MEMORY", NoMessage)
      BY <1>3 DEF OutOfMemory
    <2>2. "OUT_OF_MEMORY" \in Errors /\ NoMessage \in AllMessages
      BY DEF Errors, AllMessages
    <2>3. TypedRest'
      BY <1>1, <2>1, <2>2, ThrowTyped
    <2>4. /\ ctl' \in Seq(Frames) /\ ctl' # <<>> /\ Len(ctl') = 2
          /\ ctl'[1] = ctl[1]
          /\ Guarding(ctl'[2], "recovered") /\ ctl'[2].status = "OUT_OF_MEMORY" /\ ctl'[2].msg = NoMessage
          /\ UNCHANGED <<outcome, said, error_jmp>>
      <3>1. Rethrow("OUT_OF_MEMORY", NoMessage)
        BY <2>1 DEF Throw
      <3>2. 2 \in Nat \ {0} /\ Len(ctl) = 2 + 1 /\ 1 \in 1..(2 - 1)
        BY <1>2
      <3>3. /\ ctl' \in Seq(Frames) /\ ctl' # <<>> /\ Len(ctl') = 2
            /\ \A i \in 1..(2 - 1) : ctl'[i] = ctl[i]
            /\ Guarding(ctl'[2], "recovered") /\ ctl'[2].status = "OUT_OF_MEMORY" /\ ctl'[2].msg = NoMessage
            /\ UNCHANGED <<outcome, said, error_jmp>>
        BY <1>2, <2>2, <3>1, <3>2, JumpDown
      <3> QED BY <3>2, <3>3
    <2>5. Failed(ctl[2])'
      BY <1>2, <2>1, <2>2, <2>4 DEF Failed, Throw, NotFailed
    <2>6. Fresh' /\ NoBuffer'
      BY <1>2, <2>1 DEF Throw, Fresh, NoBuffer, regs
    <2>7. StepTwoDone'
      BY <1>2, <2>4, <2>5, <2>6 DEF StepTwoDone, Guarding
    <2> QED BY <1>1, <2>3, <2>4, <2>7 DEF IInv, Shape
  <1>4. ASSUME mem' = mem \cup {"stack"},
               UNCHANGED <<ctl, regs, registry, error_jmp, error_msg, outcome, said, thrown>>
        PROVE  IInv'
    <2>1. InStepTwo'
      BY <1>1, <1>4 DEF InStepTwo, Guarding, NotFailed, Fresh, NoBuffer, regs
    <2>2. TypedRest'
      BY <1>4 DEF IInv, TypedRest, AllocationSites
    <2> QED BY <1>1, <1>4, <2>1, <2>2 DEF IInv, Shape
  <1>5. ASSUME mem' = mem \cup {"registry"}, registry' = EmptyRegistry, ctl' = Returned,
               UNCHANGED <<regs, error_jmp, error_msg, outcome, said, thrown>>
        PROVE  IInv'
    <2>1. ctl \in Seq(Frames) /\ ctl # <<>>
      BY DEF IInv
    <2>2. ctl' \in Seq(Frames) /\ Len(ctl') = 2 /\ ctl'[1] = ctl[1] /\ ctl'[2] = ctl[2]
      <3>1. ctl' = Front(ctl)
        BY <1>5 DEF Returned
      <3>2. 1 \in 1..(3 - 1) /\ 2 \in 1..(3 - 1) /\ 3 - 1 = 2
        OBVIOUS
      <3> QED BY <1>2, <2>1, <3>1, <3>2, FrontProperties
    <2>3. ctl' # <<>>
      BY <2>2
    <2>4. StepTwoDone'
      <3>1. Guarding(ctl'[2], "protected") /\ NotFailed(ctl[2])'
        BY <1>2, <1>5, <2>2 DEF NotFailed
      <3>2. Fresh' /\ NoBuffer'
        BY <1>2, <1>5 DEF Fresh, NoBuffer, regs
      <3> QED BY <1>2, <1>5, <2>2, <3>1, <3>2 DEF StepTwoDone, Guarding
    <2>5. TypedRest'
      BY <1>5 DEF IInv, TypedRest, AllocationSites
    <2> QED BY <1>1, <1>5, <2>2, <2>3, <2>4, <2>5 DEF IInv, Shape
  <1> QED BY <1>3, <1>4, <1>5 DEF StepTwo, EmptyRegistry

-----------------------------------------------------------------------------
(* The end of Thread_run_protected. *)

(* Thread_run_protected returns: its status is in the frame below.         *)
LEMMA EndProtectedPops ==
  ASSUME IInv, EndProtected, NEW k \in Nat \ {0}, Len(ctl) = k + 1,
         [ctl[k] EXCEPT !.status = ctl[k + 1].status] \in Frames
  PROVE  /\ ctl' \in Seq(Frames) /\ ctl' # <<>> /\ Len(ctl') = k
         /\ ctl'[k] = [ctl[k] EXCEPT !.status = ctl[k + 1].status]
         /\ \A i \in 1..(k - 1) : ctl'[i] = ctl[i]
  <1> DEFINE r == [ctl[k] EXCEPT !.status = ctl[k + 1].status]
             d == [Front(ctl) EXCEPT ![k] = r]
  <1>1. ctl \in Seq(Frames) /\ ctl # <<>>
    BY DEF IInv
  <1>2. k + 1 - 1 = k /\ k \in 1..k
    OBVIOUS
  <1>3. Front(ctl)[k] = ctl[k]
    BY <1>1, <1>2, FrontProperties
  <1>4. ctl' = [Front(ctl) EXCEPT ![k] = [Front(ctl)[k] EXCEPT !.status = ctl[k + 1].status]]
    <2>1. Len(ctl) - 1 = k /\ Frame = ctl[k + 1]
      BY <1>2 DEF Frame, Last
    <2>2. ctl' = [Returned EXCEPT ![Len(ctl) - 1].status = Frame.status]
      BY DEF EndProtected
    <2>3. ctl' = [Returned EXCEPT ![k].status = ctl[k + 1].status]
      BY <2>1, <2>2
    <2> QED BY <2>3 DEF Returned
  <1>5. ctl' = d
    BY <1>3, <1>4
  <1>6. /\ d \in Seq(Frames) /\ d # <<>> /\ Len(d) = k /\ d[k] = r
        /\ \A i \in 1..(k - 1) : d[i] = ctl[i]
    <2>1. r \in Frames
      OBVIOUS
    <2> HIDE DEF r
    <2> QED BY <1>1, <2>1, ReplaceUnder
  <1> HIDE DEF d
  <1> QED BY <1>5, <1>6

(* What it finds in its frame, and what it makes of it.                    *)
LEMMA EndProtectedReports ==
  ASSUME IInv, EndProtected, NEW f, f = ctl[Len(ctl)], f \in GuardFrames, error_msg = NoMessage
  PROVE  /\ error_jmp' = Null /\ error_msg' = f.msg
         /\ UNCHANGED <<mem, stack, base, pc, func, registry, outcome, said, thrown>>
         /\ TypedRest'
  <1>1. f.prev = Null /\ f.msg \in AllMessages
    BY DEF GuardFrames
  <1>2. Frame = f
    BY DEF Frame, Last
  <1>3. error_jmp' = Null /\ error_msg' = f.msg
    BY <1>1, <1>2 DEF EndProtected, MsgKept, PrevJmp
  <1>4. UNCHANGED <<mem, stack, base, pc, func, registry, outcome, said, thrown>>
    BY DEF EndProtected, regs
  <1> QED BY <1>1, <1>3, <1>4 DEF IInv, TypedRest

(* Loading goes on when the frames under it stay as they are.              *)
LEMMA LoadingKept ==
  ASSUME NEW n, Loading(n), base' = base, Len(ctl') <= MaxFrames,
         \A i \in 1..n : ctl'[i] = ctl[i],
         ctl'[n + 1] \in PcallFrames,
         ctl'[n + 1].top = ctl[n + 1].top, ctl'[n + 1].base = ctl[n + 1].base,
         ctl'[n + 1].pc = ctl[n + 1].pc
  PROVE  Loading(n)'
  <1>1. n \in Nat \ {0, 1} /\ Spine(ctl, n - 1, base)
    BY DEF Loading
  <1>2. \A i \in 1..(n - 1) : ctl'[i] = ctl[i]
    BY <1>1
  <1>3. Spine(ctl', n - 1, base)
    <2>1. n - 1 \in Nat \ {0}
      BY <1>1
    <2> QED BY <1>1, <1>2, <2>1, SpineSame
  <1>4. ctl'[n] = ctl[n]
    BY <1>1
  <1> QED BY <1>1, <1>3, <1>4 DEF Loading

(* Thread_run_protected returns to Thread_open or to Thread_pcall.         *)
LEMMA EndProtectedKeeps == IInv /\ EndProtected => IInv'
  <1> SUFFICES ASSUME IInv, EndProtected PROVE IInv'
    OBVIOUS
  <1>1. outcome = "running" /\ Frame.at \in {"protected", "recovered"}
    BY DEF EndProtected, At
  <1>2. CASE StepTwoDone
    <2>1. Len(ctl) = 1 + 1 /\ ctl[1] = [at |-> "opened", status |-> "OK"]
          /\ ctl[2] \in GuardFrames /\ error_msg = NoMessage /\ Fresh /\ NoBuffer
      BY <1>2 DEF StepTwoDone, Guarding, Failed, NotFailed
    <2> DEFINE f == ctl[2]
               r == [at |-> "opened", status |-> f.status]
    <2>2. f.status \in Statuses
      BY <2>1 DEF GuardFrames
    <2>3. r \in OpenedFrames /\ r \in Frames
      BY <2>2 DEF OpenedFrames, Frames
    <2>4. r = [ctl[1] EXCEPT !.status = f.status]
      BY <2>1
    <2>5. ctl' \in Seq(Frames) /\ ctl' # <<>> /\ Len(ctl') = 1 /\ ctl'[1] = r
      <3>1. 1 \in Nat \ {0} /\ 1 + 1 = 2
        OBVIOUS
      <3> HIDE DEF r
      <3> QED BY <2>1, <2>3, <2>4, <3>1, EndProtectedPops
    <2>6. /\ error_jmp' = Null /\ error_msg' = f.msg
          /\ UNCHANGED <<mem, stack, base, pc, func, registry, outcome, said, thrown>>
          /\ TypedRest'
      BY <2>1, EndProtectedReports
    <2>7. r.status = "OK" => registry = EmptyRegistry /\ f.msg = NoMessage
      <3>1. r.status = f.status
        OBVIOUS
      <3>2. f.status = "OK" => registry = EmptyRegistry /\ f.msg = NoMessage
        BY <1>2 DEF StepTwoDone, NotFailed, Failed, Errors
      <3> QED BY <3>1, <3>2
    <2> HIDE DEF r, f
    <2>8. Fresh' /\ NoBuffer'
      BY <2>1, <2>6 DEF Fresh, NoBuffer
    <2>9. InOpened'
      BY <2>3, <2>5, <2>6, <2>7, <2>8 DEF InOpened
    <2> QED BY <1>1, <2>5, <2>6, <2>9 DEF IInv, Shape
  <1>3. CASE ParserDone
    <2>0. PICK n \in Int : n = Len(ctl) - 2
      <3>1. Len(ctl) - 2 \in Int
        BY CtlLength
      <3> QED BY <3>1
    <2> DEFINE f == ctl[n + 2]
               p == ctl[n + 1]
               r == [p EXCEPT !.status = f.status]
    <2>1. n \in Nat \ {0, 1} /\ Len(ctl) = n + 1 + 1
      <3>1. n \in Nat \ {0, 1}
        BY <1>3, <2>0 DEF ParserDone, Loading
      <3> QED BY <2>0, <3>1, CtlLength
    <2>2. Loading(n) /\ f \in GuardFrames /\ error_msg = NoMessage
      BY <1>3, <2>0 DEF ParserDone, Guarding, Failed, NotFailed
    <2>3. p \in PcallFrames /\ f.status \in Statuses
      BY <2>2 DEF Loading, GuardFrames
    <2>4. \/ f.status = "OK" /\ f.msg = NoMessage /\ RegistersAre(ctl[n].before, <<"chunk">>)
          \/ f.status # "OK" /\ thrown = [err |-> f.status, msg |-> f.msg]
             /\ RegistersAre(ctl[n].before, <<>>)
      BY <1>3, <2>0 DEF ParserDone, NotFailed, Failed, Errors
    <2>5. n + 1 + 1 = n + 2 /\ n + 1 \in Nat \ {0} /\ n \in Nat /\ n + 1 - 1 = n
      BY <2>1
    <2> HIDE DEF p, f
    <2>6. r \in PcallFrames /\ r.top = p.top /\ r.base = p.base /\ r.pc = p.pc /\ r.status = f.status
      BY <2>3 DEF PcallFrames
    <2>7. r \in Frames
      BY <2>6 DEF Frames
    <2>8. /\ ctl' \in Seq(Frames) /\ ctl' # <<>> /\ Len(ctl') = n + 1 /\ ctl'[n + 1] = r
          /\ \A i \in 1..n : ctl'[i] = ctl[i]
      <3>1. [ctl[n + 1] EXCEPT !.status = ctl[n + 1 + 1].status] = r
        BY <2>5 DEF p, f
      <3> HIDE DEF r
      <3>2. PICK k \in Nat \ {0} : k = n + 1
        BY <2>5
      <3>3. Len(ctl) = k + 1 /\ [ctl[k] EXCEPT !.status = ctl[k + 1].status] = r
        BY <2>1, <3>1, <3>2
      <3>4. /\ ctl' \in Seq(Frames) /\ ctl' # <<>> /\ Len(ctl') = k /\ ctl'[k] = r
            /\ \A i \in 1..(k - 1) : ctl'[i] = ctl[i]
        BY <2>7, <3>3, EndProtectedPops
      <3> QED BY <2>5, <3>2, <3>4
    <2>9. /\ error_jmp' = Null /\ error_msg' = f.msg
          /\ UNCHANGED <<mem, stack, base, pc, func, registry, outcome, said, thrown>>
          /\ TypedRest'
      <3>1. f = ctl[Len(ctl)]
        BY <2>1, <2>5 DEF f
      <3> QED BY <2>2, <3>1, EndProtectedReports DEF f
    <2> HIDE DEF r
    <2>10. Loading(n)'
      <3>1. n + 1 <= MaxFrames
        BY <2>1, <2>2, ThreadAssumption DEF Loading
      <3> QED BY <2>2, <2>6, <2>8, <2>9, <3>1, LoadingKept DEF p
    <2>11. Outcome(ctl[n + 1].status, ctl[n].before)'
      <3>1. ctl'[n] = ctl[n]
        BY <2>1, <2>8
      <3> QED BY <2>4, <2>6, <2>8, <2>9, <3>1 DEF Outcome, RegistersAre
    <2>12. InPcall'
      <3>1. n = Len(ctl') - 1
        BY <2>5, <2>8
      <3> QED BY <2>9, <2>10, <2>11, <3>1 DEF InPcall
    <2> QED BY <1>1, <2>8, <2>9, <2>12 DEF IInv, Shape
  <1> QED BY <1>1, <1>2, <1>3, ShapeOfLabel

-----------------------------------------------------------------------------
(* The libraries. *)

(* Without a recover point the program exits with what was thrown.         *)
LEMMA ThrowEnds ==
  ASSUME IInv, NEW err \in Errors, NEW msg \in AllMessages, outcome = "running",
         error_jmp = Null, error_msg = NoMessage, Throw(err, msg)
  PROVE  /\ UNCHANGED <<ctl, mem, stack, base, pc, func, registry, error_jmp, error_msg>>
         /\ outcome' = "exit" /\ said' = thrown'
         /\ TypedRest'
  <1>1. Exit(err, msg)
    BY ThrowExits DEF Throw
  <1>2. said' = [err |-> err, msg |-> msg]
    BY <1>1 DEF Exit
  <1>3. UNCHANGED <<mem, stack, base, pc, func, registry, error_msg>>
        /\ thrown' = [err |-> err, msg |-> msg]
    BY DEF Throw, regs
  <1>4. UNCHANGED <<ctl, error_jmp>> /\ outcome' = "exit"
    BY <1>1 DEF Exit
  <1> QED BY <1>2, <1>3, <1>4, ThrowTyped

(* Thread_open goes on to the libraries, or there is no thread.            *)
LEMMA OpenedKeeps == IInv /\ Opened => IInv'
  <1> SUFFICES ASSUME IInv, Opened PROVE IInv'
    OBVIOUS
  <1>1. outcome = "running" /\ InOpened
    BY ShapeOfLabel DEF Opened, At
  <1>2. Len(ctl) = 1 /\ Frame = ctl[1] /\ ctl \in Seq(Frames) /\ ctl # <<>>
    BY <1>1 DEF InOpened, Frame, Last, IInv
  <1>3. CASE Frame.status = "OK"
    <2> DEFINE r == [at |-> "lib", done |-> 0]
    <2>1. /\ ctl' = [ctl EXCEPT ![1] = r]
          /\ UNCHANGED <<mem, regs, registry, error_jmp, error_msg, outcome, said, thrown>>
      BY <1>2, <1>3 DEF Opened
    <2>2. r \in LibFrames /\ r \in Frames /\ r.done = 0
      BY DEF LibFrames, Frames
    <2> HIDE DEF r
    <2>3. ctl' \in Seq(Frames) /\ ctl' # <<>> /\ Len(ctl') = 1 /\ ctl'[1] = r
      BY <1>2, <2>1, <2>2, ReplaceLast
    <2>4. Fresh /\ NoBuffer /\ error_jmp = Null /\ registry = EmptyRegistry /\ error_msg = NoMessage
      BY <1>1, <1>2, <1>3 DEF InOpened
    <2>5. AfterCalls(0)'
      BY <2>1, <2>4 
         DEF AfterCalls, GlobalsAfter, GlobalsAre, Globals, StackAfter, EmptyRegistry, Fresh, regs
    <2>6. InLib'
      BY <2>1, <2>2, <2>3, <2>4, <2>5 DEF InLib, Fresh, NoBuffer, regs
    <2>7. TypedRest'
      BY <2>1 DEF IInv, TypedRest
    <2> QED BY <1>1, <2>1, <2>3, <2>6, <2>7 DEF IInv, Shape
  <1>4. CASE Frame.status # "OK"
    <2>1. mem' = mem \ {"twin", "stack"} /\ NoThread /\ UNCHANGED ctl
      BY <1>4 DEF Opened
    <2>2. InOpened'
      BY <1>1, <1>2, <1>4, <2>1 DEF NoThread, InOpened, Fresh, NoBuffer, regs
    <2>3. TypedRest'
      BY <2>1 DEF IInv, TypedRest, NoThread
    <2> QED BY <2>1, <2>2, <2>3 DEF IInv, Shape, NoThread
  <1> QED BY <1>3, <1>4

(* The next text is pushed. *)
LEMMA TextPushed ==
  ASSUME NEW s, NEW n \in Nat, NEW m \in Nat, m = n + 1, NEW texts, Holds(s, n, texts),
         NEW v \in Values, v = texts[m]
  PROVE  Holds(Append(s, v), m, texts)
  <1>1. s \in Seq(Values) /\ Len(s) = n /\ \A i \in 1..n : s[i] = texts[i]
    BY DEF Holds
  <1> DEFINE t == Append(s, v)
  <1>2. t \in Seq(Values) /\ Len(t) = m /\ t[m] = v /\ \A i \in 1..n : t[i] = s[i]
    BY <1>1, AppendProperties
  <1> HIDE DEF t
  <1>3. ASSUME NEW i \in 1..m
        PROVE  t[i] = texts[i]
    <2>1. CASE i = m
      BY <1>2, <2>1
    <2>2. CASE i # m
      <3>1. i \in 1..n
        BY <2>2
      <3> QED BY <1>1, <1>2, <3>1
    <2> QED BY <2>1, <2>2
  <1> QED BY <1>2, <1>3 DEF Holds, t

(* The texts above the n-th are taken off. *)
LEMMA TextTakenOff ==
  ASSUME NEW s, NEW n \in Nat, NEW m \in Nat, n <= m, NEW texts, Holds(s, m, texts)
  PROVE  Holds(SubSeq(s, 1, n), n, texts)
  <1>1. s \in Seq(Values) /\ n \in 0..Len(s) /\ \A i \in 1..n : s[i] = texts[i]
    BY DEF Holds
  <1> QED BY <1>1, PrefixProperties DEF Holds

(* No text is on an empty stack. *)
LEMMA NoText ==
  ASSUME NEW texts
  PROVE  Holds(<<>>, 0, texts)
  BY DEF Holds

(* A call that pushes a text. *)
LEMMA PushCall ==
  ASSUME NEW c, c[1] \in {"new_str", "push_func", "new_table"}, ApiCall(c)
  PROVE  stack' = Append(stack, c[2]) /\ UNCHANGED registry
  <1>1. CASE c[1] = "new_str"
    BY <1>1 DEF ApiCall
  <1>2. CASE c[1] = "push_func"
    BY <1>2 DEF ApiCall
  <1>3. CASE c[1] = "new_table"
    BY <1>3 DEF ApiCall
  <1> QED BY <1>1, <1>2, <1>3

(* A call that stores what is on top under the key below it, and takes it  *)
(* off.                                                                    *)
LEMMA SetCall ==
  ASSUME NEW c, (c[1] = "set_global" /\ c[2] = -2) \/ (c[1] = "set_table" /\ c[3] = -2), ApiCall(c),
         NEW n \in Nat, NEW m \in Nat, Len(stack) = m, m = n + 1
  PROVE  /\ registry' = [registry EXCEPT ![stack[n]] = stack[m]]
         /\ stack' = SubSeq(stack, 1, n)
  <1>1. Stored(Slot(-2)) /\ stack' = TopAfterPop(1)
    <2>1. CASE c[1] = "set_global" /\ c[2] = -2
      BY <2>1 DEF ApiCall
    <2>2. CASE c[1] = "set_table" /\ c[3] = -2
      BY <2>2 DEF ApiCall
    <2> QED BY <2>1, <2>2
  <1>2. m + -2 + 1 = n /\ m - 1 = n
    OBVIOUS
  <1>3. Slot(-2) = stack[n] /\ Last(stack) = stack[m] /\ TopAfterPop(1) = SubSeq(stack, 1, n)
    BY <1>2 DEF Slot, Last, TopAfterPop, Top
  <1> QED BY <1>1, <1>3 DEF Stored

(* A call that pops. *)
LEMMA PopCall ==
  ASSUME NEW c, c[1] = "pop", c[2] = 1, ApiCall(c),
         NEW n \in Nat, NEW m \in Nat, Len(stack) = m, m = n + 1
  PROVE  stack' = SubSeq(stack, 1, n) /\ UNCHANGED registry
  <1>1. stack' = TopAfterPop(1) /\ UNCHANGED registry
    BY DEF ApiCall
  <1>2. m - 1 = n
    OBVIOUS
  <1> QED BY <1>1, <1>2 DEF TopAfterPop, Top

(* A call that clears the stack. *)
LEMMA SetTopCall ==
  ASSUME NEW c, c[1] = "set_top", c[2] = 0, ApiCall(c), base = 0
  PROVE  stack' = <<>> /\ UNCHANGED registry
  <1>1. stack' = TopAfterSet(0) /\ UNCHANGED registry
    BY DEF ApiCall
  <1>2. base + 0 = 0
    OBVIOUS
  <1>3. TopAfterSet(0) = <<>>
    BY <1>2, SubSeqEmpty DEF TopAfterSet
  <1> QED BY <1>1, <1>3

(* The first call: the name of print is pushed. *)
LEMMA LibCall1 ==
  ASSUME GlobalsAre(registry, "nil", "nil", "nil"), stack = <<>>,
         ApiCall(LibCalls[1]), base = 0
  PROVE  GlobalsAre(registry', "nil", "nil", "nil") /\ Holds(stack', 1, PrintTexts)
  <1> DEFINE c == LibCalls[1]
  <1>1. c[1] = "new_str" /\ c[2] = "print" /\ ApiCall(c)
    BY DEF LibCalls
  <1> HIDE DEF c
  <1>2. stack' = Append(stack, "print") /\ UNCHANGED registry
    BY <1>1, PushCall
  <1>3. Holds(stack, 0, PrintTexts)
    BY NoText
  <1>4. PrintTexts[1] = "print" /\ "print" \in Values
    BY DEF PrintTexts, Values
  <1>5. 0 \in Nat /\ 1 \in Nat /\ 1 = 0 + 1
    OBVIOUS
  <1>6. Holds(Append(stack, "print"), 1, PrintTexts)
    BY <1>3, <1>4, <1>5, TextPushed
  <1> QED BY <1>2, <1>6

(* Its function is pushed. *)
LEMMA LibCall2 ==
  ASSUME GlobalsAre(registry, "nil", "nil", "nil"), Holds(stack, 1, PrintTexts),
         ApiCall(LibCalls[2]), base = 0
  PROVE  GlobalsAre(registry', "nil", "nil", "nil") /\ Holds(stack', 2, PrintTexts)
  <1> DEFINE c == LibCalls[2]
  <1>1. c[1] = "push_func" /\ c[2] = "func_print" /\ ApiCall(c)
    BY DEF LibCalls
  <1> HIDE DEF c
  <1>2. stack' = Append(stack, "func_print") /\ UNCHANGED registry
    BY <1>1, PushCall
  <1>3. Holds(stack, 1, PrintTexts)
    BY NoText
  <1>4. PrintTexts[2] = "func_print" /\ "func_print" \in Values
    BY DEF PrintTexts, Values
  <1>5. 1 \in Nat /\ 2 \in Nat /\ 2 = 1 + 1
    OBVIOUS
  <1>6. Holds(Append(stack, "func_print"), 2, PrintTexts)
    BY <1>3, <1>4, <1>5, TextPushed
  <1> QED BY <1>2, <1>6

(* It becomes a global variable. *)
LEMMA LibCall3 ==
  ASSUME GlobalsAre(registry, "nil", "nil", "nil"), Holds(stack, 2, PrintTexts),
         ApiCall(LibCalls[3]), base = 0
  PROVE  GlobalsAre(registry', "func_print", "nil", "nil") /\ Holds(stack', 1, PrintTexts)
  <1> DEFINE c == LibCalls[3]
  <1>1. c[1] = "set_global" /\ c[2] = -2 /\ ApiCall(c)
    BY DEF LibCalls
  <1> HIDE DEF c
  <1>2. Len(stack) = 2 /\ stack[1] = "print" /\ stack[2] = "func_print"
    <2>1. PrintTexts[1] = "print" /\ PrintTexts[2] = "func_print"
      BY DEF PrintTexts
    <2>2. 1 \in 1..2 /\ 2 \in 1..2
      OBVIOUS
    <2> QED BY <2>1, <2>2 DEF Holds
  <1>3. 1 \in Nat /\ 2 \in Nat /\ 2 = 1 + 1 /\ 1 <= 2
    OBVIOUS
  <1>4. registry' = [registry EXCEPT ![stack[1]] = stack[2]] /\ stack' = SubSeq(stack, 1, 1)
    <2>1. (c[1] = "set_global" /\ c[2] = -2) \/ (c[1] = "set_table" /\ c[3] = -2)
      BY <1>1
    <2> QED BY <1>1, <1>2, <1>3, <2>1, SetCall
  <1>5. registry' = [registry EXCEPT !["print"] = "func_print"]
    BY <1>2, <1>4
  <1>6. GlobalsAre(registry', "func_print", "nil", "nil")
    BY <1>5 DEF GlobalsAre, Globals
  <1>7. Holds(SubSeq(stack, 1, 1), 1, PrintTexts)
    BY <1>3, TextTakenOff
  <1> QED BY <1>4, <1>6, <1>7

(* The stack is cleared. *)
LEMMA LibCall4 ==
  ASSUME GlobalsAre(registry, "func_print", "nil", "nil"), Holds(stack, 1, PrintTexts),
         ApiCall(LibCalls[4]), base = 0
  PROVE  GlobalsAre(registry', "func_print", "nil", "nil") /\ stack' = <<>>
  <1> DEFINE c == LibCalls[4]
  <1>1. c[1] = "set_top" /\ c[2] = 0 /\ ApiCall(c)
    BY DEF LibCalls
  <1> HIDE DEF c
  <1> QED BY <1>1, SetTopCall

(* The name nf is pushed. *)
LEMMA LibCall5 ==
  ASSUME GlobalsAre(registry, "func_print", "nil", "nil"), stack = <<>>,
         ApiCall(LibCalls[5]), base = 0
  PROVE  GlobalsAre(registry', "func_print", "nil", "nil") /\ Holds(stack', 1, NfTexts)
  <1> DEFINE c == LibCalls[5]
  <1>1. c[1] = "new_str" /\ c[2] = "nf" /\ ApiCall(c)
    BY DEF LibCalls
  <1> HIDE DEF c
  <1>2. stack' = Append(stack, "nf") /\ UNCHANGED registry
    BY <1>1, PushCall
  <1>3. Holds(stack, 0, NfTexts)
    BY NoText
  <1>4. NfTexts[1] = "nf" /\ "nf" \in Values
    BY DEF NfTexts, Values
  <1>5. 0 \in Nat /\ 1 \in Nat /\ 1 = 0 + 1
    OBVIOUS
  <1>6. Holds(Append(stack, "nf"), 1, NfTexts)
    BY <1>3, <1>4, <1>5, TextPushed
  <1> QED BY <1>2, <1>6

(* Its table is pushed. *)
LEMMA LibCall6 ==
  ASSUME GlobalsAre(registry, "func_print", "nil", "nil"), Holds(stack, 1, NfTexts),
         ApiCall(LibCalls[6]), base = 0
  PROVE  GlobalsAre(registry', "func_print", "nil", "nil") /\ Holds(stack', 2, NfTexts)
  <1> DEFINE c == LibCalls[6]
  <1>1. c[1] = "new_table" /\ c[2] = "table_nf" /\ ApiCall(c)
    BY DEF LibCalls
  <1> HIDE DEF c
  <1>2. stack' = Append(stack, "table_nf") /\ UNCHANGED registry
    BY <1>1, PushCall
  <1>3. Holds(stack, 1, NfTexts)
    BY NoText
  <1>4. NfTexts[2] = "table_nf" /\ "table_nf" \in Values
    BY DEF NfTexts, Values
  <1>5. 1 \in Nat /\ 2 \in Nat /\ 2 = 1 + 1
    OBVIOUS
  <1>6. Holds(Append(stack, "table_nf"), 2, NfTexts)
    BY <1>3, <1>4, <1>5, TextPushed
  <1> QED BY <1>2, <1>6

(* The name of the field is pushed. *)
LEMMA LibCall7 ==
  ASSUME GlobalsAre(registry, "func_print", "nil", "nil"), Holds(stack, 2, NfTexts),
         ApiCall(LibCalls[7]), base = 0
  PROVE  GlobalsAre(registry', "func_print", "nil", "nil") /\ Holds(stack', 3, NfTexts)
  <1> DEFINE c == LibCalls[7]
  <1>1. c[1] = "new_str" /\ c[2] = "version" /\ ApiCall(c)
    BY DEF LibCalls
  <1> HIDE DEF c
  <1>2. stack' = Append(stack, "version") /\ UNCHANGED registry
    BY <1>1, PushCall
  <1>3. Holds(stack, 2, NfTexts)
    BY NoText
  <1>4. NfTexts[3] = "version" /\ "version" \in Values
    BY DEF NfTexts, Values
  <1>5. 2 \in Nat /\ 3 \in Nat /\ 3 = 2 + 1
    OBVIOUS
  <1>6. Holds(Append(stack, "version"), 3, NfTexts)
    BY <1>3, <1>4, <1>5, TextPushed
  <1> QED BY <1>2, <1>6

(* Its value is pushed. *)
LEMMA LibCall8 ==
  ASSUME GlobalsAre(registry, "func_print", "nil", "nil"), Holds(stack, 3, NfTexts),
         ApiCall(LibCalls[8]), base = 0
  PROVE  GlobalsAre(registry', "func_print", "nil", "nil") /\ Holds(stack', 4, NfTexts)
  <1> DEFINE c == LibCalls[8]
  <1>1. c[1] = "new_str" /\ c[2] = "0.0.1" /\ ApiCall(c)
    BY DEF LibCalls
  <1> HIDE DEF c
  <1>2. stack' = Append(stack, "0.0.1") /\ UNCHANGED registry
    BY <1>1, PushCall
  <1>3. Holds(stack, 3, NfTexts)
    BY NoText
  <1>4. NfTexts[4] = "0.0.1" /\ "0.0.1" \in Values
    BY DEF NfTexts, Values
  <1>5. 3 \in Nat /\ 4 \in Nat /\ 4 = 3 + 1
    OBVIOUS
  <1>6. Holds(Append(stack, "0.0.1"), 4, NfTexts)
    BY <1>3, <1>4, <1>5, TextPushed
  <1> QED BY <1>2, <1>6

(* The field is set. *)
LEMMA LibCall9 ==
  ASSUME GlobalsAre(registry, "func_print", "nil", "nil"), Holds(stack, 4, NfTexts),
         ApiCall(LibCalls[9]), base = 0
  PROVE  GlobalsAre(registry', "func_print", "nil", "0.0.1") /\ Holds(stack', 3, NfTexts)
  <1> DEFINE c == LibCalls[9]
  <1>1. c[1] = "set_table" /\ c[3] = -2 /\ ApiCall(c)
    BY DEF LibCalls
  <1> HIDE DEF c
  <1>2. Len(stack) = 4 /\ stack[3] = "version" /\ stack[4] = "0.0.1"
    <2>1. NfTexts[3] = "version" /\ NfTexts[4] = "0.0.1"
      BY DEF NfTexts
    <2>2. 3 \in 1..4 /\ 4 \in 1..4
      OBVIOUS
    <2> QED BY <2>1, <2>2 DEF Holds
  <1>3. 3 \in Nat /\ 4 \in Nat /\ 4 = 3 + 1 /\ 3 <= 4
    OBVIOUS
  <1>4. registry' = [registry EXCEPT ![stack[3]] = stack[4]] /\ stack' = SubSeq(stack, 1, 3)
    <2>1. (c[1] = "set_global" /\ c[2] = -2) \/ (c[1] = "set_table" /\ c[3] = -2)
      BY <1>1
    <2> QED BY <1>1, <1>2, <1>3, <2>1, SetCall
  <1>5. registry' = [registry EXCEPT !["version"] = "0.0.1"]
    BY <1>2, <1>4
  <1>6. GlobalsAre(registry', "func_print", "nil", "0.0.1")
    BY <1>5 DEF GlobalsAre, Globals
  <1>7. Holds(SubSeq(stack, 1, 3), 3, NfTexts)
    BY <1>3, TextTakenOff
  <1> QED BY <1>4, <1>6, <1>7

(* The name of the field is popped. *)
LEMMA LibCall10 ==
  ASSUME GlobalsAre(registry, "func_print", "nil", "0.0.1"), Holds(stack, 3, NfTexts),
         ApiCall(LibCalls[10]), base = 0
  PROVE  GlobalsAre(registry', "func_print", "nil", "0.0.1") /\ Holds(stack', 2, NfTexts)
  <1> DEFINE c == LibCalls[10]
  <1>1. c[1] = "pop" /\ c[2] = 1 /\ ApiCall(c)
    BY DEF LibCalls
  <1> HIDE DEF c
  <1>2. Len(stack) = 3
    BY DEF Holds
  <1>3. 2 \in Nat /\ 3 \in Nat /\ 3 = 2 + 1 /\ 2 <= 3
    OBVIOUS
  <1>4. stack' = SubSeq(stack, 1, 2) /\ UNCHANGED registry
    BY <1>1, <1>2, <1>3, PopCall
  <1>5. Holds(SubSeq(stack, 1, 2), 2, NfTexts)
    BY <1>3, TextTakenOff
  <1> QED BY <1>4, <1>5

(* The table becomes a global variable. *)
LEMMA LibCall11 ==
  ASSUME GlobalsAre(registry, "func_print", "nil", "0.0.1"), Holds(stack, 2, NfTexts),
         ApiCall(LibCalls[11]), base = 0
  PROVE  GlobalsAre(registry', "func_print", "table_nf", "0.0.1") /\ Holds(stack', 1, NfTexts)
  <1> DEFINE c == LibCalls[11]
  <1>1. c[1] = "set_global" /\ c[2] = -2 /\ ApiCall(c)
    BY DEF LibCalls
  <1> HIDE DEF c
  <1>2. Len(stack) = 2 /\ stack[1] = "nf" /\ stack[2] = "table_nf"
    <2>1. NfTexts[1] = "nf" /\ NfTexts[2] = "table_nf"
      BY DEF NfTexts
    <2>2. 1 \in 1..2 /\ 2 \in 1..2
      OBVIOUS
    <2> QED BY <2>1, <2>2 DEF Holds
  <1>3. 1 \in Nat /\ 2 \in Nat /\ 2 = 1 + 1 /\ 1 <= 2
    OBVIOUS
  <1>4. registry' = [registry EXCEPT ![stack[1]] = stack[2]] /\ stack' = SubSeq(stack, 1, 1)
    <2>1. (c[1] = "set_global" /\ c[2] = -2) \/ (c[1] = "set_table" /\ c[3] = -2)
      BY <1>1
    <2> QED BY <1>1, <1>2, <1>3, <2>1, SetCall
  <1>5. registry' = [registry EXCEPT !["nf"] = "table_nf"]
    BY <1>2, <1>4
  <1>6. GlobalsAre(registry', "func_print", "table_nf", "0.0.1")
    BY <1>5 DEF GlobalsAre, Globals
  <1>7. Holds(SubSeq(stack, 1, 1), 1, NfTexts)
    BY <1>3, TextTakenOff
  <1> QED BY <1>4, <1>6, <1>7

(* The stack is cleared. *)
LEMMA LibCall12 ==
  ASSUME GlobalsAre(registry, "func_print", "table_nf", "0.0.1"), Holds(stack, 1, NfTexts),
         ApiCall(LibCalls[12]), base = 0
  PROVE  GlobalsAre(registry', "func_print", "table_nf", "0.0.1") /\ stack' = <<>>
  <1> DEFINE c == LibCalls[12]
  <1>1. c[1] = "set_top" /\ c[2] = 0 /\ ApiCall(c)
    BY DEF LibCalls
  <1> HIDE DEF c
  <1> QED BY <1>1, SetTopCall

(* One call brings the thread from what k calls leave to what k + 1 leave. *)
LEMMA LibCallMade ==
  ASSUME NEW k \in 0..11, NEW j, j = k + 1, GlobalsAfter(k, registry), StackAfter(k, stack),
         ApiCall(LibCalls[j]), base = 0
  PROVE  GlobalsAfter(j, registry') /\ StackAfter(j, stack')
  <1>1. CASE k = 0
    <2>1. GlobalsAre(registry, "nil", "nil", "nil") /\ stack = <<>>
      BY <1>1 DEF GlobalsAfter, StackAfter
    <2>2. j = 1
      BY <1>1
    <2>3. GlobalsAre(registry', "nil", "nil", "nil") /\ Holds(stack', 1, PrintTexts)
      BY <2>1, <2>2, LibCall1
    <2>4. GlobalsAfter(1, registry')
      BY <2>3 DEF GlobalsAfter
    <2>5. StackAfter(1, stack')
      BY <2>3 DEF StackAfter
    <2> QED BY <2>2, <2>4, <2>5
  <1>2. CASE k = 1
    <2>1. GlobalsAre(registry, "nil", "nil", "nil") /\ Holds(stack, 1, PrintTexts)
      BY <1>2 DEF GlobalsAfter, StackAfter
    <2>2. j = 2
      BY <1>2
    <2>3. GlobalsAre(registry', "nil", "nil", "nil") /\ Holds(stack', 2, PrintTexts)
      BY <2>1, <2>2, LibCall2
    <2>4. GlobalsAfter(2, registry')
      BY <2>3 DEF GlobalsAfter
    <2>5. StackAfter(2, stack')
      BY <2>3 DEF StackAfter
    <2> QED BY <2>2, <2>4, <2>5
  <1>3. CASE k = 2
    <2>1. GlobalsAre(registry, "nil", "nil", "nil") /\ Holds(stack, 2, PrintTexts)
      BY <1>3 DEF GlobalsAfter, StackAfter
    <2>2. j = 3
      BY <1>3
    <2>3. GlobalsAre(registry', "func_print", "nil", "nil") /\ Holds(stack', 1, PrintTexts)
      BY <2>1, <2>2, LibCall3
    <2>4. GlobalsAfter(3, registry')
      BY <2>3 DEF GlobalsAfter
    <2>5. StackAfter(3, stack')
      BY <2>3 DEF StackAfter
    <2> QED BY <2>2, <2>4, <2>5
  <1>4. CASE k = 3
    <2>1. GlobalsAre(registry, "func_print", "nil", "nil") /\ Holds(stack, 1, PrintTexts)
      BY <1>4 DEF GlobalsAfter, StackAfter
    <2>2. j = 4
      BY <1>4
    <2>3. GlobalsAre(registry', "func_print", "nil", "nil") /\ stack' = <<>>
      BY <2>1, <2>2, LibCall4
    <2>4. GlobalsAfter(4, registry')
      BY <2>3 DEF GlobalsAfter
    <2>5. StackAfter(4, stack')
      BY <2>3 DEF StackAfter
    <2> QED BY <2>2, <2>4, <2>5
  <1>5. CASE k = 4
    <2>1. GlobalsAre(registry, "func_print", "nil", "nil") /\ stack = <<>>
      BY <1>5 DEF GlobalsAfter, StackAfter
    <2>2. j = 5
      BY <1>5
    <2>3. GlobalsAre(registry', "func_print", "nil", "nil") /\ Holds(stack', 1, NfTexts)
      BY <2>1, <2>2, LibCall5
    <2>4. GlobalsAfter(5, registry')
      BY <2>3 DEF GlobalsAfter
    <2>5. StackAfter(5, stack')
      BY <2>3 DEF StackAfter
    <2> QED BY <2>2, <2>4, <2>5
  <1>6. CASE k = 5
    <2>1. GlobalsAre(registry, "func_print", "nil", "nil") /\ Holds(stack, 1, NfTexts)
      BY <1>6 DEF GlobalsAfter, StackAfter
    <2>2. j = 6
      BY <1>6
    <2>3. GlobalsAre(registry', "func_print", "nil", "nil") /\ Holds(stack', 2, NfTexts)
      BY <2>1, <2>2, LibCall6
    <2>4. GlobalsAfter(6, registry')
      BY <2>3 DEF GlobalsAfter
    <2>5. StackAfter(6, stack')
      BY <2>3 DEF StackAfter
    <2> QED BY <2>2, <2>4, <2>5
  <1>7. CASE k = 6
    <2>1. GlobalsAre(registry, "func_print", "nil", "nil") /\ Holds(stack, 2, NfTexts)
      BY <1>7 DEF GlobalsAfter, StackAfter
    <2>2. j = 7
      BY <1>7
    <2>3. GlobalsAre(registry', "func_print", "nil", "nil") /\ Holds(stack', 3, NfTexts)
      BY <2>1, <2>2, LibCall7
    <2>4. GlobalsAfter(7, registry')
      BY <2>3 DEF GlobalsAfter
    <2>5. StackAfter(7, stack')
      BY <2>3 DEF StackAfter
    <2> QED BY <2>2, <2>4, <2>5
  <1>8. CASE k = 7
    <2>1. GlobalsAre(registry, "func_print", "nil", "nil") /\ Holds(stack, 3, NfTexts)
      BY <1>8 DEF GlobalsAfter, StackAfter
    <2>2. j = 8
      BY <1>8
    <2>3. GlobalsAre(registry', "func_print", "nil", "nil") /\ Holds(stack', 4, NfTexts)
      BY <2>1, <2>2, LibCall8
    <2>4. GlobalsAfter(8, registry')
      BY <2>3 DEF GlobalsAfter
    <2>5. StackAfter(8, stack')
      BY <2>3 DEF StackAfter
    <2> QED BY <2>2, <2>4, <2>5
  <1>9. CASE k = 8
    <2>1. GlobalsAre(registry, "func_print", "nil", "nil") /\ Holds(stack, 4, NfTexts)
      BY <1>9 DEF GlobalsAfter, StackAfter
    <2>2. j = 9
      BY <1>9
    <2>3. GlobalsAre(registry', "func_print", "nil", "0.0.1") /\ Holds(stack', 3, NfTexts)
      BY <2>1, <2>2, LibCall9
    <2>4. GlobalsAfter(9, registry')
      BY <2>3 DEF GlobalsAfter
    <2>5. StackAfter(9, stack')
      BY <2>3 DEF StackAfter
    <2> QED BY <2>2, <2>4, <2>5
  <1>10. CASE k = 9
    <2>1. GlobalsAre(registry, "func_print", "nil", "0.0.1") /\ Holds(stack, 3, NfTexts)
      BY <1>10 DEF GlobalsAfter, StackAfter
    <2>2. j = 10
      BY <1>10
    <2>3. GlobalsAre(registry', "func_print", "nil", "0.0.1") /\ Holds(stack', 2, NfTexts)
      BY <2>1, <2>2, LibCall10
    <2>4. GlobalsAfter(10, registry')
      BY <2>3 DEF GlobalsAfter
    <2>5. StackAfter(10, stack')
      BY <2>3 DEF StackAfter
    <2> QED BY <2>2, <2>4, <2>5
  <1>11. CASE k = 10
    <2>1. GlobalsAre(registry, "func_print", "nil", "0.0.1") /\ Holds(stack, 2, NfTexts)
      BY <1>11 DEF GlobalsAfter, StackAfter
    <2>2. j = 11
      BY <1>11
    <2>3. GlobalsAre(registry', "func_print", "table_nf", "0.0.1") /\ Holds(stack', 1, NfTexts)
      BY <2>1, <2>2, LibCall11
    <2>4. GlobalsAfter(11, registry')
      BY <2>3 DEF GlobalsAfter
    <2>5. StackAfter(11, stack')
      BY <2>3 DEF StackAfter
    <2> QED BY <2>2, <2>4, <2>5
  <1>12. CASE k = 11
    <2>1. GlobalsAre(registry, "func_print", "table_nf", "0.0.1") /\ Holds(stack, 1, NfTexts)
      BY <1>12 DEF GlobalsAfter, StackAfter
    <2>2. j = 12
      BY <1>12
    <2>3. GlobalsAre(registry', "func_print", "table_nf", "0.0.1") /\ stack' = <<>>
      BY <2>1, <2>2, LibCall12
    <2>4. GlobalsAfter(12, registry')
      BY <2>3 DEF GlobalsAfter
    <2>5. StackAfter(12, stack')
      BY <2>3 DEF StackAfter
    <2> QED BY <2>2, <2>4, <2>5
  <1>13. k \in {0, 1, 2, 3, 4, 5, 6, 7, 8, 9, 10, 11}
    OBVIOUS
  <1> QED BY <1>1, <1>2, <1>3, <1>4, <1>5, <1>6, <1>7, <1>8, <1>9, <1>10, <1>11, <1>12, <1>13

(* There are twelve of them. *)
LEMMA LibCallsLength == Len(LibCalls) = 12
  BY DEF LibCalls

(* One call of the libraries.                                              *)
LEMMA LibKeeps == IInv /\ Lib => IInv'
  <1> SUFFICES ASSUME IInv, Lib PROVE IInv'
    OBVIOUS
  <1>1. outcome = "running" /\ InLib /\ Frame.done < 12
    BY ShapeOfLabel, LibCallsLength DEF Lib, At
  <1>2. Len(ctl) = 1 /\ Frame = ctl[1] /\ ctl \in Seq(Frames) /\ ctl # <<>>
    BY <1>1 DEF InLib, Frame, Last, IInv
  <1>3. PICK k \in 0..11 : k = Frame.done
    <2>1. Frame.done \in 0..12
      BY <1>1, <1>2 DEF InLib, LibFrames
    <2> QED BY <1>1, <2>1
  <1>4. AfterCalls(k) /\ base = 0 /\ pc = Null /\ func = Null
        /\ NoBuffer /\ error_jmp = Null /\ error_msg = NoMessage
    BY <1>1, <1>2, <1>3 DEF InLib
  <1>5. CASE OutOfMemory("api")
    <2>1. Throw("OUT_OF_MEMORY", NoMessage)
      BY <1>5 DEF OutOfMemory
    <2>2. /\ UNCHANGED <<ctl, mem, stack, base, pc, func, registry, error_jmp, error_msg>>
          /\ outcome' = "exit" /\ said' = thrown'
          /\ TypedRest'
      BY <1>1, <1>4, <2>1, ThrowEnds DEF Errors, AllMessages
    <2>3. InLib'
      BY <1>1, <2>2 DEF InLib, AfterCalls, NoBuffer
    <2> QED BY <2>2, <2>3 DEF IInv, Shape
  <1>6. CASE ~OutOfMemory("api")
    <2>1. PICK j \in 1..12 : j = k + 1
      BY <1>3
    <2>2. /\ ApiCall(LibCalls[j])
          /\ ctl' = [ctl EXCEPT ![1].done = j]
          /\ UNCHANGED <<mem, base, pc, func, error_jmp, error_msg, outcome, said, thrown>>
      <3>1. /\ ApiCall(LibCalls[k + 1])
            /\ ctl' = [ctl EXCEPT ![1].done = @ + 1]
            /\ UNCHANGED <<mem, base, pc, func, error_jmp, error_msg, outcome, said, thrown>>
        BY <1>2, <1>3, <1>6 DEF Lib
      <3> QED BY <1>2, <1>3, <2>1, <3>1
    <2> DEFINE r == [ctl[1] EXCEPT !.done = j]
    <2>3. ctl[1] \in LibFrames
      BY <1>1 DEF InLib
    <2>4. r \in LibFrames /\ r \in Frames /\ r.done = j
      BY <2>3 DEF LibFrames, Frames
    <2>5. ctl' = [ctl EXCEPT ![1] = r]
      BY <2>2
    <2> HIDE DEF r
    <2>6. ctl' \in Seq(Frames) /\ ctl' # <<>> /\ Len(ctl') = 1 /\ ctl'[1] = r
      BY <1>2, <2>4, <2>5, ReplaceLast
    <2>7. AfterCalls(j)'
      <3>1. GlobalsAfter(j, registry') /\ StackAfter(j, stack')
        BY <1>4, <2>1, <2>2, LibCallMade DEF AfterCalls
      <3> QED BY <3>1 DEF AfterCalls
    <2>8. InLib'
      BY <1>4, <2>2, <2>4, <2>6, <2>7 DEF InLib, NoBuffer
    <2>9. TypedRest'
      BY <2>2 DEF IInv, TypedRest
    <2> QED BY <1>1, <2>2, <2>6, <2>8, <2>9 DEF IInv, Shape
  <1> QED BY <1>5, <1>6

(* nf::open returns.                                                       *)
LEMMA LibsDoneKeeps == IInv /\ LibsDone => IInv'
  <1> SUFFICES ASSUME IInv, LibsDone PROVE IInv'
    OBVIOUS
  <1>1. outcome = "running" /\ InLib /\ Frame.done = 12
    BY ShapeOfLabel, LibCallsLength DEF LibsDone, At
  <1>2. Frame = ctl[1]
    BY <1>1 DEF InLib, Frame, Last
  <1>3. StackAfter(12, stack) /\ base = 0 /\ pc = Null /\ func = Null
        /\ NoBuffer /\ error_jmp = Null /\ error_msg = NoMessage
    BY <1>1, <1>2 DEF InLib, AfterCalls
  <1>4. stack = <<>>
    BY <1>3 DEF StackAfter
  <1> DEFINE r == [at |-> "host"]
  <1>5. ctl' = <<r>> /\ UNCHANGED <<mem, regs, registry, error_jmp, error_msg, outcome, said, thrown>>
    BY DEF LibsDone
  <1>6. r \in Frames /\ r.at = "host"
    BY DEF Frames, PlainFrames
  <1>7. Spine(<<r>>, 1, base)
    BY DEF Spine
  <1> HIDE DEF r
  <1>8. ctl' \in Seq(Frames) /\ ctl' # <<>> /\ Len(ctl') = 1 /\ ctl'[1] = r
    BY <1>5, <1>6, Single
  <1>9. Spine(ctl', Len(ctl'), base')
    BY <1>5, <1>7, <1>8 DEF regs
  <1>10. InCode'
    <2>1. (Frame.at \in {"host", "chunk"})'
      BY <1>6, <1>8 DEF Frame, Last
    <2>2. (stack \in Seq(Values) /\ base \in 0..Len(stack) /\ pc \in Indexes /\ func \in Indexes)'
      <3>1. 0 \in Indexes
        BY ThreadAssumption DEF Indexes
      <3> QED BY <1>3, <1>4, <1>5, <3>1 DEF regs
    <2> QED BY <1>3, <1>5, <1>8, <1>9, <2>1, <2>2 DEF InCode, NoBuffer
  <1>11. TypedRest'
    BY <1>5 DEF IInv, TypedRest
  <1> QED BY <1>1, <1>5, <1>8, <1>10, <1>11 DEF IInv, Shape

-----------------------------------------------------------------------------
(* Loading a text. *)

(* Four frames on top.                                                     *)
LEMMA FourPushed ==
  ASSUME NEW S, NEW s \in Seq(S), NEW a \in S, NEW b \in S, NEW c \in S, NEW d \in S,
         NEW n \in Nat, Len(s) = n
  PROVE  /\ s \o <<a, b, c, d>> \in Seq(S) /\ s \o <<a, b, c, d>> # <<>>
         /\ Len(s \o <<a, b, c, d>>) = n + 4
         /\ \A i \in 1..n : (s \o <<a, b, c, d>>)[i] = s[i]
         /\ (s \o <<a, b, c, d>>)[n + 1] = a /\ (s \o <<a, b, c, d>>)[n + 2] = b
         /\ (s \o <<a, b, c, d>>)[n + 3] = c /\ (s \o <<a, b, c, d>>)[n + 4] = d
  <1> DEFINE t == <<a, b, c, d>>
             u == s \o t
  <1>1. t \in Seq(S) /\ Len(t) = 4 /\ t[1] = a /\ t[2] = b /\ t[3] = c /\ t[4] = d
    OBVIOUS
  <1> HIDE DEF t
  <1>2. /\ u \in Seq(S) /\ Len(u) = n + 4
        /\ \A i \in 1..(n + 4) : u[i] = IF i <= n THEN s[i] ELSE t[i - n]
    <2>1. /\ u \in Seq(S) /\ Len(u) = Len(s) + Len(t)
          /\ \A i \in 1..(Len(s) + Len(t)) : u[i] = IF i <= Len(s) THEN s[i] ELSE t[i - Len(s)]
      BY <1>1, ConcatProperties
    <2> HIDE DEF u
    <2> QED BY <1>1, <2>1
  <1> HIDE DEF u
  <1>3. ASSUME NEW i \in 1..n
        PROVE  u[i] = s[i]
    BY <1>2
  <1>4. ASSUME NEW k \in 1..4
        PROVE  u[n + k] = t[k]
    <2>1. n + k \in 1..(n + 4) /\ ~(n + k <= n) /\ n + k - n = k
      OBVIOUS
    <2> QED BY <1>2, <2>1
  <1>5. u[n + 1] = t[1] /\ u[n + 2] = t[2] /\ u[n + 3] = t[3] /\ u[n + 4] = t[4]
    BY <1>4
  <1>6. u # <<>>
    BY <1>2
  <1> QED BY <1>1, <1>2, <1>3, <1>5, <1>6 DEF t, u

(* Thread_run puts its four frames on the spine.                           *)
LEMMA RunKeeps == IInv /\ Run => IInv'
  <1> SUFFICES ASSUME IInv, Run PROVE IInv'
    OBVIOUS
  <1>1. outcome = "running" /\ InCode /\ Len(ctl) + 4 <= MaxFrames
    BY ShapeOfLabel DEF Run, At
  <1>2. PICK m \in Nat \ {0} : m = Len(ctl)
    BY CtlLength
  <1> DEFINE run == [at |-> "run", before |-> regs]
             call == [at |-> "pcall", top |-> Len(stack), base |-> base, pc |-> pc, status |-> "OK"]
             guard == [at |-> "protected", prev |-> Null, status |-> "OK", msg |-> NoMessage]
             parser == [at |-> "parser"]
  <1>3. /\ Spine(ctl, m, base) /\ stack \in Seq(Values) /\ base \in 0..Len(stack)
        /\ pc \in Indexes /\ func \in Indexes /\ NoBuffer /\ error_jmp = Null /\ error_msg = NoMessage
    BY <1>1, <1>2 DEF InCode
  <1>4. Len(stack) \in Nat /\ base \in Nat /\ base <= Len(stack)
    BY <1>3
  <1>5. regs \in RegisterValues /\ regs[1] = stack /\ regs[2] = base /\ regs[3] = pc /\ regs[4] = func
    BY <1>3, <1>4 DEF regs, RegisterValues
  <1>6. run \in RunFrames /\ run \in Frames /\ run.before = regs
    <2> HIDE DEF regs
    <2> QED BY <1>5 DEF RunFrames, Frames
  <1>7. /\ call \in PcallFrames /\ call \in Frames /\ call.status = "OK"
        /\ call.top = Len(stack) /\ call.base = base /\ call.pc = pc
    BY <1>3, <1>4 DEF PcallFrames, Frames, Statuses
  <1>8. Guarding(guard, "protected") /\ guard \in Frames /\ guard.status = "OK" /\ guard.msg = NoMessage
    BY DEF Guarding, GuardFrames, Frames, Statuses, AllMessages
  <1>9. parser \in Frames
    BY DEF Frames, PlainFrames
  <1>10. /\ ctl' = ctl \o <<run, call, guard, parser>>
         /\ error_jmp' = m + 3
         /\ UNCHANGED <<mem, regs, registry, error_msg, outcome, said, thrown>>
    BY <1>2, <1>3 DEF Run, Pcall, Recover, Top
  <1>11. UNCHANGED <<stack, base, pc, func>>
    BY <1>10 DEF regs
  <1> HIDE DEF run, call, guard, parser
  <1>12. /\ ctl' \in Seq(Frames) /\ ctl' # <<>> /\ Len(ctl') = m + 4
         /\ \A i \in 1..m : ctl'[i] = ctl[i]
         /\ ctl'[m + 1] = run /\ ctl'[m + 2] = call /\ ctl'[m + 3] = guard /\ ctl'[m + 4] = parser
    <2>1. ctl \in Seq(Frames) /\ Len(ctl) = m
      BY <1>2 DEF IInv
    <2>2. m \in Nat
      OBVIOUS
    <2> QED BY <1>6, <1>7, <1>8, <1>9, <1>10, <2>1, <2>2, FourPushed
  <1>13. PICK n \in Nat \ {0, 1} : n = m + 1
    OBVIOUS
  <1>14. m + 2 = n + 1 /\ m + 3 = n + 2 /\ m + 4 = n + 3 /\ n - 1 = m /\ n = n + 3 - 3
         /\ n + 3 <= MaxFrames
    BY <1>1, <1>2, <1>13
  <1>15. /\ Len(ctl') = n + 3 /\ ctl'[n] = run /\ ctl'[n + 1] = call
         /\ ctl'[n + 2] = guard /\ ctl'[n + 3] = parser /\ error_jmp' = n + 2
    BY <1>10, <1>12, <1>13, <1>14
  <1>16. Spine(ctl', n - 1, base')
    <2>1. Spine(ctl', m, base)
      BY <1>3, <1>12, SpineSame
    <2> QED BY <1>11, <1>14, <2>1
  <1>17. Loading(n)'
    BY <1>5, <1>6, <1>7, <1>14, <1>15, <1>16 DEF Loading
  <1>18. RegistersAre(regs, <<>>)'
    <2>1. stack \o <<>> = stack
      BY <1>3, NothingPushed
    <2> QED BY <1>4, <1>5, <1>10, <1>11, <2>1 DEF RegistersAre
  <1>19. InParser'
    <2>1. RegistersAre(ctl[n].before, <<>>)'
      BY <1>6, <1>10, <1>15, <1>18 DEF RegistersAre
    <2>2. Guarding(ctl'[n + 2], "protected") /\ NotFailed(ctl[n + 2])' /\ ctl'[n + 3] = [at |-> "parser"]
      BY <1>3, <1>8, <1>10, <1>15 DEF NotFailed, parser
    <2>3. (ctl[n + 1].status = "OK")' /\ n = Len(ctl') - 3
      BY <1>7, <1>14, <1>15
    <2> QED BY <1>15, <1>17, <2>1, <2>2, <2>3 DEF InParser, Guarding
  <1>20. TypedRest'
    BY <1>10 DEF IInv, TypedRest
  <1> QED BY <1>1, <1>10, <1>12, <1>19, <1>20 DEF IInv, Shape

(* What the frame of a text that is loaded has in it.                      *)
LEMMA BeforeTyped ==
  ASSUME NEW frame, frame \in RunFrames \cup LoadedFrames
  PROVE  /\ frame.before \in RegisterValues
         /\ frame.before[1] \in Seq(Values) /\ Len(frame.before[1]) \in Nat
         /\ frame.before[2] \in Nat /\ frame.before[3] \in Indexes /\ frame.before[4] \in Indexes
  <1> DEFINE before == frame.before
  <1>1. before \in RegisterValues
    BY DEF RunFrames, LoadedFrames
  <1> HIDE DEF before
  <1>2. before[1] \in Seq(Values) /\ before[2] \in Nat /\ before[3] \in Indexes /\ before[4] \in Indexes
    BY <1>1 DEF RegisterValues
  <1>3. Len(before[1]) \in Nat
    BY <1>2
  <1> QED BY <1>1, <1>2, <1>3 DEF before

(* The parser: an error finds the recover point under it.                  *)
LEMMA ParserKeeps == IInv /\ Parser => IInv'
  <1> SUFFICES ASSUME IInv, Parser PROVE IInv'
    OBVIOUS
  <1>1. outcome = "running" /\ InParser
    BY ShapeOfLabel DEF Parser, At
  <1>2. PICK n \in Int : n = Len(ctl) - 3
    <2>1. Len(ctl) - 3 \in Int
      BY CtlLength
    <2> QED BY <2>1
  <1>3. /\ Loading(n) /\ ctl[n + 1].status = "OK"
        /\ Guarding(ctl[n + 2], "protected") /\ NotFailed(ctl[n + 2])
        /\ RegistersAre(ctl[n].before, <<>>) /\ error_jmp = n + 2
    BY <1>1, <1>2 DEF InParser
  <1>4. n \in Nat \ {0, 1} /\ ctl[n] \in RunFrames /\ ctl[n + 1] \in PcallFrames /\ Len(ctl) <= MaxFrames
    BY <1>3 DEF Loading
  <1>5. PICK j \in Nat \ {0} : j = n + 2
    BY <1>4
  <1>6. /\ Len(ctl) = n + 3 /\ Len(ctl) = j + 1 /\ j - 1 = n + 1 /\ j - 2 = n /\ j \in 1..j
        /\ \A i \in 1..n : i \in 1..(j - 1)
        /\ n + 1 \in 1..(j - 1) /\ n \in 1..n
    BY <1>2, <1>4, <1>5, CtlLength
  <1>7. ctl \in Seq(Frames) /\ ctl # <<>>
    BY DEF IInv
  <1>8. ASSUME NEW err \in Errors, NEW msg \in AllMessages, Throw(err, msg)
        PROVE  IInv'
    <2>1. TypedRest'
      BY <1>1, <1>8, ThrowTyped
    <2>2. /\ ctl' \in Seq(Frames) /\ ctl' # <<>> /\ Len(ctl') = j
          /\ \A i \in 1..(j - 1) : ctl'[i] = ctl[i]
          /\ Guarding(ctl'[j], "recovered") /\ ctl'[j].status = err /\ ctl'[j].msg = msg
          /\ UNCHANGED <<outcome, said, error_jmp>>
      <3>1. Rethrow(err, msg)
        BY <1>8 DEF Throw
      <3>2. error_jmp = j /\ Guarding(ctl[j], "protected")
        BY <1>3, <1>5
      <3> QED BY <1>6, <3>1, <3>2, JumpDown
    <2>3. /\ UNCHANGED <<mem, stack, base, pc, func, registry, error_msg>>
          /\ thrown' = [err |-> err, msg |-> msg]
      BY <1>8 DEF Throw, regs
    <2>4. Failed(ctl[j])'
      BY <1>3, <2>2, <2>3 DEF Failed, NotFailed
    <2>5. \A i \in 1..n : ctl'[i] = ctl[i]
      BY <1>6, <2>2
    <2>6. ctl'[n + 1] = ctl[n + 1] /\ ctl'[n] = ctl[n]
      BY <1>6, <2>2, <2>5
    <2>7. Loading(n)'
      <3>1. Len(ctl') <= MaxFrames
        BY <1>4, <1>6, <2>2, ThreadAssumption
      <3> QED BY <1>3, <1>4, <2>3, <2>5, <2>6, <3>1, LoadingKept
    <2>8. RegistersAre(ctl[n].before, <<>>)'
      BY <1>3, <2>3, <2>6 DEF RegistersAre
    <2>9. ParserDone'
      <3>1. n = Len(ctl') - 2
        BY <1>6, <2>2
      <3>2. (ctl[n + 1].status = "OK")' /\ error_jmp' = n + 2
        BY <1>3, <2>2, <2>6
      <3>3. Guarding(ctl'[n + 2], "recovered") /\ Failed(ctl[n + 2])'
        BY <1>5, <2>2, <2>4 DEF Failed
      <3> QED BY <2>7, <2>8, <3>1, <3>2, <3>3 DEF ParserDone, Guarding
    <2> QED BY <1>1, <2>1, <2>2, <2>9 DEF IInv, Shape
  <1>9. ASSUME mem' = mem \cup {"buff"},
               UNCHANGED <<ctl, regs, registry, error_jmp, error_msg, outcome, said, thrown>>
        PROVE  IInv'
    <2>1. InParser'
      BY <1>1, <1>9 DEF InParser, Loading, Guarding, NotFailed, RegistersAre, regs
    <2>2. TypedRest'
      BY <1>9 DEF IInv, TypedRest, AllocationSites
    <2> QED BY <1>1, <1>9, <2>1, <2>2 DEF IInv, Shape
  <1>10. ASSUME stack' = Append(stack, "chunk"), ctl' = Returned,
                UNCHANGED <<mem, base, pc, func, registry, error_jmp, error_msg, outcome, said, thrown>>
         PROVE  IInv'
    <2>1. /\ ctl' \in Seq(Frames) /\ Len(ctl') = j /\ \A i \in 1..j : ctl'[i] = ctl[i]
      <3>1. j + 1 - 1 = j
        OBVIOUS
      <3> QED BY <1>6, <1>7, <1>10, <3>1, FrontProperties DEF Returned
    <2>2. ctl' # <<>>
      BY <2>1
    <2>3. \A i \in 1..n : ctl'[i] = ctl[i]
      BY <1>5, <2>1
    <2>4. ctl'[n] = ctl[n] /\ ctl'[n + 1] = ctl[n + 1] /\ ctl'[n + 2] = ctl[n + 2]
      <3>1. n \in 1..j /\ n + 1 \in 1..j /\ n + 2 \in 1..j
        BY <1>4, <1>5
      <3> QED BY <2>1, <3>1
    <2>5. Loading(n)'
      <3>1. Len(ctl') <= MaxFrames
        BY <1>4, <1>6, <2>1, ThreadAssumption
      <3> QED BY <1>3, <1>4, <1>10, <2>3, <2>4, <3>1, LoadingKept
    <2>6. RegistersAre(ctl[n].before, <<"chunk">>)'
      <3> DEFINE s == ctl[n].before[1]
      <3>1. s \in Seq(Values) /\ "chunk" \in Values
        BY <1>4, BeforeTyped DEF Values
      <3>2. stack = s \o <<>>
        BY <1>3 DEF RegistersAre
      <3> HIDE DEF s
      <3>3. stack = s
        BY <3>1, <3>2, NothingPushed
      <3>4. stack' = s \o <<"chunk">>
        BY <1>10, <3>1, <3>3, AppendIsConcat
      <3> QED BY <1>3, <1>10, <2>4, <3>4 DEF RegistersAre, s
    <2>7. ParserDone'
      <3>1. n = Len(ctl') - 2
        BY <1>6, <2>1
      <3>2. (ctl[n + 1].status = "OK")' /\ error_jmp' = n + 2
        BY <1>3, <1>10, <2>4
      <3>3. Guarding(ctl'[n + 2], "protected") /\ NotFailed(ctl[n + 2])'
        BY <1>3, <1>10, <2>4 DEF NotFailed
      <3> QED BY <2>5, <2>6, <3>1, <3>2, <3>3 DEF ParserDone, Guarding
    <2>8. TypedRest'
      BY <1>10 DEF IInv, TypedRest
    <2> QED BY <1>1, <1>10, <2>1, <2>2, <2>7, <2>8 DEF IInv, Shape
  <1>11. ASSUME NEW site, OutOfMemory(site)
         PROVE  IInv'
    BY <1>8, <1>11 DEF OutOfMemory, Errors, AllMessages
  <1>12. ASSUME NEW msg \in Messages, NEW err \in {"PARSE", "OVER_LIMIT"}, Throw(err, msg)
         PROVE  IInv'
    BY <1>8, <1>12 DEF Errors, AllMessages
  <1> QED BY <1>9, <1>10, <1>11, <1>12 DEF Parser

(* Thread_pcall returns: the registers are as they were.                   *)
LEMMA EndPcallKeeps == IInv /\ EndPcall => IInv'
  <1> SUFFICES ASSUME IInv, EndPcall PROVE IInv'
    OBVIOUS
  <1>1. outcome = "running" /\ InPcall
    BY ShapeOfLabel DEF EndPcall, At
  <1>2. PICK n \in Int : n = Len(ctl) - 1
    <2>1. Len(ctl) - 1 \in Int
      BY CtlLength
    <2> QED BY <2>1
  <1>3. PICK p, before : p = ctl[n + 1] /\ before = ctl[n].before
    OBVIOUS
  <1> DEFINE r == [at |-> "loaded", status |-> p.status, before |-> before]
  <1>4. Loading(n) /\ Outcome(p.status, before) /\ error_jmp = Null
    BY <1>1, <1>2, <1>3 DEF InPcall
  <1>5. /\ n \in Nat \ {0, 1} /\ Len(ctl) <= MaxFrames /\ Spine(ctl, n - 1, base)
        /\ ctl[n] \in RunFrames /\ p \in PcallFrames
        /\ p.top = Len(before[1]) /\ p.base = before[2] /\ p.pc = before[3]
    BY <1>3, <1>4 DEF Loading
  <1>6. Len(ctl) = n + 1 /\ n + 1 - 1 = n /\ n \in Nat \ {0} /\ n <= MaxFrames /\ n \in 1..n
        /\ n - 1 \in Nat \ {0}
    BY <1>2, <1>5, CtlLength, ThreadAssumption
  <1>7. /\ before \in RegisterValues /\ before[1] \in Seq(Values) /\ Len(before[1]) \in Nat
        /\ before[2] \in Nat
    BY <1>3, <1>5, BeforeTyped
  <1>8. Frame = p
    BY <1>3, <1>6 DEF Frame, Last
  <1>9. ctl' = [Front(ctl) EXCEPT ![n] = r]
    <2>1. Front(ctl)[n] = ctl[n]
      <3>1. ctl \in Seq(Frames) /\ ctl # <<>>
        BY DEF IInv
      <3> QED BY <1>6, <3>1, FrontProperties
    <2>2. ctl' = [Front(ctl) EXCEPT ![n] =
                    [at |-> "loaded", status |-> Frame.status, before |-> Front(ctl)[n].before]]
      <3>1. Len(ctl) - 1 = n
        BY <1>2
      <3>2. ctl' = [Returned EXCEPT ![Len(ctl) - 1] =
                      [at |-> "loaded", status |-> Frame.status, before |-> @.before]]
        BY DEF EndPcall
      <3>3. ctl' = [Returned EXCEPT ![n] =
                      [at |-> "loaded", status |-> Frame.status, before |-> @.before]]
        BY <3>1, <3>2
      <3> QED BY <3>3 DEF Returned
    <2> QED BY <1>3, <1>8, <2>1, <2>2
  <1>10. /\ IF p.status = "OK" THEN UNCHANGED <<stack, base, pc>> ELSE Restored(p)
         /\ mem' = mem \ {"buff"}
         /\ UNCHANGED <<func, registry, error_jmp, error_msg, outcome, said, thrown>>
    BY <1>8 DEF EndPcall, BuffFreed
  <1>11. p.status \in Statuses
    BY <1>5 DEF PcallFrames
  <1>12. r \in LoadedFrames /\ r \in Frames /\ r.status = p.status /\ r.before = before
    <2>1. r \in LoadedFrames
      BY <1>7, <1>11 DEF LoadedFrames
    <2> QED BY <2>1 DEF Frames
  <1> HIDE DEF r
  <1>13. /\ ctl' \in Seq(Frames) /\ ctl' # <<>> /\ Len(ctl') = n /\ ctl'[n] = r
         /\ \A i \in 1..(n - 1) : ctl'[i] = ctl[i]
    <2> DEFINE d == [Front(ctl) EXCEPT ![n] = r]
    <2>1. ctl \in Seq(Frames)
      BY DEF IInv
    <2>2. /\ d \in Seq(Frames) /\ d # <<>> /\ Len(d) = n /\ d[n] = r
          /\ \A i \in 1..(n - 1) : d[i] = ctl[i]
      BY <1>6, <1>12, <2>1, ReplaceUnder
    <2>3. ctl' = d
      BY <1>9
    <2> HIDE DEF d
    <2> QED BY <2>2, <2>3
  <1>14. Outcome(p.status, before)' /\ base' = base
    <2>1. CASE p.status = "OK"
      <3>1. UNCHANGED <<stack, base, pc, func, error_msg, thrown>>
        BY <1>10, <2>1
      <3> QED BY <1>4, <3>1 DEF Outcome, RegistersAre
    <2>2. CASE p.status # "OK"
      <3>1. thrown = [err |-> p.status, msg |-> error_msg] /\ RegistersAre(before, <<>>)
        BY <1>4, <2>2 DEF Outcome
      <3>2. Restored(p) /\ UNCHANGED <<func, error_msg, thrown>>
        BY <1>10, <2>2
      <3>3. stack' = before[1]
        <4>1. stack = before[1] \o <<>>
          BY <3>1 DEF RegistersAre
        <4>2. stack' = SubSeq(before[1] \o <<>>, 1, Len(before[1]))
          BY <1>5, <3>2, <4>1 DEF Restored
        <4>3. <<>> \in Seq(Values)
          OBVIOUS
        <4> QED BY <1>7, <4>2, <4>3, CutBack
      <3>4. stack' = before[1] \o <<>>
        BY <1>7, <3>3, NothingPushed
      <3>5. /\ base' = before[2] /\ pc' = before[3] /\ func' = before[4] /\ base = before[2]
            /\ before[2] <= Len(before[1])
        BY <1>5, <3>1, <3>2 DEF Restored, RegistersAre
      <3>6. RegistersAre(before, <<>>)'
        BY <3>4, <3>5 DEF RegistersAre
      <3> QED BY <2>2, <3>1, <3>2, <3>5, <3>6 DEF Outcome
    <2> QED BY <2>1, <2>2
  <1>15. Spine(ctl', n - 1, base')
    <2>1. Spine(ctl', n - 1, base)
      BY <1>5, <1>6, <1>13, SpineSame
    <2> QED BY <1>14, <2>1
  <1>16. InLoaded'
    <2>1. NoBuffer' /\ error_jmp' = Null
      BY <1>4, <1>10 DEF NoBuffer
    <2>2. Outcome(ctl[n].status, ctl[n].before)'
      BY <1>12, <1>13, <1>14 DEF Outcome, RegistersAre
    <2> QED BY <1>5, <1>6, <1>12, <1>13, <1>15, <2>1, <2>2 DEF InLoaded
  <1>17. TypedRest'
    BY <1>10 DEF IInv, TypedRest
  <1> QED BY <1>1, <1>10, <1>13, <1>16, <1>17 DEF IInv, Shape

(* How long it gets.                                                       *)
LEMMA ConcatLength ==
  ASSUME NEW S, NEW s \in Seq(S), NEW t \in Seq(S)
  PROVE  s \o t \in Seq(S) /\ Len(s \o t) = Len(s) + Len(t)
  BY ConcatProperties

(* A function of n is called: its frame is on the spine, and the stack has *)
(* three more slots.                                                       *)
LEMMA Called ==
  ASSUME NEW s \in Seq(Values), NEW b \in 0..Len(s)
  PROVE  /\ s \o <<"pc", "base", "top">> \in Seq(Values)
         /\ Len(s) + 3 \in 0..Len(s \o <<"pc", "base", "top">>)
         /\ Len(s) + 3 \in Nat /\ Len(s) <= Len(s) + 3
  <1> DEFINE t == <<"pc", "base", "top">>
  <1>1. t \in Seq(Values) /\ Len(t) = 3
    BY DEF Values
  <1> HIDE DEF t
  <1>2. s \o t \in Seq(Values) /\ Len(s \o t) = Len(s) + 3
    <2>1. s \o t \in Seq(Values) /\ Len(s \o t) = Len(s) + Len(t)
      BY <1>1, ConcatLength
    <2> QED BY <1>1, <2>1
  <1>3. Len(s) \in Nat
    OBVIOUS
  <1> QED BY <1>2, <1>3 DEF t

(* Thread_run calls the function, or exits with the error caught.          *)
LEMMA LoadedKeeps == IInv /\ Loaded => IInv'
  <1> SUFFICES ASSUME IInv, Loaded PROVE IInv'
    OBVIOUS
  <1>1. outcome = "running" /\ InLoaded
    BY ShapeOfLabel DEF Loaded, At
  <1>2. PICK n \in Nat \ {0} : n = Len(ctl)
    BY CtlLength
  <1>3. PICK status, before : status = ctl[n].status /\ before = ctl[n].before
    OBVIOUS
  <1>4. /\ n \in Nat \ {0, 1} /\ n <= MaxFrames /\ Spine(ctl, n - 1, base)
        /\ ctl[n] \in LoadedFrames
        /\ Outcome(status, before)
        /\ NoBuffer /\ error_jmp = Null
    BY <1>1, <1>2, <1>3 DEF InLoaded
  <1>5. Frame = ctl[n]
    BY <1>2 DEF Frame, Last
  <1>6. /\ before[1] \in Seq(Values) /\ Len(before[1]) \in Nat /\ before[2] \in Nat
        /\ before[3] \in Indexes /\ before[4] \in Indexes
    BY <1>3, <1>4, BeforeTyped
  <1>7. UNCHANGED <<mem, registry, error_msg, thrown>>
    BY DEF Loaded
  <1>8. CASE status = "OK"
    <2> DEFINE r == [at |-> "chunk", before |-> before,
                     top |-> Len(stack), base |-> base, pc |-> pc, func |-> func]
    <2>1. /\ ctl' = [ctl EXCEPT ![n] = r]
          /\ stack' = stack \o <<"pc", "base", "top">> /\ base' = Len(stack) + 3
          /\ pc' = n /\ func' = n
          /\ UNCHANGED <<error_jmp, outcome, said>>
      BY <1>2, <1>3, <1>5, <1>8 DEF Loaded, Top
    <2>2. RegistersAre(before, <<"chunk">>) /\ error_msg = NoMessage
      BY <1>4, <1>8 DEF Outcome
    <2>3. stack \in Seq(Values) /\ Len(stack) = Len(before[1]) + 1
      <3> DEFINE t == <<"chunk">>
      <3>1. t \in Seq(Values) /\ Len(t) = 1
        BY DEF Values
      <3>0. stack = before[1] \o t
        BY <2>2 DEF RegistersAre
      <3> HIDE DEF t, r
      <3>2. PICK u \in Seq(Values) : u = before[1]
        BY <1>6
      <3>3. u \o t \in Seq(Values) /\ Len(u \o t) = Len(u) + 1
        <4>1. u \o t \in Seq(Values) /\ Len(u \o t) = Len(u) + Len(t)
          BY <3>1, ConcatLength
        <4> QED BY <3>1, <4>1
      <3> QED BY <3>0, <3>2, <3>3
    <2>4. base \in 0..(Len(stack) - 1) /\ base \in 0..Len(stack) /\ Len(stack) \in Nat
          /\ pc \in Indexes /\ func \in Indexes /\ base \in Nat
      <3>1. base = before[2] /\ pc = before[3] /\ func = before[4] /\ before[2] <= Len(before[1])
        BY <2>2 DEF RegistersAre
      <3> QED BY <1>6, <2>3, <3>1
    <2>5. /\ r \in SavedFrames /\ r \in Frames /\ r.at = "chunk"
          /\ r.top = Len(stack) /\ r.base = base
      <3>1. before \in RegisterValues
        BY <1>3, <1>4, BeforeTyped
      <3>2. r \in SavedFrames
        BY <2>4, <3>1 DEF SavedFrames, ChunkFrames
      <3> QED BY <3>2 DEF Frames
    <2> HIDE DEF r
    <2>6. Restorable(r)
      BY <2>4, <2>5 DEF Restorable, TopRestored
    <2>7. /\ ctl' \in Seq(Frames) /\ ctl' # <<>> /\ Len(ctl') = n /\ ctl'[n] = r
          /\ \A i \in 1..(n - 1) : ctl'[i] = ctl[i]
      <3>1. ctl \in Seq(Frames) /\ Len(ctl) = n
        BY <1>2 DEF IInv
      <3> QED BY <2>1, <2>5, <3>1, ReplaceLast
    <2>8. /\ stack' \in Seq(Values) /\ base' \in 0..Len(stack') /\ base' \in Nat /\ r.top <= base'
      BY <2>1, <2>3, <2>4, <2>5, Called
    <2>9. Spine(ctl', n, base')
      <3>1. PICK m \in Nat \ {0} : n = m + 1 /\ m = n - 1
        <4>1. n - 1 \in Nat \ {0} /\ n = n - 1 + 1
          BY <1>4
        <4> QED BY <4>1
      <3>2. Spine(ctl', m, base)
        BY <1>4, <2>7, <3>1, SpineSame
      <3>3. /\ ctl'[m + 1] \in SavedFrames /\ Restorable(ctl'[m + 1]) /\ ctl'[m + 1].base = base
            /\ ctl'[m + 1].top <= base'
        BY <2>5, <2>6, <2>7, <2>8, <3>1
      <3>4. Spine(ctl', m + 1, base')
        BY <2>4, <2>8, <3>2, <3>3, SpineLonger
      <3> QED BY <3>1, <3>4
    <2>10. InCode'
      <3>1. (Frame.at \in {"host", "chunk"})'
        BY <2>5, <2>7 DEF Frame, Last
      <3>2. n \in Indexes
        BY <1>4, ThreadAssumption DEF Indexes
      <3>3. NoBuffer' /\ error_jmp' = Null /\ error_msg' = NoMessage
        BY <1>4, <1>7, <2>1, <2>2 DEF NoBuffer
      <3> QED BY <1>4, <2>1, <2>7, <2>8, <2>9, <3>1, <3>2, <3>3 DEF InCode
    <2>11. TypedRest'
      BY <1>7, <2>1 DEF IInv, TypedRest
    <2> QED BY <1>1, <2>1, <2>7, <2>10, <2>11 DEF IInv, Shape
  <1>9. CASE status # "OK"
    <2>1. Rethrow(status, NoMessage) /\ UNCHANGED regs
      BY <1>3, <1>5, <1>9 DEF Loaded, AsItWas
    <2>2. Exit(status, NoMessage)
      BY <1>4, <2>1, ThrowExits
    <2>3. /\ UNCHANGED <<ctl, stack, base, pc, func, error_jmp>>
          /\ outcome' = "exit" /\ said' = [err |-> status, msg |-> error_msg]
      BY <2>1, <2>2 DEF Exit, regs
    <2>4. thrown = [err |-> status, msg |-> error_msg]
      BY <1>4, <1>9 DEF Outcome
    <2>5. InLoaded'
      BY <1>1, <1>7, <2>3 DEF InLoaded, Outcome, RegistersAre, NoBuffer
    <2>6. TypedRest'
      BY <1>7, <2>3, <2>4 DEF IInv, TypedRest
    <2> QED BY <1>7, <2>3, <2>4, <2>5, <2>6 DEF IInv, Shape
  <1> QED BY <1>8, <1>9

-----------------------------------------------------------------------------
(* An open thread. *)

(* Temporaries come and go.                                                *)
LEMMA WorkKeeps == IInv /\ Work => IInv'
  <1> SUFFICES ASSUME IInv, Work PROVE IInv'
    OBVIOUS
  <1>1. outcome = "running" /\ InCode
    BY ShapeOfLabel DEF Work, At
  <1>2. stack \in Seq(Values) /\ base \in 0..Len(stack) /\ Len(stack) \in Nat
    BY <1>1 DEF InCode
  <1>3. UNCHANGED <<ctl, mem, base, pc, func, registry, error_jmp, error_msg, outcome, said, thrown>>
    BY DEF Work
  <1>4. stack' \in Seq(Values) /\ base' \in 0..Len(stack')
    <2>1. CASE Top = base /\ stack' = Append(stack, "value")
      <3>1. "value" \in Values
        BY DEF Values
      <3>2. stack' \in Seq(Values) /\ Len(stack') = Len(stack) + 1
        BY <1>2, <2>1, <3>1, AppendProperties
      <3> QED BY <1>2, <1>3, <3>2
    <2>2. CASE Top > base /\ stack' = Front(stack)
      <3>1. Len(stack) > base
        BY <2>2 DEF Top
      <3>2. stack # <<>>
        BY <1>2, <3>1
      <3>3. stack' \in Seq(Values) /\ Len(stack') = Len(stack) - 1
        BY <1>2, <2>2, <3>2, FrontProperties
      <3> QED BY <1>2, <1>3, <3>1, <3>3
    <2> QED BY <2>1, <2>2 DEF Work
  <1>5. InCode'
    BY <1>1, <1>3, <1>4 DEF InCode, Frame, NoBuffer
  <1>6. TypedRest'
    BY <1>3 DEF IInv, TypedRest
  <1> QED BY <1>1, <1>3, <1>5, <1>6 DEF IInv, Shape

(* An error in code exits: there is no recover point.                      *)
LEMMA FaultKeeps == IInv /\ Fault => IInv'
  <1> SUFFICES ASSUME IInv, Fault PROVE IInv'
    OBVIOUS
  <1>1. outcome = "running" /\ InCode
    BY ShapeOfLabel DEF Fault, At
  <1>2. PICK err \in Errors, msg \in AllMessages : Throw(err, msg)
    BY DEF Fault, OutOfMemory, Errors, AllMessages
  <1>3. error_jmp = Null /\ error_msg = NoMessage
    BY <1>1 DEF InCode
  <1>4. /\ UNCHANGED <<ctl, mem, stack, base, pc, func, registry, error_jmp, error_msg>>
        /\ outcome' = "exit" /\ said' = thrown'
        /\ TypedRest'
    BY <1>1, <1>2, <1>3, ThrowEnds
  <1>5. InCode'
    BY <1>1, <1>4 DEF InCode, Frame, NoBuffer
  <1> QED BY <1>4, <1>5 DEF IInv, Shape

(* nf::close.                                                              *)
LEMMA CloseKeeps == IInv /\ Close => IInv'
  <1> SUFFICES ASSUME IInv, Close PROVE IInv'
    OBVIOUS
  <1>1. outcome = "running" /\ InCode
    BY ShapeOfLabel DEF Close, At
  <1>2. /\ mem' = mem \ {"stack", "twin"}
        /\ UNCHANGED <<ctl, regs, registry, error_jmp, error_msg, outcome, said, thrown>>
    BY DEF Close
  <1>3. InCode'
    BY <1>1, <1>2 DEF InCode, Frame, NoBuffer, regs
  <1>4. TypedRest'
    BY <1>2 DEF IInv, TypedRest
  <1> QED BY <1>1, <1>2, <1>3, <1>4 DEF IInv, Shape

(* A C function is called.                                                 *)
LEMMA CallHostKeeps == IInv /\ CallHost => IInv'
  <1> SUFFICES ASSUME IInv, CallHost PROVE IInv'
    OBVIOUS
  <1>1. outcome = "running" /\ InCode /\ Len(ctl) < MaxFrames
    BY ShapeOfLabel DEF CallHost, At
  <1>2. PICK n \in Nat \ {0} : n = Len(ctl)
    BY CtlLength
  <1> DEFINE r == [at |-> "host", top |-> Len(stack), base |-> base, pc |-> pc, func |-> func]
  <1>3. /\ Spine(ctl, n, base) /\ stack \in Seq(Values) /\ base \in 0..Len(stack)
        /\ pc \in Indexes /\ func \in Indexes
        /\ NoBuffer /\ error_jmp = Null /\ error_msg = NoMessage
    BY <1>1, <1>2 DEF InCode
  <1>4. Len(stack) \in Nat /\ base \in Nat /\ base <= Len(stack)
    BY <1>3
  <1>5. /\ ctl' = Append(ctl, r)
        /\ stack' = stack \o <<"pc", "base", "top">> /\ base' = Len(stack) + 3
        /\ func' = n + 1
        /\ UNCHANGED <<mem, pc, registry, error_jmp, error_msg, outcome, said, thrown>>
    BY <1>2 DEF CallHost, Top
  <1>6. r \in SavedFrames /\ r \in Frames /\ r.at = "host" /\ r.top = Len(stack) /\ r.base = base
    <2>1. r \in SavedFrames
      BY <1>3, <1>4 DEF SavedFrames, HostFrames, ChunkFrames
    <2> QED BY <2>1 DEF Frames
  <1> HIDE DEF r
  <1>7. Restorable(r)
    BY <1>4, <1>6 DEF Restorable, TopRestored
  <1>8. /\ ctl' \in Seq(Frames) /\ ctl' # <<>> /\ Len(ctl') = n + 1 /\ ctl'[n + 1] = r
        /\ \A i \in 1..n : ctl'[i] = ctl[i]
    <2>1. ctl \in Seq(Frames)
      BY DEF IInv
    <2> QED BY <1>2, <1>5, <1>6, <2>1, AppendProperties
  <1>9. /\ stack' \in Seq(Values) /\ base' \in 0..Len(stack') /\ base' \in Nat /\ r.top <= base'
    BY <1>3, <1>4, <1>5, <1>6, Called
  <1>10. Spine(ctl', n + 1, base')
    <2>1. Spine(ctl', n, base)
      BY <1>3, <1>8, SpineSame
    <2>2. /\ ctl'[n + 1] \in SavedFrames /\ Restorable(ctl'[n + 1]) /\ ctl'[n + 1].base = base
          /\ ctl'[n + 1].top <= base'
      BY <1>6, <1>7, <1>8, <1>9
    <2> QED BY <1>4, <1>9, <2>1, <2>2, SpineLonger
  <1>11. InCode'
    <2>1. (Frame.at \in {"host", "chunk"})'
      BY <1>6, <1>8 DEF Frame, Last
    <2>2. n + 1 \in Indexes /\ n + 1 <= MaxFrames
      BY <1>1, <1>2, ThreadAssumption DEF Indexes
    <2> QED BY <1>3, <1>5, <1>8, <1>9, <1>10, <2>1, <2>2 DEF InCode, NoBuffer
  <1>12. TypedRest'
    BY <1>5 DEF IInv, TypedRest
  <1> QED BY <1>1, <1>5, <1>8, <1>11, <1>12 DEF IInv, Shape

(* A function returns to the frame under its own.                          *)
LEMMA ReturnKeeps == IInv /\ Return => IInv'
  <1> SUFFICES ASSUME IInv, Return PROVE IInv'
    OBVIOUS
  <1>1. outcome = "running" /\ InCode /\ (At("chunk") \/ Len(ctl) > 1)
    BY ShapeOfLabel DEF Return, At
  <1>2. PICK n \in Nat \ {0} : n = Len(ctl)
    BY CtlLength
  <1>3. /\ n = 1 \/ n <= MaxFrames
        /\ Spine(ctl, n, base) /\ stack \in Seq(Values) /\ base \in 0..Len(stack)
        /\ NoBuffer /\ error_jmp = Null /\ error_msg = NoMessage
    BY <1>1, <1>2 DEF InCode
  <1>4. PICK f : f = ctl[n]
    OBVIOUS
  <1>5. Frame = f /\ (At("chunk") <=> f.at = "chunk")
    BY <1>1, <1>2, <1>4 DEF Frame, Last, At, IInv
  <1>6. n \in Nat \ {0, 1}
    <2>1. CASE n = 1
      <3>1. ctl[1] = [at |-> "host"]
        BY <1>3, <2>1 DEF Spine
      <3>2. f.at = "host"
        BY <1>4, <2>1, <3>1
      <3> QED BY <1>1, <1>2, <1>5, <2>1, <3>2
    <2> QED BY <2>1
  <1>7. PICK m \in Nat \ {0} : n = m + 1 /\ m = n - 1
    <2>1. n - 1 \in Nat \ {0} /\ n = n - 1 + 1
      BY <1>6
    <2> QED BY <2>1
  <1>8. Spine(ctl, m, f.base) /\ f \in SavedFrames /\ Restorable(f) /\ f.top <= base
    BY <1>3, <1>4, <1>6, <1>7, SpineShorter
  <1>9. PICK t : t = TopRestored(f)
    OBVIOUS
  <1>10. /\ stack' = SubSeq(stack, 1, t)
         /\ base' = f.base /\ pc' = f.pc /\ func' = f.func
         /\ ctl' = Front(ctl)
         /\ UNCHANGED <<mem, registry, error_jmp, error_msg, outcome, said, thrown>>
    BY <1>5, <1>9 DEF Return, Returned
  <1>11. f.top \in Nat /\ f.base \in Nat /\ f.pc \in Indexes /\ f.func \in Indexes
    BY <1>8 DEF SavedFrames, HostFrames, ChunkFrames
  <1>12. t \in 0..Len(stack) /\ f.base \in 0..t
    <2>1. f.base <= t
      BY <1>8, <1>9 DEF Restorable, TopRestored
    <2>2. t <= f.top /\ t \in Int
      BY <1>9, <1>11 DEF TopRestored
    <2>3. Len(stack) \in Nat /\ base <= Len(stack) /\ base \in Nat
      BY <1>3
    <2> QED BY <1>8, <1>11, <2>1, <2>2, <2>3
  <1>13. stack' \in Seq(Values) /\ Len(stack') = t
    BY <1>3, <1>10, <1>12, PrefixProperties
  <1>14. /\ ctl' \in Seq(Frames) /\ Len(ctl') = m /\ \A i \in 1..m : ctl'[i] = ctl[i]
    <2>1. ctl \in Seq(Frames) /\ ctl # <<>> /\ Len(ctl) - 1 = m
      BY <1>2, <1>7 DEF IInv
    <2> QED BY <1>10, <2>1, FrontProperties
  <1>15. ctl' # <<>>
    BY <1>14
  <1>16. Spine(ctl', m, f.base)
    BY <1>8, <1>14, SpineSame
  <1>17. (Frame.at \in {"host", "chunk"})'
    <2>1. m \in 1..m
      OBVIOUS
    <2>2. ctl'[m] = ctl[m]
      BY <1>14, <2>1
    <2>3. CASE m = 1
      BY <1>14, <1>16, <2>3 DEF Frame, Last, Spine
    <2>4. CASE m # 1
      <3>1. m \in 2..m
        BY <2>4
      <3>2. ctl[m] \in SavedFrames
        BY <1>8, <3>1 DEF Spine
      <3>3. ctl[m].at \in {"host", "chunk"}
        BY <3>2 DEF SavedFrames, HostFrames, ChunkFrames
      <3> QED BY <1>14, <2>2, <3>3 DEF Frame, Last
    <2> QED BY <2>3, <2>4
  <1>18. InCode'
    <2>1. Len(ctl') = 1 \/ Len(ctl') <= MaxFrames
      BY <1>3, <1>6, <1>7, <1>14, ThreadAssumption
    <2> QED BY <1>3, <1>10, <1>11, <1>12, <1>13, <1>14, <1>16, <1>17, <2>1 DEF InCode, NoBuffer
  <1>19. TypedRest'
    BY <1>10 DEF IInv, TypedRest
  <1> QED BY <1>1, <1>10, <1>14, <1>15, <1>18, <1>19 DEF IInv, Shape

-----------------------------------------------------------------------------
(* The invariant holds always. *)

(* Every step keeps the invariant.                                         *)
LEMMA NextKeeps == IInv /\ [Next]_tvars => IInv'
  <1> SUFFICES ASSUME IInv, [Next]_tvars PROVE IInv'
    OBVIOUS
  <1>1. CASE Next
    BY <1>1, OpenKeeps, StepOneKeeps, RunStepTwoKeeps, OpenedKeeps, LibKeeps, LibsDoneKeeps, StepTwoKeeps,
       ParserKeeps, EndProtectedKeeps, RunKeeps, EndPcallKeeps, LoadedKeeps, WorkKeeps, FaultKeeps,
       CallHostKeeps, ReturnKeeps, CloseKeeps
       DEF Next, UnderRecovery
  <1>2. CASE UNCHANGED tvars
    <2>1. UNCHANGED <<ctl, mem, stack, base, pc, func, registry, error_jmp, error_msg, outcome, said, thrown>>
      BY <1>2 DEF tvars
    <2>2. Shape'
      <3>1. Shape
        BY DEF IInv
      <3>2. ASSUME NEW n, Loading(n)
            PROVE  Loading(n)'
        BY <2>1, <3>2 DEF Loading
      <3>3. ASSUME NEW label, NEW jmp, Beginning(label, jmp)
            PROVE  Beginning(label, jmp)'
        BY <2>1, <3>3 DEF Beginning, Fresh, NoBuffer
      <3>4. (InStepTwo => InStepTwo') /\ (StepTwoDone => StepTwoDone') /\ (InOpened => InOpened')
        BY <2>1 DEF InStepTwo, StepTwoDone, InOpened, Guarding, NotFailed, Failed, Fresh, NoBuffer
      <3>5. InLib => InLib'
        BY <2>1 DEF InLib, AfterCalls, NoBuffer
      <3>6. InCode => InCode'
        BY <2>1 DEF InCode, Frame, NoBuffer
      <3>7. InParser => InParser'
        BY <2>1 DEF InParser, Loading, Guarding, NotFailed, RegistersAre
      <3>8. ParserDone => ParserDone'
        BY <2>1 DEF ParserDone, Loading, Guarding, NotFailed, Failed, RegistersAre
      <3>9. InPcall => InPcall'
        BY <2>1 DEF InPcall, Loading, Outcome, RegistersAre
      <3>10. InLoaded => InLoaded'
        BY <2>1 DEF InLoaded, Outcome, RegistersAre, NoBuffer
      <3> QED BY <3>1, <3>3, <3>4, <3>5, <3>6, <3>7, <3>8, <3>9, <3>10 DEF Shape
    <2>3. TypedRest'
      BY <2>1 DEF IInv, TypedRest
    <2> QED BY <2>1, <2>2, <2>3 DEF IInv
  <1> QED BY <1>1, <1>2

(* So it holds always.                                                     *)
LEMMA IInvAlways == Spec => []IInv
  BY InitIInv, NextKeeps, PTL DEF Spec

-----------------------------------------------------------------------------
(* What follows from it. *)

(* A frame has a label. *)
LEMMA FrameLabels == \A frame \in Frames : frame.at \in Labels
  <1> SUFFICES ASSUME NEW frame \in Frames PROVE frame.at \in Labels
    OBVIOUS
  <1>1. CASE frame \in PlainFrames
    BY <1>1 DEF PlainFrames, Labels
  <1>2. CASE frame \in OpenedFrames \/ frame \in LibFrames \/ frame \in SavedFrames
    BY <1>2 DEF OpenedFrames, LibFrames, SavedFrames, HostFrames, ChunkFrames, Labels
  <1>3. CASE frame \in RunFrames \/ frame \in LoadedFrames
    BY <1>3 DEF RunFrames, LoadedFrames, Labels
  <1>4. CASE frame \in PcallFrames \/ frame \in GuardFrames
    BY <1>4 DEF PcallFrames, GuardFrames, Labels
  <1> QED BY <1>1, <1>2, <1>3, <1>4 DEF Frames

(* Registers put back, with what was pushed, have their types. *)
LEMMA RegistersTyped ==
  ASSUME NEW before, NEW pushed \in Seq(Values), RegistersAre(before, pushed),
         before[1] \in Seq(Values), before[2] \in Nat, before[3] \in Indexes, before[4] \in Indexes
  PROVE  stack \in Seq(Values) /\ base \in 0..Len(stack) /\ pc \in Indexes /\ func \in Indexes
  <1>1. stack = before[1] \o pushed /\ base = before[2] /\ pc = before[3] /\ func = before[4]
        /\ before[2] <= Len(before[1])
    BY DEF RegistersAre
  <1>2. PICK s \in Seq(Values) : s = before[1]
    OBVIOUS
  <1>3. s \o pushed \in Seq(Values) /\ Len(s \o pushed) = Len(s) + Len(pushed)
    BY ConcatLength
  <1>4. Len(s) \in Nat /\ Len(pushed) \in Nat
    OBVIOUS
  <1>5. base \in 0..Len(stack)
    BY <1>1, <1>2, <1>3, <1>4
  <1> QED BY <1>1, <1>2, <1>3, <1>5

(* So they have while a text is loaded. *)
LEMMA LoadingTyped ==
  ASSUME NEW frame, frame \in RunFrames \cup LoadedFrames,
         RegistersAre(frame.before, <<>>) \/ RegistersAre(frame.before, <<"chunk">>)
  PROVE  stack \in Seq(Values) /\ base \in 0..Len(stack) /\ pc \in Indexes /\ func \in Indexes
  <1>1. PICK before : before = frame.before
    OBVIOUS
  <1>2. <<>> \in Seq(Values) /\ <<"chunk">> \in Seq(Values)
    BY DEF Values
  <1>3. /\ before[1] \in Seq(Values) /\ before[2] \in Nat
        /\ before[3] \in Indexes /\ before[4] \in Indexes
    BY <1>1, BeforeTyped
  <1>4. RegistersAre(before, <<>>) \/ RegistersAre(before, <<"chunk">>)
    BY <1>1
  <1>5. CASE RegistersAre(before, <<>>)
    BY <1>2, <1>3, <1>5, RegistersTyped
  <1>6. CASE RegistersAre(before, <<"chunk">>)
    BY <1>2, <1>3, <1>6, RegistersTyped
  <1> QED BY <1>4, <1>5, <1>6

(* In every shape they have them. *)
LEMMA RegistersHaveTypes ==
  ASSUME IInv
  PROVE  stack \in Seq(Values) /\ base \in 0..Len(stack) /\ pc \in Indexes /\ func \in Indexes
  <1> DEFINE Typed == stack \in Seq(Values) /\ base \in 0..Len(stack) /\ pc \in Indexes /\ func \in Indexes
  <1>0. 0 \in Indexes
    BY ThreadAssumption DEF Indexes
  <1>1. Fresh => Typed
    BY <1>0 DEF Fresh
  <1>2. InLib => Typed
    <2>1. ASSUME InLib
          PROVE  Typed
      <3>1. PICK k \in 0..12 : k = ctl[1].done
        BY <2>1 DEF InLib, LibFrames
      <3>2. StackAfter(k, stack) /\ base = 0 /\ pc = 0 /\ func = 0
        BY <2>1, <3>1 DEF InLib, AfterCalls
      <3>3. k \in {0, 1, 2, 3, 4, 5, 6, 7, 8, 9, 10, 11, 12}
        OBVIOUS
      <3>4. stack \in Seq(Values)
        <4>1. \A n, texts : Holds(stack, n, texts) => stack \in Seq(Values)
          BY DEF Holds
        <4>2. stack = <<>> => stack \in Seq(Values)
          OBVIOUS
        <4> HIDE DEF Typed
        <4>3. stack = <<>> \/ \E n, texts : Holds(stack, n, texts)
          BY <3>2, <3>3 DEF StackAfter
        <4> QED BY <4>1, <4>2, <4>3
      <3> QED BY <1>0, <3>2, <3>4
    <2> QED BY <2>1
  <1>3. InCode => Typed
    BY DEF InCode
  <1>4. ASSUME NEW n, Loading(n), RegistersAre(ctl[n].before, <<>>) \/ RegistersAre(ctl[n].before, <<"chunk">>)
        PROVE  Typed
    <2>1. ctl[n] \in RunFrames \cup LoadedFrames
      BY <1>4 DEF Loading
    <2> HIDE DEF Indexes
    <2> QED BY <1>4, <2>1, LoadingTyped
  <1>5. (InParser \/ ParserDone \/ InPcall) => Typed
    BY <1>4 DEF InParser, ParserDone, InPcall, Outcome
  <1>6. InLoaded => Typed
    <2>1. ASSUME InLoaded
          PROVE  Typed
      <3>1. ctl[Len(ctl)] \in RunFrames \cup LoadedFrames
        BY <2>1 DEF InLoaded
      <3>2. RegistersAre(ctl[Len(ctl)].before, <<>>) \/ RegistersAre(ctl[Len(ctl)].before, <<"chunk">>)
        BY <2>1 DEF InLoaded, Outcome
      <3> QED BY <3>1, <3>2, LoadingTyped
    <2> QED BY <2>1
  <1> HIDE DEF Typed
  <1>7. Typed
    BY <1>1, <1>2, <1>3, <1>5, <1>6
       DEF IInv, Shape, Beginning, InStepTwo, StepTwoDone, InOpened
  <1> QED BY <1>7 DEF Typed

(* The first n frames of a spine are no recover points, nor are they       *)
(* Thread_pcall's.                                                         *)
LEMMA SpineLabels ==
  ASSUME NEW c, NEW n, NEW b, Spine(c, n, b), NEW f \in 1..n
  PROVE  c[f].at \in {"host", "chunk"}
  <1>1. CASE f = 1
    BY <1>1 DEF Spine
  <1>2. CASE f # 1
    <2>1. c[f] \in SavedFrames
      BY <1>2 DEF Spine
    <2> QED BY <2>1 DEF SavedFrames, HostFrames, ChunkFrames
  <1> QED BY <1>1, <1>2

(* Neither are the frames of Thread_run and Thread_pcall on it.            *)
LEMMA LoadingLabels ==
  ASSUME NEW n, Loading(n), NEW f \in 1..(n + 1)
  PROVE  ctl[f].at \in {"host", "chunk", "run", "pcall"}
  <1>1. n \in Nat \ {0, 1} /\ Spine(ctl, n - 1, base) /\ ctl[n] \in RunFrames /\ ctl[n + 1] \in PcallFrames
    BY DEF Loading
  <1>2. CASE f \in 1..(n - 1)
    BY <1>1, <1>2, SpineLabels
  <1>3. CASE f = n
    BY <1>1, <1>3 DEF RunFrames
  <1>4. CASE f = n + 1
    BY <1>1, <1>4 DEF PcallFrames
  <1> QED BY <1>1, <1>2, <1>3, <1>4

(* No recover point, or one on top of what has none.                       *)
LEMMA RecoverPointOfShape ==
  ASSUME IInv
  PROVE  \/ Beginning("open", Garbage) \/ Beginning("step_one", Garbage)
         \/ error_jmp = Null /\ Protecting = {}
         \/ error_jmp \in DOMAIN ctl /\ Protecting = {error_jmp}
  <1> DEFINE Guards(f) == ctl[f].at \in {"protected", "recovered"}
             None == error_jmp = Null /\ Protecting = {}
             One == error_jmp \in DOMAIN ctl /\ Protecting = {error_jmp}
  <1>1. DOMAIN ctl = 1..Len(ctl) /\ Len(ctl) \in Nat \ {0}
    BY CtlLength
  <1>0. Len(ctl) - 1 \in Int /\ Len(ctl) - 2 \in Int /\ Len(ctl) - 3 \in Int
    BY <1>1
  <1>2. ASSUME error_jmp = Null, \A f \in 1..Len(ctl) : ~Guards(f)
        PROVE  None
    BY <1>1, <1>2 DEF Protecting
  <1>3. ASSUME error_jmp \in 1..Len(ctl), Guards(error_jmp),
               \A f \in 1..Len(ctl) : f # error_jmp => ~Guards(f)
        PROVE  One
    BY <1>1, <1>3 DEF Protecting
  <1> HIDE DEF None, One
  <1>4. ASSUME Beginning("run_step_two", Null)
        PROVE  None
    <2>1. Len(ctl) = 1 /\ ctl[1].at = "run_step_two" /\ error_jmp = Null
      BY <1>4 DEF Beginning
    <2> QED BY <1>2, <2>1
  <1>5. ASSUME InStepTwo
        PROVE  One
    <2>1. Len(ctl) = 3 /\ ctl[1].at = "opened" /\ Guards(2) /\ ctl[3].at = "step_two" /\ error_jmp = 2
      BY <1>5 DEF InStepTwo, Guarding
    <2>2. \A f \in 1..3 : f = 1 \/ f = 2 \/ f = 3
      OBVIOUS
    <2> QED BY <1>3, <2>1, <2>2
  <1>6. ASSUME StepTwoDone
        PROVE  One
    <2>1. Len(ctl) = 2 /\ ctl[1].at = "opened" /\ Guards(2) /\ error_jmp = 2
      BY <1>6 DEF StepTwoDone, Guarding
    <2>2. \A f \in 1..2 : f = 1 \/ f = 2
      OBVIOUS
    <2> QED BY <1>3, <2>1, <2>2
  <1>7. ASSUME InOpened \/ InLib
        PROVE  None
    <2>1. Len(ctl) = 1 /\ ctl[1].at \in {"opened", "lib"} /\ error_jmp = Null
      BY <1>7 DEF InOpened, InLib, OpenedFrames, LibFrames
    <2> QED BY <1>2, <2>1
  <1>8. ASSUME InCode
        PROVE  None
    <2>1. Spine(ctl, Len(ctl), base) /\ error_jmp = Null
      BY <1>8 DEF InCode
    <2>2. \A f \in 1..Len(ctl) : ctl[f].at \in {"host", "chunk"}
      BY <2>1, SpineLabels
    <2> QED BY <1>2, <2>1, <2>2
  <1>9. ASSUME NEW n \in Nat \ {0, 1}, Loading(n), error_jmp = n + 2, Guards(n + 2),
               Len(ctl) = n + 2 \/ (Len(ctl) = n + 3 /\ ctl[n + 3].at = "parser")
        PROVE  One
    <2>1. \A f \in 1..(n + 1) : ~Guards(f)
      BY <1>9, LoadingLabels
    <2>2. error_jmp \in 1..Len(ctl)
      BY <1>9
    <2>3. ASSUME NEW f \in 1..Len(ctl), f # error_jmp
          PROVE  ~Guards(f)
      <3>1. CASE f \in 1..(n + 1)
        BY <2>1, <3>1
      <3>2. CASE f \notin 1..(n + 1)
        <4>1. f = n + 3 /\ Len(ctl) = n + 3
          BY <1>9, <2>3, <3>2
        <4>2. ctl[n + 3].at = "parser"
          BY <1>9, <4>1
        <4> QED BY <4>1, <4>2
      <3> QED BY <3>1, <3>2
    <2> QED BY <1>3, <1>9, <2>2, <2>3
  <1>10. ASSUME InParser \/ ParserDone
         PROVE  One
    <2>1. CASE InParser
      <3>1. PICK n \in Int : n = Len(ctl) - 3
        BY <1>0
      <3>2. Loading(n) /\ error_jmp = n + 2 /\ Guards(n + 2) /\ ctl[n + 3].at = "parser"
        BY <2>1, <3>1 DEF InParser, Guarding
      <3>3. n \in Nat \ {0, 1} /\ Len(ctl) = n + 3
        BY <1>1, <3>1, <3>2 DEF Loading
      <3> QED BY <1>9, <3>2, <3>3
    <2>2. CASE ParserDone
      <3>1. PICK n \in Int : n = Len(ctl) - 2
        BY <1>0
      <3>2. Loading(n) /\ error_jmp = n + 2 /\ Guards(n + 2)
        BY <2>2, <3>1 DEF ParserDone, Guarding
      <3>3. n \in Nat \ {0, 1} /\ Len(ctl) = n + 2
        BY <1>1, <3>1, <3>2 DEF Loading
      <3> QED BY <1>9, <3>2, <3>3
    <2> QED BY <1>10, <2>1, <2>2
  <1>11. ASSUME InPcall
         PROVE  None
    <2>1. PICK n \in Int : n = Len(ctl) - 1
      BY <1>0
    <2>2. Loading(n) /\ error_jmp = Null
      BY <1>11, <2>1 DEF InPcall
    <2>3. Len(ctl) = n + 1
      BY <1>1, <2>1
    <2>4. \A f \in 1..(n + 1) : ~Guards(f)
      BY <2>2, LoadingLabels
    <2> QED BY <1>2, <2>2, <2>3, <2>4
  <1>12. ASSUME InLoaded
         PROVE  None
    <2>1. PICK n \in Nat \ {0} : n = Len(ctl)
      BY <1>1
    <2>2. Spine(ctl, n - 1, base) /\ ctl[n].at = "loaded" /\ error_jmp = Null
      BY <1>12, <2>1 DEF InLoaded, LoadedFrames
    <2>3. ASSUME NEW f \in 1..n
          PROVE  ~Guards(f)
      <3>1. CASE f = n
        BY <2>2, <3>1
      <3>2. CASE f # n
        <4>1. f \in 1..(n - 1)
          BY <3>2
        <4> QED BY <2>2, <4>1, SpineLabels
      <3> QED BY <3>1, <3>2
    <2> QED BY <1>2, <2>1, <2>2, <2>3
  <1>13. Shape
    BY DEF IInv
  <1>14. Beginning("open", Garbage) \/ Beginning("step_one", Garbage) \/ None \/ One
    BY <1>4, <1>5, <1>6, <1>7, <1>8, <1>10, <1>11, <1>12, <1>13 DEF Shape
  <1> QED BY <1>14 DEF None, One

(* What error_jmp says of the recover points there are. *)
OneRecoverPoint == Protecting = IF error_jmp \in {Null, Garbage} THEN {} ELSE {error_jmp}
(* There is at most one, and error_jmp is it. *)
LEMMA RecoverPointIsOne == IInv => OneRecoverPoint
  <1> SUFFICES ASSUME IInv PROVE OneRecoverPoint
    OBVIOUS
  <1>1. DOMAIN ctl = 1..Len(ctl) /\ Len(ctl) \in Nat
    BY CtlLength
  <1>2. ASSUME NEW label \in {"open", "step_one"}, Beginning(label, Garbage)
        PROVE  OneRecoverPoint
    <2>1. error_jmp = Garbage /\ DOMAIN ctl = {1} /\ ctl[1].at = label
      BY <1>2 DEF Beginning
    <2> QED BY <1>2, <2>1 DEF OneRecoverPoint, Protecting
  <1>3. CASE error_jmp = Null /\ Protecting = {}
    BY <1>3 DEF OneRecoverPoint
  <1>4. CASE error_jmp \in DOMAIN ctl /\ Protecting = {error_jmp}
    <2>1. error_jmp \notin {Null, Garbage}
      BY <1>1, <1>4
    <2> QED BY <1>4, <2>1 DEF OneRecoverPoint
  <1> QED BY <1>2, <1>3, <1>4, RecoverPointOfShape

(* Also after a step. *)
LEMMA RecoverPointIsOneNext == IInv' => OneRecoverPoint'
  BY RecoverPointIsOne, PTL

-----------------------------------------------------------------------------
(* Chunks.                                                                 *)

(* In each shape the frames of chunks are on the spine. *)
LEMMA ChunkOnSpine ==
  ASSUME IInv, NEW f \in DOMAIN ctl, ctl[f].at = "chunk"
  PROVE  /\ Frame.at \in {"host", "chunk", "parser", "protected", "recovered", "pcall", "loaded"}
         /\ \E n \in 1..Len(ctl) : Spine(ctl, n, base) /\ f \in 2..n /\ (InCode => n = Len(ctl))
  <1> DEFINE label == Frame.at
             Good == \E n \in 1..Len(ctl) : Spine(ctl, n, base) /\ f \in 2..n /\ (InCode => n = Len(ctl))
  <1>1. DOMAIN ctl = 1..Len(ctl) /\ Len(ctl) \in Nat \ {0} /\ f \in 1..Len(ctl)
    BY CtlLength
  <1>0. Len(ctl) - 1 \in Int /\ Len(ctl) - 2 \in Int /\ Len(ctl) - 3 \in Int
    BY <1>1
  <1>2. ASSUME NEW n \in 1..Len(ctl), Spine(ctl, n, base), f <= n, InCode => n = Len(ctl)
        PROVE  Good
    <2>1. f # 1
      BY <1>2 DEF Spine
    <2>2. f \in 2..n
      BY <1>1, <1>2, <2>1
    <2> QED BY <1>2, <2>2
  <1> HIDE DEF Good
  <1>3. ASSUME NEW label0, NEW jmp, Beginning(label0, jmp), label0 # "chunk"
        PROVE  FALSE
    <2>1. Len(ctl) = 1 /\ ctl[1].at = label0
      BY <1>3 DEF Beginning
    <2> QED BY <1>1, <1>3, <2>1
  <1>4. ~InStepTwo /\ ~StepTwoDone
    <2>1. ASSUME InStepTwo
          PROVE  FALSE
      <3>1. Len(ctl) = 3 /\ ctl[1].at = "opened" /\ ctl[2].at = "protected" /\ ctl[3].at = "step_two"
        BY <2>1 DEF InStepTwo, Guarding
      <3>2. f = 1 \/ f = 2 \/ f = 3
        BY <1>1, <3>1
      <3> QED BY <3>1, <3>2
    <2>2. ASSUME StepTwoDone
          PROVE  FALSE
      <3>1. Len(ctl) = 2 /\ ctl[1].at = "opened" /\ ctl[2].at \in {"protected", "recovered"}
        BY <2>2 DEF StepTwoDone, Guarding
      <3>2. f = 1 \/ f = 2
        BY <1>1, <3>1
      <3> QED BY <3>1, <3>2
    <2> QED BY <2>1, <2>2
  <1>5. ~InOpened /\ ~InLib
    BY <1>1 DEF InOpened, InLib, OpenedFrames, LibFrames
  <1>6. InCode => Good
    <2>1. PICK n \in Nat \ {0} : n = Len(ctl)
      BY <1>1
    <2>2. n \in 1..n /\ f \in 1..n
      BY <1>1, <2>1
    <2>3. InCode => Spine(ctl, n, base)
      BY <2>1 DEF InCode
    <2> QED BY <1>2, <2>1, <2>2, <2>3
  <1>7. ASSUME NEW n \in Nat \ {0, 1}, Loading(n), n + 1 <= Len(ctl), f <= n + 1
        PROVE  \E m \in 1..Len(ctl) : Spine(ctl, m, base) /\ f \in 1..m
    <2>1. Spine(ctl, n - 1, base) /\ ctl[n] \in RunFrames /\ ctl[n + 1] \in PcallFrames
      BY <1>7 DEF Loading
    <2>2. f # n /\ f # n + 1
      BY <2>1 DEF RunFrames, PcallFrames
    <2>3. f \in 1..(n - 1) /\ n - 1 \in 1..Len(ctl)
      BY <1>1, <1>7, <2>2
    <2> QED BY <2>1, <2>3
  <1>8. ASSUME ~InCode, NEW n \in Nat \ {0, 1}, Loading(n), n + 1 <= Len(ctl), f <= n + 1
        PROVE  Good
    <2>1. PICK m \in 1..Len(ctl) : Spine(ctl, m, base) /\ f \in 1..m
      BY <1>7, <1>8
    <2> QED BY <1>2, <1>8, <2>1
  <1>9. ~InCode /\ InParser => Good
    <2>1. SUFFICES ASSUME ~InCode, InParser PROVE Good
      OBVIOUS
    <2>2. PICK n \in Int : n = Len(ctl) - 3
      BY <1>0
    <2>3. Loading(n) /\ ctl[n + 2].at = "protected" /\ ctl[n + 3].at = "parser"
      BY <2>1, <2>2 DEF InParser, Guarding
    <2>4. n \in Nat \ {0, 1} /\ Len(ctl) = n + 3 /\ f # n + 2 /\ f # n + 3
      BY <1>1, <2>2, <2>3 DEF Loading
    <2>5. f <= n + 1 /\ n + 1 <= Len(ctl)
      BY <1>1, <2>4
    <2> QED BY <1>8, <2>1, <2>3, <2>4, <2>5
  <1>10. ~InCode /\ ParserDone => Good
    <2>1. SUFFICES ASSUME ~InCode, ParserDone PROVE Good
      OBVIOUS
    <2>2. PICK n \in Int : n = Len(ctl) - 2
      BY <1>0
    <2>3. Loading(n) /\ ctl[n + 2].at \in {"protected", "recovered"}
      BY <2>1, <2>2 DEF ParserDone, Guarding
    <2>4. n \in Nat \ {0, 1} /\ Len(ctl) = n + 2 /\ f # n + 2
      BY <1>1, <2>2, <2>3 DEF Loading
    <2>5. f <= n + 1 /\ n + 1 <= Len(ctl)
      BY <1>1, <2>4
    <2> QED BY <1>8, <2>1, <2>3, <2>4, <2>5
  <1>11. ~InCode /\ InPcall => Good
    <2>1. SUFFICES ASSUME ~InCode, InPcall PROVE Good
      OBVIOUS
    <2>2. PICK n \in Int : n = Len(ctl) - 1
      BY <1>0
    <2>3. Loading(n)
      BY <2>1, <2>2 DEF InPcall
    <2>4. n \in Nat \ {0, 1} /\ Len(ctl) = n + 1
      BY <1>1, <2>2, <2>3 DEF Loading
    <2>5. f <= n + 1 /\ n + 1 <= Len(ctl)
      BY <1>1, <2>4
    <2> QED BY <1>8, <2>1, <2>3, <2>4, <2>5
  <1>12. ~InCode /\ InLoaded => Good
    <2>1. SUFFICES ASSUME ~InCode, InLoaded PROVE Good
      OBVIOUS
    <2>2. PICK n \in Nat \ {0, 1} : n = Len(ctl)
      BY <2>1 DEF InLoaded
    <2>3. Spine(ctl, n - 1, base) /\ ctl[n].at = "loaded"
      BY <2>1, <2>2 DEF InLoaded, LoadedFrames
    <2>4. f <= n - 1 /\ n - 1 \in 1..Len(ctl)
      BY <1>1, <2>2, <2>3
    <2> QED BY <1>2, <2>1, <2>3, <2>4
  <1>13. /\ InCode \/ InParser \/ ParserDone \/ InPcall \/ InLoaded
    <2>1. Shape
      BY DEF IInv
    <2> QED BY <1>3, <1>4, <1>5, <2>1 DEF Shape
  <1>14. Good
    BY <1>6, <1>9, <1>10, <1>11, <1>12, <1>13
  <1>15. Frame.at \in {"host", "chunk", "parser", "protected", "recovered", "pcall", "loaded"}
    BY <1>13, LabelOfShapes
  <1> QED BY <1>14, <1>15 DEF Good

(* What they saved ends at base, or below the registers of the running     *)
(* function's caller.                                                      *)
LEMMA ChunkTops ==
  ASSUME IInv, NEW f \in DOMAIN ctl, ctl[f].at = "chunk"
  PROVE  /\ ctl[f] \in ChunkFrames /\ ctl[f].top <= base
         /\ Frame.at \in {"host", "chunk"} /\ f < Len(ctl) => ctl[f].top <= Frame.base
  <1>1. PICK n \in 1..Len(ctl) : Spine(ctl, n, base) /\ f \in 2..n /\ (InCode => n = Len(ctl))
    BY ChunkOnSpine
  <1>2. ctl[f] \in SavedFrames /\ ctl[f].top <= base
    BY <1>1 DEF Spine
  <1>3. ctl[f] \in ChunkFrames
    BY <1>2 DEF SavedFrames, HostFrames
  <1>4. ASSUME Frame.at \in {"host", "chunk"}, f < Len(ctl)
        PROVE  ctl[f].top <= Frame.base
    <2>1. n = Len(ctl) /\ Len(ctl) \in Nat
      BY <1>1, <1>4, ShapeOfLabel, CtlLength
    <2>2. f \in 2..n /\ n \in 2..n /\ f < n
      BY <1>1, <1>4, <2>1
    <2>3. ctl[f].top <= ctl[n].base
      BY <1>1, <2>2 DEF Spine
    <2> QED BY <2>1, <2>3 DEF Frame, Last
  <1> QED BY <1>2, <1>3, <1>4

-----------------------------------------------------------------------------
(* What the frame of a chunk has of the caller of Thread_run: its stack,   *)
(* which is the stack of now up to the slot of the chunk's function, and   *)
(* its registers.                                                          *)
Remembers(frame) ==
  /\ Len(frame.before[1]) = frame.top - 1
  /\ \A i \in 1..(frame.top - 1) : stack[i] = frame.before[1][i]
  /\ frame.base = frame.before[2] /\ frame.pc = frame.before[3]
Chunks == \A f \in DOMAIN ctl : ctl[f].at = "chunk" => Remembers(ctl[f])

(* A step that keeps the stack under the frames of chunks keeps that.      *)
LEMMA ChunksStay ==
  ASSUME IInv, Chunks,
         \A f \in DOMAIN ctl' : ctl'[f].at = "chunk" => f \in DOMAIN ctl /\ ctl'[f] = ctl[f],
         \A f \in DOMAIN ctl' : ctl'[f].at = "chunk" =>
           \A i \in 1..(ctl'[f].top - 1) : stack'[i] = stack[i]
  PROVE  Chunks'
  <1> SUFFICES ASSUME NEW f \in DOMAIN ctl', ctl'[f].at = "chunk"
               PROVE  Remembers(ctl[f])'
    BY DEF Chunks
  <1>1. PICK g : g = ctl[f]
    OBVIOUS
  <1>2. f \in DOMAIN ctl /\ ctl'[f] = g /\ g.at = "chunk"
    BY <1>1
  <1>3. Remembers(g)
    BY <1>1, <1>2 DEF Chunks
  <1>4. \A i \in 1..(g.top - 1) : stack'[i] = stack[i]
    BY <1>2
  <1>5. /\ Len(g.before[1]) = g.top - 1
        /\ \A i \in 1..(g.top - 1) : stack'[i] = g.before[1][i]
        /\ g.base = g.before[2] /\ g.pc = g.before[3]
    BY <1>3, <1>4 DEF Remembers
  <1> QED BY <1>2, <1>5 DEF Remembers

(* So does one that leaves the stack alone, or only adds to it.            *)
LEMMA ChunksStayUnder ==
  ASSUME IInv, Chunks,
         \A f \in DOMAIN ctl' : ctl'[f].at = "chunk" => f \in DOMAIN ctl /\ ctl'[f] = ctl[f],
         NEW t \in Seq(Values), stack' = stack \/ stack' = stack \o t
  PROVE  Chunks'
  <1>1. stack \in Seq(Values) /\ base \in 0..Len(stack)
    BY RegistersHaveTypes
  <1>2. \A i \in 1..Len(stack) : stack'[i] = stack[i]
    BY <1>1, ConcatProperties
  <1>3. ASSUME NEW f \in DOMAIN ctl', ctl'[f].at = "chunk", NEW i \in 1..(ctl'[f].top - 1)
        PROVE  stack'[i] = stack[i]
    <2>1. PICK g : g = ctl[f]
      OBVIOUS
    <2>2. f \in DOMAIN ctl /\ ctl'[f] = g /\ g.at = "chunk"
      BY <1>3, <2>1
    <2>3. g \in ChunkFrames /\ g.top <= base
      BY <2>1, <2>2, ChunkTops
    <2>4. g.top \in Nat
      BY <2>3 DEF ChunkFrames
    <2>5. i \in 1..Len(stack)
      BY <1>1, <1>3, <2>2, <2>3, <2>4
    <2> QED BY <1>2, <2>5
  <1> QED BY <1>3, ChunksStay

(* With one frame there is no chunk.                                       *)
NoChunk == \A f \in DOMAIN ctl : ctl[f].at # "chunk"
LEMMA AloneNoChunk == IInv /\ DOMAIN ctl = {1} => NoChunk
  <1> SUFFICES ASSUME IInv, DOMAIN ctl = {1}, NEW f \in DOMAIN ctl, ctl[f].at = "chunk"
               PROVE  FALSE
    BY DEF NoChunk
  <1>1. DOMAIN ctl = 1..Len(ctl) /\ Len(ctl) \in Nat
    BY CtlLength
  <1>2. f = 1
    OBVIOUS
  <1>3. PICK n \in 1..Len(ctl) : f \in 2..n
    BY ChunkOnSpine
  <1> QED BY <1>2, <1>3

(* Also after a step. *)
LEMMA AloneNoChunkNext == IInv' /\ (DOMAIN ctl = {1})' => NoChunk'
  BY AloneNoChunk, PTL

(* The running frame is replaced. *)
LEMMA LastReplaced ==
  ASSUME IInv, NEW r, ctl' = [ctl EXCEPT ![Len(ctl)] = r]
  PROVE  /\ DOMAIN ctl' = DOMAIN ctl
         /\ ctl'[Len(ctl)] = r
         /\ \A i \in 1..(Len(ctl) - 1) : ctl'[i] = ctl[i]
  <1>1. PICK n \in Nat \ {0} : n = Len(ctl)
    BY CtlLength
  <1>2. DOMAIN ctl = 1..n /\ n \in 1..n
    BY <1>1, CtlLength
  <1>3. ctl' = [ctl EXCEPT ![n] = r]
    BY <1>1
  <1>4. DOMAIN ctl' = DOMAIN ctl /\ ctl'[n] = r
    BY <1>2, <1>3
  <1>5. ASSUME NEW i \in 1..(n - 1)
        PROVE  ctl'[i] = ctl[i]
    <2>1. i \in DOMAIN ctl /\ i # n
      BY <1>2
    <2> QED BY <1>3, <2>1
  <1> QED BY <1>1, <1>4, <1>5

(* It returns. *)
LEMMA LastReturned ==
  ASSUME IInv, ctl' = Returned
  PROVE  /\ DOMAIN ctl' = 1..(Len(ctl) - 1)
         /\ \A i \in 1..(Len(ctl) - 1) : ctl'[i] = ctl[i]
  <1>1. ctl \in Seq(Frames) /\ ctl # <<>>
    BY DEF IInv
  <1>2. /\ Front(ctl) \in Seq(Frames) /\ Len(Front(ctl)) = Len(ctl) - 1
        /\ \A i \in 1..(Len(ctl) - 1) : Front(ctl)[i] = ctl[i]
    BY <1>1, FrontProperties
  <1> QED BY <1>2 DEF Returned

(* It returns, and its caller's frame is changed. *)
LEMMA LastReturnedTo ==
  ASSUME IInv, NEW r, ctl' = [Returned EXCEPT ![Len(ctl) - 1] = r]
  PROVE  /\ DOMAIN ctl' = 1..(Len(ctl) - 1)
         /\ Len(ctl) - 1 \in DOMAIN ctl' => ctl'[Len(ctl) - 1] = r
         /\ \A i \in 1..(Len(ctl) - 2) : ctl'[i] = ctl[i]
  <1>1. ctl \in Seq(Frames) /\ ctl # <<>>
    BY DEF IInv
  <1>2. /\ Front(ctl) \in Seq(Frames) /\ Len(Front(ctl)) = Len(ctl) - 1
        /\ \A i \in 1..(Len(ctl) - 1) : Front(ctl)[i] = ctl[i]
    BY <1>1, FrontProperties
  <1>3. Len(ctl) \in Nat \ {0}
    BY CtlLength
  <1>4. DOMAIN Front(ctl) = 1..(Len(ctl) - 1)
    BY <1>2
  <1> QED BY <1>2, <1>3, <1>4 DEF Returned

(* Where there is one frame, there is no chunk. *)
LEMMA ChunksAlone == ASSUME IInv', DOMAIN ctl' = {1} PROVE Chunks'
  BY AloneNoChunkNext DEF NoChunk, Chunks

(* An error goes to a recover point above all chunks, or out.              *)
LEMMA ChunksThrown ==
  ASSUME IInv, IInv', Chunks, NEW err, NEW msg, Rethrow(err, msg), UNCHANGED stack
  PROVE  Chunks'
  <1>0. <<>> \in Seq(Values)
    OBVIOUS
  <1>1. CASE UNCHANGED ctl
    BY <1>0, <1>1, ChunksStayUnder
  <1>2. CASE ~UNCHANGED ctl
    <2>1. Live(error_jmp) /\ Jump(err, msg)
      BY <1>2 DEF Rethrow, Exit, JumpAnywhere
    <2>2. PICK j \in Nat \ {0} : j = error_jmp /\ j <= Len(ctl) /\ Len(ctl) \in Nat
      BY <2>1, CtlLength DEF Live
    <2> DEFINE to == SubSeq(ctl, 1, j)
               r == [to[j] EXCEPT !.at = "recovered", !.status = err, !.msg = msg]
    <2>3. ctl' = [to EXCEPT ![j] = r]
      BY <2>1, <2>2 DEF Jump
    <2>4. to \in Seq(Frames) /\ Len(to) = j /\ \A i \in 1..j : to[i] = ctl[i]
      <3>1. ctl \in Seq(Frames) /\ j \in 0..Len(ctl)
        BY <2>2 DEF IInv
      <3> QED BY <3>1, PrefixProperties
    <2> HIDE DEF to, r
    <2>5. DOMAIN ctl' = 1..j /\ \A i \in 1..(j - 1) : ctl'[i] = ctl[i]
      <3>1. DOMAIN to = 1..j
        BY <2>4
      <3>2. DOMAIN ctl' = DOMAIN to /\ \A i \in DOMAIN to : i # j => ctl'[i] = to[i]
        BY <2>3
      <3>3. ASSUME NEW i \in 1..(j - 1)
            PROVE  ctl'[i] = ctl[i]
        <4>1. i \in 1..j /\ i # j
          OBVIOUS
        <4> QED BY <2>4, <3>1, <3>2, <4>1
      <3> QED BY <3>1, <3>2, <3>3
    <2>6. ctl'[j].at # "chunk"
      <3>1. error_jmp' = j
        BY <2>1, <2>2 DEF Jump
      <3>2. Protecting' = {error_jmp'}
        BY <3>1, RecoverPointIsOneNext DEF OneRecoverPoint
      <3>3. j \in Protecting'
        BY <3>1, <3>2
      <3> QED BY <3>3 DEF Protecting
    <2>7. \A f \in DOMAIN ctl' : ctl'[f].at = "chunk" => f \in DOMAIN ctl /\ ctl'[f] = ctl[f]
      <3>1. \A f \in 1..j : f # j => f \in 1..(j - 1) /\ f \in 1..Len(ctl)
        BY <2>2
      <3>2. DOMAIN ctl = 1..Len(ctl)
        BY CtlLength
      <3> QED BY <2>5, <2>6, <3>1, <3>2
    <2> QED BY <1>0, <2>7, ChunksStayUnder
  <1> QED BY <1>1, <1>2

(* nf::open has no chunks. *)
LEMMA ChunksOpening ==
  ASSUME IInv, IInv', Chunks, Open \/ StepOne \/ Opened \/ Lib \/ LibsDone
  PROVE  Chunks'
  <1>0. <<>> \in Seq(Values)
    OBVIOUS
  <1>1. Len(ctl) = 1 /\ DOMAIN ctl = {1}
    <2>1. Frame.at \in {"open", "step_one", "opened", "lib"}
      BY DEF Open, StepOne, Opened, Lib, LibsDone, At
    <2>2. Len(ctl) = 1
      BY <2>1, ShapeOfLabel DEF Beginning, InOpened, InLib
    <2> QED BY <2>2, CtlLength
  <1>2. CASE UNCHANGED <<ctl, stack>>
    BY <1>0, <1>2, ChunksStayUnder
  <1>3. ASSUME NEW site, OutOfMemory(site)
        PROVE  Chunks'
    <2>1. Rethrow("OUT_OF_MEMORY", NoMessage) /\ UNCHANGED stack
      BY <1>3 DEF OutOfMemory, Throw, regs
    <2> QED BY <2>1, ChunksThrown
  <1>4. ASSUME NEW label, Goto(label)
        PROVE  Chunks'
    <2>1. DOMAIN ctl' = {1}
      BY <1>1, <1>4 DEF Goto
    <2> QED BY <2>1, ChunksAlone
  <1>5. ASSUME NEW r, ctl' = [ctl EXCEPT ![Len(ctl)] = r]
        PROVE  Chunks'
    <2>1. DOMAIN ctl' = {1}
      BY <1>1, <1>5
    <2> QED BY <2>1, ChunksAlone
  <1>6. Open => Chunks'
    BY <1>2, <1>4 DEF Open, NoThread, regs
  <1>7. StepOne => Chunks'
    BY <1>3, <1>4 DEF StepOne
  <1>8. Opened => Chunks'
    BY <1>2, <1>5 DEF Opened, NoThread, regs
  <1>9. Lib => Chunks'
    <2>1. Lib => \/ \E site \in {"api"} : OutOfMemory(site)
                 \/ ctl' = [ctl EXCEPT ![Len(ctl)] = [ctl[Len(ctl)] EXCEPT !.done = @ + 1]]
      BY DEF Lib
    <2> QED BY <1>3, <1>5, <2>1
  <1>10. LibsDone => Chunks'
    <2>1. LibsDone => DOMAIN ctl' = {1}
      BY DEF LibsDone
    <2> QED BY <2>1, ChunksAlone
  <1> QED BY <1>6, <1>7, <1>8, <1>9, <1>10

(* Thread_run pushes four frames. *)
LEMMA RunPushes ==
  ASSUME IInv, Run
  PROVE  /\ DOMAIN ctl' = 1..(Len(ctl) + 4) /\ Len(ctl') = Len(ctl) + 4
         /\ \A i \in 1..Len(ctl) : ctl'[i] = ctl[i]
         /\ \A i \in 1..4 : ctl'[Len(ctl) + i].at # "chunk"
         /\ ctl'[Len(ctl) + 4].at = "parser"
  <1> DEFINE run == [at |-> "run", before |-> regs]
             parser == [at |-> "parser"]
             S == Frames \cup {run, Pcall, Recover, parser}
             n == Len(ctl)
  <1>1. n \in Nat
    BY CtlLength
  <1>2. run.at = "run" /\ Pcall.at = "pcall" /\ Recover.at = "protected" /\ parser.at = "parser"
    BY DEF Pcall, Recover
  <1>3. ctl' = ctl \o <<run, Pcall, Recover, parser>>
    BY DEF Run
  <1>4. ctl \in Seq(S)
    <2>1. ctl \in Seq(Frames) /\ Frames \subseteq S
      BY DEF IInv
    <2>2. \A A, B : \A s \in Seq(A) : A \subseteq B => s \in Seq(B)
      OBVIOUS
    <2> HIDE DEF S
    <2> QED BY <2>1, <2>2
  <1>5. run \in S /\ Pcall \in S /\ Recover \in S /\ parser \in S
    OBVIOUS
  <1> HIDE DEF S, run, parser
  <1>6. /\ ctl \o <<run, Pcall, Recover, parser>> \in Seq(S)
        /\ Len(ctl \o <<run, Pcall, Recover, parser>>) = n + 4
        /\ \A i \in 1..n : (ctl \o <<run, Pcall, Recover, parser>>)[i] = ctl[i]
        /\ (ctl \o <<run, Pcall, Recover, parser>>)[n + 1] = run
        /\ (ctl \o <<run, Pcall, Recover, parser>>)[n + 2] = Pcall
        /\ (ctl \o <<run, Pcall, Recover, parser>>)[n + 3] = Recover
        /\ (ctl \o <<run, Pcall, Recover, parser>>)[n + 4] = parser
    BY <1>1, <1>4, <1>5, FourPushed
  <1>7. ctl' \in Seq(S) /\ Len(ctl') = n + 4
    BY <1>3, <1>6
  <1>8. DOMAIN ctl' = 1..(n + 4)
    BY <1>7
  <1>9. /\ ctl'[n + 1].at = "run" /\ ctl'[n + 2].at = "pcall" /\ ctl'[n + 3].at = "protected"
        /\ ctl'[n + 4].at = "parser"
    BY <1>2, <1>3, <1>6
  <1>10. \A i \in 1..4 : ctl'[n + i].at # "chunk"
    <2>1. \A i \in 1..4 : i = 1 \/ i = 2 \/ i = 3 \/ i = 4
      OBVIOUS
    <2> QED BY <1>9, <2>1
  <1> QED BY <1>3, <1>6, <1>7, <1>8, <1>9, <1>10

(* Frames are pushed that are not of chunks. *)
LEMMA ChunksCalled ==
  ASSUME IInv, IInv', Chunks, RunStepTwo \/ Run \/ CallHost
  PROVE  Chunks'
  <1>0. <<>> \in Seq(Values) /\ <<"pc", "base", "top">> \in Seq(Values)
    BY DEF Values
  <1>1. DOMAIN ctl = 1..Len(ctl) /\ Len(ctl) \in Nat
    BY CtlLength
  <1>2. ASSUME RunStepTwo
        PROVE  Chunks'
    <2>1. ctl' = <<[at |-> "opened", status |-> "OK"], Recover, [at |-> "step_two"]>>
      BY <1>2 DEF RunStepTwo
    <2>2. Recover.at = "protected"
      BY DEF Recover
    <2>3. DOMAIN ctl' = 1..3
      BY <2>1
    <2>4. ctl'[1].at = "opened" /\ ctl'[2].at = "protected" /\ ctl'[3].at = "step_two"
      BY <2>1, <2>2
    <2>5. \A f \in 1..3 : f = 1 \/ f = 2 \/ f = 3
      OBVIOUS
    <2>6. \A f \in DOMAIN ctl' : ctl'[f].at # "chunk"
      BY <2>3, <2>4, <2>5
    <2> QED BY <2>6 DEF Chunks
  <1>3. ASSUME Run
        PROVE  Chunks'
    <2>1. stack' = stack
      BY <1>3 DEF Run, regs
    <2>3. /\ DOMAIN ctl' = 1..(Len(ctl) + 4)
          /\ \A i \in 1..Len(ctl) : ctl'[i] = ctl[i]
          /\ \A i \in 1..4 : ctl'[Len(ctl) + i].at # "chunk"
      BY <1>3, RunPushes
    <2>5. ASSUME NEW f \in DOMAIN ctl', ctl'[f].at = "chunk"
          PROVE  f \in DOMAIN ctl /\ ctl'[f] = ctl[f]
      <3>1. CASE f <= Len(ctl)
        BY <1>1, <2>3, <3>1
      <3>2. CASE ~(f <= Len(ctl))
        <4>1. f - Len(ctl) \in 1..4 /\ Len(ctl) + (f - Len(ctl)) = f
          BY <1>1, <2>3, <3>2
        <4>2. ctl'[Len(ctl) + (f - Len(ctl))].at # "chunk"
          BY <2>3, <4>1
        <4> QED BY <2>5, <4>1, <4>2
      <3> QED BY <3>1, <3>2
    <2> QED BY <1>0, <2>1, <2>5, ChunksStayUnder
  <1>4. ASSUME CallHost
        PROVE  Chunks'
    <2> DEFINE r == [at |-> "host", top |-> Top, base |-> base, pc |-> pc, func |-> func]
    <2>1. ctl' = Append(ctl, r) /\ stack' = stack \o <<"pc", "base", "top">>
      BY <1>4 DEF CallHost
    <2>2. r.at # "chunk"
      OBVIOUS
    <2> HIDE DEF r
    <2>3. ctl \in Seq(Frames)
      BY DEF IInv
    <2>4. /\ DOMAIN ctl' = 1..(Len(ctl) + 1)
          /\ \A f \in 1..(Len(ctl) + 1) : ctl'[f] = IF f <= Len(ctl) THEN ctl[f] ELSE r
      BY <1>1, <2>1, <2>3
    <2>5. \A f \in DOMAIN ctl' : ctl'[f].at = "chunk" => f \in DOMAIN ctl /\ ctl'[f] = ctl[f]
      BY <1>1, <2>2, <2>4
    <2> QED BY <1>0, <2>1, <2>5, ChunksStayUnder
  <1> QED BY <1>2, <1>3, <1>4

(* The running function returns, and nothing is taken off the stack. *)
LEMMA ChunksUnderReturned ==
  ASSUME IInv, IInv', Chunks, ctl' = Returned, NEW t \in Seq(Values), stack' = stack \/ stack' = stack \o t
  PROVE  Chunks'
  <1>1. PICK n \in Nat \ {0} : n = Len(ctl)
    BY CtlLength
  <1>2. DOMAIN ctl = 1..n /\ DOMAIN ctl' = 1..(n - 1) /\ \A i \in 1..(n - 1) : ctl'[i] = ctl[i]
    BY <1>1, CtlLength, LastReturned
  <1>3. \A f \in DOMAIN ctl' : ctl'[f].at = "chunk" => f \in DOMAIN ctl /\ ctl'[f] = ctl[f]
    BY <1>2
  <1> QED BY <1>3, ChunksStayUnder

(* What runs under a recover point ends, or throws. *)
LEMMA ChunksProtected ==
  ASSUME IInv, IInv', Chunks, StepTwo \/ Parser
  PROVE  Chunks'
  <1>0. <<>> \in Seq(Values) /\ <<"chunk">> \in Seq(Values) /\ "chunk" \in Values
    BY DEF Values
  <1>1. CASE UNCHANGED <<ctl, stack>>
    BY <1>0, <1>1, ChunksStayUnder
  <1>2. ASSUME NEW err, NEW msg, Throw(err, msg)
        PROVE  Chunks'
    BY <1>2, ChunksThrown DEF Throw, regs
  <1>3. CASE ctl' = Returned /\ stack' = stack
    BY <1>0, <1>3, ChunksUnderReturned
  <1>4. CASE ctl' = Returned /\ stack' = Append(stack, "chunk")
    <2>1. stack \in Seq(Values)
      BY RegistersHaveTypes
    <2>2. stack' = stack \o <<"chunk">>
      BY <1>0, <1>4, <2>1, AppendIsConcat
    <2> QED BY <1>0, <1>4, <2>2, ChunksUnderReturned
  <1>5. StepTwo => Chunks'
    BY <1>1, <1>2, <1>3 DEF StepTwo, OutOfMemory, regs
  <1>6. Parser => Chunks'
    BY <1>1, <1>2, <1>4 DEF Parser, OutOfMemory, regs
  <1> QED BY <1>5, <1>6

(* A recover point is taken down. *)
LEMMA ChunksRecovered == ASSUME IInv, IInv', Chunks, EndProtected PROVE Chunks'
  <1>0. <<>> \in Seq(Values)
    OBVIOUS
  <1>1. PICK n \in Nat \ {0} : n = Len(ctl)
    BY CtlLength
  <1> DEFINE r == [Returned[n - 1] EXCEPT !.status = Frame.status]
  <1>2. ctl' = [Returned EXCEPT ![n - 1] = r] /\ stack' = stack
    BY <1>1 DEF EndProtected, regs
  <1>3. ctl \in Seq(Frames) /\ ctl # <<>>
    BY DEF IInv
  <1>4. n - 1 \in 1..(n - 1) /\ ctl[n - 1] \in OpenedFrames \cup PcallFrames
    <2>1. StepTwoDone \/ ParserDone
      BY ShapeOfLabel DEF EndProtected, At
    <2>2. CASE StepTwoDone
      <3>1. n = 2 /\ ctl[1] = [at |-> "opened", status |-> "OK"]
        BY <1>1, <2>2 DEF StepTwoDone
      <3> QED BY <3>1 DEF OpenedFrames, Statuses
    <2>3. CASE ParserDone
      <3>1. PICK k \in Int : k = n - 2
        BY <1>1
      <3>2. Loading(k)
        BY <1>1, <2>3, <3>1 DEF ParserDone
      <3>3. k \in Nat \ {0, 1} /\ ctl[k + 1] \in PcallFrames /\ k + 1 = n - 1
        BY <3>1, <3>2 DEF Loading
      <3> QED BY <3>3
    <2> QED BY <2>1, <2>2, <2>3
  <1>5. Returned[n - 1] = ctl[n - 1]
    BY <1>1, <1>3, <1>4, FrontProperties DEF Returned
  <1>6. r.at # "chunk"
    BY <1>4, <1>5 DEF OpenedFrames, PcallFrames
  <1> HIDE DEF r
  <1>7. /\ DOMAIN ctl' = 1..(n - 1) /\ ctl'[n - 1] = r
        /\ \A i \in 1..(n - 2) : ctl'[i] = ctl[i]
    BY <1>1, <1>2, <1>4, LastReturnedTo
  <1>8. DOMAIN ctl = 1..n
    BY <1>1, CtlLength
  <1>9. \A f \in DOMAIN ctl' : ctl'[f].at = "chunk" => f \in DOMAIN ctl /\ ctl'[f] = ctl[f]
    <2>1. \A f \in 1..(n - 1) : f # n - 1 => f \in 1..(n - 2) /\ f \in 1..n
      OBVIOUS
    <2> QED BY <1>6, <1>7, <1>8, <2>1
  <1> QED BY <1>0, <1>2, <1>9, ChunksStayUnder

(* Thread_pcall ends: what it cuts off the stack is above all chunks.      *)
LEMMA ChunksPcalled == ASSUME IInv, IInv', Chunks, EndPcall PROVE Chunks'
  <1>0. <<>> \in Seq(Values)
    OBVIOUS
  <1>1. PICK n \in Nat \ {0} : n = Len(ctl)
    BY CtlLength
  <1> DEFINE r == [at |-> "loaded", status |-> Frame.status, before |-> Returned[n - 1].before]
  <1>2. ctl' = [Returned EXCEPT ![n - 1] = r]
    BY <1>1 DEF EndPcall
  <1>3. r.at # "chunk"
    OBVIOUS
  <1> HIDE DEF r
  <1>4. PICK k \in Int : k = n - 1
    OBVIOUS
  <1>5. Loading(k) /\ Outcome(ctl[k + 1].status, ctl[k].before)
    BY <1>1, <1>4, ShapeOfLabel DEF EndPcall, At, InPcall
  <1>6. /\ k \in Nat \ {0, 1} /\ k + 1 = n /\ ctl[k] \in RunFrames
        /\ ctl[k + 1].top = Len(ctl[k].before[1])
        /\ n - 1 \in 1..(n - 1)
    BY <1>4, <1>5 DEF Loading
  <1>7. /\ DOMAIN ctl' = 1..(n - 1) /\ ctl'[n - 1] = r
        /\ \A i \in 1..(n - 2) : ctl'[i] = ctl[i]
    BY <1>1, <1>2, <1>6, LastReturnedTo
  <1>8. \A f \in DOMAIN ctl' : ctl'[f].at = "chunk" => f \in DOMAIN ctl /\ ctl'[f] = ctl[f]
    <2>1. \A f \in 1..(n - 1) : f # n - 1 => f \in 1..(n - 2) /\ f \in 1..n
      OBVIOUS
    <2>2. DOMAIN ctl = 1..n
      BY <1>1, CtlLength
    <2> QED BY <1>3, <1>7, <2>1, <2>2
  <1>9. CASE Frame.status = "OK"
    <2>1. stack' = stack
      BY <1>9 DEF EndPcall
    <2> QED BY <1>0, <1>8, <2>1, ChunksStayUnder
  <1>10. CASE Frame.status # "OK"
    <2>1. Frame = ctl[k + 1] /\ stack' = SubSeq(stack, 1, Frame.top)
      BY <1>1, <1>6, <1>10 DEF EndPcall, Restored, Frame, Last
    <2>2. PICK s \in Seq(Values) : s = ctl[k].before[1]
      BY <1>6, BeforeTyped
    <2>3. stack = s \o <<>>
      BY <1>5, <1>10, <2>1, <2>2 DEF Outcome, RegistersAre
    <2>4. stack = s
      BY <2>2, <2>3, NothingPushed
    <2>5. stack' = stack
      <3>1. SubSeq(s \o <<>>, 1, Len(s)) = s
        BY <1>0, <2>2, CutBack
      <3> QED BY <1>6, <2>1, <2>2, <2>3, <2>4, <3>1
    <2> QED BY <1>0, <1>8, <2>5, ChunksStayUnder
  <1> QED BY <1>9, <1>10

(* The chunk is called: it remembers what Thread_run found; or the error   *)
(* is thrown again.                                                        *)
LEMMA ChunksLoaded == ASSUME IInv, IInv', Chunks, Loaded PROVE Chunks'
  <1>1. PICK n \in Nat \ {0} : n = Len(ctl) /\ DOMAIN ctl = 1..n
    BY CtlLength
  <1>2. PICK status, before : status = ctl[n].status /\ before = ctl[n].before
    OBVIOUS
  <1>3. Outcome(status, before) /\ Frame = ctl[n] /\ ctl[n] \in LoadedFrames
    BY <1>1, <1>2, ShapeOfLabel DEF Loaded, At, InLoaded, Frame, Last
  <1>4. before[1] \in Seq(Values) /\ Len(before[1]) \in Nat
    BY <1>2, <1>3, BeforeTyped
  <1>5. CASE status = "OK"
    <2> DEFINE t == <<"pc", "base", "top">>
               r == [at |-> "chunk", before |-> before,
                     top |-> Top, base |-> base, pc |-> pc, func |-> func]
    <2>1. ctl' = [ctl EXCEPT ![Len(ctl)] = r] /\ stack' = stack \o t
      BY <1>1, <1>2, <1>3, <1>5 DEF Loaded
    <2>2. r.before = before /\ r.top = Top /\ r.base = base /\ r.pc = pc
      OBVIOUS
    <2> HIDE DEF r
    <2>3. DOMAIN ctl' = 1..n /\ ctl'[n] = r /\ \A i \in 1..(n - 1) : ctl'[i] = ctl[i]
      BY <1>1, <2>1, LastReplaced
    <2>4. stack = before[1] \o <<"chunk">> /\ base = before[2] /\ pc = before[3]
      BY <1>3, <1>5 DEF Outcome, RegistersAre
    <2>5. stack \in Seq(Values) /\ base \in 0..Len(stack) /\ t \in Seq(Values) /\ <<"chunk">> \in Seq(Values)
      BY RegistersHaveTypes DEF Values
    <2>6. Len(stack) = Len(before[1]) + 1 /\ \A i \in 1..Len(before[1]) : stack[i] = before[1][i]
      BY <1>4, <2>4, <2>5, ConcatProperties
    <2>7. \A i \in 1..Len(stack) : stack'[i] = stack[i]
      <3> HIDE DEF t
      <3> QED BY <2>1, <2>5, ConcatProperties
    <2>8. /\ Len(r.before[1]) = r.top - 1
          /\ \A i \in 1..(r.top - 1) : stack'[i] = r.before[1][i]
          /\ r.base = r.before[2] /\ r.pc = r.before[3]
      <3>1. r.top - 1 = Len(before[1]) /\ \A i \in 1..Len(before[1]) : i \in 1..Len(stack)
        BY <1>4, <2>2, <2>6 DEF Top
      <3>2. \A i \in 1..(r.top - 1) : stack'[i] = before[1][i]
        BY <2>6, <2>7, <3>1
      <3> QED BY <2>2, <2>4, <3>1, <3>2
    <2>9. ASSUME NEW f \in DOMAIN ctl', ctl'[f].at = "chunk"
          PROVE  Remembers(ctl[f])'
      <3>1. CASE f = n
        <4>1. ctl'[f] = r
          BY <2>3, <3>1
        <4> QED BY <2>8, <4>1 DEF Remembers
      <3>2. CASE f # n
        <4>1. PICK g : g = ctl[f]
          OBVIOUS
        <4>2. f \in DOMAIN ctl /\ ctl'[f] = g /\ g.at = "chunk"
          BY <1>1, <2>3, <2>9, <3>2, <4>1
        <4>3. Remembers(g) /\ g \in ChunkFrames /\ g.top <= base
          BY <4>1, <4>2, ChunkTops DEF Chunks
        <4>4. \A i \in 1..(g.top - 1) : i \in 1..Len(stack)
          <5>1. g.top \in Nat
            BY <4>3 DEF ChunkFrames
          <5> QED BY <2>5, <4>3, <5>1
        <4>5. /\ Len(g.before[1]) = g.top - 1
              /\ \A i \in 1..(g.top - 1) : stack'[i] = g.before[1][i]
              /\ g.base = g.before[2] /\ g.pc = g.before[3]
          BY <2>7, <4>3, <4>4 DEF Remembers
        <4> QED BY <4>2, <4>5 DEF Remembers
      <3> QED BY <3>1, <3>2
    <2> QED BY <2>9 DEF Chunks
  <1>6. CASE status # "OK"
    <2>1. Rethrow(status, NoMessage) /\ UNCHANGED stack
      BY <1>2, <1>3, <1>6 DEF Loaded, AsItWas, regs
    <2> QED BY <2>1, ChunksThrown
  <1> QED BY <1>5, <1>6

(* Code works above the frames of chunks. *)
LEMMA ChunksWork == ASSUME IInv, IInv', Chunks, Work PROVE Chunks'
  <1>1. stack \in Seq(Values) /\ base \in 0..Len(stack) /\ Len(stack) \in Nat /\ ctl' = ctl
    BY RegistersHaveTypes DEF Work
  <1>2. \A i \in 1..base : stack'[i] = stack[i]
    <2>1. CASE stack' = Append(stack, "value")
      <3>1. "value" \in Values
        BY DEF Values
      <3>2. \A i \in 1..Len(stack) : stack'[i] = stack[i]
        BY <1>1, <2>1, <3>1, AppendProperties
      <3> QED BY <1>1, <3>2
    <2>2. CASE Top > base /\ stack' = Front(stack)
      <3>1. stack # <<>> /\ base <= Len(stack) - 1
        BY <1>1, <2>2 DEF Top
      <3>2. \A i \in 1..(Len(stack) - 1) : stack'[i] = stack[i]
        BY <1>1, <2>2, <3>1, FrontProperties
      <3> QED BY <1>1, <3>1, <3>2
    <2> QED BY <2>1, <2>2 DEF Work
  <1>3. ASSUME NEW f \in DOMAIN ctl', ctl'[f].at = "chunk", NEW i \in 1..(ctl'[f].top - 1)
        PROVE  stack'[i] = stack[i]
    <2>1. PICK g : g = ctl[f]
      OBVIOUS
    <2>2. f \in DOMAIN ctl /\ ctl'[f] = g /\ g.at = "chunk"
      BY <1>1, <1>3, <2>1
    <2>3. g \in ChunkFrames /\ g.top <= base
      BY <2>1, <2>2, ChunkTops
    <2>4. g.top \in Nat
      BY <2>3 DEF ChunkFrames
    <2>5. i \in 1..base
      BY <1>1, <1>3, <2>2, <2>3, <2>4
    <2> QED BY <1>2, <2>5
  <1>4. \A f \in DOMAIN ctl' : ctl'[f].at = "chunk" => f \in DOMAIN ctl /\ ctl'[f] = ctl[f]
    BY <1>1
  <1> QED BY <1>3, <1>4, ChunksStay

(* An error in a function ends the program, or goes to a recover point. *)
LEMMA ChunksFault == ASSUME IInv, IInv', Chunks, Fault PROVE Chunks'
  <1>1. PICK err, msg : Throw(err, msg)
    BY DEF Fault, OutOfMemory
  <1>2. Rethrow(err, msg) /\ UNCHANGED stack
    BY <1>1 DEF Throw, regs
  <1> QED BY <1>2, ChunksThrown

(* A function returns to registers above those of the chunks under it. *)
LEMMA ChunksReturn == ASSUME IInv, IInv', Chunks, Return PROVE Chunks'
  <1>1. PICK n \in Nat \ {0} : n = Len(ctl) /\ DOMAIN ctl = 1..n
    BY CtlLength
  <1>2. stack \in Seq(Values) /\ base \in 0..Len(stack) /\ Len(stack) \in Nat
    BY RegistersHaveTypes
  <1>3. Frame = ctl[n] /\ Frame.at \in {"host", "chunk"} /\ InCode
    BY <1>1, ShapeOfLabel DEF Return, At, Frame, Last
  <1>4. Frame.at = "chunk" \/ n > 1
    BY <1>1 DEF Return, At
  <1>5. n \in Nat \ {0, 1} /\ Spine(ctl, n, base)
    <2>1. Spine(ctl, n, base)
      BY <1>1, <1>3 DEF InCode
    <2>2. CASE n = 1
      <3>1. ctl[1].at = "host"
        BY <2>1 DEF Spine
      <3> QED BY <1>3, <1>4, <2>2, <3>1
    <2> QED BY <2>1, <2>2
  <1>6. Frame \in SavedFrames /\ Restorable(Frame) /\ Frame.top <= base
    BY <1>3, <1>5, SpineShorter
  <1>7. Frame.top \in Nat /\ Frame.base \in Nat
    BY <1>6 DEF SavedFrames, HostFrames, ChunkFrames
  <1>8. PICK t : t = TopRestored(Frame)
    OBVIOUS
  <1>9. t \in 0..Len(stack) /\ Frame.base <= t
    <2>1. Frame.base <= t /\ t <= Frame.top /\ t \in Int
      BY <1>6, <1>7, <1>8 DEF Restorable, TopRestored
    <2> QED BY <1>2, <1>6, <1>7, <2>1
  <1>10. ctl' = Returned /\ stack' = SubSeq(stack, 1, t)
    BY <1>8 DEF Return
  <1>11. \A i \in 1..t : stack'[i] = stack[i]
    BY <1>2, <1>9, <1>10, PrefixProperties
  <1>12. DOMAIN ctl' = 1..(n - 1) /\ \A i \in 1..(n - 1) : ctl'[i] = ctl[i]
    BY <1>1, <1>10, LastReturned
  <1>13. ASSUME NEW f \in DOMAIN ctl', ctl'[f].at = "chunk"
         PROVE  f \in DOMAIN ctl /\ f < n /\ ctl'[f] = ctl[f]
    BY <1>1, <1>12
  <1>14. ASSUME NEW f \in DOMAIN ctl', ctl'[f].at = "chunk", NEW i \in 1..(ctl'[f].top - 1)
         PROVE  stack'[i] = stack[i]
    <2>1. PICK g : g = ctl[f]
      OBVIOUS
    <2>2. f \in DOMAIN ctl /\ f < n /\ ctl'[f] = g /\ g.at = "chunk"
      BY <1>13, <1>14, <2>1
    <2>3. g \in ChunkFrames /\ g.top <= Frame.base
      BY <1>1, <1>3, <2>1, <2>2, ChunkTops
    <2>4. g.top \in Nat
      BY <2>3 DEF ChunkFrames
    <2>5. i \in 1..t
      BY <1>7, <1>9, <1>14, <2>2, <2>3, <2>4
    <2> QED BY <1>11, <2>5
  <1>15. \A f \in DOMAIN ctl' : ctl'[f].at = "chunk" => f \in DOMAIN ctl /\ ctl'[f] = ctl[f]
    BY <1>13
  <1> QED BY <1>14, <1>15, ChunksStay

(* Every step keeps what the frames of chunks remember. *)
LEMMA ChunksNext == IInv /\ IInv' /\ Chunks /\ [Next]_tvars => Chunks'
  <1> SUFFICES ASSUME IInv, IInv', Chunks, [Next]_tvars PROVE Chunks'
    OBVIOUS
  <1>1. <<>> \in Seq(Values)
    OBVIOUS
  <1>2. CASE UNCHANGED <<ctl, stack>>
    BY <1>1, <1>2, ChunksStayUnder
  <1>3. Close => UNCHANGED <<ctl, stack>>
    BY DEF Close, regs
  <1> QED BY <1>2, <1>3, ChunksOpening, ChunksProtected, ChunksRecovered, ChunksCalled, ChunksPcalled,
             ChunksLoaded, ChunksWork, ChunksFault, ChunksReturn
          DEF Next, UnderRecovery, tvars

(* So they remember it always. *)
LEMMA ChunksAlways == Spec => []Chunks
  <1>1. Init => Chunks
    <2>1. SUFFICES ASSUME Init PROVE Chunks
      OBVIOUS
    <2>2. DOMAIN ctl = {1} /\ ctl[1].at = "open"
      BY <2>1 DEF Init
    <2> QED BY <2>2 DEF Chunks
  <1> QED BY <1>1, ChunksNext, IInvAlways, PTL DEF Spec

-----------------------------------------------------------------------------
(* Errors.                                                                 *)

(* The running function returns to a frame that is changed. *)
LEMMA PoppedTo ==
  ASSUME IInv, NEW r, NEW k \in Nat \ {0}, Len(ctl) = k + 1, ctl' = [Returned EXCEPT ![k] = r]
  PROVE  Len(ctl') = k /\ ctl'[k] = r
  <1> DEFINE S == Frames \cup {r}
             d == [Front(ctl) EXCEPT ![k] = r]
  <1>1. ctl \in Seq(S) /\ r \in S
    <2>1. ctl \in Seq(Frames) /\ Frames \subseteq S
      BY DEF IInv
    <2>2. \A A, B : \A s \in Seq(A) : A \subseteq B => s \in Seq(B)
      OBVIOUS
    <2> HIDE DEF S
    <2>3. ctl \in Seq(S)
      BY <2>1, <2>2
    <2> QED BY <2>3 DEF S
  <1> HIDE DEF S
  <1>2. Len(d) = k /\ d[k] = r
    BY <1>1, ReplaceUnder
  <1>3. ctl' = d
    BY DEF Returned
  <1> HIDE DEF d
  <1> QED BY <1>2, <1>3

(* An error that finds its recover point is in the frame of it. *)
LEMMA JumpTo ==
  ASSUME IInv, NEW err, NEW msg, Live(error_jmp), Jump(err, msg)
  PROVE  Frame'.at = "recovered" /\ Frame'.status = err
  <1>1. PICK j \in Nat \ {0} : j = error_jmp /\ j \in 1..Len(ctl)
    BY CtlLength DEF Live
  <1> DEFINE f == ctl[j]
             r == [f EXCEPT !.at = "recovered", !.status = err, !.msg = msg]
             S == Frames \cup {r}
             to == SubSeq(ctl, 1, j)
             d == [to EXCEPT ![j] = r]
  <1>2. ctl \in Seq(Frames) /\ ctl # <<>> /\ j \in 0..Len(ctl) /\ j \in 1..j
    BY <1>1 DEF IInv
  <1>3. to \in Seq(Frames) /\ Len(to) = j /\ to[j] = f
    BY <1>2, PrefixProperties
  <1>4. ctl' = d
    <2>1. ctl' = [to EXCEPT ![j] = [to[j] EXCEPT !.at = "recovered", !.status = err, !.msg = msg]]
      BY <1>1 DEF Jump
    <2> HIDE DEF to
    <2> QED BY <1>3, <2>1
  <1>5. r.at = "recovered" /\ r.status = err
    <2>1. f.at = "protected" /\ f \in Frames
      <3>1. f.at = "protected"
        BY <1>1 DEF Live
      <3>2. f \in Frames
        BY <1>1, <1>2, ElementOfSeq
      <3> QED BY <3>1, <3>2
    <2> HIDE DEF f
    <2>2. f \in GuardFrames
      BY <2>1 DEF Frames, PlainFrames, OpenedFrames, LibFrames, SavedFrames, HostFrames, ChunkFrames,
                  RunFrames, LoadedFrames, PcallFrames
    <2> QED BY <2>2 DEF GuardFrames
  <1> HIDE DEF r
  <1>6. to \in Seq(S) /\ r \in S
    <2>1. Frames \subseteq S /\ r \in S
      OBVIOUS
    <2>2. \A A, B : \A s \in Seq(A) : A \subseteq B => s \in Seq(B)
      OBVIOUS
    <2> HIDE DEF S, to
    <2> QED BY <1>3, <2>1, <2>2
  <1> HIDE DEF S, to
  <1>7. Len(d) = j /\ d[j] = r
    BY <1>3, <1>6, ReplaceLast
  <1> HIDE DEF d
  <1>8. Frame' = r
    BY <1>4, <1>7 DEF Frame, Last
  <1> QED BY <1>5, <1>8

-----------------------------------------------------------------------------
(* An error that is on its way is in the running frame. *)
InFlight ==
  outcome = "running" /\ thrown.err # "OK" =>
    Frame.at \in {"recovered", "opened", "pcall", "loaded"} /\ Frame.status # "OK"

(* A throw puts it there, or ends the program. *)
LEMMA ThrowInFlight ==
  ASSUME IInv, NEW err \in Errors, NEW msg, Throw(err, msg)
  PROVE  InFlight'
  <1>1. CASE Exit(err, msg) \/ JumpAnywhere
    BY <1>1 DEF Exit, JumpAnywhere, InFlight
  <1>2. CASE Live(error_jmp) /\ Jump(err, msg)
    <2>1. Frame'.at = "recovered" /\ Frame'.status = err
      BY <1>2, JumpTo
    <2> QED BY <2>1 DEF InFlight, Errors
  <1> QED BY <1>1, <1>2 DEF Throw, Rethrow

(* Where nothing is on its way, only a throw changes that. *)
LEMMA InFlightThrown == IInv /\ thrown.err = "OK" /\ [Next]_tvars => InFlight'
  <1> SUFFICES ASSUME IInv, thrown.err = "OK", [Next]_tvars PROVE InFlight'
    OBVIOUS
  <1>1. CASE UNCHANGED thrown
    BY <1>1 DEF InFlight
  <1>2. \A site : OutOfMemory(site) => InFlight'
    BY ThrowInFlight DEF OutOfMemory, Errors
  <1>3. StepOne => InFlight'
    BY <1>1, <1>2 DEF StepOne
  <1>4. StepTwo => InFlight'
    BY <1>1, <1>2 DEF StepTwo
  <1>5. Lib => InFlight'
    BY <1>1, <1>2 DEF Lib
  <1>6. Parser => InFlight'
    BY <1>1, <1>2, ThrowInFlight DEF Parser, Errors
  <1>7. Fault => InFlight'
    BY <1>2, ThrowInFlight DEF Fault, Errors
  <1>8. Open \/ Opened \/ RunStepTwo \/ LibsDone \/ EndProtected => InFlight'
    BY <1>1 DEF Open, NoThread, Opened, RunStepTwo, LibsDone, EndProtected
  <1>9. Run \/ EndPcall \/ Loaded \/ Work \/ CallHost \/ Return \/ Close => InFlight'
    BY <1>1 DEF Run, EndPcall, Loaded, Work, CallHost, Return, Close
  <1> QED BY <1>1, <1>3, <1>4, <1>5, <1>6, <1>7, <1>8, <1>9 DEF Next, UnderRecovery, tvars

(* What is on its way goes from frame to frame, and then out. *)
LEMMA InFlightHandedOn == IInv /\ InFlight /\ thrown.err # "OK" /\ [Next]_tvars => InFlight'
  <1> SUFFICES ASSUME IInv, InFlight, thrown.err # "OK", [Next]_tvars PROVE InFlight'
    OBVIOUS
  <1>1. CASE UNCHANGED tvars
    BY <1>1 DEF InFlight, Frame, tvars
  <1>2. ASSUME Next
        PROVE  EndProtected \/ Opened \/ EndPcall \/ Loaded
    <2>1. outcome = "running"
      BY <1>2 DEF Next, UnderRecovery, At, Open, StepOne, RunStepTwo, Opened, Lib, LibsDone, StepTwo,
                  Parser, EndProtected, Run, EndPcall, Loaded, Work, Fault, CallHost, Return, Close
    <2>2. Frame.at \in {"recovered", "opened", "pcall", "loaded"}
      BY <2>1 DEF InFlight
    <2> QED BY <1>2, <2>2
            DEF Next, UnderRecovery, At, Open, StepOne, RunStepTwo, Lib, LibsDone, StepTwo,
                Parser, Run, Work, Fault, CallHost, Return, Close
  <1>3. ASSUME EndProtected
        PROVE  InFlight'
    <2>1. Frame.status # "OK" /\ Frame.at = "recovered"
      BY <1>3 DEF InFlight, EndProtected, At
    <2>2. PICK k \in Nat \ {0} : Len(ctl) = k + 1 /\ ctl[k] \in OpenedFrames \cup PcallFrames
      <3>1. StepTwoDone \/ ParserDone
        BY <2>1, ShapeOfLabel
      <3>2. CASE StepTwoDone
        <4>1. Len(ctl) = 1 + 1 /\ ctl[1] = [at |-> "opened", status |-> "OK"]
          BY <3>2 DEF StepTwoDone
        <4> QED BY <4>1 DEF OpenedFrames, Statuses
      <3>3. CASE ParserDone
        <4>1. PICK n \in Int : n = Len(ctl) - 2
          <5>1. Len(ctl) - 2 \in Int
            BY CtlLength
          <5> QED BY <5>1
        <4>2. Loading(n)
          BY <3>3, <4>1 DEF ParserDone
        <4>3. n \in Nat \ {0, 1} /\ ctl[n + 1] \in PcallFrames
          BY <4>2 DEF Loading
        <4>4. n + 1 \in Nat \ {0} /\ Len(ctl) = n + 1 + 1
          BY <4>1, <4>3, CtlLength
        <4> QED BY <4>3, <4>4
      <3> QED BY <3>1, <3>2, <3>3
    <2> DEFINE r == [ctl[k] EXCEPT !.status = Frame.status]
    <2>3. Returned[k] = ctl[k] /\ Len(ctl) - 1 = k
      <3>1. ctl \in Seq(Frames) /\ ctl # <<>> /\ k + 1 - 1 = k /\ k \in 1..k
        BY DEF IInv
      <3> QED BY <2>2, <3>1, FrontProperties DEF Returned
    <2>4. ctl' = [Returned EXCEPT ![k] = r]
      BY <1>3, <2>3 DEF EndProtected
    <2>5. r.status = Frame.status /\ r.at \in {"opened", "pcall"}
      BY <2>2 DEF OpenedFrames, PcallFrames
    <2> HIDE DEF r
    <2>6. Frame' = r
      <3>1. Len(ctl') = k /\ ctl'[k] = r
        BY <2>2, <2>4, PoppedTo
      <3> QED BY <3>1 DEF Frame, Last
    <2> QED BY <2>1, <2>5, <2>6 DEF InFlight
  <1>4. ASSUME Opened
        PROVE  InFlight'
    BY <1>4 DEF Opened, At, InFlight, NoThread
  <1>5. ASSUME EndPcall
        PROVE  InFlight'
    <2>1. Frame.status # "OK"
      BY <1>5 DEF InFlight, EndPcall, At
    <2>2. PICK k \in Nat \ {0} : Len(ctl) = k + 1
      <3>1. InPcall
        BY <1>5, ShapeOfLabel DEF EndPcall, At
      <3>2. PICK n \in Int : n = Len(ctl) - 1
        <4>1. Len(ctl) - 1 \in Int
          BY CtlLength
        <4> QED BY <4>1
      <3>3. n \in Nat \ {0, 1}
        BY <3>1, <3>2 DEF InPcall, Loading
      <3> QED BY <3>2, <3>3, CtlLength
    <2> DEFINE r == [at |-> "loaded", status |-> Frame.status, before |-> Returned[k].before]
    <2>3. ctl' = [Returned EXCEPT ![k] = r]
      <3>1. Len(ctl) - 1 = k
        BY <2>2
      <3> QED BY <1>5, <3>1 DEF EndPcall
    <2>4. r.status = Frame.status /\ r.at = "loaded"
      OBVIOUS
    <2> HIDE DEF r
    <2>5. Frame' = r
      <3>1. Len(ctl') = k /\ ctl'[k] = r
        BY <2>2, <2>3, PoppedTo
      <3> QED BY <3>1 DEF Frame, Last
    <2> QED BY <2>1, <2>4, <2>5 DEF InFlight
  <1>6. ASSUME Loaded
        PROVE  InFlight'
    <2>1. Frame.status # "OK" /\ InLoaded
      BY <1>6, ShapeOfLabel DEF InFlight, Loaded, At
    <2>2. Exit(Frame.status, NoMessage)
      <3>1. Rethrow(Frame.status, NoMessage) /\ error_jmp = Null
        BY <1>6, <2>1 DEF Loaded, AsItWas, InLoaded
      <3> QED BY <3>1, ThrowExits
    <2> QED BY <2>2 DEF Exit, InFlight
  <1> QED BY <1>1, <1>2, <1>3, <1>4, <1>5, <1>6

(* So it is there always. *)
LEMMA InFlightAlways == Spec => []InFlight
  <1>1. Init => InFlight
    BY DEF Init, InFlight
  <1>2. IInv /\ InFlight /\ [Next]_tvars => InFlight'
    BY InFlightThrown, InFlightHandedOn
  <1> QED BY <1>1, <1>2, IInvAlways, PTL DEF Spec

-----------------------------------------------------------------------------
(* The program exits where error_jmp is null, or not set yet. *)
LEMMA ExitsWithout ==
  ASSUME [Next]_tvars, outcome' = "exit", outcome # "exit"
  PROVE  error_jmp \in {Null, Garbage}
  <1>1. \A err, msg : Rethrow(err, msg) => error_jmp \in {Null, Garbage}
    BY DEF Rethrow, Jump, JumpAnywhere
  <1>2. \A err, msg : Throw(err, msg) => error_jmp \in {Null, Garbage}
    BY <1>1 DEF Throw
  <1>3. \A site : OutOfMemory(site) => error_jmp \in {Null, Garbage}
    BY <1>2 DEF OutOfMemory
  <1>4. StepOne \/ StepTwo \/ Lib \/ Parser \/ Fault => error_jmp \in {Null, Garbage}
    BY <1>2, <1>3 DEF StepOne, StepTwo, Lib, Parser, Fault
  <1>5. Loaded => error_jmp \in {Null, Garbage}
    BY <1>1 DEF Loaded
  <1>6. ~(Open \/ Opened \/ RunStepTwo \/ LibsDone \/ EndProtected)
    BY DEF Open, NoThread, Opened, RunStepTwo, LibsDone, EndProtected
  <1>7. ~(Run \/ EndPcall \/ Work \/ CallHost \/ Return \/ Close)
    BY DEF Run, EndPcall, Work, CallHost, Return, Close
  <1>8. ~UNCHANGED tvars
    BY DEF tvars
  <1> QED BY <1>4, <1>5, <1>6, <1>7, <1>8 DEF Next, UnderRecovery

(* Who is in a recover point with an error is in the current one. *)
LEMMA RecoveredIsLast ==
  ASSUME IInv', Frame'.at = "recovered"
  PROVE  error_jmp' = Len(ctl') /\ Len(ctl') \in Nat \ {0}
  <1>1. ctl' \in Seq(Frames) /\ ctl' # <<>>
    BY DEF IInv
  <1>2. Len(ctl') \in Nat \ {0} /\ Len(ctl') \in DOMAIN ctl'
    BY <1>1, EmptySeq
  <1>3. ctl'[Len(ctl')].at = "recovered"
    BY DEF Frame, Last
  <1>4. Len(ctl') \in Protecting'
    BY <1>2, <1>3 DEF Protecting
  <1> QED BY <1>2, <1>4, RecoverPointIsOneNext DEF OneRecoverPoint

(* The steps that set error_jmp do not end in a recover point with an      *)
(* error.                                                                  *)
LEMMA JmpKept ==
  ASSUME IInv, IInv', [Next]_tvars, Frame'.at = "recovered"
  PROVE  error_jmp' = error_jmp
  <1>1. \A err, msg : Rethrow(err, msg) => error_jmp' = error_jmp
    BY DEF Rethrow, Exit, Jump, JumpAnywhere
  <1>2. \A err, msg : Throw(err, msg) => error_jmp' = error_jmp
    BY <1>1 DEF Throw
  <1>3. \A site : OutOfMemory(site) => error_jmp' = error_jmp
    BY <1>2 DEF OutOfMemory
  <1>4. StepTwo \/ Lib \/ Parser \/ Fault => error_jmp' = error_jmp
    BY <1>2, <1>3 DEF StepTwo, Lib, Parser, Fault
  <1>5. Loaded => error_jmp' = error_jmp
    BY <1>1 DEF Loaded
  <1>6. Open \/ Opened \/ LibsDone => error_jmp' = error_jmp
    BY DEF Open, NoThread, Opened, LibsDone
  <1>7. EndPcall \/ Work \/ CallHost \/ Return \/ Close => error_jmp' = error_jmp
    BY DEF EndPcall, Work, CallHost, Return, Close
  <1>8. UNCHANGED tvars => error_jmp' = error_jmp
    BY DEF tvars
  <1>9. error_jmp' = Len(ctl') /\ Len(ctl') \in Nat \ {0}
    BY RecoveredIsLast
  <1>10. error_jmp' # 0
    BY <1>9
  <1>11. StepOne => error_jmp' = error_jmp
    BY <1>3, <1>10 DEF StepOne
  <1>12. ~RunStepTwo
    <2>1. SUFFICES ASSUME RunStepTwo PROVE FALSE
      OBVIOUS
    <2>2. ctl' = <<[at |-> "opened", status |-> "OK"], Recover, [at |-> "step_two"]>> /\ error_jmp' = 2
      BY <2>1 DEF RunStepTwo
    <2> HIDE DEF Recover
    <2>3. Len(ctl') = 3
      BY <2>2
    <2> QED BY <1>9, <2>2, <2>3
  <1>13. ~EndProtected
    <2>1. SUFFICES ASSUME EndProtected PROVE FALSE
      OBVIOUS
    <2>2. Frame.at \in {"protected", "recovered"} /\ Frame \in Frames
      BY <2>1, CtlLength DEF EndProtected, At, Frame, Last
    <2>3. Frame \in GuardFrames
      BY <2>2 DEF Frames, PlainFrames, OpenedFrames, LibFrames, SavedFrames, HostFrames, ChunkFrames,
                  RunFrames, LoadedFrames, PcallFrames
    <2>4. Frame.prev = 0
      BY <2>3 DEF GuardFrames
    <2> QED BY <1>10, <2>1, <2>4 DEF EndProtected, PrevJmp
  <1>14. ~Run
    <2>1. SUFFICES ASSUME Run PROVE FALSE
      OBVIOUS
    <2>2. PICK n \in Nat : n = Len(ctl)
      BY CtlLength
    <2>3. Len(ctl') = n + 4
      BY <2>1, <2>2, RunPushes
    <2>4. error_jmp' = n + 3
      BY <2>1, <2>2 DEF Run
    <2> QED BY <1>9, <2>3, <2>4
  <1> QED BY <1>4, <1>5, <1>6, <1>7, <1>8, <1>11, <1>12, <1>13, <1>14 DEF Next, UnderRecovery

-----------------------------------------------------------------------------
(* The theorems. *)

(* Every variable has its type, and base is not above top.                 *)
THEOREM TypeCorrect == Spec => []TypeOK
  <1>1. ASSUME IInv
        PROVE  TypeOK
    <2>1. \A f \in DOMAIN ctl : ctl[f].at \in Labels
      <3>1. ctl \in Seq(Frames)
        BY <1>1 DEF IInv
      <3>2. \A f \in DOMAIN ctl : ctl[f] \in Frames
        BY <3>1, ElementOfSeq
      <3> QED BY <3>2, FrameLabels
    <2>2. stack \in Seq(Values) /\ base \in 0..Top /\ pc \in 0..MaxFrames /\ func \in 0..MaxFrames
      BY <1>1, RegistersHaveTypes DEF Indexes, Top
    <2>3. error_jmp \in {Garbage, Null} \cup DOMAIN ctl
      BY <1>1, RecoverPointOfShape DEF Beginning
    <2>4. /\ mem \subseteq AllocationSites
          /\ error_msg \in Messages \cup {NoMessage}
          /\ outcome \in {"running", "exit", "no_thread", "wild_jump"}
          /\ {said, thrown} \subseteq [err : Errors \cup {"OK"}, msg : Messages \cup {NoMessage}]
      BY <1>1 DEF IInv, TypedRest, Statuses, AllMessages
    <2> QED BY <2>1, <2>2, <2>3, <2>4 DEF TypeOK
  <1> QED BY <1>1, IInvAlways, PTL

(* error_jmp is the innermost Thread_run_protected that has not returned:  *)
(* there is never more than one.                                           *)
THEOREM RecoverPointCurrent == Spec => []CurrentRecoverPoint
  <1>1. ASSUME IInv
        PROVE  CurrentRecoverPoint
    <2>1. SUFFICES ASSUME outcome = "running", ~At("open"), ~At("step_one")
                   PROVE  \/ error_jmp \in Protecting /\ \A f \in Protecting : f <= error_jmp
                          \/ error_jmp = Null /\ Protecting = {}
      BY DEF CurrentRecoverPoint
    <2>2. ~Beginning("open", Garbage) /\ ~Beginning("step_one", Garbage)
      BY <1>1, <2>1, LabelOfShapes DEF At, IInv
    <2>3. CASE error_jmp = Null /\ Protecting = {}
      BY <2>3
    <2>4. CASE error_jmp \in DOMAIN ctl /\ Protecting = {error_jmp}
      <3>1. error_jmp \in Nat
        BY <1>1, <2>4, CtlLength
      <3> QED BY <2>4, <3>1
    <2> QED BY <1>1, <2>2, <2>3, <2>4, RecoverPointOfShape
  <1> QED BY <1>1, IInvAlways, PTL

(* The buffer of the parser is freed before a function or the host runs    *)
(* again.                                                                  *)
THEOREM BufferFreed == Spec => []BufferOnlyWhileParsing
  <1>1. ASSUME IInv
        PROVE  BufferOnlyWhileParsing
    <2>1. SUFFICES ASSUME "buff" \in mem
                   PROVE  \E f \in DOMAIN ctl : ctl[f].at = "pcall"
      BY DEF BufferOnlyWhileParsing
    <2>2. InParser \/ ParserDone \/ InPcall
      BY <1>1, <2>1
         DEF IInv, Shape, Beginning, InStepTwo, StepTwoDone, InOpened, InLib, InCode, InLoaded, NoBuffer
    <2>3. DOMAIN ctl = 1..Len(ctl) /\ Len(ctl) \in Nat
      BY <1>1, CtlLength
    <2>4. PICK n \in Int : Loading(n) /\ n + 1 <= Len(ctl)
      BY <2>2, <2>3 DEF InParser, ParserDone, InPcall
    <2>5. ctl[n + 1].at = "pcall" /\ n \in Nat
      BY <2>4 DEF Loading, PcallFrames
    <2>6. n + 1 \in DOMAIN ctl
      BY <2>3, <2>4, <2>5
    <2> QED BY <2>5, <2>6
  <1> QED BY <1>1, IInvAlways, PTL

(* When nf::open returns, print and nf are global variables, nf.version is *)
(* set, and the stack is empty.                                            *)
THEOREM LibsAreInstalled == Spec => []LibsInstalled
  <1>1. ASSUME IInv
        PROVE  LibsInstalled
    <2>1. SUFFICES ASSUME At("lib"), Frame.done = Len(LibCalls)
                   PROVE  /\ registry = [at |-> "table", print |-> "func_print", nf |-> "table_nf",
                                         version |-> "0.0.1"]
                          /\ stack = <<>> /\ base = 0 /\ func = Null
      BY DEF LibsInstalled
    <2>2. InLib
      BY <1>1, <2>1, ShapeOfLabel DEF At
    <2>3. ctl[1].done = 12
      BY <2>1, <2>2, LibCallsLength DEF InLib, Frame, Last
    <2>4. AfterCalls(12) /\ base = 0 /\ func = Null
      BY <2>2, <2>3 DEF InLib
    <2>5. GlobalsAre(registry, "func_print", "table_nf", "0.0.1") /\ stack = <<>>
      BY <2>4 DEF AfterCalls, GlobalsAfter, StackAfter
    <2>6. registry = [at |-> "table", print |-> "func_print", nf |-> "table_nf", version |-> "0.0.1"]
      BY <2>5 DEF GlobalsAre, Globals
    <2> QED BY <2>4, <2>5, <2>6
  <1> QED BY <1>1, IInvAlways, PTL

(* If malloc does not fail for the buckets of the string table, whatever   *)
(* is thrown goes to the innermost Thread_run_protected that runs, and     *)
(* ends the program only if none runs.                                     *)
THEOREM RecoverPointFound ==
  ASSUME "buckets" \notin Failing
  PROVE  Spec => ThrowFindsRecoverPoint
  <1> DEFINE Found ==
        /\ outcome' # "wild_jump"
        /\ outcome' = "exit" => Protecting = {}
        /\ Last(ctl').at = "recovered" =>
             Len(ctl') \in Protecting /\ \A f \in Protecting : f <= Len(ctl')
  <1>1. ASSUME IInv, IInv', [Next]_tvars, ~UNCHANGED tvars
        PROVE  Found
    <2>1. outcome' # "wild_jump"
      BY <1>1 DEF IInv
    <2>2. outcome = "running"
      BY <1>1 DEF Next, UnderRecovery, At, Open, StepOne, RunStepTwo, Opened, Lib, LibsDone, StepTwo,
                  Parser, EndProtected, Run, EndPcall, Loaded, Work, Fault, CallHost, Return, Close
    <2>3. ASSUME outcome' = "exit"
          PROVE  Protecting = {}
      <3>1. error_jmp \in {Null, Garbage}
        BY <1>1, <2>2, <2>3, ExitsWithout
      <3> QED BY <1>1, <3>1, RecoverPointIsOne DEF OneRecoverPoint
    <2>4. ASSUME Last(ctl').at = "recovered"
          PROVE  Len(ctl') \in Protecting /\ \A f \in Protecting : f <= Len(ctl')
      <3>1. Frame'.at = "recovered"
        BY <2>4 DEF Frame
      <3>2. error_jmp' = error_jmp
        BY <1>1, <3>1, JmpKept
      <3>3. error_jmp' = Len(ctl') /\ Len(ctl') \in Nat \ {0}
        BY <1>1, <3>1, RecoveredIsLast
      <3>4. error_jmp \notin {Null, Garbage}
        BY <3>2, <3>3
      <3>5. Protecting = {Len(ctl')}
        BY <1>1, <3>2, <3>3, <3>4, RecoverPointIsOne DEF OneRecoverPoint
      <3> QED BY <3>3, <3>5
    <2> QED BY <2>1, <2>3, <2>4
  <1>2. IInv /\ IInv' /\ [Next]_tvars => [Found]_tvars
    BY <1>1
  <1> QED BY <1>2, IInvAlways, PTL DEF Spec, ThrowFindsRecoverPoint

(* The program exits with the error that was thrown first and its message, *)
(* also if it was caught and thrown again without the message; and after   *)
(* an error neither a function nor the host goes on.  (Before error_msg    *)
(* has a value the program would report what malloc found.)                *)
THEOREM ErrorsReported ==
  ASSUME "buckets" \notin Failing
  PROVE  Spec => []ErrorReported
  <1>1. ASSUME IInv, InFlight
        PROVE  ErrorReported
    <2>1. outcome = "exit" => said = thrown
      BY <1>1 DEF IInv
    <2>2. ASSUME At("loaded"), Frame.status # "OK"
          PROVE  thrown = [err |-> Frame.status, msg |-> error_msg]
      <3>1. InLoaded
        BY <1>1, <2>2, ShapeOfLabel DEF At
      <3>2. Outcome(Frame.status, Frame.before)
        BY <3>1 DEF InLoaded, Frame, Last
      <3> QED BY <2>2, <3>2 DEF Outcome
    <2>3. At("host") \/ At("chunk") => thrown.err = "OK"
      BY <1>1 DEF At, InFlight
    <2> QED BY <2>1, <2>2, <2>3 DEF ErrorReported
  <1> QED BY <1>1, IInvAlways, InFlightAlways, PTL

(* When an nf::run ends, its caller has the stack, base and pc it had      *)
(* before the text was loaded: the frame of the chunk remembers them, and  *)
(* nothing that runs on top of it writes below its registers.              *)
THEOREM RunRestores == Spec => RunLeavesRegisters
  <1>1. ASSUME IInv, Chunks, [Next]_tvars, At("chunk"), Len(ctl') < Len(ctl)
        PROVE  /\ stack' = Frame.before[1]
               /\ base' = Frame.before[2] /\ pc' = Frame.before[3]
    <2>1. PICK n \in Nat \ {0} : n = Len(ctl) /\ DOMAIN ctl = 1..n
      BY <1>1, CtlLength
    <2>2. Frame = ctl[n] /\ Frame.at = "chunk" /\ InCode
      BY <1>1, <2>1, ShapeOfLabel DEF At, Frame, Last
    <2>3. Return
      <3>1. ctl' # ctl
        BY <1>1, <2>1
      <3>2. ~Fault
        <4>1. ASSUME NEW err, NEW msg, Throw(err, msg)
              PROVE  FALSE
          <5>1. error_jmp = 0
            BY <2>2 DEF InCode
          <5>2. ~Live(error_jmp)
            BY <2>1, <5>1 DEF Live
          <5> QED BY <3>1, <4>1, <5>1, <5>2 DEF Throw, Rethrow, Exit
        <4> QED BY <4>1 DEF Fault, OutOfMemory
      <3>3. ~CallHost
        <4>1. ASSUME CallHost
              PROVE  FALSE
          <5>1. PICK r : ctl' = Append(ctl, r)
            BY <4>1 DEF CallHost
          <5>2. ctl \in Seq(Frames)
            BY <1>1 DEF IInv
          <5>3. Len(ctl') = n + 1
            BY <2>1, <5>1, <5>2
          <5> QED BY <1>1, <2>1, <5>3
        <4> QED BY <4>1
      <3>4. Next
        BY <1>1, <3>1 DEF tvars
      <3> QED BY <2>2, <3>1, <3>2, <3>3, <3>4
              DEF Next, UnderRecovery, At, Open, StepOne, RunStepTwo, Opened, Lib, LibsDone, StepTwo,
                  Parser, EndProtected, Run, EndPcall, Loaded, Work, Close
    <2>4. n \in DOMAIN ctl /\ Remembers(Frame)
      BY <1>1, <2>1, <2>2 DEF Chunks
    <2>5. Frame \in ChunkFrames /\ Frame.top <= base
      BY <1>1, <2>2, <2>4, ChunkTops
    <2>6. PICK s, t : s = Frame.before[1] /\ t = Frame.top - 1
      OBVIOUS
    <2>7. s \in Seq(Values)
      <3>1. Frame.before \in RegisterValues
        BY <2>5 DEF ChunkFrames
      <3> QED BY <2>6, <3>1 DEF RegisterValues
    <2>8. stack \in Seq(Values) /\ base \in 0..Len(stack) /\ Len(stack) \in Nat
      BY <1>1, RegistersHaveTypes
    <2>9. Len(s) = t /\ \A i \in 1..t : stack[i] = s[i]
      BY <2>4, <2>6 DEF Remembers
    <2>10. t \in 0..Len(stack)
      <3>1. t \in Nat /\ Frame.top \in Nat
        BY <2>5, <2>7, <2>9 DEF ChunkFrames
      <3> QED BY <2>5, <2>6, <2>8, <3>1
    <2>11. stack' = SubSeq(stack, 1, t) /\ base' = Frame.base /\ pc' = Frame.pc
      BY <2>2, <2>3, <2>6 DEF Return, TopRestored
    <2>12. stack' \in Seq(Values) /\ Len(stack') = t /\ \A i \in 1..t : stack'[i] = stack[i]
      BY <2>8, <2>10, <2>11, PrefixProperties
    <2>13. stack' = s
      BY <2>7, <2>9, <2>12, SeqEqual
    <2> QED BY <2>4, <2>6, <2>11, <2>13 DEF Remembers
  <1>2. IInv /\ Chunks /\ [Next]_tvars
          => [At("chunk") /\ Len(ctl') < Len(ctl)
                => /\ stack' = Frame.before[1]
                   /\ base' = Frame.before[2] /\ pc' = Frame.before[3]]_tvars
    BY <1>1
  <1> QED BY <1>2, IInvAlways, ChunksAlways, PTL DEF Spec, RunLeavesRegisters
=============================================================================

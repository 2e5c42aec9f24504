-------------------------------- MODULE NfRun --------------------------------
(***************************************************************************)
(* The parser and the interpreter together, as nf::run composes them       *)
(* (nf/src/public_api.cpp): a text is parsed to a chunk (NfParser), the    *)
(* chunk is called by the main program (NfVm).                             *)
(*                                                                         *)
(* The text is made of whole statements, each chosen when the parser asks  *)
(* for its first token.  No allocation fails and no token is malformed:    *)
(* NfParser and NfVm have what happens then.                               *)
(***************************************************************************)
EXTENDS NfVm, SequencesExt

CONSTANTS
  Tokens,        \* the tokens of the statements
  Statements,    \* the statements, sequences of tokens
  MaxStatements, \* bound: statements of a text
  MaxConstNr,    \* MAX_CONST_NR
  MaxVarNr       \* MAX_VAR_NR

(* A statement is a sequence of tokens, as NfParser has them, and what the *)
(* lexer makes of their text is a value; one statement is the longest.     *)
ASSUME InterpAssumption ==
  /\ Statements \subseteq Seq(Tokens) /\ MaxStatements \in Nat
  /\ \E longest \in Statements : \A s \in Statements : Len(s) <= Len(longest)
  /\ \A t \in Tokens : /\ t = [kind |-> t.kind, text |-> t.text] /\ t.text \in Plain
                       /\ t.kind \notin {"eof", "none"}
  /\ MaxConstNr \in Nat /\ MaxConstNr <= Int16Max
  /\ MaxVarNr \in Nat /\ MaxVarNr <= Int16Max

VARIABLES
  text,   \* the text chosen so far, without the end
  toks, look, ctl, val, scope, proto, parse  \* those of NfParser

LongestText == MaxStatements * (CHOOSE n \in {Len(s) : s \in Statements} :
                                  \A s \in Statements : Len(s) <= n)
P == INSTANCE NfParser WITH
  status <- parse,
  Texts <- {[prelude |-> <<>>, tokens |-> Tokens, free |-> LongestText]}

parsing == <<toks, look, ctl, val, scope, proto, parse>>
running == <<stack, top, base, pc, func, funcs, tables, calls, out, status>>
programVars == <<text, parsing, running>>

Begin == Init /\ P!Init /\ text = <<>>

(* The next statement of the text.                                         *)
StatementNr == Cardinality({j \in DOMAIN text : text[j].kind = ";"})
Write ==
  /\ P!At("stmt") /\ look = P!NoToken /\ toks = text
  /\ StatementNr < MaxStatements
  /\ \E s \in Statements : text' = text \o s
  /\ UNCHANGED <<parsing, running>>

(* A step of the parser on this text. *)
Parse ==
  /\ P!Next
  /\ IsPrefix(toks', Append(text, P!Eof)) /\ parse' # "OUT_OF_MEMORY"
  /\ UNCHANGED <<text, running>>

(* load() returned a function: it is called. *)
Started == Len(funcs) > 1
Start == parse = "parsed" /\ ~Started /\ RunChunk(proto) /\ UNCHANGED <<text, parsing>>

Execute == Interpreter /\ UNCHANGED <<text, parsing>>

RunText == Parse \/ Start \/ Execute
ProgramNext == Write \/ RunText

(* The program never waits; the text need not go on. *)
ProgramSpec == Begin /\ [][ProgramNext]_programVars /\ WF_programVars(RunText)

-----------------------------------------------------------------------------
(* Properties. *)

(* The chunk is not longer than any count of its slots can be.             *)
ChunkShort == Len(proto.ins) < Int16Max

(* When the chunk is about to return, its frame has a slot for each        *)
(* variable and no other: what its statements took, stmt() gave back.      *)
FrameHoldsVariables ==
  status = "running" /\ Running = "NF" /\ Instr.op = "RET_0" => top - base = Len(scope)

(* An instruction reads and writes slots of its frame, constants of its    *)
(* chunk and nothing else: __Thread_run checks no index.                   *)
OperandsInFrame ==
  status = "running" /\ Running = "NF" =>
    OperandsLive(Instr, top - base) /\ (Instr.op = "CONST" => ConstOk)

=============================================================================

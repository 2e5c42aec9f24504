# A formal model of nf

nf is a small scripting language: a parser that turns a chunk of text into
bytecode as it reads, a stack machine that runs the bytecode, tables, interned
strings, and a C++ API through which a host program pushes values, registers C
functions and runs chunks. The modules here model that code and state what it
must get right. TLC checks them on small instances; TLAPS proves their safety
properties, except that a text does what it says (`NfInterp`), for every
instance. All paths below are relative to `src/nf/src/`.

Nothing in nf runs concurrently. What is hard is *nesting and agreement*: the
parser and the interpreter must agree on every stack slot without telling each
other; a C function may call `nf::run`, so that interpreter loops, parsers and
error recovery points nest inside each other on one stack; and the registers of
every caller live in that stack, between the frames.

## 1. Inventory

| component | state | operations | works with |
|---|---|---|---|
| input buffering (`zio.cpp`) | bytes left, position | `ZIO_peek`, `ZIO_next`, `ZIO_fill`, `ZIO_read` | calls the reader; called by the lexer |
| lexer (`parser.cpp` 93-240) | current character, token buffer | `next_token` | ZIO; creates strings |
| parser (`parser.cpp` 242-763) | one token of look-ahead, the recursion, the scope, the `Proto` and its `used_slots` | one function per construct, `emit` | lexer, constants (`func.cpp`), error recovery |
| bytecode (`bytecode.h`) | 64 bit words | `INS_FROM_...`, `INS_AB`, `INS_CD` | written by the parser, read by the interpreter |
| interpreter (`thread.cpp` 216-459) | `pc`, `func`, `base`, `top`, the chain of `Func::prev` | one case per opcode, `Thread_call`, `__Thread_return` | stack, tables, strings, C functions |
| stack (`thread.cpp` 497-528, `api.h` 79-84) | `stack`, `stack_nr` | `Thread_push`, `Thread_pop_*`, `stack_slot` | everything |
| tables (`table.cpp`) | buckets of nodes, an array part that stays empty | `Table_set`, `Table_get`, rehash | keys are `TValue`s |
| strings (`str.cpp`, `thread.cpp` 24-67) | 31 buckets of `Str` | `Str_new`, `Str_concat`, `StrTab_*` | equality of strings is equality of pointers |
| error recovery (`thread.cpp` 134-166, 436-449) | the chain of `LongJmp`, `error_msg` | `Thread_run_protected`, `Thread_throw`, `Thread_pcall` | parser, `Thread_open` |
| thread life cycle (`thread.cpp` 69-132, `public_api.cpp` 32-40) | all of `Thread` and `GlobalState` | `nf::open`, `nf::close` | libraries |
| host API (`public_api.cpp`) | none of its own | `new_str`, `new_table`, `push_func`, `set_table`, `set_global`, `pop`, `set_top`, `run` | stack, tables, interpreter |
| libraries (`lib_core.cpp`, `lib_nf.cpp`) | entries of the registry | `print`, the two init functions | host API |
| output and command line (`print.cpp`, `main.cpp`, `die.cpp`) | none | formatting, options | - |

What makes each correct:

* **Parser**: `used_slots` is, after every `emit`, the number of slots the code
  emitted so far will have in use when it runs; between statements it is the
  number of variables; operands are slots in use; parsing ends.
* **Interpreter**: it finds the slots the parser counted; a callee leaves its
  callers' slots alone; a return restores the caller's registers; `func` and
  `pc` belong together; a run ends.
* **Stack**: a push is inside the block, or reports an overflow.
* **Tables**: they are maps: the last value stored for a key is found, rehashing
  loses nothing.
* **Strings**: equal contents are one object.
* **Error recovery**: an error goes to the innermost recovery point, which
  leaves the thread as it was when it was set up.

The list `hazards` of `PROJECT.json` names what is hard to test at its line,
with the property that watches it or the reason why none does.

## 2. Modules

| module | models | lines |
|---|---|---|
| `NfBytecode` | packing and unpacking of instructions; what each does to the number of slots in use (`DepthAfter`), and `WellFormed`, the contract between parser and interpreter | `bytecode.h`, `thread.cpp` 259-403 |
| `NfValue` | values and arithmetic | `object.h` 22-32, `thread.cpp` 216-244, 357-390 |
| `NfZio`, `NfStream` | the input buffer over both readers, as operators; and what it promises | `zio.cpp`, `thread.cpp` 173-183, 473-483 |
| `NfLexer` | `next_token`, character by character | `parser.cpp` 93-240 |
| `NfParser` | the recursive descent and the code it emits | `parser.cpp` 242-763, `func.cpp` |
| `NfVm` | the interpreter and the host API | `thread.cpp`, `public_api.cpp`, `lib_core.cpp` |
| `NfRun` | `NfParser` and `NfVm` composed: a text is parsed, its chunk is run | `public_api.cpp`, `thread.cpp` 185-196, 451-456 |
| `NfInterp` | `NfRun` compared with a direct evaluation of the text | |
| `NfTable`, `NfMap` | buckets, look-up and rehash of tables; and the map they promise | `table.cpp` |
| `NfStrTab`, `NfIntern` | strings, the string table and `tmp_buf`; and the interning they promise | `str.cpp`, `thread.cpp` 24-67, `zio.h` |
| `NfThread` | a thread from `nf::open` to `nf::close`: recover points, errors, failing allocations, nested runs, the libraries | `thread.cpp` 69-166, 406-459, `public_api.cpp`, `lib_*.cpp`, `parser.cpp` 718-741 |
| `NfVmProofs`, `NfTableProofs`, `NfParserProofs`, `NfThreadProofs`, `NfStrTabProofs`, `NfLexerProofs`, `NfRunProofs` | proofs about `NfVm`, `NfTable`, `NfParser`, `NfThread`, `NfStrTab`, `NfLexer` with `NfZio`, `NfRun` | |
| `MCParser`, `MCVm`, `MCTable`, `MCLexer`, `MCStrTab`, `MCInterp` | instances for TLC | |

How they fit together:

* `NfLexer` contains the operators of `NfZio` and implements `NfStream`; its
  output, any sequence of tokens, is the input of `NfParser`.
* `NfParser` emits what `NfBytecode` calls `WellFormed`; `NfVm` runs any chunks
  that are `WellFormed`. `NfRun` takes the one's output as the other's input, and
  `NfInterp` extends it.
* `NfVm` and `NfRun` have tables that are maps and strings that are their
  contents. `NfTable` shows that the buckets implement `NfMap`, `NfStrTab` that
  equal strings are one object (`NfIntern`), so that this is what the code does.
* `NfThread` abstracts from what parser and interpreter do and keeps who may
  throw when, which recover point is current, and what is given back.

Several definitions stand next to a variant of themselves that no action uses
(`KeepTemps` before `PopTemps`, `PutOld` before `PutFirst`): the variant is a
plausible mistake, and `PROJECT.json` lists under `mutants` which property
catches it.

### NfParser

The C++ recursion is the variable `ctl`, a sequence of frames, innermost first;
the label of a frame names the point of its function that runs next, and what
was returned last is in `val`. Each action is the code between two points where
the parser needs a token or a result: `StmtLocalName` is `stmt_local` up to its
look for `=`, `BinaryLoop("sum")` is one turn of the loop of `expr`,
`BinaryLoop("term")` one of `add_or_sub_elem`, `Unary` the end of `operand` and
of `mul_or_div_elem`, `Subscript` and `KeyEnd` the two halves of an index in
`single_value`, and so on. Emits of one action are in the order of the code.

The text is not fixed: when `peek` finds no buffered token the next one is
chosen from `Tokens`, so a behaviour is the parse of one text and TLC goes
through all texts a constant, `Texts`, allows. Text `next_token` throws on is
the token kind `","`: `next_token` has no case for it. `proto.dep` is a history
variable: the value of `used_slots` before each instruction.

Integers that matter keep their width: slots are `int16_t` (`I16`), `tmp_nr` is
truncated by the packing of `POP`. An error drops the `Proto`, so an action
that fails says nothing of what was emitted just before.

### NfZio, NfLexer

A ZIO is what the reader still has (`src`), the size of its buffer (`limit`),
`feof`, and the bytes read and not taken. `Filled`, `Peeked` and `Taken` are
`ZIO_fill`, `ZIO_peek` and `ZIO_next`, with the byte that `ZIO_peek` puts back.
`LoadS_read` is a reader whose buffer holds the text. The refinement mapping to
`NfStream` joins the bytes buffered and those to come: borders of chunks vanish.

`at` is the point of `next_token`, and each action one character: `Eq` and
`EqOnly` are the look-ahead behind `=`, `MoreDigits` computes the Integer in its
width, `StringChar` appends, EOF included, until memory (`MaxBuff`) ends.
`TokensOf` defines the tokens of a text by longest match over the whole text,
with neither buffer nor state: `LexesText` compares the two.

### NfTable

`Set` is the head of `Table_set` up to the test of the load, `Grow` the
allocation of new buckets, `Move` one round of the inner loop of the rehash,
`NextBucket` one of the outer, `Install` its end, `Found` and `Insert` the two
ways `Table_set` returns its place with the caller's assignment to it. Chains
are sequences of node numbers, so that a `next` pointer lost or kept is a node
missing or in two chains. A key is a type and the 64 bits of the union: an
Integer and a double may have the same bits, `NumEq` is the comparison by
subtraction, for which 0.0 and -0.0 are equal and a NaN is not equal to itself.
`NfMap` therefore promises something of `Regular` keys only, those equal to
themselves and to nothing else; of a negative Integer, which the code takes for
an index of the empty array part, nothing is promised at all.

### NfStrTab

`Search`, `AllocStr`, `AllocBase` are `Str_new` with its two allocations,
`Concat`, `Reserve`, `AppendNext`, `Concatenated` are `Str_concat`, `NewFmt`
`Str_new_fmt`. `tmp_buf` is modelled with its allocation, its fill and what
earlier users left in it, `Junk` being what malloc found; the hash is the
constant 0 of the code, so that all strings share a bucket. `NfIntern` maps
contents to the one object that has them.

### NfThread

`ctl` holds the activations with the `LongJmp` record of
`Thread_run_protected` in its frame, so a recover point is the number of a
frame and a jump cuts `ctl` off there. `StepOne`, `RunStepTwo`, `StepTwo`,
`EndProtected`, `Opened` are `Thread_open`; `Lib` is one API call of the two
libraries; `Run`, `Parser`, `EndPcall`, `Loaded` are `nf::run` up to the call of
the chunk, `Work`, `Fault`, `CallHost`, `Return` what chunks and C functions may
do. `error_jmp` may be `Garbage`, what malloc found; a throw through it, or
through a frame that has returned, is `"wild_jump"`. The constant `Failing`
names the allocations that may fail.

### NfRun, NfInterp

The state is that of `NfVm` (by EXTENDS) and of `NfParser` (an instance, whose
`status` is called `parse`). The text is written a statement at a time when the
parser asks for it; when the parser is done `Start` calls the function made of
its `Proto`. That is `NfRun`, which is a module without recursive operators, so
that programs can be proved about. In `NfInterp`, `Meaning` evaluates the same
tokens recursively: variables are an environment by name, expressions yield
values, an element that was named and not read is a `Place`. It knows no slots,
no stack and no instructions, and is what the text says by the grammar: the
comparison with the run (`out`, `tables` and the error) is the correctness of
compiler and interpreter together.

### NfVm

`stack` is the block `Thread::stack` can become, `top` and `base` are indices
into it, `pc` is a pair of function and position. `funcs` and `tables` are the
objects on the heap. Uninitialized slots hold `Uninit`, and slots above `top`
keep what they held: reads of them are visible.

`calls` is the C++ recursion of `Thread_call`: the parameter `func_i` of each
activation, which the code uses after the call, and, as a history, the function
and the registers at the call. The actions do not read the history except `fn`,
which says which code is running: registers are restored from the stack, as in
`__Thread_return`, and `func` from `prev`.

One action is one instruction, one call (`Call`, `Run`), one return (`Ret0`,
`CPrint`, `HostReturns`) or one API call. The host takes any action of the API
on its own frame whenever its code runs: as the main program, or as a C function
a script called. `Run(p)` stands for the parser accepting a text and pushing its
function, and `Thread_call(-1)`; the protos it may get are constants and
`VmAssumption` asks that they be `WellFormed`, which `NfParserProofs` proves of
the parser's output. `RunRejected` is a text that does not parse.

Undefined behaviour ends a behaviour: status `"undefined"` for reads and writes
through something that is no table, or constants that do not exist; `"stack
lost"` for a stack that was moved or outgrown. A push past `StackNr` slots may
do three things: leave the block where it is, lose it, or find no memory.

Runtime errors have no recovery point (only the parser runs under
`Thread_pcall`), so `Thread_throw` exits: a status, after which nothing happens.

## 3. Runs

| run | question | instance | distinct states |
|---|---|---|---|
| `MCParser_all` | Are temporaries given back, operands live, the effects of instructions accounted for; is the code well formed; does parsing end? `TypeOK`, `EmittedOperandsLive`, `StatementsBalanced`, `ParsedCodeWellFormed`, `ParsingEnds` | every kind of token in texts up to 5; up to 7 of 12 tokens after `local a; local b;`; up to 6 of 16 after `local a =`; up to 4 of 4 where the scope is full; at most two constants and three variables | 1 097 000 |
| `MCParser_comma` | Does a comma separate arguments? It does not. `CommaSeparatesArguments` | after `g(1`, up to 3 more | (violated) |
| `MCVm_nested` | Do frames, saved registers and returns survive nesting, re-entry, errors? `TypeOK`, `SavedFramesIntact`, `DepthAgrees`, `CallersResume`, `ChunksUnreachable`, `FuncNotNull`, `CallerSlotsUntouched`, `ReturnRestoresFrame`, `RunsEnd` | 5 main chunks, 3 chunks for C functions, stack of 7 slots | 374 000 |
| `MCVm_noreentry` | Do `func` and `pc` belong together while no function is re-entered? `PcOfCurrentFunction` | the same, with C functions that run chunks that do not call back | 313 000 |
| `MCVm_reentry` | And when one is? They do not. `PcOfCurrentFunction` | a chunk that calls `host` and then `print` | (violated) |
| `MCVm_overflow` | Is an overflow of the stack reported? It is not. `StackOverflowReported` | 33 locals, the code's 32 slots | (violated) |
| `MCVm_print` | Does `print` read its argument? Not when there is none. `PrintReadsUsedSlot` | `local f = print; f();` | (violated) |
| `MCTable_map` | Does a table lose, double or confuse keys, does it implement a map, does the rehash end? `TypeOK`, `NodesInPlace`, `NoNodeTwice`, `OneNodePerKey`, `LoadAtMostOne`, `ImplementsMap`, `SetEnds` | 6 keys, 2 values, up to 4 nodes | 600 000 |
| `NfThread_life` | Does an error reach the recover point it should and the user with its message, is the buffer given back, and does a run leave its caller's registers as they were? `TypeOK`, `CurrentRecoverPoint`, `ThrowFindsRecoverPoint`, `ErrorReported`, `RunLeavesRegisters`, `BufferOnlyWhileParsing`, `LibsInstalled`, `RecoverPointsEnd` | 6 of the 7 allocations failing anywhere, 2 messages, 12 activations | 9 700 |
| `MCLexer_tokens` | Are the tokens those of the text, whatever the borders of the chunks, and does lexing end? `TypeOK`, `LexesText`, `ImplementsStream`, `LexingEnds` | all texts of up to 4 of 11 characters, chunks of 1, 2 and 5 bytes | 426 000 |
| `MCStrTab_intern` | Are equal strings one object, with the contents asked for? `TypeOK`, `OneStrPerContents`, `ImplementsIntern` | 4 texts, two with a NUL before the end or at once, up to 4 strings of up to 3 characters and what a format gives | 1 846 000 |
| `MCInterp_texts` | Does a text do what it says? `DoesWhatItSays`, `VariablesKeepValues`, `TextsRun` | all texts of up to 3 of 15 statements | 127 000 |

Deadlock is not checked: a parse that ended and a program that exited stop, a
host may cease to call, and the models end at their bounds.

**Bounds, and why they are enough.**

* Parser: seven free tokens hold a call with an argument and its semicolon and
  the begin of another statement, six an index of an index or a parenthesised
  product; the parser's state between statements is only `used_slots`, the scope
  and the constants, so longer texts repeat what short ones do. `MaxVarNr` and
  `MaxConstNr` are small, so that both limits are met: `FullScope` begins with as
  many declarations as there is room for, and `TypeOK` bounds the scope and the
  constants. The theorems have none of these bounds.
* Interpreter: `StackNr` is 7 in `MCVm_nested`: small, so that calls cross it and
  the reallocated block (26 slots) is in use. `MaxFuncs = 4` is `print`, a C
  function and two chunks, or two C functions and a chunk: enough for a chunk in
  a C function in a chunk, and for a C function entered twice. `HostSlots = 2`
  lets the host hold a key and a value. `MaxTables` counts the registry and
  `nf`. `IntMax = 7` makes overflow cheap to reach, and doubles are eight
  payloads with operations that tell their operands apart.
* Tables: the fourth node makes the third rehash, from three buckets to seven,
  and the chains of three buckets have more than one node. Words have 8 bits, so
  that the bits of -0.0 and NaN are numbers TLC has; the keys are an Integer and
  a double of the same bits, both zeros, NaN, an object, a negative Integer.
  Nil as a key is left to the proofs.
* Lexer: four characters hold a Number with a digit on both sides of the point,
  `==` before and after a border, a string with the other quote inside, an
  unterminated one, and the keyword with a letter more. Integers have 8 bits and
  the keyword two letters, so that three digits overflow and texts stay short.
  A byte that `char` makes EOF of is in no text: with one, `ImplementsStream`
  fails, see below.
* Strings: with four strings a chain has every length a search tells apart, and
  `tmp_buf` grows, is used again with less, and keeps junk.
* Threads: 12 activations are three runs, the inner two in C functions of the
  outer.
* Interpreter and parser together: `StackNr` is above what any text needs, so
  that the overflow does not hide everything else; three statements declare,
  use, and use or declare again.

**Fairness.** The parser and the lexer run alone and never wait: weak fairness of
their `Next`; `NfRun` likewise, of everything but the choice of the text. The
interpreter's loop never waits either: weak fairness of `Interpreter`. A C
function is assumed to return if it is never kept from it, `WF(HostReturns)`;
the code cannot run on without that, and the host's other calls are bounded by
the constants. `Table_set` runs on once it is called: weak fairness of its
steps, `Step`, not of calling it. In `NfThread` what runs under a recover point
is the parser and the second step of `Thread_open`, which never wait
(`UnderRecovery`). No fairness is assumed of the main program: it may stop
calling nf.

## 4. What goes wrong

The four violated runs:

* **The stack is lost at 33 slots.** `Thread_push` compares `top` with
  `stack_nr`, which stays 32 for ever: each push past it reallocates to 64 slots
  and leaves `top` and `base` pointing into the old block; the check
  `"stack overflow"` on `stack_nr` cannot fire.
* **Re-entered functions lose their caller.** `func->prev` is a field of the
  function. A C function that runs a chunk that calls it again has the link to
  its first caller overwritten; when it returns, `func` is not the function `pc`
  is in, and `CONST` reads constants of another chunk. `FuncNotNull` still
  holds: `func` is never null while a function runs.
* **No call has two arguments.** The lexer throws on `,`.
* **`print()` prints a dead slot.**

Three more are kept out of the passing runs by a constant, and can be seen by
giving it the other value:

* `StrTab_init` allocates before `error_jmp` has a value. With `"buckets"` in
  `Failing`, `ThrowFindsRecoverPoint` is violated: the throw jumps through what
  malloc found.
* A byte 0xFF is `EOF` where `char` is signed: with `EOF` in a text, the token
  ends there, and when the byte begins a chunk `ZIO_peek` drops it
  (`ImplementsStream` is violated).
* A negative Integer as a key indexes the array part, a null pointer. The model
  ends in `"undefined"`, and `Regular` leaves such keys out of what a map
  promises.

`nf::open` uses the null pointer `Thread_open` returns when it failed: the
outcome `"no_thread"` of `NfThread`.

## 5. Proofs

### The interpreter

`NfVmProofs` proves, for every stack size up to an `int16_t`, every set of
well-formed chunks, any number of functions, tables and slots of the host, and
any arithmetic of doubles:

| theorem | property |
|---|---|
| `TypeCorrect` | `TypeOK` |
| `FramesIntact` | `SavedFramesIntact` |
| `DepthsAgree` | `DepthAgrees` |
| `CallersGoOn` | `CallersResume` |
| `ChunksHidden` | `ChunksUnreachable` |
| `FuncSet` | `FuncNotNull` |
| `CallersUntouched` | `CallerSlotsUntouched` |
| `ReturnsRestore` | `ReturnRestoresFrame` |
| `PcOfCurrent` | `PcOfCurrentFunction`, under `[]NoneReentered` |
| `PcOfCurrentLeaf` | `PcOfCurrentFunction`, if `LeafChunks` |

The assumptions are those of the modules: `VmAssumption` (chunks are what the
parser makes, at least the four slots `nf::open` uses, and a block that
`int16_t` can index), `OpenAssumption`, `IntMaxAssumption` and
`NumbersAssumption`.

All follow from one inductive invariant, `Inv` (theorem `Invariance`), the
conjunction of `TypeOK`, `SavedFramesIntact`, `DepthAgrees`, `CallersResume`,
`ChunksUnreachable` and `ChainLongEnough`. None of these is inductive alone:

* An instruction stays in its frame because its operands are below the depth the
  parser counted, which is the depth of the frame: `DepthAgrees` with
  `WellFormed`.
* After a return, `DepthAgrees` holds of the caller because of what
  `CallersResume` says of a function that waits, and because the registers
  popped are those saved: `SavedFramesIntact`.
* `Call` enters a function with arguments, and the parser counts from zero. So
  no function called with arguments, or left in reach, may be a chunk:
  `ChunksUnreachable`. It speaks of `LiveTop`, not `top`: after a `CALL` that
  took the last local, `POP -1` brings a slot back.
* `FuncNotNull` would not be inductive: a return follows `prev`, and re-entry
  rewrites links. `ChainLongEnough` says that from `func` at least `Depth` links
  can be followed. The witness is a function from functions to numbers, `r`,
  with `r[f] <= r[prev of f] + 1`; a call of `f` gives `f` the number of its
  caller plus one, which is never less than it had when it must be at least as
  much.

The lemmas `FrameStep`, `EnterStep` and `ReturnStep` show this once for all
steps inside a frame, into a new one and out of one; each action has a lemma of
its own that reduces it to one of them.

`PcOfCurrentFunction` is false of the code, see section 4, and so has a premise.
`PcOfCurrent` has the weakest that explains it: `NoneReentered`, that no function
has two activations at once. Then the links `prev` are the activations,
`ChainTrue`: a call writes only the link of a function that has none, so a
return finds in `prev` the caller that `CallersResume` speaks of. Every step
either leaves the activations alone, enters a function or returns from the last
one (`StepCalls`), and `ChainStep` shows that each keeps `ChainTrue`.
`PcOfCurrentLeaf` replaces the premise on behaviours by one on a constant,
`LeafChunks`: the chunks that C functions run call nothing. That bounds the
activations to a chunk, a C function and a chunk (`Levels`), of which no two are
of one function: the first and the last run functions made for them
(`Thread_run` makes one for each text), and the one between is a C function.

The parts of `Inv` other than `ChainLongEnough`, which quantifies over an
infinite set of functions, are invariants of `MCVm_nested`; its consequence
`FuncNotNull` is as well.

### The tables

`NfTableProofs` proves, for every set of keys, every comparison of doubles that
is symmetric, and any number of nodes:

| theorem | property |
|---|---|
| `TypeCorrect` | `TypeOK` |
| `NothingLost` | `NodesInPlace` |
| `KeysUnique` | `OneNodePerKey` |
| `BucketsSuffice` | `LoadAtMostOne` |
| `NodesOnce` | `NoNodeTwice` |
| `Refinement` | `ImplementsMap` |

The assumption is `TableAssumption` (keys are records of a type and bits, only
Integers may be negative). That a rehash makes room rests on `PowerAbove`:
`next_power_of_2(n)` lies above `n` and not above `2 * n`. `NextPowerOf2` is a
recursive function, so first a least number up to which there is none is led to
a contradiction (`PowersExist`), then `PowersAgree` and `PowerOfHalf` give its
equation, and a least counterexample the bounds.

The inductive invariant, `Inv`, is the conjunction of the first four with
`HashedKeys`, that no key in a node is taken for an index of the array part, and
`RoomForNode`, that `find` is reached with a bucket to spare. `NodesInPlace` is
what makes a look-up find a node, `OneNodePerKey` what makes the node it finds
the one: an insert comes after a failed look-up of the same bucket, and no step
in between adds nodes. The refinement then is a step lemma for each action: only
`Found` and `Insert` change `MapOf`, and only at the key stored.

`NodesOnce` needs one thing more: while nodes move from the old buckets to the
new ones, none is in both (`LinkedOnce`). A node put first in a chain must be in
no chain yet; `Move` takes it off the old one in the same step, and `Insert`
takes a node above `node_count`, which no chain has.

### The parser

`NfParserProofs` proves, for every set of tokens, every text and every limit on
variables and constants up to an `int16_t`:

| theorem | property |
|---|---|
| `BalancedAlways` | `StatementsBalanced` |
| `TypeAlways` | `TypeOK`, under `NoWrap` |
| `OperandsLiveAlways` | `EmittedOperandsLive`, under `NoWrap` |
| `WellFormedAlways` | `ParsedCodeWellFormed`, under `NoWrap` |
| `ShortFits` | a `proto` of fewer than 32767 instructions is `NoWrap` |

`NoWrap(proto)` says that no value of `used_slots` left `0..32766`. It is a
premise because nothing in the code makes it true: a text that nests 32768
temporaries wraps the counter. `ShortFits` replaces it by one on the length of
the chunk: an instruction takes at most one slot more, so `used_slots` is never
more than the number of instructions emitted (`Few`), and while that is an
`int16_t` nothing wrapped. `StatementsBalanced` needs no premise: `stmt`
brings `used_slots` back to the number of variables by the same modular
arithmetic it wandered off with. Otherwise the assumption is
`ParserAssumption`.

The inductive invariant, `IndInv`, has three parts:

* `TextInv`, the types of what is read.
* `Core`, which holds whatever the counts: types, `StatementsBalanced`, and
  `Shape`: the frames of `ctl` stand in an order the grammar allows (`Below`),
  down to one frame of a statement. Without it nothing is known of the frame a
  `Return` goes on with.
* `Code`, under `NoWrap`: everything emitted is `Sound`, which is `WellFormed`
  without its end; the slots and values kept in the frames of `ctl` and in `val`
  are live (`FrameLive`, `ValueFits`); and no more slots are variables than are
  in use, with one exception. A call of the last local takes the local's own
  slot with it: then, until the `POP -1` that brings it back, the last
  instruction is that `CALL`, at whose start the slot was there (`SemiOK`).

`EmitExtends` shows once that an `emit` of an instruction that names live slots
keeps code sound; `Goes`, `Returns`, `Ends`, `Begins` and `Fails` show once what
moving between frames keeps; each action has a lemma of its own that reduces it
to these. `WellFormedAlways` gives what `VmAssumption` asks of the chunks
`NfVmProofs` is about.

### Programs

`NfVmProofs` assumes of chunks what `NfParserProofs` proves of the parser.
`NfRunProofs` joins the two: it proves of `ProgramSpec`, for every set of
statements, any number of them and every limit on variables and constants,

| theorem | what it says |
|---|---|
| `ParserRuns` | a program's parse is a behaviour of `NfParser` |
| `InterpreterRuns` | its run is one of `NfVm`, for the chunks that are `WellFormed` |
| `ProgramFramesIntact` | `SavedFramesIntact` |
| `ProgramDepthAgrees` | `DepthAgrees` |
| `ProgramCallersResume` | `CallersResume` |
| `ProgramFuncNotNull` | `FuncNotNull` |
| `ProgramChunks` | `ChunksUnreachable` |
| `ProgramPc` | `PcOfCurrentFunction`, with no premise on calls |
| `ProgramReturns` | `ReturnRestoresFrame` |
| `ProgramCallers` | `CallerSlotsUntouched` |
| `ProgramVariables` | `FrameHoldsVariables`, the first part of `VariablesKeepValues` |
| `ProgramOperands` | `OperandsInFrame`: instructions use slots of their frame and constants of their chunk |

All but `ParserRuns` have the premise `[]ChunkShort`: the chunk never has 32767
instructions. The assumptions are `InterpAssumption` (statements are made of
tokens that are not the end of a text, one of them is the longest, and the
limits are an `int16_t`) and those of `NfVm`.

`NfRun` has a parser and an interpreter of its own, and the proofs speak of
instances. `SameParser` and `SameInterpreter` show, one operator after the
other, that these mean the same. The parser's invariant then holds of every
program, and `ChunksGood` takes from it, with `ShortFits`, that the chunk a
program starts is `WellFormed` (`WellFormedAlways`). The interpreter's steps are
steps of `NfVm` as long as it is given such chunks (`StepMaps`). Two things are
not in either: that a program starts its chunk once (`StartsOnce`), and that a
function which is not `print` has the `Proto` that was parsed (`ProtoStep`,
`ProtoAlways`). With them `ProgramVariables` follows: at `RET_0` the frame has as
many slots as the parser counted (`DepthAgrees`), and it counted the variables
(`DepthAfterLive`, from `StatementsBalanced`).

`print` is the only C function of these programs, so calls are two deep; deeper
and re-entrant ones, by C functions that run texts, are in `NfVmProofs`.

### The life of a thread

`NfThreadProofs` proves, for any depth of runs in C functions, any messages, and
any set of allocations that fail:

| theorem | property |
|---|---|
| `TypeCorrect` | `TypeOK` |
| `RecoverPointCurrent` | `CurrentRecoverPoint` |
| `RecoverPointFound` | `ThrowFindsRecoverPoint`, if `"buckets"` is not in `Failing` |
| `ErrorsReported` | `ErrorReported`, under the same premise |
| `RunRestores` | `RunLeavesRegisters` |
| `BufferFreed` | `BufferOnlyWhileParsing` |
| `LibsAreInstalled` | `LibsInstalled` |

The premise of `RecoverPointFound` is needed: see section 4. That of
`ErrorsReported` is there because `error_msg` has no value either before
`Thread_init_step_one` has ended. Otherwise the assumption is
`ThreadAssumption`. The inductive invariant, `IInv`, is the shape
of the stack of activations. Under everything lies the `Spine`: frames of
functions, each with the registers it saved, which `Restorable` says can be
popped. `Thread_open` has seven states before that, from `Beginning` to `InLib`,
where the stack and the registry are those after so many calls of the libraries
(`AfterCalls`). On the spine there may be one `Thread_run` that loads a text
(`Loading`), in one of four states: in the parser, out of it with or without an
error, behind `Thread_pcall`, and loaded. Code does not run while a text is
loaded, so there is at most one recover point, which lies right under the
parser, and what a jump cuts off is the parser alone: that is why the registers
are those of before (`RegistersAre`). `error_jmp` is then that one recover point
(`RecoverPointIsOne`), which gives `RecoverPointFound`.

Two more invariants rest on `IInv`. `Chunks` says that the stack below the
function of a chunk is the stack there was when `Thread_run` began, as long as
the frame of the chunk is there: what runs above it takes off and writes nothing
below its own base, and the tops saved on the spine never decrease
(`ChunkTops`). So what `__Thread_return` cuts the stack back to is what there
was: `RunRestores`. `InFlight` says that from a throw to its report the running
frame is one of those that hand an error on, with a status that is not OK: so
neither chunk nor host goes on, and what `Thread_run` throws again is what was
thrown first, `ErrorsReported`.

### The strings

`NfStrTabProofs` proves, for any texts in memory, any number of buckets and any
lengths:

| theorem | property |
|---|---|
| `TypeCorrect` | `TypeOK` |
| `OneStr` | `OneStrPerContents` |
| `Refinement` | `ImplementsIntern` |

The assumption is `StrTabAssumption`: what is read as a string ends. The
inductive invariant, `IInv`, adds to `OneStrPerContents` what makes it
inductive: that all strings are in the bucket of the hash 0 and whole
(`TableOK`), that `tmp_buf` has the room it says (`BufferOK`), and what the
operation under way knows (`OpOK`): between the search that found nothing and the
insertion, that no string of the table has the contents (`Making`); and in a
concatenation, that what is in `tmp_buf` followed by what is still to be appended
is what was asked for (`Joining`), whatever earlier users left behind it.

### The lexer and the input buffer

`NfLexerProofs` proves, for texts of any length, buffers of any size, any
letters and keyword and any width of an Integer from a digit on:

| theorem | property |
|---|---|
| `TypeCorrect` | `TypeOK` |
| `Lexes` | `LexesText` |
| `Refinement` | `ImplementsStream` |

All three have the premise `PlainTexts`: no text has the byte that `char` makes
`EOF` of. Without it `ImplementsStream` is false (section 4). The texts of
`MCLexer_tokens` satisfy it. Otherwise the assumption is `LexerAssumption`:
letters are neither digits, spaces, quotes nor operators, there is room for a
text in memory.

The inductive invariant is `LInv`. `Reading` says where in the text the lexer
is: what is buffered and what the reader still has are together the end of the
text. `Doing` says what `next_token` knows of the token that began at the place
`p`: that the tokens returned are those before `p` (`SoFar`), and for each point
of the function what was read since: `InDigits`, that `number` is the value of
the digits from `p` on, in the width of an Integer; `InFrac` the same with a
point; `InQuotes` that no quote was met and `buff` is the piece of the text from
`p`; `InName`, `InEq`. A token is returned when that is what `TokenAt` finds at
`p` (`EmitStep`). That wrapping after every digit is wrapping once at the end
(`WrapDigit`) is an argument about remainders of its own; that the input buffer
takes one byte and no more is `TakenIs`, by the four cases of a buffer that is
empty or not and a chunk that is.

`TokensOf` and `ValuesFrom` are recursive functions. The induction theorems of
the library cannot be instantiated here, but a least counterexample can be taken
(`Least`, from the well-foundedness of the natural numbers): so their existence,
and with it their equations, are proved (`TokensExist`, `ValuesExist`), and types
of their values as well.

### What is only model-checked

* `DoesWhatItSays` of `NfInterp`, and of `VariablesKeepValues` that the slots have
  the values `Meaning` gives: `Meaning` follows the grammar with recursive
  operators, of which nothing can be proved here. That the slots of the frame
  are the variables, no more and no fewer, is `ProgramVariables`.
* Liveness, which the prover does not reach: `ParsingEnds`, `RunsEnd`, `SetEnds`,
  `LexingEnds`, `RecoverPointsEnd`, `TextsRun`.
* `PcOfCurrentFunction` for chunks run by C functions that call other functions
  without re-entering one: `PcOfCurrent` needs `NoneReentered` of the behaviour,
  and which function a `CALL` calls is a matter of what the chunk computes.

## 6. What is not modelled, and why

* The outcome of reads through dangling or mistyped pointers: the models stop at
  `"undefined"`, `"stack lost"`, `"wild_jump"` and `"no_thread"`.
* `Opcode::TEST` and the default case of the loop: never emitted.
* Sizes of the growing arrays of a `Proto`, and the growth of the buffer of the
  lexer. `tmp_buf` is modelled with its sizes.
* The depth of the parser's C++ recursion: a text that nests deeper than the C++
  stack holds.
* Failing allocations in the lexer, except the buffer that is full: that an error
  in `next_token` is an error of the parser, and gives everything back, is in
  `NfParser` and `NfThread`.
* In `NfVm`, keys of tables that compare otherwise than as values, NaN and -0.0:
  they are the subject of `NfTable`.
* `func` in `RunLeavesRegisters`: a function entered again while it runs leaves
  it wrong, which `MCVm_reentry` shows.
* A second argument of a call in the parser: the lexer cannot produce the comma.
* `ZIO_read`, and the array part of a table: nothing calls the one or allocates
  the other.
* What `Thread_close` leaves allocated: every object made by a script. Nothing
  is ever freed before, there is no collector.
* Text: the formatting of `print.cpp` and of `vsnprintf`, the value of a double
  made of its digits. `main.cpp` parses two options and calls `nf::run` once,
  `die.cpp` is never called, `compare.cpp` is empty; build files.

## 7. Plan

Done: all modules above, their instances, and the proofs of section 5.

Left: whether `NfVm` refines an abstract machine of calls and returns, of which
`CallersResume`, `ReturnRestoresFrame` and `CallerSlotsUntouched` are the parts.

-------------------------------- MODULE NfStrTab -------------------------------
(***************************************************************************)
(* Strings (nf/src/str.cpp), the table they are interned in (thread.cpp    *)
(* 24-67), and Thread::tmp_buf, in which new ones are put together         *)
(* (MBuffer of zio.h).  nf compares strings, and names of variables, as    *)
(* pointers.                                                               *)
(*                                                                         *)
(* A Str is its number, contents are sequences of characters.  Each        *)
(* allocation may fail, which ends the program.                            *)
(***************************************************************************)
EXTENDS Integers, Sequences, SequencesExt

CONSTANTS
  Memory,  \* what new_str and new_str_fmt may be given: texts that end in NUL
  MaxStrs, \* bound: strings are made as long as there are no more
  MaxNr    \* bound: results of Str_concat are not longer

NUL == "NUL"
Junk == "junk" \* what malloc found

ASSUME StrTabAssumption == \A sz \in Memory : sz \in Seq(ToSet(sz)) /\ NUL \in ToSet(sz)

VARIABLES
  strs,    \* every Str: [nr, base, hash], base with the NUL behind it
  buckets, \* chains of numbers, first the one found first
  tmp_buf, \* [data, nr, alloc]
  op,      \* what Str_new, Str_concat or Str_new_fmt does next
  last     \* the last Str returned, and, a history, the contents asked for

svars == <<strs, buckets, tmp_buf, op, last>>

-----------------------------------------------------------------------------
BucketsNr == 31
None == [asked |-> <<>>, str |-> 0]
Idle == [at |-> "idle"]

Contents(s) == SubSeq(strs[s].base, 1, strs[s].nr)
Interned == ToSet(buckets[0])

-----------------------------------------------------------------------------
(* MBuffer: realloc keeps what there is, as far as there is room; or the   *)
(* new size is not noted.                                                  *)
Reallocated(data, alloc) == [j \in 1..alloc |-> IF j \in DOMAIN data THEN data[j] ELSE Junk]
ReservedUnnoted(buf, alloc) == [buf EXCEPT !.data = Reallocated(@, alloc)]
Reserved(buf, alloc) ==
  [buf EXCEPT !.data = Reallocated(@, alloc), !.alloc = alloc]

(* MBuffer_append.                                                         *)
Written(buf, text, from) ==
  [buf EXCEPT !.data = [j \in DOMAIN @ |-> IF j - from \in DOMAIN text THEN text[j - from] ELSE @[j]]]
Appended(buf, text) ==
  LET room == IF buf.nr + Len(text) > buf.alloc
                THEN Reserved(buf, ((buf.nr + Len(text)) * 3) \div 2 + 16) ELSE buf
  IN [Written(room, text, buf.nr) EXCEPT !.nr = @ + Len(text)]

Throw == op' = [at |-> "out_of_memory"] /\ UNCHANGED <<strs, buckets, tmp_buf, last>>

-----------------------------------------------------------------------------
(* Str_new of the characters ptr.                                          *)
Begin(ptr, asked) == op' = [at |-> "search", ptr |-> ptr, asked |-> asked]

Return(s) ==
  /\ last' = [asked |-> op.asked, str |-> s]
  /\ op' = Idle

(* The hash of everything is 0.                                            *)
Hash(text) == 0
Bucket(hash) == hash % BucketsNr

(* StrTab_search: the first of the chain with the hash, the length and the *)
(* characters; or without a look at the characters.                        *)
MatchesNr(s, ptr) == strs[s].hash = Hash(ptr) /\ strs[s].nr = Len(ptr)
Matches(s, ptr) ==
  /\ strs[s].hash = Hash(ptr) /\ strs[s].nr = Len(ptr)
  /\ SubSeq(strs[s].base, 1, Len(ptr)) = ptr

(* Where in its chain it matches; or at the first place at most.           *)
Chain(ptr) == buckets[Bucket(Hash(ptr))]
FoundAtHead(ptr) == {i \in DOMAIN Chain(ptr) : i = 1 /\ Matches(Chain(ptr)[i], ptr)}
Found(ptr) == {i \in DOMAIN Chain(ptr) : Matches(Chain(ptr)[i], ptr)}

Search ==
  /\ op.at = "search" /\ Found(op.ptr) # {}
  /\ Return(Chain(op.ptr)[Min(Found(op.ptr))])
  /\ UNCHANGED <<strs, buckets, tmp_buf>>

AllocStr ==
  /\ op.at = "search" /\ Found(op.ptr) = {}
  /\ \/ Throw
     \/ /\ Len(strs) < MaxStrs
        /\ strs' = Append(strs, [nr |-> 0, base |-> <<>>, hash |-> 0])
        /\ op' = [op EXCEPT !.at = "base"]
        /\ UNCHANGED <<buckets, tmp_buf, last>>

(* The base is allocated and filled, and StrTab_insert puts the string     *)
(* first in its bucket; or in place of what is there.                      *)
InsertedAlone(hash, s) == [buckets EXCEPT ![Bucket(hash)] = <<s>>]
Inserted(hash, s) == [buckets EXCEPT ![Bucket(hash)] = <<s>> \o @]

AllocBase ==
  LET s == Len(strs) IN
  /\ op.at = "base"
  /\ \/ Throw
     \/ /\ strs' = [strs EXCEPT ![s] = [nr |-> Len(op.ptr), base |-> Append(op.ptr, NUL),
                                        hash |-> Hash(op.ptr)]]
        /\ buckets' = Inserted(Hash(op.ptr), s)
        /\ Return(s)
        /\ UNCHANGED tmp_buf

-----------------------------------------------------------------------------
(* nf::new_str, with a length or without: up to the first NUL.             *)
Strlen(sz) == (CHOOSE n \in DOMAIN sz : sz[n] = NUL /\ \A m \in 1..(n - 1) : sz[m] # NUL) - 1
Asked(sz, len) == SubSeq(sz, 1, IF len # 0 THEN len ELSE Strlen(sz))

NewStr(sz, len) ==
  /\ op = Idle
  /\ Begin(Asked(sz, len), Asked(sz, len))
  /\ UNCHANGED <<strs, buckets, tmp_buf, last>>

(* Str_new_fmt: size is that of the text and its NUL.  vsnprintf writes at *)
(* most size characters, the last NUL.                                     *)
FmtSize(text) == Len(text) + 1

NewFmt(sz) ==
  LET text == Asked(sz, 0)
      size == FmtSize(text)
      room == Reserved(tmp_buf, size)
      filled == Written([room EXCEPT !.nr = size], Append(SubSeq(text, 1, size - 1), NUL), 0)
  IN
  /\ op = Idle
  /\ \/ Throw
     \/ /\ tmp_buf' = filled
        /\ Begin(SubSeq(filled.data, 1, Len(text)), text)
        /\ UNCHANGED <<strs, buckets, last>>

(* Str_concat. *)
Concat(a, b) ==
  /\ op = Idle
  /\ strs[a].nr + strs[b].nr <= MaxNr
  /\ tmp_buf' = [tmp_buf EXCEPT !.nr = 0]
  /\ op' = [at |-> "reserve", rest |-> <<a, b>>, nr |-> strs[a].nr + strs[b].nr,
            asked |-> Contents(a) \o Contents(b)]
  /\ UNCHANGED <<strs, buckets, last>>

Reserve ==
  /\ op.at = "reserve"
  /\ \/ Throw
     \/ /\ tmp_buf' = Reserved(tmp_buf, op.nr + 1)
        /\ op' = [op EXCEPT !.at = "append"]
        /\ UNCHANGED <<strs, buckets, last>>

AppendNext ==
  /\ op.at = "append" /\ op.rest # <<>>
  /\ tmp_buf' = Appended(tmp_buf, Contents(Head(op.rest)))
  /\ op' = [op EXCEPT !.rest = Tail(@)]
  /\ UNCHANGED <<strs, buckets, last>>

Concatenated ==
  /\ op.at = "append" /\ op.rest = <<>>
  /\ Begin(SubSeq(tmp_buf.data, 1, op.nr), op.asked)
  /\ UNCHANGED <<strs, buckets, tmp_buf, last>>

-----------------------------------------------------------------------------
(* StrTab_init and MBuffer_init. *)
Init ==
  /\ strs = <<>>
  /\ buckets = [b \in 0..(BucketsNr - 1) |-> <<>>]
  /\ tmp_buf = [data |-> <<>>, nr |-> 0, alloc |-> 0]
  /\ op = Idle
  /\ last = None

Next ==
  \/ \E sz \in Memory : \E len \in 0..Len(sz) : NewStr(sz, len)
  \/ \E sz \in Memory : NewFmt(sz)
  \/ \E a, b \in Interned : Concat(a, b)
  \/ Reserve \/ AppendNext \/ Concatenated
  \/ Search \/ AllocStr \/ AllocBase

Spec == Init /\ [][Next]_svars

-----------------------------------------------------------------------------
(* Properties. *)

(* The buffer has the room it says, and nothing is written behind it.      *)
TypeOK ==
  /\ \A s \in DOMAIN strs : strs[s].nr \in Nat /\ strs[s].hash \in Nat
  /\ \A b \in DOMAIN buckets : ToSet(buckets[b]) \subseteq DOMAIN strs
  /\ Len(tmp_buf.data) = tmp_buf.alloc /\ tmp_buf.nr \in 0..tmp_buf.alloc

(* Equal strings are one object: nf compares pointers (parser.cpp 746,     *)
(* table.cpp 115).                                                         *)
OneStrPerContents ==
  \A s, t \in Interned : Contents(s) = Contents(t) => s = t

(* Whoever asks for contents, as a text, a format or the concatenation of  *)
(* two strings, gets the one object that has them, and strings never       *)
(* change.                                                                 *)
Known == [text \in {Contents(s) : s \in Interned} |->
            CHOOSE s \in Interned : Contents(s) = text]
Intern == INSTANCE NfIntern WITH known <- Known
ImplementsIntern == Intern!Spec
=============================================================================

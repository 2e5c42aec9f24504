---------------------------- MODULE NfStrTabProofs ----------------------------
(***************************************************************************)
(* Proofs about NfStrTab: its type invariant, that equal strings are one   *)
(* object, and that it implements NfIntern.                                *)
(*                                                                         *)
(* Two things have to be known of a step of Str_new for that: that the     *)
(* string that is made is none that the table has, which the search found  *)
(* out two steps ago; and that what is searched for is what was asked for, *)
(* which for a concatenation was put together in tmp_buf over several      *)
(* steps.                                                                  *)
(***************************************************************************)
EXTENDS NfStrTab, SequenceTheorems, WellFoundedInduction, TLAPS

-----------------------------------------------------------------------------
(* Every character there is. *)
Chars == (UNION {ToSet(sz) : sz \in Memory}) \cup {NUL, Junk}
Texts == Seq(Chars)

Strs == [nr : Nat, base : Texts, hash : {0}]
Buffers == [data : Texts, nr : Nat, alloc : Nat]
Indexes == 0..(BucketsNr - 1)

(* Everything is in the first bucket, and whole.                           *)
TableOK ==
  /\ strs \in Seq(Strs)
  /\ buckets \in [Indexes -> Seq(Nat)]
  /\ \A b \in Indexes : b # 0 => buckets[b] = <<>>
  /\ Interned \subseteq DOMAIN strs
  /\ \A s \in Interned : strs[s].nr <= Len(strs[s].base)

Sound(buf) ==
  /\ buf \in Buffers
  /\ Len(buf.data) = buf.alloc /\ buf.nr <= buf.alloc

BufferOK == Sound(tmp_buf)

(* What is still to be appended. *)
Remaining(rest) ==
  IF Len(rest) = 2 THEN Contents(rest[1]) \o Contents(rest[2])
  ELSE IF Len(rest) = 1 THEN Contents(rest[1]) ELSE <<>>

(* The string of ptr is made. *)
Making ==
  /\ op \in [at : {"search", "base"}, ptr : Texts, asked : Texts] /\ op.ptr = op.asked
  /\ op.at = "base" =>
       /\ Len(strs) # 0 /\ Len(strs) \notin Interned
       /\ \A s \in Interned : Contents(s) # op.ptr

(* Two strings are put together. *)
Joining ==
  /\ op \in [at : {"reserve", "append"}, rest : Seq(Interned), nr : Nat, asked : Texts]
  /\ op.nr = Len(op.asked) /\ Len(op.rest) \in 0..2
  /\ op.at = "reserve" => tmp_buf.nr = 0 /\ Len(op.rest) = 2
  /\ op.asked = SubSeq(tmp_buf.data, 1, tmp_buf.nr) \o Remaining(op.rest)

OpOK == op = Idle \/ op = [at |-> "out_of_memory"] \/ Making \/ Joining

IInv == TableOK /\ BufferOK /\ OpOK /\ OneStrPerContents

-----------------------------------------------------------------------------
(* Numbers and sequences. *)

Less == {ss \in Nat \X Nat : ss[1] < ss[2]}

(* A set of natural numbers has a least element. *)
LEMMA Least ==
  ASSUME NEW S, S \subseteq Nat, S # {}
  PROVE  \E n \in S : \A m \in S : n <= m
  <1>1. IsWellFoundedOn(Less, Nat)
    BY NatLessThanWellFounded DEF OpToRel, Less
  <1>2. PICK n \in S : \A m \in S : ~(<<m, n>> \in Less)
    BY <1>1, WFMin
  <1>3. ASSUME NEW m \in S
        PROVE  n <= m
    <2>1. ~(<<m, n>> \in Less)
      BY <1>2
    <2>2. m \in Nat /\ n \in Nat
      OBVIOUS
    <2>3. ~(m < n)
      BY <2>1, <2>2 DEF Less
    <2> QED BY <2>2, <2>3
  <1> QED BY <1>3

(* Min is that element. *)
LEMMA MinIsIn ==
  ASSUME NEW S, S \subseteq Nat, S # {}
  PROVE  Min(S) \in S
  <1>1. \E n \in S : \A m \in S : n <= m
    BY Least
  <1> QED BY <1>1 DEF Min

(* The first n elements. *)
LEMMA PrefixProperties ==
  ASSUME NEW S, NEW s \in Seq(S), NEW n \in 0..Len(s)
  PROVE  /\ SubSeq(s, 1, n) \in Seq(S)
         /\ Len(SubSeq(s, 1, n)) = n
         /\ \A i \in 1..n : SubSeq(s, 1, n)[i] = s[i]
  <1>1. \A i \in 1..n : s[i] \in S
    OBVIOUS
  <1>2. /\ SubSeq(s, 1, n) \in Seq(S)
        /\ Len(SubSeq(s, 1, n)) = IF 1 <= n THEN n - 1 + 1 ELSE 0
        /\ \A i \in 1..(n - 1 + 1) : SubSeq(s, 1, n)[i] = s[1 + i - 1]
    BY <1>1, SubSeqProperties
  <1> QED BY <1>2

(* An element put behind s is taken off again by cutting to its length.    *)
LEMMA AppendCut ==
  ASSUME NEW S, NEW s \in Seq(S), NEW x \in S
  PROVE  SubSeq(Append(s, x), 1, Len(s)) = s
  <1> DEFINE t == Append(s, x)
             cut == SubSeq(t, 1, Len(s))
  <1>1. t \in Seq(S) /\ Len(t) = Len(s) + 1 /\ \A i \in 1..Len(s) : t[i] = s[i]
    BY AppendProperties
  <1>2. Len(s) \in 0..Len(t)
    BY <1>1
  <1> HIDE DEF t
  <1>3. cut \in Seq(S) /\ Len(cut) = Len(s) /\ \A i \in 1..Len(s) : cut[i] = t[i]
    BY <1>1, <1>2, PrefixProperties
  <1> HIDE DEF cut
  <1>4. cut = s
    BY <1>1, <1>3, SeqEqual
  <1> QED BY <1>4 DEF cut, t

(* A function on 1..n is a sequence of n elements. *)
LEMMA FunctionSeq ==
  ASSUME NEW S, NEW n \in Nat, NEW f \in [1..n -> S]
  PROVE  f \in Seq(S) /\ Len(f) = n
  <1>1. f \in Seq(S)
    BY SeqDef
  <1>2. Len(f) \in Nat /\ DOMAIN f = 1..Len(f) /\ DOMAIN f = 1..n
    BY <1>1, LenProperties
  <1> QED BY <1>1, <1>2

(* A sequence is cut to its own length. *)
LEMMA CutAll ==
  ASSUME NEW S, NEW s \in Seq(S)
  PROVE  SubSeq(s, 1, Len(s)) = s
  <1> DEFINE cut == SubSeq(s, 1, Len(s))
  <1>1. cut \in Seq(S) /\ Len(cut) = Len(s) /\ \A i \in 1..Len(s) : cut[i] = s[i]
    <2>1. Len(s) \in 0..Len(s)
      OBVIOUS
    <2> QED BY <2>1, PrefixProperties
  <1> HIDE DEF cut
  <1>2. cut = s
    BY <1>1, SeqEqual
  <1> QED BY <1>2 DEF cut

-----------------------------------------------------------------------------
(* The buffer. *)

(* realloc keeps what there is. *)
LEMMA ReallocatedKeeps ==
  ASSUME NEW data \in Texts, NEW alloc \in Nat
  PROVE  /\ Reallocated(data, alloc) \in Texts
         /\ Len(Reallocated(data, alloc)) = alloc
         /\ \A j \in 1..alloc : j \in 1..Len(data) => Reallocated(data, alloc)[j] = data[j]
  <1>1. Junk \in Chars
    BY DEF Chars
  <1>2. DOMAIN data = 1..Len(data) /\ \A j \in DOMAIN data : data[j] \in Chars
    BY DEF Texts
  <1> DEFINE f == [j \in 1..alloc |-> IF j \in DOMAIN data THEN data[j] ELSE Junk]
  <1>3. f \in [1..alloc -> Chars]
    BY <1>1, <1>2
  <1>4. \A j \in 1..alloc : j \in 1..Len(data) => f[j] = data[j]
    BY <1>2
  <1>5. f = Reallocated(data, alloc)
    BY DEF Reallocated
  <1> HIDE DEF f
  <1>6. f \in Seq(Chars) /\ Len(f) = alloc
    BY <1>3, FunctionSeq
  <1> QED BY <1>4, <1>5, <1>6 DEF Texts

(* So does MBuffer_reserve, which notes the new size. *)
LEMMA ReservedKeeps ==
  ASSUME NEW buf \in Buffers, NEW alloc \in Nat
  PROVE  /\ Reserved(buf, alloc) \in Buffers
         /\ Reserved(buf, alloc).nr = buf.nr
         /\ Reserved(buf, alloc).alloc = alloc
         /\ Len(Reserved(buf, alloc).data) = alloc
         /\ \A j \in 1..alloc :
              j \in 1..Len(buf.data) => Reserved(buf, alloc).data[j] = buf.data[j]
  <1> DEFINE data == Reallocated(buf.data, alloc)
             r == [data |-> data, nr |-> buf.nr, alloc |-> alloc]
  <1>1. buf.data \in Texts /\ buf.nr \in Nat
    BY DEF Buffers
  <1>2. /\ data \in Texts /\ Len(data) = alloc
        /\ \A j \in 1..alloc : j \in 1..Len(buf.data) => data[j] = buf.data[j]
    BY <1>1, ReallocatedKeeps
  <1>3. Reserved(buf, alloc) = r
    <2>1. Reserved(buf, alloc) = [[buf EXCEPT !.data = data] EXCEPT !.alloc = alloc]
      BY DEF Reserved
    <2> HIDE DEF data
    <2> QED BY <2>1 DEF Buffers
  <1> HIDE DEF data
  <1>4. r \in Buffers
    BY <1>1, <1>2 DEF Buffers
  <1> QED BY <1>2, <1>3, <1>4

(* What is written is there, and what is before it stays. *)
LEMMA WrittenIsThere ==
  ASSUME NEW buf \in Buffers, NEW text \in Texts, NEW from \in Nat,
         from + Len(text) <= Len(buf.data)
  PROVE  /\ Written(buf, text, from) \in Buffers
         /\ Written(buf, text, from).nr = buf.nr
         /\ Written(buf, text, from).alloc = buf.alloc
         /\ Len(Written(buf, text, from).data) = Len(buf.data)
         /\ \A j \in 1..from : Written(buf, text, from).data[j] = buf.data[j]
         /\ \A j \in 1..Len(text) : Written(buf, text, from).data[from + j] = text[j]
  <1>1. buf.data \in Texts /\ buf.nr \in Nat /\ buf.alloc \in Nat
    BY DEF Buffers
  <1>2. /\ DOMAIN buf.data = 1..Len(buf.data) /\ Len(buf.data) \in Nat
        /\ \A j \in DOMAIN buf.data : buf.data[j] \in Chars
        /\ DOMAIN text = 1..Len(text) /\ Len(text) \in Nat
        /\ \A j \in DOMAIN text : text[j] \in Chars
    BY <1>1 DEF Texts
  <1> DEFINE f == [j \in 1..Len(buf.data) |->
                     IF j - from \in DOMAIN text THEN text[j - from] ELSE buf.data[j]]
             r == [data |-> f, nr |-> buf.nr, alloc |-> buf.alloc]
  <1>3. f \in [1..Len(buf.data) -> Chars]
    BY <1>2
  <1>4. \A j \in 1..from : f[j] = buf.data[j]
    BY <1>2
  <1>5. \A j \in 1..Len(text) : f[from + j] = text[j]
    <2>1. ASSUME NEW j \in 1..Len(text)
          PROVE  f[from + j] = text[j]
      <3>1. from + j \in 1..Len(buf.data) /\ (from + j) - from = j /\ j \in DOMAIN text
        BY <1>2
      <3> QED BY <3>1
    <2> QED BY <2>1
  <1>6. Written(buf, text, from) = [buf EXCEPT !.data = f]
    BY <1>2 DEF Written
  <1> HIDE DEF f
  <1>7. f \in Seq(Chars) /\ Len(f) = Len(buf.data)
    BY <1>2, <1>3, FunctionSeq
  <1>8. r \in Buffers
    BY <1>1, <1>7 DEF Buffers, Texts
  <1>9. Written(buf, text, from) = r
    BY <1>6 DEF Buffers
  <1> QED BY <1>4, <1>5, <1>7, <1>8, <1>9

(* What MBuffer_append leaves is what there was and the text. *)
LEMMA AppendedEnds ==
  ASSUME NEW buf, Sound(buf), NEW text \in Texts
  PROVE  /\ Sound(Appended(buf, text))
         /\ Appended(buf, text).nr = buf.nr + Len(text)
         /\ SubSeq(Appended(buf, text).data, 1, buf.nr + Len(text))
              = SubSeq(buf.data, 1, buf.nr) \o text
  <1> DEFINE nr == buf.nr
             len == Len(text)
             more == ((nr + len) * 3) \div 2 + 16
             room == IF nr + len > buf.alloc THEN Reserved(buf, more) ELSE buf
             w == Written(room, text, nr)
             r == [w EXCEPT !.nr = @ + len]
  <1>1. /\ buf \in Buffers /\ buf.data \in Texts /\ nr \in Nat /\ buf.alloc \in Nat
        /\ Len(buf.data) = buf.alloc /\ nr <= buf.alloc /\ len \in Nat
    BY DEF Sound, Buffers, Texts
  <1>2. more \in Nat /\ nr + len <= more
    <2> DEFINE sum == nr + len
    <2>1. sum \in Nat
      BY <1>1
    <2> HIDE DEF sum
    <2>2. (sum * 3) \div 2 + 16 \in Nat /\ sum <= (sum * 3) \div 2 + 16
      BY <2>1
    <2> QED BY <2>2 DEF sum
  <1>3. Appended(buf, text) = r
    BY DEF Appended
  <1> HIDE DEF more
  <1>4. /\ room \in Buffers /\ room.nr = nr /\ Len(room.data) = room.alloc
        /\ nr + len <= room.alloc
        /\ \A j \in 1..nr : room.data[j] = buf.data[j]
    <2>1. CASE nr + len > buf.alloc
      <3>1. room = Reserved(buf, more)
        BY <2>1
      <3>2. /\ Reserved(buf, more) \in Buffers
            /\ Reserved(buf, more).nr = nr
            /\ Reserved(buf, more).alloc = more
            /\ Len(Reserved(buf, more).data) = more
            /\ \A j \in 1..more :
                 j \in 1..Len(buf.data) => Reserved(buf, more).data[j] = buf.data[j]
        BY <1>1, <1>2, ReservedKeeps
      <3>3. \A j \in 1..nr : j \in 1..more /\ j \in 1..Len(buf.data)
        BY <1>1, <1>2
      <3> QED BY <1>2, <3>1, <3>2, <3>3
    <2>2. CASE ~(nr + len > buf.alloc)
      <3>1. room = buf
        BY <2>2
      <3> QED BY <1>1, <2>2, <3>1
    <2> QED BY <2>1, <2>2
  <1> HIDE DEF room
  <1>5. /\ w \in Buffers /\ w.nr = nr /\ w.alloc = room.alloc
        /\ Len(w.data) = room.alloc
        /\ \A j \in 1..nr : w.data[j] = room.data[j]
        /\ \A j \in 1..len : w.data[nr + j] = text[j]
    BY <1>1, <1>4, WrittenIsThere
  <1> HIDE DEF w
  <1>6. /\ r \in Buffers /\ r.data = w.data /\ r.nr = nr + len /\ r.alloc = w.alloc
    BY <1>1, <1>5 DEF Buffers
  <1>7. Sound(r)
    BY <1>4, <1>5, <1>6 DEF Sound
  <1> DEFINE before == SubSeq(buf.data, 1, nr)
             after == SubSeq(w.data, 1, nr + len)
             all == before \o text
  <1>8. before \in Texts /\ Len(before) = nr /\ \A j \in 1..nr : before[j] = buf.data[j]
    <2>1. nr \in 0..Len(buf.data)
      BY <1>1
    <2> QED BY <1>1, <2>1, PrefixProperties DEF Texts
  <1>9. /\ after \in Texts /\ Len(after) = nr + len
        /\ \A j \in 1..(nr + len) : after[j] = w.data[j]
    <2>1. w.data \in Texts /\ nr + len \in 0..Len(w.data)
      BY <1>1, <1>4, <1>5 DEF Buffers
    <2> QED BY <2>1, PrefixProperties DEF Texts
  <1> HIDE DEF before, after
  <1>10. /\ all \in Texts /\ Len(all) = nr + len
         /\ \A j \in 1..(nr + len) : all[j] = IF j <= nr THEN before[j] ELSE text[j - nr]
    <2>1. /\ all \in Seq(Chars) /\ Len(all) = Len(before) + Len(text)
          /\ \A j \in 1..(Len(before) + Len(text)) :
               all[j] = IF j <= Len(before) THEN before[j] ELSE text[j - Len(before)]
      BY <1>8, ConcatProperties DEF Texts
    <2> QED BY <1>8, <2>1 DEF Texts
  <1> HIDE DEF all
  <1>11. \A j \in 1..(nr + len) : after[j] = all[j]
    <2>1. ASSUME NEW j \in 1..(nr + len)
          PROVE  after[j] = all[j]
      <3>1. CASE j <= nr
        <4>1. j \in 1..nr
          BY <1>1, <3>1
        <4> QED BY <1>4, <1>5, <1>8, <1>9, <1>10, <3>1, <4>1
      <3>2. CASE ~(j <= nr)
        <4>1. j - nr \in 1..len /\ nr + (j - nr) = j
          BY <1>1, <3>2
        <4> QED BY <1>5, <1>9, <1>10, <3>2, <4>1
      <3> QED BY <3>1, <3>2
    <2> QED BY <2>1
  <1>12. after = all
    BY <1>1, <1>9, <1>10, <1>11, SeqEqual DEF Texts
  <1> QED BY <1>3, <1>6, <1>7, <1>12 DEF before, after, all, Texts

-----------------------------------------------------------------------------
(* The table. *)

(* A string of the table has contents as long as it says.                  *)
LEMMA ContentsTyped ==
  ASSUME TableOK, NEW s \in Interned
  PROVE  /\ s \in DOMAIN strs /\ s \in 1..Len(strs) /\ strs[s] \in Strs
         /\ Contents(s) \in Texts /\ Len(Contents(s)) = strs[s].nr
  <1>1. /\ s \in DOMAIN strs /\ DOMAIN strs = 1..Len(strs)
        /\ strs[s] \in Strs /\ strs[s].nr <= Len(strs[s].base)
    BY DEF TableOK
  <1>2. strs[s].base \in Texts /\ strs[s].nr \in 0..Len(strs[s].base)
    BY <1>1 DEF Strs, Texts
  <1>3. Contents(s) \in Texts /\ Len(Contents(s)) = strs[s].nr
    BY <1>2, PrefixProperties DEF Contents, Texts
  <1> QED BY <1>1, <1>3

(* The hash of everything is 0, so every string is in the first chain.     *)
LEMMA FirstBucket ==
  /\ \A hash : hash = 0 => Bucket(hash) = 0
  /\ \A text : Hash(text) = 0 /\ Chain(text) = buckets[0]
  <1>1. 0 % 31 = 0
    OBVIOUS
  <1> QED BY <1>1 DEF Bucket, BucketsNr, Hash, Chain

(* A string of the table matches a text if the text is its contents.       *)
LEMMA MatchesContents ==
  ASSUME TableOK, NEW s \in Interned, NEW text \in Texts
  PROVE  Matches(s, text) <=> Contents(s) = text
  <1>1. strs[s] \in Strs /\ Len(Contents(s)) = strs[s].nr
    BY ContentsTyped
  <1>2. strs[s].hash = 0 /\ Hash(text) = 0
    BY <1>1 DEF Strs, Hash
  <1>3. Matches(s, text) <=> strs[s].nr = Len(text) /\ SubSeq(strs[s].base, 1, Len(text)) = text
    BY <1>2 DEF Matches
  <1>4. Contents(s) = SubSeq(strs[s].base, 1, strs[s].nr)
    BY DEF Contents
  <1> QED BY <1>1, <1>3, <1>4

(* So the search finds what has the contents, and all of it.               *)
LEMMA FindsContents ==
  ASSUME TableOK, NEW text \in Texts
  PROVE  /\ Found(text) = {} => \A s \in Interned : Contents(s) # text
         /\ Found(text) # {} =>
              /\ Chain(text)[Min(Found(text))] \in Interned
              /\ Contents(Chain(text)[Min(Found(text))]) = text
  <1>1. Chain(text) = buckets[0]
    BY FirstBucket
  <1>2. buckets[0] \in Seq(Nat) /\ DOMAIN buckets[0] = 1..Len(buckets[0])
    <2>1. 0 \in Indexes
      BY DEF Indexes, BucketsNr
    <2> QED BY <2>1 DEF TableOK
  <1>3. Found(text) = {i \in DOMAIN buckets[0] : Matches(buckets[0][i], text)}
    BY <1>1 DEF Found
  <1>4. Interned = {buckets[0][i] : i \in DOMAIN buckets[0]}
    BY DEF Interned, ToSet
  <1>5. \A s \in Interned : Matches(s, text) <=> Contents(s) = text
    BY MatchesContents
  <1>6. ASSUME Found(text) = {}
        PROVE  \A s \in Interned : Contents(s) # text
    BY <1>3, <1>4, <1>5, <1>6
  <1>7. ASSUME Found(text) # {}
        PROVE  /\ Chain(text)[Min(Found(text))] \in Interned
               /\ Contents(Chain(text)[Min(Found(text))]) = text
    <2>1. Found(text) \subseteq Nat
      BY <1>2, <1>3
    <2>2. Min(Found(text)) \in Found(text)
      BY <1>7, <2>1, MinIsIn
    <2>3. PICK i \in DOMAIN buckets[0] : i = Min(Found(text)) /\ Matches(buckets[0][i], text)
      BY <1>3, <2>2
    <2>4. buckets[0][i] \in Interned
      BY <1>4
    <2> QED BY <1>1, <1>5, <2>3, <2>4
  <1> QED BY <1>6, <1>7

(* StrTab_insert adds the string to the table. *)
LEMMA InsertedAdds ==
  ASSUME TableOK, NEW s \in Nat, buckets' = Inserted(0, s)
  PROVE  /\ Interned' = Interned \cup {s}
         /\ buckets' \in [Indexes -> Seq(Nat)]
         /\ \A b \in Indexes : b # 0 => buckets'[b] = <<>>
  <1>1. 0 \in Indexes
    BY DEF Indexes, BucketsNr
  <1>2. buckets \in [Indexes -> Seq(Nat)] /\ buckets[0] \in Seq(Nat)
    BY <1>1 DEF TableOK
  <1> DEFINE old == buckets[0]
             new == <<s>> \o old
  <1>3. <<s>> \in Seq(Nat) /\ Len(<<s>>) = 1 /\ <<s>>[1] = s
    OBVIOUS
  <1>4. buckets' = [buckets EXCEPT ![0] = new]
    BY FirstBucket DEF Inserted
  <1>5. /\ new \in Seq(Nat) /\ Len(new) = 1 + Len(old)
        /\ \A i \in 1..(1 + Len(old)) : new[i] = IF i <= 1 THEN <<s>>[i] ELSE old[i - 1]
    <2>1. /\ <<s>> \o old \in Seq(Nat)
          /\ Len(<<s>> \o old) = Len(<<s>>) + Len(old)
          /\ \A i \in 1..(Len(<<s>>) + Len(old)) :
               (<<s>> \o old)[i] = IF i <= Len(<<s>>) THEN <<s>>[i] ELSE old[i - Len(<<s>>)]
      BY <1>2, <1>3, ConcatProperties
    <2> QED BY <1>3, <2>1
  <1> HIDE DEF new
  <1>6. buckets' \in [Indexes -> Seq(Nat)] /\ buckets'[0] = new
    BY <1>1, <1>2, <1>4, <1>5
  <1>7. \A b \in Indexes : b # 0 => buckets'[b] = <<>>
    BY <1>2, <1>4 DEF TableOK
  <1>8. /\ DOMAIN new = 1..(1 + Len(old)) /\ DOMAIN old = 1..Len(old) /\ Len(old) \in Nat
        /\ new[1] = s /\ \A i \in 1..Len(old) : new[i + 1] = old[i]
    <2>1. DOMAIN new = 1..(1 + Len(old)) /\ DOMAIN old = 1..Len(old) /\ Len(old) \in Nat
      BY <1>2, <1>5
    <2>2. new[1] = s
      BY <1>3, <1>5, <2>1
    <2>3. ASSUME NEW i \in 1..Len(old)
          PROVE  new[i + 1] = old[i]
      <3>1. i + 1 \in 1..(1 + Len(old)) /\ ~(i + 1 <= 1) /\ (i + 1) - 1 = i
        BY <2>1
      <3> QED BY <1>5, <3>1
    <2> QED BY <2>1, <2>2, <2>3
  <1>9. ToSet(new) = ToSet(old) \cup {s}
    <2>1. ASSUME NEW x \in ToSet(new)
          PROVE  x \in ToSet(old) \cup {s}
      <3>1. PICK i \in 1..(1 + Len(old)) : x = new[i]
        BY <1>8, <2>1 DEF ToSet
      <3>2. CASE i = 1
        BY <1>8, <3>1, <3>2
      <3>3. CASE i # 1
        <4>1. i - 1 \in 1..Len(old) /\ (i - 1) + 1 = i
          BY <1>8, <3>3
        <4> QED BY <1>8, <3>1, <4>1 DEF ToSet
      <3> QED BY <3>2, <3>3
    <2>2. ASSUME NEW x \in ToSet(old)
          PROVE  x \in ToSet(new)
      <3>1. PICK i \in 1..Len(old) : x = old[i]
        BY <1>8, <2>2 DEF ToSet
      <3>2. i + 1 \in 1..(1 + Len(old))
        BY <1>8
      <3> QED BY <1>8, <3>1, <3>2 DEF ToSet
    <2>3. s \in ToSet(new)
      <3>1. 1 \in 1..(1 + Len(old))
        BY <1>8
      <3> QED BY <1>8, <3>1 DEF ToSet
    <2> QED BY <2>1, <2>2, <2>3
  <1>10. Interned' = ToSet(new) /\ Interned = ToSet(old)
    BY <1>6 DEF Interned
  <1> QED BY <1>6, <1>7, <1>9, <1>10

(* What new_str and new_str_fmt are asked for is a text. *)
LEMMA AskedTyped ==
  ASSUME NEW sz \in Memory, NEW len \in 0..Len(sz)
  PROVE  Asked(sz, len) \in Texts
  <1>1. sz \in Seq(ToSet(sz)) /\ NUL \in ToSet(sz)
    BY StrTabAssumption
  <1>2. ToSet(sz) \subseteq Chars
    BY DEF Chars
  <1>3. sz \in Texts /\ Len(sz) \in Nat /\ DOMAIN sz = 1..Len(sz)
    BY <1>1, <1>2 DEF Texts
  <1>4. Strlen(sz) \in 0..Len(sz)
    <2> DEFINE ends == {n \in DOMAIN sz : sz[n] = NUL}
    <2>1. ends # {} /\ ends \subseteq Nat
      BY <1>1, <1>3 DEF ToSet
    <2>2. PICK n \in ends : \A m \in ends : n <= m
      BY <2>1, Least
    <2>3. \A m \in 1..(n - 1) : sz[m] # NUL
      <3>1. ASSUME NEW m \in 1..(n - 1), sz[m] = NUL
            PROVE  FALSE
        <4>1. m \in DOMAIN sz /\ ~(n <= m)
          BY <1>3
        <4>2. m \in ends
          BY <3>1, <4>1
        <4> QED BY <2>2, <4>1, <4>2
      <3> QED BY <3>1
    <2>4. n \in DOMAIN sz /\ sz[n] = NUL
      OBVIOUS
    <2>5. PICK k \in DOMAIN sz : Strlen(sz) = k - 1
      BY <2>3, <2>4 DEF Strlen
    <2> QED BY <1>3, <2>5
  <1>5. Len(sz) \in Nat /\ (IF len # 0 THEN len ELSE Strlen(sz)) \in 0..Len(sz)
    BY <1>3, <1>4
  <1> QED BY <1>3, <1>5, PrefixProperties DEF Asked, Texts

-----------------------------------------------------------------------------
(* The steps. *)

(* As long as the strings and the table stay, so does what is said of      *)
(* them.                                                                   *)
LEMMA TableStays ==
  ASSUME TableOK, OneStrPerContents, UNCHANGED <<strs, buckets>>
  PROVE  /\ TableOK' /\ OneStrPerContents'
         /\ Interned' = Interned
         /\ \A s : Contents(s)' = Contents(s)
         /\ \A rest : Remaining(rest)' = Remaining(rest)
  <1>1. Interned' = Interned /\ \A s : Contents(s)' = Contents(s)
    BY DEF Interned, Contents
  <1>2. TableOK'
    BY <1>1 DEF TableOK
  <1>3. OneStrPerContents'
    BY <1>1 DEF OneStrPerContents
  <1>4. \A rest : Remaining(rest)' = Remaining(rest)
    BY <1>1 DEF Remaining
  <1> QED BY <1>1, <1>2, <1>3, <1>4

(* A text that was asked for is searched for. *)
LEMMA BeginMakes ==
  ASSUME NEW text \in Texts, Begin(text, text)
  PROVE  OpOK'
  <1>1. op' = [at |-> "search", ptr |-> text, asked |-> text]
    BY DEF Begin
  <1>2. /\ op' \in [at : {"search", "base"}, ptr : Texts, asked : Texts]
        /\ op'.ptr = op'.asked /\ op'.at # "base"
    BY <1>1
  <1> QED BY <1>2 DEF OpOK, Making

(* The program ends where memory is out. *)
LEMMA ThrowKeeps ==
  ASSUME IInv, Throw
  PROVE  IInv'
  <1>1. TableOK' /\ OneStrPerContents'
    BY TableStays DEF IInv, Throw
  <1>2. BufferOK'
    BY DEF IInv, Throw, BufferOK, Sound
  <1>3. OpOK'
    BY DEF Throw, OpOK
  <1> QED BY <1>1, <1>2, <1>3 DEF IInv

(* new_str searches for the text it is given. *)
LEMMA NewStrKeeps ==
  ASSUME IInv, NEW sz \in Memory, NEW len \in 0..Len(sz), NewStr(sz, len)
  PROVE  IInv'
  <1>1. TableOK' /\ OneStrPerContents'
    BY TableStays DEF IInv, NewStr
  <1>2. BufferOK'
    BY DEF IInv, NewStr, BufferOK, Sound
  <1>3. Asked(sz, len) \in Texts
    BY AskedTyped
  <1>4. OpOK'
    BY <1>3, BeginMakes DEF NewStr
  <1> QED BY <1>1, <1>2, <1>4 DEF IInv

(* vsnprintf writes the text and the NUL into a buffer of just that size.  *)
LEMMA NewFmtKeeps ==
  ASSUME IInv, NEW sz \in Memory, NewFmt(sz)
  PROVE  IInv'
  <1> DEFINE text == Asked(sz, 0)
             size == FmtSize(text)
             room == Reserved(tmp_buf, size)
             whole == [room EXCEPT !.nr = size]
             line == Append(SubSeq(text, 1, size - 1), NUL)
             filled == Written(whole, line, 0)
  <1>1. CASE Throw
    BY <1>1, ThrowKeeps
  <1>2. CASE ~Throw
    <2>1. /\ tmp_buf' = filled /\ Begin(SubSeq(filled.data, 1, Len(text)), text)
          /\ UNCHANGED <<strs, buckets>>
      BY <1>2 DEF NewFmt
    <2>2. text \in Texts
      <3>1. 0 \in 0..Len(sz)
        BY StrTabAssumption
      <3> QED BY <3>1, AskedTyped
    <2> HIDE DEF text
    <2>3. Len(text) \in Nat /\ size = Len(text) + 1 /\ size \in Nat /\ size - 1 = Len(text)
      BY <2>2 DEF FmtSize, Texts
    <2>4. line = Append(text, NUL)
      BY <2>2, <2>3, CutAll DEF Texts
    <2>5. /\ line \in Texts /\ Len(line) = Len(text) + 1
          /\ \A j \in 1..Len(text) : line[j] = text[j]
      <3>1. NUL \in Chars
        BY DEF Chars
      <3>2. /\ Append(text, NUL) \in Seq(Chars) /\ Len(Append(text, NUL)) = Len(text) + 1
            /\ \A j \in 1..Len(text) : Append(text, NUL)[j] = text[j]
        BY <2>2, <3>1, AppendProperties DEF Texts
      <3> HIDE DEF line
      <3> QED BY <2>4, <3>2 DEF Texts
    <2> HIDE DEF size, line
    <2>6. tmp_buf \in Buffers
      BY DEF IInv, BufferOK, Sound
    <2>7. room \in Buffers /\ room.alloc = size /\ Len(room.data) = size
      BY <2>3, <2>6, ReservedKeeps
    <2> HIDE DEF room
    <2>8. /\ whole \in Buffers /\ whole.nr = size /\ whole.alloc = size
          /\ Len(whole.data) = size
      BY <2>3, <2>7 DEF Buffers
    <2> HIDE DEF whole
    <2>9. /\ filled \in Buffers /\ filled.nr = size /\ filled.alloc = size
          /\ Len(filled.data) = size
          /\ \A j \in 1..Len(line) : filled.data[0 + j] = line[j]
      <3>1. 0 \in Nat /\ 0 + Len(line) <= Len(whole.data)
        BY <2>3, <2>5, <2>8
      <3> QED BY <2>5, <2>8, <3>1, WrittenIsThere
    <2> HIDE DEF filled
    <2>10. BufferOK'
      BY <2>1, <2>3, <2>9 DEF BufferOK, Sound
    <2> DEFINE cut == SubSeq(filled.data, 1, Len(text))
    <2>11. cut = text
      <3>1. filled.data \in Seq(Chars) /\ Len(text) \in 0..Len(filled.data)
        BY <2>3, <2>9 DEF Buffers, Texts
      <3>2. /\ cut \in Seq(Chars) /\ Len(cut) = Len(text)
            /\ \A j \in 1..Len(text) : cut[j] = filled.data[j]
        BY <3>1, PrefixProperties
      <3> HIDE DEF cut
      <3>3. \A j \in 1..Len(text) : j \in 1..Len(line) /\ 0 + j = j
        BY <2>3, <2>5
      <3>4. \A j \in 1..Len(text) : cut[j] = text[j]
        BY <2>5, <2>9, <3>2, <3>3
      <3> QED BY <2>2, <3>2, <3>4, SeqEqual DEF Texts
    <2>12. OpOK'
      BY <2>1, <2>2, <2>11, BeginMakes
    <2>13. TableOK' /\ OneStrPerContents'
      BY <2>1, TableStays DEF IInv
    <2> QED BY <2>10, <2>12, <2>13 DEF IInv
  <1> QED BY <1>1, <1>2

(* Nothing of a sequence. *)
LEMMA CutNothing ==
  ASSUME NEW S, NEW s \in Seq(S)
  PROVE  SubSeq(s, 1, 0) = <<>>
  <1>1. 0 \in 0..Len(s)
    OBVIOUS
  <1>2. SubSeq(s, 1, 0) \in Seq(S) /\ Len(SubSeq(s, 1, 0)) = 0
    BY <1>1, PrefixProperties
  <1> QED BY <1>2, EmptySeq

(* What is put together are the contents of a and of b. *)
LEMMA ConcatKeeps ==
  ASSUME IInv, NEW a \in Interned, NEW b \in Interned, Concat(a, b)
  PROVE  IInv'
  <1> DEFINE asked == Contents(a) \o Contents(b)
             nr == strs[a].nr + strs[b].nr
             rest == <<a, b>>
  <1>1. /\ tmp_buf' = [tmp_buf EXCEPT !.nr = 0]
        /\ op' = [at |-> "reserve", rest |-> rest, nr |-> nr, asked |-> asked]
        /\ UNCHANGED <<strs, buckets>>
    BY DEF Concat
  <1>2. /\ TableOK' /\ OneStrPerContents'
        /\ Interned' = Interned /\ Remaining(rest)' = Remaining(rest)
    BY <1>1, TableStays DEF IInv
  <1>3. /\ tmp_buf' \in Buffers /\ tmp_buf'.nr = 0 /\ tmp_buf'.data = tmp_buf.data
        /\ tmp_buf'.alloc = tmp_buf.alloc /\ tmp_buf.alloc \in Nat
        /\ Len(tmp_buf.data) = tmp_buf.alloc /\ tmp_buf.data \in Texts
    BY <1>1 DEF IInv, BufferOK, Sound, Buffers
  <1>4. BufferOK'
    BY <1>3 DEF BufferOK, Sound
  <1>5. /\ strs[a] \in Strs /\ Contents(a) \in Texts /\ Len(Contents(a)) = strs[a].nr
        /\ strs[b] \in Strs /\ Contents(b) \in Texts /\ Len(Contents(b)) = strs[b].nr
    BY ContentsTyped DEF IInv
  <1>6. asked \in Texts /\ nr = Len(asked) /\ nr \in Nat
    <2>1. /\ asked \in Seq(Chars)
          /\ Len(asked) = Len(Contents(a)) + Len(Contents(b))
      BY <1>5, ConcatProperties DEF Texts
    <2> QED BY <1>5, <2>1 DEF Texts, Strs
  <1>7. rest \in Seq(Interned) /\ Len(rest) = 2 /\ Remaining(rest) = asked
    BY DEF Remaining
  <1>8. SubSeq(tmp_buf.data, 1, 0) \o asked = asked
    <2>1. SubSeq(tmp_buf.data, 1, 0) = <<>>
      BY <1>3, CutNothing DEF Texts
    <2> QED BY <1>6, <2>1, ConcatEmptySeq DEF Texts
  <1> HIDE DEF asked, nr, rest
  <1>9. /\ op' \in [at : {"reserve", "append"}, rest : Seq(Interned), nr : Nat, asked : Texts]
        /\ op'.at = "reserve" /\ op'.rest = rest /\ op'.nr = nr /\ op'.asked = asked
    BY <1>1, <1>6, <1>7
  <1>10. Joining'
    <2>1. op' \in [at : {"reserve", "append"}, rest : Seq(Interned'), nr : Nat, asked : Texts]
      BY <1>2, <1>9
    <2>2. op'.nr = Len(op'.asked) /\ Len(op'.rest) \in 0..2
      BY <1>6, <1>7, <1>9
    <2>3. op'.at = "reserve" => tmp_buf'.nr = 0 /\ Len(op'.rest) = 2
      BY <1>3, <1>7, <1>9
    <2>4. op'.asked = SubSeq(tmp_buf'.data, 1, tmp_buf'.nr) \o Remaining(op.rest)'
      <3>1. Remaining(op.rest)' = asked
        BY <1>2, <1>7, <1>9 DEF Remaining
      <3> QED BY <1>3, <1>8, <1>9, <3>1
    <2> QED BY <2>1, <2>2, <2>3, <2>4 DEF Joining
  <1> QED BY <1>2, <1>4, <1>10 DEF IInv, OpOK

(* Room is made, and nothing is in the buffer yet. *)
LEMMA ReserveKeeps ==
  ASSUME IInv, Reserve
  PROVE  IInv'
  <1>1. CASE Throw
    BY <1>1, ThrowKeeps
  <1>2. CASE ~Throw
    <2>1. /\ op.at = "reserve" /\ tmp_buf' = Reserved(tmp_buf, op.nr + 1)
          /\ op' = [op EXCEPT !.at = "append"]
          /\ UNCHANGED <<strs, buckets>>
      BY <1>2 DEF Reserve
    <2>2. Joining
      BY <2>1 DEF IInv, OpOK, Making, Idle
    <2>3. /\ op \in [at : {"reserve", "append"}, rest : Seq(Interned), nr : Nat, asked : Texts]
          /\ op.nr = Len(op.asked) /\ Len(op.rest) = 2 /\ tmp_buf.nr = 0
          /\ op.asked = SubSeq(tmp_buf.data, 1, 0) \o Remaining(op.rest)
      BY <2>1, <2>2 DEF Joining
    <2>4. /\ TableOK' /\ OneStrPerContents' /\ Interned' = Interned
          /\ Remaining(op.rest)' = Remaining(op'.rest)
      <3>1. /\ TableOK' /\ OneStrPerContents' /\ Interned' = Interned
            /\ \A s : Contents(s)' = Contents(s)
        BY <2>1, TableStays DEF IInv
      <3> QED BY <3>1 DEF Remaining
    <2>5. tmp_buf \in Buffers /\ tmp_buf.data \in Texts /\ op.nr + 1 \in Nat
      BY <2>3 DEF IInv, BufferOK, Sound, Buffers
    <2>6. /\ tmp_buf' \in Buffers /\ tmp_buf'.nr = 0
          /\ tmp_buf'.alloc = op.nr + 1 /\ Len(tmp_buf'.data) = op.nr + 1
          /\ tmp_buf'.data \in Texts
      <3>1. /\ tmp_buf' \in Buffers /\ tmp_buf'.nr = 0
            /\ tmp_buf'.alloc = op.nr + 1 /\ Len(tmp_buf'.data) = op.nr + 1
        BY <2>1, <2>3, <2>5, ReservedKeeps
      <3> QED BY <3>1 DEF Buffers
    <2>7. BufferOK'
      BY <2>5, <2>6 DEF BufferOK, Sound
    <2>8. /\ op' \in [at : {"reserve", "append"}, rest : Seq(Interned), nr : Nat, asked : Texts]
          /\ op'.at = "append" /\ op'.rest = op.rest /\ op'.nr = op.nr /\ op'.asked = op.asked
      BY <2>1, <2>3
    <2>9. SubSeq(tmp_buf.data, 1, 0) = <<>> /\ SubSeq(tmp_buf'.data, 1, 0) = <<>>
      BY <2>5, <2>6, CutNothing DEF Texts
    <2>10. op'.asked = SubSeq(tmp_buf'.data, 1, tmp_buf'.nr) \o Remaining(op.rest)'
      BY <2>3, <2>4, <2>6, <2>8, <2>9
    <2>11. op'.nr = Len(op'.asked) /\ Len(op'.rest) \in 0..2 /\ op'.at # "reserve"
      BY <2>3, <2>8
    <2>12. Joining'
      BY <2>4, <2>8, <2>10, <2>11 DEF Joining
    <2> QED BY <2>4, <2>7, <2>12 DEF IInv, OpOK
  <1> QED BY <1>1, <1>2

(* Of one string or two that remain, the contents go behind what is there. *)
LEMMA AppendNextKeeps ==
  ASSUME IInv, AppendNext
  PROVE  IInv'
  <1> DEFINE head == Contents(Head(op.rest))
             done == SubSeq(tmp_buf.data, 1, tmp_buf.nr)
             left == Remaining(Tail(op.rest))
  <1>1. /\ op.at = "append" /\ op.rest # <<>> /\ tmp_buf' = Appended(tmp_buf, head)
        /\ op' = [op EXCEPT !.rest = Tail(@)]
        /\ UNCHANGED <<strs, buckets>>
    BY DEF AppendNext
  <1>2. Joining
    BY <1>1 DEF IInv, OpOK, Making, Idle
  <1>3. /\ op \in [at : {"reserve", "append"}, rest : Seq(Interned), nr : Nat, asked : Texts]
        /\ op.nr = Len(op.asked) /\ op.rest \in Seq(Interned) /\ Len(op.rest) \in {1, 2}
        /\ op.asked = done \o Remaining(op.rest)
    BY <1>1, <1>2, EmptySeq DEF Joining
  <1>4. /\ op' \in [at : {"reserve", "append"}, rest : Seq(Interned), nr : Nat, asked : Texts]
        /\ op'.at = "append" /\ op'.rest = Tail(op.rest) /\ op'.nr = op.nr
        /\ op'.asked = op.asked
    <2>1. Tail(op.rest) \in Seq(Interned)
      BY <1>1, <1>3, HeadTailProperties
    <2> QED BY <1>1, <1>3, <2>1
  <1>5. /\ TableOK' /\ OneStrPerContents' /\ Interned' = Interned
        /\ Remaining(op.rest)' = left
    <2>1. /\ TableOK' /\ OneStrPerContents' /\ Interned' = Interned
          /\ \A s : Contents(s)' = Contents(s)
      BY <1>1, TableStays DEF IInv
    <2> QED BY <1>4, <2>1 DEF Remaining
  <1>6. Sound(tmp_buf) /\ tmp_buf.nr \in 0..Len(tmp_buf.data) /\ tmp_buf.data \in Texts
    BY DEF IInv, BufferOK, Sound, Buffers
  <1>7. done \in Texts
    BY <1>6, PrefixProperties DEF Texts
  <1>8. Head(op.rest) = op.rest[1] /\ op.rest[1] \in Interned
    BY <1>1, <1>3, HeadTailProperties
  <1>9. head \in Texts
    BY <1>8, ContentsTyped DEF IInv
  <1>10. left \in Texts /\ Remaining(op.rest) = head \o left
    <2>1. CASE Len(op.rest) = 2
      <3>1. Len(Tail(op.rest)) = 1 /\ Tail(op.rest)[1] = op.rest[2] /\ op.rest[2] \in Interned
        BY <1>1, <1>3, <2>1, HeadTailProperties
      <3>2. left = Contents(op.rest[2])
        BY <3>1 DEF Remaining
      <3>3. Contents(op.rest[2]) \in Texts
        BY <3>1, ContentsTyped DEF IInv
      <3> QED BY <1>8, <2>1, <3>2, <3>3 DEF Remaining
    <2>2. CASE Len(op.rest) = 1
      <3>1. Len(Tail(op.rest)) = 0
        BY <1>1, <1>3, <2>2, HeadTailProperties
      <3>2. left = <<>> /\ left \in Texts
        BY <3>1 DEF Remaining, Texts
      <3>3. Remaining(op.rest) = head
        BY <1>8, <2>2 DEF Remaining
      <3>4. head \o <<>> = head
        BY <1>9, ConcatEmptySeq DEF Texts
      <3> QED BY <3>2, <3>3, <3>4
    <2> QED BY <1>3, <2>1, <2>2
  <1> HIDE DEF head
  <1>11. /\ Sound(tmp_buf')
         /\ SubSeq(tmp_buf'.data, 1, tmp_buf'.nr) = done \o head
    BY <1>1, <1>6, <1>9, AppendedEnds
  <1> HIDE DEF done, left
  <1>12. done \o (head \o left) = (done \o head) \o left
    BY <1>7, <1>9, <1>10, ConcatAssociative DEF Texts
  <1>13. op'.asked = SubSeq(tmp_buf'.data, 1, tmp_buf'.nr) \o Remaining(op.rest)'
    BY <1>3, <1>4, <1>5, <1>10, <1>11, <1>12
  <1>14. op'.nr = Len(op'.asked) /\ Len(op'.rest) \in 0..2 /\ op'.at # "reserve"
    <2>1. Len(Tail(op.rest)) = Len(op.rest) - 1
      BY <1>1, <1>3, HeadTailProperties
    <2> QED BY <1>3, <1>4, <2>1
  <1>15. Joining'
    BY <1>4, <1>5, <1>13, <1>14 DEF Joining
  <1>16. BufferOK'
    BY <1>11 DEF BufferOK, Sound
  <1> QED BY <1>5, <1>15, <1>16 DEF IInv, OpOK

(* What is in the buffer then is what was asked for. *)
LEMMA ConcatenatedKeeps ==
  ASSUME IInv, Concatenated
  PROVE  IInv'
  <1> DEFINE done == SubSeq(tmp_buf.data, 1, tmp_buf.nr)
  <1>1. /\ op.at = "append" /\ op.rest = <<>>
        /\ Begin(SubSeq(tmp_buf.data, 1, op.nr), op.asked)
        /\ UNCHANGED <<strs, buckets, tmp_buf>>
    BY DEF Concatenated
  <1>2. Joining
    BY <1>1 DEF IInv, OpOK, Making, Idle
  <1>3. op.nr = Len(op.asked) /\ op.asked = done \o Remaining(<<>>) /\ op.asked \in Texts
    BY <1>1, <1>2 DEF Joining
  <1>4. tmp_buf.nr \in 0..Len(tmp_buf.data) /\ tmp_buf.data \in Texts
    BY DEF IInv, BufferOK, Sound, Buffers
  <1>5. done \in Texts /\ Len(done) = tmp_buf.nr
    BY <1>4, PrefixProperties DEF Texts
  <1> HIDE DEF done
  <1>6. Remaining(<<>>) = <<>> /\ done \o <<>> = done
    <2>1. Len(<<>>) = 0
      OBVIOUS
    <2> QED BY <1>5, <2>1, ConcatEmptySeq DEF Remaining, Texts
  <1>7. op.asked = done /\ op.nr = tmp_buf.nr
    BY <1>3, <1>5, <1>6
  <1>8. Begin(op.asked, op.asked)
    BY <1>1, <1>7 DEF done
  <1>9. OpOK'
    BY <1>3, <1>8, BeginMakes
  <1>10. TableOK' /\ OneStrPerContents'
    BY <1>1, TableStays DEF IInv
  <1>11. BufferOK'
    BY <1>1 DEF IInv, BufferOK, Sound
  <1> QED BY <1>9, <1>10, <1>11 DEF IInv

(* A string that is found is returned, and nothing changes. *)
LEMMA SearchKeeps ==
  ASSUME IInv, Search
  PROVE  IInv'
  <1>1. TableOK' /\ OneStrPerContents'
    BY TableStays DEF IInv, Search
  <1>2. BufferOK'
    BY DEF IInv, Search, BufferOK, Sound
  <1>3. OpOK'
    BY DEF Search, Return, OpOK, Idle
  <1> QED BY <1>1, <1>2, <1>3 DEF IInv

(* The search found nothing, so nothing of the table has the contents; and *)
(* the new Str is not of the table yet.                                    *)
LEMMA AllocStrKeeps ==
  ASSUME IInv, AllocStr
  PROVE  IInv' /\ (~Throw => Interned' = Interned
                            /\ \A s \in Interned : Contents(s)' = Contents(s))
  <1>1. CASE Throw
    BY <1>1, ThrowKeeps
  <1>2. CASE ~Throw
    <2> DEFINE new == [nr |-> 0, base |-> <<>>, hash |-> 0]
    <2>1. /\ op.at = "search" /\ Found(op.ptr) = {} /\ strs' = Append(strs, new)
          /\ op' = [op EXCEPT !.at = "base"]
          /\ UNCHANGED <<buckets, tmp_buf>>
      BY <1>2 DEF AllocStr
    <2>2. Making
      BY <2>1 DEF IInv, OpOK, Joining, Idle
    <2>3. /\ op \in [at : {"search", "base"}, ptr : Texts, asked : Texts]
          /\ op.ptr = op.asked /\ op.ptr \in Texts
      BY <2>2 DEF Making
    <2>4. new \in Strs
      BY DEF Strs, Texts
    <2>5. strs \in Seq(Strs) /\ DOMAIN strs = 1..Len(strs) /\ Len(strs) \in Nat
      BY DEF IInv, TableOK
    <2> HIDE DEF new
    <2>6. /\ strs' \in Seq(Strs) /\ Len(strs') = Len(strs) + 1
          /\ \A s \in 1..Len(strs) : strs'[s] = strs[s]
      BY <2>1, <2>4, <2>5, AppendProperties
    <2>7. Interned' = Interned
      BY <2>1 DEF Interned
    <2>8. \A s \in Interned : s \in 1..Len(strs) /\ strs'[s] = strs[s]
      BY <2>6, ContentsTyped DEF IInv
    <2>9. \A s \in Interned : Contents(s)' = Contents(s)
      BY <2>8 DEF Contents
    <2>10. TableOK'
      <3>1. DOMAIN strs' = 1..(Len(strs) + 1)
        BY <2>5, <2>6
      <3>2. Interned \subseteq DOMAIN strs'
        BY <2>5, <2>8, <3>1
      <3>3. \A s \in Interned : strs'[s].nr <= Len(strs'[s].base)
        BY <2>8 DEF IInv, TableOK
      <3>4. /\ buckets' \in [Indexes -> Seq(Nat)]
            /\ \A b \in Indexes : b # 0 => buckets'[b] = <<>>
        BY <2>1 DEF IInv, TableOK
      <3> QED BY <2>6, <2>7, <3>2, <3>3, <3>4 DEF TableOK
    <2>11. OneStrPerContents'
      BY <2>7, <2>9 DEF IInv, OneStrPerContents
    <2>12. BufferOK'
      BY <2>1 DEF IInv, BufferOK, Sound
    <2>13. /\ op' \in [at : {"search", "base"}, ptr : Texts, asked : Texts]
           /\ op'.at = "base" /\ op'.ptr = op.ptr /\ op'.asked = op.asked
      BY <2>1, <2>3
    <2>14. Len(strs') # 0 /\ Len(strs') \notin Interned
      BY <2>5, <2>6, <2>8
    <2>15. \A s \in Interned : Contents(s) # op.ptr
      BY <2>1, <2>3, FindsContents DEF IInv
    <2>16. Making'
      <3>1. \A s \in Interned' : Contents(s)' # op'.ptr
        BY <2>7, <2>9, <2>13, <2>15
      <3> QED BY <2>3, <2>7, <2>13, <2>14, <3>1 DEF Making
    <2> QED BY <2>7, <2>9, <2>10, <2>11, <2>12, <2>16 DEF IInv, OpOK
  <1> QED BY <1>1, <1>2

(* The new string has its contents, and they are in the table then.        *)
LEMMA AllocBaseKeeps ==
  ASSUME IInv, AllocBase, ~Throw, NEW s, s = Len(strs)
  PROVE  /\ IInv'
         /\ s \notin Interned /\ Interned' = Interned \cup {s}
         /\ op.asked \in Texts /\ Contents(s)' = op.asked
         /\ \A t \in Interned : Contents(t)' = Contents(t) /\ Contents(t) # op.asked
         /\ last' = [asked |-> op.asked, str |-> s]
  <1> DEFINE base == Append(op.ptr, NUL)
             new == [nr |-> Len(op.ptr), base |-> base, hash |-> Hash(op.ptr)]
  <1>1. /\ op.at = "base" /\ strs' = [strs EXCEPT ![s] = new]
        /\ buckets' = Inserted(Hash(op.ptr), s)
        /\ op' = Idle /\ last' = [asked |-> op.asked, str |-> s]
        /\ UNCHANGED tmp_buf
    BY DEF AllocBase, Return
  <1>2. Making
    BY <1>1 DEF IInv, OpOK, Joining, Idle
  <1>3. /\ op.ptr \in Texts /\ op.asked = op.ptr
        /\ s # 0 /\ s \notin Interned
        /\ \A t \in Interned : Contents(t) # op.ptr
    BY <1>1, <1>2 DEF Making
  <1>4. strs \in Seq(Strs) /\ DOMAIN strs = 1..s /\ s \in Nat
    BY DEF IInv, TableOK
  <1>5. /\ base \in Texts /\ Len(base) = Len(op.ptr) + 1
        /\ SubSeq(base, 1, Len(op.ptr)) = op.ptr
    <2>1. NUL \in Chars
      BY DEF Chars
    <2> QED BY <1>3, <2>1, AppendProperties, AppendCut DEF Texts
  <1> HIDE DEF base
  <1>6. Hash(op.ptr) = 0 /\ Len(op.ptr) \in Nat
    BY <1>3 DEF Hash, Texts
  <1>7. new \in Strs
    BY <1>5, <1>6 DEF Strs
  <1>8. new.nr = Len(op.ptr) /\ new.base = base
    OBVIOUS
  <1> HIDE DEF new
  <1>9. s \in DOMAIN strs
    BY <1>3, <1>4
  <1>10. /\ strs' \in Seq(Strs) /\ DOMAIN strs' = 1..s
         /\ strs'[s] = new /\ \A t \in DOMAIN strs : t # s => strs'[t] = strs[t]
    BY <1>1, <1>4, <1>7, <1>9, ExceptSeq
  <1>11. /\ Interned' = Interned \cup {s}
         /\ buckets' \in [Indexes -> Seq(Nat)]
         /\ \A b \in Indexes : b # 0 => buckets'[b] = <<>>
    BY <1>1, <1>4, <1>6, InsertedAdds DEF IInv
  <1>12. \A t \in Interned : t \in DOMAIN strs /\ strs'[t] = strs[t] /\ Contents(t)' = Contents(t)
    <2>1. \A t \in Interned : t \in DOMAIN strs /\ t # s
      BY <1>3 DEF IInv, TableOK
    <2> QED BY <1>10, <2>1 DEF Contents
  <1>13. Contents(s)' = op.ptr
    BY <1>5, <1>8, <1>10 DEF Contents
  <1>14. TableOK'
    <2>1. Interned' \subseteq DOMAIN strs'
      BY <1>4, <1>9, <1>10, <1>11, <1>12
    <2>2. strs'[s].nr <= Len(strs'[s].base)
      BY <1>5, <1>6, <1>8, <1>10
    <2>3. \A t \in Interned : strs'[t].nr <= Len(strs'[t].base)
      BY <1>12 DEF IInv, TableOK
    <2> QED BY <1>10, <1>11, <2>1, <2>2, <2>3 DEF TableOK
  <1>15. OneStrPerContents'
    <2>1. \A t \in Interned : Contents(t)' # Contents(s)'
      BY <1>3, <1>12, <1>13
    <2>2. \A t, u \in Interned : Contents(t)' = Contents(u)' => t = u
      BY <1>12 DEF IInv, OneStrPerContents
    <2> QED BY <1>11, <2>1, <2>2 DEF OneStrPerContents
  <1>16. BufferOK' /\ OpOK'
    BY <1>1 DEF IInv, BufferOK, Sound, OpOK
  <1> QED BY <1>1, <1>3, <1>11, <1>12, <1>13, <1>14, <1>15, <1>16 DEF IInv

(* No call. *)
LEMMA StutterKeeps ==
  ASSUME IInv, UNCHANGED svars
  PROVE  IInv'
  <1> USE DEF svars
  <1>1. TableOK' /\ OneStrPerContents' /\ Interned' = Interned
        /\ \A rest : Remaining(rest)' = Remaining(rest)
    BY TableStays DEF IInv
  <1>2. BufferOK'
    BY DEF IInv, BufferOK, Sound
  <1>3. \A s : Contents(s)' = Contents(s)
    BY DEF Contents
  <1>4. OpOK'
    <2>1. Making => Making'
      BY <1>1, <1>3 DEF Making
    <2>2. Joining => Joining'
      BY <1>1, <1>3 DEF Joining, Remaining
    <2> QED BY <2>1, <2>2 DEF IInv, OpOK
  <1> QED BY <1>1, <1>2, <1>4 DEF IInv

(* StrTab_init and MBuffer_init. *)
LEMMA InitIInv == Init => IInv
  <1> SUFFICES ASSUME Init PROVE IInv
    OBVIOUS
  <1>1. /\ strs = <<>> /\ buckets = [b \in Indexes |-> <<>>]
        /\ tmp_buf = [data |-> <<>>, nr |-> 0, alloc |-> 0] /\ op = Idle
    BY DEF Init, Indexes
  <1>2. 0 \in Indexes
    BY DEF Indexes, BucketsNr
  <1>3. Interned = {}
    BY <1>1, <1>2 DEF Interned, ToSet
  <1>4. strs \in Seq(Strs) /\ buckets \in [Indexes -> Seq(Nat)]
    BY <1>1
  <1>5. TableOK
    BY <1>1, <1>3, <1>4 DEF TableOK
  <1>6. BufferOK
    BY <1>1 DEF BufferOK, Sound, Buffers, Texts
  <1> QED BY <1>1, <1>3, <1>5, <1>6 DEF IInv, OpOK, OneStrPerContents

(* Every step keeps the invariant. *)
LEMMA NextKeeps == IInv /\ [Next]_svars => IInv'
  <1> SUFFICES ASSUME IInv, [Next]_svars PROVE IInv'
    OBVIOUS
  <1>1. ASSUME NEW sz \in Memory, NEW len \in 0..Len(sz), NewStr(sz, len)
        PROVE  IInv'
    BY <1>1, NewStrKeeps
  <1>2. ASSUME NEW sz \in Memory, NewFmt(sz)
        PROVE  IInv'
    BY <1>2, NewFmtKeeps
  <1>3. ASSUME NEW a \in Interned, NEW b \in Interned, Concat(a, b)
        PROVE  IInv'
    BY <1>3, ConcatKeeps
  <1>4. CASE Reserve \/ AppendNext \/ Concatenated
    BY <1>4, ReserveKeeps, AppendNextKeeps, ConcatenatedKeeps
  <1>5. CASE Search \/ AllocStr
    BY <1>5, SearchKeeps, AllocStrKeeps
  <1>6. CASE AllocBase
    BY <1>6, ThrowKeeps, AllocBaseKeeps
  <1>7. CASE UNCHANGED svars
    BY <1>7, StutterKeeps
  <1> QED BY <1>1, <1>2, <1>3, <1>4, <1>5, <1>6, <1>7 DEF Next

(* So it holds always. *)
LEMMA IInvAlways == Spec => []IInv
  BY InitIInv, NextKeeps, PTL DEF Spec

-----------------------------------------------------------------------------
(* The buffer has the room it says, and the chains are of strings there    *)
(* are: realloc and the three ways to fill tmp_buf (zio.h 38-75, str.cpp)  *)
(* keep the size and the number in step.                                   *)
THEOREM TypeCorrect == Spec => []TypeOK
  <1>1. ASSUME IInv PROVE TypeOK
    <2>1. \A s \in DOMAIN strs : strs[s].nr \in Nat /\ strs[s].hash \in Nat
      <3>1. \A s \in DOMAIN strs : strs[s] \in Strs
        BY <1>1 DEF IInv, TableOK
      <3> QED BY <3>1 DEF Strs
    <2>2. ASSUME NEW b \in DOMAIN buckets
          PROVE  ToSet(buckets[b]) \subseteq DOMAIN strs
      <3>1. b \in Indexes
        BY <1>1 DEF IInv, TableOK
      <3>2. CASE b = 0
        BY <1>1, <3>2 DEF IInv, TableOK, Interned
      <3>3. CASE b # 0
        <4>1. buckets[b] = <<>>
          BY <1>1, <3>1, <3>3 DEF IInv, TableOK
        <4> QED BY <4>1 DEF ToSet
      <3> QED BY <3>2, <3>3
    <2>3. Len(tmp_buf.data) = tmp_buf.alloc /\ tmp_buf.nr \in 0..tmp_buf.alloc
      BY <1>1 DEF IInv, BufferOK, Sound, Buffers
    <2> QED BY <2>1, <2>2, <2>3 DEF TypeOK
  <1> QED BY <1>1, IInvAlways, PTL

(* Equal strings are one object, so that comparing pointers compares       *)
(* strings (thread.cpp 24-67): between the search that finds nothing and   *)
(* the insertion the table does not change.                                *)
THEOREM OneStr == Spec => []OneStrPerContents
  <1>1. ASSUME IInv PROVE OneStrPerContents
    BY <1>1 DEF IInv
  <1> QED BY <1>1, IInvAlways, PTL

-----------------------------------------------------------------------------
(* The table implements NfIntern. *)

(* What is known of the contents of a string is the string. *)
LEMMA KnownIsIt ==
  ASSUME OneStrPerContents
  PROVE  /\ DOMAIN Known = {Contents(s) : s \in Interned}
         /\ \A s \in Interned : Contents(s) \in DOMAIN Known /\ Known[Contents(s)] = s
         /\ Range(Known) \subseteq Interned
  <1>1. DOMAIN Known = {Contents(s) : s \in Interned}
    BY DEF Known
  <1>2. ASSUME NEW s \in Interned
        PROVE  Contents(s) \in DOMAIN Known /\ Known[Contents(s)] = s
    <2> DEFINE it == CHOOSE t \in Interned : Contents(t) = Contents(s)
    <2>1. Contents(s) \in DOMAIN Known /\ Known[Contents(s)] = it
      BY <1>1 DEF Known
    <2>2. it \in Interned /\ Contents(it) = Contents(s)
      OBVIOUS
    <2> HIDE DEF it
    <2>3. it = s
      BY <2>2 DEF OneStrPerContents
    <2> QED BY <2>1, <2>3
  <1>3. Range(Known) \subseteq Interned
    <2>1. ASSUME NEW x \in Range(Known)
          PROVE  x \in Interned
      <3>1. PICK text \in DOMAIN Known : x = Known[text]
        BY <2>1 DEF Range
      <3>2. PICK s \in Interned : text = Contents(s)
        BY <1>1
      <3> QED BY <1>2, <3>1, <3>2
    <2> QED BY <2>1
  <1> QED BY <1>1, <1>2, <1>3

(* So it is after a step. *)
LEMMA KnownIsItThen ==
  ASSUME OneStrPerContents'
  PROVE  \A s \in Interned' : Known'[Contents(s)'] = s
  <1> DEFINE it(text) == CHOOSE t \in Interned' : SubSeq(strs'[t].base, 1, strs'[t].nr) = text
  <1> SUFFICES ASSUME NEW s \in Interned' PROVE Known'[Contents(s)'] = s
    OBVIOUS
  <1>1. PICK text : text = Contents(s)'
    OBVIOUS
  <1>2. Known' = [c \in {Contents(t)' : t \in Interned'} |-> it(c)]
    BY DEF Known, Contents
  <1>3. text \in {Contents(t)' : t \in Interned'}
    BY <1>1
  <1>4. Known'[text] = it(text)
    <2> HIDE DEF it
    <2> QED BY <1>2, <1>3
  <1>5. /\ it(text) \in Interned'
        /\ SubSeq(strs'[it(text)].base, 1, strs'[it(text)].nr) = text
    <2>1. SubSeq(strs'[s].base, 1, strs'[s].nr) = text
      BY <1>1 DEF Contents
    <2> QED BY <2>1
  <1> HIDE DEF it
  <1>6. PICK t \in Interned' : t = it(text)
    BY <1>5
  <1>7. Contents(t)' = Contents(s)'
    BY <1>1, <1>5, <1>6 DEF Contents
  <1> QED BY <1>1, <1>4, <1>6, <1>7 DEF OneStrPerContents

(* As long as the strings of the table keep their contents, what is known  *)
(* of them stays.                                                          *)
LEMMA KnownStays ==
  ASSUME OneStrPerContents, OneStrPerContents', Interned' = Interned,
         \A s \in Interned : Contents(s)' = Contents(s)
  PROVE  Known' = Known
  <1>1. /\ DOMAIN Known = {Contents(s) : s \in Interned}
        /\ \A s \in Interned : Contents(s) \in DOMAIN Known /\ Known[Contents(s)] = s
    BY KnownIsIt
  <1>2. DOMAIN Known' = {Contents(s)' : s \in Interned'}
    BY DEF Known
  <1>3. DOMAIN Known' = DOMAIN Known
    BY <1>1, <1>2
  <1>4. \A s \in Interned : Known'[Contents(s)] = s
    BY KnownIsItThen
  <1>5. \A text \in DOMAIN Known : Known'[text] = Known[text]
    BY <1>1, <1>4
  <1>6. Known = [text \in DOMAIN Known |-> Known[text]]
    BY DEF Known
  <1>7. Known' = [text \in DOMAIN Known' |-> Known'[text]]
    BY DEF Known
  <1> QED BY <1>3, <1>5, <1>6, <1>7

(* Nothing is known of an empty table. *)
LEMMA InitImplements == Init => Intern!Init
  <1> SUFFICES ASSUME Init PROVE Intern!Init
    OBVIOUS
  <1>1. Interned = {}
    <2>1. buckets[0] = <<>>
      BY DEF Init, BucketsNr
    <2> QED BY <2>1 DEF Interned, ToSet
  <1>2. Known = <<>>
    BY <1>1 DEF Known
  <1> QED BY <1>2 DEF Init, Intern!Init, None

(* A step that returns nothing leaves what is known, and the last answer.  *)
LEMMA StepImplements ==
  ASSUME IInv, [Next]_svars, IInv'
  PROVE  [Intern!Answered]_<<Known, last>>
  <1>1. OneStrPerContents /\ OneStrPerContents' /\ TableOK
    BY DEF IInv
  <1>2. ASSUME UNCHANGED <<strs, buckets>>
        PROVE  UNCHANGED Known
    BY <1>1, <1>2, TableStays, KnownStays
  <1>3. CASE UNCHANGED <<strs, buckets, last>>
    BY <1>2, <1>3
  <1>4. CASE Throw
    BY <1>2, <1>4 DEF Throw
  (* The search found what has the contents that were asked for.           *)
  <1>5. CASE Search
    <2> DEFINE found == Chain(op.ptr)[Min(Found(op.ptr))]
    <2>1. /\ op.at = "search" /\ Found(op.ptr) # {}
          /\ last' = [asked |-> op.asked, str |-> found]
          /\ UNCHANGED <<strs, buckets>>
      BY <1>5 DEF Search, Return
    <2>2. Making
      BY <2>1 DEF IInv, OpOK, Joining, Idle
    <2>3. op.ptr \in Texts /\ op.asked = op.ptr
      BY <2>2 DEF Making
    <2>4. found \in Interned /\ Contents(found) = op.ptr
      BY <1>1, <2>1, <2>3, FindsContents
    <2> HIDE DEF found
    <2>5. op.asked \in DOMAIN Known /\ Known[op.asked] = found
      BY <1>1, <2>3, <2>4, KnownIsIt
    <2>6. UNCHANGED Known
      BY <1>2, <2>1
    <2>7. last'.asked = op.asked /\ last'.str = found
      BY <2>1
    <2> QED BY <2>5, <2>6, <2>7 DEF Intern!Answered
  <1>6. CASE AllocStr /\ ~Throw
    <2>1. Interned' = Interned /\ \A s \in Interned : Contents(s)' = Contents(s)
      BY <1>6, AllocStrKeeps
    <2>2. UNCHANGED Known
      BY <1>1, <2>1, KnownStays
    <2> QED BY <1>6, <2>2 DEF AllocStr
  (* A new string with contents that none has. *)
  <1>7. CASE AllocBase /\ ~Throw
    <2>1. PICK s : s = Len(strs)
      OBVIOUS
    <2>2. /\ s \notin Interned /\ Interned' = Interned \cup {s}
          /\ Contents(s)' = op.asked
          /\ \A t \in Interned : Contents(t)' = Contents(t) /\ Contents(t) # op.asked
          /\ last' = [asked |-> op.asked, str |-> s]
      BY <1>7, <2>1, AllocBaseKeeps
    <2>3. last'.asked = op.asked /\ last'.str = s
      BY <2>2
    <2>4. /\ DOMAIN Known = {Contents(t) : t \in Interned}
          /\ \A t \in Interned : Known[Contents(t)] = t
          /\ Range(Known) \subseteq Interned
      BY <1>1, KnownIsIt
    <2>5. op.asked \notin DOMAIN Known /\ s \notin Range(Known)
      BY <2>2, <2>4
    <2> DEFINE more == DOMAIN Known \cup {op.asked}
               new == [text \in more |-> IF text = op.asked THEN s ELSE Known[text]]
    <2>6. Known' = new
      <3>1. DOMAIN Known' = {Contents(t)' : t \in Interned'}
        BY DEF Known
      <3>2. DOMAIN Known' = more
        BY <2>2, <2>4, <3>1
      <3>3. \A t \in Interned' : Known'[Contents(t)'] = t
        BY <1>1, KnownIsItThen
      <3>4. \A text \in more : Known'[text] = new[text]
        BY <2>2, <2>4, <2>5, <3>3
      <3>5. Known' = [text \in more |-> Known'[text]]
        BY <3>2 DEF Known
      <3> QED BY <3>4, <3>5
    <2>7. s \notin Intern!Range(Known)
      BY <2>5 DEF Range, Intern!Range
    <2>8. Known' = [t \in DOMAIN Known \cup {last'.asked} |->
                      IF t = last'.asked THEN last'.str ELSE Known[t]]
      BY <2>3, <2>6
    <2> QED BY <2>3, <2>5, <2>7, <2>8 DEF Intern!Answered
  <1> QED BY <1>3, <1>4, <1>5, <1>6, <1>7
        DEF Next, svars, NewStr, NewFmt, Concat, Reserve, AppendNext, Concatenated

(* Every request for contents is answered with the one object that has     *)
(* them, for ever.                                                         *)
THEOREM Refinement == Spec => ImplementsIntern
  <1>1. IInv /\ [Next]_svars /\ IInv' => [Intern!Answered]_<<Known, last>>
    BY StepImplements
  <1> QED BY <1>1, InitImplements, IInvAlways, PTL DEF Spec, ImplementsIntern, Intern!Spec
=============================================================================

--------------------------------- MODULE NfZio ---------------------------------
(***************************************************************************)
(* The input buffer (nf/src/zio.cpp) over the readers of thread.cpp, as    *)
(* operators on a ZIO.  A reader gives its text in chunks: LoadS_read all  *)
(* of it at once, FILE_read at most limit bytes, and feof is set by a      *)
(* chunk that is shorter.  LoadS_read is FILE_read with a limit the text   *)
(* does not reach.  Nothing calls ZIO_read.                                *)
(*                                                                         *)
(* A byte is what char to int makes of it: the byte 0xFF is EOF where char *)
(* is signed.                                                              *)
(***************************************************************************)
EXTENDS Integers, Sequences

EOF == "EOF"

(* ZIO_init: what the reader has, and the bytes still unread.              *)
Zio(text, limit) == [src |-> text, limit |-> limit, eof |-> FALSE, unread |-> <<>>]

(* The reader's next chunk; none after feof.                               *)
ChunkSize(self) ==
  IF self.eof THEN 0 ELSE IF Len(self.src) < self.limit THEN Len(self.src) ELSE self.limit

(* ZIO_fill: the chunk, if there is one, replaces what was read.  ZIO_fill *)
(* removes the first byte; see Peeked.                                     *)
Filled(self) ==
  LET n == ChunkSize(self) IN
  [self EXCEPT !.src = SubSeq(@, n + 1, Len(@)), !.unread = SubSeq(self.src, 1, n),
               !.eof = n < self.limit]

(* ZIO_peek: the byte, and what is left.  After ZIO_fill the first byte is *)
(* put back, unless it is taken for EOF; or it never is.                   *)
PeekChr(self) ==
  LET there == IF self.unread = <<>> THEN Filled(self) ELSE self
  IN IF there.unread = <<>> THEN EOF ELSE Head(there.unread)

PeekedGone(self) ==
  LET there == Filled(self) IN
  IF self.unread # <<>> THEN self
  ELSE IF there.unread # <<>> THEN [there EXCEPT !.unread = Tail(@)]
  ELSE there
Peeked(self) ==
  LET there == Filled(self) IN
  IF self.unread # <<>> THEN self
  ELSE IF there.unread # <<>> /\ Head(there.unread) = EOF
    THEN [there EXCEPT !.unread = Tail(@)]
  ELSE there

(* ZIO_next. *)
Taken(self) ==
  IF PeekChr(self) = EOF THEN Peeked(self)
  ELSE [Peeked(self) EXCEPT !.unread = SubSeq(@, 2, Len(@))]
=============================================================================

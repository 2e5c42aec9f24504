-------------------------------- MODULE NfStream -------------------------------
(***************************************************************************)
(* What the input buffer of nf promises: a text without borders.  Bytes    *)
(* are taken one after the other, and after the last one there is EOF for  *)
(* ever.                                                                   *)
(***************************************************************************)
EXTENDS Sequences

CONSTANTS
  Texts, \* texts to be read: sequences of bytes
  EOF

VARIABLES
  rest, \* what was not taken
  got   \* what was taken last

Init == rest \in Texts /\ got = EOF

Take ==
  IF rest = <<>>
    THEN got' = EOF /\ UNCHANGED rest
    ELSE got' = Head(rest) /\ rest' = Tail(rest)

Spec == Init /\ [][Take]_<<rest, got>>
=============================================================================

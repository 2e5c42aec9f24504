-------------------------------- MODULE NfIntern -------------------------------
(***************************************************************************)
(* What the string table of nf promises: to each contents belongs one      *)
(* object, for ever, which is what every request for them gets.            *)
(***************************************************************************)
EXTENDS Functions

CONSTANT None \* no request so far

VARIABLES
  known, \* the object of each contents there was a request for
  last   \* the last request: [asked, str]

Init == known = <<>> /\ last = None

(* The answer is the object of what was asked for, a new one if there was  *)
(* none.                                                                   *)
Answered ==
  LET s == last'.asked
      str == last'.str
  IN \/ s \in DOMAIN known /\ str = known[s] /\ UNCHANGED known
     \/ /\ s \notin DOMAIN known /\ str \notin Range(known)
        /\ known' = [t \in DOMAIN known \cup {s} |-> IF t = s THEN str ELSE known[t]]

Spec == Init /\ [][Answered]_<<known, last>>
=============================================================================

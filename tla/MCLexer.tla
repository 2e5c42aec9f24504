-------------------------------- MODULE MCLexer --------------------------------
(* Instances of NfLexer: all texts over an alphabet up to a length, with   *)
(* an Integer of eight bits and a keyword of two letters.                  *)
EXTENDS NfLexer

CONSTANT MaxText

MCChars == {"a", "b", "1", "9", ".", "=", "'", "\"", ";", " ", "?"}
MCTexts == UNION {[1..n -> MCChars] : n \in 0..MaxText}
MCLetters == {"a", "b"}
AB == <<"a", "b">>
=============================================================================

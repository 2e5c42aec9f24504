-------------------------------- MODULE MCStrTab -------------------------------
(* An instance of NfStrTab: texts of two characters, one of which also is  *)
(* the NUL at their end.                                                   *)
EXTENDS NfStrTab

MCMemory == {<<NUL>>, <<"a", NUL>>, <<"a", "b", NUL>>, <<"a", NUL, "b", NUL>>}
=============================================================================

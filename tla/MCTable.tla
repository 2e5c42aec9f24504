-------------------------------- MODULE MCTable --------------------------------
(* An instance of NfTable, with words of 8 bits: -0.0 has only the bit of  *)
(* the sign, NaN the bits of the exponent and one more.                    *)
EXTENDS NfTable

K(type, v) == [type |-> type, v |-> v]
Zero == 0
MinusZero == 128
NaN == 121

(* An Integer and a double that have the same bits, both zeros, NaN, an    *)
(* object and an Integer below zero.                                       *)
MCKeys == {K("Integer", 0), K("Number", Zero), K("Number", MinusZero),
           K("Number", NaN), K("String", 16), K("Integer", -1)}

MCNumEq(x, y) == (x = y /\ x # NaN) \/ {x, y} = {Zero, MinusZero}
=============================================================================

--------------------------------- MODULE NfMap ---------------------------------
(***************************************************************************)
(* What a table of nf promises: a map.  A key has the value stored under   *)
(* it last, nil if there is none.  It promises this of Regular keys, those *)
(* that are equal to themselves and to no other key; under the others any  *)
(* value may be found, but storing something under them changes nothing    *)
(* under a regular key.                                                    *)
(***************************************************************************)
CONSTANTS Keys, Regular, Values, NilValue

VARIABLES
  map,  \* the value of every regular key
  got   \* what was looked up last: [key, value]

mvars == <<map, got>>

Init ==
  /\ map = [k \in Regular |-> NilValue]
  /\ got \in [key : Keys, value : Values]

Put(key, value) ==
  /\ map' = [map EXCEPT ![key] = value]
  /\ UNCHANGED got

Get(key) ==
  /\ got' = [key |-> key, value |-> map[key]]
  /\ UNCHANGED map

(* Looking up a key that is not regular. *)
GetIrregular(key) ==
  /\ \E value \in Values : got' = [key |-> key, value |-> value]
  /\ UNCHANGED map

Next ==
  \/ \E key \in Regular, value \in Values : Put(key, value)
  \/ \E key \in Regular : Get(key)
  \/ \E key \in Keys \ Regular : GetIrregular(key)

Spec == Init /\ [][Next]_mvars
=============================================================================
